# A TLA+ model of webhookd

webhookd receives signed webhooks from Jira Service Management (JSM), turns a
ticket in the trigger status into a Kubernetes custom resource (CR), waits for
an operator to mark that CR ready, and answers with an HTTP status that tells
the sender whether to go on, to retry or to call a human. These modules model
the program from its Go source, check it with TLC on small instances, and prove
the central properties with TLAPS for every value of the constants.

## The system

| Part | State | Operations | Module |
|---|---|---|---|
| Executor (`internal/webhook/executor.go`) | where each delivery's goroutine is, the applied object, its watch, two metrics | `Execute`, `apply` (Patch, then Get), `waitForSync` (Get, Watch, loop), the end of the process | `Executor` |
| Kubernetes API server and operator (external) | the CRs, watch streams, what the operator works on | accept or refuse an apply, end a stream, reconcile, delete | `Kubernetes` |
| What a result promises (`result.go`) | written, settled, answered | the meaning of each `ResultKind` | `Provisioning` |
| Dispatcher (`dispatcher.go`, and the stamps of `executor.go`) | stage of each request, response, counters, what is on each CR | `ServeHTTP`, `writeResponse`, error mapping, `systemLabels`, `systemAnnotations`, the two merges | `Dispatcher` |
| JSM provider (`internal/webhook/jsm`) | none | `Decode`, `ExtractString`, `Handle`, `BuildSpec`, `CRName`, `Build` | `JSM` |
| Signatures (`signature.go`, `jsm/signature.go`) | clock, message | `Verify`, `VerifyTimestamp`, `VerifyHMAC` | `Signature` |
| Rate limiter (`internal/httpx/ratelimit.go`) | `sync.Map` of token buckets | `getLimiter`, `Allow`, `retryAfter` | `RateLimit` |
| Middleware (`internal/httpx/middleware.go`) | nested `statusRecorder`s, log, gauge, counters | `Recover`, `RequestID`, `SLog`, `Metrics` | `Middleware` |
| Configuration and wiring (`internal/config`, `registry.go`, `tracing.go`, `client.go`, `admin.go`, `main.go`) | the loader's sticky error, the `Config`, the sampler, the routes of both listeners | `Load`, `validate`, `NewTracerProvider`, `NewClients`, `Build`, `NewDispatcher`, `NewAdminMux` | `Startup` |
| Process lifecycle (`cmd/webhookd/main.go`, `/readyz` of `admin.go`) | two servers, `errCh`, readiness and the last probe's answer, exit code | `run`, `startServer`, `waitForShutdown`, `drainServers`, `/readyz` | `Lifecycle` |
| Time limits (`httpx/server.go`, `config.go`) | clock, deadlines of one delivery | write, sync and drain deadlines | `Timeouts` |

How they interact: a request passes the middleware (with the rate limiter in the
middle of the chain) and reaches the dispatcher, which asks the provider to
verify and to decide, and the executor to act. Every request's context is
derived from the one that SIGTERM cancels; a listener that fails starts the same
drain without cancelling anything. The deadline of a sync, the connection's
write deadline and the drain budget run against each other.

What is hard: several goroutines and an operator change one CR; generations
restart when a CR is recreated; a Patch may take effect after its caller gave
up, or after its process died; the status found on a CR may belong to an older
spec; `select` picks any of several ready cases; panics unwind through code that counts; a signal may arrive
anywhere. `PROJECT.json` lists each hazard with its line and the properties that
would catch it going wrong.

## Modules and their correspondence to the code

**Kubernetes** is what `executor.go` relies on, no code of the repository. A CR
has an incarnation (`uid`, counted upwards), a generation, a spec and a status
(`obs`, `ready`). An apply that changes the spec bumps the generation; every
apply emits an event, because the executor stamps new annotations each time. The
operator writes the status for the generation it read, however late. A watch
first lists the namespace in any order, then streams changes, and may end with a
`metav1.Status` object, which is no `client.Object` to the loop.

**Executor** has one action per call that `Execute` makes: `SendPatch` and the
return of the Patch (`PatchReturns`, `PatchRejected`, `PatchAbandoned` when the
context ends first and the apply stays on the wire), `PostApplyGet`,
`InitialGetReady`/`InitialGetPending`, `OpenWatch`, and one action per `select`
case of the loop. `IsReady` is the provider's ready check, `classifyK8sErr`,
`applyOutcome` and `syncOutcome` are the functions of those names. `SyncReturns`
includes the deferred `observeSync`.

Both Gets decode into an object that holds an earlier answer: the Get in `apply`
into the object that the Patch filled (`landed`), the initial Get of
`waitForSync` into a deep copy of what the first one returned (`applied`). JSON
decoding sets the fields that an answer has and leaves the others. A CR that the
operator has not reported on yet has no status, so that the object keeps the
status it had, of another incarnation if the CR was deleted and recreated in
between. `Decoded` is this step. Events of a watch are decoded into new objects.

`ProcessExits` ends any set of running deliveries at once: `os.Exit` after a
drain that overran, or a kill. The deliveries that share a process die together,
those of other replicas go on; because the set is arbitrary, the module covers
any number of replicas on one cluster, which share a field manager. A sender's
retry is another delivery with the same CR and spec.

**Provisioning** is the abstract specification: a delivery is accepted, its
write takes effect at most once, it is settled when the operator confirms it or
the CR is deleted, and an answer is allowed only if its meaning holds. `ExecutorProperties` maps the executor to it
(`Promises == INSTANCE Provisioning WITH ...`): a delivery is written when its
apply landed. It is settled when the operator has reported Ready for the version
it applied, with its spec, or for a later version of the same CR; or when the
incarnation it wrote is no longer in the store. The second case is there because
of what `Decoded` lets through (run `executor_stale`).

**Dispatcher** composes `JSM` and `Provisioning`: one action per early return of
`ServeHTTP`; the executor's part is any behaviour of the abstract specification
that `Executor` is shown to implement. Responses sent with `http.Error` have the
body "text" and are not counted, as in the code. `stored` is what webhookd owns
of each CR: the spec, and the labels and annotations that `apply` merges
(`Applied`). An apply replaces all of it, since the field manager owns all of it
and forces ownership. **JSM** abstracts a body to the
forms that decoding tells apart. `CRName` lower-cases the key, so that keys that
differ in case only share a CR; `Lower` is a constant for that reason.

**Signature** keeps texts as short sequences of characters, because the question
is which split of a concatenation was signed, and integers at `Width` bits,
because the difference of two times saturates. HMAC is taken to be injective.

**RateLimit** has one action per access to shared state: `Load`, `LoadOrStore`,
`Allow` (`Admit`, `Deny`), `Reserve`, and `Cancel` with the response. The token
bucket of `golang.org/x/time/rate` is external; its credit is kept in time
units, so that all arithmetic is on integers. The library reads the clock before
it takes its lock, so that two calls can reach a bucket with their times out of
order; here a call reads the clock and takes effect in one step, and the moment
between the two is left out.

**Middleware** treats the frames of a request as a stack, left by returning or
by a panic. The handler is any handler, not only the dispatcher; the first
header it writes is final, informational 1xx ones left aside. **Startup**
reads the settings in `Load`'s order with its sticky error, validates, and then
builds what `run()` builds, in its order and with its failures; numbers are
reduced to what `validate` and `samplerFor` compare, NaN included. **Lifecycle**
has the main goroutine, one goroutine per listener, requests, probes of
`/readyz` and the signal; `errCh` is a bounded sequence. **Timeouts** puts one delivery, the drain and their three
deadlines on one clock.

The `MC...` modules and the `.cfg` files hold the instances. A definition
commented as "Mutant" is a plausible bug; in its place the property named with
it in `PROJECT.json` fails.

## What the runs check

| Run | Distinct states | Question |
|---|---|---|
| `executor` | 1,156,575 | Is a 200 backed by the operator, but for a CR recreated between Patch and Get (`SuccessMeansReconciled`), is no wake-up lost between Get and Watch (`NoLostWakeup`), does each return path count once (`MetricsAddUp`), and does the invariant of the proofs hold (`IndInv`)? |
| `executor_promises` | 110,282 | Does the executor implement `Provisioning` (`KeepsPromises`), and is every delivery answered unless its process ends (`EveryDeliveryAnswered`)? |
| `lifecycle` | 149,166 | Does exit code 0 mean that nothing was cut off (`ExitZeroMeansDrained`) and only follow a signal (`FailureNotMasked`), does the admin server outlive the public one (`AdminOutlivesPublic`), does no goroutine block on `errCh` (`ListenersNeverBlock`), is no probe told "ready" during a drain (`DrainRefusesTraffic`), does a ready process come to serve or stop being ready (`ReadyIsServed`), and does a signal always end the process (`ShutdownCompletes`)? `ProcessInv` is the invariant of the proofs. |
| `rate_limit` | 1,060,754 | Are rate and burst respected although first requests race to create the limiter (`RateRespected`, `OneLimiterPerProvider`), is `Retry-After` long enough for the latest denial, whatever it overlaps (`RetryAfterSuffices`), is a denial that overlaps none free (`UndisturbedDenialIsFree`)? |
| `signature` | 34,044 | Is only the signed message accepted (`Authentic`), is the window exact as far as a `Duration` reaches (`WindowExact`), is a past timestamp refused however old, and a future one up to that reach (`WindowRespected`), is a stale delivery told from a corrupted one (`ReplayToldFromCorruption`)? |
| `dispatcher` | 199,918 | Is a write possible only for a verified, complete ticket in the trigger status (`EffectWarranted`); do the ids on a CR lead to the delivery whose spec it has (`StampsTraceable`); do status and body stay true (`ResponseTruthful`); do the counters agree (`CountersAddUp`)? `DeliveryInv` is the invariant of the proofs. |
| `middleware` | 1,823,471 | Do log lines (`LogMatchesWire`), counters (`CountedOnce`) and the gauge (`InflightExact`) agree with what was sent, whatever a handler writes and wherever it panics; is a panic answered 500 if nothing was written, and does it leave what was sent alone otherwise (`PanicAnswered`)? |
| `startup` | 30,800 | Is the first error reported (`FirstErrorReported`), is only a valid configuration served (`ServesOnlyValid`), are routes, sampling and profiling as configured (`ServesAsConfigured`)? |
| `timeouts` | 22,503 | Does a drain ever cut off a sync that was under way (`DrainFinishesSync`), is every response received if the write timeout is generous (`ReceivedIfGenerous`)? `DeadlineInv` is the invariant of the proofs. |

All of these hold. Three runs show statements of the repository that the code
does not keep:

- `timeouts_write`: by default `WEBHOOK_WRITE_TIMEOUT` is 10 s and
  `WEBHOOK_CR_SYNC_TIMEOUT` 20 s. net/http sets the write deadline when it has
  read the header, so that every 504, and each 200 that took longer than 10 s,
  is written to a connection whose deadline has passed. `validate` relates the
  sync timeout to the shutdown timeout only. `GenerousIsEnough` proves which
  setting avoids it.
- `executor_stale`: a delivery patches a CR that is Ready. The CR is deleted, and
  another delivery creates it anew with its own spec, before the first one's Get.
  The new CR has generation 1 and no status; the object that the Get decodes
  into still has the Ready status of the deleted one, for generation 1 or later.
  The ready check passes and the answer is 200, while the operator has seen
  neither the first delivery's spec nor the new CR. `SuccessMeansReconciled`
  states, and `SuccessCorrect` proves, that this is the only way to a 200 without
  a report; an empty object for each Get would close it.
- `executor_500_cause`: a cancelled context is an error that `classifyK8sErr`
  does not know; it answers 500, which is documented to page a human, for an
  apply that a rollout's SIGTERM kept from being sent.

Other places where comments or docs and code part, seen while modelling and
visible in the modules without a run of their own:

- `result.go:52` explains 504 by the watch deadline; `LoopCtxDone` answers the
  same when the client left or a signal arrived.
- `metrics.go:43` lists the outcome "unchanged" of `k8s_apply_total`;
  `applyOutcome` never produces it, and a redelivery that changes nothing of a
  CR at generation 1 counts as "created" (its comment calls the label lossy).
- `docs/design/0001` (line 370) wants exit code 0 only "if all steps succeeded"; a failed
  tracer flush is logged and the exit code stays 0 (`FlushAndExit`).
- `ratelimit.go:99` rounds up "so clients always wait at least as long as the
  limiter would refuse them". Of two overlapping denials the earlier one can be
  quoted too short a wait: the later one reserved on top of it, and what its own
  `Cancel` gives back is reduced by that. `RetryAfterSuffices` is about the
  latest one, for which the comment is true.
- README.md:100 and `signature.go:71` reject any timestamp outside the window.
  `VerifyTimestamp` negates a negative difference; one below the range of
  `Duration` saturates at its smallest value, which is its own negation.
  `WindowRespected` states what is true on both sides of the clock.
- `ratelimit.go:103` says that a denial spends no token; two overlapping ones
  do, because `Cancel` does not give back what a later reservation was granted
  on top (`UndisturbedDenialIsFree` has the exact condition).
- `ratelimit.go:41` bounds the map by the allow-list; the limiter runs before
  routing and stores an entry for any segment (`LoadOrStore`).
- `docs/impl/0001` (line 522) wants a log line for rate-limited requests; the
  limiter is outside `SLog` (`RateLimited`).
- `metrics.go:67` says that `jsm_response_total` counts dispatcher responses;
  those sent with `http.Error` are not counted (`Error`).
- `validate` accepts NaN as a rate and as a sampling ratio, since no comparison
  with it is true; `ServesOnlyValid` excludes only what compares as too small or
  too large. `samplerFor` makes a ratio-based sampler of it.
- `main.go` calls a process ready before its listeners are bound; `ReadyIsServed`
  says how long that can last.
- A listener failure and a signal can be ready together; if `select` takes the
  signal, a clean drain exits with 0 although a listener had failed
  (`SelectSignal`). `FailureNotMasked` states what does hold: without a signal
  there is no exit code 0.

### Bounds

- `executor`: two deliveries, two names, two specs, one reconcile, one deletion.
  Two deliveries are what it takes to have a competing apply, a stale status and
  another CR's events, and a first attempt that dies with the retry that follows
  it; one reconcile suffices for a report that is late, stale or of an older
  incarnation. Requests, names and specs are symmetric.
- `executor_promises`: one name and spec, a reconcile and no deletion; liveness
  does not depend on specs. No symmetry, since it is unsound for liveness.
  Deletions are in the `executor` run, and `PromisesKept` proves the refinement
  with any number of them.
- `executor_stale`: a third delivery, because it takes one to create the CR, one
  to change it and one to create it anew. `Undisturbed` leaves out the states
  with failures and cancellations, which the counterexample does without.
- `lifecycle`: three requests: one on each server and one more to arrive during
  the drain. `rate_limit`: five requests, so that a burst of 2 can be used up
  and two denials overlap while a limiter is contended; a period that is no
  whole number of seconds, and `MaxTime` beyond two refills.
- `signature`: 7-bit integers, with `Nanos`, `UnixEpoch` and `Skew` in
  proportion, timestamps of up to three characters and bodies of one: enough for
  signs, saturation on both sides, and every split of the message.
- `dispatcher`: two deliveries with the same or different request ids, for one
  ticket, for two, or for keys that differ by case; bodies that differ from a
  complete ticket in one place, or in two fields refused for any two reasons
  (for the order in which `Handle` looks), and every way to be refused earlier.
- `middleware`: three requests and two writes by the handler: a body before a
  header, a header twice, a late header, and a 429 of the handler's own, which
  must not be taken for the limiter's. `startup`: environments that differ
  from a good one in any two settings other than the list of providers, all
  lists of up to three entries, and three such lists with any other setting.
- `timeouts`: ticks of 5 s in the proportions of the default sync and shutdown
  timeouts; `MaxTime` is past the end of every deadline. `MaxApply` bounds the
  apply, which has no deadline of its own.

Deadlock checking is off where the system may stop: all deliveries answered, or
the process exited.

### Fairness

Executor: weak fairness of each goroutine's own steps, of the deadline timer
that `context.WithTimeout` starts, and of the API server's answer to an apply
that was sent. Go's scheduler and timers justify the first two. The third is an
assumption on the environment, needed because Patch and the Get after it have no
deadline of their own; nothing is assumed of the operator, the streams or the
client, and a process may end at any time. Lifecycle: weak fairness of the main
goroutine, of the drain budget's timer, and of a listener that is starting (the
bind succeeds, fails or finds the server closed; the system call returns).
A listener that serves need never stop, and requests need never finish.

## What is proved

TLAPS checks all proofs, for every value of the constants that the named
`ASSUME`s of the modules allow, which TLC evaluates on every run:

- `None` is outside the other sets, and bounds are natural numbers;
- the sets of requests are finite. `NamesAssumption` and `RequestsAssumption` of
  `Kubernetes` say the part of it that the executor's proofs need: a set of
  names has a size, and one more delivery adds one to the size of a set of them;
- the clock fits the internal seconds of package time, which begin so long
  before 1970 that a `Duration` does not reach back to them, and the skew is
  less than the largest `Duration` (`EpochAssumption`, for `AcceptedCorrect`
  only);
- `Half` is a positive integer (it is a power of two, and the provers know
  nothing of exponents);
- the environments of `Startup` have the settings and the types that `Load`
  reads, and normalizing a provider name leaves "jsm" alone;
- `SyncTimeout < ShutdownTimeout` in `Timeouts`, which `ValidCorrect` proves
  `validate` to guarantee.

Every invariant and every action property that a run checks is proved. By
module:

- `ExecutorStepProofs`: `TypeCorrect`, what each kind of step changes, and the
  lemmas on exchanges, answers and streams. `ExecutorProofs`:
  `Invariance`, `SuccessCorrect`, `WakeupCorrect`, `MetricsCorrect`,
  `PromisesKept`, with the lemmas on versions, statuses,
  waiting deliveries and counters.
  `SuccessMeansReconciled` is not inductive: that a status seen with
  `obs >= gen` vouches for a delivery's write needs to know that one version has
  one spec and that neither the operator's view nor a report is ahead of the
  store (`VersionInv`), that every Ready status is one of the operator's reports
  (`StatusInv`), that a waiting delivery waits for a version no older than its
  write and is shown none of an older incarnation (`WaitInv`), that an apply
  lands at most once and before it returns (`ExchangeInv`), and that an answer
  that rules out an effect leaves nothing on the wire (`AnswerInv`).
  `ObjectInv` follows the status through the decoding: what a delivery holds is a
  report on the incarnation it fetched or on the one it wrote, and only if the
  two differ can the second be taken for the first. `IndInv` is their
  conjunction. `MetricsAddUp` compares counters with sizes of
  sets of deliveries; `StepCounts` says of every step which counter it raises and
  which set it makes one larger or smaller. It needs `FetchInv`, because
  `applyOutcome` reads the outcome from the generation of the object that the
  Get after the Patch returned. `PromisesKept` then maps each step to a step of
  `Provisioning` or to a stutter; the end of a process is a stutter, and a
  deletion settles the writes of the incarnation it ends.
- `LifecycleProofs`: `DrainCorrect`, `ExitZeroCorrect`, `AdminOutlives`,
  `ReportsCorrect`, `FailureReported`, `NeverBlock`, `DrainUnready`. The
  invariant `DrainInv` says which servers are closed and which requests can be
  active for each place of `run()` and each error it holds; `ReportInv` says that
  before a Shutdown a listener reports only failures, that `errCh` holds at most
  one report of each goroutine, and that readiness is on only while `run()`
  waits.
  The module extends `Timeouts` as well and proves its deadlines:
  `ClockTypeCorrect`, `DeadlinesFit`, `DrainInBudget`, `GenerousIsEnough`. Their
  invariant bounds the clock at each place of the delivery.
- `DispatcherProofs`: `TypeCorrect`, `DeliveryCorrect`, `EffectCorrect`,
  `ResponseCorrect`, `StampsCorrect`, `CountersCorrect`. `DeliveryInv` relates
  the stage of `ServeHTTP` to what has been checked (`FlowInv`), the response to
  the executor's answer (`SentInv`), and each CR, in all its parts, to one write
  (`StampInv`). For the counters each early return is shown to move its delivery
  into exactly the set whose counter it raises.
- `SignatureProofs`: `VerdictCorrect`, `TypeCorrect`, `AuthenticCorrect`,
  `WindowCorrect`, `AcceptedCorrect`, `ReplayCorrect`, for texts of any length, integers of any
  width and any skew. A timestamp that parses contains no separator, so that
  the first one splits the canonical message (`CanonicalInjective`); the
  wrapped difference of two times, taken apart into saturated and exact cases,
  is the distance wherever the distance fits a `Duration` (`TimestampExact`). A
  past time beyond that saturates at the largest `Duration` (`SubPast`): the sum
  by which `Sub` checks itself cannot be right by wrapping around, because the
  epoch is more than a `Duration` away from the first internal second.
- `RateLimitProofs`: `LimiterCorrect` and `OneLimiterCorrect` (a request that has
  a limiter has the one in the map, whoever stored it), `ReservationCorrect`,
  `DenialsFree`, `BackedCorrect`, `RateCorrect`, `RetryAfterCorrect`. The
  invariant of `DenialsFree` (`UsageInv`, `ReservationInv`) compares each bucket with an ideal one that denials never touch: they agree,
  or differ by the one reservation that is not yet cancelled, until a denial is
  disturbed, that is, overlaps another or outlives the delay it was quoted.
  `RateCorrect` needs no such condition: `RateRespected` holds whichever denials
  overlap, in whatever order they cancel and however late. That no bucket is
  ahead of its ideal one is not inductive. `Cancel` gives back a token less what
  was reserved after it, which it reads off the limiter's last event. Another
  `Cancel` or an admission may have moved that event before the time to act of
  the reservation being cancelled, and then `Cancel` gives back more than a
  token; the reservations that are left are thereby out of step, and can do the
  same again. The invariant `Backed` says what a bucket has paid for at any
  moment: the admissions, a token for each reservation that can still be
  cancelled, and a share for each that bounds what its cancellation can give
  back beyond its token (`Surplus`, the growth of `Chain`, which doubles with
  every further token that is reserved ahead). A reservation pays its share when
  it is made, as it extends the chain (`SolventReserve`); a cancellation is paid
  out of the share of its own reservation (`SolventCancel`, by the convexity of
  `Chain`). The last part of `Solvent` covers the ideal bucket being full before
  the real one: then what it was owed is forgotten, and the reservations that
  still stand at that time must be paid for by themselves. `Chain` is a
  recursive function on the integers; that there is one, and what it computes,
  is shown by least elements. TLC has checked `Backed` on all states of the
  `rate_limit` instance. `RetryAfterCorrect` needs no condition on what overlaps
  either (`RetryStep`): by `Backed` a bucket is in debt up to its last event and no
  further, and the `Cancel` of the latest reservation gives back a whole token.
- `MiddlewareProofs`: `TypeCorrect`, `InflightCorrect`, `RecorderCorrect`,
  `LogCorrect`, `PanicCorrect`, `CountedCorrect`. `RecorderInv` says of every
  frame on a request's stack what its recorder holds compared with the
  connection, and whether anything was written; with it, the three counters follow as in the dispatcher.
- `StartupProofs`: `FirstErrorCorrect`, `StartCorrect`, `ValidCorrect`,
  `ConfiguredCorrect`, `TypeCorrect`, for every environment and provider lists
  of any length. The invariants say that the loader's error is the first bad
  setting before `pos` (`LoadInv`), that the settings read so far are the ones
  given and that past `FinishLoad` the configuration passed `validate`
  (`ReadInv`), and that what has been built is what the list of providers calls
  for (`BuildInv`). What `csv` computes is shown by looking at the first entry
  at which it would go wrong: the least element of a set of numbers takes the
  place of induction, which the provers cannot apply.

Only model-checked: liveness (`EveryDeliveryAnswered`, `ShutdownCompletes`,
`ReadyIsServed`), which is out of the prover's reach.

## What is not modelled

- Logging: `NewLogger` picks one of two library handlers and wraps it so that a
  record carries the ids of the active span. It keeps no state. Which requests
  get a log line, and with which status, is in `Middleware`.
- Metric registration, the custom resource's Go types with their generated deep
  copies, and the scheme: tables filled once, with no operations of their own.
- Registration at `init()`: the binary registers one provider; `Registered` is
  a constant, so that the panic on a second registration of a name cannot occur.
- The read and idle timeouts and the header limit, which act inside net/http;
  settings on which no decision depends; histograms; the time stamped on a CR;
  the answers of `/healthz`, `/metrics` and pprof.
- The Helm chart, the deployment files and the test double.
- The order of two deliveries for one ticket is not a property: the code applies
  them in the order they come, and a delivery carries nothing to tell the newer
  one.

The rest of what the repository implements changes no state that a later step
reads, so that a model of it would only repeat it.
