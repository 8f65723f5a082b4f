------------------------------ MODULE RateLimit ------------------------------
(***************************************************************************)
(* internal/httpx/ratelimit.go: one token bucket for each provider segment *)
(* of the URL, created on first use in a map shared by all requests.       *)
(*                                                                         *)
(* A bucket is golang.org/x/time/rate.Limiter, which is external: its      *)
(* Allow, Reserve and Cancel each run under the limiter's lock.  Tokens    *)
(* are counted as credit in time units: a token costs Period units, and    *)
(* one unit of credit accrues in one unit of time, up to Burst tokens.     *)
(***************************************************************************)
EXTENDS Integers, FiniteSets

CONSTANTS
    Requests,   \* HTTP requests, each in a goroutine of its own
    Segments,   \* what may follow /webhook/ in a path
    None,       \* no segment, no limiter
    Burst,      \* cfg.Burst, in tokens
    Period,     \* 1/cfg.RPS, in time units
    Second,     \* time units in a second
    MaxTime     \* bound on the clock

ASSUME RateLimitAssumption ==
    /\ None \notin Segments \cup Requests
    /\ IsFiniteSet(Requests)
    /\ {Burst, Period, Second} \subseteq Nat \ {0}
    /\ MaxTime \in Nat

VARIABLES
    now,        \* the clock
    segment,    \* Requests -> providerFromPath of its URL, None outside /webhook/
    limiters,   \* the sync.Map: Segments -> the limiter stored, None if absent
    bucket,     \* limiters -> credit, last (update), event (latest reservation)
    lim,        \* Requests -> the limiter that getLimiter returned
    pc,         \* Requests -> where its goroutine is
    act,        \* Requests -> timeToAct of its reservation
    retry,      \* Requests -> its Retry-After header, in seconds
    limited,    \* webhookd_http_rate_limited_total, over all providers
    ideal,      \* history: Segments -> a bucket charged by admissions alone
    disturbed   \* history: a reservation overlapped another or outlived its delay

vars == <<now, segment, limiters, bucket, lim, pc, act, retry, limited, ideal,
          disturbed>>

(***************************************************************************)
(* rate.Limiter.  A limiter is named after the request that allocated it.  *)
(***************************************************************************)
Full == [credit |-> Burst * Period, last |-> 0, event |-> 0]

Least(a, b) == IF a < b THEN a ELSE b

\* The credit of b at time t.
Credit(b, t) == Least(Burst * Period, b.credit + (t - b.last))

Charged(b, t) == [credit |-> Credit(b, t) - Period, last |-> t, event |-> b.event]

\* When a token will be there, the one just charged included.
TimeToAct(b, t) == IF Credit(b, t) >= Period THEN t ELSE t + Period - Credit(b, t)

Reserved(b, t) == [Charged(b, t) EXCEPT !.event = TimeToAct(b, t)]

\* Reservation.Cancel: nothing is given back once the time to act has passed,
\* nor for what later reservations have been granted on top.
Cancelled(b, at, t) ==
    LET restore == Period - (b.event - at)
        previous == at - Period
    IN  IF at < t \/ restore <= 0 THEN b
        ELSE [credit |-> Least(Burst * Period, Credit(b, t) + restore),
              last |-> t,
              event |-> IF at = b.event /\ previous >= t THEN previous ELSE b.event]

TypeOK ==
    /\ now \in 0..MaxTime
    /\ segment \in [Requests -> Segments \cup {None}]
    /\ limiters \in [Segments -> Requests \cup {None}]
    /\ bucket \in [Requests -> [credit : Int, last : Nat, event : Nat]]
    /\ lim \in [Requests -> Requests \cup {None}]
    /\ pc \in [Requests -> {"start", "create", "allow", "denied", "reserved",
                            "next", "429"}]
    /\ act \in [Requests -> Nat]
    /\ retry \in [Requests -> Nat]
    /\ limited \in Nat
    /\ ideal \in [Segments -> [credit : Int, last : Nat, event : Nat]]
    /\ disturbed \in BOOLEAN

Init ==
    /\ now = 0
    /\ segment \in [Requests -> Segments \cup {None}]
    /\ limiters = [s \in Segments |-> None]
    /\ bucket = [r \in Requests |-> Full]
    /\ lim = [r \in Requests |-> None]
    /\ pc = [r \in Requests |-> "start"]
    /\ act = [r \in Requests |-> 0]
    /\ retry = [r \in Requests |-> 0]
    /\ limited = 0
    /\ ideal = [s \in Segments |-> Full]
    /\ disturbed = FALSE

Goto(r, label) == pc' = [pc EXCEPT ![r] = label]

(***************************************************************************)
(* The handler.                                                            *)
(***************************************************************************)
\* A path outside /webhook/ is not limited.
Bypass(r) ==
    /\ pc[r] = "start"
    /\ segment[r] = None
    /\ Goto(r, "next")
    /\ UNCHANGED <<now, segment, limiters, bucket, lim, act, retry, limited,
                   ideal, disturbed>>

\* getLimiter: limiters.Load
Load(r) ==
    /\ pc[r] = "start"
    /\ segment[r] # None
    /\ lim' = [lim EXCEPT ![r] = limiters[segment[r]]]
    /\ Goto(r, IF limiters[segment[r]] = None THEN "create" ELSE "allow")
    /\ UNCHANGED <<now, segment, limiters, bucket, act, retry, limited, ideal,
                   disturbed>>

\* Mutant: Store in the place of LoadOrStore.
StoreAlways(r) ==
    /\ pc[r] = "create"
    /\ limiters' = [limiters EXCEPT ![segment[r]] = r]
    /\ lim' = [lim EXCEPT ![r] = r]
    /\ Goto(r, "allow")
    /\ UNCHANGED <<now, segment, bucket, act, retry, limited, ideal, disturbed>>

\* getLimiter: rate.NewLimiter and limiters.LoadOrStore
LoadOrStore(r) ==
    /\ pc[r] = "create"
    /\ LET stored == limiters[segment[r]]
           actual == IF stored = None THEN r ELSE stored
       IN  /\ limiters' = [limiters EXCEPT ![segment[r]] = actual]
           /\ lim' = [lim EXCEPT ![r] = actual]
    /\ Goto(r, "allow")
    /\ UNCHANGED <<now, segment, bucket, act, retry, limited, ideal, disturbed>>

Admit(r) ==
    /\ pc[r] = "allow"
    /\ Credit(bucket[lim[r]], now) >= Period
    /\ bucket' = [bucket EXCEPT ![lim[r]] = Reserved(@, now)]
    /\ ideal' = [ideal EXCEPT ![segment[r]] = Charged(@, now)]
    /\ Goto(r, "next")
    /\ UNCHANGED <<now, segment, limiters, lim, act, retry, limited, disturbed>>

Deny(r) ==
    /\ pc[r] = "allow"
    /\ Credit(bucket[lim[r]], now) < Period
    /\ limited' = limited + 1
    /\ Goto(r, "denied")
    /\ UNCHANGED <<now, segment, limiters, bucket, lim, act, retry, ideal,
                   disturbed>>

\* retryAfter: lim.Reserve
Reserve(r) ==
    /\ pc[r] = "denied"
    /\ act' = [act EXCEPT ![r] = TimeToAct(bucket[lim[r]], now)]
    /\ bucket' = [bucket EXCEPT ![lim[r]] = Reserved(@, now)]
    /\ disturbed' = (disturbed \/ \E q \in Requests : pc[q] = "reserved")
    /\ Goto(r, "reserved")
    /\ UNCHANGED <<now, segment, limiters, lim, retry, limited, ideal>>

\* Mutant: rounded down.
retryAfterDown(d) == IF d \div Second < 1 THEN 1 ELSE d \div Second

\* The rest of retryAfter: a delay in whole seconds, rounded up, at least 1.
retryAfter(d) ==
    LET secs == (d \div Second) + (IF d % Second > 0 THEN 1 ELSE 0)
    IN  IF d <= 0 \/ secs < 1 THEN 1 ELSE secs

\* Mutant: the reservation is not cancelled.
RespondKeepsToken(r) ==
    /\ pc[r] = "reserved"
    /\ retry' = [retry EXCEPT ![r] = retryAfter(act[r] - now)]
    /\ disturbed' = (disturbed \/ act[r] < now)
    /\ Goto(r, "429")
    /\ UNCHANGED <<now, segment, limiters, bucket, lim, act, limited, ideal>>

\* retryAfter's Delay and deferred Cancel, then the response.
Respond(r) ==
    /\ pc[r] = "reserved"
    /\ retry' = [retry EXCEPT ![r] = retryAfter(act[r] - now)]
    /\ bucket' = [bucket EXCEPT ![lim[r]] = Cancelled(@, act[r], now)]
    /\ disturbed' = (disturbed \/ act[r] < now)
    /\ Goto(r, "429")
    /\ UNCHANGED <<now, segment, limiters, lim, act, limited, ideal>>

Tick ==
    /\ now < MaxTime
    /\ now' = now + 1
    /\ UNCHANGED <<segment, limiters, bucket, lim, pc, act, retry, limited,
                   ideal, disturbed>>

Next ==
    \/ \E r \in Requests :
         \/ Bypass(r) \/ Load(r) \/ LoadOrStore(r)
         \/ Admit(r) \/ Deny(r) \/ Reserve(r) \/ Respond(r)
    \/ Tick

Spec == Init /\ [][Next]_vars

(***************************************************************************)
(* Properties                                                              *)
(***************************************************************************)
(* What a provider's requests are admitted at never exceeds the configured  *)
(* rate and burst: the bucket that admissions alone are charged to is never *)
(* overdrawn, whatever denied requests reserve and cancel in between and    *)
(* however the first requests of a provider race for its limiter.           *)
RateRespected == \A s \in Segments : ideal[s].credit >= 0

(* All requests of one provider draw on one limiter, also those that found  *)
(* the map empty and each built a limiter of their own; and no request      *)
(* draws on the limiter of another provider, so that traffic to one, or to  *)
(* a name that is none, never costs another its tokens.                     *)
OneLimiterPerProvider ==
    \A r, q \in Requests :
      lim[r] # None /\ lim[q] # None => (lim[r] = lim[q] <=> segment[r] = segment[q])

NoneReserved == \A r \in Requests : pc[r] # "reserved"

(* A denied request costs nothing, as long as no two denials overlap and    *)
(* none is slower than the delay it was quoted.                             *)
UndisturbedDenialIsFree ==
    NoneReserved /\ ~disturbed => \A s \in Segments : limiters[s] # None =>
      Credit(bucket[limiters[s]], now) = Credit(ideal[s], now)

(* Retry-After is long enough for the latest of the denials: one that is     *)
(* answered within its delay, with no later reservation on its limiter,     *)
(* leaves the limiter with a token to give after that many seconds, however *)
(* many denials it overlaps.  It can be too short for an earlier one: what  *)
(* was reserved on top of it is taken from what its Cancel gives back, so   *)
(* that the limiter still refuses a client that waited as told.             *)
RetryAfterSuffices ==
    [][\A r \in Requests :
         /\ pc[r] = "reserved" /\ pc'[r] = "429"
         /\ now <= act[r] /\ bucket[lim[r]].event <= act[r]
         => Credit(bucket'[lim[r]], now + retry'[r] * Second) >= Period]_vars

\* The inductive invariant behind OneLimiterPerProvider: a limiter in the map
\* was allocated by a request for its segment, and a request that has one
\* has the one in the map.
LimiterInv ==
    /\ \A s \in Segments : limiters[s] # None => segment[limiters[s]] = s
    /\ \A r \in Requests :
         /\ lim[r] # None => segment[r] \in Segments /\ lim[r] = limiters[segment[r]]
         /\ pc[r] = "create" => segment[r] \in Segments
         /\ pc[r] \in {"allow", "denied", "reserved"} => lim[r] # None

\* What reservation r has taken from bucket b, until its time to act passes:
\* one token of those that admissions have left, and the last word on it.
Pending(r, b) ==
    /\ b.event = act[r]
    /\ b.credit + (now - b.last) = Credit(ideal[segment[r]], now) - Period
    /\ b.credit + (act[r] - b.last) >= 0
    /\ now < act[r] => b.credit + (act[r] - b.last) = 0

\* Buckets are charged up to now, and the ones not in use are full.
UsageInv ==
    /\ \A r \in Requests : bucket[r].last <= now
    /\ \A s \in Segments : ideal[s].last <= now
    /\ \A s \in Segments : limiters[s] = None => ideal[s] = Full
    /\ \A r \in Requests : (\A s \in Segments : limiters[s] # r) => bucket[r] = Full

\* The inductive invariant behind UndisturbedDenialIsFree.
ReservationInv == ~disturbed =>
    /\ \A r, q \in Requests : pc[r] = "reserved" /\ pc[q] = "reserved" => r = q
    /\ \A s \in Segments :
         limiters[s] # None
           /\ (\A r \in Requests : pc[r] = "reserved" => lim[r] # limiters[s])
         => Credit(bucket[limiters[s]], now) = Credit(ideal[s], now)
    /\ \A r \in Requests :
         pc[r] = "reserved" /\ now <= act[r] => Pending(r, bucket[lim[r]])

\* When b has, or had, nothing left: later by Period with each token charged.
Drained(b) == b.last - b.credit

\* The reservations for s that a Cancel can still undo.
Standing(s) == {r \in Requests : pc[r] = "reserved" /\ segment[r] = s /\ now <= act[r]}

\* What a chain of reservations that ends x from now, in steps of Period, can
\* be worth: one that is cancelled when the limiter's last event is an earlier
\* one gives back more than its token, and cancelling it takes the chain out of
\* step, which sets the next ones free to do the same.
Chain[x \in Int] == IF x <= 0 THEN 0 ELSE x + 2 * Chain[x - Period]

\* The share in that of the reservation that ends the chain.
Surplus(x) == Chain[x] - Chain[x - Period]

\* What the reservations S, to act at at[r], can be worth from time v on.
Worth(S, at, v) == Cardinality(UNION {{r} \X (1..Surplus(at[r] - v)) : r \in S})

\* A bucket drained at d has paid for the admissions that drain one at i, for
\* the tokens of S, and for what S can be worth besides what the chain that
\* ends with d would be.
Pays(d, i, S, at, v) ==
    i + Period * Cardinality(S) + Worth(S, at, v) <= d + Chain[d - v]

\* The reservations of S that act at u or later.
From(S, at, u) == {r \in S : at[r] >= u}

\* A bucket drained at d with last event e pays at time t for S and for what an
\* ideal one is drained by, which is i now, and at a time u to come no less
\* than what is left of a full bucket.
Solvent(d, e, t, i, S, at) ==
    /\ d <= e
    /\ \A v \in Int : Least(t, e) <= v => Pays(d, i, S, at, v)
    /\ \A u, v \in Int : Least(t, e) <= u /\ u <= v /\ From(S, at, u) # {} =>
         Pays(d, u - Burst * Period, From(S, at, u), at, v)

\* The inductive invariant behind RateRespected and RetryAfterSuffices.
Backed ==
    \A s \in Segments : limiters[s] # None =>
      LET b == bucket[limiters[s]]
      IN  Solvent(Drained(b), b.event, now, Drained(ideal[s]), Standing(s), act)

=============================================================================
