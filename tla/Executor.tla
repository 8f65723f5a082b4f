------------------------------ MODULE Executor ------------------------------
(***************************************************************************)
(* internal/webhook/executor.go: the executor that turns the action a      *)
(* provider decided on into an applied custom resource and waits until the *)
(* operator reports it Ready.  Each delivery runs Execute in a goroutine   *)
(* of its own; they share the cluster and the metrics registry.            *)
(*                                                                         *)
(* A request's pc is the call it is about to make or is blocked in:        *)
(*   idle -> patch -> patching -> get -> check -> watch -> loop -> done    *)
(* and "killed" once its process has exited under it.                      *)
(***************************************************************************)
EXTENDS Kubernetes

VARIABLES
    act,         \* Requests -> the Action its provider returned
    pc,          \* Requests -> where its goroutine is
    applied,     \* Requests -> the object apply() returned
    expired,     \* the requests whose SyncTimeout has elapsed
    cancelled,   \* the requests whose context is cancelled
    result,      \* Requests -> ExecResult.Kind, or None before Execute returns
    applyTotal,  \* webhookd_k8s_apply_total by outcome
    syncTotal    \* observations of webhookd_k8s_sync_duration by outcome

executorVars == <<act, pc, applied, expired, cancelled, result,
                  applyTotal, syncTotal>>

vars == <<clusterVars, executorVars>>

(***************************************************************************)
(* Actions, result kinds and outcome labels.                               *)
(***************************************************************************)
NoopAction == [type |-> "noop", name |-> None, spec |-> None]
ApplyActions == [type : {"apply"}, name : Names, spec : Specs]
Actions == {NoopAction} \cup ApplyActions

ResultKinds == {"Noop", "Ready", "TransientFailure", "Unprocessable",
                "InternalError", "Timeout"}

ASSUME ExecutorAssumption == None \notin ResultKinds

ApplyOutcomes == {"created", "updated", "error"}
SyncOutcomes == {"ready", "timeout", "transient"}

\* Mutant (as below, above the definition it is a faulty form of): an error no
\* predicate recognises is taken for the sender's fault.
classifyK8sErrBlamesSender(e) ==
    IF e = "Forbidden" THEN "InternalError"
    ELSE IF e \in {"ServerTimeout", "ServiceUnavailable", "TooManyRequests",
                   "Conflict"} THEN "TransientFailure"
    ELSE "Unprocessable"

classifyK8sErr(e) ==
    IF e = "Invalid" THEN "Unprocessable"
    ELSE IF e \in {"ServerTimeout", "ServiceUnavailable", "TooManyRequests",
                   "Conflict"} THEN "TransientFailure"
    ELSE "InternalError"  \* Forbidden, and whatever no predicate recognises

applyOutcome(gen) ==
    IF gen = 0 THEN "error" ELSE IF gen = 1 THEN "created" ELSE "updated"

syncOutcome(kind) ==
    IF kind = "Ready" THEN "ready"
    ELSE IF kind = "Timeout" THEN "timeout" ELSE "transient"

\* Mutant: any Ready condition will do, whichever generation it is about.
IsReadyAnyGeneration(obj, applyGen) == obj.ready

\* The ReadyCheck the jsm provider supplies (IsReady in jsm/cr.go).
IsReady(obj, applyGen) ==
    /\ obj.obs >= applyGen
    /\ obj.ready

(***************************************************************************)
(* Contexts.  A request's context is cancelled with its connection or with *)
(* the server's base context; waitForSync adds the SyncTimeout deadline.   *)
(***************************************************************************)
CtxDone(r) == r \in cancelled
SyncCtxDone(r) == CtxDone(r) \/ r \in expired

ExecutorTypeOK ==
    /\ act \in [Requests -> Actions]
    /\ pc \in [Requests -> {"idle", "patch", "patching", "get", "check",
                            "watch", "loop", "done", "killed"}]
    /\ applied \in [Requests -> Objects]
    /\ expired \subseteq Requests
    /\ cancelled \subseteq Requests
    /\ result \in [Requests -> ResultKinds \cup {None}]
    /\ applyTotal \in [ApplyOutcomes -> Nat]
    /\ syncTotal \in [SyncOutcomes -> Nat]

TypeOK == KubernetesTypeOK /\ ExecutorTypeOK

Init ==
    /\ KubernetesInit
    /\ act \in [Requests -> Actions]
    /\ pc = [r \in Requests |-> "idle"]
    /\ applied = [r \in Requests |-> NotLanded]
    /\ expired = {}
    /\ cancelled = {}
    /\ result = [r \in Requests |-> None]
    /\ applyTotal = [o \in ApplyOutcomes |-> 0]
    /\ syncTotal = [o \in SyncOutcomes |-> 0]

(***************************************************************************)
(* Steps of Execute.                                                       *)
(***************************************************************************)
Goto(r, label) == pc' = [pc EXCEPT ![r] = label]

Return(r, kind) ==
    /\ Goto(r, "done")
    /\ result' = [result EXCEPT ![r] = kind]

observeApply(outcome) ==
    applyTotal' = [applyTotal EXCEPT ![outcome] = @ + 1]

observeSync(outcome) ==
    syncTotal' = [syncTotal EXCEPT ![outcome] = @ + 1]

Execute(r) ==
    /\ pc[r] = "idle"
    /\ \/ act[r].type = "noop" /\ Return(r, "Noop")
       \/ act[r].type = "apply" /\ Goto(r, "patch") /\ UNCHANGED result
    /\ UNCHANGED <<clusterVars, act, applied, expired, cancelled,
                   applyTotal, syncTotal>>

\* apply() failed: Execute counts the error and classifies it.
ApplyFails(r, e) ==
    /\ observeApply("error")
    /\ Return(r, classifyK8sErr(e))
    /\ UNCHANGED <<act, applied, expired, cancelled, syncTotal>>

\* apply() sends its server-side apply; a dead context sends nothing.
SendPatch(r) ==
    /\ pc[r] = "patch"
    /\ ~CtxDone(r)
    /\ Goto(r, "patching")
    /\ wire' = [wire EXCEPT ![r] = "sent"]
    /\ UNCHANGED <<store, streams, events, operator, reconciles, deletions,
                   landed, reports, act, applied, expired, cancelled,
                   result, applyTotal, syncTotal>>

PatchRefused(r) ==
    /\ pc[r] = "patch"
    /\ CtxDone(r)
    /\ ApplyFails(r, "Other")
    /\ UNCHANGED clusterVars

\* The answer to r's apply has been read.
CloseExchange(r) ==
    /\ wire' = [wire EXCEPT ![r] = "closed"]
    /\ UNCHANGED <<store, streams, events, operator, reconciles, deletions,
                   landed, reports>>

\* From here on obj holds the server's answer, landed[r].
PatchReturns(r) ==
    /\ pc[r] = "patching"
    /\ wire[r] = "ok"
    /\ Goto(r, "get")
    /\ CloseExchange(r)
    /\ UNCHANGED <<act, applied, expired, cancelled, result, applyTotal,
                   syncTotal>>

PatchRejected(r) ==
    /\ pc[r] = "patching"
    /\ wire[r] \in ApiErrors
    /\ ApplyFails(r, wire[r])
    /\ CloseExchange(r)

\* The caller stops waiting (context ended, connection to the API server
\* lost) whatever has become of the request it sent.
PatchAbandoned(r) ==
    /\ pc[r] = "patching"
    /\ ApplyFails(r, "Other")
    /\ UNCHANGED clusterVars

\* obj after a Get of cr into it.  JSON decoding sets the fields it finds and
\* leaves the others; a CR that has no status yet has no status field (the
\* operator observes generation 1 at least), so that obj keeps the one it had.
Decoded(obj, cr) ==
    IF cr.obs = 0
    THEN [uid |-> cr.uid, gen |-> cr.gen, obs |-> obj.obs, ready |-> obj.ready]
    ELSE Object(cr)

\* Mutant: an off-by-one, waiting for the generation before the write.
PostApplyGetOffByOne(r) ==
    /\ pc[r] = "get"
    /\ ~CtxDone(r)
    /\ LET cr == store[act[r].name]
       IN  /\ cr.exists
           /\ applied' = [applied EXCEPT ![r] =
                           [Decoded(landed[r], cr) EXCEPT !.gen = @ - 1]]
           /\ observeApply(applyOutcome(cr.gen))
    /\ Goto(r, "check")
    /\ UNCHANGED <<clusterVars, act, expired, cancelled, result, syncTotal>>

\* The post-apply Get, into the object the Patch filled: the generation it returns is the one waited for.
PostApplyGet(r) ==
    /\ pc[r] = "get"
    /\ ~CtxDone(r)
    /\ LET cr == store[act[r].name]
       IN  /\ cr.exists
           /\ applied' = [applied EXCEPT ![r] = Decoded(landed[r], cr)]
           /\ observeApply(applyOutcome(cr.gen))
    /\ Goto(r, "check")
    /\ UNCHANGED <<clusterVars, act, expired, cancelled, result, syncTotal>>

PostApplyGetFails(r) ==
    /\ pc[r] = "get"
    /\ \E e \in ReadErrors : ApplyFails(r, e)
    /\ UNCHANGED clusterVars

(***************************************************************************)
(* Steps of waitForSync.  Its deferred closure observes the outcome on     *)
(* every return and stops the watch.                                       *)
(***************************************************************************)
\* Mutant: only the happy path is observed.
SyncReturnsUnobserved(r, kind) ==
    /\ Return(r, kind)
    /\ IF kind = "Ready" THEN observeSync("ready") ELSE UNCHANGED syncTotal
    /\ UNCHANGED <<act, applied, expired, cancelled, applyTotal>>

SyncReturns(r, kind) ==
    /\ Return(r, kind)
    /\ observeSync(syncOutcome(kind))
    /\ UNCHANGED <<act, applied, expired, cancelled, applyTotal>>

StopWatch(r) ==
    /\ streams' = streams \ {r}
    /\ events' = [events EXCEPT ![r] = <<>>]
    /\ UNCHANGED <<store, wire, operator, reconciles, deletions, landed, reports>>

\* The initial Get, into a copy of the applied object.
InitialGetReady(r) ==
    /\ pc[r] = "check"
    /\ ~SyncCtxDone(r)
    /\ store[act[r].name].exists
    /\ IsReady(Decoded(applied[r], store[act[r].name]), applied[r].gen)
    /\ SyncReturns(r, "Ready")
    /\ UNCHANGED clusterVars

\* Not ready yet, or the Get failed, which is ignored.
InitialGetPending(r) ==
    /\ pc[r] = "check"
    /\ Goto(r, "watch")
    /\ UNCHANGED <<clusterVars, act, applied, expired, cancelled, result,
                   applyTotal, syncTotal>>

\* Mutant: the watch starts at the present, without the listing.
OpenWatchFromNow(r) ==
    /\ pc[r] = "watch"
    /\ ~SyncCtxDone(r)
    /\ streams' = streams \cup {r}
    /\ Goto(r, "loop")
    /\ UNCHANGED <<store, wire, events, operator, reconciles, deletions, landed,
                   reports, act, applied, expired, cancelled, result,
                   applyTotal, syncTotal>>

OpenWatch(r) ==
    /\ pc[r] = "watch"
    /\ ~SyncCtxDone(r)
    /\ streams' = streams \cup {r}
    /\ \E listing \in Listings : events' = [events EXCEPT ![r] = listing]
    /\ Goto(r, "loop")
    /\ UNCHANGED <<store, wire, operator, reconciles, deletions, landed,
                   reports, act, applied, expired, cancelled, result,
                   applyTotal, syncTotal>>

OpenWatchFails(r) ==
    /\ pc[r] = "watch"
    /\ SyncReturns(r, "TransientFailure")
    /\ UNCHANGED clusterVars

\* Mutant: the loop listens to the request's context, not to the deadline's.
LoopCtxDoneNoDeadline(r) ==
    /\ pc[r] = "loop"
    /\ CtxDone(r)
    /\ SyncReturns(r, "Timeout")
    /\ StopWatch(r)

\* select picks the context: Timeout, whatever ended it.
LoopCtxDone(r) ==
    /\ pc[r] = "loop"
    /\ SyncCtxDone(r)
    /\ SyncReturns(r, "Timeout")
    /\ StopWatch(r)

\* select picks the closed event channel.  The stream may break at any time
\* and events not yet received are then lost.
LoopChannelClosed(r) ==
    /\ pc[r] = "loop"
    /\ SyncReturns(r, "TransientFailure")
    /\ StopWatch(r)

\* An event of another CR, a Status, or a CR not ready yet.
Ignored(r, ev) ==
    \/ ~ev.object
    \/ ev.name # act[r].name
    \/ ~IsReady(ev, applied[r].gen)

LoopEventReady(r) ==
    /\ pc[r] = "loop"
    /\ events[r] # <<>>
    /\ ~Ignored(r, Head(events[r]))
    /\ SyncReturns(r, "Ready")
    /\ StopWatch(r)

LoopEventIgnored(r) ==
    /\ pc[r] = "loop"
    /\ events[r] # <<>>
    /\ Ignored(r, Head(events[r]))
    /\ events' = [events EXCEPT ![r] = Tail(events[r])]
    /\ UNCHANGED <<store, wire, streams, operator, reconciles, deletions,
                   landed, reports, executorVars>>

(***************************************************************************)
(* The environment of the goroutines.                                      *)
(***************************************************************************)
DeadlineExpires(r) ==
    /\ pc[r] \in {"check", "watch", "loop"}
    /\ r \notin expired
    /\ expired' = expired \cup {r}
    /\ UNCHANGED <<clusterVars, act, pc, applied, cancelled, result, applyTotal,
                   syncTotal>>

\* The client closes its connection and net/http cancels the request.
ClientGone(r) ==
    /\ pc[r] \notin {"done", "killed"}
    /\ r \notin cancelled
    /\ cancelled' = cancelled \cup {r}
    /\ UNCHANGED <<clusterVars, act, pc, applied, expired, result, applyTotal,
                   syncTotal>>

\* SIGTERM cancels the base context and with it every request, also those
\* still to come on connections the listener has already accepted.
Sigterm ==
    /\ cancelled # Requests
    /\ cancelled' = Requests
    /\ UNCHANGED <<clusterVars, act, pc, applied, expired, result, applyTotal,
                   syncTotal>>

\* The process that runs the deliveries S ends: os.Exit once run has returned,
\* the drain budget spent with handlers still running, or a kill.  Goroutines
\* and streams are gone; an apply already sent may still land.  The counters
\* are the sums over all replicas and their lives.
ProcessExits(S) ==
    /\ S # {}
    /\ \A r \in S : pc[r] \notin {"idle", "done", "killed"}
    /\ pc' = [r \in Requests |-> IF r \in S THEN "killed" ELSE pc[r]]
    /\ streams' = streams \ S
    /\ events' = [r \in Requests |-> IF r \in S THEN <<>> ELSE events[r]]
    /\ UNCHANGED <<store, wire, operator, reconciles, deletions, landed, reports,
                   act, applied, expired, cancelled, result, applyTotal, syncTotal>>

Step(r) ==
    \/ Execute(r)
    \/ SendPatch(r) \/ PatchRefused(r)
    \/ PatchReturns(r) \/ PatchRejected(r) \/ PatchAbandoned(r)
    \/ PostApplyGet(r) \/ PostApplyGetFails(r)
    \/ InitialGetReady(r) \/ InitialGetPending(r)
    \/ OpenWatch(r) \/ OpenWatchFails(r)
    \/ LoopCtxDone(r) \/ LoopChannelClosed(r)
    \/ LoopEventReady(r) \/ LoopEventIgnored(r)

\* The server accepts r's apply.
ServerApplies(r) ==
    /\ LandPatch(r, act[r].name, act[r].spec)
    /\ UNCHANGED executorVars

Next ==
    \/ \E r \in Requests :
         \/ Step(r)
         \/ ServerApplies(r)
         \/ DeadlineExpires(r)
         \/ ClientGone(r)
    \/ Sigterm
    \/ \E S \in SUBSET Requests : ProcessExits(S)
    \/ Cluster /\ UNCHANGED executorVars

Spec == Init /\ [][Next]_vars

(***************************************************************************)
(* Fairness: goroutines run, the API server answers what it is asked, a    *)
(* timer fires, select does not ignore a ready case for ever.  Nothing is  *)
(* assumed of the operator, of streams ending, of signals, exits, clients. *)
(***************************************************************************)
Fairness ==
    \A r \in Requests :
      /\ WF_vars(Execute(r))
      /\ WF_vars(SendPatch(r) \/ PatchRefused(r))
      /\ WF_vars(ServerApplies(r) \/ (RejectPatch(r) /\ UNCHANGED executorVars))
      /\ WF_vars(PatchReturns(r) \/ PatchRejected(r))
      /\ WF_vars(PostApplyGet(r) \/ PostApplyGetFails(r))
      /\ WF_vars(InitialGetReady(r) \/ InitialGetPending(r))
      /\ WF_vars(OpenWatch(r) \/ OpenWatchFails(r))
      /\ WF_vars(LoopCtxDone(r))
      /\ WF_vars(LoopEventReady(r) \/ LoopEventIgnored(r))
      /\ WF_vars(DeadlineExpires(r))

FairSpec == Spec /\ Fairness

=============================================================================
