------------------------- MODULE ExecutorProperties -------------------------
(***************************************************************************)
(* What the executor is meant to guarantee, stated over the steps of       *)
(* module Executor, and the inductive invariant its proof rests on.        *)
(***************************************************************************)
EXTENDS Executor

(***************************************************************************)
(* A version of a CR is an incarnation (uid) and a generation of it.       *)
(***************************************************************************)
SameVersion(v, w) == v.uid = w.uid /\ v.gen = w.gen
Later(v, w) == v.uid > w.uid \/ (v.uid = w.uid /\ v.gen > w.gen)

\* The operator's report p vouches for the write of r.
Confirms(p, r) ==
    /\ landed[r] # NotLanded
    /\ p.name = act[r].name
    /\ \/ SameVersion(p, landed[r]) /\ p.spec = act[r].spec
       \/ Later(p, landed[r])

\* The CR that apply() fetched after its Patch is not the one it wrote:
\* deleted in between, and created anew by another delivery.
Recreated(r) == applied[r].uid # landed[r].uid

\* The status that p left on the CR r wrote is still in the object r fetched,
\* and passes for one of the new CR (Decoded).
Leftover(p, r) ==
    /\ landed[r] # NotLanded /\ Recreated(r)
    /\ p.name = act[r].name
    /\ p.uid = landed[r].uid
    /\ p.gen >= applied[r].gen

(* A delivery answered 200 "success" (waitForSync returned ResultReady) was *)
(* applied, and the operator has reported Ready=True either for exactly the *)
(* spec it applied or for a later state of the same CR: a Ready condition   *)
(* left over from an older generation does not count, in whatever order     *)
(* Patch, Get, Watch, other deliveries and a slow operator interleave.      *)
(* The one exception: the CR was deleted and recreated between the Patch    *)
(* and the Get after it, and the status it had before passes for its own,   *)
(* because the Get decodes into the object that the Patch filled.           *)
SuccessMeansReconciled ==
    \A r \in Requests :
      result[r] = "Ready" =>
        \E p \in reports : Confirms(p, r) \/ Leftover(p, r)

\* The executor's state as the sender of a delivery sees it.
Phase == [r \in Requests |-> IF pc[r] = "idle" THEN "idle"
                            ELSE IF pc[r] = "done" THEN "answered" ELSE "open"]
Written == {r \in Requests : landed[r] # NotLanded}
ConfirmedOnes == {r \in Requests : \E p \in reports : Confirms(p, r)}

\* The deliveries whose CR, in the incarnation they wrote, is gone.
DeletedOnes == {r \in Written : \/ ~store[act[r].name].exists
                                \/ store[act[r].name].uid # landed[r].uid}
SettledOnes == ConfirmedOnes \cup DeletedOnes

Promises == INSTANCE Provisioning WITH
    phase <- Phase, written <- Written, settled <- SettledOnes, answer <- result

(* The executor keeps webhookd's promises (module Provisioning): a 422 or a *)
(* noop is never followed by a write, not even by an apply that was still   *)
(* on the wire, a 504 means that the CR was applied, a 200 that it was      *)
(* confirmed or has been deleted, and each delivery is written and answered *)
(* at most once.                                                            *)
KeepsPromises == Promises!Spec

(* No lost wake-up between the post-apply Get, the initial Get and the      *)
(* Watch: while a delivery waits on a live stream and its CR is ready for   *)
(* the generation it waits for, an event that will end the wait is queued.  *)
NoLostWakeup ==
    \A r \in streams :
      LET cr == store[act[r].name]
      IN  cr.exists /\ cr.ready /\ cr.obs >= applied[r].gen =>
            \E i \in 1..Len(events[r]) : ~Ignored(r, events[r][i])

(***************************************************************************)
(* The inductive invariant behind SuccessMeansReconciled and NoLostWakeup. *)
(***************************************************************************)
\* v, with spec s, is a version that cr has or had.
PastVersion(cr, v, s) ==
    /\ 0 < v.uid /\ v.uid <= cr.uid
    /\ cr.exists /\ v.uid = cr.uid =>
         /\ v.gen <= cr.gen
         /\ v.gen = cr.gen => s = cr.spec

\* The status cr carries, if Ready=True, is one of the operator's reports R.
Reported(R, n, cr) ==
    cr.ready => \E p \in R : p.name = n /\ p.uid = cr.uid /\ p.gen = cr.obs

\* Only an ApplyAction leads to calls of the API server.
ActionInv ==
    \A r \in Requests :
      wire[r] # "none" \/ pc[r] \notin {"idle", "done"} => act[r] \in ApplyActions

\* An apply takes effect at most once, and only between send and answer.
ExchangeInv ==
    \A r \in Requests :
      /\ pc[r] \in {"idle", "patch"} => wire[r] = "none"
      /\ pc[r] \in {"get", "check", "watch", "loop"} =>
           wire[r] = "closed" /\ landed[r] # NotLanded
      /\ wire[r] \in {"none", "sent"} \cup ApiErrors => landed[r] = NotLanded
      /\ wire[r] = "ok" => landed[r] # NotLanded

\* A goroutine that answered for good has no apply left on the wire.
AnswerInv ==
    \A r \in Requests :
      /\ pc[r] # "done" => result[r] = None
      /\ result[r] \in {"Noop", "Unprocessable", "Ready", "Timeout"} =>
           wire[r] \in {"none", "closed"}

\* One version has one spec, and neither the operator's view nor a report
\* is ahead of the store.
VersionInv ==
    /\ \A n \in Names : store[n].exists => store[n].uid > 0
    /\ \A r \in Requests : landed[r] # NotLanded =>
         /\ act[r] \in ApplyActions
         /\ PastVersion(store[act[r].name], landed[r], act[r].spec)
    /\ \A n \in Names : operator[n].busy =>
         /\ PastVersion(store[n], operator[n], operator[n].spec)
         /\ \A r \in Requests :
              act[r].name = n /\ SameVersion(operator[n], landed[r]) =>
                operator[n].spec = act[r].spec
    /\ \A p \in reports :
         /\ PastVersion(store[p.name], p, p.spec)
         /\ \A r \in Requests :
              act[r].name = p.name /\ SameVersion(p, landed[r]) =>
                p.spec = act[r].spec

\* A waiting delivery waits for a version no older than its own write, and
\* is shown none that belongs to an older incarnation.
WaitInv ==
    \A r \in Requests : pc[r] \in {"check", "watch", "loop"} =>
      /\ applied[r].uid >= landed[r].uid
      /\ applied[r].uid = landed[r].uid => applied[r].gen >= landed[r].gen
      /\ applied[r].uid <= store[act[r].name].uid
      /\ \A i \in 1..Len(events[r]) :
           LET ev == events[r][i]
           IN  ev.object /\ ev.name = act[r].name => ev.uid >= applied[r].uid

StatusInv ==
    /\ \A n \in Names : store[n].exists => Reported(reports, n, store[n])
    /\ \A r \in Requests : \A i \in 1..Len(events[r]) :
         events[r][i].object => Reported(reports, events[r][i].name, events[r][i])

\* The status of an object that a delivery holds is one of the operator's
\* reports: of the incarnation it is an object of, or of the one written.
ObjectInv ==
    \A r \in Requests :
      /\ Reported(reports, act[r].name, landed[r])
      /\ pc[r] \in {"check", "watch", "loop"} /\ applied[r].ready =>
           \E p \in reports :
             /\ p.name = act[r].name
             /\ p.uid \in {applied[r].uid, landed[r].uid}
             /\ p.gen = applied[r].obs

StreamInv ==
    \A r \in Requests : pc[r] # "loop" => r \notin streams /\ events[r] = <<>>

(* Together: a 200 is backed by an operator report of a version that is not *)
(* older than the delivery's own write, but for SuccessMeansReconciled's    *)
(* exception, and no event that ends a wait is lost.                        *)
IndInv ==
    /\ ActionInv
    /\ ExchangeInv
    /\ AnswerInv
    /\ VersionInv
    /\ WaitInv
    /\ StatusInv
    /\ ObjectInv
    /\ StreamInv
    /\ SuccessMeansReconciled
    /\ NoLostWakeup

\* The deliveries whose apply() succeeded and whose waitForSync has not returned,
\* those that were killed in it included; those whose Execute has returned
\* after an apply(); and those that were answered 200.
Awaited == {r \in Requests : \/ pc[r] \in {"check", "watch", "loop"}
                             \/ pc[r] = "killed" /\ applied[r] # NotLanded}
Ended == {r \in Requests : pc[r] = "done" /\ act[r].type = "apply"}
Succeeded == {r \in Requests : result[r] = "Ready"}

\* What the two metrics count over all their outcomes but apply's "error".
Writes == applyTotal["created"] + applyTotal["updated"]
Syncs == syncTotal["ready"] + syncTotal["timeout"] + syncTotal["transient"]

(* Every delivery is counted once per step, whatever path it returns by:    *)
(* webhookd_k8s_apply_total has one increment for each apply() that ended   *)
(* and webhookd_k8s_sync_duration one observation for each waitForSync that *)
(* returned, with "ready" counted exactly for the 200s; a wait that its     *)
(* process did not survive stays counted as an apply without a sync.        *)
MetricsAddUp ==
    /\ Writes = Cardinality(Awaited) + Syncs
    /\ applyTotal["error"] + Syncs = Cardinality(Ended)
    /\ syncTotal["ready"] = Cardinality(Succeeded)

\* What MetricsAddUp needs besides IndInv: the Get after a successful Patch
\* returns an object that counts as created or updated, and tells those
\* killed before it from those killed after it.
FetchInv ==
    /\ \A n \in Names : store[n].exists => store[n].gen > 0
    /\ \A r \in Requests :
         /\ pc[r] \in {"idle", "patch", "patching", "get"} => applied[r] = NotLanded
         /\ pc[r] \in {"check", "watch", "loop"} => applied[r] # NotLanded

(* Every delivery that Execute started is answered, even if the operator    *)
(* never reports Ready, its stream stays silent and no one cancels it;      *)
(* only the end of its process can take the answer away.                    *)
EveryDeliveryAnswered ==
    \A r \in Requests : pc[r] = "patch" ~> pc[r] \in {"done", "killed"}

(***************************************************************************)
(* Statements of the repository that the code does not keep.               *)
(***************************************************************************)
(* result.go on ResultInternalError: a fault that does not go away on       *)
(* retry, so at least one the API server was asked about.  classifyK8sErr   *)
(* answers the same for an apply that a cancelled context never sent.       *)
InternalErrorMeansFault ==
    \A r \in Requests : result[r] = "InternalError" => wire[r] # "none"

(* docs/design/0002 on the two conditions of success: without the first "we *)
(* could declare success based on a pre-existing Ready=True from an older   *)
(* generation".  The initial Get of waitForSync and the Get of apply decode *)
(* into objects that hold an earlier answer; its status survives where the  *)
(* new one has none.                                                        *)
SuccessNeverStale ==
    \A r \in Requests :
      result[r] = "Ready" => \E p \in reports : Confirms(p, r)

=============================================================================
