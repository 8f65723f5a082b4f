------------------------- MODULE ExecutorStepProofs -------------------------
(***************************************************************************)
(* Type correctness of the executor, for any number of deliveries, names,  *)
(* specs, reconciles and deletions, the facts about single steps that the  *)
(* other proofs share, and the conjuncts of IndInv about exchanges,        *)
(* writers, answers and streams.                                           *)
(***************************************************************************)
EXTENDS ExecutorProperties, TLAPS

USE KubernetesAssumption

-----------------------------------------------------------------------------
(* What one step may change, as facts the proofs below share. *)

(* A listing is a sequence of events, one for each object that exists, and *)
(* nothing else: the synthetic ADDED events that Watch starts with.        *)
LEMMA ListingFacts ==
    ASSUME TypeOK, NEW l \in Listings
    PROVE  /\ l \in Seq(Events)
           /\ \A i \in 1..Len(l) : \E n \in Names :
                store[n].exists /\ l[i] = Event(n, store[n])
           /\ \A n \in Names : store[n].exists =>
                \E i \in 1..Len(l) : l[i] = Event(n, store[n])
<1> DEFINE present == {n \in Names : store[n].exists}
           k == Cardinality(present)
<1>1. k \in Nat
  BY NamesAssumption
<1>2. PICK f \in [1..k -> present] :
        /\ \A n \in present : \E i \in DOMAIN f : f[i] = n
        /\ l = [i \in 1..k |-> Event(f[i], store[f[i]])]
  BY DEF Listings
<1> HIDE DEF k
<1>3. \A n \in Names : Event(n, store[n]) \in Events
  BY DEF TypeOK, KubernetesTypeOK, CR, Event, Events
<1>4. l \in Seq(Events) /\ Len(l) = k
  BY <1>1, <1>2, <1>3
<1>5. QED
  BY <1>2, <1>4, Zenon

(* A published event keeps the type of the event queues.                   *)
LEMMA PublishType ==
    ASSUME KubernetesTypeOK, NEW n \in Names, NEW cr \in CR, Publish(n, cr)
    PROVE  events' \in [Requests -> Seq(Events)]
<1>1. Event(n, cr) \in Events
  BY DEF Event, Events, CR
<1>2. \A r \in Requests : Append(events[r], Event(n, cr)) \in Seq(Events)
  BY <1>1 DEF KubernetesTypeOK
<1>3. QED
  BY <1>2 DEF Publish, KubernetesTypeOK

(* A failing apply() keeps the executor's types.                            *)
LEMMA ApplyFailsType ==
    ASSUME ExecutorTypeOK, NEW r \in Requests, NEW e \in ApiErrors,
           ApplyFails(r, e)
    PROVE  ExecutorTypeOK'
<1>1. classifyK8sErr(e) \in ResultKinds
  BY DEF classifyK8sErr, ResultKinds
<1>2. applyTotal' \in [ApplyOutcomes -> Nat]
  BY DEF ApplyFails, observeApply, ExecutorTypeOK, ApplyOutcomes
<1>3. QED
  BY <1>1, <1>2 DEF ApplyFails, Return, Goto, ExecutorTypeOK

(* A returning waitForSync keeps the executor's types.                      *)
LEMMA SyncReturnsType ==
    ASSUME ExecutorTypeOK, NEW r \in Requests, NEW k \in ResultKinds,
           SyncReturns(r, k)
    PROVE  ExecutorTypeOK'
<1>1. syncOutcome(k) \in SyncOutcomes
  BY DEF syncOutcome, SyncOutcomes
<1>2. syncTotal' \in [SyncOutcomes -> Nat]
  BY <1>1 DEF SyncReturns, observeSync, ExecutorTypeOK
<1>3. QED
  BY <1>2 DEF SyncReturns, Return, Goto, ExecutorTypeOK

(* Stopping a watch keeps the types of the cluster.                         *)
LEMMA StopWatchType ==
    ASSUME KubernetesTypeOK, NEW r \in Requests, StopWatch(r)
    PROVE  KubernetesTypeOK'
BY DEF KubernetesTypeOK, StopWatch

(* The server's apply of a well-typed action makes a well-typed CR.         *)
LEMMA AppliedType ==
    ASSUME NEW cr \in CR, NEW s \in Specs
    PROVE  Applied(cr, s) \in CR
BY DEF Applied, CR

(* A Get sets the version of the object it decodes into, and its status     *)
(* unless the CR has none.                                                  *)
LEMMA DecodedFacts ==
    ASSUME NEW obj \in Objects, NEW cr \in CR
    PROVE  /\ Decoded(obj, cr) \in Objects
           /\ Decoded(obj, cr).uid = cr.uid /\ Decoded(obj, cr).gen = cr.gen
           /\ \/ /\ Decoded(obj, cr).obs = cr.obs
                 /\ Decoded(obj, cr).ready = cr.ready
              \/ /\ Decoded(obj, cr).obs = obj.obs
                 /\ Decoded(obj, cr).ready = obj.ready
BY SMTT(20) DEF Decoded, Object, Objects, CR

(* The answer to an apply is an object.                                     *)
LEMMA ObjectFacts ==
    ASSUME NEW cr \in CR
    PROVE  /\ Object(cr) \in Objects
           /\ Object(cr).uid = cr.uid /\ Object(cr).gen = cr.gen
           /\ Object(cr).obs = cr.obs /\ Object(cr).ready = cr.ready
BY SMTT(20) DEF Object, Objects, CR

(* Types are kept by every step, given that only an ApplyAction reaches the *)
(* API server (a NoopAction has no name to look up).                        *)
LEMMA TypeStep ==
    ASSUME TypeOK, ActionInv, [Next]_vars
    PROVE  TypeOK'
<1> USE DEF TypeOK
<1>1. ASSUME UNCHANGED clusterVars PROVE KubernetesTypeOK'
  BY <1>1 DEF KubernetesTypeOK, clusterVars
<1>2. ASSUME UNCHANGED executorVars PROVE ExecutorTypeOK'
  BY <1>2 DEF ExecutorTypeOK, executorVars
<1>3. ASSUME NEW r \in Requests, Step(r) PROVE TypeOK'
  <2>1. CASE Execute(r)
    <3>1. ExecutorTypeOK'
      BY <2>1, Zenon DEF Execute, Return, Goto, ExecutorTypeOK, ResultKinds
    <3>2. QED
      BY <1>1, <2>1, <3>1 DEF Execute
  <2>2. CASE SendPatch(r)
    BY <2>2, Zenon DEF SendPatch, Goto, ExecutorTypeOK, KubernetesTypeOK
  <2>3. CASE PatchRefused(r)
    BY <1>1, <2>3, ApplyFailsType DEF PatchRefused, ApiErrors
  <2>4. CASE PatchReturns(r)
    BY <2>4, Zenon DEF PatchReturns, CloseExchange, Goto, ExecutorTypeOK,
       KubernetesTypeOK
  <2>5. CASE PatchRejected(r)
    <3>1. ExecutorTypeOK'
      BY <2>5, ApplyFailsType DEF PatchRejected
    <3>2. KubernetesTypeOK'
      BY <2>5 DEF PatchRejected, CloseExchange, KubernetesTypeOK
    <3>3. QED
      BY <3>1, <3>2
  <2>6. CASE PatchAbandoned(r)
    BY <1>1, <2>6, ApplyFailsType DEF PatchAbandoned, ApiErrors
  <2>7. CASE PostApplyGet(r)
    <3>1. store[act[r].name] \in CR
      BY <2>7, Zenon DEF PostApplyGet, ActionInv, ApplyActions, KubernetesTypeOK
    <3>2. applyOutcome(store[act[r].name].gen) \in ApplyOutcomes
      BY DEF applyOutcome, ApplyOutcomes
    <3>3. applyTotal' \in [ApplyOutcomes -> Nat]
      BY <2>7, <3>2, SMTT(20) DEF PostApplyGet, observeApply, ExecutorTypeOK
    <3>4. applied' \in [Requests -> Objects]
      <4>1. Decoded(landed[r], store[act[r].name]) \in Objects
        BY <3>1, DecodedFacts, Zenon DEF KubernetesTypeOK
      <4>2. QED
        BY <2>7, <4>1, Zenon DEF PostApplyGet, ExecutorTypeOK
    <3>5. ExecutorTypeOK'
      BY <2>7, <3>3, <3>4 DEF PostApplyGet, Goto, ExecutorTypeOK
    <3>6. QED
      BY <1>1, <2>7, <3>5 DEF PostApplyGet
  <2>8. CASE PostApplyGetFails(r)
    BY <1>1, <2>8, ApplyFailsType DEF PostApplyGetFails, ReadErrors
  <2>9. CASE InitialGetReady(r)
    BY <1>1, <2>9, SyncReturnsType DEF InitialGetReady, ResultKinds
  <2>10. CASE InitialGetPending(r)
    <3>1. ExecutorTypeOK'
      BY <2>10 DEF InitialGetPending, Goto, ExecutorTypeOK
    <3>2. QED
      BY <1>1, <2>10, <3>1 DEF InitialGetPending
  <2>11. CASE OpenWatch(r)
    <3>1. events' \in [Requests -> Seq(Events)]
      BY <2>11, ListingFacts DEF OpenWatch, KubernetesTypeOK
    <3>2. KubernetesTypeOK'
      BY <2>11, <3>1, Zenon DEF OpenWatch, KubernetesTypeOK
    <3>3. ExecutorTypeOK'
      BY <2>11 DEF OpenWatch, Goto, ExecutorTypeOK
    <3>4. QED
      BY <3>2, <3>3
  <2>12. CASE OpenWatchFails(r)
    BY <1>1, <2>12, SyncReturnsType DEF OpenWatchFails, ResultKinds
  <2>13. CASE LoopCtxDone(r)
    BY <2>13, SyncReturnsType, StopWatchType DEF LoopCtxDone, ResultKinds
  <2>14. CASE LoopChannelClosed(r)
    BY <2>14, SyncReturnsType, StopWatchType DEF LoopChannelClosed, ResultKinds
  <2>15. CASE LoopEventReady(r)
    BY <2>15, SyncReturnsType, StopWatchType DEF LoopEventReady, ResultKinds
  <2>16. CASE LoopEventIgnored(r)
    <3>1. KubernetesTypeOK'
      BY <2>16, SMTT(20) DEF LoopEventIgnored, KubernetesTypeOK
    <3>2. QED
      BY <1>2, <2>16, <3>1 DEF LoopEventIgnored
  <2>17. QED
    BY <1>3, <2>1, <2>2, <2>3, <2>4, <2>5, <2>6, <2>7, <2>8, <2>9, <2>10,
       <2>11, <2>12, <2>13, <2>14, <2>15, <2>16 DEF Step
<1>4. ASSUME NEW r \in Requests, ServerApplies(r) PROVE TypeOK'
  <2> DEFINE n == act[r].name
             cr == Applied(store[n], act[r].spec)
  <2>1. n \in Names /\ act[r].spec \in Specs
    BY <1>4 DEF ServerApplies, LandPatch, ActionInv, ApplyActions
  <2>2. cr \in CR
    BY <2>1, AppliedType DEF KubernetesTypeOK
  <2>3. events' \in [Requests -> Seq(Events)]
    BY <1>4, <2>1, <2>2, PublishType DEF ServerApplies, LandPatch
  <2>4. store' = [store EXCEPT ![n] = cr]
        /\ landed' = [landed EXCEPT ![r] = Object(cr)]
        /\ wire' = [wire EXCEPT ![r] = "ok"]
        /\ UNCHANGED <<streams, operator, reconciles, deletions, reports>>
    BY <1>4 DEF ServerApplies, LandPatch
  <2>5. Object(cr) \in Objects
    BY <2>2, ObjectFacts, Zenon
  <2> HIDE DEF n, cr
  <2>6. KubernetesTypeOK'
    BY <2>1, <2>2, <2>3, <2>4, <2>5 DEF KubernetesTypeOK
  <2>7. QED
    BY <1>2, <1>4, <2>6 DEF ServerApplies
<1>5. ASSUME NEW r \in Requests, DeadlineExpires(r) \/ ClientGone(r)
      PROVE  TypeOK'
  BY <1>1, <1>5 DEF DeadlineExpires, ClientGone, ExecutorTypeOK
<1>6. CASE Sigterm
  BY <1>1, <1>6 DEF Sigterm, ExecutorTypeOK
<1>7. ASSUME Cluster, UNCHANGED executorVars PROVE TypeOK'
  <2>1. ASSUME NEW n \in Names, OperatorReads(n) \/ OperatorGivesUp(n)
        PROVE  KubernetesTypeOK'
    <3> DEFINE View == [busy : BOOLEAN, uid : Nat, gen : Nat,
                        spec : Specs \cup {None}]
    <3>1. store[n] \in CR
      BY DEF KubernetesTypeOK
    <3>2. Idle \in View /\ [busy |-> TRUE, uid |-> store[n].uid,
                          gen |-> store[n].gen, spec |-> store[n].spec] \in View
      BY <3>1 DEF Idle, CR
    <3>3. operator \in [Names -> View]
      BY DEF KubernetesTypeOK
    <3>4. /\ reconciles' \in Nat
          /\ UNCHANGED <<store, wire, streams, events, deletions, landed, reports>>
      BY <2>1 DEF OperatorReads, OperatorGivesUp, KubernetesTypeOK
    <3>5. operator' \in [Names -> View]
      <4> HIDE DEF View
      <4>1. QED
        BY <2>1, <3>2, <3>3, Zenon DEF OperatorReads, OperatorGivesUp
    <3>6. QED
      BY <3>4, <3>5, Zenon DEF KubernetesTypeOK
  <2>2. ASSUME NEW n \in Names, NEW ok \in BOOLEAN, OperatorWrites(n, ok)
        PROVE  KubernetesTypeOK'
    <3>1. Observed(store[n], operator[n].gen, ok) \in CR
      BY DEF Observed, CR, KubernetesTypeOK
    <3>2. events' \in [Requests -> Seq(Events)]
      BY <2>2, <3>1, PublishType DEF OperatorWrites
    <3>3. store' \in [Names -> CR]
      BY <2>2, <3>1 DEF OperatorWrites, KubernetesTypeOK
    <3>4. QED
      BY <2>2, <3>2, <3>3 DEF OperatorWrites, Idle, KubernetesTypeOK
  <2>3. ASSUME NEW n \in Names, DeleteCR(n) PROVE KubernetesTypeOK'
    <3>1. store[n] \in CR /\ Deleted(store[n]) \in CR
      BY DEF Deleted, CR, KubernetesTypeOK
    <3>2. events' \in [Requests -> Seq(Events)]
      BY <2>3, <3>1, PublishType DEF DeleteCR
    <3>3. QED
      BY <2>3, <3>1, <3>2 DEF DeleteCR, KubernetesTypeOK
  <2>4. ASSUME NEW r \in Requests, RejectPatch(r) PROVE KubernetesTypeOK'
    BY <2>4 DEF RejectPatch, KubernetesTypeOK
  <2>5. ASSUME NEW r \in Requests, EndStream(r) PROVE KubernetesTypeOK'
    <3>1. StatusEvent \in Events /\ events[r] \in Seq(Events)
      BY Zenon DEF StatusEvent, Events, KubernetesTypeOK
    <3>2. events' \in [Requests -> Seq(Events)]
      BY <2>5, <3>1, Append(events[r], StatusEvent) \in Seq(Events)
      DEF EndStream, KubernetesTypeOK
    <3>3. QED
      BY <2>5, <3>2, Zenon DEF EndStream, KubernetesTypeOK
  <2>6. QED
    BY <1>2, <1>7, <2>1, <2>2, <2>3, <2>4, <2>5 DEF Cluster
<1>8. CASE UNCHANGED vars
  BY <1>1, <1>2, <1>8 DEF vars
<1>9. ASSUME NEW S \in SUBSET Requests, ProcessExits(S) PROVE TypeOK'
  <2>1. events' \in [Requests -> Seq(Events)]
    BY <1>9 DEF ProcessExits, KubernetesTypeOK
  <2>2. KubernetesTypeOK'
    BY <1>9, <2>1 DEF ProcessExits, KubernetesTypeOK
  <2>3. ExecutorTypeOK'
    BY <1>9 DEF ProcessExits, ExecutorTypeOK
  <2>4. QED
    BY <2>2, <2>3
<1>10. QED
  BY <1>3, <1>4, <1>5, <1>6, <1>7, <1>8, <1>9 DEF Next

-----------------------------------------------------------------------------
(* The steps of a delivery, reduced to what they change. *)

\* Nothing that concerns q changes.
Untouched(q) ==
    /\ pc'[q] = pc[q] /\ wire'[q] = wire[q] /\ applied'[q] = applied[q]
    /\ result'[q] = result[q] /\ events'[q] = events[q]
    /\ q \in streams' <=> q \in streams

\* What a step of r can do to r.
Begins(r) ==
    /\ pc[r] = "idle" /\ pc'[r] = "patch" /\ act[r] \in ApplyActions
    /\ wire'[r] = wire[r] /\ result'[r] = result[r]
Skips(r) ==
    /\ pc[r] = "idle" /\ pc'[r] = "done" /\ result'[r] = "Noop"
    /\ wire'[r] = wire[r]
Sends(r) ==
    /\ pc[r] = "patch" /\ pc'[r] = "patching" /\ wire'[r] = "sent"
    /\ result'[r] = result[r]
Fails(r) ==
    /\ pc[r] \in {"patch", "patching", "get"} /\ pc'[r] = "done"
    /\ \/ wire'[r] = wire[r] /\ result'[r] \in {"TransientFailure", "InternalError"}
       \/ /\ pc[r] = "patching" /\ wire[r] \in ApiErrors /\ wire'[r] = "closed"
          /\ result'[r] \in {"TransientFailure", "InternalError", "Unprocessable"}
Confirmed(r) ==
    /\ pc[r] = "patching" /\ pc'[r] = "get"
    /\ wire[r] = "ok" /\ wire'[r] = "closed" /\ result'[r] = result[r]
Refetches(r) ==
    /\ pc[r] = "get" /\ pc'[r] = "check" /\ store[act[r].name].exists
    /\ applied'[r] = Decoded(landed[r], store[act[r].name])
    /\ wire'[r] = wire[r] /\ result'[r] = result[r]
Waits(r) ==
    /\ pc[r] = "check" /\ pc'[r] = "watch"
    /\ wire'[r] = wire[r] /\ result'[r] = result[r] /\ applied'[r] = applied[r]
Watches(r) ==
    /\ pc[r] = "watch" /\ pc'[r] = "loop" /\ events'[r] \in Listings
    /\ wire'[r] = wire[r] /\ result'[r] = result[r] /\ applied'[r] = applied[r]
Drops(r) ==
    /\ pc[r] = "loop" /\ pc'[r] = "loop" /\ events[r] # <<>>
    /\ Ignored(r, Head(events[r])) /\ events'[r] = Tail(events[r])
    /\ wire'[r] = wire[r] /\ result'[r] = result[r] /\ applied'[r] = applied[r]
    /\ r \in streams' <=> r \in streams
Ends(r) ==
    /\ pc[r] \in {"check", "watch", "loop"} /\ pc'[r] = "done"
    /\ wire'[r] = wire[r] /\ applied'[r] = applied[r]
    /\ IF pc[r] = "loop"
       THEN r \notin streams' /\ events'[r] = <<>>
       ELSE events'[r] = events[r] /\ (r \in streams' <=> r \in streams)
    /\ \/ result'[r] = "TransientFailure"
       \/ result'[r] = "Timeout"
       \/ /\ result'[r] = "Ready" /\ pc[r] = "check"
          /\ store[act[r].name].exists
          /\ IsReady(Decoded(applied[r], store[act[r].name]), applied[r].gen)
       \/ /\ result'[r] = "Ready" /\ pc[r] = "loop"
          /\ events[r] # <<>> /\ ~Ignored(r, Head(events[r]))

(* Every step of a delivery is one of these moves, leaves the other         *)
(* deliveries and the objects in the cluster alone, and touches its event   *)
(* queue only from "watch" on.                                              *)
LEMMA StepMoves ==
    ASSUME TypeOK, ActionInv, NEW r \in Requests, Step(r)
    PROVE  /\ UNCHANGED <<store, operator, landed, reports, act>>
           /\ \A q \in Requests : q # r => Untouched(q)
           /\ \/ Begins(r) \/ Skips(r) \/ Sends(r) \/ Fails(r) \/ Confirmed(r)
              \/ Refetches(r) \/ Waits(r) \/ Watches(r) \/ Drops(r) \/ Ends(r)
           /\ pc[r] \notin {"watch", "loop"} =>
                events'[r] = events[r] /\ (r \in streams' <=> r \in streams)
<1>t. /\ pc \in [Requests -> {"idle", "patch", "patching", "get", "check",
                              "watch", "loop", "done", "killed"}]
      /\ DOMAIN wire = Requests /\ wire = [q \in Requests |-> wire[q]]
      /\ applied = [q \in Requests |-> applied[q]] /\ DOMAIN applied = Requests
      /\ result = [q \in Requests |-> result[q]] /\ DOMAIN result = Requests
      /\ events = [q \in Requests |-> events[q]] /\ DOMAIN events = Requests
  BY DEF TypeOK, KubernetesTypeOK, ExecutorTypeOK
<1>1. CASE Execute(r)
  <2>1. act[r].type = "apply" => act[r] \in ApplyActions
    BY DEF TypeOK, ExecutorTypeOK, Actions, NoopAction
  <2>2. QED
    BY <1>t, <1>1, <2>1
    DEF Execute, Return, Goto, clusterVars, Untouched, Begins, Skips
<1>2. CASE SendPatch(r)
  BY <1>t, <1>2 DEF SendPatch, Goto, Untouched, Sends
<1>3. ASSUME NEW e \in ApiErrors, ApplyFails(r, e)
      PROVE  /\ pc' = [pc EXCEPT ![r] = "done"]
             /\ result' = [result EXCEPT ![r] = classifyK8sErr(e)]
             /\ UNCHANGED <<act, applied>>
             /\ classifyK8sErr(e) \in {"TransientFailure", "InternalError", "Unprocessable"}
             /\ e # "Invalid" => classifyK8sErr(e) # "Unprocessable"
  BY <1>3 DEF ApplyFails, Return, Goto, classifyK8sErr
<1>4. CASE PatchRefused(r)
  BY <1>t, <1>3, <1>4, Zenon DEF PatchRefused, ApiErrors, clusterVars, Untouched, Fails
<1>5. CASE PatchReturns(r)
  BY <1>t, <1>5 DEF PatchReturns, CloseExchange, Goto, Untouched, Confirmed
<1>6. CASE PatchRejected(r)
  BY <1>t, <1>3, <1>6 DEF PatchRejected, CloseExchange, Untouched, Fails
<1>7. CASE PatchAbandoned(r)
  BY <1>t, <1>3, <1>7, Zenon DEF PatchAbandoned, ApiErrors, clusterVars, Untouched, Fails
<1>8. CASE PostApplyGet(r)
  BY <1>t, <1>8 DEF PostApplyGet, Goto, clusterVars, Untouched, Refetches
<1>9. CASE PostApplyGetFails(r)
  <2>1. PICK e \in ReadErrors : ApplyFails(r, e)
    BY <1>9 DEF PostApplyGetFails
  <2>2. e \in ApiErrors /\ e # "Invalid"
    BY DEF ReadErrors
  <2>3. QED
    BY <1>t, <1>3, <1>9, <2>1, <2>2 DEF PostApplyGetFails, clusterVars, Untouched, Fails
<1>10. ASSUME NEW k, SyncReturns(r, k)
       PROVE  /\ pc' = [pc EXCEPT ![r] = "done"]
              /\ result' = [result EXCEPT ![r] = k]
              /\ UNCHANGED <<act, applied>>
  BY <1>10, Zenon DEF SyncReturns, Return, Goto
<1>11. CASE InitialGetReady(r)
  BY <1>t, <1>10, <1>11 DEF InitialGetReady, clusterVars, Untouched, Ends
<1>12. CASE InitialGetPending(r)
  BY <1>t, <1>12 DEF InitialGetPending, Goto, clusterVars, Untouched, Waits
<1>13. CASE OpenWatch(r)
  BY <1>t, <1>13 DEF OpenWatch, Goto, Untouched, Watches
<1>14. CASE OpenWatchFails(r)
  BY <1>t, <1>10, <1>14, SMTT(20) DEF OpenWatchFails, clusterVars, Untouched, Ends
<1>15. CASE LoopCtxDone(r)
  BY <1>t, <1>10, <1>15, SMTT(20) DEF LoopCtxDone, StopWatch, Untouched, Ends
<1>16. CASE LoopChannelClosed(r)
  BY <1>t, <1>10, <1>16, SMTT(20) DEF LoopChannelClosed, StopWatch, Untouched, Ends
<1>17. CASE LoopEventReady(r)
  BY <1>t, <1>10, <1>17, SMTT(20) DEF LoopEventReady, StopWatch, Untouched, Ends
<1>18. CASE LoopEventIgnored(r)
  BY <1>t, <1>18 DEF LoopEventIgnored, executorVars, Untouched, Drops
<1>19. QED
  BY <1>1, <1>2, <1>4, <1>5, <1>6, <1>7, <1>8, <1>9, <1>11, <1>12, <1>13,
     <1>14, <1>15, <1>16, <1>17, <1>18, Zenon DEF Step

(* The other steps: the server takes an apply, nothing but timers and       *)
(* contexts changes, or the cluster moves on its own.                       *)
LEMMA NextCases ==
    ASSUME [Next]_vars
    PROVE  \/ \E r \in Requests : Step(r)
           \/ \E r \in Requests : ServerApplies(r)
           \/ \E S \in SUBSET Requests : ProcessExits(S)
           \/ UNCHANGED <<clusterVars, act, pc, applied, result>>
           \/ Cluster /\ UNCHANGED executorVars
BY ZenonT(40) DEF Next, vars, executorVars, DeadlineExpires, ClientGone, Sigterm

(* An apply that lands: the CR becomes Applied(...), its version is noted.  *)
LEMMA ServerAppliesFacts ==
    ASSUME TypeOK, ActionInv, NEW r \in Requests, ServerApplies(r)
    PROVE  LET n == act[r].name
               cr == Applied(store[n], act[r].spec)
           IN  /\ n \in Names /\ act[r] \in ApplyActions /\ wire[r] = "sent"
               /\ store[n] \in CR /\ cr \in CR
               /\ store' = [store EXCEPT ![n] = cr]
               /\ landed' = [landed EXCEPT ![r] = Object(cr)]
               /\ wire' = [wire EXCEPT ![r] = "ok"]
               /\ Publish(n, cr)
               /\ UNCHANGED <<streams, operator, reports, act, pc, applied, result>>
<1>1. act[r] \in ApplyActions
  BY DEF ServerApplies, LandPatch, ActionInv
<1>2. act[r].name \in Names /\ act[r].spec \in Specs
  BY <1>1, Zenon DEF ApplyActions
<1>3. store[act[r].name] \in CR
  BY <1>2, SMTT(20) DEF TypeOK, KubernetesTypeOK
<1>4. QED
  BY <1>1, <1>2, <1>3, AppliedType, SMTT(20) DEF ServerApplies, LandPatch, executorVars

(* An apply that lands writes its own CR and no other.                      *)
LEMMA ServerAppliesStore ==
    ASSUME TypeOK, ActionInv, NEW r \in Requests, ServerApplies(r)
    PROVE  LET n == act[r].name
           IN  /\ act[r] \in ApplyActions /\ n \in Names /\ act[r].spec \in Specs
               /\ store[n] \in CR /\ store'[n] \in CR
               /\ store'[n] = Applied(store[n], act[r].spec)
               /\ landed'[r].uid = store'[n].uid /\ landed'[r].gen = store'[n].gen
               /\ landed'[r].obs = store'[n].obs /\ landed'[r].ready = store'[n].ready
               /\ \A m \in Names : m # n => store'[m] = store[m]
<1>1. DOMAIN store = Names /\ DOMAIN landed = Requests
  BY Zenon DEF TypeOK, KubernetesTypeOK
<1>2. act[r].spec \in Specs
  BY ServerAppliesFacts DEF ApplyActions
<1>3. QED
  BY <1>1, <1>2, ServerAppliesFacts, ObjectFacts

(* It ends its own exchange, and changes nothing in the process.            *)
LEMMA ServerAppliesFrame ==
    ASSUME TypeOK, ActionInv, NEW r \in Requests, ServerApplies(r)
    PROVE  /\ wire[r] = "sent" /\ wire'[r] = "ok"
           /\ \A q \in Requests : q # r =>
                wire'[q] = wire[q] /\ landed'[q] = landed[q]
           /\ UNCHANGED <<streams, operator, reports, act, pc, applied, result>>
<1>1. DOMAIN wire = Requests /\ DOMAIN landed = Requests
  BY DEF TypeOK, KubernetesTypeOK
<1>2. QED
  BY <1>1, ServerAppliesFacts

(* The end of a process takes goroutines with their streams, and no more.   *)
LEMMA ProcessExitsFacts ==
    ASSUME TypeOK, NEW S \in SUBSET Requests, ProcessExits(S)
    PROVE  /\ UNCHANGED <<store, wire, operator, landed, reports, act, applied,
                          result>>
           /\ \A q \in S :
                /\ pc[q] \notin {"idle", "done"} /\ pc'[q] = "killed"
                /\ q \notin streams' /\ events'[q] = <<>>
           /\ \A q \in Requests \ S :
                /\ pc'[q] = pc[q] /\ events'[q] = events[q]
                /\ q \in streams' <=> q \in streams
BY DEF ProcessExits

(* Only ApplyActions ever reach the API server. *)
LEMMA ActionStep ==
    ASSUME TypeOK, ActionInv, [Next]_vars
    PROVE  ActionInv'
<1>1. ASSUME NEW r \in Requests, Step(r) PROVE ActionInv'
  BY <1>1, StepMoves, Zenon
  DEF ActionInv, Untouched, Begins, Skips, Sends, Fails, Confirmed, Refetches,
      Waits, Watches, Drops, Ends
<1>2. ASSUME NEW r \in Requests, ServerApplies(r) PROVE ActionInv'
  BY <1>2, ServerAppliesFacts, Zenon DEF ActionInv, TypeOK, KubernetesTypeOK
<1>3. CASE UNCHANGED <<clusterVars, act, pc, applied, result>>
  BY <1>3 DEF ActionInv, clusterVars
<1>4. CASE Cluster /\ UNCHANGED executorVars
  <2>1. \A r \in Requests : wire'[r] # "none" => wire[r] # "none"
    BY <1>4 DEF Cluster, OperatorReads, OperatorWrites, OperatorGivesUp,
       DeleteCR, RejectPatch, EndStream, TypeOK, KubernetesTypeOK
  <2>2. QED
    <3>1. UNCHANGED <<act, pc>>
      BY <1>4, ZenonT(40) DEF executorVars
    <3>2. QED
      BY <2>1, <3>1, Zenon DEF ActionInv
<1>5. ASSUME NEW S \in SUBSET Requests, ProcessExits(S) PROVE ActionInv'
  BY <1>5, ProcessExitsFacts DEF ActionInv
<1>6. QED
  BY <1>1, <1>2, <1>3, <1>4, <1>5, NextCases

(* The initial states are well typed. *)
LEMMA InitTypes ==
    ASSUME Init
    PROVE  TypeOK
<1>1. /\ NotLanded \in Objects /\ Absent \in CR
      /\ Idle \in [busy : BOOLEAN, uid : Nat, gen : Nat, spec : Specs \cup {None}]
  BY DEF NotLanded, Objects, Absent, CR, Idle
<1>2. KubernetesTypeOK
  BY <1>1 DEF Init, KubernetesInit, KubernetesTypeOK
<1>3. ExecutorTypeOK
  BY <1>1 DEF Init, ExecutorTypeOK
<1>4. QED
  BY <1>2, <1>3, Zenon DEF TypeOK

(* Whatever interleaving of goroutines, server, operator and signals, every *)
(* variable keeps its type.                                                 *)
THEOREM TypeCorrect == Spec => []TypeOK
<1>1. Init => ActionInv
  BY Zenon DEF Init, KubernetesInit, ActionInv
<1>2. TypeOK /\ ActionInv /\ [Next]_vars => (TypeOK /\ ActionInv)'
  BY TypeStep, ActionStep
<1>3. QED
  BY <1>1, <1>2, InitTypes, PTL DEF Spec

(***************************************************************************)
(* Exchanges, answers and streams.                                         *)
(***************************************************************************)
(* An apply never moves a CR back: what was a past version stays one, and a *)
(* past version equal to the one just written has the spec just written.    *)
LEMMA AppliedVersion ==
    ASSUME NEW cr \in CR, NEW t \in Specs,
           NEW v, v.uid \in Nat, v.gen \in Nat, NEW s, PastVersion(cr, v, s)
    PROVE  /\ PastVersion(Applied(cr, t), v, s)
           /\ SameVersion(v, Applied(cr, t)) => s = t
<1>2. CASE ~cr.exists
  BY <1>2, SMTT(20) DEF Applied, CR, PastVersion, SameVersion
<1>3. CASE cr.exists /\ cr.spec = t
  BY <1>3, Zenon DEF Applied, CR, PastVersion, SameVersion
<1>4. CASE cr.exists /\ cr.spec # t
  BY <1>4, SMTT(20) DEF Applied, CR, PastVersion, SameVersion
<1>5. QED
  BY <1>2, <1>3, <1>4, Zenon DEF CR

(* The version an apply produces is a version of the CR, with its spec.     *)
LEMMA AppliedIsVersion ==
    ASSUME NEW cr \in CR, cr.exists => cr.uid > 0, NEW t \in Specs
    PROVE  /\ Applied(cr, t).exists
           /\ Applied(cr, t).uid > 0
           /\ Applied(cr, t).spec = t
           /\ Applied(cr, t).uid >= cr.uid
           /\ Applied(cr, t).ready =>
                /\ cr.exists /\ cr.ready /\ Applied(cr, t).uid = cr.uid
                /\ Applied(cr, t).obs = cr.obs
<1>1. CASE ~cr.exists
  BY <1>1, SMTT(20) DEF Applied, CR
<1>2. CASE cr.exists /\ cr.spec = t
  BY <1>2, SMTT(20) DEF Applied, CR
<1>3. CASE cr.exists /\ cr.spec # t
  BY <1>3, SMTT(20) DEF Applied, CR
<1>4. QED
  BY <1>1, <1>2, <1>3, Zenon DEF CR

(* Each apply takes effect at most once, between its sending and the end of *)
(* the exchange.                                                            *)
LEMMA ExchangeStep ==
    ASSUME TypeOK, ActionInv, ExchangeInv, VersionInv, [Next]_vars
    PROVE  ExchangeInv'
<1>t. /\ \A r \in Requests : /\ wire[r] \in {"none", "sent", "ok", "closed"} \cup ApiErrors
      /\ DOMAIN wire = Requests /\ DOMAIN landed = Requests
  BY DEF TypeOK, KubernetesTypeOK
<1> DEFINE Ok(q) ==
      /\ pc[q] \in {"idle", "patch"} => wire[q] = "none"
      /\ pc[q] \in {"get", "check", "watch", "loop"} =>
           wire[q] = "closed" /\ landed[q] # NotLanded
      /\ wire[q] \in {"none", "sent"} \cup ApiErrors => landed[q] = NotLanded
      /\ wire[q] = "ok" => landed[q] # NotLanded
<1>1. ASSUME NEW r \in Requests, Step(r) PROVE ExchangeInv'
  <2>0. landed' = landed
    BY <1>1, StepMoves, Zenon
  <2>1. landed' = landed /\ Ok(r)
    BY <2>0 DEF ExchangeInv
  <2>2. Ok(r)'
    <3>1. CASE Begins(r) \/ Skips(r) \/ Sends(r)
      BY <2>1, <3>1, Zenon DEF Begins, Skips, Sends, ApiErrors
    <3>2. CASE Fails(r) \/ Confirmed(r)
      BY <2>1, <3>2, ZenonT(40) DEF Fails, Confirmed, ApiErrors
    <3>3. CASE Refetches(r) \/ Waits(r) \/ Watches(r) \/ Drops(r) \/ Ends(r)
      <4>1. /\ pc[r] \in {"get", "check", "watch", "loop"}
            /\ pc'[r] \in {"check", "watch", "loop", "done"}
            /\ wire'[r] = wire[r]
        BY <3>3, ZenonT(40) DEF Refetches, Waits, Watches, Drops, Ends
      <4>2. wire[r] = "closed" /\ landed[r] # NotLanded
        BY <2>1, <4>1, Zenon
      <4>3. QED
        BY <2>1, <4>1, <4>2, Zenon DEF ApiErrors
    <3> HIDE DEF Ok
    <3>4. QED
      BY <1>1, <3>1, <3>2, <3>3, StepMoves, ZenonT(40)
  <2>3. \A q \in Requests : q # r => Ok(q)'
    BY <1>1, <2>1, StepMoves, ZenonT(40) DEF ExchangeInv, Untouched
  <2>4. QED
    BY <2>2, <2>3 DEF ExchangeInv
<1>2. ASSUME NEW r \in Requests, ServerApplies(r) PROVE ExchangeInv'
  <2>0. store[act[r].name].exists => store[act[r].name].uid > 0
    BY <1>2, ServerAppliesStore, ZenonT(40) DEF VersionInv
  <2>1. landed'[r].uid > 0
    BY <1>2, <2>0, ServerAppliesStore, AppliedIsVersion
  <2>2. landed'[r] # NotLanded
    BY <2>1 DEF NotLanded
  <2>3. \A q \in Requests : q # r => wire'[q] = wire[q] /\ landed'[q] = landed[q]
    BY <1>2, ServerAppliesFrame
  <2>4. wire'[r] = "ok" /\ pc' = pc /\ wire[r] = "sent"
    BY <1>2, ServerAppliesFrame
  <2>5. Ok(r)
    BY DEF ExchangeInv
  <2>6. Ok(r)'
    BY <2>2, <2>4, <2>5, Zenon DEF ApiErrors
  <2>7. \A q \in Requests : q # r => Ok(q)'
    BY <2>3, <2>4 DEF ExchangeInv
  <2>8. QED
    BY <2>6, <2>7 DEF ExchangeInv
<1>3. CASE UNCHANGED <<clusterVars, act, pc, applied, result>>
  BY <1>3, Zenon DEF ExchangeInv, clusterVars
<1>4. CASE Cluster /\ UNCHANGED executorVars
  <2>1. ASSUME NEW r \in Requests, RejectPatch(r) PROVE ExchangeInv'
    BY <1>4, <1>t, <2>1, Zenon DEF RejectPatch, ExchangeInv, ApiErrors, executorVars
  <2>2. \/ UNCHANGED <<wire, landed>>
        \/ \E r \in Requests : RejectPatch(r)
    BY <1>4, Zenon DEF Cluster, OperatorReads, OperatorWrites, OperatorGivesUp,
       DeleteCR, EndStream
  <2>3. QED
    BY <1>4, <2>1, <2>2, Zenon DEF ExchangeInv, executorVars
<1>5. ASSUME NEW S \in SUBSET Requests, ProcessExits(S) PROVE ExchangeInv'
  <2>1. /\ UNCHANGED <<wire, landed>>
        /\ \A q \in Requests : pc'[q] = "killed" \/ pc'[q] = pc[q]
    BY <1>5, ProcessExitsFacts
  <2>2. QED
    BY <2>1, Zenon DEF ExchangeInv
<1>6. QED
  BY <1>1, <1>2, <1>3, <1>4, <1>5, NextCases

-----------------------------------------------------------------------------
(* Answers. *)

(* An answer that rules out, or relies on, the write is given only once the *)
(* exchange with the API server is over.                                    *)
LEMMA AnswerStep ==
    ASSUME TypeOK, ActionInv, ExchangeInv, AnswerInv, [Next]_vars
    PROVE  AnswerInv'
<1>t. DOMAIN wire = Requests
  BY DEF TypeOK, KubernetesTypeOK
<1> DEFINE Final == {"Noop", "Unprocessable", "Ready", "Timeout"}
           Ok(q) == /\ pc[q] # "done" => result[q] = None
                    /\ result[q] \in Final => wire[q] \in {"none", "closed"}
<1>n. None \notin Final
  BY ExecutorAssumption DEF ResultKinds
<1>1. ASSUME NEW r \in Requests, Step(r) PROVE AnswerInv'
  <2>1. Ok(r)
    BY DEF AnswerInv
  <2>2. Ok(r)'
    <3>1. CASE Begins(r) \/ Skips(r) \/ Sends(r)
      BY <1>n, <2>1, <3>1, Zenon DEF Begins, Skips, Sends, ExchangeInv
    <3>2. CASE Fails(r) \/ Confirmed(r)
      BY <2>1, <3>2 DEF Fails, Confirmed
    <3>3. CASE Refetches(r) \/ Waits(r) \/ Watches(r) \/ Drops(r)
      BY <2>1, <3>3, Zenon DEF Refetches, Waits, Watches, Drops
    <3>4. CASE Ends(r)
      BY <3>4, Zenon DEF Ends, ExchangeInv
    <3>5. QED
      BY <1>1, <3>1, <3>2, <3>3, <3>4, StepMoves, Zenon
  <2>3. \A q \in Requests : q # r => Ok(q)'
    BY <1>1, StepMoves, ZenonT(40) DEF AnswerInv, Untouched
  <2>4. QED
    BY <2>2, <2>3 DEF AnswerInv
<1>2. ASSUME NEW r \in Requests, ServerApplies(r) PROVE AnswerInv'
  <2>1. /\ \A q \in Requests : q # r => wire'[q] = wire[q]
        /\ wire[r] = "sent" /\ UNCHANGED <<pc, result>>
    BY <1>2, ServerAppliesFrame
  <2>2. QED
    BY <2>1 DEF AnswerInv
<1>3. CASE UNCHANGED <<clusterVars, act, pc, applied, result>>
  BY <1>3 DEF AnswerInv, clusterVars
<1>4. CASE Cluster /\ UNCHANGED executorVars
  <2>1. \A q \in Requests : wire'[q] = wire[q] \/ wire[q] = "sent"
    BY <1>4, <1>t, Zenon DEF Cluster, OperatorReads, OperatorWrites, OperatorGivesUp,
       DeleteCR, RejectPatch, EndStream
  <2>2. QED
    BY <1>4, <2>1 DEF AnswerInv, executorVars
<1>5. ASSUME NEW S \in SUBSET Requests, ProcessExits(S) PROVE AnswerInv'
  <2>1. /\ UNCHANGED <<wire, result>>
        /\ \A q \in Requests : pc[q] = "done" => pc'[q] = "done"
    <3>1. ASSUME NEW q \in Requests, pc[q] = "done" PROVE q \notin S
      BY <1>5, <3>1, ProcessExitsFacts, ZenonT(40)
    <3>2. QED
      BY <1>5, <3>1, ProcessExitsFacts, Zenon
  <2>2. QED
    <3>1. \A q \in Requests : pc'[q] # "done" => pc[q] # "done"
      BY <2>1
    <3>2. QED
      BY <2>1, <3>1 DEF AnswerInv
<1>6. QED
  BY <1>1, <1>2, <1>3, <1>4, <1>5, NextCases

(* A change of n appends one event to every open stream and leaves the      *)
(* events already queued, and the other queues, alone.                      *)
LEMMA PublishFacts ==
    ASSUME TypeOK, NEW n \in Names, NEW cr \in CR, Publish(n, cr),
           NEW r \in Requests
    PROVE  /\ \A i \in 1..Len(events'[r]) :
                \/ i \in 1..Len(events[r]) /\ events'[r][i] = events[r][i]
                \/ r \in streams /\ events'[r][i] = Event(n, cr)
           /\ \A i \in 1..Len(events[r]) :
                i \in 1..Len(events'[r]) /\ events'[r][i] = events[r][i]
           /\ r \in streams =>
                \E i \in 1..Len(events'[r]) : events'[r][i] = Event(n, cr)
           /\ r \notin streams => events'[r] = events[r]
<1>1. events[r] \in Seq(Events) /\ Event(n, cr) \in Events
  BY Zenon DEF TypeOK, KubernetesTypeOK, Event, Events, CR
<1>2. events'[r] = IF r \in streams THEN Append(events[r], Event(n, cr))
                                    ELSE events[r]
  BY Zenon DEF Publish
<1>3. CASE r \in streams
  <2>1. /\ Len(Append(events[r], Event(n, cr))) = Len(events[r]) + 1
        /\ \A i \in 1..Len(events[r]) :
             Append(events[r], Event(n, cr))[i] = events[r][i]
        /\ Append(events[r], Event(n, cr))[Len(events[r]) + 1] = Event(n, cr)
        /\ Len(events[r]) \in Nat
    BY <1>1, SMTT(20)
  <2>2. QED
    BY <1>2, <1>3, <2>1
<1>4. CASE r \notin streams
  BY <1>1, <1>2, <1>4
<1>5. QED
  BY <1>3, <1>4

(* Only a delivery in its watch loop has a stream or queued events.         *)
LEMMA StreamStep ==
    ASSUME TypeOK, ActionInv, StreamInv, [Next]_vars
    PROVE  StreamInv'
<1>1. ASSUME NEW r \in Requests, Step(r) PROVE StreamInv'
  <2>1. pc'[r] # "loop" => r \notin streams' /\ events'[r] = <<>>
    <3>1. CASE pc[r] \notin {"watch", "loop"}
      BY <1>1, <3>1, StepMoves DEF StreamInv
    <3>2. CASE pc[r] \in {"watch", "loop"}
      BY <1>1, <3>2, StepMoves, Zenon
      DEF StreamInv, Begins, Skips, Sends, Fails, Confirmed, Refetches, Waits,
          Watches, Drops, Ends
    <3>3. QED
      BY <3>1, <3>2, ZenonT(40)
  <2>2. QED
    BY <1>1, <2>1, StepMoves, ZenonT(40) DEF StreamInv, Untouched
<1>2. ASSUME NEW n \in Names, NEW cr \in CR, Publish(n, cr),
             UNCHANGED <<streams, pc>>
      PROVE  StreamInv'
  BY <1>2, PublishFacts, Zenon DEF StreamInv
<1>3. ASSUME NEW r \in Requests, ServerApplies(r) PROVE StreamInv'
  BY <1>2, <1>3, ServerAppliesFacts
<1>4. CASE UNCHANGED <<clusterVars, act, pc, applied, result>>
  BY <1>4 DEF StreamInv, clusterVars
<1>5. ASSUME Cluster, UNCHANGED executorVars PROVE StreamInv'
  <2>1. ASSUME NEW n \in Names, NEW ok \in BOOLEAN, OperatorWrites(n, ok)
        PROVE  StreamInv'
    <3>1. Observed(store[n], operator[n].gen, ok) \in CR
      BY DEF TypeOK, KubernetesTypeOK, Observed, CR
    <3>2. QED
      BY <1>2, <1>5, <2>1, <3>1, SMTT(20) DEF OperatorWrites, executorVars
  <2>2. ASSUME NEW n \in Names, DeleteCR(n) PROVE StreamInv'
    <3>1. store[n] \in CR
      BY Zenon DEF TypeOK, KubernetesTypeOK
    <3>2. QED
      BY <1>2, <1>5, <2>2, <3>1 DEF DeleteCR, executorVars
  <2>3. ASSUME NEW r \in Requests, EndStream(r) PROVE StreamInv'
    <3>1. pc' = pc /\ pc[r] = "loop" /\ streams' \subseteq streams
          /\ \A q \in Requests : q # r => events'[q] = events[q]
      BY <1>5, <2>3 DEF EndStream, executorVars, StreamInv, TypeOK,
         KubernetesTypeOK
    <3>2. QED
      BY <3>1, Zenon DEF StreamInv
  <2>4. ASSUME UNCHANGED <<streams, events>> PROVE StreamInv'
    <3>1. pc' = pc
      BY <1>5, Zenon DEF executorVars
    <3>2. QED
      BY <2>4, <3>1 DEF StreamInv
  <2>5. ASSUME NEW n \in Names, OperatorReads(n) \/ OperatorGivesUp(n)
        PROVE  StreamInv'
    BY <2>4, <2>5 DEF OperatorReads, OperatorGivesUp
  <2>6. ASSUME NEW r \in Requests, RejectPatch(r) PROVE StreamInv'
    BY <2>4, <2>6, Zenon DEF RejectPatch
  <2>7. QED
    BY <1>5, <2>1, <2>2, <2>3, <2>5, <2>6, ZenonT(40) DEF Cluster
<1>6. ASSUME NEW S \in SUBSET Requests, ProcessExits(S) PROVE StreamInv'
  <2>1. ASSUME NEW q \in S PROVE q \notin streams' /\ events'[q] = <<>>
    BY <1>6, <2>1, ProcessExitsFacts, Zenon
  <2>2. ASSUME NEW q \in Requests \ S
        PROVE  pc'[q] = pc[q] /\ events'[q] = events[q] /\ (q \in streams' <=> q \in streams)
    BY <1>6, <2>2, ProcessExitsFacts, Zenon
  <2>3. QED
    BY <2>1, <2>2, Zenon DEF StreamInv
<1>7. QED
  BY <1>1, <1>3, <1>4, <1>5, <1>6, NextCases, SMTT(20)

(* An event that a step leaves in a queue was there before, is a Status, or *)
(* shows a state that the object had just before or has just after it.      *)
LEMMA EventsStep ==
    ASSUME TypeOK, ActionInv, [Next]_vars,
           NEW r \in Requests, NEW i \in 1..Len(events'[r])
    PROVE  \/ \E j \in 1..Len(events[r]) : events'[r][i] = events[r][j]
           \/ ~events'[r][i].object
           \/ \E n \in Names :
                \/ store[n].exists /\ events'[r][i] = Event(n, store[n])
                \/ store'[n].exists /\ events'[r][i] = Event(n, store'[n])
<1> DEFINE Goal ==
      \/ \E j \in 1..Len(events[r]) : events'[r][i] = events[r][j]
      \/ ~events'[r][i].object
      \/ \E n \in Names :
           \/ store[n].exists /\ events'[r][i] = Event(n, store[n])
           \/ store'[n].exists /\ events'[r][i] = Event(n, store'[n])
<1>t. /\ events[r] \in Seq(Events) /\ DOMAIN events = Requests
      /\ DOMAIN store = Names
      /\ \A n \in Names : store[n] \in CR
  BY DEF TypeOK, KubernetesTypeOK
<1> HIDE DEF Goal
<1>1. ASSUME events'[r] = events[r] PROVE Goal
  BY <1>1 DEF Goal
<1>2. ASSUME NEW q \in Requests, Step(q) PROVE Goal
  <2>1. CASE q # r
    BY <1>1, <1>2, <2>1, StepMoves, ZenonT(40) DEF Untouched
  <2>2. CASE q = r /\ Watches(r)
    BY <2>2, ListingFacts, Zenon DEF Watches, Goal
  <2>3. CASE q = r /\ Drops(r)
    <3>1. /\ Len(Tail(events[r])) = Len(events[r]) - 1 /\ Len(events[r]) \in Nat
          /\ \A k \in 1..(Len(events[r]) - 1) : Tail(events[r])[k] = events[r][k + 1]
      BY <1>t, <2>3, SMTT(20) DEF Drops
    <3>2. events'[r] = Tail(events[r])
      BY <2>3 DEF Drops
    <3>3. QED
      BY <3>1, <3>2, SMTT(20) DEF Goal
  <2>4. CASE q = r /\ pc[r] = "loop" /\ Ends(r)
    <3>1. events'[r] = <<>>
      BY <2>4, Zenon DEF Ends
    <3>2. QED
      BY <3>1
  <2>5. CASE q = r /\ ~Watches(r) /\ ~Drops(r) /\ ~(pc[r] = "loop" /\ Ends(r))
    <3>1. events'[r] = events[r]
      BY <1>2, <2>5, StepMoves, Zenon
      DEF Begins, Skips, Sends, Fails, Confirmed, Refetches, Waits, Ends
    <3>2. QED
      BY <1>1, <3>1
  <2>6. QED
    BY <2>1, <2>2, <2>3, <2>4, <2>5
<1>3. ASSUME NEW n \in Names, NEW cr \in CR, Publish(n, cr),
             \/ store[n].exists /\ cr = store[n]
             \/ store'[n].exists /\ cr = store'[n]
      PROVE  Goal
  <2>1. \/ i \in 1..Len(events[r]) /\ events'[r][i] = events[r][i]
        \/ events'[r][i] = Event(n, cr)
    <3>1. Publish(n, cr)
      BY <1>3, SMTT(20)
    <3>2. \A j \in 1..Len(events'[r]) :
            \/ j \in 1..Len(events[r]) /\ events'[r][j] = events[r][j]
            \/ r \in streams /\ events'[r][j] = Event(n, cr)
      BY <3>1, PublishFacts
    <3>3. QED
      BY <3>2, Zenon
  <2>2. CASE i \in 1..Len(events[r]) /\ events'[r][i] = events[r][i]
    BY <2>2, Zenon DEF Goal
  <2>3. CASE events'[r][i] = Event(n, cr)
    <3>1. \/ store[n].exists /\ events'[r][i] = Event(n, store[n])
          \/ store'[n].exists /\ events'[r][i] = Event(n, store'[n])
      BY <1>3, <2>3
    <3>2. QED
      BY <3>1, Zenon DEF Goal
  <2>4. QED
    BY <2>1, <2>2, <2>3, Zenon
<1>4. ASSUME NEW q \in Requests, ServerApplies(q) PROVE Goal
  <2> DEFINE n == act[q].name
             cr == Applied(store[n], act[q].spec)
  <2>1. n \in Names /\ cr \in CR /\ Publish(n, cr) /\ store'[n] = cr
    <3>1. n \in Names /\ cr \in CR /\ store'[n] = cr
      BY <1>4, ServerAppliesStore, Zenon
    <3>2. Publish(n, cr)
      BY <1>4, ServerAppliesFacts, Zenon
    <3>3. QED
      BY <3>1, <3>2, Zenon
  <2>2. cr.exists
    BY <1>t, <2>1, Zenon DEF Applied, CR
  <2> HIDE DEF cr, n
  <2>3. QED
    BY <1>3, <2>1, <2>2
<1>5. CASE UNCHANGED <<clusterVars, act, pc, applied, result>>
  BY <1>1, <1>5 DEF clusterVars
<1>6. ASSUME Cluster PROVE Goal
  <2>1. ASSUME NEW n \in Names, NEW ok \in BOOLEAN, OperatorWrites(n, ok)
        PROVE  Goal
    <3> DEFINE cr == Observed(store[n], operator[n].gen, ok)
    <3>1. cr \in CR /\ cr.exists
      <4>1. store[n] \in CR /\ store[n].exists /\ operator[n].gen \in Nat
        BY <2>1, Zenon DEF OperatorWrites, TypeOK, KubernetesTypeOK
      <4>2. QED
        BY <4>1, Zenon DEF Observed, CR
    <3>2. store'[n] = cr /\ Publish(n, cr)
      BY <1>t, <2>1, Zenon DEF OperatorWrites
    <3> HIDE DEF cr
    <3>3. QED
      BY <1>3, <3>1, <3>2, Zenon
  <2>2. ASSUME NEW n \in Names, DeleteCR(n) PROVE Goal
    BY <1>3, <1>t, <2>2 DEF DeleteCR
  <2>3. ASSUME NEW q \in Requests, EndStream(q) PROVE Goal
    <3>1. CASE q # r
      BY <1>1, <1>t, <2>3, <3>1, Zenon DEF EndStream
    <3>2. CASE q = r
      <4>1. events'[r] = Append(events[r], StatusEvent)
        BY <1>t, <2>3, <3>2, Zenon DEF EndStream
      <4>2. StatusEvent \in Events /\ ~StatusEvent.object
        BY Zenon DEF StatusEvent, Events
      <4>3. \/ i \in 1..Len(events[r]) /\ events'[r][i] = events[r][i]
            \/ events'[r][i] = StatusEvent
        BY <1>t, <4>1, <4>2
      <4>4. QED
        BY <4>2, <4>3 DEF Goal
    <3>3. QED
      BY <3>1, <3>2
  <2>4. ASSUME UNCHANGED events PROVE Goal
    BY <1>1, <2>4, SMTT(20)
  <2>5. ASSUME NEW n \in Names, OperatorReads(n) \/ OperatorGivesUp(n)
        PROVE  UNCHANGED events
    BY <2>5 DEF OperatorReads, OperatorGivesUp
  <2>6. ASSUME NEW q \in Requests, RejectPatch(q) PROVE UNCHANGED events
    BY <2>6 DEF RejectPatch
  <2>7. QED
    BY <1>6, <2>1, <2>2, <2>3, <2>4, <2>5, <2>6, ZenonT(40) DEF Cluster
<1>7. ASSUME NEW S \in SUBSET Requests, ProcessExits(S) PROVE Goal
  <2>1. CASE r \in S
    BY <1>7, <2>1, ProcessExitsFacts, SMTT(20)
  <2>2. CASE r \notin S
    BY <1>1, <1>7, <2>2, ProcessExitsFacts
  <2>3. QED
    BY <2>1, <2>2, Zenon
<1>8. Goal
  <2>1. \/ \E q \in Requests : Step(q) \/ ServerApplies(q)
        \/ \E S \in SUBSET Requests : ProcessExits(S)
        \/ UNCHANGED <<clusterVars, act, pc, applied, result>>
        \/ Cluster
    BY NextCases
  <2>2. QED
    BY <1>2, <1>4, <1>5, <1>6, <1>7, <2>1, Zenon DEF Goal
<1>9. QED
  BY <1>8 DEF Goal
=============================================================================
