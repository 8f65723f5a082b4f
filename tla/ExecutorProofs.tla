-------------------------- MODULE ExecutorProofs ----------------------------
(***************************************************************************)
(* The safety of the executor.  IndInv is inductive: each conjunct is kept *)
(* by every step, given the conjuncts its lemma names.                     *)
(***************************************************************************)
EXTENDS ExecutorStepProofs

USE KubernetesAssumption

(***************************************************************************)
(* Versions: what an apply writes, and what the operator read and reported. *)
(***************************************************************************)
(* What the type invariant says about versions. *)
LEMMA VersionTypes ==
    ASSUME TypeOK
    PROVE  /\ \A r \in Requests : landed[r].uid \in Nat /\ landed[r].gen \in Nat
           /\ \A n \in Names : /\ store[n] \in CR
                               /\ store[n].uid \in Nat /\ store[n].gen \in Nat
                               /\ operator[n].uid \in Nat /\ operator[n].gen \in Nat
           /\ \A p \in reports : p.name \in Names /\ p.uid \in Nat /\ p.gen \in Nat
           /\ DOMAIN store = Names /\ DOMAIN operator = Names
           /\ DOMAIN landed = Requests
BY Zenon DEF TypeOK, KubernetesTypeOK, CR, Objects

(* An ApplyAction names a CR and a spec. *)
LEMMA ApplyTarget ==
    ASSUME NEW a \in ApplyActions
    PROVE  a.name \in Names /\ a.spec \in Specs
BY Zenon DEF ApplyActions

(* An apply that lands moves its CR to a version with the spec it sent.     *)
LEMMA ApplyKeepsVersions ==
    ASSUME TypeOK, ActionInv, VersionInv, NEW r \in Requests,
           ServerApplies(r)
    PROVE  VersionInv'
<1> DEFINE n == act[r].name
           t == act[r].spec
           cr == Applied(store[n], t)
<1>1. n \in Names /\ t \in Specs /\ act[r] \in ApplyActions
  BY ServerAppliesStore, Zenon
<1>2. store[n] \in CR /\ cr \in CR
  BY ServerAppliesStore, Zenon
<1>3. UNCHANGED <<operator, reports, act>>
  BY ServerAppliesFrame, Zenon
<1>4. store'[n] = cr /\ \A m \in Names : m # n => store'[m] = store[m]
  BY ServerAppliesStore, Zenon
<1>5. /\ landed'[r].uid = cr.uid /\ landed'[r].gen = cr.gen
      /\ \A q \in Requests : q # r => landed'[q] = landed[q]
  BY ServerAppliesStore, ServerAppliesFrame
<1>6. cr.exists /\ cr.uid > 0 /\ cr.spec = t
  <2>1. store[n].exists => store[n].uid > 0
    BY <1>1, Zenon DEF VersionInv
  <2>2. QED
    BY <1>1, <1>2, <2>1, AppliedIsVersion, Zenon
<1>7. ASSUME NEW m \in Names, NEW v, v.uid \in Nat, v.gen \in Nat, NEW s,
             PastVersion(store[m], v, s)
      PROVE  /\ PastVersion(store'[m], v, s)
             /\ m = n /\ SameVersion(v, landed'[r]) => s = t
  <2>1. CASE m = n
    <3>1. PastVersion(cr, v, s) /\ (SameVersion(v, cr) => s = t)
      BY <1>1, <1>2, <1>7, <2>1, AppliedVersion, Zenon
    <3> HIDE DEF n, t, cr
    <3>2. QED
      BY <1>4, <1>5, <2>1, <3>1, Zenon DEF SameVersion
  <2>2. CASE m # n
    BY <1>4, <1>7, <2>2, Zenon
  <2>3. QED
    BY <2>1, <2>2, Zenon
<1>8. cr.uid \in Nat /\ cr.gen \in Nat
  BY <1>2, Zenon DEF CR
<1> HIDE DEF n, t, cr
<1>9. PastVersion(store'[n], landed'[r], t)
  BY <1>4, <1>5, <1>6, <1>8 DEF PastVersion
<1>10. ASSUME NEW q \in Requests, landed'[q] # NotLanded
       PROVE  /\ act[q] \in ApplyActions
              /\ PastVersion(store'[act[q].name], landed'[q], act[q].spec)
  <2>1. CASE q = r
    BY <1>1, <1>9, <2>1, Zenon DEF n, t
  <2>2. CASE q # r
    <3>1. landed'[q] = landed[q]
      BY <1>5, <2>2, Zenon
    <3>2. /\ act[q] \in ApplyActions
          /\ PastVersion(store[act[q].name], landed[q], act[q].spec)
      BY <1>10, <3>1, Zenon DEF VersionInv
    <3>3. QED
      BY <1>7, <3>1, <3>2, ApplyTarget, VersionTypes, Zenon
  <2>3. QED
    BY <2>1, <2>2, Zenon
<1>11. ASSUME NEW m \in Names, operator[m].busy
       PROVE  /\ PastVersion(store'[m], operator[m], operator[m].spec)
              /\ \A q \in Requests :
                   act[q].name = m /\ SameVersion(operator[m], landed'[q]) =>
                     operator[m].spec = act[q].spec
  <2>1. /\ PastVersion(store[m], operator[m], operator[m].spec)
        /\ \A q \in Requests :
             act[q].name = m /\ SameVersion(operator[m], landed[q]) =>
               operator[m].spec = act[q].spec
    BY <1>11, Zenon DEF VersionInv
  <2>2. /\ PastVersion(store'[m], operator[m], operator[m].spec)
        /\ m = n /\ SameVersion(operator[m], landed'[r]) => operator[m].spec = t
    BY <1>7, <2>1, VersionTypes, Zenon
  <2>3. QED
    BY <1>5, <2>1, <2>2, Zenon DEF n, t
<1>12. ASSUME NEW p \in reports
       PROVE  /\ PastVersion(store'[p.name], p, p.spec)
              /\ \A q \in Requests :
                   act[q].name = p.name /\ SameVersion(p, landed'[q]) =>
                     p.spec = act[q].spec
  <2>1. /\ PastVersion(store[p.name], p, p.spec)
        /\ \A q \in Requests :
             act[q].name = p.name /\ SameVersion(p, landed[q]) =>
               p.spec = act[q].spec
    BY Zenon DEF VersionInv
  <2>2. /\ PastVersion(store'[p.name], p, p.spec)
        /\ p.name = n /\ SameVersion(p, landed'[r]) => p.spec = t
    BY <1>7, <2>1, VersionTypes, Zenon
  <2>3. QED
    BY <1>5, <2>1, <2>2, Zenon DEF n, t
<1>13. \A m \in Names : store'[m].exists => store'[m].uid > 0
  BY <1>4, <1>6, Zenon DEF VersionInv
<1>14. QED
  BY <1>3, <1>10, <1>11, <1>12, <1>13 DEF VersionInv

(* The operator that reads a CR sees its present version.                   *)
LEMMA ReadKeepsVersions ==
    ASSUME TypeOK, ActionInv, VersionInv, NEW n \in Names,
           OperatorReads(n), UNCHANGED executorVars
    PROVE  VersionInv'
<1>1. /\ UNCHANGED <<store, landed, reports, act>> /\ store[n].exists
      /\ operator'[n].uid = store[n].uid /\ operator'[n].gen = store[n].gen
      /\ operator'[n].spec = store[n].spec
      /\ \A m \in Names : m # n => operator'[m] = operator[m]
  BY VersionTypes, Zenon DEF OperatorReads, executorVars
<1>u. store[n].uid > 0
  BY <1>1, Zenon DEF VersionInv
<1>2. PastVersion(store[n], operator'[n], operator'[n].spec)
  BY <1>1, <1>u, VersionTypes DEF PastVersion
<1>3. ASSUME NEW q \in Requests, act[q].name = n,
             SameVersion(operator'[n], landed[q])
      PROVE  store[n].spec = act[q].spec
  <2>1. landed[q].uid = store[n].uid /\ landed[q].gen = store[n].gen
    BY <1>1, <1>3, Zenon DEF SameVersion
  <2>2. landed[q] # NotLanded
    BY <1>u, <2>1 DEF NotLanded
  <2>3. PastVersion(store[n], landed[q], act[q].spec)
    BY <1>3, <2>2, Zenon DEF VersionInv
  <2>4. QED
    BY <1>1, <2>1, <2>3, Zenon DEF PastVersion
<1>4. QED
  BY <1>1, <1>2, <1>3 DEF VersionInv

(* A report is about the version that the operator has read.                *)
LEMMA ReportKeepsVersions ==
    ASSUME TypeOK, ActionInv, VersionInv, NEW n \in Names,
           NEW ok \in BOOLEAN, OperatorWrites(n, ok), UNCHANGED executorVars
    PROVE  VersionInv'
<1> DEFINE p0 == [name |-> n, uid |-> operator[n].uid, gen |-> operator[n].gen,
                  spec |-> operator[n].spec]
<1>1. /\ UNCHANGED <<landed, act>>
      /\ \A m \in Names : /\ store'[m].exists = store[m].exists
                          /\ store'[m].uid = store[m].uid
                          /\ store'[m].gen = store[m].gen
                          /\ store'[m].spec = store[m].spec
      /\ \A m \in Names : operator'[m].busy => operator'[m] = operator[m]
      /\ operator[n].busy
      /\ \A p \in reports' : p \in reports \/ p = p0
  BY VersionTypes, Zenon DEF OperatorWrites, Observed, Idle, executorVars
<1>2. ASSUME NEW m \in Names, NEW v, NEW s
      PROVE  PastVersion(store'[m], v, s) <=> PastVersion(store[m], v, s)
  BY <1>1, Zenon DEF PastVersion
<1>3. ASSUME NEW p \in reports'
      PROVE  /\ p.name \in Names
             /\ PastVersion(store[p.name], p, p.spec)
             /\ \A r \in Requests :
                  act[r].name = p.name /\ SameVersion(p, landed[r]) =>
                    p.spec = act[r].spec
  <2>1. CASE p \in reports
    BY VersionTypes, <2>1, Zenon DEF VersionInv
  <2>2. CASE p = p0
    <3>1. /\ PastVersion(store[n], operator[n], operator[n].spec)
          /\ \A r \in Requests :
               act[r].name = n /\ SameVersion(operator[n], landed[r]) =>
                 operator[n].spec = act[r].spec
      BY <1>1, Zenon DEF VersionInv
    <3>2. QED
      BY <2>2, <3>1, Zenon DEF PastVersion, SameVersion
  <2>3. QED
    BY <1>1, <2>1, <2>2, Zenon
<1>4. \A r \in Requests : landed'[r] # NotLanded =>
        /\ act[r] \in ApplyActions
        /\ PastVersion(store'[act[r].name], landed'[r], act[r].spec)
  BY ApplyTarget, <1>1, <1>2, Zenon DEF VersionInv
<1>5. \A m \in Names : operator'[m].busy =>
        /\ PastVersion(store'[m], operator'[m], operator'[m].spec)
        /\ \A r \in Requests :
             act[r].name = m /\ SameVersion(operator'[m], landed[r]) =>
               operator'[m].spec = act[r].spec
  <2>1. SUFFICES ASSUME NEW m \in Names, operator'[m].busy
                 PROVE  /\ PastVersion(store'[m], operator[m], operator[m].spec)
                        /\ \A r \in Requests :
                             act[r].name = m /\ SameVersion(operator[m], landed[r])
                               => operator[m].spec = act[r].spec
    BY <1>1
  <2>2. operator[m].busy
    BY <1>1, <2>1, Zenon
  <2>3. QED
    BY <1>2, <2>2, Zenon DEF VersionInv
<1>6. QED
  BY <1>1, <1>2, <1>3, <1>4, <1>5, ZenonT(40) DEF VersionInv

(* An operator that gives up forgets its view.                              *)
LEMMA GiveUpKeepsVersions ==
    ASSUME TypeOK, ActionInv, VersionInv, NEW n \in Names,
           OperatorGivesUp(n), UNCHANGED executorVars
    PROVE  VersionInv'
<1>1. /\ UNCHANGED <<store, landed, reports, act>>
      /\ \A m \in Names : operator'[m].busy => operator'[m] = operator[m]
  BY VersionTypes, Zenon DEF OperatorGivesUp, Idle, executorVars
<1>2. QED
  BY <1>1 DEF VersionInv

(* A deleted CR keeps the uid that was its last.                            *)
LEMMA DeleteKeepsVersions ==
    ASSUME TypeOK, ActionInv, VersionInv, NEW n \in Names,
           DeleteCR(n), UNCHANGED executorVars
    PROVE  VersionInv'
<1>1. /\ UNCHANGED <<operator, landed, reports, act>>
      /\ \A m \in Names : store'[m] = store[m] \/
           (~store'[m].exists /\ store'[m].uid = store[m].uid)
  BY VersionTypes, Zenon DEF DeleteCR, Deleted, executorVars
<1>2. ASSUME NEW m \in Names, NEW v, NEW s, PastVersion(store[m], v, s)
      PROVE  PastVersion(store'[m], v, s)
  BY <1>1, <1>2, Zenon DEF PastVersion
<1>3. \A r \in Requests : landed[r] # NotLanded =>
        /\ act[r] \in ApplyActions
        /\ PastVersion(store'[act[r].name], landed[r], act[r].spec)
  BY ApplyTarget, <1>2, Zenon DEF VersionInv
<1>4. \A m \in Names : operator[m].busy =>
        PastVersion(store'[m], operator[m], operator[m].spec)
  BY <1>2, Zenon DEF VersionInv
<1>5. \A p \in reports : PastVersion(store'[p.name], p, p.spec)
  BY VersionTypes, <1>2, Zenon DEF VersionInv
<1>6. QED
  BY <1>1, <1>3, <1>4, <1>5, Zenon DEF VersionInv

(* No write, reconcile or deletion gives one version two specs or puts a    *)
(* report or the operator's view ahead of the store.                        *)
LEMMA VersionStep ==
    ASSUME TypeOK, ActionInv, VersionInv, [Next]_vars
    PROVE  VersionInv'
<1>1. ASSUME UNCHANGED <<store, operator, landed, reports, act>>
      PROVE  VersionInv'
  BY <1>1, Zenon DEF VersionInv
<1>2. ASSUME NEW r \in Requests, RejectPatch(r) \/ EndStream(r),
             UNCHANGED executorVars
      PROVE  VersionInv'
  BY <1>1, <1>2, Zenon DEF RejectPatch, EndStream, executorVars
<1>3. ASSUME NEW r \in Requests, Step(r) PROVE VersionInv'
  BY <1>1, <1>3, StepMoves, Zenon
<1>4. CASE UNCHANGED <<clusterVars, act, pc, applied, result>>
  BY <1>1, <1>4, Zenon DEF clusterVars
<1>5. ASSUME NEW S \in SUBSET Requests, ProcessExits(S) PROVE VersionInv'
  BY <1>1, <1>5, ProcessExitsFacts, Zenon
<1>6. CASE Cluster /\ UNCHANGED executorVars
  BY <1>2, <1>6, ReadKeepsVersions, ReportKeepsVersions, GiveUpKeepsVersions,
     DeleteKeepsVersions, Zenon DEF Cluster
<1>7. QED
  BY <1>3, <1>4, <1>5, <1>6, ApplyKeepsVersions, NextCases, Zenon

(***************************************************************************)
(* Watch events and waiting deliveries: what a stream shows and what       *)
(* waitForSync waits for.                                                  *)
(***************************************************************************)
(* Every Ready=True status, stored or queued, is one of the reports.        *)
LEMMA StatusStep ==
    ASSUME TypeOK, ActionInv, VersionInv, StatusInv, [Next]_vars
    PROVE  StatusInv' /\ reports \subseteq reports'
<1>t. /\ DOMAIN store = Names
      /\ \A n \in Names : store[n] \in CR
  BY Zenon DEF TypeOK, KubernetesTypeOK
<1> DEFINE Store == \A n \in Names : store'[n].exists =>
                      Reported(reports', n, store'[n])
<1>1. ASSUME UNCHANGED <<store, reports>>
      PROVE  Store /\ reports \subseteq reports'
  BY <1>1, Zenon DEF StatusInv
<1>2. ASSUME NEW r \in Requests, ServerApplies(r)
      PROVE  Store /\ reports \subseteq reports'
  <2> DEFINE n == act[r].name
             cr == Applied(store[n], act[r].spec)
  <2>1. /\ n \in Names /\ act[r].spec \in Specs
        /\ store'[n] = cr /\ reports' = reports
        /\ \A m \in Names : m # n => store'[m] = store[m]
    BY <1>2, ServerAppliesStore, ServerAppliesFrame, Zenon
  <2>2. cr.ready => /\ store[n].exists /\ store[n].ready
                    /\ cr.uid = store[n].uid /\ cr.obs = store[n].obs
    BY <1>t, <2>1, AppliedIsVersion, ZenonT(40) DEF VersionInv
  <2> HIDE DEF cr
  <2>3. Reported(reports, n, cr)
    BY <2>1, <2>2 DEF StatusInv, Reported
  <2>4. QED
    BY <2>1, <2>3, Zenon DEF StatusInv
<1>3. ASSUME NEW n \in Names, NEW ok \in BOOLEAN, OperatorWrites(n, ok)
      PROVE  Store /\ reports \subseteq reports'
  <2>1. /\ store'[n] = Observed(store[n], operator[n].gen, ok)
        /\ \A m \in Names : m # n => store'[m] = store[m]
        /\ reports \subseteq reports' /\ store[n].uid = operator[n].uid
    BY <1>3, <1>t, Zenon DEF OperatorWrites
  <2>2. Reported(reports', n, store'[n])
    <3>1. CASE ok
      <4> DEFINE p == [name |-> n, uid |-> operator[n].uid,
                       gen |-> operator[n].gen, spec |-> operator[n].spec]
      <4>1. p \in reports'
        BY <1>3, <3>1, Zenon DEF OperatorWrites
      <4>2. p.name = n /\ p.uid = store'[n].uid /\ p.gen = store'[n].obs
        BY <2>1 DEF Observed
      <4>3. QED
        BY <4>1, <4>2, Zenon DEF Reported
    <3>2. CASE ~ok
      BY <2>1, <3>2 DEF Reported, Observed
    <3>3. QED
      BY <3>1, <3>2, Zenon
  <2>3. QED
    BY <2>1, <2>2 DEF StatusInv, Reported
<1>4. ASSUME NEW n \in Names, DeleteCR(n)
      PROVE  Store /\ reports \subseteq reports'
  BY <1>4, <1>t, Zenon DEF DeleteCR, Deleted, StatusInv
<1>5. Store /\ reports \subseteq reports'
  <2>1. ASSUME NEW r \in Requests, Step(r) PROVE UNCHANGED <<store, reports>>
    BY <2>1, StepMoves, Zenon
  <2>2. ASSUME NEW S \in SUBSET Requests, ProcessExits(S)
        PROVE  UNCHANGED <<store, reports>>
    BY <2>2, ProcessExitsFacts, Zenon
  <2> HIDE DEF Store
  <2>3. CASE UNCHANGED <<clusterVars, act, pc, applied, result>>
    BY <1>1, <2>3, Zenon DEF clusterVars
  <2>4. ASSUME NEW n \in Names, OperatorReads(n) \/ OperatorGivesUp(n)
        PROVE  UNCHANGED <<store, reports>>
    BY <2>4, Zenon DEF OperatorReads, OperatorGivesUp
  <2>5. ASSUME NEW r \in Requests, RejectPatch(r) \/ EndStream(r)
        PROVE  UNCHANGED <<store, reports>>
    BY <2>5, Zenon DEF RejectPatch, EndStream
  <2>6. CASE Cluster
    BY <1>1, <1>3, <1>4, <2>4, <2>5, <2>6, Zenon DEF Cluster
  <2>7. QED
    BY <1>1, <1>2, <2>1, <2>2, <2>3, <2>6, NextCases, Zenon
<1>6. ASSUME NEW n \in Names, NEW cr \in CR, Reported(reports', n, cr)
      PROVE  Reported(reports', Event(n, cr).name, Event(n, cr))
  BY <1>6, Zenon DEF Event, Reported
<1>7. ASSUME NEW n, NEW e, Reported(reports, n, e) PROVE Reported(reports', n, e)
  BY <1>5, <1>7, Zenon DEF Reported
<1>8. TypeOK'
  BY TypeStep, Zenon
<1>9. ASSUME NEW r \in Requests, NEW i \in 1..Len(events'[r]),
             events'[r][i].object
      PROVE  Reported(reports', events'[r][i].name, events'[r][i])
  <2>1. CASE \E j \in 1..Len(events[r]) : events'[r][i] = events[r][j]
    BY <1>7, <1>9, <2>1, Zenon DEF StatusInv
  <2>2. CASE \E n \in Names :
               store[n].exists /\ events'[r][i] = Event(n, store[n])
    BY <1>t, <1>6, <1>7, <2>2, Zenon DEF StatusInv
  <2>3. CASE \E n \in Names :
               store'[n].exists /\ events'[r][i] = Event(n, store'[n])
    <3>1. \A n \in Names : store'[n] \in CR
      BY <1>8, Zenon DEF TypeOK, KubernetesTypeOK
    <3>2. QED
      BY <1>5, <1>6, <2>3, <3>1, Zenon
  <2>4. QED
    BY <1>9, <2>1, <2>2, <2>3, EventsStep, Zenon
<1>10. QED
  BY <1>5, <1>9, Zenon DEF StatusInv

-----------------------------------------------------------------------------
(* Waiting deliveries. *)

Waiting == {"check", "watch", "loop"}

(* No step takes back an apply or an incarnation of a CR, and a delivery    *)
(* starts to wait only with the object its post-apply Get just returned.    *)
LEMMA FrameStep ==
    ASSUME TypeOK, ActionInv, ExchangeInv, VersionInv, [Next]_vars
    PROVE  /\ act' = act
           /\ \A n \in Names : store'[n].uid >= store[n].uid
           /\ \A q \in Requests : landed[q] # NotLanded => landed'[q] = landed[q]
           /\ \A q \in Requests : pc'[q] \in Waiting =>
                \/ Refetches(q)
                \/ pc[q] \in Waiting /\ applied'[q] = applied[q]
<1>t. /\ DOMAIN store = Names /\ DOMAIN landed = Requests
      /\ \A n \in Names : store[n] \in CR /\ store[n].uid \in Nat
  BY Zenon DEF TypeOK, KubernetesTypeOK, CR
<1> DEFINE Frame ==
      /\ act' = act
      /\ \A n \in Names : store'[n].uid >= store[n].uid
      /\ \A q \in Requests : landed[q] # NotLanded => landed'[q] = landed[q]
      /\ \A q \in Requests : pc'[q] \in Waiting =>
           \/ Refetches(q)
           \/ pc[q] \in Waiting /\ applied'[q] = applied[q]
<1>1. ASSUME NEW r \in Requests, Step(r) PROVE Frame
  <2>1. UNCHANGED <<store, landed, act>>
    BY <1>1, StepMoves, Zenon
  <2>2. pc'[r] \in Waiting =>
          \/ Refetches(r)
          \/ pc[r] \in Waiting /\ applied'[r] = applied[r]
    <3>1. \/ Refetches(r) \/ Waits(r) \/ Watches(r) \/ Drops(r)
          \/ pc'[r] \in {"patch", "patching", "get", "done"}
      BY <1>1, StepMoves, Zenon DEF Begins, Skips, Sends, Fails, Confirmed, Ends
    <3>2. CASE Waits(r) \/ Watches(r) \/ Drops(r)
      BY <3>2, Zenon DEF Waiting, Waits, Watches, Drops
    <3>3. CASE pc'[r] \in {"patch", "patching", "get", "done"}
      BY <3>3, Zenon DEF Waiting
    <3>4. QED
      BY <3>1, <3>2, <3>3, Zenon
  <2>3. ASSUME NEW q \in Requests, q # r
        PROVE  pc'[q] = pc[q] /\ applied'[q] = applied[q]
    BY <1>1, <2>3, StepMoves, Zenon DEF Untouched
  <2>4. QED
    BY <1>t, <2>1, <2>2, <2>3
<1>2. ASSUME NEW r \in Requests, ServerApplies(r) PROVE Frame
  <2>1. \A n \in Names : store'[n].uid >= store[n].uid
    <3> DEFINE n == act[r].name
               cr == Applied(store[n], act[r].spec)
    <3>1. /\ n \in Names /\ act[r].spec \in Specs /\ store'[n] = cr
          /\ \A m \in Names : m # n => store'[m] = store[m]
      BY <1>2, ServerAppliesStore, Zenon
    <3>2. cr.uid >= store[n].uid
      BY <1>t, <3>1, AppliedIsVersion, Zenon DEF VersionInv
    <3> HIDE DEF cr
    <3>3. QED
      BY <1>t, <3>1, <3>2
  <2>2. \A q \in Requests : landed[q] # NotLanded => landed'[q] = landed[q]
    <3>1. /\ wire[r] = "sent"
          /\ \A q \in Requests : q # r => landed'[q] = landed[q]
      BY <1>2, ServerAppliesFrame, Zenon
    <3>2. landed[r] = NotLanded
      BY <3>1, Zenon DEF ExchangeInv
    <3>3. QED
      BY <3>1, <3>2, Zenon
  <2>3. UNCHANGED <<act, pc, applied>>
    BY <1>2, ServerAppliesFrame, Zenon
  <2>4. QED
    BY <2>1, <2>2, <2>3, Zenon
<1>3. CASE UNCHANGED <<clusterVars, act, pc, applied, result>>
  BY <1>3, <1>t DEF clusterVars
<1>4. ASSUME Cluster, UNCHANGED executorVars PROVE Frame
  <2>1. \A n \in Names : store'[n].uid >= store[n].uid
    <3>1. ASSUME NEW n \in Names, OperatorWrites(n, TRUE) \/ OperatorWrites(n, FALSE)
          PROVE  \A m \in Names : store'[m].uid = store[m].uid
      BY <1>t, <3>1 DEF OperatorWrites, Observed
    <3>2. ASSUME NEW n \in Names, DeleteCR(n)
          PROVE  \A m \in Names : store'[m].uid = store[m].uid
      BY <1>t, <3>2, Zenon DEF DeleteCR, Deleted
    <3>3. \/ store' = store
          \/ \A m \in Names : store'[m].uid = store[m].uid
      BY <1>4, <3>1, <3>2, Zenon DEF Cluster, OperatorReads, OperatorGivesUp,
         RejectPatch, EndStream
    <3>4. QED
      BY <1>t, <3>3
  <2>2. landed' = landed
    BY <1>4, Zenon DEF Cluster, OperatorReads, OperatorWrites, OperatorGivesUp,
       DeleteCR, RejectPatch, EndStream
  <2>3. UNCHANGED <<act, pc, applied>>
    BY <1>4, Zenon DEF executorVars
  <2>4. QED
    BY <2>1, <2>2, <2>3, Zenon
<1>5. ASSUME NEW S \in SUBSET Requests, ProcessExits(S) PROVE Frame
  <2>1. \A q \in Requests : pc'[q] \in Waiting => pc'[q] = pc[q]
    BY <1>5, ProcessExitsFacts, Zenon DEF Waiting
  <2>2. UNCHANGED <<store, landed, act, applied>>
    BY <1>5, ProcessExitsFacts, Zenon
  <2>3. QED
    BY <1>t, <2>1, <2>2
<1>6. Frame
  BY <1>1, <1>2, <1>3, <1>4, <1>5, NextCases, Zenon
<1>7. QED
  BY <1>6, Zenon

(* A waiting delivery keeps waiting for a version at least as late as its   *)
(* own write.                                                               *)
LEMMA WaitStep ==
    ASSUME TypeOK, ActionInv, ExchangeInv, VersionInv, StreamInv,
           WaitInv, [Next]_vars
    PROVE  WaitInv'
<1>u. \A n \in Names : store'[n].uid \in Nat
  <2>1. TypeOK'
    BY TypeStep, Zenon
  <2>2. QED
    BY <2>1, Zenon DEF TypeOK, KubernetesTypeOK, CR
<1>1. SUFFICES ASSUME NEW q \in Requests, pc'[q] \in Waiting
               PROVE  /\ applied'[q].uid >= landed'[q].uid
                      /\ applied'[q].uid = landed'[q].uid =>
                           applied'[q].gen >= landed'[q].gen
                      /\ applied'[q].uid <= store'[act'[q].name].uid
                      /\ \A i \in 1..Len(events'[q]) :
                           events'[q][i].object /\ events'[q][i].name = act'[q].name
                             => events'[q][i].uid >= applied'[q].uid
  BY Zenon DEF WaitInv, Waiting
<1>2. /\ landed[q] # NotLanded /\ landed'[q] = landed[q] /\ act' = act
      /\ act[q].name \in Names
      /\ Refetches(q) \/ (pc[q] \in Waiting /\ applied'[q] = applied[q])
  BY <1>1, FrameStep, Zenon
  DEF ExchangeInv, Refetches, ActionInv, ApplyActions, Waiting
<1>3. PICK n \in Names : n = act[q].name
  BY <1>2, Zenon
<1>4. PICK l \in Objects : l = landed[q]
  BY Zenon DEF TypeOK, KubernetesTypeOK
<1>5. PICK cr \in CR : cr = store[n]
  BY Zenon DEF TypeOK, KubernetesTypeOK
<1>6. PICK a \in Objects :
        /\ a = applied'[q]
        /\ a.uid >= l.uid
        /\ a.uid = l.uid => a.gen >= l.gen
        /\ a.uid <= cr.uid
  <2>1. CASE Refetches(q)
    <3>1. cr.exists /\ applied'[q] = Decoded(l, cr)
      BY <1>3, <1>4, <1>5, <2>1, Zenon DEF Refetches
    <3>2. PastVersion(cr, l, act[q].spec)
      BY <1>2, <1>3, <1>4, <1>5, Zenon DEF VersionInv
    <3>3. /\ l.uid <= cr.uid
          /\ l.uid = cr.uid => l.gen <= cr.gen
      BY <3>1, <3>2, Zenon DEF PastVersion
    <3>4. applied'[q] \in Objects /\ applied'[q].uid = cr.uid /\ applied'[q].gen = cr.gen
      BY <3>1, DecodedFacts
    <3>5. cr.uid \in Nat /\ cr.gen \in Nat /\ l.uid \in Nat /\ l.gen \in Nat
      BY Zenon DEF CR, Objects
    <3>6. QED
      BY <3>3, <3>4, <3>5
  <2>2. CASE pc[q] \in Waiting /\ applied'[q] = applied[q]
    <3>1. applied[q] \in Objects
      BY Zenon DEF TypeOK, ExecutorTypeOK
    <3>2. /\ applied[q].uid >= l.uid
          /\ applied[q].uid = l.uid => applied[q].gen >= l.gen
          /\ applied[q].uid <= cr.uid
      BY <1>3, <1>4, <1>5, <2>2, Zenon DEF WaitInv, Waiting
    <3>3. QED
      BY <2>2, <3>1, <3>2, Zenon
  <2>3. QED
    BY <1>2, <2>1, <2>2, Zenon
<1>7. PICK u \in Nat : u = store'[n].uid /\ a.uid <= u
  <2>1. store'[n].uid >= cr.uid
    BY <1>5, FrameStep, Zenon
  <2>2. store'[n].uid \in Nat
    BY <1>u, Zenon
  <2>3. PICK v \in Nat : v = store'[n].uid
    BY <2>2, Zenon
  <2>4. cr.uid \in Nat /\ a.uid \in Nat
    BY Zenon DEF CR, Objects
  <2>5. a.uid <= v
    BY <1>6, <2>1, <2>3, <2>4
  <2>6. QED
    BY <2>3, <2>5, Zenon
<1>8. ASSUME NEW i \in 1..Len(events'[q]), events'[q][i].object,
             events'[q][i].name = n
      PROVE  events'[q][i].uid >= a.uid
  <2>1. CASE \E j \in 1..Len(events[q]) : events'[q][i] = events[q][j]
    <3>1. pc[q] = "loop"
      BY <2>1 DEF StreamInv
    <3>2. applied'[q] = applied[q]
      BY <1>2, <3>1, Zenon DEF Refetches
    <3>3. QED
      BY <1>3, <1>6, <1>8, <2>1, <3>1, <3>2, Zenon DEF WaitInv
  <2>2. CASE \E m \in Names : events'[q][i] = Event(m, store[m])
    <3>1. events'[q][i] = Event(n, cr)
      BY <1>5, <1>8, <2>2 DEF Event
    <3>2. QED
      BY <1>6, <3>1 DEF Event, CR, Objects
  <2>3. CASE \E m \in Names : events'[q][i] = Event(m, store'[m])
    <3>1. events'[q][i].uid = u
      BY <1>7, <1>8, <2>3 DEF Event
    <3>2. QED
      BY <1>6, <1>7, <3>1, Zenon
  <2>4. QED
    BY <1>8, <2>1, <2>2, <2>3, EventsStep, Zenon
<1>9. applied'[q].uid <= store'[act'[q].name].uid
  BY <1>2, <1>3, <1>6, <1>7, Zenon
<1>10. QED
  BY <1>2, <1>3, <1>4, <1>6, <1>8, <1>9, Zenon

(* No step but the landing of r's own apply changes the answer to it.       *)
LEMMA LandedStep ==
    ASSUME [Next]_vars, TypeOK, ActionInv, NEW q \in Requests, landed'[q] # landed[q]
    PROVE  ServerApplies(q)
<1>1. ASSUME NEW r \in Requests, Step(r) PROVE landed' = landed
  BY <1>1, StepMoves, Zenon
<1>2. ASSUME NEW r \in Requests, ServerApplies(r), r # q PROVE landed'[q] = landed[q]
  BY <1>2, ServerAppliesFrame, Zenon
<1>3. ASSUME NEW S \in SUBSET Requests, ProcessExits(S) PROVE landed' = landed
  BY <1>3, ProcessExitsFacts, Zenon
<1>4. CASE Cluster
  BY <1>4, Zenon DEF Cluster, OperatorReads, OperatorWrites, OperatorGivesUp,
     DeleteCR, RejectPatch, EndStream
<1>5. QED
  BY <1>1, <1>2, <1>3, <1>4, NextCases, Zenon DEF clusterVars

(* The objects deliveries hold: the answer to an apply shows the status of  *)
(* the CR it made, and the Get after it keeps that status or replaces it.   *)
LEMMA ObjectStep ==
    ASSUME TypeOK, ActionInv, ExchangeInv, VersionInv, StatusInv, ObjectInv, [Next]_vars
    PROVE  ObjectInv'
<1>1. StatusInv' /\ reports \subseteq reports' /\ act' = act
  BY StatusStep, FrameStep, Zenon
<1>2. ASSUME NEW n, NEW e, Reported(reports, n, e) PROVE Reported(reports', n, e)
  BY <1>1, <1>2, Zenon DEF Reported
<1>3. ASSUME NEW q \in Requests PROVE Reported(reports', act[q].name, landed'[q])
  <2>1. CASE landed'[q] = landed[q]
    BY <1>2, <2>1, Zenon DEF ObjectInv
  <2>2. CASE ServerApplies(q)
    <3> DEFINE n == act[q].name
    <3>1. /\ n \in Names /\ act[q].spec \in Specs /\ store[n] \in CR
          /\ store'[n] = Applied(store[n], act[q].spec)
          /\ landed'[q].uid = store'[n].uid /\ landed'[q].obs = store'[n].obs
          /\ landed'[q].ready = store'[n].ready
      BY <2>2, ServerAppliesStore, Zenon
    <3>2. store'[n].exists
      BY <3>1 DEF Applied
    <3>3. Reported(reports', n, store'[n])
      BY <1>1, <3>1, <3>2, Zenon DEF StatusInv
    <3>4. QED
      BY <3>1, <3>3, Zenon DEF Reported
  <2>3. QED
    BY <2>1, <2>2, LandedStep, Zenon
<1>4. ASSUME NEW q \in Requests, pc'[q] \in Waiting, applied'[q].ready
      PROVE  \E p \in reports' : /\ p.name = act[q].name
                                 /\ p.uid \in {applied'[q].uid, landed'[q].uid}
                                 /\ p.gen = applied'[q].obs
  <2>1. /\ landed'[q] = landed[q] /\ act[q].name \in Names
        /\ Refetches(q) \/ (pc[q] \in Waiting /\ applied'[q] = applied[q])
    BY <1>4, FrameStep, Zenon
    DEF ExchangeInv, Refetches, ActionInv, ApplyActions, Waiting
  <2>2. CASE Refetches(q)
    <3> DEFINE n == act[q].name
    <3>1. /\ landed[q] \in Objects /\ store[n] \in CR /\ store[n].exists
          /\ applied'[q] = Decoded(landed[q], store[n])
      BY <2>1, <2>2, Zenon DEF Refetches, TypeOK, KubernetesTypeOK
    <3>2. /\ applied'[q].uid = store[n].uid
          /\ \/ applied'[q].obs = store[n].obs /\ applied'[q].ready = store[n].ready
             \/ applied'[q].obs = landed[q].obs /\ applied'[q].ready = landed[q].ready
      BY <3>1, DecodedFacts
    <3>3. Reported(reports, n, store[n]) /\ Reported(reports, n, landed[q])
      BY <2>1, <3>1, Zenon DEF StatusInv, ObjectInv
    <3>4. QED
      BY <1>1, <1>4, <2>1, <3>2, <3>3, Zenon DEF Reported
  <2>3. CASE pc[q] \in Waiting /\ applied'[q] = applied[q]
    BY <1>1, <1>4, <2>1, <2>3, Zenon DEF ObjectInv, Waiting
  <2>4. QED
    BY <2>1, <2>2, <2>3, Zenon
<1>5. QED
  BY <1>1, <1>3, <1>4, Zenon DEF ObjectInv, Waiting

(***************************************************************************)
(* Answers, reports and wake-ups.                                          *)
(***************************************************************************)
(* A report of a version that satisfies the wait of r vouches for the write *)
(* of r: if it is not a later version, it is the same one, with r's spec.   *)
LEMMA ReadyConfirms ==
    ASSUME TypeOK, ExchangeInv, VersionInv, WaitInv,
           NEW r \in Requests, pc[r] \in Waiting,
           NEW p \in reports, p.name = act[r].name,
           p.uid >= applied[r].uid, p.gen >= applied[r].gen
    PROVE  Confirms(p, r)
<1>1. /\ p.uid \in Nat /\ p.gen \in Nat
      /\ applied[r].uid \in Nat /\ applied[r].gen \in Nat
      /\ landed[r].uid \in Nat /\ landed[r].gen \in Nat
  BY Zenon DEF TypeOK, KubernetesTypeOK, ExecutorTypeOK, Objects
<1>2. /\ applied[r].uid >= landed[r].uid
      /\ applied[r].uid = landed[r].uid => applied[r].gen >= landed[r].gen
      /\ landed[r] # NotLanded
  BY Zenon DEF WaitInv, ExchangeInv, Waiting
<1>3. SameVersion(p, landed[r]) \/ Later(p, landed[r])
  BY <1>1, <1>2 DEF SameVersion, Later
<1>4. SameVersion(p, landed[r]) => p.spec = act[r].spec
  BY Zenon DEF VersionInv
<1>5. QED
  BY <1>2, <1>3, <1>4, Zenon DEF Confirms

(* A delivery that was answered, or is being answered, keeps the object it  *)
(* was answered for.                                                        *)
LEMMA AnsweredStep ==
    ASSUME TypeOK, ActionInv, AnswerInv, [Next]_vars,
           NEW q \in Requests, result[q] = "Ready"
    PROVE  applied'[q] = applied[q]
<1>1. pc[q] = "done"
  BY ExecutorAssumption, Zenon DEF AnswerInv, ResultKinds
<1>2. ASSUME NEW r \in Requests, Step(r) PROVE applied'[q] = applied[q]
  <2>1. q # r
    BY <1>1, <1>2, StepMoves, Zenon
    DEF Begins, Skips, Sends, Fails, Confirmed, Refetches, Waits, Watches, Drops, Ends
  <2>2. QED
    BY <1>2, <2>1, StepMoves, Zenon DEF Untouched
<1>3. ASSUME NEW S \in SUBSET Requests, ProcessExits(S) PROVE applied' = applied
  BY <1>3, ProcessExitsFacts, Zenon
<1>4. QED
  BY <1>2, <1>3, NextCases, ServerAppliesFrame, Zenon DEF executorVars

(* An answer 200 is backed by a report when it is given: the status in the  *)
(* object of the initial Get, or in the event, is one that was reported.    *)
LEMMA SuccessGiven ==
    ASSUME TypeOK, ActionInv, ExchangeInv, VersionInv, WaitInv, StatusInv, ObjectInv,
           NEW q \in Requests, Ends(q), result'[q] = "Ready"
    PROVE  \E p \in reports : Confirms(p, q) \/ Leftover(p, q)
<1>1. act[q].name \in Names
  BY Zenon DEF Ends, ActionInv, ApplyActions
<1>2. /\ applied[q] \in Objects /\ store[act[q].name] \in CR
      /\ applied[q].uid \in Nat /\ applied[q].gen \in Nat
      /\ store[act[q].name].uid \in Nat
      /\ events[q] \in Seq(Events)
  BY <1>1, Zenon DEF TypeOK, KubernetesTypeOK, ExecutorTypeOK, CR, Objects
<1>3. CASE /\ pc[q] = "check" /\ store[act[q].name].exists
           /\ IsReady(Decoded(applied[q], store[act[q].name]), applied[q].gen)
  <2> DEFINE cr == store[act[q].name]
             obj == Decoded(applied[q], cr)
  <2>1. /\ obj.ready /\ obj.obs >= applied[q].gen
        /\ \/ obj.obs = cr.obs /\ obj.ready = cr.ready
           \/ obj.obs = applied[q].obs /\ obj.ready = applied[q].ready
    BY <1>2, <1>3, DecodedFacts, Zenon DEF IsReady
  <2> HIDE DEF obj
  <2>2. CASE obj.obs = cr.obs /\ obj.ready = cr.ready
    <3>1. PICK p \in reports : p.name = act[q].name /\ p.uid = cr.uid /\ p.gen = cr.obs
      BY <1>1, <1>3, <2>1, <2>2, Zenon DEF StatusInv, Reported
    <3>2. p.uid >= applied[q].uid /\ p.gen >= applied[q].gen
      BY <1>2, <1>3, <2>1, <2>2, <3>1, Zenon DEF WaitInv
    <3>3. QED
      BY <1>3, <3>1, <3>2, ReadyConfirms, Zenon DEF Waiting
  <2>3. CASE obj.obs = applied[q].obs /\ obj.ready = applied[q].ready
    <3>1. PICK p \in reports : /\ p.name = act[q].name /\ p.gen = applied[q].obs
                              /\ p.uid \in {applied[q].uid, landed[q].uid}
      BY <1>3, <2>1, <2>3, Zenon DEF ObjectInv
    <3>2. p.gen >= applied[q].gen /\ landed[q] # NotLanded
      BY <1>3, <2>1, <2>3, <3>1, Zenon DEF ExchangeInv
    <3>3. CASE p.uid = applied[q].uid
      <4>1. p.uid >= applied[q].uid
        BY <1>2, <3>3
      <4>2. QED
        BY <1>3, <3>1, <3>2, <4>1, ReadyConfirms, Zenon DEF Waiting
    <3>4. CASE p.uid = landed[q].uid /\ p.uid # applied[q].uid
      BY <3>1, <3>2, <3>4, Zenon DEF Leftover, Recreated
    <3>5. QED
      BY <3>1, <3>3, <3>4, Zenon
  <2>4. QED
    BY <2>1, <2>2, <2>3, Zenon
<1>4. CASE /\ pc[q] = "loop" /\ events[q] # <<>>
           /\ ~Ignored(q, Head(events[q]))
  <2>1. 1 \in 1..Len(events[q]) /\ Head(events[q]) = events[q][1]
    BY <1>2, <1>4
  <2> DEFINE ev == events[q][1]
  <2>2. ev.object /\ ev.name = act[q].name /\ ev.ready /\ ev.obs >= applied[q].gen
    BY <1>4, <2>1, Zenon DEF Ignored, IsReady
  <2>3. ev.uid >= applied[q].uid /\ Reported(reports, ev.name, ev)
    BY <1>4, <2>1, <2>2, Zenon DEF WaitInv, StatusInv
  <2> HIDE DEF ev
  <2>4. PICK p \in reports : p.name = ev.name /\ p.uid = ev.uid /\ p.gen = ev.obs
    BY <2>2, <2>3, Zenon DEF Reported
  <2>5. QED
    BY <1>4, <2>2, <2>3, <2>4, ReadyConfirms, Zenon DEF Waiting
<1>5. QED
  BY <1>3, <1>4, Zenon DEF Ends

(* What an answer 200 rests on stays true, and is true when it is given.    *)
LEMMA SuccessStep ==
    ASSUME TypeOK, ActionInv, ExchangeInv, AnswerInv, VersionInv, WaitInv,
           StatusInv, ObjectInv, SuccessMeansReconciled, [Next]_vars
    PROVE  SuccessMeansReconciled'
<1>1. ASSUME NEW q \in Requests, NEW p \in reports, applied'[q] = applied[q],
             Confirms(p, q) \/ Leftover(p, q)
      PROVE  p \in reports' /\ (Confirms(p, q)' \/ Leftover(p, q)')
  BY <1>1, FrameStep, StatusStep, Zenon DEF Confirms, Leftover, Recreated
<1>2. ASSUME NEW q \in Requests, result'[q] = "Ready"
      PROVE  /\ applied'[q] = applied[q]
             /\ \E p \in reports : Confirms(p, q) \/ Leftover(p, q)
  <2>1. CASE result[q] = "Ready"
    BY <2>1, AnsweredStep, Zenon DEF SuccessMeansReconciled
  <2>2. CASE result[q] # "Ready"
    <3>1. ASSUME NEW r \in Requests, Step(r) PROVE Ends(q)
      <4>1. q = r
        BY <1>2, <2>2, <3>1, StepMoves, Zenon DEF Untouched
      <4>2. QED
        BY <1>2, <2>2, <3>1, <4>1, StepMoves, Zenon
        DEF Begins, Skips, Sends, Fails, Confirmed, Refetches, Waits, Watches,
            Drops
    <3>2. \E r \in Requests : Step(r)
      <4>1. ~ UNCHANGED result
        BY <1>2, <2>2, Zenon
      <4>2. QED
        BY <4>1, NextCases, ProcessExitsFacts, Zenon DEF ServerApplies, executorVars
    <3>3. Ends(q)
      BY <3>1, <3>2, Zenon
    <3>4. QED
      BY <1>2, <3>3, SuccessGiven, Zenon DEF Ends
  <2>3. QED
    BY <2>1, <2>2, Zenon
<1>3. QED
  BY <1>1, <1>2, Zenon DEF SuccessMeansReconciled

\* An event that ends a wait for generation gen of n.
ReadyFor(n, gen, ev) == ev.object /\ ev.name = n /\ ev.ready /\ ev.obs >= gen

(* The watch misses nothing: the listing that opens it shows the CR as it   *)
(* is, each later change is queued, and only ignored events are dropped.    *)
LEMMA WakeupStep ==
    ASSUME TypeOK, ActionInv, StreamInv, NoLostWakeup, [Next]_vars
    PROVE  NoLostWakeup'
<1>t. /\ DOMAIN store = Names /\ DOMAIN events = Requests
      /\ \A n \in Names : store[n] \in CR
      /\ \A q \in Requests : events[q] \in Seq(Events)
      /\ streams \subseteq Requests /\ streams' \subseteq Requests
  <2>1. TypeOK'
    BY TypeStep, Zenon
  <2>2. QED
    BY <2>1, Zenon DEF TypeOK, KubernetesTypeOK
<1> DEFINE Awake(cr, E, r) ==
      cr.exists /\ cr.ready /\ cr.obs >= applied[r].gen =>
        \E i \in 1..Len(E) : ReadyFor(act[r].name, applied[r].gen, E[i])
      Goal(r) == /\ act'[r] = act[r] /\ applied'[r] = applied[r]
                 /\ Awake(store'[act[r].name], events'[r], r)
<1>1. ASSUME NEW r \in streams
      PROVE  /\ Awake(store[act[r].name], events[r], r)
             /\ pc[r] = "loop" /\ act[r].name \in Names
  <2>1. Awake(store[act[r].name], events[r], r)
    BY Zenon DEF NoLostWakeup, Ignored, IsReady, ReadyFor
  <2>2. QED
    BY <1>t, <2>1, Zenon DEF StreamInv, ActionInv, ApplyActions
<1>2. SUFFICES ASSUME NEW r \in Requests, r \in streams'
               PROVE  Goal(r)
  <2>1. SUFFICES ASSUME NEW r \in streams',
                        store'[act'[r].name].exists, store'[act'[r].name].ready,
                        store'[act'[r].name].obs >= applied'[r].gen
                 PROVE  \E i \in 1..Len(events'[r]) :
                          /\ events'[r][i].object
                          /\ events'[r][i].name = act'[r].name
                          /\ events'[r][i].obs >= applied'[r].gen
                          /\ events'[r][i].ready
    BY Zenon DEF NoLostWakeup, Ignored, IsReady
  <2>2. Goal(r)
    BY <1>t, <1>2, Zenon
  <2>3. QED
    BY <2>1, <2>2 DEF ReadyFor
<1>3. ASSUME NEW n \in Names, NEW cr \in CR, Publish(n, cr), r \in streams,
             store'[n] = cr \/ ~store'[n].exists,
             \A m \in Names : m # n => store'[m] = store[m],
             act'[r] = act[r], applied'[r] = applied[r]
      PROVE  Goal(r)
  <2>1. CASE act[r].name = n
    <3>1. PICK i \in 1..Len(events'[r]) : events'[r][i] = Event(n, cr)
      BY <1>3, PublishFacts, ZenonT(40)
    <3>2. ASSUME cr.ready, cr.obs >= applied[r].gen
          PROVE  ReadyFor(act[r].name, applied[r].gen, events'[r][i])
      BY <2>1, <3>1, <3>2 DEF ReadyFor, Event
    <3>3. QED
      BY <1>3, <2>1, <3>2, Zenon
  <2>2. CASE act[r].name # n
    <3>1. Awake(store[act[r].name], events[r], r) /\ act[r].name \in Names
      BY <1>1, <1>3, Zenon
    <3>2. \A i \in 1..Len(events[r]) :
            i \in 1..Len(events'[r]) /\ events'[r][i] = events[r][i]
      BY <1>3, PublishFacts, Zenon
    <3>3. QED
      BY <1>3, <2>2, <3>1, <3>2, Zenon
  <2>3. QED
    BY <2>1, <2>2, Zenon
<1>4. ASSUME NEW q \in Requests, Step(q) PROVE Goal(r)
  <2>1. UNCHANGED <<store, act>>
    BY <1>4, StepMoves, Zenon
  <2>2. CASE q # r
    <3>1. applied'[r] = applied[r] /\ events'[r] = events[r] /\ r \in streams
      BY <1>2, <1>4, <2>2, StepMoves, Zenon DEF Untouched
    <3>2. QED
      BY <1>1, <2>1, <3>1, Zenon
  <2>3. CASE q = r
    <3>1. Watches(r) \/ Drops(r)
      <4>1. pc'[r] = "loop"
        BY <1>2, StreamStep, Zenon DEF StreamInv
      <4>2. QED
        BY <1>4, <2>3, <4>1, StepMoves, Zenon
        DEF Begins, Skips, Sends, Fails, Confirmed, Refetches, Waits, Ends
    <3>2. CASE Watches(r)
      <4>1. act[r].name \in Names
        BY <3>2, Zenon DEF Watches, ActionInv, ApplyActions
      <4>2. store[act[r].name].exists => \E i \in 1..Len(events'[r]) :
              events'[r][i] = Event(act[r].name, store[act[r].name])
        BY <3>2, <4>1, ListingFacts, Zenon DEF Watches
      <4>3. applied'[r] = applied[r]
        BY <3>2, Zenon DEF Watches
      <4>4. PICK cr \in CR : cr = store[act[r].name]
        BY <1>t, <4>1, Zenon
      <4>5. ASSUME cr.ready, cr.obs >= applied[r].gen
            PROVE  ReadyFor(act[r].name, applied[r].gen, Event(act[r].name, cr))
        BY <4>5, Zenon DEF ReadyFor, Event
      <4>6. QED
        BY <2>1, <4>2, <4>3, <4>4, <4>5, Zenon
    <3>3. CASE Drops(r)
      <4>1. /\ r \in streams /\ applied'[r] = applied[r]
            /\ events'[r] = Tail(events[r]) /\ events[r] # <<>>
            /\ ~ReadyFor(act[r].name, applied[r].gen, Head(events[r]))
        BY <1>2, <3>3, Zenon DEF Drops, Ignored, IsReady, ReadyFor
      <4>2. /\ Len(Tail(events[r])) = Len(events[r]) - 1 /\ Len(events[r]) \in Nat
            /\ \A i \in 1..Len(events[r]) : i # 1 =>
                 i - 1 \in 1..(Len(events[r]) - 1) /\ Tail(events[r])[i - 1] = events[r][i]
            /\ Head(events[r]) = events[r][1]
        BY <1>t, <4>1
      <4>3. ASSUME NEW i \in 1..Len(events[r]),
                   ReadyFor(act[r].name, applied[r].gen, events[r][i])
            PROVE  \E j \in 1..Len(events'[r]) :
                     ReadyFor(act[r].name, applied[r].gen, events'[r][j])
        <5>1. i # 1
          BY <4>1, <4>2, <4>3, Zenon
        <5>2. i - 1 \in 1..Len(events'[r]) /\ events'[r][i - 1] = events[r][i]
          BY <4>1, <4>2, <5>1, Zenon
        <5>3. QED
          BY <4>3, <5>2, Zenon
      <4>4. QED
        BY <1>1, <2>1, <4>1, <4>3, Zenon
    <3>4. QED
      BY <3>1, <3>2, <3>3, Zenon
  <2>4. QED
    BY <2>2, <2>3, Zenon
<1>5. ASSUME NEW q \in Requests, ServerApplies(q) PROVE Goal(r)
  <2>1. PICK n \in Names, cr \in CR :
          Publish(n, cr) /\ store' = [store EXCEPT ![n] = cr]
    BY <1>5, ServerAppliesFacts, Zenon
  <2>2. UNCHANGED <<act, applied, streams>>
    BY <1>5, ServerAppliesFrame, Zenon
  <2>3. store'[n] = cr /\ \A m \in Names : m # n => store'[m] = store[m]
    BY <1>t, <2>1, Zenon
  <2> HIDE DEF Goal
  <2>4. QED
    BY <1>2, <1>3, <2>1, <2>2, <2>3, Zenon
<1>6. CASE UNCHANGED <<clusterVars, act, pc, applied, result>>
  BY <1>1, <1>2, <1>6, Zenon DEF clusterVars
<1>7. ASSUME Cluster, UNCHANGED executorVars PROVE Goal(r)
  <2>e. UNCHANGED <<act, applied>>
    BY <1>7, Zenon DEF executorVars
  <2>1. ASSUME NEW n \in Names, NEW ok \in BOOLEAN, OperatorWrites(n, ok)
        PROVE  Goal(r)
    <3> DEFINE cr == Observed(store[n], operator[n].gen, ok)
    <3>1. cr \in CR
      BY Zenon DEF TypeOK, KubernetesTypeOK, Observed, CR
    <3>2. /\ Publish(n, cr) /\ store'[n] = cr /\ streams' = streams
          /\ \A m \in Names : m # n => store'[m] = store[m]
      BY <1>t, <2>1, Zenon DEF OperatorWrites
    <3> HIDE DEF cr, Goal
    <3>3. QED
      BY <1>2, <1>3, <2>e, <3>1, <3>2, Zenon
  <2>2. ASSUME NEW n \in Names, DeleteCR(n) PROVE Goal(r)
    <3>1. /\ Publish(n, store[n]) /\ ~store'[n].exists /\ streams' = streams
          /\ \A m \in Names : m # n => store'[m] = store[m]
      BY <1>t, <2>2, Zenon DEF DeleteCR, Deleted
    <3> HIDE DEF Goal
    <3>2. QED
      BY <1>t, <1>2, <1>3, <2>e, <3>1, Zenon
  <2>3. ASSUME NEW q \in Requests, EndStream(q) PROVE Goal(r)
    <3>1. r # q /\ r \in streams /\ store' = store /\ events'[r] = events[r]
      BY <1>t, <1>2, <2>3, Zenon DEF EndStream
    <3>2. QED
      BY <1>1, <2>e, <3>1, Zenon
  <2>4. ASSUME UNCHANGED <<store, events, streams>> PROVE Goal(r)
    BY <1>1, <1>2, <2>e, <2>4, Zenon
  <2> HIDE DEF Goal
  <2>5. QED
    BY <1>7, <2>1, <2>2, <2>3, <2>4, Zenon
    DEF Cluster, OperatorReads, OperatorGivesUp, RejectPatch
<1>8. ASSUME NEW S \in SUBSET Requests, ProcessExits(S) PROVE Goal(r)
  <2>1. /\ UNCHANGED <<store, act, applied>> /\ events'[r] = events[r]
        /\ r \in streams
    BY <1>2, <1>8, ProcessExitsFacts, Zenon
  <2>2. QED
    BY <1>1, <2>1, Zenon
<1>9. QED
  BY <1>4, <1>5, <1>6, <1>7, <1>8, NextCases, Zenon

-----------------------------------------------------------------------------
(* The inductive invariant holds of every interleaving: the conjuncts of    *)
(* IndInv, each kept by every step given all of them.                       *)
THEOREM Invariance == Spec => [](TypeOK /\ IndInv)
<1>1. Init => TypeOK /\ IndInv
  <2>1. SUFFICES ASSUME Init PROVE TypeOK /\ IndInv
    BY Zenon
  <2>2. TypeOK
    BY <2>1, InitTypes, Zenon
  <2>3. ActionInv /\ ExchangeInv
    BY <2>1, Zenon DEF Init, KubernetesInit, ActionInv, ExchangeInv, ApiErrors
  <2>4. AnswerInv
    BY <2>1, ExecutorAssumption, Zenon DEF ResultKinds, Init, KubernetesInit, AnswerInv
  <2>5. VersionInv /\ WaitInv
    BY <2>1 DEF Init, KubernetesInit, VersionInv, WaitInv, Absent, Idle
  <2>6. StatusInv
    <3>1. \A r \in Requests : events[r] = <<>>
      BY <2>1, Zenon DEF Init, KubernetesInit
    <3>2. \A n \in Names : ~store[n].exists
      BY <2>1, Zenon DEF Init, KubernetesInit, Absent
    <3>3. QED
      BY <3>1, <3>2 DEF StatusInv
  <2>7. StreamInv /\ NoLostWakeup
    BY <2>1, Zenon DEF Init, KubernetesInit, StreamInv, NoLostWakeup
  <2>8. SuccessMeansReconciled
    BY <2>1, ExecutorAssumption, Zenon DEF Init, SuccessMeansReconciled, ResultKinds
  <2>9. ObjectInv
    BY <2>1, Zenon DEF Init, KubernetesInit, ObjectInv, Reported, NotLanded
  <2>10. QED
    BY <2>2, <2>3, <2>4, <2>5, <2>6, <2>7, <2>8, <2>9, Zenon DEF IndInv
<1>2. TypeOK /\ IndInv /\ [Next]_vars => (TypeOK /\ IndInv)'
  <2>1. SUFFICES ASSUME TypeOK, IndInv, [Next]_vars PROVE TypeOK' /\ IndInv'
    BY Zenon
  <2>2. /\ ActionInv /\ ExchangeInv /\ AnswerInv /\ VersionInv /\ WaitInv
        /\ StatusInv /\ ObjectInv /\ StreamInv /\ SuccessMeansReconciled /\ NoLostWakeup
    BY <2>1, Zenon DEF IndInv
  <2>3. TypeOK' /\ ActionInv'
    BY <2>1, <2>2, TypeStep, ActionStep, Zenon
  <2>4. ExchangeInv' /\ AnswerInv' /\ VersionInv' /\ WaitInv' /\ ObjectInv'
    BY <2>1, <2>2, ExchangeStep, AnswerStep, VersionStep, WaitStep, ObjectStep, Zenon
  <2>5. StatusInv' /\ StreamInv' /\ SuccessMeansReconciled' /\ NoLostWakeup'
    BY <2>1, <2>2, StatusStep, StreamStep, SuccessStep, WakeupStep, Zenon
  <2>6. QED
    BY <2>3, <2>4, <2>5, Zenon DEF IndInv
<1>3. QED
  BY <1>1, <1>2, PTL DEF Spec

(* A 200 means that the operator reported Ready for the delivery's own spec *)
(* or for a later version of its CR, whatever Patch, Get, Watch, other      *)
(* deliveries, deletions and slow reconciles do in between; unless the CR   *)
(* was recreated between the Patch and the Get, with a generation that the  *)
(* status of its earlier incarnation covers.                                *)
THEOREM SuccessCorrect == Spec => []SuccessMeansReconciled
<1>1. TypeOK /\ IndInv => SuccessMeansReconciled
  BY Zenon DEF IndInv
<1>2. QED
  BY <1>1, Invariance, PTL

(* No wake-up falls into the gaps between the post-apply Get, the initial   *)
(* Get and the Watch.                                                       *)
THEOREM WakeupCorrect == Spec => []NoLostWakeup
<1>1. TypeOK /\ IndInv => NoLostWakeup
  BY Zenon DEF IndInv
<1>2. QED
  BY <1>1, Invariance, PTL

-----------------------------------------------------------------------------
(* The metrics. *)

\* One more observation of outcome o in the counters f, which become g.
OneMore(f, g, o) == g = [f EXCEPT ![o] = @ + 1]

\* What a step of r counts, by where r is and where it goes.
CountsNothing(r) ==
    /\ pc'[r] # "check" /\ (pc'[r] = "done" => pc[r] = "idle" /\ act[r].type # "apply")
    /\ UNCHANGED <<applied, applyTotal, syncTotal>>
CountsError(r) ==
    /\ pc[r] \in {"patch", "patching", "get"} /\ pc'[r] = "done"
    /\ OneMore(applyTotal, applyTotal', "error")
    /\ UNCHANGED <<applied, syncTotal>>
CountsWrite(r) ==
    /\ pc'[r] = "check"
    /\ OneMore(applyTotal, applyTotal', applyOutcome(store[act[r].name].gen))
    /\ UNCHANGED syncTotal
CountsSync(r) ==
    /\ pc[r] \in {"check", "watch", "loop"} /\ pc'[r] = "done"
    /\ OneMore(syncTotal, syncTotal', syncOutcome(result'[r]))
    /\ UNCHANGED <<applied, applyTotal>>

(* Every step of a delivery counts nothing, a failed apply, a successful    *)
(* one or the end of a wait.                                                *)
LEMMA StepCounts ==
    ASSUME TypeOK, NEW r \in Requests, Step(r)
    PROVE  CountsNothing(r) \/ CountsError(r) \/ CountsWrite(r) \/ CountsSync(r)
<1>t. DOMAIN pc = Requests /\ DOMAIN result = Requests
  BY Zenon DEF TypeOK, ExecutorTypeOK
<1>1. CASE Execute(r)
  BY <1>1, <1>t, Zenon DEF Execute, Return, Goto, CountsNothing
<1>2. CASE SendPatch(r) \/ PatchReturns(r) \/ InitialGetPending(r) \/ OpenWatch(r)
  BY <1>2, <1>t, Zenon DEF SendPatch, PatchReturns, InitialGetPending, OpenWatch, Goto,
     CountsNothing
<1>3. CASE LoopEventIgnored(r)
  BY <1>3, Zenon DEF LoopEventIgnored, executorVars, CountsNothing
<1>4. CASE PatchRefused(r) \/ PatchRejected(r) \/ PatchAbandoned(r) \/ PostApplyGetFails(r)
  <2>1. PICK e \in ApiErrors : ApplyFails(r, e) /\ pc[r] \in {"patch", "patching", "get"}
    BY <1>4, Zenon DEF PatchRefused, PatchRejected, PatchAbandoned, PostApplyGetFails,
       ReadErrors, ApiErrors
  <2> QED  BY <1>t, <2>1, Zenon DEF ApplyFails, observeApply, Return, Goto, CountsError,
             OneMore
<1>5. CASE PostApplyGet(r)
  BY <1>5, <1>t, Zenon DEF PostApplyGet, observeApply, Goto, CountsWrite, OneMore
<1>6. CASE \/ InitialGetReady(r) \/ OpenWatchFails(r) \/ LoopCtxDone(r)
           \/ LoopChannelClosed(r) \/ LoopEventReady(r)
  <2>1. PICK k \in ResultKinds :
          SyncReturns(r, k) /\ pc[r] \in {"check", "watch", "loop"}
    BY <1>6, Zenon DEF InitialGetReady, OpenWatchFails, LoopCtxDone, LoopChannelClosed,
       LoopEventReady, ResultKinds
  <2> QED  BY <1>t, <2>1, Zenon DEF SyncReturns, observeSync, Return, Goto, CountsSync,
             OneMore
<1> QED  BY <1>1, <1>2, <1>3, <1>4, <1>5, <1>6, Zenon DEF Step

(* The object that a successful apply() returns has a generation.           *)
LEMMA FetchStep ==
    ASSUME TypeOK, ActionInv, FetchInv, [Next]_vars
    PROVE  FetchInv'
<1>t. DOMAIN store = Names /\ \A n \in Names : store[n] \in CR
  BY Zenon DEF TypeOK, KubernetesTypeOK
<1>1. ASSUME NEW r \in Requests, Step(r)
      PROVE  FetchInv'
  <2>1. /\ UNCHANGED <<store, act>> /\ \A q \in Requests : q # r => Untouched(q)
        /\ \/ Begins(r) \/ Skips(r) \/ Sends(r) \/ Fails(r) \/ Confirmed(r)
           \/ Refetches(r) \/ Waits(r) \/ Watches(r) \/ Drops(r) \/ Ends(r)
    BY <1>1, StepMoves, Zenon
  <2>2. CASE Refetches(r)
    <3>1. act[r].name \in Names
      BY <2>2 DEF Refetches, ActionInv, ApplyActions
    <3>2. store[act[r].name].gen > 0
      BY <2>2, <3>1, Zenon DEF Refetches, FetchInv
    <3>3. applied'[r].gen # 0 /\ pc'[r] = "check"
      <4>1. landed[r] \in Objects /\ store[act[r].name] \in CR
        BY <1>t, <3>1, Zenon DEF TypeOK, KubernetesTypeOK
      <4>2. /\ applied'[r] = Decoded(landed[r], store[act[r].name])
            /\ pc'[r] = "check"
        BY <2>2, Zenon DEF Refetches
      <4>3. applied'[r].gen = store[act[r].name].gen
        BY <4>1, <4>2, DecodedFacts
      <4>4. QED
        BY <3>2, <4>1, <4>2, <4>3 DEF CR
    <3>4. applied'[r] # NotLanded
      BY <3>3 DEF NotLanded
    <3> QED  BY <2>1, <3>3, <3>4, Zenon DEF FetchInv, Untouched
  <2>3. CASE ~Refetches(r)
    <3>1. /\ pc'[r] = "done" \/ applied'[r] = applied[r]
          /\ pc'[r] \in {"patch", "patching", "get"} => pc[r] \in {"idle", "patch", "patching"}
          /\ pc'[r] \in {"watch", "loop"} => pc[r] \in {"check", "watch", "loop"}
          /\ pc'[r] \notin {"idle", "check"}
      <4>1. CountsNothing(r) \/ CountsError(r) \/ CountsWrite(r) \/ CountsSync(r)
        BY <1>1, StepCounts, Zenon
      <4>2. /\ pc'[r] \in {"patch", "patching", "get"} => pc[r] \in {"idle", "patch", "patching"}
            /\ pc'[r] \in {"watch", "loop"} => pc[r] \in {"check", "watch", "loop"}
            /\ pc'[r] \notin {"idle", "check"}
        BY <2>1, <2>3, Zenon DEF Begins, Skips, Sends, Fails, Confirmed, Waits, Watches,
           Drops, Ends
      <4> QED  BY <4>1, <4>2, Zenon DEF CountsNothing, CountsError, CountsWrite, CountsSync
    <3> QED  BY <2>1, <3>1, Zenon DEF FetchInv, Untouched
  <2> QED  BY <2>2, <2>3, Zenon
<1>2. ASSUME \A n \in Names : store'[n].exists => store'[n].gen > 0,
             UNCHANGED <<pc, applied>>
      PROVE  FetchInv'
  BY <1>2, Zenon DEF FetchInv
<1>3. ASSUME NEW r \in Requests, ServerApplies(r)
      PROVE  FetchInv'
  <2> DEFINE n == act[r].name
  <2>1. /\ n \in Names /\ store[n] \in CR /\ store'[n] = Applied(store[n], act[r].spec)
        /\ \A m \in Names : m # n => store'[m] = store[m]
    BY <1>3, ServerAppliesStore, Zenon
  <2>2. store[n].exists => store[n].gen > 0
    BY <2>1, Zenon DEF FetchInv
  <2>3. store'[n].gen > 0
    BY <2>1, <2>2 DEF Applied, CR
  <2>4. UNCHANGED <<pc, applied>>
    BY <1>3, ServerAppliesFrame, Zenon
  <2> HIDE DEF n
  <2> QED  BY <1>2, <2>1, <2>3, <2>4, Zenon DEF FetchInv
<1>4. ASSUME NEW S \in SUBSET Requests, ProcessExits(S)
      PROVE  FetchInv'
  BY <1>4, ProcessExitsFacts, Zenon DEF FetchInv
<1>5. ASSUME Cluster, UNCHANGED executorVars
      PROVE  FetchInv'
  <2>1. ASSUME NEW n \in Names, store'[n].exists
        PROVE  store[n].exists /\ store'[n].gen = store[n].gen
    <3>1. CASE store' = store
      BY <2>1, <3>1, Zenon
    <3>2. ASSUME NEW m \in Names, NEW ok \in BOOLEAN, OperatorWrites(m, ok)
          PROVE  store[n].exists /\ store'[n].gen = store[n].gen
      BY <1>t, <2>1, <3>2 DEF OperatorWrites, Observed
    <3>3. ASSUME NEW m \in Names, DeleteCR(m)
          PROVE  store[n].exists /\ store'[n].gen = store[n].gen
      BY <1>t, <2>1, <3>3 DEF DeleteCR, Deleted
    <3> QED  BY <1>5, <3>1, <3>2, <3>3, Zenon DEF Cluster, OperatorReads, OperatorGivesUp,
               RejectPatch, EndStream
  <2>2. UNCHANGED <<pc, applied>>
    BY <1>5, Zenon DEF executorVars
  <2> QED  BY <1>2, <2>1, <2>2, Zenon DEF FetchInv
<1>6. CASE UNCHANGED <<clusterVars, act, pc, applied, result>>
  BY <1>2, <1>6, Zenon DEF clusterVars, FetchInv
<1> QED  BY <1>1, <1>3, <1>4, <1>5, <1>6, NextCases, Zenon

\* How many deliveries are in S and in T, if T is S but for r.
Resized(S, T, r) ==
    /\ Cardinality(S) \in Nat /\ Cardinality(T) \in Nat
    /\ (r \in S <=> r \in T) => Cardinality(T) = Cardinality(S)
    /\ r \notin S /\ r \in T => Cardinality(T) = Cardinality(S) + 1
    /\ r \in S /\ r \notin T => Cardinality(S) = Cardinality(T) + 1

(* How the size of a set of deliveries changes when one joins or leaves it. *)
LEMMA SizeFacts ==
    ASSUME NEW S \in SUBSET Requests, NEW T \in SUBSET Requests, NEW r \in Requests,
           \A q \in Requests : q # r => (q \in S <=> q \in T)
    PROVE  Resized(S, T, r)
<1>1. Cardinality(S) \in Nat /\ Cardinality(T) \in Nat
  BY RequestsAssumption
<1>2. (r \in S <=> r \in T) => S = T
  OBVIOUS
<1>3. r \notin S /\ r \in T => T = S \cup {r}
  BY Zenon
<1>4. r \in S /\ r \notin T => S = T \cup {r}
  BY Zenon
<1> QED  BY <1>1, <1>2, <1>3, <1>4, RequestsAssumption DEF Resized

\* The counters, with their types.
Counters ==
    /\ applyTotal["created"] \in Nat /\ applyTotal["updated"] \in Nat
    /\ applyTotal["error"] \in Nat
    /\ syncTotal["ready"] \in Nat /\ syncTotal["timeout"] \in Nat
    /\ syncTotal["transient"] \in Nat

(* The counters are natural numbers, one for each outcome.                  *)
LEMMA CounterFacts ==
    ASSUME TypeOK
    PROVE  /\ Counters
           /\ DOMAIN applyTotal = ApplyOutcomes /\ DOMAIN syncTotal = SyncOutcomes
BY Zenon DEF TypeOK, ExecutorTypeOK, ApplyOutcomes, SyncOutcomes, Counters

(* A step that moves one delivery keeps the sums.                           *)
LEMMA MetricsOfStep ==
    ASSUME TypeOK, IndInv, FetchInv, MetricsAddUp, NEW r \in Requests, Step(r)
    PROVE  MetricsAddUp'
<1>1. /\ act' = act /\ \A q \in Requests : q # r => Untouched(q)
      /\ \/ Begins(r) \/ Skips(r) \/ Sends(r) \/ Fails(r) \/ Confirmed(r)
         \/ Refetches(r) \/ Waits(r) \/ Watches(r) \/ Drops(r) \/ Ends(r)
  BY StepMoves, Zenon DEF IndInv
<1>2. CountsNothing(r) \/ CountsError(r) \/ CountsWrite(r) \/ CountsSync(r)
  BY StepCounts, Zenon
<1>3. /\ Awaited \in SUBSET Requests /\ Awaited' \in SUBSET Requests
      /\ Ended \in SUBSET Requests /\ Ended' \in SUBSET Requests
      /\ Succeeded \in SUBSET Requests /\ Succeeded' \in SUBSET Requests
      /\ \A q \in Requests : q # r =>
           /\ q \in Awaited <=> q \in Awaited'
           /\ q \in Ended <=> q \in Ended'
           /\ q \in Succeeded <=> q \in Succeeded'
  BY <1>1, Zenon DEF Awaited, Ended, Succeeded, Untouched
<1>4. /\ Resized(Awaited, Awaited', r) /\ Resized(Ended, Ended', r)
      /\ Resized(Succeeded, Succeeded', r)
  <2>1. Resized(Awaited, Awaited', r)
    BY <1>3, SizeFacts, Zenon
  <2>2. Resized(Ended, Ended', r)
    BY <1>3, SizeFacts, Zenon
  <2>3. Resized(Succeeded, Succeeded', r)
    BY <1>3, SizeFacts, Zenon
  <2> QED  BY <2>1, <2>2, <2>3, Zenon
<1>5. /\ Counters
      /\ DOMAIN applyTotal = ApplyOutcomes /\ DOMAIN syncTotal = SyncOutcomes
  BY CounterFacts, Zenon
<1>6. /\ pc[r] # "done" => r \notin Succeeded
      /\ r \in Succeeded' <=> result'[r] = "Ready"
  BY ExecutorAssumption, Zenon DEF IndInv, AnswerInv, Succeeded, ResultKinds
<1>7. pc[r] \notin {"idle", "done"} => act[r].type = "apply"
  BY DEF IndInv, ActionInv, ApplyActions
<1>8. /\ pc[r] # "done"
      /\ pc'[r] = "check" => Refetches(r)
      /\ pc'[r] = "done" =>
           \/ pc[r] = "idle" /\ result'[r] = "Noop"
           \/ /\ pc[r] \in {"patch", "patching", "get"}
              /\ result'[r] \in {"TransientFailure", "InternalError", "Unprocessable"}
           \/ /\ pc[r] \in {"check", "watch", "loop"}
              /\ result'[r] \in {"TransientFailure", "Timeout", "Ready"}
      /\ pc'[r] # "done" => result'[r] = result[r]
      /\ pc'[r] \in {"patch", "patching", "get"} => pc[r] \in {"idle", "patch", "patching"}
      /\ pc'[r] \in {"watch", "loop"} => pc[r] \in {"check", "watch", "loop"}
      /\ pc'[r] \in {"patch", "patching", "get", "check", "watch", "loop", "done"}
      /\ pc[r] # "killed"
  BY <1>1, Zenon DEF Begins, Skips, Sends, Fails, Confirmed, Refetches, Waits, Watches, Drops,
     Ends
<1>9. CASE CountsNothing(r)
  <2>1. /\ r \in Awaited <=> r \in Awaited'
        /\ r \notin Ended /\ r \notin Ended'
        /\ r \notin Succeeded /\ r \notin Succeeded'
    <3>1. \/ /\ pc[r] \in {"idle", "patch", "patching"}
             /\ pc'[r] \in {"patch", "patching", "get"}
          \/ pc[r] \in {"check", "watch", "loop"} /\ pc'[r] \in {"watch", "loop"}
          \/ pc[r] = "idle" /\ pc'[r] = "done" /\ act[r].type # "apply"
      BY <1>8, <1>9, Zenon DEF CountsNothing
    <3>2. r \notin Succeeded /\ r \notin Succeeded'
      BY <1>6, <1>8, <1>9, Zenon DEF Succeeded, CountsNothing
    <3> QED  BY <1>1, <3>1, <3>2, Zenon DEF Awaited, Ended
  <2>2. UNCHANGED <<Cardinality(Awaited), Cardinality(Ended), Cardinality(Succeeded)>>
    BY <1>4, <2>1, Zenon DEF Resized
  <2> QED  BY <1>9, <2>2, Zenon DEF CountsNothing, MetricsAddUp, Writes, Syncs
<1>10. CASE CountsError(r)
  <2>1. /\ r \notin Awaited /\ r \notin Awaited' /\ r \notin Ended /\ r \in Ended'
        /\ r \notin Succeeded /\ r \notin Succeeded'
    BY <1>1, <1>6, <1>7, <1>8, <1>10, Zenon DEF Awaited, Ended, CountsError
  <2>2. /\ UNCHANGED <<Cardinality(Awaited), Cardinality(Succeeded)>>
        /\ Cardinality(Ended)' = Cardinality(Ended) + 1
    BY <1>4, <2>1, Zenon DEF Resized
  <2>3. /\ applyTotal'["error"] = applyTotal["error"] + 1
        /\ applyTotal'["created"] = applyTotal["created"]
        /\ applyTotal'["updated"] = applyTotal["updated"] /\ syncTotal' = syncTotal
    BY <1>5, <1>10, Zenon DEF CountsError, OneMore, ApplyOutcomes
  <2> QED  BY <1>4, <1>5, <2>2, <2>3 DEF MetricsAddUp, Writes, Syncs, Counters, Resized
<1>11. CASE CountsWrite(r)
  <2>1. /\ r \notin Awaited /\ r \in Awaited' /\ r \notin Ended /\ r \notin Ended'
        /\ r \notin Succeeded /\ r \notin Succeeded'
    BY <1>1, <1>6, <1>8, <1>11, Zenon DEF Awaited, Ended, Succeeded, Refetches, CountsWrite
  <2>2. /\ UNCHANGED <<Cardinality(Ended), Cardinality(Succeeded)>>
        /\ Cardinality(Awaited)' = Cardinality(Awaited) + 1
    BY <1>4, <2>1, Zenon DEF Resized
  <2>3. store[act[r].name].exists /\ act[r].name \in Names
    BY <1>8, <1>11, SMTT(20) DEF IndInv, ActionInv, ApplyActions, Refetches, CountsWrite
  <2>4. store[act[r].name].gen > 0 /\ store[act[r].name].gen \in Nat
    BY <2>3 DEF FetchInv, TypeOK, KubernetesTypeOK, CR
  <2>5. applyOutcome(store[act[r].name].gen) \in {"created", "updated"}
    BY <2>4 DEF applyOutcome
  <2>6. /\ \/ /\ applyTotal'["created"] = applyTotal["created"] + 1
              /\ applyTotal'["updated"] = applyTotal["updated"]
           \/ /\ applyTotal'["created"] = applyTotal["created"]
              /\ applyTotal'["updated"] = applyTotal["updated"] + 1
        /\ applyTotal'["error"] = applyTotal["error"] /\ syncTotal' = syncTotal
    BY <1>5, <1>11, <2>5, Zenon DEF CountsWrite, OneMore, ApplyOutcomes
  <2> QED  BY <1>4, <1>5, <2>2, <2>6 DEF MetricsAddUp, Writes, Syncs, Counters, Resized
<1>12. CASE CountsSync(r)
  <2>1. /\ r \in Awaited /\ r \notin Awaited' /\ r \notin Ended /\ r \in Ended'
        /\ r \notin Succeeded
    BY <1>1, <1>6, <1>7, <1>12, Zenon DEF Awaited, Ended, CountsSync
  <2>2. /\ Cardinality(Ended)' = Cardinality(Ended) + 1
        /\ Cardinality(Awaited) = Cardinality(Awaited)' + 1
        /\ result'[r] = "Ready" => Cardinality(Succeeded)' = Cardinality(Succeeded) + 1
        /\ result'[r] # "Ready" => Cardinality(Succeeded)' = Cardinality(Succeeded)
    BY <1>4, <1>6, <2>1, Zenon DEF Resized
  <2>3. /\ syncTotal' = [syncTotal EXCEPT ![syncOutcome(result'[r])] = @ + 1]
        /\ applyTotal' = applyTotal
    BY <1>12, Zenon DEF CountsSync, OneMore
  <2>4. CASE result'[r] = "Ready"
    <3>1. /\ syncTotal'["ready"] = syncTotal["ready"] + 1
          /\ syncTotal'["timeout"] = syncTotal["timeout"]
          /\ syncTotal'["transient"] = syncTotal["transient"]
      BY <1>5, <2>3, <2>4, Zenon DEF syncOutcome, SyncOutcomes
    <3> QED  BY <1>4, <1>5, <2>2, <2>3, <2>4, <3>1
               DEF MetricsAddUp, Writes, Syncs, Counters, Resized
  <2>5. CASE result'[r] # "Ready"
    <3>1. /\ syncTotal'["ready"] = syncTotal["ready"]
          /\ \/ /\ syncTotal'["timeout"] = syncTotal["timeout"] + 1
                /\ syncTotal'["transient"] = syncTotal["transient"]
             \/ /\ syncTotal'["timeout"] = syncTotal["timeout"]
                /\ syncTotal'["transient"] = syncTotal["transient"] + 1
      BY <1>5, <2>3, <2>5, Zenon DEF syncOutcome, SyncOutcomes
    <3> QED  BY <1>4, <1>5, <2>2, <2>3, <2>5, <3>1
               DEF MetricsAddUp, Writes, Syncs, Counters, Resized
  <2> QED  BY <2>4, <2>5, Zenon
<1> QED  BY <1>2, <1>9, <1>10, <1>11, <1>12, Zenon

(* No step of any kind breaks the sums; the end of a process moves no       *)
(* delivery in or out of them.                                              *)
LEMMA MetricsStep ==
    ASSUME TypeOK, IndInv, FetchInv, MetricsAddUp, [Next]_vars
    PROVE  MetricsAddUp'
<1>1. ASSUME NEW r \in Requests, Step(r)
      PROVE  MetricsAddUp'
  BY <1>1, MetricsOfStep, Zenon
<1>2. ASSUME UNCHANGED <<act, pc, applied, result, applyTotal, syncTotal>>
      PROVE  MetricsAddUp'
  BY <1>2, Zenon DEF MetricsAddUp, Awaited, Ended, Succeeded, Writes, Syncs
<1>3. ASSUME NEW S \in SUBSET Requests, ProcessExits(S)
      PROVE  MetricsAddUp'
  <2>1. /\ UNCHANGED <<act, applied, result, applyTotal, syncTotal>>
        /\ \A q \in S : pc[q] \notin {"idle", "done", "killed"} /\ pc'[q] = "killed"
        /\ \A q \in Requests \ S : pc'[q] = pc[q]
    BY <1>3, Zenon DEF ProcessExits
  <2>2. Ended' = Ended
    BY <2>1 DEF Ended
  <2>3. Awaited' = Awaited
    <3>1. ASSUME NEW q \in Requests PROVE q \in Awaited' <=> q \in Awaited
      <4>1. CASE q \in S
        <5>1. pc[q] \in {"patch", "patching", "get", "check", "watch", "loop"}
          BY <2>1, <4>1 DEF TypeOK, ExecutorTypeOK
        <5> QED  BY <2>1, <4>1, <5>1, Zenon DEF Awaited, FetchInv
      <4>2. CASE q \notin S
        BY <2>1, <4>2, Zenon DEF Awaited
      <4> QED  BY <4>1, <4>2, Zenon
    <3> QED  BY <3>1 DEF Awaited
  <2> QED  BY <2>1, <2>2, <2>3, Zenon DEF MetricsAddUp, Succeeded, Writes, Syncs
<1>4. ASSUME NEW r \in Requests, ServerApplies(r) \/ DeadlineExpires(r) \/ ClientGone(r)
      PROVE  MetricsAddUp'
  BY <1>2, <1>4, Zenon DEF ServerApplies, DeadlineExpires, ClientGone, executorVars
<1>5. CASE Sigterm \/ (Cluster /\ UNCHANGED executorVars) \/ UNCHANGED vars
  BY <1>2, <1>5, Zenon DEF Sigterm, executorVars, vars
<1> QED  BY <1>1, <1>3, <1>4, <1>5, Zenon DEF Next

(* The metrics add up: each apply() and each wait is counted once, under    *)
(* the outcome it had, for any number of deliveries and whatever becomes of *)
(* them and of their processes.                                             *)
THEOREM MetricsCorrect == Spec => []MetricsAddUp
<1>1. Init => FetchInv /\ MetricsAddUp
  <2> SUFFICES ASSUME Init PROVE FetchInv /\ MetricsAddUp  BY Zenon
  <2>1. FetchInv
    BY Zenon DEF Init, KubernetesInit, Absent, FetchInv
  <2>2. Awaited = {} /\ Ended = {}
    BY Zenon DEF Init, Awaited, Ended
  <2>3. Succeeded = {}
    BY ExecutorAssumption, Zenon DEF Init, Succeeded, ResultKinds
  <2>4. /\ Writes = 0 + 0 /\ Syncs = 0 + 0 + 0
        /\ applyTotal["error"] = 0 /\ syncTotal["ready"] = 0
    BY Zenon DEF Init, Writes, Syncs, ApplyOutcomes, SyncOutcomes
  <2> QED  BY <2>1, <2>2, <2>3, <2>4, RequestsAssumption DEF MetricsAddUp
<1>2. TypeOK /\ IndInv /\ FetchInv /\ MetricsAddUp /\ [Next]_vars => (FetchInv /\ MetricsAddUp)'
  BY FetchStep, MetricsStep, Zenon DEF IndInv
<1> QED  BY <1>1, <1>2, Invariance, PTL DEF Spec

-----------------------------------------------------------------------------
(* Refinement. *)

(* An apply leaves the incarnation of a CR that exists, and starts a later  *)
(* one of a CR that does not.                                               *)
LEMMA AppliedIncarnation ==
    ASSUME NEW cr \in CR, NEW s \in Specs
    PROVE  /\ Applied(cr, s).exists
           /\ cr.exists => Applied(cr, s).uid = cr.uid
           /\ ~cr.exists => Applied(cr, s).uid > cr.uid
BY SMTT(20) DEF Applied, CR

(* So does the step in which the server takes one.                          *)
LEMMA ApplyIncarnation ==
    ASSUME TypeOK, ActionInv, NEW r \in Requests, ServerApplies(r), NEW n \in Names
    PROVE  \/ store'[n] = store[n]
           \/ /\ store'[n].exists
              /\ store[n].exists => store'[n].uid = store[n].uid
              /\ ~store[n].exists => store'[n].uid > store[n].uid
<1>1. /\ store[n] \in CR /\ act[r].spec \in Specs
      /\ store'[n] \in {store[n], Applied(store[n], act[r].spec)}
  BY ServerAppliesStore, Zenon DEF TypeOK, KubernetesTypeOK
<1>2. QED
  BY <1>1, AppliedIncarnation, Zenon

(* Only an apply brings a CR into existence.                                *)
LEMMA CreationStep ==
    ASSUME TypeOK, ActionInv, [Next]_vars, NEW n \in Names,
           ~store[n].exists, store'[n].exists
    PROVE  store'[n].uid > store[n].uid
<1>t. DOMAIN store = Names
  BY Zenon DEF TypeOK, KubernetesTypeOK
<1>1. ASSUME NEW r \in Requests, ServerApplies(r) PROVE store'[n].uid > store[n].uid
  BY <1>1, ApplyIncarnation, Zenon
<1>2. ASSUME NEW r \in Requests, Step(r) PROVE FALSE
  BY <1>2, StepMoves, Zenon
<1>3. ASSUME NEW S \in SUBSET Requests, ProcessExits(S) PROVE FALSE
  BY <1>3, ProcessExitsFacts, Zenon
<1>4. CASE UNCHANGED <<clusterVars, act, pc, applied, result>>
  BY <1>4, Zenon DEF clusterVars
<1>5. CASE Cluster /\ UNCHANGED executorVars
  <2>1. ASSUME NEW m \in Names, NEW ok \in BOOLEAN, OperatorWrites(m, ok)
        PROVE  store'[n] = store[n]
    BY <1>t, <2>1, Zenon DEF OperatorWrites
  <2>2. ASSUME NEW m \in Names, DeleteCR(m) PROVE store'[n] = store[n]
    BY <1>t, <2>2, Zenon DEF DeleteCR
  <2>3. QED
    BY <1>5, <2>1, <2>2, Zenon DEF Cluster, OperatorReads, OperatorGivesUp,
       RejectPatch, EndStream
<1>6. QED
  BY <1>1, <1>2, <1>3, <1>4, <1>5, NextCases, Zenon

(* A delivery whose CR was deleted after its write stays one.               *)
LEMMA DeletedStep ==
    ASSUME TypeOK, ActionInv, ExchangeInv, VersionInv, [Next]_vars,
           NEW q \in DeletedOnes
    PROVE  q \in DeletedOnes'
<1>1. /\ q \in Requests /\ landed[q] # NotLanded
      /\ landed'[q] = landed[q] /\ act' = act
  BY FrameStep, Zenon DEF DeletedOnes, Written
<1>2. PICK n \in Names : n = act[q].name /\ PastVersion(store[n], landed[q], act[q].spec)
  BY <1>1, Zenon DEF VersionInv, ApplyActions
<1>3. store'[n].uid >= store[n].uid
  BY FrameStep, Zenon
<1>4. PICK u \in Nat, v \in Nat, w \in Nat :
        u = landed[q].uid /\ v = store[n].uid /\ w = store'[n].uid
  <2>1. landed[q] \in Objects /\ store[n] \in CR /\ store'[n] \in CR
    BY <1>1, TypeStep, Zenon DEF TypeOK, KubernetesTypeOK
  <2>2. QED
    BY <2>1, Zenon DEF CR, Objects
<1>5. u <= v /\ v <= w
  BY <1>2, <1>3, <1>4 DEF PastVersion
<1>6. CASE v # u
  <2>1. w # u
    BY <1>5, <1>6
  <2>2. QED
    BY <1>1, <1>2, <1>4, <2>1, Zenon DEF DeletedOnes, Written
<1>7. CASE ~store[n].exists /\ store'[n].exists
  <2>1. w > v
    BY <1>4, <1>7, CreationStep, Zenon
  <2>2. w # u
    BY <1>5, <2>1
  <2>3. QED
    BY <1>1, <1>2, <1>4, <2>2, Zenon DEF DeletedOnes, Written
<1>8. CASE ~store'[n].exists
  BY <1>1, <1>2, <1>8, Zenon DEF DeletedOnes, Written
<1>9. QED
  BY <1>2, <1>4, <1>6, <1>7, <1>8, Zenon DEF DeletedOnes

(* A delivery that a leftover status answers is one.                        *)
LEMMA LeftoverDeleted ==
    ASSUME TypeOK, ActionInv, WaitInv, NEW r \in Requests, Ends(r),
           NEW p, Leftover(p, r)
    PROVE  r \in DeletedOnes
<1>1. /\ landed[r] # NotLanded /\ applied[r].uid # landed[r].uid
      /\ act[r].name \in Names
      /\ applied[r].uid >= landed[r].uid /\ applied[r].uid <= store[act[r].name].uid
  BY Zenon DEF Leftover, Recreated, Ends, WaitInv, ActionInv, ApplyActions
<1>2. PICK u \in Nat, v \in Nat, w \in Nat :
        u = landed[r].uid /\ v = applied[r].uid /\ w = store[act[r].name].uid
  BY <1>1, Zenon DEF TypeOK, KubernetesTypeOK, ExecutorTypeOK, CR, Objects
<1>3. w # u
  BY <1>1, <1>2
<1>4. QED
  BY <1>1, <1>2, <1>3, Zenon DEF DeletedOnes, Written

(* What a step of r's goroutine can mean to the sender: nothing, or that    *)
(* its delivery was taken up or answered, the latter under the conditions   *)
(* that Provisioning puts on each answer.                                   *)
LEMMA StepPromise ==
    ASSUME TypeOK, IndInv, TypeOK', IndInv', NEW r \in Requests, Step(r)
    PROVE  /\ Written' = Written /\ SettledOnes' = SettledOnes
           /\ \/ UNCHANGED <<Phase, result>>
              \/ /\ Phase[r] = "idle" /\ Phase' = [Phase EXCEPT ![r] = "open"]
                 /\ result' = result
              \/ \E kind \in ResultKinds :
                   /\ Phase[r] # "answered"
                   /\ kind \in {"Noop", "Unprocessable"} => r \notin Written
                   /\ kind = "Ready" => r \in SettledOnes
                   /\ kind = "Timeout" => r \in Written
                   /\ Phase' = [Phase EXCEPT ![r] = "answered"]
                   /\ result' = [result EXCEPT ![r] = kind]
<1>i. /\ ActionInv /\ ExchangeInv /\ VersionInv /\ WaitInv /\ StatusInv /\ ObjectInv
  BY Zenon DEF IndInv
<1>1. UNCHANGED <<store, landed, reports, act>>
  BY <1>i, StepMoves, Zenon
<1>2. Written' = Written /\ SettledOnes' = SettledOnes
  BY <1>1, Zenon DEF Written, SettledOnes, ConfirmedOnes, DeletedOnes, Confirms
<1>3. \A q \in Requests : q # r => pc'[q] = pc[q] /\ result'[q] = result[q]
  BY <1>i, StepMoves, Zenon DEF Untouched
<1>t. /\ result \in [Requests -> ResultKinds \cup {None}]
      /\ result' \in [Requests -> ResultKinds \cup {None}]
      /\ pc \in [Requests -> {"idle", "patch", "patching", "get", "check",
                              "watch", "loop", "done", "killed"}]
  BY Zenon DEF TypeOK, ExecutorTypeOK
<1>4. ASSUME result'[r] = result[r] PROVE result' = result
  BY <1>3, <1>4, <1>t
<1>6. ASSUME NEW p, Phase'[r] = p PROVE Phase' = [Phase EXCEPT ![r] = p]
  BY <1>3, <1>6, Zenon DEF Phase
<1>7. CASE /\ pc[r] \notin {"idle", "done"} /\ pc'[r] \notin {"idle", "done"}
           /\ result'[r] = result[r]
  <2>1. Phase' = Phase
    BY <1>3, <1>7, Zenon DEF Phase
  <2>2. QED
    BY <1>2, <1>4, <1>7, <2>1, Zenon
<1>8. CASE Begins(r)
  <2>1. Phase[r] = "idle" /\ Phase'[r] = "open" /\ result'[r] = result[r]
    BY <1>8, Zenon DEF Begins, Phase
  <2>2. QED
    BY <1>2, <1>4, <1>6, <2>1, Zenon
<1>9. ASSUME pc[r] # "done", pc'[r] = "done",
             result'[r] \in {"Noop", "Unprocessable"} => r \notin Written,
             result'[r] = "Timeout" => r \in Written,
             result'[r] = "Ready" => Ends(r),
             result'[r] \in ResultKinds
      PROVE  \E kind \in ResultKinds :
               /\ Phase[r] # "answered"
               /\ kind \in {"Noop", "Unprocessable"} => r \notin Written
               /\ kind = "Ready" => r \in SettledOnes
               /\ kind = "Timeout" => r \in Written
               /\ Phase' = [Phase EXCEPT ![r] = "answered"]
               /\ result' = [result EXCEPT ![r] = kind]
  <2>1. Phase[r] # "answered" /\ Phase'[r] = "answered"
    BY <1>9, Zenon DEF Phase
  <2>2. Phase' = [Phase EXCEPT ![r] = "answered"]
    BY <1>6, <2>1, Zenon
  <2>3. result' = [result EXCEPT ![r] = result'[r]]
    BY <1>3, <1>t, Zenon
  <2>4. result'[r] = "Ready" => r \in SettledOnes
    <3>1. result'[r] = "Ready" =>
            Ends(r) /\ \E p \in reports : Confirms(p, r) \/ Leftover(p, r)
      BY <1>i, <1>9, SuccessGiven, Zenon
    <3>2. QED
      BY <1>i, <3>1, LeftoverDeleted, Zenon DEF SettledOnes, ConfirmedOnes
  <2>5. QED
    BY <1>9, <2>1, <2>2, <2>3, <2>4, Zenon
<1>10. CASE Skips(r) \/ Fails(r) \/ Ends(r)
  <2>1. /\ pc[r] # "done" /\ pc'[r] = "done" /\ result'[r] \in ResultKinds
        /\ result'[r] \in {"Noop", "Unprocessable"} =>
             wire[r] \in {"none"} \cup ApiErrors
        /\ result'[r] = "Timeout" => pc[r] \in {"check", "watch", "loop"}
        /\ result'[r] = "Ready" => Ends(r)
    <3>1. CASE Skips(r)
      BY <1>i, <3>1, Zenon DEF Skips, ExchangeInv, ResultKinds
    <3>2. CASE Fails(r)
      BY <3>2, Zenon DEF Fails, ResultKinds
    <3>3. CASE Ends(r)
      BY <3>3, Zenon DEF Ends, ResultKinds
    <3>4. QED
      BY <1>10, <3>1, <3>2, <3>3, Zenon
  <2>2. /\ result'[r] \in {"Noop", "Unprocessable"} => r \notin Written
        /\ result'[r] = "Timeout" => r \in Written
    BY <1>i, <2>1, Zenon DEF ExchangeInv, Written
  <2>3. QED
    BY <1>2, <1>9, <2>1, <2>2, Zenon
<1>11. QED
  <2>1. CASE Sends(r) \/ Confirmed(r) \/ Refetches(r) \/ Waits(r) \/ Watches(r)
             \/ Drops(r)
    <3>1. /\ pc[r] \notin {"idle", "done"} /\ pc'[r] \notin {"idle", "done"}
          /\ result'[r] = result[r]
      BY <2>1, Zenon DEF Sends, Confirmed, Refetches, Waits, Watches, Drops
    <3>2. QED
      BY <1>7, <3>1, Zenon
  <2>2. QED
    BY <1>i, <1>8, <1>10, <2>1, StepMoves, Zenon

(* The other steps: an apply that lands writes its delivery, unless an      *)
(* answer has ruled that out; a status write or a deletion settles some.    *)
LEMMA ClusterPromise ==
    ASSUME TypeOK, IndInv, [Next]_vars, ~\E r \in Requests : Step(r)
    PROVE  /\ UNCHANGED <<Phase, result>>
           /\ SettledOnes \subseteq SettledOnes'
           /\ \/ Written' = Written /\ SettledOnes' \subseteq Written
              \/ \E r \in Requests :
                   /\ Phase[r] # "idle" /\ r \notin Written
                   /\ result[r] \notin {"Noop", "Unprocessable", "Ready", "Timeout"}
                   /\ Written' = Written \cup {r}
                   /\ SettledOnes' \subseteq SettledOnes \cup {r}
<1>i. /\ ActionInv /\ ExchangeInv /\ AnswerInv /\ VersionInv /\ StatusInv
  BY Zenon DEF IndInv
<1>1. \/ UNCHANGED <<pc, result>>
      \/ \E S \in SUBSET Requests : ProcessExits(S)
  BY NextCases, ServerAppliesFrame, <1>i, Zenon DEF executorVars
<1>2. UNCHANGED <<Phase, result>>
  <2>1. ASSUME NEW S \in SUBSET Requests, ProcessExits(S)
        PROVE  UNCHANGED <<Phase, result>>
    BY <2>1, ProcessExitsFacts DEF Phase
  <2>2. QED
    BY <1>1, <2>1, Zenon DEF Phase
<1>3. SettledOnes \subseteq SettledOnes'
  <2>1. ASSUME NEW q \in Requests, NEW p \in reports, Confirms(p, q)
        PROVE  p \in reports' /\ Confirms(p, q)'
    BY <1>i, <2>1, FrameStep, StatusStep, Zenon DEF Confirms
  <2>2. ConfirmedOnes \subseteq ConfirmedOnes'
    BY <2>1, Zenon DEF ConfirmedOnes
  <2>3. QED
    BY <1>i, <2>2, DeletedStep, Zenon DEF SettledOnes
<1>4. ASSUME NEW r \in Requests, ServerApplies(r)
      PROVE  /\ Phase[r] # "idle" /\ r \notin Written
             /\ result[r] \notin {"Noop", "Unprocessable", "Ready", "Timeout"}
             /\ Written' = Written \cup {r}
             /\ SettledOnes' \subseteq SettledOnes \cup {r}
  <2>1. /\ wire[r] = "sent" /\ wire'[r] = "ok"
        /\ \A q \in Requests : q # r => landed'[q] = landed[q]
        /\ UNCHANGED <<reports, act>>
    BY <1>i, <1>4, ServerAppliesFrame, Zenon
  <2>2. Phase[r] # "idle" /\ r \notin Written
    BY <1>i, <2>1, Zenon DEF ExchangeInv, Phase, Written
  <2>3. result[r] \notin {"Noop", "Unprocessable", "Ready", "Timeout"}
    BY <1>i, <2>1, Zenon DEF AnswerInv
  <2>4. landed'[r] # NotLanded
    BY <1>i, <2>1, ExchangeStep, Zenon DEF ExchangeInv
  <2>5. Written' = Written \cup {r}
    BY <2>1, <2>4, Zenon DEF Written
  <2>6. ASSUME NEW q \in Requests, q # r, NEW p, Confirms(p, q)'
        PROVE  Confirms(p, q)
    BY <2>1, <2>6, Zenon DEF Confirms
  <2>7. ConfirmedOnes' \subseteq ConfirmedOnes \cup {r}
    BY <2>1, <2>6, Zenon DEF ConfirmedOnes
  <2>8. ASSUME NEW q \in Requests, q # r, q \in DeletedOnes'
        PROVE  q \in DeletedOnes
    <3>1. landed[q] # NotLanded /\ landed'[q] = landed[q] /\ act[q].name \in Names
      BY <1>i, <2>1, <2>8, Zenon DEF DeletedOnes, Written, VersionInv, ApplyActions
    <3>2. \/ store'[act[q].name] = store[act[q].name]
          \/ ~store[act[q].name].exists
          \/ /\ store'[act[q].name].exists
             /\ store'[act[q].name].uid = store[act[q].name].uid
      BY <1>i, <1>4, <3>1, ApplyIncarnation, Zenon
    <3>3. QED
      BY <2>1, <2>8, <3>1, <3>2, Zenon DEF DeletedOnes, Written
  <2>9. SettledOnes' \subseteq SettledOnes \cup {r}
    <3>1. DeletedOnes' \subseteq Requests
      BY Zenon DEF DeletedOnes, Written
    <3>2. QED
      BY <2>7, <2>8, <3>1, Zenon DEF SettledOnes
  <2>10. QED
    BY <2>2, <2>3, <2>5, <2>9, Zenon
<1>5. ASSUME UNCHANGED landed
      PROVE  Written' = Written /\ SettledOnes' \subseteq Written
  BY <1>5, Zenon DEF Written, SettledOnes, ConfirmedOnes, DeletedOnes, Confirms
<1>6. landed' = landed \/ \E r \in Requests : ServerApplies(r)
  BY NextCases, ProcessExitsFacts, Zenon DEF clusterVars, Cluster, OperatorReads, OperatorWrites,
     OperatorGivesUp, DeleteCR, RejectPatch, EndStream
<1>7. QED
  BY <1>2, <1>3, <1>4, <1>5, <1>6, Zenon

(* The executor implements Provisioning: every answer means what the        *)
(* ResultKind comments promise, for all interleavings.                      *)
THEOREM PromisesKept == Spec => KeepsPromises
<1>1. Init => Promises!Init
  BY DEF Init, KubernetesInit, Promises!Init, Phase, Written, SettledOnes,
     ConfirmedOnes, DeletedOnes
<1>2. TypeOK /\ IndInv /\ (TypeOK /\ IndInv)' /\ [Next]_vars
        => [Promises!Next]_(Promises!vars)
  <2>1. SUFFICES ASSUME TypeOK, IndInv, TypeOK', IndInv', [Next]_vars
                 PROVE  [Promises!Next]_(Promises!vars)
    BY Zenon
  <2>2. ASSUME NEW r \in Requests, Step(r)
        PROVE  [Promises!Next]_(Promises!vars)
    <3>1. CASE UNCHANGED <<Phase, result>>
      BY <2>1, <2>2, <3>1, StepPromise, Zenon DEF Promises!vars
    <3>2. CASE /\ Phase[r] = "idle" /\ Phase' = [Phase EXCEPT ![r] = "open"]
               /\ result' = result
      <4>1. Promises!Accept(r)
        BY <2>1, <2>2, <3>2, StepPromise, Zenon DEF Promises!Accept
      <4>2. QED
        BY <4>1, Zenon DEF Promises!Next
    <3>3. ASSUME NEW kind \in ResultKinds,
                 Phase[r] # "answered",
                 kind \in {"Noop", "Unprocessable"} => r \notin Written,
                 kind = "Ready" => r \in SettledOnes,
                 kind = "Timeout" => r \in Written,
                 Phase' = [Phase EXCEPT ![r] = "answered"],
                 result' = [result EXCEPT ![r] = kind]
          PROVE  [Promises!Next]_(Promises!vars)
      <4>1. Promises!Answer(r, kind)
        BY <2>1, <2>2, <3>3, StepPromise, Zenon
        DEF Promises!Answer, Promises!NoEffect
      <4>2. kind \in Promises!Kinds
        BY Zenon DEF Promises!Kinds, ResultKinds
      <4>3. QED
        BY <4>1, <4>2, Zenon DEF Promises!Next
    <3>4. QED
      BY <2>1, <2>2, <3>1, <3>2, <3>3, StepPromise, Zenon
  <2>3. ASSUME ~\E r \in Requests : Step(r)
        PROVE  [Promises!Next]_(Promises!vars)
    <3>1. CASE Written' = Written /\ SettledOnes' \subseteq Written
      <4>1. /\ SettledOnes' \in SUBSET Written
            /\ SettledOnes' = SettledOnes \cup SettledOnes'
        BY <2>1, <2>3, <3>1, ClusterPromise, Zenon
      <4>2. Promises!Settle
        BY <2>1, <2>3, <3>1, <4>1, ClusterPromise, Zenon DEF Promises!Settle
      <4>3. QED
        BY <4>2, Zenon DEF Promises!Next
    <3>2. ASSUME NEW r \in Requests,
                 Phase[r] # "idle", r \notin Written,
                 result[r] \notin {"Noop", "Unprocessable", "Ready", "Timeout"},
                 Written' = Written \cup {r},
                 SettledOnes' \subseteq SettledOnes \cup {r}
          PROVE  [Promises!Next]_(Promises!vars)
      <4>1. SettledOnes' \in {SettledOnes, SettledOnes \cup {r}}
        <5>1. SettledOnes \subseteq SettledOnes'
          BY <2>1, <2>3, ClusterPromise, Zenon
        <5>2. QED
          BY <3>2, <5>1, Zenon
      <4>2. Promises!Write(r)
        BY <2>1, <2>3, <3>2, <4>1, ClusterPromise, Zenon
        DEF Promises!Write, Promises!NoEffect
      <4>3. QED
        BY <4>2, Zenon DEF Promises!Next
    <3>3. QED
      BY <2>1, <2>3, <3>1, <3>2, ClusterPromise, Zenon
  <2>4. QED
    BY <2>2, <2>3, Zenon
<1>3. QED
  BY <1>1, <1>2, Invariance, PTL DEF Spec, KeepsPromises, Promises!Spec

=============================================================================
