----------------------------- MODULE Kubernetes -----------------------------
(***************************************************************************)
(* The cluster as webhookd uses it: the API server holding the custom      *)
(* resources (CRs) of one namespace, the watch streams it serves, and the  *)
(* operator that reconciles CRs and writes their status.  None of this is  *)
(* code of the repository; it is modelled from the calls that              *)
(* internal/webhook/executor.go makes and from what it relies on:          *)
(*                                                                         *)
(*  - a server-side apply that changes the spec bumps metadata.generation, *)
(*    one that does not leaves it alone; both emit a watch event, because  *)
(*    the executor stamps new annotations on every apply;                  *)
(*  - a watch opened without a resourceVersion first lists every object of *)
(*    the namespace, then streams each change;                             *)
(*  - an apply already on the wire can land after its caller gave up;      *)
(*  - the operator reads an object, works, and later writes the status for *)
(*    the generation it READ, which may no longer be the current one.      *)
(***************************************************************************)
EXTENDS Naturals, Sequences, FiniteSets

CONSTANTS
    Requests,       \* webhook deliveries, each handled by one goroutine
    Names,          \* CR names of the namespace
    Specs,          \* CR specs
    None,           \* the missing name or spec
    MaxReconciles,  \* bound on the operator's reconciles
    MaxDeletions    \* bound on deletions of CRs by third parties

ASSUME KubernetesAssumption ==
    /\ None \notin Names \cup Specs
    /\ MaxReconciles \in Nat
    /\ MaxDeletions \in Nat

(* Names is finite, as far as a listing needs it: a set of names has a size. *)
ASSUME NamesAssumption == \A S \in SUBSET Names : Cardinality(S) \in Nat

(* Requests is finite, as far as counting deliveries needs it. *)
ASSUME RequestsAssumption ==
    /\ Cardinality({}) = 0
    /\ \A S \in SUBSET Requests :
         /\ Cardinality(S) \in Nat
         /\ \A r \in Requests \ S : Cardinality(S \cup {r}) = Cardinality(S) + 1

VARIABLES
    store,       \* Names -> the CR: uid counts incarnations, obs/ready are status
    wire,        \* Requests -> the state of its apply between client and server
    streams,     \* the requests whose watch is open
    events,      \* Requests -> watch events sent and not yet received
    operator,    \* Names -> what the operator read and is working on
    reconciles,  \* number of reconciles started
    deletions,   \* number of deletions
    landed,      \* Requests -> the object its apply made, the answer to it
    reports      \* history: every Ready=True status the operator wrote

clusterVars == <<store, wire, streams, events, operator, reconciles,
                 deletions, landed, reports>>

(***************************************************************************)
(* Failures the API server can answer with.  The executor tells them apart *)
(* with the apierrors.Is... predicates; "Other" is every error none of     *)
(* them recognises, such as NotFound or a cancelled context.               *)
(***************************************************************************)
ApiErrors == {"Forbidden", "Invalid", "ServerTimeout", "ServiceUnavailable",
              "TooManyRequests", "Conflict", "Other"}

\* A read never fails validation.
ReadErrors == ApiErrors \ {"Invalid"}

Absent == [exists |-> FALSE, uid |-> 0, gen |-> 0, spec |-> None,
           obs |-> 0, ready |-> FALSE]

CR == [exists : BOOLEAN, uid : Nat, gen : Nat, spec : Specs \cup {None},
       obs : Nat, ready : BOOLEAN]

\* A watch event: an object of the namespace, or the metav1.Status with
\* which the server announces that it is ending the stream.
Event(n, cr) == [object |-> TRUE, name |-> n, uid |-> cr.uid,
                 obs |-> cr.obs, ready |-> cr.ready]

StatusEvent == [object |-> FALSE, name |-> None, uid |-> 0, obs |-> 0,
                ready |-> FALSE]

Events == [object : BOOLEAN, name : Names \cup {None}, uid : Nat, obs : Nat,
           ready : BOOLEAN]

\* What an answer of the server says of a CR.
Objects == [uid : Nat, gen : Nat, obs : Nat, ready : BOOLEAN]

Object(cr) == [uid |-> cr.uid, gen |-> cr.gen, obs |-> cr.obs,
               ready |-> cr.ready]

NotLanded == [uid |-> 0, gen |-> 0, obs |-> 0, ready |-> FALSE]

Idle == [busy |-> FALSE, uid |-> 0, gen |-> 0, spec |-> None]

KubernetesTypeOK ==
    /\ store \in [Names -> CR]
    /\ wire \in [Requests -> {"none", "sent", "ok", "closed"} \cup ApiErrors]
    /\ streams \subseteq Requests
    /\ events \in [Requests -> Seq(Events)]
    /\ operator \in [Names -> [busy : BOOLEAN, uid : Nat, gen : Nat,
                               spec : Specs \cup {None}]]
    /\ reconciles \in Nat
    /\ deletions \in Nat
    /\ landed \in [Requests -> Objects]
    /\ reports \subseteq [name : Names, uid : Nat, gen : Nat,
                          spec : Specs \cup {None}]

KubernetesInit ==
    /\ store = [n \in Names |-> Absent]
    /\ wire = [r \in Requests |-> "none"]
    /\ streams = {}
    /\ events = [r \in Requests |-> <<>>]
    /\ operator = [n \in Names |-> Idle]
    /\ reconciles = 0
    /\ deletions = 0
    /\ landed = [r \in Requests |-> NotLanded]
    /\ reports = {}

(***************************************************************************)
(* The API server.                                                         *)
(***************************************************************************)
\* Every open watch receives the new state of the object.
Publish(n, cr) ==
    events' = [r \in Requests |->
                 IF r \in streams THEN Append(events[r], Event(n, cr))
                                  ELSE events[r]]

\* What a server-side apply of spec s makes of the CR cr.
Applied(cr, s) ==
    IF ~cr.exists
    THEN [exists |-> TRUE, uid |-> cr.uid + 1, gen |-> 1, spec |-> s,
          obs |-> 0, ready |-> FALSE]
    ELSE IF cr.spec = s THEN cr
    ELSE [exists |-> TRUE, uid |-> cr.uid, gen |-> cr.gen + 1, spec |-> s,
          obs |-> cr.obs, ready |-> cr.ready]

\* r's apply of spec s to n reaches the server, which accepts it.
LandPatch(r, n, s) ==
    /\ wire[r] = "sent"
    /\ LET cr == Applied(store[n], s)
       IN  /\ store' = [store EXCEPT ![n] = cr]
           /\ landed' = [landed EXCEPT ![r] = Object(cr)]
           /\ Publish(n, cr)
    /\ wire' = [wire EXCEPT ![r] = "ok"]
    /\ UNCHANGED <<streams, operator, reconciles, deletions, reports>>

\* ... or refuses it, and the CR is untouched.
RejectPatch(r) ==
    /\ wire[r] = "sent"
    /\ \E e \in ApiErrors : wire' = [wire EXCEPT ![r] = e]
    /\ UNCHANGED <<store, streams, events, operator, reconciles, deletions,
                   landed, reports>>

\* The synthetic ADDED events that open a watch: the objects of the
\* namespace, in an order the server chooses.
Listings ==
    LET present == {n \in Names : store[n].exists}
        orders == {f \in [1..Cardinality(present) -> present] :
                     \A n \in present : \E i \in DOMAIN f : f[i] = n}
    IN  {[i \in 1..Cardinality(present) |-> Event(f[i], store[f[i]])] :
           f \in orders}

\* The server is about to end r's stream and says so with a Status event.
EndStream(r) ==
    /\ r \in streams
    /\ streams' = streams \ {r}
    /\ events' = [events EXCEPT ![r] = Append(@, StatusEvent)]
    /\ UNCHANGED <<store, wire, operator, reconciles, deletions, landed, reports>>

(***************************************************************************)
(* The operator and other users of the cluster.                            *)
(***************************************************************************)
OperatorReads(n) ==
    /\ reconciles < MaxReconciles
    /\ ~operator[n].busy
    /\ store[n].exists
    /\ operator' = [operator EXCEPT ![n] =
         [busy |-> TRUE, uid |-> store[n].uid, gen |-> store[n].gen,
          spec |-> store[n].spec]]
    /\ reconciles' = reconciles + 1
    /\ UNCHANGED <<store, wire, streams, events, deletions, landed, reports>>

\* cr with the status of a reconcile of generation gen.
Observed(cr, gen, ok) ==
    [exists |-> cr.exists, uid |-> cr.uid, gen |-> cr.gen, spec |-> cr.spec,
     obs |-> gen, ready |-> ok]

\* The reconcile ends and its outcome becomes the status, with the
\* generation that was read as observedGeneration.
OperatorWrites(n, ok) ==
    /\ operator[n].busy
    /\ store[n].exists
    /\ store[n].uid = operator[n].uid
    /\ LET cr == Observed(store[n], operator[n].gen, ok)
       IN  /\ store' = [store EXCEPT ![n] = cr]
           /\ Publish(n, cr)
    /\ reports' = IF ok
                  THEN reports \cup {[name |-> n, uid |-> operator[n].uid,
                                      gen |-> operator[n].gen,
                                      spec |-> operator[n].spec]}
                  ELSE reports
    /\ operator' = [operator EXCEPT ![n] = Idle]
    /\ UNCHANGED <<wire, streams, reconciles, deletions, landed>>

\* The status write fails, or its object is gone.
OperatorGivesUp(n) ==
    /\ operator[n].busy
    /\ operator' = [operator EXCEPT ![n] = Idle]
    /\ UNCHANGED <<store, wire, streams, events, reconciles, deletions, landed,
                   reports>>

\* What is left of a CR: the count of its incarnations.
Deleted(cr) == [exists |-> FALSE, uid |-> cr.uid, gen |-> 0, spec |-> None,
                obs |-> 0, ready |-> FALSE]

\* Someone deletes the CR; its DELETED event carries its last state.
DeleteCR(n) ==
    /\ deletions < MaxDeletions
    /\ store[n].exists
    /\ store' = [store EXCEPT ![n] = Deleted(store[n])]
    /\ Publish(n, store[n])
    /\ deletions' = deletions + 1
    /\ UNCHANGED <<wire, streams, operator, reconciles, landed, reports>>

Cluster ==
    \/ \E n \in Names :
         \/ OperatorReads(n)
         \/ \E ok \in BOOLEAN : OperatorWrites(n, ok)
         \/ OperatorGivesUp(n)
         \/ DeleteCR(n)
    \/ \E r \in Requests : RejectPatch(r) \/ EndStream(r)

=============================================================================
