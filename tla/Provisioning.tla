---------------------------- MODULE Provisioning ----------------------------
(***************************************************************************)
(* What webhookd promises the sender of a delivery, with the cluster       *)
(* reduced to two facts: a delivery's custom resource (CR) was written, and *)
(* the write is settled, because the operator confirmed it or because the  *)
(* CR it made was deleted since.  The promises are the guards of Answer    *)
(* and of Write, taken from the ResultKind comments in                     *)
(* internal/webhook/result.go: what may be concluded from each answer.     *)
(***************************************************************************)
CONSTANTS Requests, None

VARIABLES
    phase,      \* Requests -> "idle", "open" or "answered"
    written,    \* the deliveries whose CR write took effect
    settled,    \* the written deliveries confirmed, or deleted, since
    answer      \* Requests -> the answer, None before it

vars == <<phase, written, settled, answer>>

Kinds == {"Noop", "Ready", "TransientFailure", "Unprocessable",
          "InternalError", "Timeout"}

\* The answers that rule out any effect, now or later.
NoEffect == {"Noop", "Unprocessable"}

TypeOK ==
    /\ phase \in [Requests -> {"idle", "open", "answered"}]
    /\ written \subseteq Requests
    /\ settled \subseteq written
    /\ answer \in [Requests -> Kinds \cup {None}]

Init ==
    /\ phase = [r \in Requests |-> "idle"]
    /\ written = {}
    /\ settled = {}
    /\ answer = [r \in Requests |-> None]

Accept(r) ==
    /\ phase[r] = "idle"
    /\ phase' = [phase EXCEPT ![r] = "open"]
    /\ UNCHANGED <<written, settled, answer>>

\* The write takes effect, at most once, possibly after an answer that
\* leaves the outcome open.  A write that changes nothing of a confirmed CR
\* is settled at once.
Write(r) ==
    /\ phase[r] # "idle"
    /\ r \notin written
    /\ answer[r] \notin NoEffect \cup {"Ready", "Timeout"}
    /\ written' = written \cup {r}
    /\ settled' \in {settled, settled \cup {r}}
    /\ UNCHANGED <<phase, answer>>

Settle ==
    /\ \E S \in SUBSET written : settled' = settled \cup S
    /\ UNCHANGED <<phase, written, answer>>

Answer(r, kind) ==
    /\ phase[r] # "answered"
    /\ kind \in NoEffect => r \notin written
    /\ kind = "Ready" => r \in settled
    /\ kind = "Timeout" => r \in written
    /\ phase' = [phase EXCEPT ![r] = "answered"]
    /\ answer' = [answer EXCEPT ![r] = kind]
    /\ UNCHANGED <<written, settled>>

Next ==
    \/ \E r \in Requests :
         \/ Accept(r)
         \/ Write(r)
         \/ \E kind \in Kinds : Answer(r, kind)
    \/ Settle

Spec == Init /\ [][Next]_vars

=============================================================================
