----------------------------- MODULE Dispatcher -----------------------------
(***************************************************************************)
(* internal/webhook/dispatcher.go: one delivery from its arrival at the    *)
(* handler to the response, with the JSM provider (module JSM) deciding    *)
(* what to do and the executor doing it.  The executor is represented by   *)
(* what it promises (module Provisioning, which Executor implements): its  *)
(* answer, and a write that can still take effect after some answers.      *)
(***************************************************************************)
EXTENDS JSM, FiniteSets

CONSTANTS
    Requests,   \* deliveries
    Deliveries, \* what may be delivered
    Ids,        \* request and trace ids
    None        \* no answer yet

\* The provider named by the path, how the body could be read, whether
\* VerifySignature accepts it, the body, and the ids in its context.
DeliveryType == [provider : {"jsm", "unknown"},
                 read : {"whole", "too large", "broken off"},
                 verified : BOOLEAN,
                 body : Bodies,
                 requestID : Ids, traceID : Ids]

ASSUME DispatcherAssumption ==
    /\ Deliveries \subseteq DeliveryType
    /\ IsFiniteSet(Requests)

VARIABLES
    delivery,       \* Requests -> what was delivered
    stage,          \* Requests -> where ServeHTTP is
    decided,        \* Requests -> what Handle returned
    status,         \* Requests -> the HTTP status sent, 0 before
    reply,          \* Requests -> the status word of the JSON body, or "text"
    noopTotal,      \* webhookd_jsm_noop_total
    parseErrors,    \* webhookd_jsm_payload_parse_errors_total by reason
    responseTotal,  \* webhookd_jsm_response_total by status
    phase, written, settled, answer,  \* the executor: see Provisioning
    stored          \* CR name -> what webhookd owns of the CR, None if absent

dispatcherVars == <<delivery, stage, decided, status, reply, noopTotal,
                    parseErrors, responseTotal>>
executorVars == <<phase, written, settled, answer>>
vars == <<dispatcherVars, executorVars, stored>>

Exec == INSTANCE Provisioning WITH Requests <- Requests, None <- None

CRNames == {CRName(k) : k \in Keys}

Statuses == {200, 400, 401, 404, 413, 422, 500, 503, 504}

TypeOK ==
    /\ delivery \in [Requests -> Deliveries]
    /\ stage \in [Requests -> {"route", "body", "verify", "handle", "execute", "done"}]
    /\ DOMAIN decided = Requests
    /\ status \in [Requests -> Statuses \cup {0}]
    /\ reply \in [Requests -> {"none", "text", "success", "noop", "failure"}]
    /\ noopTotal \in Nat
    /\ parseErrors \in [ParseReasons -> Nat]
    /\ responseTotal \in [Statuses -> Nat]
    /\ Exec!TypeOK
    /\ DOMAIN stored = CRNames

Init ==
    /\ delivery \in [Requests -> Deliveries]
    /\ stage = [r \in Requests |-> "route"]
    /\ decided = [r \in Requests |-> Undecided]
    /\ status = [r \in Requests |-> 0]
    /\ reply = [r \in Requests |-> "none"]
    /\ noopTotal = 0
    /\ parseErrors = [x \in ParseReasons |-> 0]
    /\ responseTotal = [s \in Statuses |-> 0]
    /\ Exec!Init
    /\ stored = [n \in CRNames |-> None]

Goto(r, label) == stage' = [stage EXCEPT ![r] = label]

\* http.Error: a plain-text response, not counted by the dispatcher.
Error(r, code) ==
    /\ Goto(r, "done")
    /\ status' = [status EXCEPT ![r] = code]
    /\ reply' = [reply EXCEPT ![r] = "text"]
    /\ UNCHANGED <<decided, noopTotal, parseErrors, responseTotal>>

\* Mutant: a sync that ran into its deadline is the sender's fault.
HTTPStatusTimeout422(kind) ==
    IF kind \in {"Noop", "Ready"} THEN 200
    ELSE IF kind = "BadRequest" THEN 400
    ELSE IF kind \in {"Unprocessable", "Timeout"} THEN 422
    ELSE IF kind = "TransientFailure" THEN 503 ELSE 500

\* result.go
HTTPStatus(kind) ==
    IF kind \in {"Noop", "Ready"} THEN 200
    ELSE IF kind = "BadRequest" THEN 400
    ELSE IF kind = "Unprocessable" THEN 422
    ELSE IF kind = "TransientFailure" THEN 503
    ELSE IF kind = "Timeout" THEN 504 ELSE 500

classifyProviderErr(e) ==
    IF e = "ErrBadRequest" THEN "BadRequest"
    ELSE IF e = "ErrUnprocessable" THEN "Unprocessable" ELSE "InternalError"

\* Mutant: the counter is labelled before the status is mapped.
writeResponseMiscounted(r, kind) ==
    /\ Goto(r, "done")
    /\ status' = [status EXCEPT ![r] = HTTPStatus(kind)]
    /\ reply' = [reply EXCEPT ![r] = Build(kind)]
    /\ responseTotal' = [responseTotal EXCEPT ![200] = @ + 1]

writeResponse(r, kind) ==
    /\ Goto(r, "done")
    /\ status' = [status EXCEPT ![r] = HTTPStatus(kind)]
    /\ reply' = [reply EXCEPT ![r] = Build(kind)]
    /\ responseTotal' = [responseTotal EXCEPT ![HTTPStatus(kind)] = @ + 1]

(***************************************************************************)
(* ServeHTTP                                                               *)
(***************************************************************************)
Route(r) ==
    /\ stage[r] = "route"
    /\ \/ /\ delivery[r].provider = "jsm"
          /\ Goto(r, "body")
          /\ UNCHANGED <<decided, status, reply, noopTotal, parseErrors, responseTotal>>
       \/ delivery[r].provider = "unknown" /\ Error(r, 404)
    /\ UNCHANGED <<delivery, executorVars, stored>>

ReadBody(r) ==
    /\ stage[r] = "body"
    /\ \/ /\ delivery[r].read = "whole"
          /\ Goto(r, "verify")
          /\ UNCHANGED <<decided, status, reply, noopTotal, parseErrors, responseTotal>>
       \/ delivery[r].read = "too large" /\ Error(r, 413)
       \/ delivery[r].read = "broken off" /\ Error(r, 400)
    /\ UNCHANGED <<delivery, executorVars, stored>>

\* Mutant: the outcome of VerifySignature is not looked at.
VerifySignatureIgnored(r) ==
    /\ stage[r] = "verify"
    /\ Goto(r, "handle")
    /\ UNCHANGED <<delivery, decided, status, reply, noopTotal, parseErrors,
                   responseTotal, executorVars, stored>>

VerifySignature(r) ==
    /\ stage[r] = "verify"
    /\ \/ /\ delivery[r].verified
          /\ Goto(r, "handle")
          /\ UNCHANGED <<decided, status, reply, noopTotal, parseErrors, responseTotal>>
       \/ ~delivery[r].verified /\ Error(r, 401)
    /\ UNCHANGED <<delivery, executorVars, stored>>

\* recordNoop and recordParseErr
Record(counted) ==
    /\ noopTotal' = noopTotal + (IF counted = "noop" THEN 1 ELSE 0)
    /\ parseErrors' = [x \in ParseReasons |->
                         parseErrors[x] + (IF counted = x THEN 1 ELSE 0)]

\* prov.Handle, and the response to its error.
CallHandle(r) ==
    /\ stage[r] = "handle"
    /\ LET h == Handle(delivery[r].body)
       IN  /\ decided' = [decided EXCEPT ![r] = h]
           /\ Record(h.counted)
           /\ \/ /\ h.error = "nil"
                 /\ Goto(r, "execute")
                 /\ UNCHANGED <<status, reply, responseTotal>>
              \/ h.error # "nil" /\ writeResponse(r, classifyProviderErr(h.error))
    /\ UNCHANGED <<delivery, executorVars, stored>>

\* executor.Execute of a NoopAction returns at once.
ExecuteNoop(r) ==
    /\ stage[r] = "execute"
    /\ decided[r].action = "noop"
    /\ Exec!Answer(r, "Noop")
    /\ writeResponse(r, "Noop")
    /\ UNCHANGED <<delivery, decided, noopTotal, parseErrors, stored>>

\* executor.Execute of an ApplyAction begins, and returns.
ExecuteApply(r) ==
    /\ stage[r] = "execute"
    /\ decided[r].action = "apply"
    /\ Exec!Accept(r)
    /\ UNCHANGED <<dispatcherVars, stored>>

ExecuteReturns(r) ==
    /\ stage[r] = "execute"
    /\ phase[r] = "open"
    /\ \E kind \in Exec!Kinds \ {"Noop"} :
         Exec!Answer(r, kind) /\ writeResponse(r, kind)
    /\ UNCHANGED <<delivery, decided, noopTotal, parseErrors, stored>>

(***************************************************************************)
(* executor.go: the labels and annotations that apply puts on the object.  *)
(***************************************************************************)
systemLabels(source) == [managedBy |-> "webhookd", source |-> source]

\* The time of the apply is left out.  Both ids are always there: RequestID
\* comes before the dispatcher, and an unsampled span has a trace id, too.
systemAnnotations(d) == [requestID |-> d.requestID, traceID |-> d.traceID]

\* Mutant: what the provider put there is replaced.
mergeExecutorOnly(provider, executor) == executor

\* mergeLabels and mergeAnnotations: the executor's entries win.
merge(provider, executor) ==
    [k \in DOMAIN provider \cup DOMAIN executor |->
       IF k \in DOMAIN executor THEN executor[k] ELSE provider[k]]

Applied(r) ==
    [spec |-> decided[r].spec,
     labels |-> merge(<<>>, systemLabels("jsm")),
     annotations |-> merge(decided[r].annotations, systemAnnotations(delivery[r]))]

(***************************************************************************)
(* The cluster, as far as the executor's promises tell: a write replaces   *)
(* everything webhookd owns of a CR, and anyone may delete it.             *)
(***************************************************************************)
Effect ==
    /\ \/ Exec!Settle /\ UNCHANGED stored
       \/ \E r \in Requests :
            Exec!Write(r) /\ stored' = [stored EXCEPT ![decided[r].name] = Applied(r)]
       \/ /\ \E n \in CRNames : stored' = [stored EXCEPT ![n] = None]
          /\ UNCHANGED executorVars
    /\ UNCHANGED dispatcherVars

Handler(r) ==
    \/ Route(r) \/ ReadBody(r) \/ VerifySignature(r) \/ CallHandle(r)
    \/ ExecuteNoop(r) \/ ExecuteApply(r) \/ ExecuteReturns(r)

Next == (\E r \in Requests : Handler(r)) \/ Effect

Spec == Init /\ [][Next]_vars

(***************************************************************************)
(* Properties                                                              *)
(***************************************************************************)
\* The ticket of a body asks for provisioning.
Complete(body) ==
    /\ body.json = "object" /\ body.issue = "object"
    /\ body.key \in Keys
    /\ body.status = TriggerStatus
    /\ \A f \in Fields : body.fields[f] \in Strings

(* A CR is written, at whatever moment between the call and long after the  *)
(* response, only for a delivery to the enabled provider that was read to   *)
(* the end, verified, in the trigger status and complete; and it is the CR  *)
(* of that ticket, holding its three values without surrounding space.      *)
EffectWarranted ==
    \A r \in written :
      LET d == delivery[r]
          wanted == decided[r]
      IN  /\ d.provider = "jsm" /\ d.read = "whole" /\ d.verified
          /\ Complete(d.body)
          /\ wanted.name = CRName(d.body.key)
          /\ \A f \in Fields :
               /\ wanted.spec.mapping[f] \in Values
               /\ d.body.fields[f] \in {wanted.spec.mapping[f],
                                          Padded[wanted.spec.mapping[f]]}

(* Whatever CR of webhookd is found in the cluster, at any moment and after *)
(* whatever deliveries for the same or other tickets, its annotations lead  *)
(* to the delivery that wrote its spec: the issue key, the request id and   *)
(* the trace id are all of one delivery, and the spec is what that one      *)
(* asked for.                                                               *)
StampsTraceable ==
    \A n \in CRNames : stored[n] # None =>
      /\ stored[n].labels.managedBy = "webhookd"
      /\ \E r \in written :
           /\ CRName(delivery[r].body.key) = n
           /\ stored[n].spec = BuildSpec(delivery[r].body)
           /\ stored[n].labels.source = delivery[r].provider
           /\ stored[n].annotations = [issueKey |-> delivery[r].body.key,
                                       requestID |-> delivery[r].requestID,
                                       traceID |-> delivery[r].traceID]

(* What the sender can conclude from the response stays true: "success"     *)
(* means that the write is settled, 504 that the CR was applied, and after  *)
(* any 4xx or "noop" nothing was or will be written.  The status word and   *)
(* the status code never disagree.                                          *)
ResponseTruthful ==
    \A r \in Requests :
      /\ reply[r] = "success" => r \in settled
      /\ status[r] = 504 => r \in written
      /\ status[r] \in 400..499 \/ reply[r] = "noop" => r \notin written
      /\ reply[r] \in {"success", "noop"} <=> status[r] = 200

\* The requests by what was sent, and the noops about to be answered.
SentWith(s) == {r \in Requests : stage[r] = "done" /\ status[r] = s /\ reply[r] # "text"}
RefusedByHandle ==
    {r \in Requests : stage[r] = "done" /\ reply[r] = "failure" /\ phase[r] = "idle"}
NoopsSent == {r \in Requests : stage[r] = "done" /\ reply[r] = "noop"}
NoopsDue == {r \in Requests : stage[r] = "execute" /\ decided[r].action = "noop"}

(* The counters agree with the responses: webhookd_jsm_response_total has   *)
(* one increment for each JSON response under the status that was sent, the *)
(* parse errors are the failures the executor never saw, and a noop counted *)
(* is a noop answered or about to be.                                       *)
CountersAddUp ==
    /\ \A s \in Statuses : responseTotal[s] = Cardinality(SentWith(s))
    /\ parseErrors["invalid_json"] + parseErrors["missing_field"]
         + parseErrors["empty_field"] + parseErrors["wrong_type"]
         = Cardinality(RefusedByHandle)
    /\ noopTotal = Cardinality(NoopsSent) + Cardinality(NoopsDue)

(***************************************************************************)
(* The inductive invariant behind them.                                    *)
(***************************************************************************)
\* What is known of a delivery that got as far as each stage.
Routed(r) == delivery[r].provider = "jsm"
Read(r) == Routed(r) /\ delivery[r].read = "whole"
Verified(r) == Read(r) /\ delivery[r].verified
Decided(r) == Verified(r) /\ decided[r] = Handle(delivery[r].body)
ToApply(r) == Decided(r) /\ decided[r].action = "apply"

\* A request only passes a stage of ServeHTTP by meeting its condition, and
\* nothing but an ApplyAction, or the answer to a NoopAction, is the executor's.
Flow(r) ==
    /\ stage[r] = "body" => Routed(r)
    /\ stage[r] = "verify" => Read(r)
    /\ stage[r] = "handle" => Verified(r)
    /\ stage[r] = "execute" => Decided(r)
    /\ phase[r] = "open" => ToApply(r)
    /\ phase[r] # "idle" => ToApply(r) \/ answer[r] = "Noop"
    /\ phase[r] # "idle" => stage[r] \in {"execute", "done"}
    /\ r \in written => ToApply(r) /\ phase[r] # "idle"

FlowInv == \A r \in Requests : Flow(r)

\* The statuses of the responses that are sent without asking the executor.
Declines == {400, 401, 404, 413, 422, 500}

\* What was sent is the executor's answer, or a refusal before it was asked;
\* and the answer is one the executor was allowed to give.
Sent(r) ==
    /\ stage[r] # "done" => status[r] = 0 /\ reply[r] = "none" /\ phase[r] # "answered"
    /\ stage[r] = "done" => phase[r] # "open"
    /\ stage[r] = "done" /\ phase[r] = "idle" =>
         status[r] \in Declines /\ reply[r] \in {"text", "failure"}
    /\ phase[r] = "answered" =>
         /\ answer[r] \in Exec!Kinds
         /\ status[r] = HTTPStatus(answer[r]) /\ reply[r] = Build(answer[r])
         /\ answer[r] = "Ready" => r \in settled
         /\ answer[r] = "Timeout" => r \in written
         /\ answer[r] \in Exec!NoEffect => r \notin written

SentInv == \A r \in Requests : Sent(r)

\* A CR in the cluster is, in all parts, what one write put there.
StampInv ==
    \A n \in CRNames : stored[n] # None =>
      \E r \in written : decided[r].name = n /\ stored[n] = Applied(r)

(* No stage of ServeHTTP is passed without its check, no response promises  *)
(* what the executor did not answer, and no CR mixes two deliveries.        *)
DeliveryInv == FlowInv /\ SentInv /\ StampInv

=============================================================================
