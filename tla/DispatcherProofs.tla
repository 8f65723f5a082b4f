-------------------------- MODULE DispatcherProofs --------------------------
(***************************************************************************)
(* The dispatcher for any number of deliveries of any bodies.              *)
(***************************************************************************)
EXTENDS Dispatcher, FiniteSetTheorems, TLAPS

(* extract.go: a field without an extraction error is a string, and what    *)
(* ExtractString returns is that string without the space around it.        *)
LEMMA ExtractFacts ==
    ASSUME NEW body \in Bodies, NEW f \in Fields, ExtractErr(body, f) = "ok"
    PROVE  /\ body.fields[f] \in Strings
           /\ ExtractString(body, f) \in Values
           /\ body.fields[f] \in {ExtractString(body, f), Padded[ExtractString(body, f)]}
<1>1. body.fields[f] \in FieldForms
  BY DEF Bodies
<1>2. body.fields[f] \in Strings
  BY <1>1 DEF ExtractErr, FieldForms
<1>3. PICK s : s = body.fields[f]
  OBVIOUS
<1>4. \E v \in Values : s \in {v, Padded[v]}
  BY <1>2, <1>3 DEF Strings
<1>5. Trim(s) \in Values /\ s \in {Trim(s), Padded[Trim(s)]}
  BY <1>4, Zenon DEF Trim
<1> QED
  BY <1>2, <1>3, <1>5 DEF ExtractString

(* provider.go: Handle returns an ApplyAction only for a complete ticket in *)
(* the trigger status, and the action carries the ticket's CR.              *)
LEMMA HandleFacts ==
    ASSUME NEW body \in Bodies, Handle(body).action = "apply"
    PROVE  Complete(body) /\ Handle(body) = Apply(body)
           /\ \A f \in Fields : ExtractErr(body, f) = "ok"
<1>1. Decode(body) = "ok"
  BY DEF Handle, Refuse
<1>2. body.status = TriggerStatus
  BY <1>1 DEF Handle, Noop
<1>3. Handle(body) = HandleTriggered(body)
  BY <1>1, <1>2 DEF Handle
<1>4. FirstBadField(body) = 0
  BY <1>3 DEF HandleTriggered, Refuse
<1>5. Handle(body) = Apply(body)
  BY <1>3, <1>4 DEF HandleTriggered
<1>6. \A i \in 1..3 : ExtractErr(body, FieldOrder[i]) = "ok"
  <2> DEFINE bad == {i \in 1..3 : ExtractErr(body, FieldOrder[i]) # "ok"}
             first == CHOOSE i \in bad : \A j \in bad : i <= j
  <2>1. SUFFICES ASSUME bad # {} PROVE FALSE
    OBVIOUS
  <2>2. \E i \in bad : \A j \in bad : i <= j
    <3>1. CASE 1 \in bad
      BY <3>1
    <3>2. CASE 1 \notin bad /\ 2 \in bad
      BY <3>2
    <3>3. CASE 1 \notin bad /\ 2 \notin bad
      BY <3>3, <2>1
    <3> QED
      BY <3>1, <3>2, <3>3
  <2>3. first \in bad
    BY <2>2, Zenon
  <2>4. first = 0
    <3>1. (IF bad = {} THEN 0 ELSE first) = 0
      BY <1>4, Zenon DEF FirstBadField
    <3> QED
      BY <3>1, <2>1
  <2>5. 0 \in bad
    BY <2>3, <2>4, Zenon
  <2> QED
    BY <2>5
<1>7. \A f \in Fields : ExtractErr(body, f) = "ok"
  BY <1>6 DEF Fields
<1>8. body.json = "object" /\ body.issue = "object" /\ body.key \in Keys
  BY <1>1 DEF Decode, Bodies
<1>9. \A f \in Fields : body.fields[f] \in Strings
  BY <1>7, ExtractFacts, Zenon
<1> QED
  BY <1>2, <1>5, <1>7, <1>8, <1>9, Zenon DEF Complete

(* result.go and response.go: whatever the kind of the result, the status   *)
(* code is one of those the counter is labelled with, and 200 goes with     *)
(* "success" and "noop" alone.                                              *)
LEMMA ResponseFacts ==
    ASSUME NEW kind
    PROVE  /\ HTTPStatus(kind) \in Statuses
           /\ Build(kind) \in {"success", "noop", "failure"}
           /\ Build(kind) \in {"success", "noop"} <=> HTTPStatus(kind) = 200
           /\ Build(kind) = "success" <=> kind = "Ready"
           /\ Build(kind) = "noop" <=> kind = "Noop"
           /\ HTTPStatus(kind) = 504 <=> kind = "Timeout"
           /\ HTTPStatus(kind) \in 400..499 => kind \in {"BadRequest", "Unprocessable"}
BY DEF HTTPStatus, Build, Statuses

-----------------------------------------------------------------------------
(* What one step does, request by request.                                  *)

Same(q) ==
    /\ stage'[q] = stage[q] /\ decided'[q] = decided[q]
    /\ status'[q] = status[q] /\ reply'[q] = reply[q]
    /\ phase'[q] = phase[q] /\ answer'[q] = answer[q]

\* A check of ServeHTTP is passed ...
Passes(r) ==
    /\ \/ stage[r] = "route" /\ stage'[r] = "body" /\ delivery[r].provider = "jsm"
       \/ stage[r] = "body" /\ stage'[r] = "verify" /\ delivery[r].read = "whole"
       \/ stage[r] = "verify" /\ stage'[r] = "handle" /\ delivery[r].verified
    /\ decided'[r] = decided[r] /\ status'[r] = status[r] /\ reply'[r] = reply[r]
    /\ phase'[r] = phase[r] /\ answer'[r] = answer[r]
    /\ UNCHANGED <<noopTotal, parseErrors, responseTotal>>

\* ... or not.
Refusals == {400, 401, 404, 413}
Refused(r) ==
    /\ stage[r] \in {"route", "body", "verify"} /\ stage'[r] = "done"
    /\ status'[r] \in Refusals /\ reply'[r] = "text"
    /\ decided'[r] = decided[r] /\ phase'[r] = phase[r] /\ answer'[r] = answer[r]
    /\ UNCHANGED <<noopTotal, parseErrors, responseTotal>>

Sends(r, kind) ==
    /\ stage'[r] = "done"
    /\ status'[r] = HTTPStatus(kind) /\ reply'[r] = Build(kind)
    /\ responseTotal' = [responseTotal EXCEPT ![HTTPStatus(kind)] = @ + 1]

Handled(r, h) ==
    /\ stage[r] = "handle"
    /\ h = Handle(delivery[r].body) /\ decided'[r] = h
    /\ Record(h.counted)
    /\ \/ /\ h.error = "nil" /\ stage'[r] = "execute"
          /\ status'[r] = status[r] /\ reply'[r] = reply[r] /\ UNCHANGED responseTotal
       \/ h.error # "nil" /\ Sends(r, classifyProviderErr(h.error))
    /\ phase'[r] = phase[r] /\ answer'[r] = answer[r]

Accepted(r) ==
    /\ stage[r] = "execute" /\ decided[r].action = "apply"
    /\ phase[r] = "idle" /\ phase'[r] = "open"
    /\ stage'[r] = stage[r] /\ decided'[r] = decided[r]
    /\ status'[r] = status[r] /\ reply'[r] = reply[r] /\ answer'[r] = answer[r]
    /\ UNCHANGED <<noopTotal, parseErrors, responseTotal>>

AnswerSent(r, kind) ==
    /\ stage[r] = "execute" /\ phase[r] # "answered"
    /\ \/ kind = "Noop" /\ decided[r].action = "noop"
       \/ kind # "Noop" /\ phase[r] = "open"
    /\ kind \in Exec!NoEffect => r \notin written
    /\ kind = "Ready" => r \in settled
    /\ kind = "Timeout" => r \in written
    /\ phase'[r] = "answered" /\ answer'[r] = kind /\ decided'[r] = decided[r]
    /\ Sends(r, kind)
    /\ UNCHANGED <<noopTotal, parseErrors>>

Moves(r) ==
    /\ delivery' = delivery /\ written' = written
    /\ settled' = settled /\ stored' = stored
    /\ \A q \in Requests \ {r} : Same(q)
    /\ \/ Passes(r) \/ Refused(r) \/ Accepted(r)
       \/ \E h : Handled(r, h)
       \/ \E kind \in Exec!Kinds : AnswerSent(r, kind)

\* The domains, which is all of TypeOK that the moves depend on.
Domains ==
    /\ DOMAIN stage = Requests /\ DOMAIN decided = Requests
    /\ DOMAIN status = Requests /\ DOMAIN reply = Requests
    /\ DOMAIN phase = Requests /\ DOMAIN answer = Requests

(* What the types say of the domains.                                       *)
LEMMA DomainsOf == TypeOK => Domains
  BY DEF TypeOK, Exec!TypeOK, Domains

(* http.Error ends the one request.                                         *)
LEMMA ErrorMoves ==
    ASSUME Domains, NEW r \in Requests, NEW code, Error(r, code),
           UNCHANGED <<phase, answer>>
    PROVE  /\ stage'[r] = "done" /\ status'[r] = code /\ reply'[r] = "text"
           /\ \A q \in Requests \ {r} : Same(q)
           /\ UNCHANGED <<decided, noopTotal, parseErrors, responseTotal>>
  BY Zenon DEF Domains, Error, Goto, Same

(* writeResponse ends the one request.                                      *)
LEMMA SendMoves ==
    ASSUME Domains, NEW r \in Requests, NEW kind, writeResponse(r, kind)
    PROVE  /\ Sends(r, kind)
           /\ \A q \in Requests \ {r} : /\ stage'[q] = stage[q]
                                        /\ status'[q] = status[q] /\ reply'[q] = reply[q]
  BY Zenon DEF Domains, writeResponse, Goto, Sends

(* Going on to the next stage moves the one request.                        *)
LEMMA GotoMoves ==
    ASSUME Domains, NEW r \in Requests, NEW label, Goto(r, label),
           UNCHANGED <<decided, status, reply, phase, answer>>
    PROVE  stage'[r] = label /\ \A q \in Requests \ {r} : Same(q)
  BY Zenon DEF Domains, Goto, Same

(* The handler of a request changes nothing of the others, and no step of   *)
(* it writes to the cluster.                                                *)
LEMMA HandlerMoves ==
    ASSUME Domains, NEW r \in Requests, Handler(r)
    PROVE  Moves(r)
<1>1. ASSUME NEW label, stage[r] \in {"route", "body", "verify"}, Goto(r, label),
             \/ stage[r] = "route" /\ label = "body" /\ delivery[r].provider = "jsm"
             \/ stage[r] = "body" /\ label = "verify" /\ delivery[r].read = "whole"
             \/ stage[r] = "verify" /\ label = "handle" /\ delivery[r].verified,
             UNCHANGED <<decided, status, reply, noopTotal, parseErrors, responseTotal>>,
             UNCHANGED <<delivery, executorVars, stored>>
      PROVE  Moves(r)
  <2>1. UNCHANGED <<phase, written, settled, answer>>
    BY <1>1, Zenon DEF executorVars
  <2>2. stage'[r] = label /\ \A q \in Requests \ {r} : Same(q)
    BY <1>1, <2>1, GotoMoves, Zenon
  <2>3. Passes(r)
    BY <1>1, <2>1, <2>2, Zenon DEF Passes
  <2> QED
    BY <1>1, <2>1, <2>2, <2>3, Zenon DEF Moves
<1>2. ASSUME NEW code \in Refusals, stage[r] \in {"route", "body", "verify"},
             Error(r, code), UNCHANGED <<delivery, executorVars, stored>>
      PROVE  Moves(r)
  <2>1. UNCHANGED <<phase, written, settled, answer>>
    BY <1>2, Zenon DEF executorVars
  <2>2. /\ stage'[r] = "done" /\ status'[r] = code /\ reply'[r] = "text"
        /\ \A q \in Requests \ {r} : Same(q)
        /\ UNCHANGED <<decided, noopTotal, parseErrors, responseTotal>>
    BY <1>2, <2>1, ErrorMoves, Zenon
  <2>3. Refused(r)
    BY <1>2, <2>1, <2>2, Zenon DEF Refused
  <2> QED
    BY <1>2, <2>1, <2>2, <2>3, Zenon DEF Moves
<1>3. CASE Route(r)
  BY <1>1, <1>2, <1>3 DEF Route, Refusals
<1>4. CASE ReadBody(r)
  <2>1. stage[r] = "body" /\ UNCHANGED <<delivery, executorVars, stored>>
    BY <1>4, Zenon DEF ReadBody
  <2>2. \/ /\ delivery[r].read = "whole" /\ Goto(r, "verify")
           /\ UNCHANGED <<decided, status, reply, noopTotal, parseErrors, responseTotal>>
        \/ Error(r, 413)
        \/ Error(r, 400)
    BY <1>4, Zenon DEF ReadBody
  <2>3. 413 \in Refusals /\ 400 \in Refusals
    BY DEF Refusals
  <2> QED
    BY <1>1, <1>2, <2>1, <2>2, <2>3
<1>5. CASE VerifySignature(r)
  BY <1>1, <1>2, <1>5 DEF VerifySignature, Refusals
<1>6. CASE CallHandle(r)
  <2>1. PICK h : h = Handle(delivery[r].body)
    OBVIOUS
  <2>2. /\ stage[r] = "handle" /\ decided' = [decided EXCEPT ![r] = h]
        /\ Record(h.counted)
        /\ \/ h.error = "nil" /\ Goto(r, "execute") /\ UNCHANGED <<status, reply, responseTotal>>
           \/ h.error # "nil" /\ writeResponse(r, classifyProviderErr(h.error))
        /\ UNCHANGED <<delivery, phase, written, settled, answer, stored>>
    BY <1>6, <2>1, Zenon DEF CallHandle, executorVars
  <2>3. decided'[r] = h /\ \A q \in Requests \ {r} : decided'[q] = decided[q]
    BY <2>2, Zenon DEF Domains
  <2>4. CASE h.error = "nil" /\ Goto(r, "execute") /\ UNCHANGED <<status, reply, responseTotal>>
    <3>1. stage'[r] = "execute" /\ \A q \in Requests \ {r} : stage'[q] = stage[q]
      BY <2>4, Zenon DEF Goto, Domains
    <3>2. Handled(r, h)
      BY <2>1, <2>2, <2>3, <2>4, <3>1, Zenon DEF Handled
    <3> QED
      BY <2>2, <2>3, <2>4, <3>1, <3>2, Zenon DEF Moves, Same
  <2>5. CASE h.error # "nil" /\ writeResponse(r, classifyProviderErr(h.error))
    <3>1. /\ Sends(r, classifyProviderErr(h.error))
          /\ \A q \in Requests \ {r} : /\ stage'[q] = stage[q]
                                       /\ status'[q] = status[q] /\ reply'[q] = reply[q]
      BY <2>5, SendMoves, Zenon
    <3>2. Handled(r, h)
      BY <2>1, <2>2, <2>3, <2>5, <3>1, Zenon DEF Handled
    <3> QED
      BY <2>2, <2>3, <3>1, <3>2, Zenon DEF Moves, Same
  <2> QED
    BY <2>2, <2>4, <2>5, Zenon
<1>7. ASSUME NEW kind \in Exec!Kinds, stage[r] = "execute",
             \/ kind = "Noop" /\ decided[r].action = "noop"
             \/ kind # "Noop" /\ phase[r] = "open",
             Exec!Answer(r, kind), writeResponse(r, kind),
             UNCHANGED <<delivery, decided, noopTotal, parseErrors, stored>>
      PROVE  Moves(r)
  <2>1. /\ Sends(r, kind)
        /\ \A q \in Requests \ {r} : /\ stage'[q] = stage[q]
                                     /\ status'[q] = status[q] /\ reply'[q] = reply[q]
    BY <1>7, SendMoves, Zenon
  <2>2. /\ phase'[r] = "answered" /\ answer'[r] = kind
        /\ \A q \in Requests \ {r} : phase'[q] = phase[q] /\ answer'[q] = answer[q]
        /\ UNCHANGED <<written, settled>>
    BY <1>7, Zenon DEF Exec!Answer, Domains
  <2>3. AnswerSent(r, kind)
    BY <1>7, <2>1, <2>2, Zenon DEF AnswerSent, Exec!Answer
  <2> QED
    BY <1>7, <2>1, <2>2, <2>3, Zenon DEF Moves, Same
<1>8. CASE ExecuteNoop(r)
  <2>1. "Noop" \in Exec!Kinds
    BY Zenon DEF Exec!Kinds
  <2> QED
    BY <1>7, <1>8, <2>1, Zenon DEF ExecuteNoop
<1>9. CASE ExecuteReturns(r)
  <2>1. PICK kind \in Exec!Kinds \ {"Noop"} : Exec!Answer(r, kind) /\ writeResponse(r, kind)
    BY <1>9, Zenon DEF ExecuteReturns
  <2>2. /\ stage[r] = "execute" /\ phase[r] = "open"
        /\ UNCHANGED <<delivery, decided, noopTotal, parseErrors, stored>>
    BY <1>9, Zenon DEF ExecuteReturns
  <2>3. kind \in Exec!Kinds /\ kind # "Noop"
    BY Zenon
  <2> QED
    BY <1>7, <2>1, <2>2, <2>3, Zenon
<1>10. CASE ExecuteApply(r)
  <2>1. /\ stage[r] = "execute" /\ decided[r].action = "apply"
        /\ phase[r] = "idle" /\ phase' = [phase EXCEPT ![r] = "open"]
        /\ UNCHANGED <<written, settled, answer>>
    BY <1>10, Zenon DEF ExecuteApply, Exec!Accept
  <2>2. /\ UNCHANGED <<delivery, stage, decided, status, reply, noopTotal, parseErrors,
                       responseTotal, stored>>
    BY <1>10, Zenon DEF ExecuteApply, dispatcherVars
  <2>3. phase'[r] = "open" /\ \A q \in Requests \ {r} : phase'[q] = phase[q]
    BY <2>1, Zenon DEF Domains
  <2>4. Accepted(r)
    BY <2>1, <2>2, <2>3, Zenon DEF Accepted
  <2> QED
    BY <2>1, <2>2, <2>3, <2>4, Zenon DEF Moves, Same
<1> QED
  BY <1>3, <1>4, <1>5, <1>6, <1>8, <1>9, <1>10, Zenon DEF Handler

(* The cluster changes nothing of a response.  A write is one that its      *)
(* answer, if there is one, leaves open.                                    *)
LEMMA EffectMoves ==
    ASSUME Effect
    PROVE  /\ delivery' = delivery /\ stage' = stage /\ decided' = decided
           /\ status' = status /\ reply' = reply /\ noopTotal' = noopTotal
           /\ parseErrors' = parseErrors /\ responseTotal' = responseTotal
           /\ phase' = phase /\ answer' = answer
           /\ settled \subseteq settled'
           /\ \/ written' = written
              \/ \E r \in Requests :
                   /\ written' = written \cup {r} /\ phase[r] # "idle"
                   /\ answer[r] \notin Exec!NoEffect
<1>1. /\ delivery' = delivery /\ stage' = stage /\ decided' = decided
      /\ status' = status /\ reply' = reply /\ noopTotal' = noopTotal
      /\ parseErrors' = parseErrors /\ responseTotal' = responseTotal
  BY Zenon DEF Effect, dispatcherVars
<1>2. CASE Exec!Settle
  BY <1>1, <1>2, Zenon DEF Exec!Settle
<1>3. ASSUME NEW r \in Requests, Exec!Write(r)
      PROVE  /\ phase' = phase /\ answer' = answer
             /\ settled \subseteq settled'
             /\ written' = written \cup {r} /\ phase[r] # "idle"
             /\ answer[r] \notin Exec!NoEffect
  BY <1>3, Zenon DEF Exec!Write
<1>4. CASE UNCHANGED executorVars
  BY <1>1, <1>4, Zenon DEF executorVars
<1> QED
  BY <1>1, <1>2, <1>3, <1>4, Zenon DEF Effect

-----------------------------------------------------------------------------
(* The types. *)

Stages == {"route", "body", "verify", "handle", "execute", "done"}
Words == {"none", "text", "success", "noop", "failure"}

\* TypeOK, the conjuncts that ServeHTTP's writing of responses touches.
ResponseTypes ==
    /\ stage \in [Requests -> Stages]
    /\ status \in [Requests -> Statuses \cup {0}]
    /\ reply \in [Requests -> Words]
    /\ responseTotal \in [Statuses -> Nat]

(* http.Error keeps the types of what it sets.                              *)
LEMMA ErrorType ==
    ASSUME ResponseTypes, NEW r \in Requests, NEW code \in Statuses, Error(r, code)
    PROVE  ResponseTypes'
<1>1. "done" \in Stages /\ "text" \in Words
  BY Zenon DEF Stages, Words
<1> QED
  BY <1>1 DEF ResponseTypes, Error, Goto

(* writeResponse ends the request and counts it under a known status.       *)
LEMMA WriteResponseType ==
    ASSUME ResponseTypes, NEW r \in Requests, NEW kind, writeResponse(r, kind)
    PROVE  ResponseTypes'
<1>1. HTTPStatus(kind) \in Statuses /\ Build(kind) \in {"success", "noop", "failure"}
  BY ResponseFacts
<1>2. PICK s \in Statuses : s = HTTPStatus(kind)
  BY <1>1, Zenon
<1>3. PICK w \in Words : w = Build(kind)
  BY <1>1, Zenon DEF Words
<1>4. "done" \in Stages
  BY Zenon DEF Stages
<1>5. /\ stage' = [stage EXCEPT ![r] = "done"]
      /\ status' = [status EXCEPT ![r] = s]
      /\ reply' = [reply EXCEPT ![r] = w]
      /\ responseTotal' = [responseTotal EXCEPT ![s] = @ + 1]
  BY <1>2, <1>3, Zenon DEF writeResponse, Goto
<1> QED
  BY <1>4, <1>5 DEF ResponseTypes

(* Going on to another stage keeps the types.                               *)
LEMMA GotoType ==
    ASSUME ResponseTypes, NEW r \in Requests, NEW label \in Stages, Goto(r, label),
           UNCHANGED <<status, reply, responseTotal>>
    PROVE  ResponseTypes'
  BY DEF ResponseTypes, Goto

(* Every step of a handler keeps the types of the responses.                *)
LEMMA ResponseTypeStep ==
    ASSUME ResponseTypes, NEW r \in Requests, Handler(r)
    PROVE  ResponseTypes'
<1>1. {"body", "verify", "handle", "execute"} \subseteq Stages
  BY Zenon DEF Stages
<1>2. {400, 401, 404, 413} \subseteq Statuses
  BY DEF Statuses
<1>3. CASE Route(r)
  BY <1>1, <1>2, <1>3, GotoType, ErrorType DEF Route
<1>4. CASE ReadBody(r)
  <2>1. \/ Goto(r, "verify") /\ UNCHANGED <<status, reply, responseTotal>>
        \/ Error(r, 413)
        \/ Error(r, 400)
    BY <1>4, Zenon DEF ReadBody
  <2> QED
    BY <1>1, <1>2, <2>1, GotoType, ErrorType
<1>5. CASE VerifySignature(r)
  BY <1>1, <1>2, <1>5, GotoType, ErrorType DEF VerifySignature
<1>6. CASE CallHandle(r)
  <2>1. \/ Goto(r, "execute") /\ UNCHANGED <<status, reply, responseTotal>>
        \/ \E kind : writeResponse(r, kind)
    BY <1>6, Zenon DEF CallHandle
  <2> QED
    BY <1>1, <2>1, GotoType, WriteResponseType
<1>7. CASE ExecuteNoop(r) \/ ExecuteReturns(r)
  <2>1. \E kind : writeResponse(r, kind)
    BY <1>7, Zenon DEF ExecuteNoop, ExecuteReturns
  <2> QED
    BY <2>1, WriteResponseType
<1>8. CASE ExecuteApply(r)
  BY <1>8, Zenon DEF ExecuteApply, dispatcherVars, ResponseTypes
<1> QED
  BY <1>3, <1>4, <1>5, <1>6, <1>7, <1>8, Zenon DEF Handler

(* The executor's own variables keep their types.                           *)
LEMMA ExecutorTypeStep ==
    ASSUME Exec!TypeOK, [Next]_vars
    PROVE  Exec!TypeOK'
<1>1. ASSUME NEW r \in Requests, NEW kind \in Exec!Kinds, Exec!Answer(r, kind)
      PROVE  Exec!TypeOK'
  BY <1>1 DEF Exec!Answer, Exec!TypeOK
<1>2. ASSUME NEW r \in Requests, Exec!Accept(r)
      PROVE  Exec!TypeOK'
  BY <1>2 DEF Exec!Accept, Exec!TypeOK
<1>3. CASE UNCHANGED executorVars
  BY <1>3, Zenon DEF executorVars, Exec!TypeOK
<1>4. CASE Exec!Settle
  BY <1>4 DEF Exec!Settle, Exec!TypeOK
<1>5. ASSUME NEW r \in Requests, Exec!Write(r)
      PROVE  Exec!TypeOK'
  BY <1>5 DEF Exec!Write, Exec!TypeOK
<1>6. "Noop" \in Exec!Kinds
  BY Zenon DEF Exec!Kinds
<1>7. ASSUME NEW r \in Requests, Handler(r)
      PROVE  Exec!TypeOK'
  BY <1>1, <1>2, <1>3, <1>6, <1>7, Zenon
  DEF Handler, Route, ReadBody, VerifySignature, CallHandle, ExecuteNoop, ExecuteApply,
      ExecuteReturns
<1> QED
  BY <1>3, <1>4, <1>5, <1>7, Zenon DEF Next, Effect, vars

(* The counters of the provider keep their types.                           *)
LEMMA RecordType ==
    ASSUME noopTotal \in Nat, parseErrors \in [ParseReasons -> Nat],
           NEW r \in Requests, Handler(r)
    PROVE  noopTotal' \in Nat /\ parseErrors' \in [ParseReasons -> Nat]
<1>1. ASSUME NEW counted, Record(counted)
      PROVE  noopTotal' \in Nat /\ parseErrors' \in [ParseReasons -> Nat]
  BY <1>1 DEF Record
<1>2. CASE CallHandle(r)
  <2>1. \E counted : Record(counted)
    BY <1>2, Zenon DEF CallHandle
  <2> QED
    BY <1>1, <2>1, Zenon
<1>3. CASE ~CallHandle(r)
  <2>1. UNCHANGED <<noopTotal, parseErrors>>
    BY <1>3, Zenon DEF Handler, Route, ReadBody, VerifySignature, ExecuteNoop, ExecuteApply,
       ExecuteReturns, Error, dispatcherVars
  <2> QED
    BY <2>1, Zenon
<1> QED
  BY <1>2, <1>3, Zenon

(* The variables keep their types, the counters their labels.               *)
LEMMA TypeStep ==
    ASSUME TypeOK, [Next]_vars
    PROVE  TypeOK'
<1>1. ResponseTypes /\ Exec!TypeOK
  BY Zenon DEF TypeOK, ResponseTypes, Stages, Words
<1>2. Exec!TypeOK'
  BY <1>1, ExecutorTypeStep, Zenon
<1>3. ASSUME NEW r \in Requests, Handler(r)
      PROVE  TypeOK'
  <2>1. ResponseTypes'
    BY <1>1, <1>3, ResponseTypeStep, Zenon
  <2>2. noopTotal' \in Nat /\ parseErrors' \in [ParseReasons -> Nat]
    BY <1>3, RecordType, Zenon DEF TypeOK
  <2>3. delivery' = delivery /\ stored' = stored
    BY <1>3, DomainsOf, HandlerMoves, Zenon DEF Moves
  <2>4. DOMAIN decided' = Requests
    BY <1>3, Zenon DEF TypeOK, Handler, Route, ReadBody, VerifySignature, CallHandle,
       ExecuteNoop, ExecuteApply, ExecuteReturns, Error, dispatcherVars
  <2> QED
    BY <1>2, <2>1, <2>2, <2>3, <2>4, Zenon DEF TypeOK, ResponseTypes, Stages, Words
<1>4. CASE Effect
  <2>1. DOMAIN stored' = CRNames
    BY <1>4 DEF Effect, TypeOK
  <2> QED
    BY <1>2, <1>4, <2>1, EffectMoves, Zenon DEF TypeOK
<1>5. CASE UNCHANGED vars
  BY <1>2, <1>5, Zenon DEF vars, dispatcherVars, TypeOK
<1> QED
  BY <1>3, <1>4, <1>5, Zenon DEF Next

-----------------------------------------------------------------------------
(* What is known of a delivery at each stage, and of its response. *)

(* A request that a step leaves alone stays where it was.                   *)
LEMMA FlowSame ==
    ASSUME NEW q, Flow(q), Same(q), delivery' = delivery, written' = written
    PROVE  Flow(q)'
  BY Zenon DEF Flow, Same, Routed, Read, Verified, Decided, ToApply

(* A step of its handler takes a request on only if it meets the condition. *)
LEMMA FlowMove ==
    ASSUME NEW r \in Requests, Flow(r), Moves(r)
    PROVE  Flow(r)'
<1> USE DEF Routed, Read, Verified, Decided, ToApply
<1>1. delivery' = delivery /\ written' = written
  BY Zenon DEF Moves
<1>2. CASE Passes(r)
  BY <1>1, <1>2, Zenon DEF Passes, Flow
<1>3. CASE Refused(r)
  BY <1>1, <1>3, Zenon DEF Refused, Flow
<1>4. CASE Accepted(r)
  BY <1>1, <1>4, Zenon DEF Accepted, Flow
<1>5. ASSUME NEW h, Handled(r, h)
      PROVE  Flow(r)'
  <2>1. /\ stage[r] = "handle" /\ stage'[r] \in {"execute", "done"}
        /\ decided'[r] = Handle(delivery[r].body)
        /\ phase'[r] = phase[r]
    BY <1>5, Zenon DEF Handled, Sends
  <2> QED
    BY <1>1, <2>1, Zenon DEF Flow
<1>6. ASSUME NEW kind, AnswerSent(r, kind)
      PROVE  Flow(r)'
  <2>1. /\ stage[r] = "execute" /\ stage'[r] = "done" /\ decided'[r] = decided[r]
        /\ phase'[r] = "answered" /\ answer'[r] = kind
        /\ kind = "Noop" \/ phase[r] = "open"
    BY <1>6, Zenon DEF AnswerSent, Sends
  <2> QED
    BY <1>1, <2>1, Zenon DEF Flow
<1> HIDE DEF Routed, Read, Verified, Decided, ToApply
<1> QED
  BY <1>2, <1>3, <1>4, <1>5, <1>6, Zenon DEF Moves

(* Every step of ServeHTTP, of the executor and of the cluster keeps what   *)
(* is known of the deliveries at each stage.                                *)
LEMMA FlowStep ==
    ASSUME Domains, FlowInv, [Next]_vars
    PROVE  FlowInv'
<1> SUFFICES ASSUME NEW q \in Requests PROVE Flow(q)'
  BY Zenon DEF FlowInv
<1>1. Flow(q)
  BY Zenon DEF FlowInv
<1>2. ASSUME NEW r \in Requests, Handler(r)
      PROVE  Flow(q)'
  <2>1. Moves(r)
    BY <1>2, HandlerMoves, Zenon
  <2>2. CASE q = r
    BY <1>1, <2>1, <2>2, FlowMove, Zenon
  <2>3. CASE q # r
    BY <1>1, <2>1, <2>3, FlowSame, Zenon DEF Moves
  <2> QED
    BY <2>2, <2>3, Zenon
<1>3. CASE Effect
  <2>1. /\ delivery' = delivery /\ stage' = stage /\ decided' = decided
        /\ phase' = phase /\ answer' = answer
        /\ \/ written' = written
           \/ \E r \in Requests :
                /\ written' = written \cup {r} /\ phase[r] # "idle"
                /\ answer[r] \notin Exec!NoEffect
    BY <1>3, EffectMoves, Zenon
  <2>2. q \in written' => q \in written \/ (phase[q] # "idle" /\ answer[q] # "Noop")
    BY <2>1, Zenon DEF Exec!NoEffect
  <2> QED
    BY <1>1, <2>1, <2>2, Zenon DEF Flow, Routed, Read, Verified, Decided, ToApply
<1>4. CASE UNCHANGED vars
  <2>1. Same(q) /\ delivery' = delivery /\ written' = written
    BY <1>4, Zenon DEF vars, dispatcherVars, executorVars, Same
  <2> QED
    BY <1>1, <2>1, FlowSame, Zenon
<1> QED
  BY <1>2, <1>3, <1>4, Zenon DEF Next

(* A response that a step leaves alone stays as it was sent.                *)
LEMMA SentSame ==
    ASSUME NEW q, Sent(q), Same(q), written' = written, settled' = settled
    PROVE  Sent(q)'
  BY Zenon DEF Sent, Same

(* A response is written once, with the executor's answer if it was asked.  *)
LEMMA SentMove ==
    ASSUME NEW r \in Requests, Flow(r), Sent(r), Moves(r)
    PROVE  Sent(r)'
<1>1. written' = written /\ settled' = settled
  BY Zenon DEF Moves
<1>2. CASE Passes(r)
  <2>1. /\ stage[r] # "done" /\ stage'[r] # "done" /\ phase'[r] = phase[r]
        /\ status'[r] = status[r] /\ reply'[r] = reply[r]
    BY <1>2, Zenon DEF Passes
  <2> QED
    BY <2>1, Zenon DEF Sent
<1>3. CASE Refused(r)
  <2>1. phase[r] = "idle"
    BY <1>3, Zenon DEF Refused, Flow
  <2>2. Refusals \subseteq Declines
    BY DEF Refusals, Declines
  <2>3. /\ stage'[r] = "done" /\ phase'[r] = "idle" /\ reply'[r] = "text"
        /\ status'[r] \in Declines
    BY <1>3, <2>1, <2>2, Zenon DEF Refused
  <2> QED
    BY <2>3, Zenon DEF Sent
<1>4. CASE Accepted(r)
  <2>1. /\ stage[r] # "done" /\ stage'[r] = stage[r] /\ phase'[r] = "open"
        /\ status'[r] = status[r] /\ reply'[r] = reply[r]
    BY <1>4, Zenon DEF Accepted
  <2> QED
    BY <2>1, Zenon DEF Sent
<1>5. ASSUME NEW h, Handled(r, h)
      PROVE  Sent(r)'
  <2>1. phase[r] = "idle" /\ phase'[r] = "idle" /\ stage[r] = "handle"
    BY <1>5, Zenon DEF Handled, Flow
  <2>2. CASE stage'[r] = "execute" /\ status'[r] = status[r] /\ reply'[r] = reply[r]
    BY <2>1, <2>2, Zenon DEF Sent
  <2>3. CASE Sends(r, classifyProviderErr(h.error))
    <3>1. PICK kind : kind = classifyProviderErr(h.error)
      OBVIOUS
    <3>2. HTTPStatus(kind) \in Declines /\ Build(kind) = "failure"
      BY <3>1 DEF classifyProviderErr, HTTPStatus, Build, Declines
    <3> QED
      BY <2>1, <2>3, <3>1, <3>2, Zenon DEF Sends, Sent
  <2> QED
    BY <1>5, <2>2, <2>3, Zenon DEF Handled
<1>6. ASSUME NEW kind \in Exec!Kinds, AnswerSent(r, kind)
      PROVE  Sent(r)'
  BY <1>1, <1>6, Zenon DEF AnswerSent, Sends, Sent
<1> QED
  BY <1>2, <1>3, <1>4, <1>5, <1>6, Zenon DEF Moves

(* A response is written once, with the executor's answer if it was asked,  *)
(* and what an answer rules out stays ruled out.                            *)
LEMMA SentStep ==
    ASSUME Domains, FlowInv, SentInv, [Next]_vars
    PROVE  SentInv'
<1> SUFFICES ASSUME NEW q \in Requests PROVE Sent(q)'
  BY Zenon DEF SentInv
<1>1. Sent(q) /\ Flow(q)
  BY Zenon DEF SentInv, FlowInv
<1>2. ASSUME NEW r \in Requests, Handler(r)
      PROVE  Sent(q)'
  <2>1. Moves(r)
    BY <1>2, HandlerMoves, Zenon
  <2>2. CASE q = r
    BY <1>1, <2>1, <2>2, SentMove, Zenon
  <2>3. CASE q # r
    BY <1>1, <2>1, <2>3, SentSame, Zenon DEF Moves
  <2> QED
    BY <2>2, <2>3, Zenon
<1>3. CASE Effect
  <2>1. /\ stage' = stage /\ status' = status /\ reply' = reply
        /\ phase' = phase /\ answer' = answer /\ settled \subseteq settled'
        /\ \/ written' = written
           \/ \E r \in Requests :
                /\ written' = written \cup {r} /\ phase[r] # "idle"
                /\ answer[r] \notin Exec!NoEffect
    BY <1>3, EffectMoves, Zenon
  <2>2. /\ q \in written => q \in written'
        /\ q \in written' => q \in written \/ answer[q] \notin Exec!NoEffect
    BY <2>1, Zenon
  <2> QED
    BY <1>1, <2>1, <2>2, Zenon DEF Sent
<1>4. CASE UNCHANGED vars
  <2>1. Same(q) /\ written' = written /\ settled' = settled
    BY <1>4, Zenon DEF vars, dispatcherVars, executorVars, Same
  <2> QED
    BY <1>1, <2>1, SentSame, Zenon
<1> QED
  BY <1>2, <1>3, <1>4, Zenon DEF Next

(* A CR in the cluster stays, in all its parts, what one write put there.   *)
LEMMA StampStep ==
    ASSUME TypeOK, FlowInv, StampInv, [Next]_vars
    PROVE  StampInv'
<1>1. Domains /\ written \subseteq Requests /\ DOMAIN stored = CRNames
  BY DomainsOf, Zenon DEF TypeOK, Exec!TypeOK
<1>2. \A q \in written : /\ delivery'[q] = delivery[q] /\ decided'[q] = decided[q]
                         /\ q \in written'
  <2>1. ASSUME NEW r \in Requests, Handler(r), NEW q \in written
        PROVE  delivery' = delivery /\ decided'[q] = decided[q] /\ written' = written
    <3>1. Moves(r)
      BY <1>1, <2>1, HandlerMoves, Zenon
    <3>2. q \in Requests /\ decided[q] = Handle(delivery[q].body)
          /\ stage[q] \in {"execute", "done"}
      BY <1>1, Zenon DEF FlowInv, Flow, ToApply, Decided
    <3>3. stage[q] # "handle"
      BY <3>2, Zenon
    <3>4. decided'[q] = decided[q]
      BY <3>1, <3>2, <3>3, Zenon DEF Moves, Same, Passes, Refused, Accepted, Handled,
           AnswerSent
    <3> QED
      BY <3>1, <3>4, Zenon DEF Moves
  <2>2. CASE Effect
    BY <2>2, EffectMoves, Zenon
  <2>3. CASE UNCHANGED vars
    BY <2>3, Zenon DEF vars, dispatcherVars, executorVars
  <2> QED
    BY <2>1, <2>2, <2>3, Zenon DEF Next
<1>3. \A q \in written : Applied(q)' = Applied(q)
  BY <1>2, Zenon DEF Applied
<1>4. ASSUME NEW n \in CRNames, stored'[n] = stored[n], stored'[n] # None
      PROVE  \E q \in written' : decided'[q].name = n /\ stored'[n] = Applied(q)'
  <2>1. PICK q \in written : decided[q].name = n /\ stored[n] = Applied(q)
    BY <1>4, Zenon DEF StampInv
  <2> QED
    BY <1>2, <1>3, <1>4, <2>1, Zenon
<1>5. ASSUME NEW n \in CRNames, stored'[n] # None, stored'[n] # stored[n]
      PROVE  \E q \in written' : decided'[q].name = n /\ stored'[n] = Applied(q)'
  <2>1. Effect
    <3>1. stored' # stored
      BY <1>5, Zenon
    <3>2. \A r \in Requests : ~Handler(r)
      BY <1>1, <3>1, HandlerMoves, Zenon DEF Moves
    <3>3. ~ UNCHANGED vars
      BY <3>1, Zenon DEF vars
    <3> QED
      BY <3>2, <3>3, Zenon DEF Next
  <2>2. PICK r \in Requests : /\ Exec!Write(r) /\ UNCHANGED dispatcherVars
                              /\ stored' = [stored EXCEPT ![decided[r].name] = Applied(r)]
    BY <1>1, <1>5, <2>1, Zenon DEF Effect
  <2>3. r \in written' /\ Applied(r)' = Applied(r) /\ decided'[r].name = decided[r].name
    BY <2>2, Zenon DEF Exec!Write, dispatcherVars, Applied
  <2>4. n = decided[r].name /\ stored'[n] = Applied(r)
    BY <1>1, <1>5, <2>2, Zenon
  <2> QED
    BY <2>3, <2>4, Zenon
<1> QED
  BY <1>4, <1>5, Zenon DEF StampInv

-----------------------------------------------------------------------------
(* What the dispatcher keeps in its variables is of the stated types, for   *)
(* any deliveries.                                                          *)
THEOREM TypeCorrect == Spec => []TypeOK
<1>1. Init => TypeOK
  BY DEF Init, TypeOK, Exec!Init, Exec!TypeOK
<1>2. TypeOK /\ [Next]_vars => TypeOK'
  BY TypeStep
<1> QED
  BY <1>1, <1>2, PTL DEF Spec

(* The inductive invariant: no stage is passed without its check, what was  *)
(* sent is what the executor answered, and no CR mixes two deliveries.      *)
THEOREM DeliveryCorrect == Spec => []DeliveryInv
<1>1. Init => DeliveryInv
  <2> SUFFICES ASSUME Init PROVE FlowInv /\ SentInv /\ StampInv
    BY Zenon DEF DeliveryInv
  <2>1. /\ written = {} /\ \A n \in CRNames : stored[n] = None
        /\ \A r \in Requests : /\ stage[r] = "route" /\ phase[r] = "idle"
                              /\ status[r] = 0 /\ reply[r] = "none"
    BY Zenon DEF Init, Exec!Init
  <2> QED
    BY <2>1, Zenon DEF FlowInv, Flow, SentInv, Sent, StampInv
<1>2. TypeOK /\ DeliveryInv /\ [Next]_vars => DeliveryInv'
  BY DomainsOf, FlowStep, SentStep, StampStep, Zenon DEF DeliveryInv
<1> QED
  BY <1>1, <1>2, TypeCorrect, PTL DEF Spec

(* What a written delivery asked for: the object of its ApplyAction is the  *)
(* CR of its ticket.                                                        *)
LEMMA WrittenFacts ==
    ASSUME TypeOK, FlowInv, NEW r \in written
    PROVE  /\ Verified(r) /\ delivery[r].body \in Bodies
           /\ Complete(delivery[r].body) /\ decided[r] = Apply(delivery[r].body)
           /\ \A f \in Fields : ExtractErr(delivery[r].body, f) = "ok"
<1>1. ToApply(r) /\ r \in Requests
  BY Zenon DEF TypeOK, FlowInv, Flow, Exec!TypeOK
<1>2. PICK body \in Bodies : body = delivery[r].body
  <2>1. PICK d \in DeliveryType : d = delivery[r]
    BY <1>1, DispatcherAssumption DEF TypeOK
  <2>2. d.body \in Bodies
    BY DEF DeliveryType
  <2> QED
    BY <2>1, <2>2
<1>3. decided[r] = Handle(body) /\ Handle(body).action = "apply"
  BY <1>1, <1>2 DEF ToApply, Decided
<1>4. /\ Complete(body) /\ decided[r] = Apply(body)
      /\ \A f \in Fields : ExtractErr(body, f) = "ok"
  BY <1>3, HandleFacts
<1> QED
  BY <1>1, <1>2, <1>4 DEF ToApply, Decided

(* No CR is ever written for a delivery that was not routed, read, verified *)
(* and found complete, for any number of deliveries of any bodies and any   *)
(* interleaving with the executor and its late writes.                      *)
THEOREM EffectCorrect == Spec => []EffectWarranted
<1>1. TypeOK /\ DeliveryInv => EffectWarranted
  <2> SUFFICES ASSUME TypeOK, FlowInv, NEW r \in written
               PROVE  /\ delivery[r].provider = "jsm" /\ delivery[r].read = "whole"
                      /\ delivery[r].verified
                      /\ Complete(delivery[r].body)
                      /\ decided[r].name = CRName(delivery[r].body.key)
                      /\ \A f \in Fields :
                           /\ decided[r].spec.mapping[f] \in Values
                           /\ delivery[r].body.fields[f] \in
                                {decided[r].spec.mapping[f],
                                 Padded[decided[r].spec.mapping[f]]}
    BY Zenon DEF EffectWarranted, DeliveryInv
  <2>1. PICK body \in Bodies : body = delivery[r].body
    BY WrittenFacts, Zenon
  <2>2. /\ Verified(r) /\ Complete(body) /\ decided[r] = Apply(body)
        /\ \A f \in Fields : ExtractErr(body, f) = "ok"
    BY <2>1, WrittenFacts, Zenon
  <2>3. decided[r].name = CRName(body.key)
    BY <2>2 DEF Apply
  <2>4. \A f \in Fields : decided[r].spec.mapping[f] = ExtractString(body, f)
    BY <2>2 DEF Apply, BuildSpec
  <2>5. ASSUME NEW f \in Fields
        PROVE  /\ decided[r].spec.mapping[f] \in Values
               /\ body.fields[f] \in {decided[r].spec.mapping[f],
                                      Padded[decided[r].spec.mapping[f]]}
    BY <2>1, <2>2, <2>4, ExtractFacts, Zenon
  <2> QED
    BY <2>1, <2>2, <2>3, <2>5, Zenon DEF Verified, Read, Routed
<1> QED
  BY <1>1, TypeCorrect, DeliveryCorrect, PTL

(* A response stays true for ever after: "success" was settled, 504 was     *)
(* written, and behind a 4xx or a "noop" there is no write, not even a late *)
(* one.                                                                     *)
THEOREM ResponseCorrect == Spec => []ResponseTruthful
<1>1. TypeOK /\ DeliveryInv => ResponseTruthful
  <2> SUFFICES ASSUME TypeOK, FlowInv, SentInv, NEW r \in Requests
               PROVE  /\ reply[r] = "success" => r \in settled
                      /\ status[r] = 504 => r \in written
                      /\ status[r] \in 400..499 \/ reply[r] = "noop" => r \notin written
                      /\ reply[r] \in {"success", "noop"} <=> status[r] = 200
    BY Zenon DEF ResponseTruthful, DeliveryInv
  <2> Sent(r) /\ Flow(r) /\ phase[r] \in {"idle", "open", "answered"}
    BY Zenon DEF SentInv, FlowInv, TypeOK, Exec!TypeOK
  <2>1. CASE stage[r] # "done"
    <3>1. status[r] = 0 /\ reply[r] = "none"
      BY <2>1, Zenon DEF Sent
    <3> QED
      BY <3>1
  <2>2. CASE stage[r] = "done" /\ phase[r] = "idle"
    <3>1. /\ status[r] \in Declines /\ reply[r] \in {"text", "failure"}
          /\ r \notin written
      BY <2>2, Zenon DEF Sent, Flow
    <3> QED
      BY <3>1 DEF Declines
  <2>3. CASE phase[r] = "answered"
    <3>1. PICK kind \in Exec!Kinds : kind = answer[r]
      BY <2>3, Zenon DEF Sent
    <3>2. /\ status[r] = HTTPStatus(kind) /\ reply[r] = Build(kind)
          /\ kind = "Ready" => r \in settled
          /\ kind = "Timeout" => r \in written
          /\ kind \in {"Noop", "Unprocessable"} => r \notin written
      BY <2>3, <3>1, Zenon DEF Sent, Exec!NoEffect
    <3>3. kind # "BadRequest"
      BY DEF Exec!Kinds
    <3> QED
      BY <3>2, <3>3, ResponseFacts
  <2> QED
    BY <2>1, <2>2, <2>3, Zenon DEF Sent
<1> QED
  BY <1>1, TypeCorrect, DeliveryCorrect, PTL

(* The labels and annotations of every CR lead to the one delivery that     *)
(* wrote its spec.                                                          *)
THEOREM StampsCorrect == Spec => []StampsTraceable
<1>1. TypeOK /\ DeliveryInv => StampsTraceable
  <2> SUFFICES ASSUME TypeOK, FlowInv, StampInv, NEW n \in CRNames, stored[n] # None
               PROVE  /\ stored[n].labels.managedBy = "webhookd"
                      /\ \E r \in written :
                           /\ CRName(delivery[r].body.key) = n
                           /\ stored[n].spec = BuildSpec(delivery[r].body)
                           /\ stored[n].labels.source = delivery[r].provider
                           /\ stored[n].annotations =
                                [issueKey |-> delivery[r].body.key,
                                 requestID |-> delivery[r].requestID,
                                 traceID |-> delivery[r].traceID]
    BY Zenon DEF StampsTraceable, DeliveryInv
  <2>1. PICK r \in written : decided[r].name = n /\ stored[n] = Applied(r)
    BY Zenon DEF StampInv
  <2>2. /\ decided[r].name = CRName(delivery[r].body.key)
        /\ decided[r].spec = BuildSpec(delivery[r].body)
        /\ decided[r].annotations = [issueKey |-> delivery[r].body.key]
    <3>1. decided[r] = Apply(delivery[r].body)
      BY WrittenFacts, Zenon
    <3> QED
      BY <3>1 DEF Apply
  <2>3. delivery[r].provider = "jsm"
    BY WrittenFacts, Zenon DEF Verified, Read, Routed
  <2>4. stored[n].labels.managedBy = "webhookd" /\ stored[n].labels.source = "jsm"
    BY <2>1 DEF Applied, merge, systemLabels
  <2>5. stored[n].annotations = [issueKey |-> delivery[r].body.key,
                                 requestID |-> delivery[r].requestID,
                                 traceID |-> delivery[r].traceID]
    <3>1. stored[n].annotations = merge([issueKey |-> delivery[r].body.key],
                                        systemAnnotations(delivery[r]))
      BY <2>1, <2>2 DEF Applied
    <3> QED
      BY <3>1 DEF merge, systemAnnotations
  <2>6. stored[n].spec = decided[r].spec
    BY <2>1 DEF Applied
  <2> QED
    BY <2>1, <2>2, <2>3, <2>4, <2>5, <2>6, Zenon
<1> QED
  BY <1>1, TypeCorrect, DeliveryCorrect, PTL

-----------------------------------------------------------------------------
(* The counters. *)

(* provider.go: Handle counts a parse error exactly when it returns an      *)
(* error, and a noop exactly when it returns a NoopAction.                  *)
LEMMA HandleCounts ==
    ASSUME NEW body, NEW h, h = Handle(body)
    PROVE  \/ h.error # "nil" /\ h.action = "none" /\ h.counted \in ParseReasons
           \/ h.error = "nil" /\ h.action = "noop" /\ h.counted = "noop"
           \/ h.error = "nil" /\ h.action = "apply" /\ h.counted = "none"
<1>1. CASE h = Noop
  BY <1>1 DEF Noop
<1>2. CASE h = Apply(body)
  BY <1>2 DEF Apply
<1>3. ASSUME NEW e, e \in {"ErrBadRequest", "ErrUnprocessable"},
             NEW reason \in ParseReasons, h = Refuse(e, reason)
      PROVE  h.error # "nil" /\ h.action = "none" /\ h.counted \in ParseReasons
  BY <1>3 DEF Refuse
<1>4. \A e : decodeReason(e) \in ParseReasons /\ extractReason(e) \in ParseReasons
             /\ classifyExtractErr(e) \in {"ErrBadRequest", "ErrUnprocessable"}
  BY Zenon DEF decodeReason, extractReason, classifyExtractErr, ParseReasons
<1>5. \/ h = Noop \/ h = Apply(body)
      \/ \E e \in {"ErrBadRequest", "ErrUnprocessable"}, reason \in ParseReasons :
           h = Refuse(e, reason)
  BY <1>4, Zenon DEF Handle, HandleTriggered
<1> QED
  BY <1>1, <1>2, <1>3, <1>5, Zenon

\* How the size of a set changes when at most r joins or leaves it.
Sizes(S, T, r) ==
    /\ Cardinality(S) \in Nat /\ Cardinality(T) \in Nat
    /\ (r \in S <=> r \in T) => Cardinality(T) = Cardinality(S)
    /\ r \notin S /\ r \in T => Cardinality(T) = Cardinality(S) + 1
    /\ r \in S /\ r \notin T => Cardinality(S) = Cardinality(T) + 1

(* A finite set counts one more or one less when one element comes or goes. *)
LEMMA SizesOf ==
    ASSUME NEW S \in SUBSET Requests, NEW T \in SUBSET Requests, NEW r \in Requests,
           \A q \in Requests \ {r} : q \in T <=> q \in S
    PROVE  Sizes(S, T, r)
<1>1. IsFiniteSet(Requests)
  BY DispatcherAssumption DEF DispatcherAssumption
<1>2. IsFiniteSet(S) /\ IsFiniteSet(T)
  BY <1>1, FS_Subset, Zenon
<1>3. Cardinality(S) \in Nat /\ Cardinality(T) \in Nat
  BY <1>2, FS_CardinalityType, Zenon
<1>4. CASE r \in S <=> r \in T
  <2>1. \A q \in Requests : q \in T <=> q \in S
    BY <1>4, Zenon
  <2>2. T = S
    BY <2>1
  <2> QED
    BY <1>3, <1>4, <2>2 DEF Sizes
<1>5. CASE r \notin S /\ r \in T
  <2>1. T = S \cup {r}
    BY <1>5, Zenon
  <2>2. Cardinality(T) = Cardinality(S) + 1
    BY <1>2, <1>5, <2>1, FS_AddElement, Zenon
  <2> QED
    BY <1>3, <1>5, <2>2, Zenon DEF Sizes
<1>6. CASE r \in S /\ r \notin T
  <2>1. S = T \cup {r}
    BY <1>6, Zenon
  <2>2. Cardinality(S) = Cardinality(T) + 1
    BY <1>2, <1>6, <2>1, FS_AddElement, Zenon
  <2> QED
    BY <1>3, <1>6, <2>2, Zenon DEF Sizes
<1> QED
  BY <1>4, <1>5, <1>6, Zenon

(* A step of one request's handler changes no other one's place in the      *)
(* counts.                                                                  *)
LEMMA HandlerSizes ==
    ASSUME NEW r \in Requests, Moves(r)
    PROVE  /\ \A s : Sizes(SentWith(s), SentWith(s)', r)
           /\ Sizes(RefusedByHandle, RefusedByHandle', r)
           /\ Sizes(NoopsSent, NoopsSent', r)
           /\ Sizes(NoopsDue, NoopsDue', r)
<1>1. \A q \in Requests \ {r} : Same(q)
  BY Zenon DEF Moves
<1>2. ASSUME NEW s PROVE Sizes(SentWith(s), SentWith(s)', r)
  <2>1. \A q \in Requests \ {r} : q \in SentWith(s)' <=> q \in SentWith(s)
    BY <1>1, Zenon DEF SentWith, Same
  <2>2. SentWith(s) \in SUBSET Requests /\ SentWith(s)' \in SUBSET Requests
    BY Zenon DEF SentWith
  <2> QED
    BY <2>1, <2>2, SizesOf, Zenon
<1>3. Sizes(RefusedByHandle, RefusedByHandle', r)
  <2>1. \A q \in Requests \ {r} : q \in RefusedByHandle' <=> q \in RefusedByHandle
    BY <1>1, Zenon DEF RefusedByHandle, Same
  <2>2. RefusedByHandle \in SUBSET Requests /\ RefusedByHandle' \in SUBSET Requests
    BY Zenon DEF RefusedByHandle
  <2> QED
    BY <2>1, <2>2, SizesOf, Zenon
<1>4. Sizes(NoopsSent, NoopsSent', r)
  <2>1. \A q \in Requests \ {r} : q \in NoopsSent' <=> q \in NoopsSent
    BY <1>1, Zenon DEF NoopsSent, Same
  <2>2. NoopsSent \in SUBSET Requests /\ NoopsSent' \in SUBSET Requests
    BY Zenon DEF NoopsSent
  <2> QED
    BY <2>1, <2>2, SizesOf, Zenon
<1>5. Sizes(NoopsDue, NoopsDue', r)
  <2>1. \A q \in Requests \ {r} : q \in NoopsDue' <=> q \in NoopsDue
    BY <1>1, Zenon DEF NoopsDue, Same
  <2>2. NoopsDue \in SUBSET Requests /\ NoopsDue' \in SUBSET Requests
    BY Zenon DEF NoopsDue
  <2> QED
    BY <2>1, <2>2, SizesOf, Zenon
<1> QED
  BY <1>2, <1>3, <1>4, <1>5, Zenon

ParseErrorSum ==
    parseErrors["invalid_json"] + parseErrors["missing_field"]
      + parseErrors["empty_field"] + parseErrors["wrong_type"]

(* recordParseErr adds one to the sum of the parse errors, recordNoop to    *)
(* the noops, and Handle calls one of them or neither.                      *)
LEMMA RecordCounts ==
    ASSUME noopTotal \in Nat, parseErrors \in [ParseReasons -> Nat],
           NEW counted, Record(counted)
    PROVE  /\ counted \in ParseReasons =>
                noopTotal' = noopTotal /\ ParseErrorSum' = ParseErrorSum + 1
           /\ counted = "noop" =>
                noopTotal' = noopTotal + 1 /\ ParseErrorSum' = ParseErrorSum
           /\ counted = "none" =>
                noopTotal' = noopTotal /\ ParseErrorSum' = ParseErrorSum
<1>1. \A x \in ParseReasons : parseErrors[x] \in Nat
  OBVIOUS
<1>2. \A x \in ParseReasons :
        parseErrors'[x] = parseErrors[x] + (IF counted = x THEN 1 ELSE 0)
  BY Zenon DEF Record
<1>3. noopTotal' = noopTotal + (IF counted = "noop" THEN 1 ELSE 0)
  BY Zenon DEF Record
<1> QED
  BY <1>1, <1>2, <1>3 DEF ParseReasons, ParseErrorSum

(* writeResponse counts the one response it writes, under its status.       *)
LEMMA SendCounts ==
    ASSUME NEW r \in Requests, NEW kind, Moves(r), Sends(r, kind), stage[r] # "done",
           responseTotal \in [Statuses -> Nat],
           \A s \in Statuses : responseTotal[s] = Cardinality(SentWith(s))
    PROVE  \A s \in Statuses : responseTotal'[s] = Cardinality(SentWith(s)')
<1> SUFFICES ASSUME NEW s \in Statuses
             PROVE  responseTotal'[s] = Cardinality(SentWith(s)')
  BY Zenon
<1>1. Sizes(SentWith(s), SentWith(s)', r)
  BY HandlerSizes, Zenon
<1>2. r \notin SentWith(s)
  BY Zenon DEF SentWith
<1>3. Build(kind) # "text" /\ HTTPStatus(kind) \in Statuses
  BY ResponseFacts
<1>4. r \in SentWith(s)' <=> s = HTTPStatus(kind)
  BY <1>3, Zenon DEF SentWith, Sends
<1>5. responseTotal'[s] = IF s = HTTPStatus(kind) THEN responseTotal[s] + 1
                          ELSE responseTotal[s]
  BY <1>3, Zenon DEF Sends
<1> QED
  BY <1>1, <1>2, <1>4, <1>5, Zenon DEF Sizes

(* A step that sends no counted response leaves the counts of them alone.   *)
LEMMA NoSendCounts ==
    ASSUME NEW r \in Requests, Moves(r), stage[r] # "done",
           stage'[r] # "done" \/ reply'[r] = "text", UNCHANGED responseTotal,
           \A s \in Statuses : responseTotal[s] = Cardinality(SentWith(s))
    PROVE  \A s \in Statuses : responseTotal'[s] = Cardinality(SentWith(s)')
<1> SUFFICES ASSUME NEW s \in Statuses
             PROVE  Cardinality(SentWith(s)') = Cardinality(SentWith(s))
  BY Zenon
<1>1. r \notin SentWith(s) /\ r \notin SentWith(s)'
  BY Zenon DEF SentWith
<1> QED
  BY <1>1, HandlerSizes, Zenon DEF Sizes

(* One step of a request's handler keeps the three agreements.              *)
LEMMA HandlerCounts ==
    ASSUME TypeOK, NEW r \in Requests, Flow(r), Moves(r), CountersAddUp
    PROVE  CountersAddUp'
<1>1. /\ noopTotal \in Nat /\ parseErrors \in [ParseReasons -> Nat]
      /\ responseTotal \in [Statuses -> Nat]
  BY Zenon DEF TypeOK
<1>2. /\ \A s \in Statuses : responseTotal[s] = Cardinality(SentWith(s))
      /\ ParseErrorSum = Cardinality(RefusedByHandle)
      /\ noopTotal = Cardinality(NoopsSent) + Cardinality(NoopsDue)
  BY Zenon DEF CountersAddUp, ParseErrorSum
<1>3. ASSUME \A s \in Statuses : responseTotal'[s] = Cardinality(SentWith(s)'),
             ParseErrorSum' = Cardinality(RefusedByHandle'),
             noopTotal' = Cardinality(NoopsSent') + Cardinality(NoopsDue')
      PROVE  CountersAddUp'
  BY <1>3, Zenon DEF CountersAddUp, ParseErrorSum
<1>4. /\ Sizes(RefusedByHandle, RefusedByHandle', r)
      /\ Sizes(NoopsSent, NoopsSent', r) /\ Sizes(NoopsDue, NoopsDue', r)
  BY HandlerSizes, Zenon
<1>5. ASSUME stage[r] # "done", UNCHANGED <<noopTotal, parseErrors, responseTotal>>,
             stage'[r] # "done" \/ reply'[r] = "text",
             r \in NoopsDue' <=> r \in NoopsDue
      PROVE  CountersAddUp'
  <2>1. \A s \in Statuses : responseTotal'[s] = Cardinality(SentWith(s)')
    BY <1>2, <1>5, NoSendCounts, Zenon
  <2>2. /\ r \notin RefusedByHandle /\ r \notin RefusedByHandle'
        /\ r \notin NoopsSent /\ r \notin NoopsSent'
    BY <1>5, Zenon DEF RefusedByHandle, NoopsSent
  <2>3. ParseErrorSum' = ParseErrorSum
    BY <1>5, Zenon DEF ParseErrorSum
  <2> QED
    BY <1>2, <1>3, <1>4, <1>5, <2>1, <2>2, <2>3, Zenon DEF Sizes
<1>6. CASE Passes(r) \/ Refused(r) \/ Accepted(r)
  <2>1. /\ stage[r] # "done" /\ UNCHANGED <<noopTotal, parseErrors, responseTotal>>
        /\ stage'[r] # "done" \/ reply'[r] = "text"
        /\ r \in NoopsDue' <=> r \in NoopsDue
    BY <1>6, Zenon DEF Passes, Refused, Accepted, NoopsDue
  <2> QED
    BY <1>5, <2>1, Zenon
<1>7. ASSUME NEW h, Handled(r, h)
      PROVE  CountersAddUp'
  <2>1. /\ stage[r] = "handle" /\ decided'[r] = h /\ Record(h.counted)
        /\ phase[r] = "idle" /\ phase'[r] = "idle"
    BY <1>7, Zenon DEF Handled, Flow
  <2>2. \/ h.error # "nil" /\ h.action = "none" /\ h.counted \in ParseReasons
        \/ h.error = "nil" /\ h.action = "noop" /\ h.counted = "noop"
        \/ h.error = "nil" /\ h.action = "apply" /\ h.counted = "none"
    BY <1>7, HandleCounts, Zenon DEF Handled
  <2>3. r \notin RefusedByHandle /\ r \notin NoopsSent /\ r \notin NoopsDue
    BY <2>1, Zenon DEF RefusedByHandle, NoopsSent, NoopsDue
  <2>4. CASE h.error = "nil"
    <3>1. /\ stage'[r] = "execute" /\ UNCHANGED responseTotal
      BY <1>7, <2>4, Zenon DEF Handled
    <3>2. \A s \in Statuses : responseTotal'[s] = Cardinality(SentWith(s)')
      BY <1>2, <2>1, <3>1, NoSendCounts, Zenon
    <3>3. /\ r \notin RefusedByHandle' /\ r \notin NoopsSent'
          /\ r \in NoopsDue' <=> h.action = "noop"
      BY <2>1, <3>1, Zenon DEF RefusedByHandle, NoopsSent, NoopsDue
    <3>4. ParseErrorSum' = ParseErrorSum
          /\ noopTotal' = IF h.action = "noop" THEN noopTotal + 1 ELSE noopTotal
      BY <1>1, <2>1, <2>2, <2>4, RecordCounts, Zenon
    <3>5. /\ ParseErrorSum' = Cardinality(RefusedByHandle')
          /\ Cardinality(NoopsSent') = Cardinality(NoopsSent)
      BY <1>2, <1>4, <2>3, <3>3, <3>4, Zenon DEF Sizes
    <3>6. /\ Cardinality(NoopsSent) \in Nat /\ Cardinality(NoopsDue) \in Nat
          /\ Cardinality(NoopsDue') = IF h.action = "noop" THEN Cardinality(NoopsDue) + 1
                                      ELSE Cardinality(NoopsDue)
      BY <1>4, <2>3, <3>3, Zenon DEF Sizes
    <3>7. noopTotal' = Cardinality(NoopsSent') + Cardinality(NoopsDue')
      BY <1>2, <3>4, <3>5, <3>6
    <3> QED
      BY <1>3, <3>2, <3>5, <3>7, Zenon
  <2>5. CASE h.error # "nil"
    <3>1. PICK kind : kind = classifyProviderErr(h.error)
      OBVIOUS
    <3>2. Sends(r, kind)
      BY <1>7, <2>5, <3>1, Zenon DEF Handled
    <3>3. \A s \in Statuses : responseTotal'[s] = Cardinality(SentWith(s)')
      BY <1>1, <1>2, <2>1, <3>2, SendCounts, Zenon
    <3>4. Build(kind) = "failure"
      BY <3>1 DEF classifyProviderErr, Build
    <3>5. r \in RefusedByHandle' /\ r \notin NoopsSent' /\ r \notin NoopsDue'
      BY <2>1, <3>2, <3>4, Zenon DEF Sends, RefusedByHandle, NoopsSent, NoopsDue
    <3>6. ParseErrorSum' = ParseErrorSum + 1 /\ noopTotal' = noopTotal
      BY <1>1, <2>1, <2>2, <2>5, RecordCounts, Zenon
    <3>7. /\ ParseErrorSum' = Cardinality(RefusedByHandle')
          /\ noopTotal' = Cardinality(NoopsSent') + Cardinality(NoopsDue')
      BY <1>2, <1>4, <2>3, <3>5, <3>6, Zenon DEF Sizes
    <3> QED
      BY <1>3, <3>3, <3>7, Zenon
  <2> QED
    BY <2>4, <2>5, Zenon
<1>8. ASSUME NEW kind \in Exec!Kinds, AnswerSent(r, kind)
      PROVE  CountersAddUp'
  <2>1. /\ stage[r] = "execute" /\ phase'[r] = "answered" /\ Sends(r, kind)
        /\ UNCHANGED <<noopTotal, parseErrors>>
    BY <1>8, Zenon DEF AnswerSent
  <2>2. \A s \in Statuses : responseTotal'[s] = Cardinality(SentWith(s)')
    BY <1>1, <1>2, <2>1, SendCounts, Zenon
  <2>3. /\ r \notin RefusedByHandle /\ r \notin RefusedByHandle'
        /\ r \notin NoopsSent /\ r \notin NoopsDue'
    BY <2>1, Zenon DEF Sends, RefusedByHandle, NoopsSent, NoopsDue
  <2>4. r \in NoopsSent' <=> kind = "Noop"
    <3>1. Build(kind) = "noop" <=> kind = "Noop"
      BY ResponseFacts
    <3> QED
      BY <2>1, <3>1, Zenon DEF Sends, NoopsSent
  <2>5. r \in NoopsDue <=> kind = "Noop"
    BY <1>8, Zenon DEF AnswerSent, NoopsDue, Flow, ToApply
  <2>6. ParseErrorSum' = ParseErrorSum /\ noopTotal' = noopTotal
    BY <2>1, Zenon DEF ParseErrorSum
  <2>7. ParseErrorSum' = Cardinality(RefusedByHandle')
    BY <1>2, <1>4, <2>3, <2>6, Zenon DEF Sizes
  <2>8. noopTotal' = Cardinality(NoopsSent') + Cardinality(NoopsDue')
    <3>1. CASE kind = "Noop"
      <4>1. /\ Cardinality(NoopsSent) \in Nat /\ Cardinality(NoopsDue') \in Nat
            /\ Cardinality(NoopsSent') = Cardinality(NoopsSent) + 1
            /\ Cardinality(NoopsDue) = Cardinality(NoopsDue') + 1
        BY <1>4, <2>3, <2>4, <2>5, <3>1, Zenon DEF Sizes
      <4> QED
        BY <1>2, <2>6, <4>1
    <3>2. CASE kind # "Noop"
      BY <1>2, <1>4, <2>3, <2>4, <2>5, <2>6, <3>2, Zenon DEF Sizes
    <3> QED
      BY <3>1, <3>2, Zenon
  <2> QED
    BY <1>3, <2>2, <2>7, <2>8, Zenon
<1> QED
  BY <1>6, <1>7, <1>8, Zenon DEF Moves

(* The counters of the responses, of the parse errors and of the noops      *)
(* agree with what was sent, after any deliveries in any order.             *)
THEOREM CountersCorrect == Spec => []CountersAddUp
<1>1. Init => CountersAddUp
  <2> SUFFICES ASSUME Init PROVE CountersAddUp
    OBVIOUS
  <2>1. /\ \A s \in Statuses : SentWith(s) = {}
        /\ RefusedByHandle = {} /\ NoopsSent = {} /\ NoopsDue = {}
    BY Zenon DEF Init, SentWith, RefusedByHandle, NoopsSent, NoopsDue
  <2>2. Cardinality({}) = 0
    BY FS_EmptySet, Zenon
  <2>3. /\ \A s \in Statuses : responseTotal[s] = 0
        /\ \A x \in ParseReasons : parseErrors[x] = 0
        /\ noopTotal = 0
    BY Zenon DEF Init
  <2>4. 0 = 0 + 0 + 0 + 0 /\ 0 = 0 + 0
    OBVIOUS
  <2>5. /\ parseErrors["invalid_json"] = 0 /\ parseErrors["missing_field"] = 0
        /\ parseErrors["empty_field"] = 0 /\ parseErrors["wrong_type"] = 0
    BY <2>3, Zenon DEF ParseReasons
  <2> QED
    BY <2>1, <2>2, <2>3, <2>4, <2>5, Zenon DEF CountersAddUp
<1>2. TypeOK /\ DeliveryInv /\ CountersAddUp /\ [Next]_vars => CountersAddUp'
  <2> SUFFICES ASSUME TypeOK, FlowInv, CountersAddUp, [Next]_vars PROVE CountersAddUp'
    BY Zenon DEF DeliveryInv
  <2>1. ASSUME NEW r \in Requests, Handler(r)
        PROVE  CountersAddUp'
    BY <2>1, DomainsOf, HandlerMoves, HandlerCounts, Zenon DEF FlowInv
  <2>2. ASSUME UNCHANGED <<stage, status, reply, decided, phase, noopTotal, parseErrors,
                           responseTotal>>
        PROVE  CountersAddUp'
    <3>1. /\ \A s \in Statuses : SentWith(s)' = SentWith(s)
          /\ RefusedByHandle' = RefusedByHandle /\ NoopsSent' = NoopsSent
          /\ NoopsDue' = NoopsDue
      BY <2>2, Zenon DEF SentWith, RefusedByHandle, NoopsSent, NoopsDue
    <3> QED
      BY <2>2, <3>1, Zenon DEF CountersAddUp
  <2>3. CASE Effect
    <3>1. UNCHANGED dispatcherVars /\ phase' = phase
      BY <2>3, EffectMoves, Zenon DEF Effect
    <3> QED
      BY <2>2, <3>1, Zenon DEF dispatcherVars
  <2>4. CASE UNCHANGED vars
    BY <2>2, <2>4, Zenon DEF vars, dispatcherVars, executorVars
  <2> QED
    BY <2>1, <2>3, <2>4, Zenon DEF Next
<1> QED
  BY <1>1, <1>2, TypeCorrect, DeliveryCorrect, PTL DEF Spec

=============================================================================
