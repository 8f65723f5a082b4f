----------------------------- MODULE Middleware -----------------------------
(***************************************************************************)
(* internal/httpx/middleware.go: the chain that buildPublicHandler wraps   *)
(* around the mux.  Outermost first: Recover, OTel, RequestID, RateLimit,  *)
(* SLog, Metrics, handler.  Each request is a stack of frames, entered in  *)
(* that order and left in the reverse one, by returning or by a panic that *)
(* unwinds to Recover.  The wrapped handler is any handler: it writes      *)
(* headers and bodies, panics or returns.  OTel adds nothing to this state.*)
(***************************************************************************)
EXTENDS Naturals, FiniteSets

CONSTANTS
    Requests,   \* requests, each on a goroutine of net/http
    Codes,      \* status codes a handler writes
    Ids,        \* X-Request-ID values a client may send
    MaxWrites   \* bound on the handler's calls of WriteHeader and Write

ASSUME MiddlewareAssumption ==
    /\ IsFiniteSet(Requests)
    /\ Codes \subseteq Nat \ {0} /\ {200, 500} \subseteq Codes
    /\ MaxWrites \in Nat

VARIABLES
    pc,         \* Requests -> the frame it is in
    panicking,  \* Requests -> is it unwinding?
    writes,     \* Requests -> calls the handler has made
    sent,       \* Requests -> status and bytes on the connection, 0 before
    rec,        \* Requests -> the statusRecorder of each recording frame
    id,         \* Requests -> the X-Request-ID of the response
    logged,     \* Requests -> the access log lines of the request
    inflight,   \* webhookd_http_inflight_requests
    requests,   \* webhookd_http_requests_total by status
    panics,     \* webhookd_http_panics_total
    limited     \* webhookd_http_rate_limited_total

vars == <<pc, panicking, writes, sent, rec, id, logged, inflight, requests,
          panics, limited>>

Frames == {"arriving", "handler", "metrics-", "slog-", "recover-", "done"}
AllCodes == Codes \cup {429, 500}
NoId == "none"
Uuid == "uuid"  \* a fresh one
newStatusRecorder == [status |-> 200, bytes |-> 0, wroteHeader |-> FALSE]
Recorders == {"slog", "metrics"}

TypeOK ==
    /\ pc \in [Requests -> Frames]
    /\ panicking \in [Requests -> BOOLEAN]
    /\ writes \in [Requests -> 0..MaxWrites]
    /\ sent \in [Requests -> [status : AllCodes \cup {0}, bytes : Nat]]
    /\ rec \in [Requests -> [Recorders -> [status : AllCodes, bytes : Nat,
                                           wroteHeader : BOOLEAN]]]
    /\ id \in [Requests -> Ids \cup {NoId, Uuid}]
    /\ logged \in [Requests -> SUBSET [status : AllCodes, bytes : Nat,
                                       id : Ids \cup {NoId, Uuid}]]
    /\ inflight \in Nat
    /\ requests \in [AllCodes -> Nat]
    /\ panics \in Nat /\ limited \in Nat

Init ==
    /\ pc = [r \in Requests |-> "arriving"]
    /\ panicking = [r \in Requests |-> FALSE]
    /\ writes = [r \in Requests |-> 0]
    /\ sent = [r \in Requests |-> [status |-> 0, bytes |-> 0]]
    /\ rec = [r \in Requests |-> [x \in Recorders |-> newStatusRecorder]]
    /\ id = [r \in Requests |-> NoId]
    /\ logged = [r \in Requests |-> {}]
    /\ inflight = 0
    /\ requests = [c \in AllCodes |-> 0]
    /\ panics = 0
    /\ limited = 0

Goto(r, frame) == pc' = [pc EXCEPT ![r] = frame]

\* net/http: the first header wins, and a body without one sends 200.
SendHeader(s, code) == IF s.status = 0 THEN [s EXCEPT !.status = code] ELSE s
SendBody(s) == [status |-> SendHeader(s, 200).status, bytes |-> s.bytes + 1]

(***************************************************************************)
(* On the way in, nothing another request could see happens before the     *)
(* limiter's verdict and the gauge.                                        *)
(***************************************************************************)
\* RequestID keeps the client's id, if it sent one.
RequestID(r) == \E x \in Ids \cup {Uuid} : id' = [id EXCEPT ![r] = x]

\* Recover, OTel, RequestID, a RateLimit that allows, SLog and Metrics.
Enter(r) ==
    /\ pc[r] = "arriving"
    /\ RequestID(r)
    /\ inflight' = inflight + 1
    /\ Goto(r, "handler")
    /\ UNCHANGED <<panicking, writes, sent, rec, logged, requests, panics, limited>>

\* ... or a RateLimit that does not.
RateLimited(r) ==
    /\ pc[r] = "arriving"
    /\ RequestID(r)
    /\ sent' = [sent EXCEPT ![r] = SendHeader(@, 429)]
    /\ limited' = limited + 1
    /\ Goto(r, "recover-")
    /\ UNCHANGED <<panicking, writes, rec, logged, inflight, requests, panics>>

(***************************************************************************)
(* The handler.  It writes to the recorder of Metrics, which writes to the *)
(* one of SLog, which writes to the connection.                            *)
(***************************************************************************)
\* Mutant: a second WriteHeader overwrites the recorded status.
RecordHeaderTwice(s, code) == [status |-> code, bytes |-> s.bytes, wroteHeader |-> TRUE]

\* statusRecorder.WriteHeader and .Write
RecordHeader(s, code) ==
    IF s.wroteHeader THEN s
    ELSE [status |-> code, bytes |-> s.bytes, wroteHeader |-> TRUE]

\* Mutant: a body without a header leaves the recorder open to a late one.
RecordBodyOnly(s) == [s EXCEPT !.bytes = @ + 1]

RecordBody(s) == [status |-> s.status, bytes |-> s.bytes + 1, wroteHeader |-> TRUE]

HandlerWritesHeader(r, code) ==
    /\ pc[r] = "handler"
    /\ writes[r] < MaxWrites
    /\ writes' = [writes EXCEPT ![r] = @ + 1]
    /\ rec' = [rec EXCEPT ![r] = [x \in Recorders |-> RecordHeader(@[x], code)]]
    /\ sent' = [sent EXCEPT ![r] = SendHeader(@, code)]
    /\ UNCHANGED <<pc, panicking, id, logged, inflight, requests, panics, limited>>

HandlerWritesBody(r) ==
    /\ pc[r] = "handler"
    /\ writes[r] < MaxWrites
    /\ writes' = [writes EXCEPT ![r] = @ + 1]
    /\ rec' = [rec EXCEPT ![r] = [x \in Recorders |-> RecordBody(@[x])]]
    /\ sent' = [sent EXCEPT ![r] = SendBody(@)]
    /\ UNCHANGED <<pc, panicking, id, logged, inflight, requests, panics, limited>>

HandlerReturns(r) ==
    /\ pc[r] = "handler"
    /\ Goto(r, "metrics-")
    /\ UNCHANGED <<panicking, writes, sent, rec, id, logged, inflight, requests,
                   panics, limited>>

HandlerPanics(r) ==
    /\ pc[r] = "handler"
    /\ panicking' = [panicking EXCEPT ![r] = TRUE]
    /\ Goto(r, "metrics-")
    /\ UNCHANGED <<writes, sent, rec, id, logged, inflight, requests, panics, limited>>

(***************************************************************************)
(* On the way out.  A panic runs the deferred calls only.                  *)
(***************************************************************************)
\* Mutant: the gauge is decremented by a statement, not by a defer.
MetricsReturnsNoDefer(r) ==
    /\ pc[r] = "metrics-"
    /\ inflight' = IF panicking[r] THEN inflight ELSE inflight - 1
    /\ requests' = IF panicking[r] THEN requests
                   ELSE [requests EXCEPT ![rec[r]["metrics"].status] = @ + 1]
    /\ Goto(r, "slog-")
    /\ UNCHANGED <<panicking, writes, sent, rec, id, logged, panics, limited>>

MetricsReturns(r) ==
    /\ pc[r] = "metrics-"
    /\ inflight' = inflight - 1
    /\ requests' = IF panicking[r] THEN requests
                   ELSE [requests EXCEPT ![rec[r]["metrics"].status] = @ + 1]
    /\ Goto(r, "slog-")
    /\ UNCHANGED <<panicking, writes, sent, rec, id, logged, panics, limited>>

SLogReturns(r) ==
    /\ pc[r] = "slog-"
    /\ logged' = IF panicking[r] THEN logged
                 ELSE [logged EXCEPT ![r] = @ \cup
                        {[status |-> rec[r]["slog"].status,
                          bytes |-> rec[r]["slog"].bytes, id |-> id[r]]}]
    /\ Goto(r, "recover-")
    /\ UNCHANGED <<panicking, writes, sent, rec, id, inflight, requests, panics, limited>>

\* Mutant: a recovered panic is answered 503.
RecoverReturnsUnavailable(r) ==
    /\ pc[r] = "recover-"
    /\ panics' = IF panicking[r] THEN panics + 1 ELSE panics
    /\ sent' = [sent EXCEPT ![r] = SendHeader(@, IF panicking[r] THEN 503 ELSE 200)]
    /\ panicking' = [panicking EXCEPT ![r] = FALSE]
    /\ Goto(r, "done")
    /\ UNCHANGED <<writes, rec, id, logged, inflight, requests, limited>>

\* Recover's deferred function; net/http then completes the response, with
\* 200 if nothing was written.
RecoverReturns(r) ==
    /\ pc[r] = "recover-"
    /\ panics' = IF panicking[r] THEN panics + 1 ELSE panics
    /\ sent' = [sent EXCEPT ![r] = SendHeader(@, IF panicking[r] THEN 500 ELSE 200)]
    /\ panicking' = [panicking EXCEPT ![r] = FALSE]
    /\ Goto(r, "done")
    /\ UNCHANGED <<writes, rec, id, logged, inflight, requests, limited>>

Next == \E r \in Requests :
    \/ Enter(r) \/ RateLimited(r)
    \/ \E code \in Codes : HandlerWritesHeader(r, code)
    \/ HandlerWritesBody(r) \/ HandlerReturns(r) \/ HandlerPanics(r)
    \/ MetricsReturns(r) \/ SLogReturns(r) \/ RecoverReturns(r)

Spec == Init /\ [][Next]_vars

(***************************************************************************)
(* Properties                                                              *)
(***************************************************************************)
Done == {r \in Requests : pc[r] = "done"}

(* The two statusRecorders see what the client sees: an access log line     *)
(* that SLog wrote has the status, the bytes and the request id of the      *)
(* response, whatever calls of WriteHeader and Write the handler made in    *)
(* whatever order.                                                          *)
LogMatchesWire ==
    \A r \in Done : \A line \in logged[r] :
      /\ line.status = sent[r].status
      /\ line.bytes = sent[r].bytes
      /\ line.id = id[r]

(* The gauge of requests in flight is exact at every moment, and so returns *)
(* to zero however many handlers panicked: its decrement is deferred.       *)
InFlight == {r \in Requests : pc[r] \in {"handler", "metrics-"}}
InflightExact == inflight = Cardinality(InFlight)

\* The status net/http completes a response with.
Completed(s) == IF s.status = 0 THEN 200 ELSE s.status

\* The requests that the chain let through and that returned, by the status
\* of their response; those the limiter refused; and those that finished in
\* neither way.
Answered(c) ==
    {r \in Requests : /\ logged[r] # {} \/ (pc[r] = "slog-" /\ ~panicking[r])
                      /\ Completed(sent[r]) = c}
Refused ==
    {r \in Requests : /\ pc[r] \in {"recover-", "done"}
                      /\ logged[r] = {} /\ writes[r] = 0 /\ sent[r].status = 429}
Crashed == {r \in Done : logged[r] = {} /\ r \notin Refused}

(* Every finished request was counted exactly once: by the status that was  *)
(* sent in http_requests_total if it was logged, in http_rate_limited_total *)
(* if the limiter refused it, and in http_panics_total if it is neither,    *)
(* although a panic unwinds through the counters of Metrics and a handler   *)
(* may write several headers, or a 429 of its own.                          *)
CountedOnce ==
    /\ \A c \in AllCodes : requests[c] = Cardinality(Answered(c))
    /\ limited = Cardinality(Refused)
    /\ panics = Cardinality(Crashed)

(* A handler that panicked before it wrote anything is answered 500, and    *)
(* one that panicked later keeps the status that it sent first, which the   *)
(* recorder of SLog still holds; whatever it wrote, and in what order.      *)
PanicAnswered ==
    \A r \in Crashed :
      sent[r].status = IF writes[r] = 0 THEN 500 ELSE rec[r]["slog"].status

\* The inductive invariant behind LogMatchesWire and PanicAnswered: both
\* recorders hold what the connection has, the default status included.
Recorded(r) ==
    /\ pc[r] = "arriving" => writes[r] = 0
    /\ pc[r] \in {"arriving", "handler", "metrics-", "slog-"} =>
         /\ logged[r] = {}
         /\ \A x \in Recorders :
              /\ rec[r][x].status = Completed(sent[r])
              /\ rec[r][x].bytes = sent[r].bytes
              /\ rec[r][x].wroteHeader <=> sent[r].status # 0
         /\ writes[r] = 0 <=> sent[r].status = 0
    /\ pc[r] \in {"arriving", "handler"} => ~panicking[r]
    /\ pc[r] = "recover-" =>
         /\ \A line \in logged[r] : line.status = Completed(sent[r])
         /\ logged[r] = {} /\ ~panicking[r] => sent[r].status = 429 /\ writes[r] = 0
         /\ panicking[r] =>
              IF writes[r] = 0 THEN sent[r].status = 0
              ELSE sent[r].status # 0 /\ sent[r].status = rec[r]["slog"].status
         /\ logged[r] # {} => ~panicking[r]
    /\ pc[r] = "done" =>
         /\ \A line \in logged[r] : line.status = sent[r].status
         /\ logged[r] = {} =>
              \/ writes[r] = 0 /\ sent[r].status = 429
              \/ sent[r].status = IF writes[r] = 0 THEN 500 ELSE rec[r]["slog"].status
    /\ \A line \in logged[r] : line.bytes = sent[r].bytes /\ line.id = id[r]

RecorderInv == \A r \in Requests : Recorded(r)

=============================================================================
