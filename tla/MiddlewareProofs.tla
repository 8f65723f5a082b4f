-------------------------- MODULE MiddlewareProofs --------------------------
(***************************************************************************)
(* The middleware chain for any number of requests, any handler and any    *)
(* number of writes.                                                       *)
(***************************************************************************)
EXTENDS Middleware, FiniteSetTheorems, TLAPS

(***************************************************************************)
(* The gauge.                                                              *)
(***************************************************************************)
\* What the proofs about the gauge need of the types.
LEMMA FlightStep ==
    ASSUME pc \in [Requests -> Frames], inflight \in Nat, InflightExact, [Next]_vars
    PROVE  pc' \in [Requests -> Frames] /\ inflight' \in Nat /\ InflightExact'
<1> USE DEF Goto, InflightExact
<1>1. IsFiniteSet(InFlight)
  BY MiddlewareAssumption, FS_Subset, ZenonT(40) DEF InFlight
<1>2. pc' \in [Requests -> Frames]
  BY DEF Next, vars, Frames, Enter, RateLimited, HandlerWritesHeader, HandlerWritesBody,
     HandlerReturns, HandlerPanics, MetricsReturns, SLogReturns, RecoverReturns
<1>3. ASSUME NEW r \in Requests, Enter(r)
      PROVE  inflight' \in Nat /\ InflightExact'
  <2>1. InFlight' = InFlight \cup {r} /\ r \notin InFlight
    BY <1>3, Zenon DEF Enter, InFlight
  <2>2. Cardinality(InFlight') = Cardinality(InFlight) + 1
    BY <1>1, <2>1, FS_AddElement, Zenon
  <2>3. inflight' = inflight + 1
    BY <1>3, Zenon DEF Enter
  <2> QED  BY <2>2, <2>3
<1>4. ASSUME NEW r \in Requests, MetricsReturns(r)
      PROVE  inflight' \in Nat /\ InflightExact'
  <2>1. InFlight' = InFlight \ {r} /\ r \in InFlight
    BY <1>4, Zenon DEF MetricsReturns, InFlight
  <2>2. Cardinality(InFlight') = Cardinality(InFlight) - 1
    BY <1>1, <2>1, FS_RemoveElement, Zenon
  <2>3. Cardinality(InFlight') \in Nat
    BY <1>1, <2>1, FS_RemoveElement, FS_CardinalityType, Zenon
  <2> QED  BY <1>4, <2>2, <2>3, Zenon DEF MetricsReturns
<1>5. ASSUME InFlight' = InFlight, inflight' = inflight
      PROVE  inflight' \in Nat /\ InflightExact'
  BY <1>5, Zenon
<1>6. ASSUME NEW r \in Requests,
             \/ RateLimited(r) \/ \E code \in Codes : HandlerWritesHeader(r, code)
             \/ HandlerWritesBody(r) \/ HandlerReturns(r) \/ HandlerPanics(r)
             \/ SLogReturns(r) \/ RecoverReturns(r)
      PROVE  InFlight' = InFlight /\ inflight' = inflight
  BY <1>6, Zenon DEF InFlight, RateLimited, HandlerWritesHeader, HandlerWritesBody,
     HandlerReturns, HandlerPanics, SLogReturns, RecoverReturns
<1>7. CASE UNCHANGED vars
  BY <1>5, <1>7, Zenon DEF vars, InFlight
<1> QED  BY <1>2, <1>3, <1>4, <1>5, <1>6, <1>7, Zenon DEF Next

(* webhookd_http_inflight_requests is exact in every interleaving of any    *)
(* number of requests, panics included.                                     *)
THEOREM InflightCorrect == Spec => []InflightExact
<1> DEFINE I == pc \in [Requests -> Frames] /\ inflight \in Nat /\ InflightExact
<1>1. Init => I
  <2>1. Init => InFlight = {}
    BY Zenon DEF Init, InFlight
  <2>2. Init => inflight = 0 /\ pc \in [Requests -> Frames]
    BY Zenon DEF Init, Frames
  <2> QED  BY <2>1, <2>2, FS_EmptySet DEF InflightExact
<1>2. I /\ [Next]_vars => I'
  BY FlightStep, Zenon
<1>3. I => InflightExact
  BY Zenon
<1> HIDE DEF I
<1> QED  BY <1>1, <1>2, <1>3, PTL DEF Spec

(***************************************************************************)
(* The recorders.                                                          *)
(***************************************************************************)
Recorder == [status : AllCodes, bytes : Nat, wroteHeader : BOOLEAN]
Wire == [status : AllCodes \cup {0}, bytes : Nat]

\* The part of TypeOK that the responses depend on.
WireOK ==
    /\ pc \in [Requests -> Frames]
    /\ writes \in [Requests -> 0..MaxWrites]
    /\ sent \in [Requests -> Wire]
    /\ rec \in [Requests -> [Recorders -> Recorder]]
    /\ DOMAIN panicking = Requests /\ DOMAIN logged = Requests /\ DOMAIN id = Requests

(* WriteHeader and Write do to a recorder what net/http does to the         *)
(* connection, whatever was written before.                                 *)
LEMMA RecordFacts ==
    ASSUME NEW s \in Recorder, NEW w \in Wire, NEW code \in Codes,
           s.status = Completed(w), s.bytes = w.bytes, s.wroteHeader <=> w.status # 0
    PROVE  /\ RecordHeader(s, code) \in Recorder /\ RecordBody(s) \in Recorder
           /\ SendHeader(w, code) \in Wire /\ SendBody(w) \in Wire
           /\ RecordHeader(s, code).status = Completed(SendHeader(w, code))
           /\ RecordHeader(s, code).bytes = SendHeader(w, code).bytes
           /\ RecordHeader(s, code).wroteHeader /\ SendHeader(w, code).status # 0
           /\ RecordBody(s).status = Completed(SendBody(w))
           /\ RecordBody(s).bytes = SendBody(w).bytes
           /\ RecordBody(s).wroteHeader /\ SendBody(w).status # 0
<1> USE MiddlewareAssumption DEF Recorder, Wire, AllCodes
<1>1. code \in Nat \ {0} /\ code \in AllCodes /\ 200 \in AllCodes
  OBVIOUS
<1>2. /\ SendHeader(w, code) \in Wire /\ SendHeader(w, code).status # 0
      /\ SendHeader(w, code).bytes = w.bytes
      /\ SendHeader(w, code).status = IF w.status = 0 THEN code ELSE w.status
  BY <1>1 DEF SendHeader
<1>3. /\ SendBody(w) \in Wire /\ SendBody(w).status # 0
      /\ SendBody(w).bytes = w.bytes + 1
      /\ SendBody(w).status = Completed(w)
  BY <1>1 DEF SendBody, SendHeader, Completed
<1>4. /\ RecordBody(s) \in Recorder /\ RecordBody(s).wroteHeader
      /\ RecordBody(s).status = s.status /\ RecordBody(s).bytes = s.bytes + 1
  BY DEF RecordBody
<1>5. CASE s.wroteHeader
  BY <1>1, <1>2, <1>3, <1>4, <1>5 DEF RecordHeader, Completed
<1>6. CASE ~s.wroteHeader
  BY <1>1, <1>2, <1>3, <1>4, <1>6 DEF RecordHeader, Completed
<1> QED  BY <1>5, <1>6

(* Recorders, connection and write counts keep their types.                 *)
LEMMA WireStep ==
    ASSUME WireOK, RecorderInv, [Next]_vars
    PROVE  WireOK'
<1> USE DEF WireOK, Goto
<1>1. pc' \in [Requests -> Frames]
  BY SMTT(20) DEF Next, vars, Frames, Enter, RateLimited, HandlerWritesHeader, HandlerWritesBody,
     HandlerReturns, HandlerPanics, MetricsReturns, SLogReturns, RecoverReturns
<1>2. DOMAIN panicking' = Requests /\ DOMAIN logged' = Requests /\ DOMAIN id' = Requests
  BY DEF Next, vars, RequestID, Enter, RateLimited, HandlerWritesHeader,
     HandlerWritesBody, HandlerReturns, HandlerPanics, MetricsReturns, SLogReturns,
     RecoverReturns
<1>3. ASSUME NEW r \in Requests, NEW code \in Codes \cup {429}
      PROVE  SendHeader(sent[r], code) \in Wire
  BY <1>3, SMTT(20) DEF SendHeader, Wire, AllCodes
<1>4. ASSUME NEW r \in Requests, RateLimited(r)
      PROVE  WireOK'
  BY <1>1, <1>2, <1>3, <1>4 DEF RateLimited
<1>5. ASSUME NEW r \in Requests, NEW code \in Codes, HandlerWritesHeader(r, code)
      PROVE  WireOK'
  <2>1. ASSUME NEW x \in Recorders PROVE RecordHeader(rec[r][x], code) \in Recorder
    <3>1. Recorded(r) /\ pc[r] = "handler"
      BY <1>5, Zenon DEF HandlerWritesHeader, RecorderInv
    <3>2. /\ rec[r][x] \in Recorder /\ sent[r] \in Wire
          /\ rec[r][x].status = Completed(sent[r])
          /\ rec[r][x].bytes = sent[r].bytes
          /\ rec[r][x].wroteHeader <=> sent[r].status # 0
      BY <3>1 DEF Recorded
    <3> QED  BY <3>2, RecordFacts, Zenon
  <2>2. writes' \in [Requests -> 0..MaxWrites]
    BY <1>5, MiddlewareAssumption DEF HandlerWritesHeader
  <2> QED  BY <1>1, <1>2, <1>3, <1>5, <2>1, <2>2 DEF HandlerWritesHeader
<1>6. ASSUME NEW r \in Requests, HandlerWritesBody(r)
      PROVE  WireOK'
  <2>1. ASSUME NEW x \in Recorders
        PROVE  RecordBody(rec[r][x]) \in Recorder /\ SendBody(sent[r]) \in Wire
    <3>1. Recorded(r) /\ pc[r] = "handler"
      BY <1>6, Zenon DEF HandlerWritesBody, RecorderInv
    <3>2. 200 \in Codes
      BY MiddlewareAssumption
    <3>3. /\ rec[r][x] \in Recorder /\ sent[r] \in Wire
          /\ rec[r][x].status = Completed(sent[r])
          /\ rec[r][x].bytes = sent[r].bytes
          /\ rec[r][x].wroteHeader <=> sent[r].status # 0
      BY <3>1 DEF Recorded
    <3> QED  BY <3>2, <3>3, RecordFacts, ZenonT(40)
  <2>2. writes' \in [Requests -> 0..MaxWrites]
    BY <1>6, MiddlewareAssumption DEF HandlerWritesBody
  <2> QED  BY <1>1, <1>2, <1>6, <2>1, <2>2, Zenon DEF HandlerWritesBody, Recorders
<1>7. ASSUME NEW r \in Requests, RecoverReturns(r)
      PROVE  WireOK'
  <2>1. sent' \in [Requests -> Wire]
    BY <1>3, <1>7, MiddlewareAssumption DEF RecoverReturns
  <2> QED  BY <1>1, <1>2, <1>7, <2>1, Zenon DEF RecoverReturns
<1>8. ASSUME UNCHANGED <<writes, sent, rec>>
      PROVE  WireOK'
  BY <1>1, <1>2, <1>8, Zenon
<1>9. ASSUME NEW r \in Requests,
             \/ Enter(r) \/ HandlerReturns(r) \/ HandlerPanics(r)
             \/ MetricsReturns(r) \/ SLogReturns(r)
      PROVE  UNCHANGED <<writes, sent, rec>>
  BY <1>9, Zenon DEF Enter, HandlerReturns, HandlerPanics, MetricsReturns, SLogReturns
<1> QED  BY <1>4, <1>5, <1>6, <1>7, <1>8, <1>9, ZenonT(40) DEF Next, vars

\* A step of one request.
Step(r) ==
    \/ Enter(r) \/ RateLimited(r)
    \/ \E code \in Codes : HandlerWritesHeader(r, code)
    \/ HandlerWritesBody(r) \/ HandlerReturns(r) \/ HandlerPanics(r)
    \/ MetricsReturns(r) \/ SLogReturns(r) \/ RecoverReturns(r)

\* Nothing of request q has changed.
Untouched(q) ==
    /\ pc'[q] = pc[q] /\ panicking'[q] = panicking[q] /\ writes'[q] = writes[q]
    /\ sent'[q] = sent[q] /\ rec'[q] = rec[q] /\ id'[q] = id[q]
    /\ logged'[q] = logged[q]

(* A step of a request leaves the others alone.                             *)
LEMMA OthersUntouched ==
    ASSUME WireOK, NEW r \in Requests, NEW q \in Requests, q # r, Step(r)
    PROVE  Untouched(q)
  BY DEF Untouched, Step, Goto, WireOK, RequestID, Enter, RateLimited, HandlerWritesHeader,
     HandlerWritesBody, HandlerReturns, HandlerPanics, MetricsReturns,
     SLogReturns, RecoverReturns

(* Each step of a request keeps the recorders equal to the connection, and  *)
(* no step touches those of another request.                                *)
LEMMA RecorderStep ==
    ASSUME WireOK, RecorderInv, [Next]_vars
    PROVE  RecorderInv'
<1> USE DEF Goto
<1>t. ASSUME NEW q \in Requests
      PROVE  /\ Recorded(q) /\ pc[q] \in Frames /\ sent[q] \in Wire
             /\ \A x \in Recorders : rec[q][x] \in Recorder
  BY Zenon DEF WireOK, RecorderInv
<1> DEFINE Flying(q) ==
      /\ logged[q] = {}
      /\ \A x \in Recorders :
           /\ rec[q][x].status = Completed(sent[q])
           /\ rec[q][x].bytes = sent[q].bytes
           /\ rec[q][x].wroteHeader <=> sent[q].status # 0
      /\ writes[q] = 0 <=> sent[q].status = 0
<1>f. ASSUME NEW q \in Requests, pc[q] \in {"handler", "metrics-", "slog-"}
      PROVE  Flying(q)
  BY <1>f, <1>t, Zenon DEF Recorded
<1>g. ASSUME NEW q \in Requests, pc'[q] \in {"metrics-", "slog-"}, Flying(q)'
      PROVE  Recorded(q)'
  BY <1>g, Zenon DEF Recorded
<1>o. ASSUME NEW q \in Requests, Untouched(q)
      PROVE  Recorded(q)'
  BY <1>o, <1>t DEF Recorded, Untouched
<1>1. ASSUME NEW r \in Requests, Enter(r)
      PROVE  Recorded(r)'
  BY <1>1, <1>t DEF Enter, WireOK, Recorded
<1>2. ASSUME NEW r \in Requests, RateLimited(r)
      PROVE  Recorded(r)'
  <2>1. sent'[r].status = 429
    BY <1>2, <1>t DEF RateLimited, WireOK, Recorded, SendHeader, Wire
  <2>2. /\ pc'[r] = "recover-" /\ logged'[r] = {} /\ ~panicking'[r] /\ writes'[r] = 0
    BY <1>2, <1>t DEF RateLimited, WireOK, Recorded
  <2> QED  BY <2>1, <2>2, Zenon DEF Recorded
<1>3. ASSUME NEW r \in Requests, NEW code \in Codes, HandlerWritesHeader(r, code)
      PROVE  Recorded(r)'
  <2>1. /\ pc[r] = "handler" /\ pc'[r] = "handler" /\ logged'[r] = {} /\ ~panicking'[r]
        /\ writes'[r] = writes[r] + 1 /\ writes[r] \in Nat
        /\ sent'[r] = SendHeader(sent[r], code)
        /\ \A x \in Recorders : rec'[r][x] = RecordHeader(rec[r][x], code)
    BY <1>3, <1>t, MiddlewareAssumption DEF HandlerWritesHeader, WireOK, Recorded
  <2>2. \A x \in Recorders :
          /\ rec'[r][x].status = Completed(sent'[r])
          /\ rec'[r][x].bytes = sent'[r].bytes
          /\ rec'[r][x].wroteHeader /\ sent'[r].status # 0
    <3> SUFFICES ASSUME NEW x \in Recorders
                 PROVE  /\ rec'[r][x].status = Completed(sent'[r])
                        /\ rec'[r][x].bytes = sent'[r].bytes
                        /\ rec'[r][x].wroteHeader /\ sent'[r].status # 0
      BY Zenon
    <3>1. /\ rec[r][x] \in Recorder /\ sent[r] \in Wire
          /\ rec[r][x].status = Completed(sent[r])
          /\ rec[r][x].bytes = sent[r].bytes
          /\ rec[r][x].wroteHeader <=> sent[r].status # 0
      BY <1>t, <2>1 DEF Recorded
    <3>2. /\ RecordHeader(rec[r][x], code).status = Completed(SendHeader(sent[r], code))
          /\ RecordHeader(rec[r][x], code).bytes = SendHeader(sent[r], code).bytes
          /\ RecordHeader(rec[r][x], code).wroteHeader
          /\ SendHeader(sent[r], code).status # 0
      BY <3>1, RecordFacts, Zenon
    <3> QED  BY <2>1, <3>2, Zenon
  <2>3. writes'[r] # 0
    BY <2>1
  <2>4. sent'[r].status # 0
    BY <2>2, Zenon DEF Recorders
  <2> QED  BY <2>1, <2>2, <2>3, <2>4, Zenon DEF Recorded
<1>4. ASSUME NEW r \in Requests, HandlerWritesBody(r)
      PROVE  Recorded(r)'
  <2>1. /\ pc[r] = "handler" /\ pc'[r] = "handler" /\ logged'[r] = {} /\ ~panicking'[r]
        /\ writes'[r] = writes[r] + 1 /\ writes[r] \in Nat
        /\ sent'[r] = SendBody(sent[r])
        /\ \A x \in Recorders : rec'[r][x] = RecordBody(rec[r][x])
    BY <1>4, <1>t, MiddlewareAssumption DEF HandlerWritesBody, WireOK, Recorded
  <2>2. \A x \in Recorders :
          /\ rec'[r][x].status = Completed(sent'[r])
          /\ rec'[r][x].bytes = sent'[r].bytes
          /\ rec'[r][x].wroteHeader /\ sent'[r].status # 0
    <3> SUFFICES ASSUME NEW x \in Recorders
                 PROVE  /\ rec'[r][x].status = Completed(sent'[r])
                        /\ rec'[r][x].bytes = sent'[r].bytes
                        /\ rec'[r][x].wroteHeader /\ sent'[r].status # 0
      BY Zenon
    <3>1. /\ rec[r][x] \in Recorder /\ sent[r] \in Wire
          /\ rec[r][x].status = Completed(sent[r])
          /\ rec[r][x].bytes = sent[r].bytes
          /\ rec[r][x].wroteHeader <=> sent[r].status # 0
      BY <1>t, <2>1 DEF Recorded
    <3>2. 200 \in Codes
      BY MiddlewareAssumption
    <3>3. /\ RecordBody(rec[r][x]).status = Completed(SendBody(sent[r]))
          /\ RecordBody(rec[r][x]).bytes = SendBody(sent[r]).bytes
          /\ RecordBody(rec[r][x]).wroteHeader /\ SendBody(sent[r]).status # 0
      BY <3>1, <3>2, RecordFacts, SMTT(20)
    <3> QED  BY <2>1, <3>3, Zenon
  <2>3. writes'[r] # 0
    BY <2>1
  <2>4. sent'[r].status # 0
    BY <2>2, Zenon DEF Recorders
  <2> QED  BY <2>1, <2>2, <2>3, <2>4, Zenon DEF Recorded
<1>5. ASSUME NEW r \in Requests, HandlerReturns(r) \/ HandlerPanics(r) \/ MetricsReturns(r)
      PROVE  Recorded(r)'
  <2>1. /\ pc[r] \in {"handler", "metrics-"} /\ pc'[r] \in {"metrics-", "slog-"}
        /\ UNCHANGED <<writes, sent, rec, id, logged>>
    BY <1>5, Zenon DEF HandlerReturns, HandlerPanics, MetricsReturns, WireOK
  <2>2. Flying(r)'
    BY <1>f, <2>1, Zenon
  <2> QED  BY <1>g, <2>1, <2>2, Zenon
<1>6. ASSUME NEW r \in Requests, SLogReturns(r)
      PROVE  Recorded(r)'
  <2>1. /\ pc[r] = "slog-" /\ pc'[r] = "recover-"
        /\ UNCHANGED <<panicking, writes, sent, rec, id>>
    BY <1>6, Zenon DEF SLogReturns, WireOK
  <2>2. CASE panicking[r]
    <3>1. logged' = logged
      BY <1>6, <2>2, Zenon DEF SLogReturns
    <3>2. /\ logged'[r] = {} /\ pc'[r] = "recover-" /\ panicking'[r]
          /\ writes'[r] = 0 <=> sent'[r].status = 0
          /\ rec'[r]["slog"].status = Completed(sent'[r])
      BY <1>f, <2>1, <2>2, <3>1, Zenon DEF Recorders
    <3>3. IF writes'[r] = 0 THEN sent'[r].status = 0
          ELSE sent'[r].status # 0 /\ sent'[r].status = rec'[r]["slog"].status
      BY <3>2, Zenon DEF Completed
    <3> QED  BY <3>2, <3>3, Zenon DEF Recorded
  <2>3. CASE ~panicking[r]
    <3>1. logged'[r] = logged[r] \cup {[status |-> rec[r]["slog"].status,
                                        bytes |-> rec[r]["slog"].bytes, id |-> id[r]]}
      BY <1>6, <2>3, Zenon DEF SLogReturns, WireOK
    <3>2. /\ logged[r] = {} /\ "slog" \in Recorders
          /\ rec[r]["slog"].status = Completed(sent[r])
          /\ rec[r]["slog"].bytes = sent[r].bytes
      BY <1>t, <2>1, Zenon DEF Recorded, Recorders
    <3> DEFINE line == [status |-> rec[r]["slog"].status,
                        bytes |-> rec[r]["slog"].bytes, id |-> id[r]]
    <3>3. /\ line.status = Completed(sent'[r]) /\ line.bytes = sent'[r].bytes
          /\ line.id = id'[r]
      BY <2>1, <3>2, Zenon
    <3>4. logged'[r] = {line}
      BY <3>1, <3>2, Zenon
    <3> HIDE DEF line
    <3> QED  BY <2>1, <2>3, <3>3, <3>4, Zenon DEF Recorded
  <2> QED  BY <2>2, <2>3, Zenon
<1>7. ASSUME NEW r \in Requests, RecoverReturns(r)
      PROVE  Recorded(r)'
  <2>1. /\ pc[r] = "recover-" /\ pc'[r] = "done"
        /\ UNCHANGED <<writes, rec, id, logged>>
        /\ sent'[r] = SendHeader(sent[r], IF panicking[r] THEN 500 ELSE 200)
    BY <1>7, Zenon DEF RecoverReturns, WireOK
  <2>2. /\ sent'[r].bytes = sent[r].bytes
        /\ ~panicking[r] => sent'[r].status = Completed(sent[r])
        /\ panicking[r] => sent'[r].status = IF sent[r].status = 0 THEN 500 ELSE sent[r].status
    BY <1>t, <2>1 DEF SendHeader, Completed, Wire
  <2>3. CASE panicking[r]
    <3>1. /\ logged[r] = {}
          /\ IF writes[r] = 0 THEN sent[r].status = 0
             ELSE sent[r].status # 0 /\ sent[r].status = rec[r]["slog"].status
      BY <1>t, <2>1, <2>3, ZenonT(40) DEF Recorded
    <3>2. sent'[r].status = IF writes'[r] = 0 THEN 500 ELSE rec'[r]["slog"].status
      BY <2>1, <2>2, <2>3, <3>1, Zenon
    <3>3. logged'[r] = {} /\ pc'[r] = "done"
      BY <2>1, <3>1, Zenon
    <3> QED  BY <3>2, <3>3, Zenon DEF Recorded
  <2>4. CASE ~panicking[r]
    <3>1. /\ \A line \in logged[r] : line.status = sent'[r].status
          /\ \A line \in logged[r] : line.bytes = sent'[r].bytes /\ line.id = id'[r]
          /\ logged[r] = {} => writes[r] = 0 /\ sent'[r].status = 429
      BY <1>t, <2>1, <2>2, <2>4 DEF Recorded, Completed
    <3> QED  BY <2>1, <3>1, Zenon DEF Recorded
  <2> QED  BY <2>3, <2>4, Zenon
<1>8. ASSUME NEW r \in Requests, Step(r)
      PROVE  RecorderInv'
  <2>1. Recorded(r)'
    BY <1>1, <1>2, <1>3, <1>4, <1>5, <1>6, <1>7, <1>8, Zenon DEF Step
  <2>2. ASSUME NEW q \in Requests, q # r PROVE Recorded(q)'
    BY <1>8, <1>o, <2>2, OthersUntouched, Zenon
  <2> QED
    BY <2>1, <2>2, Zenon DEF RecorderInv
<1>9. CASE UNCHANGED vars
  <2>1. ASSUME NEW q \in Requests PROVE Untouched(q)
    BY <1>9, Zenon DEF vars, Untouched
  <2> QED
    BY <1>o, <2>1, Zenon DEF RecorderInv
<1> QED
  BY <1>8, <1>9, Zenon DEF Next, Step

(* The recorders agree with the connection in every reachable state.        *)
THEOREM RecorderCorrect == Spec => []RecorderInv
<1>1. Init => WireOK /\ RecorderInv
  <2> SUFFICES ASSUME Init PROVE WireOK /\ RecorderInv  BY Zenon
  <2>1. WireOK
    BY MiddlewareAssumption DEF Init, WireOK, Frames, Wire, Recorder, AllCodes, newStatusRecorder
  <2>2. ASSUME NEW r \in Requests PROVE Recorded(r)
    BY <2>2, Zenon DEF Init, Recorded, Completed, newStatusRecorder
  <2> QED  BY <2>1, <2>2, Zenon DEF RecorderInv
<1>2. WireOK /\ RecorderInv /\ [Next]_vars => (WireOK /\ RecorderInv)'
  BY WireStep, RecorderStep, Zenon
<1> QED  BY <1>1, <1>2, PTL DEF Spec

(* The access log tells what the client got, for every handler.             *)
THEOREM LogCorrect == Spec => []LogMatchesWire
<1>1. RecorderInv => LogMatchesWire
  BY DEF RecorderInv, Recorded, LogMatchesWire, Done
<1> QED  BY <1>1, RecorderCorrect, PTL

(* A handler that panics before it writes is answered 500, and a later      *)
(* panic changes nothing of what was sent, for every handler.               *)
THEOREM PanicCorrect == Spec => []PanicAnswered
<1>1. ASSUME RecorderInv, NEW r \in Crashed
      PROVE  sent[r].status = IF writes[r] = 0 THEN 500 ELSE rec[r]["slog"].status
  <2>1. r \in Requests /\ pc[r] = "done" /\ logged[r] = {} /\ r \notin Refused
    BY Zenon DEF Crashed, Done
  <2>2. ~(writes[r] = 0 /\ sent[r].status = 429)
    BY <2>1, Zenon DEF Refused
  <2>3. Recorded(r)
    BY <1>1, <2>1, Zenon DEF RecorderInv
  <2> QED  BY <2>1, <2>2, <2>3, Zenon DEF Recorded
<1>2. RecorderInv => PanicAnswered
  BY <1>1, Zenon DEF PanicAnswered
<1> QED  BY <1>2, RecorderCorrect, PTL

(* The state of the chain stays in its type: no request leaves the frames,  *)
(* no gauge goes negative, and only status codes are counted and logged.    *)
THEOREM TypeCorrect == Spec => []TypeOK
<1> DEFINE Names == Ids \cup {NoId, Uuid}
           Line == [status : AllCodes, bytes : Nat, id : Names]
           Rest == /\ panicking \in [Requests -> BOOLEAN]
                   /\ id \in [Requests -> Names]
                   /\ logged \in [Requests -> SUBSET Line]
                   /\ requests \in [AllCodes -> Nat]
                   /\ panics \in Nat /\ limited \in Nat
           Flight == pc \in [Requests -> Frames] /\ inflight \in Nat /\ InflightExact
<1>1. Init => WireOK /\ RecorderInv /\ Rest /\ Flight
  <2> SUFFICES ASSUME Init PROVE WireOK /\ RecorderInv /\ Rest /\ Flight  BY Zenon
  <2>1. WireOK
    BY MiddlewareAssumption DEF Init, WireOK, Frames, Wire, Recorder, AllCodes, newStatusRecorder
  <2>2. ASSUME NEW r \in Requests PROVE Recorded(r)
    BY <2>2, Zenon DEF Init, Recorded, Completed, newStatusRecorder
  <2>3. Rest
    BY Zenon DEF Init
  <2>4. InFlight = {}
    BY Zenon DEF Init, InFlight
  <2>5. Flight
    BY <2>1, <2>4, FS_EmptySet, Zenon DEF Init, InflightExact, WireOK
  <2> QED  BY <2>1, <2>2, <2>3, <2>5, Zenon DEF RecorderInv
<1>2. WireOK /\ Rest /\ [Next]_vars => Rest'
  <2> SUFFICES ASSUME WireOK, Rest, [Next]_vars PROVE Rest'  BY Zenon
  <2>1. ASSUME NEW r \in Requests, Enter(r) \/ RateLimited(r) PROVE Rest'
    <3>1. id' \in [Requests -> Names]
      BY <2>1 DEF Enter, RateLimited, RequestID
    <3>2. limited' \in Nat /\ UNCHANGED <<panicking, logged, requests, panics>>
      BY <2>1 DEF Enter, RateLimited
    <3> QED  BY <3>1, <3>2, Zenon
  <2>2. ASSUME NEW r \in Requests, MetricsReturns(r) PROVE Rest'
    <3>1. rec[r]["metrics"].status \in AllCodes
      BY DEF WireOK, Recorders, Recorder
    <3>2. requests' \in [AllCodes -> Nat]
      BY <2>2, <3>1 DEF MetricsReturns
    <3> QED  BY <2>2, <3>2, Zenon DEF MetricsReturns
  <2>3. ASSUME NEW r \in Requests, SLogReturns(r) PROVE Rest'
    <3> DEFINE line == [status |-> rec[r]["slog"].status,
                        bytes |-> rec[r]["slog"].bytes, id |-> id[r]]
    <3>1. line \in Line
      BY DEF WireOK, Recorders, Recorder
    <3>2. \/ logged' = logged
          \/ logged' = [logged EXCEPT ![r] = @ \cup {line}]
      BY <2>3, Zenon DEF SLogReturns
    <3> HIDE DEF line, Line
    <3>3. logged' \in [Requests -> SUBSET Line]
      BY <3>1, <3>2
    <3> QED  BY <2>3, <3>3, Zenon DEF SLogReturns
  <2>4. ASSUME NEW r \in Requests, HandlerPanics(r) \/ RecoverReturns(r) PROVE Rest'
    <3>1. panicking' \in [Requests -> BOOLEAN]
      BY <2>4, Zenon DEF HandlerPanics, RecoverReturns
    <3>2. panics' \in Nat /\ UNCHANGED <<id, logged, requests, limited>>
      BY <2>4 DEF HandlerPanics, RecoverReturns
    <3> QED  BY <3>1, <3>2, Zenon
  <2>5. ASSUME NEW r \in Requests,
               \/ \E code \in Codes : HandlerWritesHeader(r, code)
               \/ HandlerWritesBody(r) \/ HandlerReturns(r)
        PROVE  Rest'
    BY <2>5, Zenon DEF HandlerWritesHeader, HandlerWritesBody, HandlerReturns
  <2>6. CASE UNCHANGED vars
    BY <2>6, Zenon DEF vars
  <2> QED  BY <2>1, <2>2, <2>3, <2>4, <2>5, <2>6, Zenon DEF Next
<1>3. WireOK /\ RecorderInv /\ Flight /\ [Next]_vars => (WireOK /\ RecorderInv /\ Flight)'
  BY WireStep, RecorderStep, FlightStep, Zenon
<1>4. WireOK /\ Rest /\ Flight => TypeOK
  BY Zenon DEF WireOK, TypeOK, Wire, Recorder
<1> HIDE DEF Rest, Flight
<1> QED  BY <1>1, <1>2, <1>3, <1>4, PTL DEF Spec

(***************************************************************************)
(* The counters.                                                           *)
(***************************************************************************)
\* How the size of a set follows the membership of r, if only that changes.
Sized(S, T, r) ==
    /\ (r \in T <=> r \in S) => Cardinality(T) = Cardinality(S)
    /\ r \notin S /\ r \in T => Cardinality(T) = Cardinality(S) + 1

(* The size of a finite set grows by one with the request that joins it.    *)
LEMMA SizedFacts ==
    ASSUME NEW S, NEW T, NEW r, IsFiniteSet(S), \A q : q # r => (q \in T <=> q \in S)
    PROVE  Sized(S, T, r)
<1>1. ASSUME r \in T <=> r \in S PROVE Cardinality(T) = Cardinality(S)
  <2>1. \A q : q \in T <=> q \in S
    BY <1>1, Zenon
  <2>2. T = S
    BY <2>1, Zenon
  <2> QED
    BY <2>2, Zenon
<1>2. ASSUME r \notin S, r \in T PROVE Cardinality(T) = Cardinality(S) + 1
  <2>1. \A q : q \in T <=> q \in S \cup {r}
    BY <1>2, Zenon
  <2>2. T = S \cup {r}
    BY <2>1, Zenon
  <2> QED
    BY <1>2, <2>2, FS_AddElement, Zenon
<1> QED
  BY <1>1, <1>2, Zenon DEF Sized

(* The classes change with the request that takes the step, and with no     *)
(* other.                                                                   *)
LEMMA ClassesSized ==
    ASSUME WireOK, NEW r \in Requests, Step(r)
    PROVE  /\ \A c : Sized(Answered(c), Answered(c)', r)
           /\ Sized(Refused, Refused', r) /\ Sized(Crashed, Crashed', r)
<1>1. IsFiniteSet(Requests)
  BY MiddlewareAssumption, Zenon DEF MiddlewareAssumption
<1>2. ASSUME NEW q \in Requests, q # r PROVE Untouched(q)
  BY <1>2, OthersUntouched, Zenon
<1>3. ASSUME NEW c PROVE Sized(Answered(c), Answered(c)', r)
  <2>1. \A q : q # r => (q \in Answered(c)' <=> q \in Answered(c))
    BY <1>2, Zenon DEF Answered, Untouched
  <2>2. IsFiniteSet(Answered(c))
    <3>1. Answered(c) \subseteq Requests
      BY Zenon DEF Answered
    <3> QED
      BY <1>1, <3>1, FS_Subset, Zenon
  <2> QED
    BY <2>1, <2>2, SizedFacts, Zenon
<1>4. \A q : q # r => (q \in Refused' <=> q \in Refused)
  <2>1. ASSUME NEW q \in Requests, Untouched(q) PROVE q \in Refused' <=> q \in Refused
    BY <2>1 DEF Refused, Untouched
  <2>2. \A q : (q \in Refused => q \in Requests) /\ (q \in Refused' => q \in Requests)
    BY Zenon DEF Refused
  <2> QED
    BY <1>2, <2>1, <2>2, Zenon
<1>5. Sized(Refused, Refused', r)
  <2>1. Refused \subseteq Requests
    BY Zenon DEF Refused
  <2>2. IsFiniteSet(Refused)
    BY <1>1, <2>1, FS_Subset, Zenon
  <2> QED
    BY <1>4, <2>2, SizedFacts, Zenon
<1>6. Sized(Crashed, Crashed', r)
  <2>1. \A q : q # r => (q \in Crashed' <=> q \in Crashed)
    BY <1>2, <1>4, Zenon DEF Crashed, Done, Untouched
  <2>2. Crashed \subseteq Requests
    BY Zenon DEF Crashed, Done
  <2>3. IsFiniteSet(Crashed)
    BY <1>1, <2>2, FS_Subset, Zenon
  <2> QED
    BY <2>1, <2>3, SizedFacts, Zenon
<1> QED
  BY <1>3, <1>5, <1>6, Zenon

\* A request that no counter has seen yet.
Uncounted(r) ==
    \/ pc[r] \in {"arriving", "handler", "metrics-"}
    \/ pc[r] \in {"slog-", "recover-"} /\ panicking[r]

\* A request that returned, and one that was refused.
Returned(r) ==
    \/ pc[r] = "slog-" /\ ~panicking[r]
    \/ pc[r] \in {"recover-", "done"} /\ logged[r] # {}
TurnedAway(r) ==
    /\ pc[r] \in {"recover-", "done"} /\ logged[r] = {}
    /\ writes[r] = 0 /\ sent[r].status = 429

\* The classes that r is in: one of them at most.
Only(r, answered, refused, crashed) ==
    /\ \A c : r \in Answered(c) <=> answered /\ c = Completed(sent[r])
    /\ r \in Refused <=> refused
    /\ r \in Crashed <=> crashed

Classified(r) ==
    /\ Uncounted(r) => Only(r, FALSE, FALSE, FALSE)
    /\ Returned(r) => Only(r, TRUE, FALSE, FALSE)
    /\ TurnedAway(r) => Only(r, FALSE, TRUE, FALSE)

(* Where a request is and what it has done tell its class.                  *)
LEMMA ClassFacts ==
    ASSUME NEW r \in Requests, Recorded(r)
    PROVE  Classified(r)
<1>1. ASSUME Uncounted(r) PROVE Only(r, FALSE, FALSE, FALSE)
  <2>1. /\ logged[r] = {} /\ ~(pc[r] = "slog-" /\ ~panicking[r]) /\ pc[r] # "done"
        /\ ~TurnedAway(r)
    BY <1>1 DEF Uncounted, Recorded, TurnedAway
  <2> QED
    BY <2>1, Zenon DEF Only, Answered, Refused, Crashed, Done, TurnedAway
<1>2. ASSUME Returned(r) PROVE Only(r, TRUE, FALSE, FALSE)
  <2>1. /\ logged[r] # {} \/ (pc[r] = "slog-" /\ ~panicking[r])
        /\ ~TurnedAway(r) /\ ~(pc[r] = "done" /\ logged[r] = {})
    BY <1>2, Zenon DEF Returned, TurnedAway
  <2> QED
    BY <2>1, Zenon DEF Only, Answered, Refused, Crashed, Done, TurnedAway
<1>3. ASSUME TurnedAway(r) PROVE Only(r, FALSE, TRUE, FALSE)
  <2>1. logged[r] = {} /\ pc[r] # "slog-"
    BY <1>3, Zenon DEF TurnedAway
  <2>2. r \in Refused
    BY <1>3, Zenon DEF TurnedAway, Refused
  <2> QED
    BY <2>1, <2>2, Zenon DEF Only, Answered, Crashed
<1> QED
  BY <1>1, <1>2, <1>3, Zenon DEF Classified

(* The same after a step.                                                   *)
LEMMA ClassFactsAfter ==
    ASSUME NEW r \in Requests, Recorded(r)'
    PROVE  Classified(r)'
  BY ClassFacts, PTL

(* A step that counts nothing and leaves its request in its class.          *)
LEMMA Unmoved ==
    ASSUME WireOK, CountedOnce, NEW r \in Requests, Step(r),
           requests' = requests, limited' = limited, panics' = panics,
           NEW a \in BOOLEAN, NEW f \in BOOLEAN, Only(r, a, f, FALSE), Only(r, a, f, FALSE)',
           a => Completed(sent[r])' = Completed(sent[r])
    PROVE  CountedOnce'
<1>1. ASSUME NEW c PROVE Cardinality(Answered(c)') = Cardinality(Answered(c))
  <2>1. r \in Answered(c)' <=> r \in Answered(c)
    BY Zenon DEF Only
  <2> QED
    BY <2>1, ClassesSized, Zenon DEF Sized
<1>2. Cardinality(Refused') = Cardinality(Refused)
  BY ClassesSized, Zenon DEF Sized, Only
<1>3. Cardinality(Crashed') = Cardinality(Crashed)
  BY ClassesSized, Zenon DEF Sized, Only
<1> QED
  BY <1>1, <1>2, <1>3, Zenon DEF CountedOnce

(* A request that enters a class has just been counted for it.              *)
LEMMA Entered ==
    ASSUME WireOK, CountedOnce, NEW r \in Requests, Step(r),
           Only(r, FALSE, FALSE, FALSE),
           NEW a \in BOOLEAN, NEW f \in BOOLEAN, NEW p \in BOOLEAN, Only(r, a, f, p)',
           \A c \in AllCodes : requests'[c] = IF a /\ c = Completed(sent[r])'
                                              THEN requests[c] + 1 ELSE requests[c],
           limited' = IF f THEN limited + 1 ELSE limited,
           panics' = IF p THEN panics + 1 ELSE panics
    PROVE  CountedOnce'
<1>1. ASSUME NEW c \in AllCodes PROVE requests'[c] = Cardinality(Answered(c)')
  <2>1. r \notin Answered(c) /\ (r \in Answered(c)' <=> a /\ c = Completed(sent[r])')
    BY Zenon DEF Only
  <2>2. requests[c] = Cardinality(Answered(c)) /\ Sized(Answered(c), Answered(c)', r)
    BY ClassesSized, Zenon DEF CountedOnce
  <2> QED
    BY <2>1, <2>2, Zenon DEF Sized
<1>2. limited' = Cardinality(Refused')
  <2>1. r \notin Refused /\ (r \in Refused' <=> f)
    BY Zenon DEF Only
  <2>2. limited = Cardinality(Refused) /\ Sized(Refused, Refused', r)
    BY ClassesSized, Zenon DEF CountedOnce
  <2> QED
    BY <2>1, <2>2, Zenon DEF Sized
<1>3. panics' = Cardinality(Crashed')
  <2>1. r \notin Crashed /\ (r \in Crashed' <=> p)
    BY Zenon DEF Only
  <2>2. panics = Cardinality(Crashed) /\ Sized(Crashed, Crashed', r)
    BY ClassesSized, Zenon DEF CountedOnce
  <2> QED
    BY <2>1, <2>2, Zenon DEF Sized
<1> QED
  BY <1>1, <1>2, <1>3, Zenon DEF CountedOnce

(* A step that counts nothing, of a request in no class.                    *)
LEMMA Quiet ==
    ASSUME WireOK, CountedOnce, NEW r \in Requests, Recorded(r), Recorded(r)',
           Step(r), Uncounted(r), Uncounted(r)',
           requests' = requests, limited' = limited, panics' = panics
    PROVE  CountedOnce'
<1>1. Only(r, FALSE, FALSE, FALSE)
  BY ClassFacts, Zenon DEF Classified
<1>2. Only(r, FALSE, FALSE, FALSE)'
  BY ClassFacts, ClassFactsAfter, Zenon DEF Classified
<1> QED
  BY <1>1, <1>2, Unmoved, Zenon

(* Nothing is counted on the way in and in the handler.                     *)
LEMMA HandlerCounts ==
    ASSUME WireOK, CountedOnce, NEW r \in Requests, Recorded(r), Recorded(r)',
           \/ Enter(r) \/ \E code \in Codes : HandlerWritesHeader(r, code)
           \/ HandlerWritesBody(r) \/ HandlerReturns(r) \/ HandlerPanics(r)
    PROVE  CountedOnce'
<1>1. Step(r)
  BY Zenon DEF Step
<1>2. /\ pc[r] \in {"arriving", "handler"} /\ pc'[r] \in {"handler", "metrics-"}
      /\ requests' = requests /\ limited' = limited /\ panics' = panics
  BY Zenon DEF Enter, HandlerWritesHeader, HandlerWritesBody, HandlerReturns,
     HandlerPanics, Goto, WireOK
<1>3. Uncounted(r) /\ Uncounted(r)'
  BY <1>2, Zenon DEF Uncounted
<1> QED
  BY Quiet, <1>1, <1>2, <1>3, Zenon

(* RateLimit counts what it refuses.                                        *)
LEMMA RefusalCounts ==
    ASSUME WireOK, CountedOnce, NEW r \in Requests, Recorded(r), Recorded(r)',
           RateLimited(r)
    PROVE  CountedOnce'
<1>1. Step(r) /\ Uncounted(r)
  BY Zenon DEF Step, RateLimited, Uncounted
<1>2. TurnedAway(r)'
  <2>1. pc'[r] = "recover-" /\ writes'[r] = 0 /\ logged'[r] = {} /\ ~panicking'[r]
    BY DEF RateLimited, Goto, WireOK, Recorded
  <2> QED
    BY <2>1, ZenonT(40) DEF Recorded, TurnedAway
<1>3. Only(r, FALSE, FALSE, FALSE) /\ Only(r, FALSE, TRUE, FALSE)'
  BY <1>1, <1>2, ClassFacts, ClassFactsAfter, Zenon DEF Classified
<1>4. requests' = requests /\ limited' = limited + 1 /\ panics' = panics
  BY Zenon DEF RateLimited
<1> QED
  BY <1>1, <1>3, <1>4, Entered, Zenon

(* Metrics counts what returns, under the status that was sent.             *)
LEMMA MetricsCounts ==
    ASSUME WireOK, CountedOnce, NEW r \in Requests, Recorded(r), Recorded(r)',
           DOMAIN requests = AllCodes, MetricsReturns(r)
    PROVE  CountedOnce'
<1>1. /\ Step(r) /\ Uncounted(r) /\ pc[r] = "metrics-" /\ pc'[r] = "slog-"
      /\ panicking' = panicking /\ limited' = limited /\ panics' = panics /\ sent' = sent
  BY Zenon DEF Step, MetricsReturns, Uncounted, Goto, WireOK
<1>2. CASE panicking[r]
  <2>1. Uncounted(r)' /\ requests' = requests
    BY <1>1, <1>2, Zenon DEF Uncounted, MetricsReturns
  <2> QED
    BY Quiet, <1>1, <2>1, Zenon
<1>3. CASE ~panicking[r]
  <2>1. Returned(r)'
    BY <1>1, <1>3, Zenon DEF Returned
  <2>2. Only(r, FALSE, FALSE, FALSE) /\ Only(r, TRUE, FALSE, FALSE)'
    BY <1>1, <2>1, ClassFacts, ClassFactsAfter, Zenon DEF Classified
  <2>3. rec[r]["metrics"].status = Completed(sent[r])'
    <3>1. "metrics" \in Recorders
      BY Zenon DEF Recorders
    <3> QED
      BY <1>1, <3>1, Zenon DEF Recorded
  <2>4. requests' = [requests EXCEPT ![Completed(sent[r])'] = @ + 1]
    BY <1>3, <2>3, Zenon DEF MetricsReturns
  <2>5. \A c \in AllCodes : requests'[c] = IF TRUE /\ c = Completed(sent[r])'
                                           THEN requests[c] + 1 ELSE requests[c]
    BY <2>4, Zenon
  <2> QED
    BY <1>1, <2>2, <2>5, Entered, Zenon
<1> QED
  BY <1>2, <1>3, Zenon

(* SLog only logs: what returned has been counted, what panics has not.     *)
LEMMA SLogCounts ==
    ASSUME WireOK, CountedOnce, NEW r \in Requests, Recorded(r), Recorded(r)',
           SLogReturns(r)
    PROVE  CountedOnce'
<1>1. /\ Step(r) /\ pc[r] = "slog-" /\ pc'[r] = "recover-" /\ panicking' = panicking
      /\ sent' = sent /\ requests' = requests /\ limited' = limited /\ panics' = panics
  BY Zenon DEF Step, SLogReturns, Goto, WireOK
<1>2. CASE panicking[r]
  <2>1. Uncounted(r) /\ Uncounted(r)'
    BY <1>1, <1>2, Zenon DEF Uncounted
  <2> QED
    BY Quiet, <1>1, <2>1, Zenon
<1>3. CASE ~panicking[r]
  <2>1. logged'[r] # {}
    BY <1>3, Zenon DEF SLogReturns, WireOK
  <2>2. Returned(r) /\ Returned(r)'
    BY <1>1, <1>3, <2>1, Zenon DEF Returned
  <2>3. Only(r, TRUE, FALSE, FALSE) /\ Only(r, TRUE, FALSE, FALSE)'
    BY <2>2, ClassFacts, ClassFactsAfter, Zenon DEF Classified
  <2>4. Completed(sent[r])' = Completed(sent[r])
    BY <1>1, Zenon DEF Completed
  <2> QED
    BY <1>1, <2>3, <2>4, Unmoved, Zenon
<1> QED
  BY <1>2, <1>3, Zenon

(* Recover counts the panics, and no response a second time.                *)
LEMMA RecoverCounts ==
    ASSUME WireOK, CountedOnce, NEW r \in Requests, Recorded(r), Recorded(r)',
           RecoverReturns(r)
    PROVE  CountedOnce'
<1>1. /\ Step(r) /\ pc[r] = "recover-" /\ pc'[r] = "done" /\ writes' = writes
      /\ logged' = logged /\ requests' = requests /\ limited' = limited
  BY Zenon DEF Step, RecoverReturns, Goto, WireOK
<1>2. sent'[r] = SendHeader(sent[r], IF panicking[r] THEN 500 ELSE 200) /\ sent[r] \in Wire
  BY Zenon DEF RecoverReturns, WireOK
<1>3. CASE panicking[r]
  <2>1. panics' = panics + 1 /\ logged[r] = {} /\ (writes[r] = 0 => sent[r].status = 0)
    BY <1>1, <1>3, Zenon DEF RecoverReturns, Recorded
  <2>2. Uncounted(r)
    BY <1>1, <1>3, Zenon DEF Uncounted
  <2>3. Only(r, FALSE, FALSE, FALSE)
    BY <2>2, ClassFacts, ZenonT(40) DEF Classified
  <2>4. ~TurnedAway(r)'
    <3>1. writes[r] = 0 => sent'[r].status = 500
      BY <1>2, <1>3, <2>1 DEF SendHeader, Wire
    <3> QED
      BY <1>1, <3>1 DEF TurnedAway
  <2>5. r \notin Refused'
    BY <2>4, Zenon DEF TurnedAway, Refused
  <2>6. r \in Crashed'
    BY <1>1, <2>1, <2>5, Zenon DEF Crashed, Done
  <2>7. \A c : r \notin Answered(c)'
    <3>1. logged'[r] = {} /\ pc'[r] # "slog-"
      BY <1>1, <2>1, Zenon
    <3> QED
      BY <3>1, Zenon DEF Answered
  <2>8. Only(r, FALSE, FALSE, TRUE)'
    BY <2>5, <2>6, <2>7, Zenon DEF Only
  <2> QED
    BY <1>1, <2>1, <2>3, <2>8, Entered, Zenon
<1>4. CASE ~panicking[r]
  <2>1. /\ panics' = panics
        /\ Completed(sent[r])' = Completed(sent[r])
        /\ sent[r].status = 429 => sent'[r].status = 429
    BY <1>2, <1>4 DEF RecoverReturns, SendHeader, Completed, Wire
  <2>2. CASE logged[r] # {}
    <3>1. Returned(r) /\ Returned(r)'
      BY <1>1, <2>2, Zenon DEF Returned
    <3>2. Only(r, TRUE, FALSE, FALSE) /\ Only(r, TRUE, FALSE, FALSE)'
      BY <3>1, ClassFacts, ClassFactsAfter, Zenon DEF Classified
    <3> QED
      BY <1>1, <2>1, <3>2, Unmoved, Zenon
  <2>3. CASE logged[r] = {}
    <3>1. sent[r].status = 429 /\ writes[r] = 0
      BY <1>1, <1>4, <2>3, Zenon DEF Recorded
    <3>2. TurnedAway(r) /\ TurnedAway(r)'
      BY <1>1, <2>1, <2>3, <3>1, Zenon DEF TurnedAway
    <3>3. Only(r, FALSE, TRUE, FALSE) /\ Only(r, FALSE, TRUE, FALSE)'
      BY <3>2, ClassFacts, ClassFactsAfter, Zenon DEF Classified
    <3> QED
      BY <1>1, <2>1, <3>3, Unmoved, ZenonT(40)
  <2> QED
    BY <2>2, <2>3, Zenon
<1> QED
  BY <1>3, <1>4, Zenon

(* Each step counts its request exactly when the request enters a class.    *)
LEMMA CountStep ==
    ASSUME WireOK, RecorderInv, RecorderInv', DOMAIN requests = AllCodes, CountedOnce,
           [Next]_vars
    PROVE  CountedOnce'
<1>1. ASSUME NEW r \in Requests PROVE Recorded(r) /\ Recorded(r)'
  BY Zenon DEF RecorderInv
<1>2. ASSUME NEW r \in Requests, Step(r) PROVE CountedOnce'
  <2>1. CASE \/ Enter(r) \/ \E code \in Codes : HandlerWritesHeader(r, code)
             \/ HandlerWritesBody(r) \/ HandlerReturns(r) \/ HandlerPanics(r)
    BY <1>1, <2>1, HandlerCounts, Zenon
  <2>2. CASE RateLimited(r)
    BY <1>1, <2>2, RefusalCounts, Zenon
  <2>3. CASE MetricsReturns(r)
    BY <1>1, <2>3, MetricsCounts, Zenon
  <2>4. CASE SLogReturns(r)
    BY <1>1, <2>4, SLogCounts, Zenon
  <2>5. CASE RecoverReturns(r)
    BY <1>1, <2>5, RecoverCounts, Zenon
  <2> QED
    BY <1>2, <2>1, <2>2, <2>3, <2>4, <2>5, Zenon DEF Step
<1>3. CASE UNCHANGED vars
  <2>1. /\ pc' = pc /\ panicking' = panicking /\ writes' = writes /\ sent' = sent
        /\ logged' = logged /\ requests' = requests /\ limited' = limited /\ panics' = panics
    BY <1>3, Zenon DEF vars
  <2>2. \A c : Answered(c)' = Answered(c)
    BY <2>1, Zenon DEF Answered
  <2>3. Refused' = Refused
    BY <2>1, ZenonT(40) DEF Refused
  <2>4. Crashed' = Crashed
    BY <2>1, <2>3, Zenon DEF Crashed, Done
  <2> QED
    BY <2>1, <2>2, <2>3, <2>4, Zenon DEF CountedOnce
<1> QED
  BY <1>2, <1>3, Zenon DEF Next, Step

(* Requests, refusals and panics are counted exactly once each, and under   *)
(* the status the client got, for any number of requests and any handler.   *)
THEOREM CountedCorrect == Spec => []CountedOnce
<1>1. Init => CountedOnce
  <2> SUFFICES ASSUME Init PROVE CountedOnce
    BY Zenon
  <2>1. \A r \in Requests : pc[r] = "arriving" /\ logged[r] = {}
    BY Zenon DEF Init
  <2>2. (\A c : Answered(c) = {}) /\ Refused = {} /\ Crashed = {}
    BY <2>1 DEF Answered, Refused, Crashed, Done
  <2>3. Cardinality({}) = 0
    BY FS_EmptySet, Zenon
  <2> QED
    BY <2>2, <2>3, Zenon DEF Init, CountedOnce
<1>2. TypeOK => WireOK /\ DOMAIN requests = AllCodes
  BY Zenon DEF TypeOK, WireOK, Wire, Recorder
<1>3. WireOK /\ RecorderInv /\ RecorderInv' /\ DOMAIN requests = AllCodes
        /\ CountedOnce /\ [Next]_vars => CountedOnce'
  BY CountStep, Zenon
<1> QED  BY <1>1, <1>2, <1>3, TypeCorrect, RecorderCorrect, PTL DEF Spec

=============================================================================
