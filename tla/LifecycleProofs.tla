--------------------------- MODULE LifecycleProofs ---------------------------
(***************************************************************************)
(* Shutdown loses nothing it does not own up to, for any set of requests;  *)
(* and its deadlines fit together for every configuration that             *)
(* config.validate accepts.                                                *)
(***************************************************************************)
EXTENDS Lifecycle, Timeouts, TLAPS

(* What receiving from and sending on errCh leaves a channel of.            *)
LEMMA ChannelFacts ==
    ASSUME NEW S, NEW ch \in Seq(S)
    PROVE  /\ ch # <<>> => Head(ch) \in S /\ Tail(ch) \in Seq(S)
           /\ \A e \in S : Append(ch, e) \in Seq(S)
  OBVIOUS

(* Every step of the process keeps every variable in its type.              *)
LEMMA TypeStep == DrainTypeOK /\ [Next]_vars => DrainTypeOK'
<1> SUFFICES ASSUME DrainTypeOK, [Next]_vars PROVE DrainTypeOK'
  BY Zenon
<1> USE DEF DrainTypeOK, Servers, Public, Admin, Mains, Errors, Running
<1>1. CASE SetupFails \/ FlushAndExit
  BY <1>1, Zenon DEF SetupFails, FlushAndExit, Exit
<1>2. CASE DispatcherFails
  BY <1>2, Zenon DEF DispatcherFails
<1>12. CASE StartServers
  BY <1>12, Zenon DEF StartServers
<1>22. CASE MarkReady
  BY <1>22, Zenon DEF MarkReady
<1>32. CASE SelectSignal
  BY <1>32, Zenon DEF SelectSignal
<1>42. CASE MarkUnready
  BY <1>42, Zenon DEF MarkUnready
<1>3. CASE SelectListener
  <2>1. Head(errCh) \in ListenErrors /\ Tail(errCh) \in Seq(ListenErrors)
    BY <1>3, ChannelFacts, Zenon DEF SelectListener
  <2> QED BY <1>3, <2>1, Zenon DEF SelectListener, ListenErrors
<1>4. CASE PublicDrained \/ AdminDrained \/ BudgetExpires
  BY <1>4, Zenon DEF PublicDrained, AdminDrained, BudgetExpires, FirstError
<1>5. ASSUME NEW s \in Servers, Bind(s) \/ ListenerFails(s) \/ ListenerClosed(s)
      PROVE DrainTypeOK'
  <2>1. \A e \in ListenErrors : Append(errCh, e) \in Seq(ListenErrors)
    BY ChannelFacts, Zenon
  <2>2. {"nil", "listener"} = ListenErrors
    BY Zenon DEF ListenErrors
  <2> QED BY <1>5, <2>1, <2>2, ZenonT(40) DEF Bind, ListenerFails, ListenerClosed, Report
<1>6. ASSUME NEW r \in Requests, Accept(r) \/ Finish(r) PROVE DrainTypeOK'
  BY <1>6 DEF Accept, Finish
<1>7. CASE Sigterm \/ Readyz \/ UNCHANGED vars
  BY <1>7 DEF Sigterm, Readyz, vars
<1> HIDE DEF DrainTypeOK, DrainInv
<1> QED BY <1>1, <1>2, <1>3, <1>4, <1>5, <1>6, <1>7, <1>12, <1>22, <1>32, <1>42, Zenon
        DEF Next, Main

(* Every step of the process keeps DrainInv.                                *)
LEMMA DrainStep == DrainTypeOK /\ DrainInv /\ [Next]_vars => DrainInv'
<1> SUFFICES ASSUME DrainTypeOK, DrainInv, [Next]_vars PROVE DrainInv'
  BY Zenon
<1> USE DEF DrainTypeOK, DrainInv, ExitZeroMeansDrained, AdminOutlivesPublic, Active,
            Servers, Public, Admin, Mains, Errors, Running
<1>1. CASE SetupFails
  <2>1. \A r \in Requests : request'[r] # "active"
    BY <1>1, Zenon DEF SetupFails, Exit
  <2>2. AdminOutlivesPublic'
    BY <1>1, Zenon DEF SetupFails
  <2>3. main' = "exited" /\ exitCode' = 1
    <3> HIDE DEF DrainTypeOK, DrainInv
    <3> QED BY <1>1, Zenon DEF SetupFails, Exit
  <2>4. ExitZeroMeansDrained'
    <3> HIDE DEF DrainTypeOK, DrainInv
    <3> QED BY <2>3
  <2>5. exitCode' # Running
    <3> HIDE DEF DrainTypeOK, DrainInv
    <3> QED BY <2>3
  <2> QED BY <1>1, <2>1, <2>2, <2>3, <2>4, <2>5, Zenon DEF SetupFails
<1>2. CASE DispatcherFails \/ StartServers \/ MarkReady \/ SelectSignal
  BY <1>2, Zenon DEF DispatcherFails, StartServers, MarkReady, SelectSignal
<1>3. CASE SelectListener
  <2>1. Head(errCh) \in ListenErrors
    BY <1>3, ChannelFacts, Zenon DEF SelectListener
  <2> QED BY <1>3, <2>1, Zenon DEF SelectListener, ListenErrors
<1>4. CASE MarkUnready
  BY <1>4, Zenon DEF MarkUnready
<1>5. CASE PublicDrained
  BY <1>5 DEF PublicDrained, FirstError
<1>6. CASE AdminDrained
  BY <1>6, Zenon DEF AdminDrained, FirstError
<1>7. CASE FlushAndExit
  <2>1. \A r \in Requests : request'[r] = IF request[r] = "active" THEN "cut" ELSE request[r]
    BY <1>7, Zenon DEF FlushAndExit, Exit
  <2>2. ExitZeroMeansDrained'
    <3> SUFFICES ASSUME exitCode' = 0, NEW r \in Requests
                 PROVE  /\ request'[r] # "cut"
                        /\ request'[r] = "done" /\ flushed' = "ok" => r \in exported'
      BY Zenon
    <3>1. err = "nil"
      <4> HIDE DEF DrainTypeOK, DrainInv
      <4> QED BY <1>7 DEF FlushAndExit, Exit
    <3>2. request[r] \notin {"active", "cut"}
      BY <1>7, <3>1, Zenon DEF FlushAndExit
    <3> QED BY <1>7, <2>1, <3>2, Zenon DEF FlushAndExit
  <2>3. AdminOutlivesPublic'
    BY <1>7, <2>1, Zenon DEF FlushAndExit
  <2>4. \A r \in Requests : request'[r] # "active"
    BY <2>1, Zenon
  <2>5. main' = "exited" /\ exitCode' # Running
    <3> HIDE DEF DrainTypeOK, DrainInv
    <3> QED BY <1>7 DEF FlushAndExit, Exit
  <2> QED BY <1>7, <2>2, <2>3, <2>4, <2>5, Zenon DEF FlushAndExit
<1>8. CASE BudgetExpires \/ Sigterm \/ Readyz \/ UNCHANGED vars
  BY <1>8, ZenonT(40) DEF BudgetExpires, Sigterm, Readyz, vars
<1>9. ASSUME NEW s \in Servers, Bind(s) \/ ListenerFails(s) \/ ListenerClosed(s)
      PROVE DrainInv'
  <2>1. CASE Bind(s)
    BY <1>9, <2>1, Zenon DEF Bind
  <2>2. CASE ListenerFails(s)
    BY <1>9, <2>2, Zenon DEF ListenerFails, Report
  <2>3. CASE ListenerClosed(s)
    BY <1>9, <2>3, Zenon DEF ListenerClosed, Report
  <2> QED BY <1>9, <2>1, <2>2, <2>3, Zenon
<1>10. ASSUME NEW r \in Requests, Accept(r) PROVE DrainInv'
  BY <1>10, Zenon DEF Accept
<1>11. ASSUME NEW r \in Requests, Finish(r) PROVE DrainInv'
  <2>1. \A q \in Requests : request'[q] = IF q = r THEN "done" ELSE request[q]
    BY <1>11, Zenon DEF Finish
  <2>2. main # "exited"
    BY <1>11, Zenon DEF Finish
  <2>3. exitCode' = exitCode /\ exitCode = Running
    BY <1>11, <2>2, Zenon DEF Finish
  <2>4. AdminOutlivesPublic'
    BY <1>11, <2>1, Zenon DEF Finish
  <2>5. ExitZeroMeansDrained'
    <3> HIDE DEF DrainTypeOK, DrainInv
    <3> QED BY <2>3
  <2> QED BY <1>11, <2>1, <2>2, <2>3, <2>4, <2>5, Zenon DEF Finish
<1> HIDE DEF DrainTypeOK, DrainInv
<1> QED BY <1>1, <1>2, <1>3, <1>4, <1>5, <1>6, <1>7, <1>8, <1>9, <1>10, <1>11, Zenon
        DEF Next, Main

-----------------------------------------------------------------------------
(* Flags and reports. *)

(* The flags, the listeners and the tracer keep their types.                *)
LEMMA FlagStep == DrainTypeOK /\ TypeOK /\ [Next]_vars => TypeOK'
<1> SUFFICES ASSUME DrainTypeOK, TypeOK, [Next]_vars PROVE TypeOK'
  BY Zenon
<1>1. DrainTypeOK'
  BY TypeStep, Zenon
<1> DEFINE Flags == /\ sig \in BOOLEAN /\ ready \in BOOLEAN /\ budget \in BOOLEAN
                    /\ listener \in [Servers -> {"off", "starting", "serving", "returned"}]
                    /\ shut \subseteq Servers
                    /\ probe \in {"none", "200", "503"}
                    /\ flushed \in {"no", "ok", "failed"}
                    /\ exported \subseteq Requests
<1>2. Flags
  BY Zenon DEF TypeOK
<1>3. SUFFICES Flags'
  BY <1>1, Zenon DEF TypeOK
<1>4. CASE SetupFails \/ DispatcherFails
  BY <1>2, <1>4, Zenon DEF SetupFails, DispatcherFails
<1>5. CASE StartServers
  BY <1>2, <1>5, Zenon DEF StartServers
<1>6. CASE MarkReady \/ SelectSignal \/ SelectListener
  BY <1>2, <1>6, Zenon DEF MarkReady, SelectSignal, SelectListener
<1>7. CASE MarkUnready
  BY <1>2, <1>7, Zenon DEF MarkUnready, Servers
<1>8. CASE PublicDrained
  BY <1>2, <1>8, Zenon DEF PublicDrained, Servers
<1>9. CASE AdminDrained \/ BudgetExpires
  BY <1>2, <1>9, Zenon DEF AdminDrained, BudgetExpires
<1>10. CASE FlushAndExit
  BY <1>2, <1>10, Zenon DEF FlushAndExit
<1>11. ASSUME NEW s \in Servers, Bind(s) PROVE Flags'
  BY <1>2, <1>11, Zenon DEF Bind
<1>12. ASSUME NEW s \in Servers, ListenerFails(s) \/ ListenerClosed(s) PROVE Flags'
  BY <1>2, <1>12, Zenon DEF ListenerFails, ListenerClosed, Report
<1>13. ASSUME NEW r \in Requests, Accept(r) \/ Finish(r) PROVE Flags'
  BY <1>2, <1>13, Zenon DEF Accept, Finish
<1>14. CASE Readyz \/ Sigterm
  BY <1>2, <1>14, Zenon DEF Readyz, Sigterm
<1>15. CASE UNCHANGED vars
  BY <1>2, <1>15, Zenon DEF vars
<1> HIDE DEF Flags
<1> QED
  BY <1>4, <1>5, <1>6, <1>7, <1>8, <1>9, <1>10, <1>11, <1>12, <1>13, <1>14, <1>15, Zenon
  DEF Next, Main

(* A goroutine that reports adds at most one entry to errCh; before any     *)
(* Shutdown it is a failure.                                                *)
LEMMA ReportFacts ==
    ASSUME TypeOK, DrainInv, ReportInv, NEW s \in Servers,
           ListenerFails(s) \/ ListenerClosed(s)
    PROVE  /\ shut = {} => \A i \in 1..Len(errCh') : errCh'[i] = "listener"
           /\ Len(errCh') <= Returned'
           /\ main' # "setup"
<1> USE DEF Servers, Public, Admin
<1>1. errCh \in Seq(ListenErrors) /\ Len(errCh) \in Nat
  BY DEF TypeOK, DrainTypeOK
<1>2. PICK e \in ListenErrors : errCh' = Append(errCh, e) /\ (shut = {} => e = "listener")
  BY Zenon DEF ListenerFails, ListenerClosed, Report, ListenErrors
<1>3. /\ Len(errCh') = Len(errCh) + 1 /\ errCh'[Len(errCh) + 1] = e
      /\ \A i \in 1..Len(errCh) : errCh'[i] = errCh[i]
  BY <1>1, <1>2
<1>4. Returned' = Returned + 1 /\ Returned \in Nat
  BY DEF ListenerFails, ListenerClosed, Report, Returned, TypeOK
<1>5. Len(errCh) <= Returned
  BY Zenon DEF ReportInv
<1>6. shut = {} => \A i \in 1..Len(errCh') : errCh'[i] = "listener"
  BY <1>1, <1>2, <1>3 DEF ReportInv
<1>7. main' # "setup"
  BY Zenon DEF ListenerFails, ListenerClosed, Report, ReportInv
<1> QED BY <1>1, <1>3, <1>4, <1>5, <1>6, <1>7

(* Every step of the process keeps ReportInv.                               *)
LEMMA ReportStep == TypeOK /\ DrainInv /\ ReportInv /\ [Next]_vars => ReportInv'
<1> SUFFICES ASSUME TypeOK, DrainInv, ReportInv, [Next]_vars PROVE ReportInv'
  BY Zenon
<1>t. /\ errCh \in Seq(ListenErrors) /\ Len(errCh) \in Nat
      /\ main \in Mains /\ err \in Errors
  BY DEF TypeOK, DrainTypeOK
<1> DEFINE Reports == /\ shut = {} => \A i \in 1..Len(errCh) : errCh[i] = "listener"
                      /\ Len(errCh) <= Returned
                      /\ main = "setup" => \A s \in Servers : listener[s] = "off"
           Asked == /\ main \in {"unready", "drainPublic", "drainAdmin", "flush"}
                         /\ err = "nil" => sig
                    /\ ready => main \in {"select", "unready"}
                    /\ FailureNotMasked
<1>s. SUFFICES Reports' /\ Asked'
  BY Zenon DEF ReportInv
<1>1. Asked'
  <2> USE DEF FailureNotMasked
  <2>1. CASE SetupFails \/ DispatcherFails \/ StartServers \/ MarkReady
    <3>1. CASE SetupFails
      BY <3>1 DEF SetupFails, Exit, ReportInv
    <3>2. CASE DispatcherFails \/ StartServers \/ MarkReady
      BY <3>2 DEF DispatcherFails, StartServers, MarkReady, ReportInv
    <3> QED
      BY <2>1, <3>1, <3>2, Zenon
  <2>2. CASE SelectSignal
    BY <2>2, Zenon DEF SelectSignal, ReportInv
  <2>3. CASE SelectListener
    <3>1. Head(errCh) = errCh[1] /\ 1 \in 1..Len(errCh)
      BY <1>t, <2>3 DEF SelectListener
    <3>2. err' = "listener"
      BY <2>3, <3>1, Zenon DEF SelectListener, ReportInv, DrainInv
    <3> QED
      BY <2>3, <3>2, Zenon DEF SelectListener, ReportInv
  <2>4. CASE MarkUnready
    <3>1. ready' = FALSE /\ main' = "drainPublic" /\ UNCHANGED <<err, sig, exitCode>>
      BY <2>4, Zenon DEF MarkUnready
    <3> QED
      BY <2>4, <3>1 DEF MarkUnready, ReportInv
  <2>5. CASE PublicDrained \/ AdminDrained
    <3>1. err' = "nil" => err = "nil"
      BY <2>5, Zenon DEF PublicDrained, AdminDrained, FirstError
    <3>2. /\ main \in {"drainPublic", "drainAdmin"} /\ UNCHANGED <<ready, sig, exitCode>>
      BY <2>5, Zenon DEF PublicDrained, AdminDrained
    <3>3. ~ready'
      BY <3>2, Zenon DEF ReportInv
    <3>4. err' = "nil" => sig'
      BY <3>1, <3>2, Zenon DEF ReportInv
    <3> QED
      BY <3>2, <3>3, <3>4, Zenon DEF ReportInv
  <2>6. CASE FlushAndExit
    <3>1. main' = "exited" /\ main = "flush" /\ UNCHANGED <<ready, sig>>
          /\ (exitCode' = 0 => err = "nil")
      BY <2>6 DEF FlushAndExit, Exit
    <3> QED
      BY <3>1, Zenon DEF ReportInv
  <2>7. CASE UNCHANGED <<main, err, ready, exitCode>> /\ (sig => sig')
    BY <2>7, Zenon DEF ReportInv
  <2> HIDE DEF Asked
  <2>8. CASE BudgetExpires \/ Readyz \/ Sigterm \/ UNCHANGED vars
    BY <2>7, <2>8 DEF BudgetExpires, Readyz, Sigterm, vars
  <2>9. ASSUME NEW s \in Servers, Bind(s) \/ ListenerFails(s) \/ ListenerClosed(s)
        PROVE  Asked'
    BY <2>7, <2>9, Zenon DEF Bind, ListenerFails, ListenerClosed, Report
  <2>10. ASSUME NEW r \in Requests, Accept(r) \/ Finish(r) PROVE Asked'
    BY <2>7, <2>10, Zenon DEF Accept, Finish
  <2> QED
    BY <2>1, <2>2, <2>3, <2>4, <2>5, <2>6, <2>8, <2>9, <2>10, Zenon DEF Next, Main
<1>2. Reports'
  <2>1. CASE /\ UNCHANGED <<errCh, listener>> /\ shut \subseteq shut'
             /\ main' = main \/ main' # "setup"
    BY <2>1, Zenon DEF ReportInv, Returned
  <2>2. CASE SelectListener
    <3>1. /\ Len(errCh') = Len(errCh) - 1
          /\ \A i \in 1..Len(errCh') : errCh'[i] = errCh[i + 1]
      BY <1>t, <2>2 DEF SelectListener
    <3>2. Returned' = Returned /\ Returned \in Nat /\ shut' = shut /\ main' # "setup"
      BY <2>2 DEF SelectListener, Returned
    <3> QED
      BY <1>t, <3>1, <3>2 DEF ReportInv
  <2>3. ASSUME NEW s \in Servers, ListenerFails(s) \/ ListenerClosed(s)
        PROVE  Reports'
    BY <2>3, ReportFacts, Zenon DEF ListenerFails, ListenerClosed, Report
  <2>4. CASE StartServers
    <3>1. Returned = 0 /\ Returned' = 0
      BY <2>4 DEF StartServers, Returned, ReportInv, Servers, Public, Admin
    <3>2. Len(errCh) = 0 /\ UNCHANGED <<errCh, shut>> /\ main' # "setup"
      BY <1>t, <2>4, <3>1 DEF StartServers, ReportInv
    <3> QED
      BY <3>1, <3>2
  <2>5. ASSUME NEW s \in Servers, Bind(s) PROVE Reports'
    <3>1. Returned' = Returned /\ UNCHANGED <<errCh, shut>> /\ main' # "setup"
      BY <2>5, Zenon DEF Bind, Returned, ReportInv, TypeOK, Servers, Public, Admin
    <3> QED
      BY <3>1, Zenon DEF ReportInv
  <2>6. CASE MarkUnready
    BY <2>6, Zenon DEF MarkUnready, ReportInv, DrainInv, Returned
  <2> HIDE DEF Reports
  <2> QED
    BY <2>1, <2>2, <2>3, <2>4, <2>5, <2>6, Zenon
    DEF Next, Main, SetupFails, DispatcherFails, MarkReady, SelectSignal,
        PublicDrained, AdminDrained, FlushAndExit, Exit, BudgetExpires, Accept,
        Finish, Readyz, Sigterm, vars
<1> QED BY <1>1, <1>2, Zenon

(* The shutdown sequence of run(): at every moment the closed and drained   *)
(* servers are those that its position and its error say.                   *)
THEOREM DrainCorrect == Spec => [](DrainTypeOK /\ DrainInv)
<1>1. Init => DrainTypeOK /\ DrainInv
  BY DEF Init, DrainTypeOK, DrainInv, ExitZeroMeansDrained, AdminOutlivesPublic,
         Active, Servers, Public, Admin, Mains, Errors, Running
<1>2. DrainTypeOK /\ DrainInv /\ [Next]_vars => (DrainTypeOK /\ DrainInv)'
  BY TypeStep, DrainStep, Zenon
<1> QED BY <1>1, <1>2, PTL DEF Spec

(* Exit code 0 means that every accepted request was answered and, if the   *)
(* tracer was flushed, that all their spans were, however many requests     *)
(* arrive and whenever the signal comes.                                    *)
THEOREM ExitZeroCorrect == Spec => []ExitZeroMeansDrained
<1>1. DrainTypeOK /\ DrainInv => ExitZeroMeansDrained
  BY Zenon DEF DrainInv
<1> QED BY <1>1, DrainCorrect, PTL

(* /readyz stays reachable until the public server is done draining.        *)
THEOREM AdminOutlives == Spec => []AdminOutlivesPublic
<1>1. DrainTypeOK /\ DrainInv => AdminOutlivesPublic
  BY Zenon DEF DrainInv
<1> QED BY <1>1, DrainCorrect, PTL

(* The whole process keeps its types, its drain order and its reports.      *)
THEOREM ReportsCorrect == Spec => []ProcessInv
<1>1. Init => TypeOK /\ ReportInv
  <2> SUFFICES ASSUME Init PROVE TypeOK /\ ReportInv
    BY Zenon
  <2>1. DrainTypeOK
    <3>1. errCh \in Seq(ListenErrors)
      BY DEF Init
    <3> QED
      BY <3>1, Zenon DEF Init, DrainTypeOK, Mains, Errors, Running
  <2>2. TypeOK
    BY <2>1, Zenon DEF Init, TypeOK
  <2>3. ReportInv
    BY DEF Init, ReportInv, Returned, FailureNotMasked, Running, Servers, Public, Admin
  <2> QED BY <2>2, <2>3, Zenon
<1>2. TypeOK /\ DrainInv /\ ReportInv /\ [Next]_vars => (TypeOK /\ ReportInv)'
  BY FlagStep, ReportStep, Zenon DEF TypeOK
<1> QED BY <1>1, <1>2, DrainCorrect, PTL DEF Spec, ProcessInv

(* Exit code 0 is only ever the answer to a signal.                         *)
THEOREM FailureReported == Spec => []FailureNotMasked
<1>1. ReportInv => FailureNotMasked
  BY Zenon DEF ReportInv
<1> QED BY <1>1, ReportsCorrect, PTL DEF ProcessInv

(* Neither goroutine of startServer can block on errCh for ever.            *)
THEOREM NeverBlock == Spec => []ListenersNeverBlock
<1>1. TypeOK /\ DrainInv /\ ReportInv => ListenersNeverBlock
  <2> SUFFICES ASSUME TypeOK, ReportInv, NEW s \in Servers,
                      listener[s] \in {"starting", "serving"}
               PROVE  Len(errCh) < ErrChCapacity
    BY Zenon DEF ListenersNeverBlock
  <2>1. Len(errCh) \in Nat
    BY DEF TypeOK, DrainTypeOK
  <2> QED BY <2>1 DEF ReportInv, Returned, Servers, Public, Admin, ErrChCapacity
<1> QED BY <1>1, ReportsCorrect, PTL DEF ProcessInv

(* No probe handled during the drain finds the process ready.               *)
THEOREM DrainUnready == Spec => DrainRefusesTraffic
<1>1. /\ TypeOK /\ DrainInv /\ ReportInv /\ [Next]_vars
      => [shut # {} /\ probe' = "200" => probe = "200"]_vars
  <2> SUFFICES ASSUME DrainInv, ReportInv, [Next]_vars, shut # {}, probe' = "200"
               PROVE  probe = "200"
    BY Zenon
  <2>1. ~ready
    BY Zenon DEF ReportInv, DrainInv
  <2> QED
    BY <2>1, Zenon DEF Next, Main, SetupFails, DispatcherFails, StartServers, MarkReady,
       SelectSignal, SelectListener, MarkUnready, PublicDrained, AdminDrained,
       FlushAndExit, BudgetExpires, Bind, ListenerFails, ListenerClosed, Report,
       Accept, Finish, Readyz, Sigterm, vars
<1> QED BY <1>1, ReportsCorrect, PTL DEF Spec, ProcessInv, DrainRefusesTraffic

-----------------------------------------------------------------------------
(* The deadlines. *)

\* The part of ClockTypeOK that the deadlines depend on.
ClockOK ==
    /\ now \in Nat /\ arrived \in Nat /\ synced \in Nat /\ drainStart \in Nat
    /\ pc \in {"idle", "apply", "sync", "answer", "closed"}

(* Each step of the delivery, of the shutdown and of the clock keeps the    *)
(* times natural numbers and the invariant that bounds the clock by the     *)
(* deadlines that are pending.                                              *)
LEMMA DeadlineStep ==
    ASSUME ClockOK, DeadlineInv, [ClockNext]_clockVars
    PROVE  ClockOK' /\ DeadlineInv'
<1> USE TimeoutsAssumption DEF TimeoutsAssumption
<1> USE DEF ClockOK, DeadlineInv, TimeInv, BudgetInv, DrainFinishesSync,
            ReceivedIfGenerous, ResponseReceived, Generous, SyncDeadline
<1>1. CASE Arrive
  BY <1>1 DEF Arrive
<1>2. CASE ApplyReturns
  BY <1>2 DEF ApplyReturns, Up
<1>3. CASE ApplyCancelled
  BY <1>3 DEF ApplyCancelled, Answer, Up
<1>4. CASE SyncReady
  BY <1>4 DEF SyncReady, Answer, Up
<1>5. CASE SyncExpires
  BY <1>5 DEF SyncExpires, Answer, Up
<1>6. CASE WriteResponse
  <2>1. Generous => WriteTimeout = 0 \/ now < arrived + WriteTimeout
    BY <1>6 DEF WriteResponse
  <2>2. Generous => received'
    <3> HIDE DEF Generous
    <3> QED  BY <2>1, <1>6, Zenon DEF WriteResponse
  <2>3. ClockOK' /\ TimeInv' /\ BudgetInv' /\ DrainFinishesSync'
    BY <1>6, Zenon DEF WriteResponse, Up
  <2> QED  BY <2>2, <2>3, Zenon
<1>7. CASE SigtermDrains
  BY <1>7 DEF SigtermDrains
<1>8. CASE FailureDrains
  BY <1>8 DEF FailureDrains
<1>9. CASE Drained
  BY <1>9, Zenon DEF Drained
<1>10. CASE Overrun
  BY <1>10 DEF Overrun
<1>11. CASE Tick
  BY <1>11 DEF Tick, Urgent, Up
<1>12. CASE UNCHANGED clockVars
  BY <1>12, Zenon DEF clockVars
<1> HIDE DEF ClockOK, DeadlineInv
<1> QED
  BY <1>1, <1>2, <1>3, <1>4, <1>5, <1>6, <1>7, <1>8, <1>9, <1>10, <1>11, <1>12, Zenon
  DEF ClockNext

(* The deadlines hold together for every WriteTimeout, SyncTimeout,         *)
(* ShutdownTimeout and apply latency with SyncTimeout < ShutdownTimeout.    *)
THEOREM DeadlinesFit == ClockSpec => []DeadlineInv
<1>1. ClockInit => ClockOK /\ DeadlineInv
  BY TimeoutsAssumption DEF TimeoutsAssumption, ClockInit, ClockOK, DeadlineInv,
     TimeInv, BudgetInv, DrainFinishesSync, ReceivedIfGenerous, ResponseReceived,
     Generous, SyncDeadline
<1>2. ClockOK /\ DeadlineInv /\ [ClockNext]_clockVars
      => (ClockOK /\ DeadlineInv)'
  BY DeadlineStep, Zenon
<1> QED
  BY <1>1, <1>2, PTL DEF ClockSpec

(* The delivery, the clock and the shutdown stay within their ranges; in    *)
(* particular every answer is one of the classified results.                *)
THEOREM ClockTypeCorrect == ClockSpec => []ClockTypeOK
<1>1. ClockInit => ClockTypeOK
  <2>1. 0 \in 0..MaxTime
    BY TimeoutsAssumption DEF TimeoutsAssumption
  <2> QED  BY <2>1, Zenon DEF ClockInit, ClockTypeOK
<1>2. ClockTypeOK /\ [ClockNext]_clockVars => ClockTypeOK'
  <2> SUFFICES ASSUME ClockTypeOK, [ClockNext]_clockVars PROVE ClockTypeOK'  BY Zenon
  <2>1. now \in 0..MaxTime /\ now' \in 0..MaxTime
    BY TimeoutsAssumption DEF TimeoutsAssumption, ClockTypeOK, ClockNext, clockVars,
       Arrive, ApplyReturns, Answer, ApplyCancelled, SyncReady, SyncExpires,
       WriteResponse, SigtermDrains, FailureDrains, Drained, Overrun, Tick
  <2>2. received' \in BOOLEAN /\ cancelled' \in BOOLEAN
    BY Zenon DEF ClockTypeOK, ClockNext, clockVars, Arrive, ApplyReturns,
       Answer, ApplyCancelled, SyncReady, SyncExpires, WriteResponse,
       SigtermDrains, FailureDrains, Drained, Overrun, Tick
  <2> QED
    BY <2>1, <2>2 DEF ClockTypeOK, ClockNext, clockVars, Arrive, ApplyReturns,
       Answer, ApplyCancelled, SyncReady, SyncExpires, WriteResponse,
       SigtermDrains, FailureDrains, Drained, Overrun, Tick
<1> QED
  BY <1>1, <1>2, PTL DEF ClockSpec

(* waitForShutdown never gives up on a sync that was under way when it      *)
(* began, and never overruns after a signal: the comment on                 *)
(* CRConfig.SyncTimeout, for all configurations that validate accepts.      *)
THEOREM DrainInBudget == ClockSpec => []DrainFinishesSync
<1>1. DeadlineInv => DrainFinishesSync
  BY Zenon DEF DeadlineInv
<1> QED
  BY <1>1, DeadlinesFit, PTL

(* A write timeout that exceeds the apply and the sync together, or none,   *)
(* is enough for every response to be received.                             *)
THEOREM GenerousIsEnough == ClockSpec => []ReceivedIfGenerous
<1>1. DeadlineInv => ReceivedIfGenerous
  BY Zenon DEF DeadlineInv
<1> QED
  BY <1>1, DeadlinesFit, PTL

=============================================================================
