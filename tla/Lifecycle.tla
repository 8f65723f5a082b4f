------------------------------ MODULE Lifecycle ------------------------------
(***************************************************************************)
(* cmd/webhookd/main.go: one process from start to exit.  run() wires the  *)
(* service, starts a goroutine for each listener, and waits for SIGTERM or *)
(* for a listener to return; it then drops readiness, drains the public    *)
(* and then the admin server on one shared budget, flushes the tracer and  *)
(* exits.  http.Server is external: after Shutdown it accepts no request,  *)
(* ListenAndServe returns ErrServerClosed, and Shutdown itself returns     *)
(* when a poll finds no request active or when its context has expired,    *)
(* which it may notice first.                                              *)
(*                                                                         *)
(* main is where run() is:                                                 *)
(*   setup -> wired -> select -> unready -> drainPublic -> drainAdmin      *)
(*         -> flush -> exited                                              *)
(***************************************************************************)
EXTENDS Naturals, Sequences

CONSTANTS Requests  \* HTTP requests that may arrive at either listener

Public == "public"
Admin == "admin"
Servers == {Public, Admin}

VARIABLES
    main,       \* where run() is
    sig,        \* SIGTERM or SIGINT arrived: the run context is done
    ready,      \* the atomic flag behind /readyz
    listener,   \* Servers -> "off", "starting", "serving", "returned"
    shut,       \* the servers on which Shutdown was called
    errCh,      \* the channel startServer's goroutines report on
    request,    \* Requests -> "none", "active", "done", "cut"
    host,       \* Requests -> the server it arrived at
    budget,     \* the context of drainServers has expired
    err,        \* the error run() is going to return: "nil" or where it is from
    flushed,    \* tracer shutdown: "no", "ok", "failed"
    exported,   \* history: the requests whose spans the flush covered
    probe,      \* the last answer of /readyz: "none", "200", "503"
    exitCode    \* 2 while the process runs

vars == <<main, sig, ready, listener, shut, errCh, request, host, budget, err,
          flushed, exported, probe, exitCode>>

Running == 2

\* Mutant (as below, above the definition it is a faulty form of): room for
\* one of the two listeners only.
ErrChCapacityOne == 1

ErrChCapacity == 2

Mains == {"setup", "wired", "select", "unready", "drainPublic", "drainAdmin",
          "flush", "exited"}
ListenErrors == {"nil", "listener"}
Errors == {"nil", "setup", "public shutdown", "admin shutdown", "listener"}

\* The part of the type that the drain argument uses.
DrainTypeOK ==
    /\ main \in Mains
    /\ errCh \in Seq(ListenErrors)
    /\ err \in Errors
    /\ request \in [Requests -> {"none", "active", "done", "cut"}]
    /\ host \in [Requests -> Servers]
    /\ exitCode \in {0, 1, Running}

TypeOK ==
    /\ DrainTypeOK
    /\ sig \in BOOLEAN /\ ready \in BOOLEAN /\ budget \in BOOLEAN
    /\ listener \in [Servers -> {"off", "starting", "serving", "returned"}]
    /\ shut \subseteq Servers
    /\ probe \in {"none", "200", "503"}
    /\ flushed \in {"no", "ok", "failed"}
    /\ exported \subseteq Requests

Init ==
    /\ main = "setup"
    /\ sig = FALSE /\ ready = FALSE /\ budget = FALSE
    /\ listener = [s \in Servers |-> "off"]
    /\ shut = {}
    /\ probe = "none"
    /\ errCh = <<>>
    /\ request = [r \in Requests |-> "none"]
    /\ host \in [Requests -> Servers]
    /\ err = "nil"
    /\ flushed = "no"
    /\ exported = {}
    /\ exitCode = Running

Active(s) == {r \in Requests : request[r] = "active" /\ host[r] = s}

(***************************************************************************)
(* The end of the process: whatever is still running is cut off.           *)
(***************************************************************************)
Exit(code) ==
    /\ main' = "exited"
    /\ exitCode' = code
    /\ request' = [r \in Requests |->
                     IF request[r] = "active" THEN "cut" ELSE request[r]]

(***************************************************************************)
(* run() and waitForShutdown                                               *)
(***************************************************************************)
\* config.Load or NewTracerProvider fails: there is no tracer to flush yet.
SetupFails ==
    /\ main = "setup"
    /\ err' = "setup"
    /\ Exit(1)
    /\ UNCHANGED <<sig, ready, listener, shut, errCh, host, budget, flushed,
                   exported, probe>>

\* buildDispatcher fails: the deferred tracer shutdown runs.
DispatcherFails ==
    /\ main = "setup"
    /\ err' = "setup"
    /\ main' = "flush"
    /\ UNCHANGED <<sig, ready, listener, shut, errCh, request, host, budget,
                   flushed, exported, probe, exitCode>>

StartServers ==
    /\ main = "setup"
    /\ main' = "wired"
    /\ listener' = [s \in Servers |-> "starting"]
    /\ UNCHANGED <<sig, ready, shut, errCh, request, host, budget, err, flushed,
                   exported, probe, exitCode>>

MarkReady ==
    /\ main = "wired"
    /\ ready' = TRUE
    /\ main' = "select"
    /\ UNCHANGED <<sig, listener, shut, errCh, request, host, budget, err,
                   flushed, exported, probe, exitCode>>

SelectSignal ==
    /\ main = "select"
    /\ sig
    /\ main' = "unready"
    /\ UNCHANGED <<sig, ready, listener, shut, errCh, request, host, budget, err,
                   flushed, exported, probe, exitCode>>

SelectListener ==
    /\ main = "select"
    /\ errCh # <<>>
    /\ err' = Head(errCh)
    /\ errCh' = Tail(errCh)
    /\ main' = "unready"
    /\ UNCHANGED <<sig, ready, listener, shut, request, host, budget, flushed,
                   exported, probe, exitCode>>

\* Mutant: the admin server is asked to shut down first.
MarkUnreadyAdminFirst ==
    /\ main = "unready"
    /\ ready' = FALSE
    /\ shut' = {Admin}
    /\ main' = "drainPublic"
    /\ UNCHANGED <<sig, listener, errCh, request, host, budget, err, flushed,
                   exported, probe, exitCode>>

\* Mutant: readiness is left as it is.
MarkUnreadyForgotten ==
    /\ main = "unready"
    /\ shut' = {Public}
    /\ main' = "drainPublic"
    /\ UNCHANGED <<sig, ready, listener, errCh, request, host, budget, err, flushed,
                   exported, probe, exitCode>>

\* ready.Store(false), then publicSrv.Shutdown begins.
MarkUnready ==
    /\ main = "unready"
    /\ ready' = FALSE
    /\ shut' = {Public}
    /\ main' = "drainPublic"
    /\ UNCHANGED <<sig, listener, errCh, request, host, budget, err, flushed,
                   exported, probe, exitCode>>

\* The error priority at the end of waitForShutdown.
FirstError(e) == IF err \in {"nil", "listener"} THEN e ELSE err

\* Mutants: the error of Shutdown is dropped ...
PublicDrainedErrorLost ==
    /\ main = "drainPublic"
    /\ Active(Public) = {} \/ budget
    /\ shut' = shut \cup {Admin}
    /\ main' = "drainAdmin"
    /\ UNCHANGED <<sig, ready, listener, errCh, request, host, budget, err,
                   flushed, exported, probe, exitCode>>

\* ... or its context has no deadline.
PublicDrainedNoDeadline ==
    /\ main = "drainPublic"
    /\ Active(Public) = {}
    /\ shut' = shut \cup {Admin}
    /\ main' = "drainAdmin"
    /\ UNCHANGED <<sig, ready, listener, errCh, request, host, budget, err,
                   flushed, exported, probe, exitCode>>

\* publicSrv.Shutdown returns and adminSrv.Shutdown begins.
PublicDrained ==
    /\ main = "drainPublic"
    /\ \/ Active(Public) = {} /\ UNCHANGED err
       \/ budget /\ err' = FirstError("public shutdown")
    /\ shut' = shut \cup {Admin}
    /\ main' = "drainAdmin"
    /\ UNCHANGED <<sig, ready, listener, errCh, request, host, budget, flushed,
                   exported, probe, exitCode>>

AdminDrained ==
    /\ main = "drainAdmin"
    /\ \/ Active(Admin) = {} /\ UNCHANGED err
       \/ budget /\ err' = FirstError("admin shutdown")
    /\ main' = "flush"
    /\ UNCHANGED <<sig, ready, listener, shut, errCh, request, host, budget,
                   flushed, exported, probe, exitCode>>

BudgetExpires ==
    /\ main \in {"drainPublic", "drainAdmin"}
    /\ ~budget
    /\ budget' = TRUE
    /\ UNCHANGED <<main, sig, ready, listener, shut, errCh, request, host, err,
                   flushed, exported, probe, exitCode>>

\* The deferred tracer shutdown, within a budget of its own; a failure is
\* only logged.  Then realMain turns the error into the exit code.
FlushAndExit ==
    /\ main = "flush"
    /\ flushed' \in {"ok", "failed"}
    /\ exported' = IF flushed' = "ok"
                   THEN {r \in Requests : request[r] = "done"} ELSE {}
    /\ Exit(IF err = "nil" THEN 0 ELSE 1)
    /\ UNCHANGED <<sig, ready, listener, shut, errCh, host, budget, err, probe>>

(***************************************************************************)
(* startServer's goroutines: ListenAndServe, then one send on errCh.       *)
(***************************************************************************)
Report(s, e) ==
    /\ Len(errCh) < ErrChCapacity
    /\ errCh' = Append(errCh, e)
    /\ listener' = [listener EXCEPT ![s] = "returned"]
    /\ UNCHANGED <<main, sig, ready, shut, request, host, budget, err, flushed,
                   exported, probe, exitCode>>

Bind(s) ==
    /\ main # "exited"
    /\ listener[s] = "starting"
    /\ s \notin shut
    /\ listener' = [listener EXCEPT ![s] = "serving"]
    /\ UNCHANGED <<main, sig, ready, shut, errCh, request, host, budget, err,
                   flushed, exported, probe, exitCode>>

\* Mutant: every return of ListenAndServe is taken for ErrServerClosed.
ListenerFailsSilently(s) ==
    /\ main # "exited"
    /\ listener[s] \in {"starting", "serving"}
    /\ s \notin shut
    /\ Report(s, "nil")

\* Mutant: the goroutine ends without a word.
ListenerFailsUnreported(s) ==
    /\ main # "exited"
    /\ listener[s] \in {"starting", "serving"}
    /\ s \notin shut
    /\ listener' = [listener EXCEPT ![s] = "returned"]
    /\ UNCHANGED <<main, sig, ready, shut, errCh, request, host, budget, err, flushed,
                   exported, probe, exitCode>>

\* The address is taken, or accepting fails.
ListenerFails(s) ==
    /\ main # "exited"
    /\ listener[s] \in {"starting", "serving"}
    /\ s \notin shut
    /\ Report(s, "listener")

\* ErrServerClosed, also for a server shut down before it was bound.
ListenerClosed(s) ==
    /\ main # "exited"
    /\ listener[s] \in {"starting", "serving"}
    /\ s \in shut
    /\ Report(s, "nil")

(***************************************************************************)
(* The environment: requests and the signal.                               *)
(***************************************************************************)
\* A request is active from the moment its connection is accepted.
Accept(r) ==
    /\ main # "exited"
    /\ request[r] = "none"
    /\ listener[host[r]] = "serving"
    /\ host[r] \notin shut
    /\ request' = [request EXCEPT ![r] = "active"]
    /\ UNCHANGED <<main, sig, ready, listener, shut, errCh, host, budget, err,
                   flushed, exported, probe, exitCode>>

Finish(r) ==
    /\ request[r] = "active"
    /\ request' = [request EXCEPT ![r] = "done"]
    /\ UNCHANGED <<main, sig, ready, listener, shut, errCh, host, budget, err,
                   flushed, exported, probe, exitCode>>

\* A probe of /readyz: the handler loads the flag; its answer may reach the
\* kubelet any time later.
Readyz ==
    /\ main # "exited"
    /\ listener[Admin] = "serving"
    /\ probe' = IF ready THEN "200" ELSE "503"
    /\ UNCHANGED <<main, sig, ready, listener, shut, errCh, request, host, budget,
                   err, flushed, exported, exitCode>>

Sigterm ==
    /\ main # "exited"
    /\ ~sig
    /\ sig' = TRUE
    /\ UNCHANGED <<main, ready, listener, shut, errCh, request, host, budget, err,
                   flushed, exported, probe, exitCode>>

Main ==
    \/ SetupFails \/ DispatcherFails \/ StartServers \/ MarkReady
    \/ SelectSignal \/ SelectListener \/ MarkUnready
    \/ PublicDrained \/ AdminDrained \/ FlushAndExit

Next ==
    \/ Main
    \/ BudgetExpires
    \/ \E s \in Servers : Bind(s) \/ ListenerFails(s) \/ ListenerClosed(s)
    \/ \E r \in Requests : Accept(r) \/ Finish(r)
    \/ Readyz
    \/ Sigterm

Spec == Init /\ [][Next]_vars

\* The main goroutine runs, the drain timer fires, and ListenAndServe does not
\* take for ever to bind or to give up.  No request need end, no bound listener
\* need return, no client need behave and no probe need come.
Fairness ==
    /\ WF_vars(Main)
    /\ WF_vars(BudgetExpires)
    /\ \A s \in Servers :
         WF_vars(/\ listener[s] = "starting"
                 /\ Bind(s) \/ ListenerFails(s) \/ ListenerClosed(s))

FairSpec == Spec /\ Fairness

(***************************************************************************)
(* Properties                                                              *)
(***************************************************************************)
(* Exit code 0 means that nothing was lost: every request that either       *)
(* listener accepted was answered before the process ended, and if the      *)
(* tracer shutdown succeeded, it came after all of their spans.             *)
ExitZeroMeansDrained ==
    exitCode = 0 => \A r \in Requests :
      /\ request[r] # "cut"
      /\ request[r] = "done" /\ flushed = "ok" => r \in exported

(* The admin listener, and with it /readyz answering 503, stays up until    *)
(* the public server has drained or has used up the drain budget.           *)
AdminOutlivesPublic ==
    Admin \in shut =>
      Public \in shut /\ (Active(Public) = {} \/ err = "public shutdown")

(* The inductive invariant behind the two: which servers are closed, and    *)
(* which drained, follows from where run() is and from the error it holds.  *)
DrainInv ==
    /\ main = "exited" <=> exitCode # Running
    /\ main # "exited" => \A r \in Requests : request[r] # "cut"
    /\ main = "exited" => \A r \in Requests : request[r] # "active"
    /\ err = "setup" => main \in {"flush", "exited"}
    /\ err \in {"public shutdown", "admin shutdown"} => shut = Servers
    /\ main \in {"setup", "wired", "select", "unready"} => shut = {}
    /\ main = "drainPublic" => shut = {Public}
    /\ main = "drainAdmin" => shut = Servers
    /\ main = "flush" /\ err \in {"nil", "listener"} =>
         shut = Servers /\ \A r \in Requests : request[r] # "active"
    /\ ExitZeroMeansDrained
    /\ AdminOutlivesPublic

(* A failed listener that nobody asked to stop is not masked: the process   *)
(* exits with 0 only if a signal came, whichever listener fails or is       *)
(* closed, in whatever order the two goroutines report and however the      *)
(* drain goes.  If a signal came as well, select may take it and the        *)
(* failure is then not in the exit code.                                    *)
FailureNotMasked == exitCode = 0 => sig

(* startServer's goroutines can always report: errCh has room for each      *)
(* listener that still runs, although waitForShutdown reads at most once.   *)
ListenersNeverBlock ==
    \A s \in Servers :
      listener[s] \in {"starting", "serving"} => Len(errCh) < ErrChCapacity

\* How many of the two goroutines of startServer have sent their report.
Returned == (IF listener[Public] = "returned" THEN 1 ELSE 0)
            + (IF listener[Admin] = "returned" THEN 1 ELSE 0)

(* The inductive invariant behind the two above: before a Shutdown only     *)
(* failures are reported, so that err stays nil only on the signal's path,  *)
(* and errCh never holds more than one report of each goroutine.  Readiness *)
(* is on at most while run() waits.                                         *)
ReportInv ==
    /\ main = "setup" => \A s \in Servers : listener[s] = "off"
    /\ shut = {} => \A i \in 1..Len(errCh) : errCh[i] = "listener"
    /\ main \in {"unready", "drainPublic", "drainAdmin", "flush"} /\ err = "nil" => sig
    /\ Len(errCh) <= Returned
    /\ ready => main \in {"select", "unready"}
    /\ FailureNotMasked

(* All that is invariant of the process: its types, what it has shut and    *)
(* drained, and what has been reported.                                     *)
ProcessInv == TypeOK /\ DrainInv /\ ReportInv

(* Draining attracts no traffic: once Shutdown was called no handler of     *)
(* /readyz answers 200 any more; at most an answer given before is still    *)
(* on its way to the kubelet.                                               *)
DrainRefusesTraffic ==
    [][shut # {} /\ probe' = "200" => probe = "200"]_vars

(* main stores ready before the listeners are bound.  That lie is short: a  *)
(* ready process ends up serving the public port, or not ready, also when   *)
(* the bind fails or the listener dies later.                               *)
ReadyIsServed ==
    (ready /\ listener[Public] # "serving")
      ~> (listener[Public] = "serving" \/ ~ready)

(* After SIGTERM the process exits, even if a request never ends.           *)
ShutdownCompletes == sig ~> main = "exited"

=============================================================================
