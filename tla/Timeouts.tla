------------------------------ MODULE Timeouts ------------------------------
(***************************************************************************)
(* The deadlines of one delivery against a clock: the connection's write   *)
(* deadline that NewServer configures, the sync deadline of the executor,  *)
(* and the drain budget of waitForShutdown.  Time advances in ticks; a     *)
(* goroutine acts on an expired deadline before the next tick.  The names  *)
(* differ from those of Lifecycle, the same shutdown without time, so that *)
(* one module can be about both.                                           *)
(***************************************************************************)
EXTENDS Naturals

CONSTANTS
    WriteTimeout,     \* cfg.WriteTimeout, 0 for none
    SyncTimeout,      \* cfg.CR.SyncTimeout
    ShutdownTimeout,  \* cfg.ShutdownTimeout
    MaxApply,         \* longest time of an apply: Patch and Get have no deadline
    MaxTime           \* bound on the clock

\* What config.validate and the bound on the API server's latency give.
ASSUME TimeoutsAssumption ==
    /\ WriteTimeout \in Nat /\ MaxApply \in Nat /\ MaxTime \in Nat
    /\ SyncTimeout \in Nat \ {0}
    /\ ShutdownTimeout \in Nat
    /\ SyncTimeout < ShutdownTimeout

VARIABLES
    now,        \* the clock
    pc,         \* the delivery: "idle", "apply", "sync", "answer", "closed"
    arrived,    \* when its header was read
    synced,     \* when waitForSync began
    result,     \* ResultKind, "none" before
    received,   \* does the sender get the response?
    cancelled,  \* is the request's context cancelled?
    cause,      \* why the server drains: "none", "signal" or "listener"
    drain,      \* the server: "serving", "draining", "drained", "overrun"
    drainStart  \* when Shutdown was called

clockVars == <<now, pc, arrived, synced, result, received, cancelled, cause,
               drain, drainStart>>

ClockTypeOK ==
    /\ {now, arrived, synced, drainStart} \subseteq 0..MaxTime
    /\ pc \in {"idle", "apply", "sync", "answer", "closed"}
    /\ result \in {"none", "Ready", "Timeout", "InternalError"}
    /\ received \in BOOLEAN /\ cancelled \in BOOLEAN
    /\ cause \in {"none", "signal", "listener"}
    /\ drain \in {"serving", "draining", "drained", "overrun"}

ClockInit ==
    /\ now = 0 /\ arrived = 0 /\ synced = 0 /\ drainStart = 0
    /\ pc = "idle"
    /\ result = "none"
    /\ received = FALSE
    /\ cancelled = FALSE
    /\ cause = "none"
    /\ drain = "serving"

\* The process has not ended under its deliveries.
Up == drain # "overrun"

\* net/http sets the write deadline when it has read the header.
Arrive ==
    /\ pc = "idle" /\ drain = "serving"
    /\ pc' = "apply"
    /\ arrived' = now
    /\ UNCHANGED <<now, synced, result, received, cancelled, cause, drain, drainStart>>

\* apply() returns: the CR is applied, and waitForSync starts its timeout ...
ApplyReturns ==
    /\ Up
    /\ pc = "apply" /\ ~cancelled
    /\ pc' = "sync"
    /\ synced' = now
    /\ UNCHANGED <<now, arrived, result, received, cancelled, cause, drain, drainStart>>

Answer(kind) ==
    /\ Up
    /\ pc' = "answer"
    /\ result' = kind
    /\ UNCHANGED <<now, arrived, synced, received, cancelled, cause, drain, drainStart>>

\* ... or the context was cancelled under it.
ApplyCancelled == pc = "apply" /\ cancelled /\ Answer("InternalError")

\* Mutant: the executor is configured with the drain budget.
SyncDeadlineOfShutdown == synced + ShutdownTimeout

SyncDeadline == synced + SyncTimeout

SyncReady == pc = "sync" /\ now < SyncDeadline /\ ~cancelled /\ Answer("Ready")

\* The context of the wait ends: its timeout, or its parent's cancellation.
SyncExpires == pc = "sync" /\ (now >= SyncDeadline \/ cancelled) /\ Answer("Timeout")

\* writeResponse: the bytes reach the sender unless the write deadline passed.
WriteResponse ==
    /\ Up
    /\ pc = "answer"
    /\ pc' = "closed"
    /\ received' = (WriteTimeout = 0 \/ now < arrived + WriteTimeout)
    /\ UNCHANGED <<now, arrived, synced, result, cancelled, cause, drain, drainStart>>

(***************************************************************************)
(* Shutdown: on a signal, which cancels the base context of every request, *)
(* or because the other listener failed, which does not.                   *)
(***************************************************************************)
\* Mutant: requests do not inherit the context that the signal cancels.
SigtermNotInherited ==
    /\ drain = "serving"
    /\ cause' = "signal"
    /\ drain' = "draining" /\ drainStart' = now
    /\ UNCHANGED <<now, pc, arrived, synced, result, received, cancelled>>

SigtermDrains ==
    /\ drain = "serving"
    /\ cancelled' = TRUE
    /\ cause' = "signal"
    /\ drain' = "draining" /\ drainStart' = now
    /\ UNCHANGED <<now, pc, arrived, synced, result, received>>

FailureDrains ==
    /\ drain = "serving"
    /\ cause' = "listener"
    /\ drain' = "draining" /\ drainStart' = now
    /\ UNCHANGED <<now, pc, arrived, synced, result, received, cancelled>>

Drained ==
    /\ drain = "draining" /\ pc \in {"idle", "closed"}
    /\ drain' = "drained"
    /\ UNCHANGED <<now, pc, arrived, synced, result, received, cancelled, cause, drainStart>>

\* Shutdown returns context.DeadlineExceeded; run() returns and the process
\* ends with the delivery still in the handler.
Overrun ==
    /\ drain = "draining" /\ pc \notin {"idle", "closed"}
    /\ now >= drainStart + ShutdownTimeout
    /\ drain' = "overrun"
    /\ UNCHANGED <<now, pc, arrived, synced, result, received, cancelled, cause, drainStart>>

\* What is due now happens before time goes on.
Urgent ==
    \/ pc = "apply" /\ (cancelled \/ now >= arrived + MaxApply)
    \/ pc = "sync" /\ (cancelled \/ now >= SyncDeadline)
    \/ pc = "answer"

Tick ==
    /\ Up
    /\ now < MaxTime
    /\ ~Urgent
    /\ now' = now + 1
    /\ UNCHANGED <<pc, arrived, synced, result, received, cancelled, cause, drain, drainStart>>

ClockNext ==
    \/ Arrive \/ ApplyReturns \/ ApplyCancelled \/ SyncReady \/ SyncExpires
    \/ WriteResponse \/ SigtermDrains \/ FailureDrains \/ Drained \/ Overrun \/ Tick

ClockSpec == ClockInit /\ [][ClockNext]_clockVars

(***************************************************************************)
(* Properties                                                              *)
(***************************************************************************)
(* CRConfig.SyncTimeout, "Must be strictly less than ShutdownTimeout so a   *)
(* SIGTERM during a long sync still drains within budget": a drain that a   *)
(* signal began never overruns, because the signal cancels the wait; and    *)
(* one that a failed listener began, which cancels nothing, still finishes  *)
(* every sync that was under way, because of that constraint.               *)
DrainFinishesSync ==
    drain = "overrun" =>
      /\ cause = "listener"
      /\ pc = "apply" \/ synced > drainStart

(* README.md on the responses, above all 504, "CR applied but the operator  *)
(* did not mark Ready=True within WEBHOOK_CR_SYNC_TIMEOUT": the sender gets *)
(* the response that the handler wrote.                                     *)
ResponseReceived == pc = "closed" => received

(* The sender gets every response, the 504 included, if the write timeout   *)
(* is off or leaves room for the apply and the sync: the handler never      *)
(* outlives the two together.                                               *)
Generous == WriteTimeout = 0 \/ WriteTimeout > MaxApply + SyncTimeout
ReceivedIfGenerous == Generous => ResponseReceived

(***************************************************************************)
(* The inductive invariant behind them: how far the clock can be when the  *)
(* delivery is where it is, and what a drain has left behind.              *)
(***************************************************************************)
TimeInv ==
    /\ arrived <= now /\ synced <= now /\ drainStart <= now
    /\ pc = "apply" => now <= arrived + MaxApply
    /\ pc = "sync" => synced <= arrived + MaxApply /\ now <= SyncDeadline
    /\ pc = "answer" => now <= arrived + MaxApply + SyncTimeout

BudgetInv ==
    /\ drain = "serving" => ~cancelled
    /\ drain # "serving" => cause = "listener" \/ (cause = "signal" /\ cancelled)
    /\ cancelled /\ pc \in {"apply", "sync", "answer"} => now = drainStart
    /\ pc = "answer" /\ ~cancelled => now <= synced + SyncTimeout
    /\ drain = "overrun" => pc \notin {"idle", "closed"}

(* No deadline is missed by more than the deadlines before it allow.        *)
DeadlineInv ==
    /\ TimeInv
    /\ BudgetInv
    /\ DrainFinishesSync
    /\ ReceivedIfGenerous

=============================================================================
