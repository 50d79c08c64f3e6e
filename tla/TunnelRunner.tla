---------------------------- MODULE TunnelRunner ----------------------------
(***************************************************************************)
(* One tunnelRunner of internal/supervisor/tunnel.go: the goroutine in     *)
(* Run, the goroutines runOnce starts for every kubectl (the one in        *)
(* cmd.Wait and the one draining stdout), kubectl itself, and the callers  *)
(* of Restart, Stop and of the context's cancel function.                  *)
(*                                                                         *)
(* Time is abstracted to what the code compares: a timer may fire whenever *)
(* it is armed, startedAt is unset, recent or more than five minutes old,  *)
(* and pruning recentRestarts keeps any number of its entries. Calls of    *)
(* the logger, pid, lastError and lastHealth are left out.                 *)
(***************************************************************************)
EXTENDS Naturals

CONSTANTS
    FailThreshold,  \* failed checks in a row that kill kubectl
    MaxShift,       \* failures after which the backoff stops growing (6)
    MaxRecent       \* restarts in a minute that are not too many (10)

\* "badInterval" has an interval that time.NewTicker refuses by panicking.
HealthChecks == {"off", "on", "badInterval"}

ASSUME ThresholdAssumption == FailThreshold \in Nat \ {0}
ASSUME BoundsAssumption == MaxShift \in Nat /\ MaxRecent \in Nat

VARIABLES
    healthCheck,    \* the tunnel's health_check, fixed for the runner's life
    pc,         \* where the Run goroutine is
    state,      \* tunnelRunner.state
    startedAt,  \* "zero", "fresh", or "long" once it is over 5 minutes old
    healthOK,   \* tunnelRunner.healthOK
    restarts,   \* tunnelRunner.restarts, capped just above MaxShift
    recent,     \* Len(recentRestarts), capped just above MaxRecent
    fails,      \* consecutiveHealthFails of this runOnce
    restartCh,  \* the buffered channel of one restart token is full
    stopCh,     \* stopCh is closed
    ctxDone,    \* the context given to Run is cancelled
    child,      \* this runOnce's kubectl
    killed,     \* this runOnce's childCtx is cancelled
    line,       \* "Forwarding from" is in the stdout pipe
    readyCh,    \* "empty", "full", or "nil" once readiness was taken
    waitCh      \* cmd.Wait has returned, its result is not received yet

attemptData == <<child, line, readyCh, waitCh, fails>>
attemptVars == <<attemptData, killed>>
historyVars == <<startedAt, restarts, recent>>
requestVars == <<restartCh, stopCh, ctxDone>>
runVars == <<pc, state, healthOK, attemptVars, historyVars, requestVars>>
vars == <<healthCheck, runVars>>

PCs == {"loop", "launch", "wait", "mark", "health", "reapStop", "reapRestart",
        "reapFail", "backoff", "pause", "exited", "panicked"}

\* A kubectl is up once started, serving once it holds the local port, dead
\* once it has exited but is not waited for, and none before and after.
Alive == child \in {"up", "serving"}

TypeOK ==
    /\ healthCheck \in HealthChecks
    /\ pc \in PCs
    /\ state \in {"Stopped", "Starting", "Running", "Backoff", "Failing"}
    /\ startedAt \in {"zero", "fresh", "long"}
    /\ healthOK \in BOOLEAN
    /\ restarts \in 0..(MaxShift + 1)
    /\ recent \in 0..(MaxRecent + 1)
    /\ fails \in 0..FailThreshold
    /\ restartCh \in BOOLEAN
    /\ stopCh \in BOOLEAN
    /\ ctxDone \in BOOLEAN
    /\ child \in {"none", "up", "serving", "dead"}
    /\ killed \in BOOLEAN
    /\ line \in BOOLEAN
    /\ readyCh \in {"empty", "full", "nil"}
    /\ waitCh \in BOOLEAN

Init ==
    /\ healthCheck \in HealthChecks
    /\ pc = "loop"
    /\ state = "Stopped"
    /\ startedAt = "zero"
    /\ healthOK = FALSE
    /\ restarts = 0
    /\ recent = 0
    /\ fails = 0
    /\ restartCh = FALSE
    /\ stopCh = FALSE
    /\ ctxDone = FALSE
    /\ child = "none"
    /\ killed = FALSE
    /\ line = FALSE
    /\ readyCh = "empty"
    /\ waitCh = FALSE

Cancelled == stopCh \/ ctxDone

CapAt(n, bound) == IF n > bound THEN bound ELSE n

-----------------------------------------------------------------------------
(***************************************************************************)
(* The loop of Run, and the launch at the head of runOnce.                 *)
(***************************************************************************)

LoopExit ==
    /\ pc = "loop"
    /\ Cancelled
    /\ pc' = "exited"
    /\ UNCHANGED <<state, healthOK, attemptVars, historyVars, requestVars>>

Attempt ==
    /\ pc = "loop"
    /\ ~Cancelled
    /\ pc' = "launch"
    /\ state' = "Starting"
    /\ UNCHANGED <<healthOK, attemptVars, historyVars, requestVars>>

\* backoff() up to its select: count the failure, then report Backoff.
EnterBackoff(base, kept) ==
    /\ pc' = "backoff"
    /\ state' = "Backoff"
    /\ restarts' = CapAt(base + 1, MaxShift + 1)
    /\ recent' = CapAt(kept + 1, MaxRecent + 1)
    /\ UNCHANGED <<startedAt, healthOK, requestVars>>

\* A pipe or Start itself fails; Start does when the context is done already.
\* This path neither prunes recentRestarts nor asks tooManyRestarts.
StartFails ==
    /\ pc = "launch"
    /\ EnterBackoff(restarts, recent)
    /\ UNCHANGED attemptVars

\* Wrong: one readyCh for all attempts; a failure counter for all attempts.
SharedReady == line' = FALSE /\ UNCHANGED readyCh /\ waitCh' = FALSE /\ fails' = 0
SharedFails == line' = FALSE /\ readyCh' = "empty" /\ waitCh' = FALSE /\ UNCHANGED fails

\* Every runOnce makes its own channels and counter.
FreshAttempt ==
    /\ line' = FALSE
    /\ readyCh' = "empty"
    /\ waitCh' = FALSE
    /\ fails' = 0

StartChild ==
    /\ pc = "launch"
    /\ ~ctxDone
    /\ child' = "up"
    /\ FreshAttempt
    /\ UNCHANGED <<healthOK, historyVars, requestVars>>

StartOK ==
    /\ StartChild
    /\ healthCheck # "badInterval"
    /\ pc' = "wait"
    /\ killed' = FALSE
    /\ UNCHANGED state

\* Wrong: kubectl is waited for, or left behind, without being killed.
CancelForgotten(next) ==
    /\ pc' = next
    /\ UNCHANGED killed

\* cancel() of childCtx, called or deferred, before the code goes on at next.
CancelChild(next) ==
    /\ pc' = next
    /\ killed' = TRUE

\* Wrong: a recover that only logs.
RecoverSilently == UNCHANGED state

RecoverPanic == state' = "Failing"

\* healthTicker panics after the start: the deferred cancel kills kubectl, and
\* Run's recover reports Failing and lets the goroutine end.
StartPanics ==
    /\ StartChild
    /\ healthCheck = "badInterval"
    /\ CancelChild("panicked")
    /\ RecoverPanic

-----------------------------------------------------------------------------
(***************************************************************************)
(* The cases of runOnce's select. Go picks any case that is ready. A case  *)
(* that ends the attempt cancels childCtx, then blocks on waitCh in one of *)
(* the reap states.                                                        *)
(***************************************************************************)

StopRequested ==
    /\ pc = "wait"
    /\ Cancelled
    /\ CancelChild("reapStop")
    /\ UNCHANGED <<state, healthOK, attemptData, historyVars, requestVars>>

ManualRestart ==
    /\ pc = "wait"
    /\ restartCh
    /\ restartCh' = FALSE
    /\ CancelChild("reapRestart")
    /\ UNCHANGED <<state, healthOK, attemptData, historyVars, stopCh, ctxDone>>

\* Readiness takes two critical sections: the state first, then startedAt and
\* healthOK (Marked). Status may read between them.
BecomeReady ==
    /\ pc = "wait"
    /\ readyCh = "full"
    /\ pc' = "mark"
    /\ state' = "Running"
    /\ readyCh' = "nil"
    /\ UNCHANGED <<healthOK, child, killed, line, waitCh, fails,
                   historyVars, requestVars>>

Marked ==
    /\ pc = "mark"
    /\ pc' = "wait"
    /\ startedAt' = "fresh"
    /\ healthOK' = TRUE
    /\ UNCHANGED <<state, attemptVars, restarts, recent, requestVars>>

ReadinessTimeout ==
    /\ pc = "wait"
    /\ readyCh # "nil"
    /\ CancelChild("reapFail")
    /\ UNCHANGED <<state, healthOK, attemptData, historyVars, requestVars>>

\* The request of checkHealth blocks the goroutine, away from its select.
HealthTick ==
    /\ pc = "wait"
    /\ readyCh = "nil"
    /\ healthCheck = "on"
    /\ pc' = "health"
    /\ UNCHANGED <<state, healthOK, attemptVars, historyVars, requestVars>>

healthOthers == <<state, child, line, readyCh, waitCh, historyVars, requestVars>>

HealthPasses ==
    /\ pc = "health"
    /\ pc' = "wait"
    /\ fails' = 0
    /\ healthOK' = TRUE
    /\ UNCHANGED <<healthOthers, killed>>

ThresholdExceeded(n) == n >= FailThreshold

HealthFails ==
    /\ pc = "health"
    /\ fails' = fails + 1
    /\ healthOK' = FALSE
    /\ IF ThresholdExceeded(fails + 1)
          THEN CancelChild("reapFail")
          ELSE pc' = "wait" /\ UNCHANGED killed
    /\ UNCHANGED healthOthers

-----------------------------------------------------------------------------
(***************************************************************************)
(* Collecting the child (the receives from waitCh) and what follows.       *)
(***************************************************************************)

\* Wrong: the attempt is over as soon as the child is cancelled.
ReceiveForgotten == UNCHANGED attemptVars

ReceiveExit ==
    /\ waitCh
    /\ waitCh' = FALSE
    /\ UNCHANGED <<child, killed, line, readyCh, fails>>

ReapStop ==
    /\ pc = "reapStop"
    /\ ReceiveExit
    /\ pc' = "loop"
    /\ state' = "Stopped"
    /\ startedAt' = "zero"
    /\ UNCHANGED <<healthOK, restarts, recent, requestVars>>

ReapRestart ==
    /\ pc = "reapRestart"
    /\ ReceiveExit
    /\ pc' = "loop"
    /\ restarts' = 0
    /\ recent' = 0
    /\ UNCHANGED <<state, startedAt, healthOK, requestVars>>

\* The counter a failed attempt starts from: zero after a long enough run.
\* startedAt is that of the last attempt that became ready, not of this one.
CountedRestarts == IF startedAt = "long" THEN 0 ELSE restarts

EnterPause(kept) ==
    /\ kept > MaxRecent
    /\ pc' = "pause"
    /\ state' = "Failing"
    /\ recent' = kept
    /\ restarts' = CountedRestarts
    /\ UNCHANGED <<startedAt, healthOK, requestVars>>

\* tooManyRestarts keeps the entries of the last minute, any number of them.
AfterFailure ==
    \E kept \in 0..recent :
        \/ EnterPause(kept)
        \/ kept <= MaxRecent /\ EnterBackoff(CountedRestarts, kept)

\* Wrong: the exit is only watched until kubectl is ready.
ExitNoticedBeforeReady ==
    /\ pc = "wait"
    /\ readyCh # "nil"
    /\ ReceiveExit
    /\ AfterFailure

\* kubectl exited by itself.
ExitNoticed ==
    /\ pc = "wait"
    /\ ReceiveExit
    /\ AfterFailure

\* It was killed for missing readiness or for failing its health checks.
ReapFailure ==
    /\ pc = "reapFail"
    /\ ReceiveExit
    /\ AfterFailure

BackToLoop(from) ==
    /\ pc = from
    /\ pc' = "loop"
    /\ UNCHANGED <<state, healthOK, attemptVars, startedAt, stopCh, ctxDone>>

\* Backoff ends by its timer, by a cancellation, or by a restart token, which
\* is used up and leaves the counters alone.
BackoffEnds ==
    /\ BackToLoop("backoff")
    /\ UNCHANGED <<restarts, recent, restartCh>>

BackoffInterrupted ==
    /\ BackToLoop("backoff")
    /\ restartCh
    /\ restartCh' = FALSE
    /\ UNCHANGED <<restarts, recent>>

\* The five minute pause ends by its timer or by a cancellation; it does not
\* look at restartCh.
PauseEnds ==
    /\ BackToLoop("pause")
    /\ restarts' = 0
    /\ recent' = 0
    /\ UNCHANGED restartCh

-----------------------------------------------------------------------------
(***************************************************************************)
(* kubectl, the goroutines of the attempt, the callers, and the clock.     *)
(***************************************************************************)

attemptOthers == <<pc, state, healthOK, fails, historyVars, requestVars>>

KubectlForwards ==
    /\ child = "up"
    /\ child' = "serving"
    /\ line' = TRUE
    /\ UNCHANGED <<attemptOthers, killed, readyCh, waitCh>>

KubectlDies ==
    /\ Alive
    /\ child' = "dead"
    /\ UNCHANGED <<attemptOthers, killed, line, readyCh, waitCh>>

\* exec.CommandContext kills the process once childCtx or its parent is done.
KillDelivered ==
    /\ Alive
    /\ killed \/ ctxDone
    /\ child' = "dead"
    /\ UNCHANGED <<attemptOthers, killed, line, readyCh, waitCh>>

\* cmd.Wait closes the pipe: a line not read by then may be lost.
WaitReturns ==
    /\ child = "dead"
    /\ child' = "none"
    /\ waitCh' = TRUE
    /\ line' \in {line, FALSE}
    /\ UNCHANGED <<attemptOthers, killed, readyCh>>

\* drainStdout finds the line and fills the channel it was given; once the
\* runner has taken readiness the line was the last one to fire.
DrainStdout ==
    /\ line
    /\ line' = FALSE
    /\ readyCh' = IF readyCh = "empty" THEN "full" ELSE readyCh
    /\ UNCHANGED <<attemptOthers, child, killed, waitCh>>

Restart ==
    /\ restartCh' = TRUE
    /\ UNCHANGED <<pc, state, healthOK, attemptVars, historyVars, stopCh, ctxDone>>

Stop ==
    /\ stopCh' = TRUE
    /\ UNCHANGED <<pc, state, healthOK, attemptVars, historyVars, restartCh, ctxDone>>

CancelCtx ==
    /\ ctxDone' = TRUE
    /\ UNCHANGED <<pc, state, healthOK, attemptVars, historyVars, restartCh, stopCh>>

FiveMinutesPass ==
    /\ startedAt = "fresh"
    /\ startedAt' = "long"
    /\ UNCHANGED <<pc, state, healthOK, attemptVars, restarts, recent, requestVars>>

-----------------------------------------------------------------------------

Runner ==
    \/ LoopExit
    \/ Attempt
    \/ StartFails
    \/ StartOK
    \/ StartPanics
    \/ StopRequested
    \/ ManualRestart
    \/ BecomeReady
    \/ Marked
    \/ ReadinessTimeout
    \/ HealthTick
    \/ HealthPasses
    \/ HealthFails
    \/ ReapStop
    \/ ReapRestart
    \/ ExitNoticed
    \/ ReapFailure
    \/ BackoffEnds
    \/ BackoffInterrupted
    \/ PauseEnds

Environment ==
    \/ KubectlForwards
    \/ KubectlDies
    \/ KillDelivered
    \/ WaitReturns
    \/ DrainStdout
    \/ Restart
    \/ Stop
    \/ CancelCtx
    \/ FiveMinutesPass

Next == (Runner \/ Environment) /\ UNCHANGED healthCheck

Spec == Init /\ [][Next]_vars

\* Goroutines are scheduled, timers fire, a kill arrives, a bounded health
\* request returns: weak fairness. A ready case of a select that is entered
\* again and again is picked in the end, since Go picks at random: strong.
\* Nothing is assumed of kubectl's readiness or exit, of the callers or of the
\* outcome of a start or a health check.
Fairness ==
    /\ WF_runVars(Runner)
    /\ SF_runVars(StopRequested)
    /\ SF_runVars(ManualRestart)
    /\ SF_runVars(ExitNoticed)
    /\ WF_runVars(KillDelivered)
    /\ WF_runVars(WaitReturns)
    /\ WF_runVars(DrainStdout)

FairSpec == Spec /\ Fairness

-----------------------------------------------------------------------------
(***************************************************************************)
(* Properties.                                                             *)
(***************************************************************************)

Finished == pc \in {"exited", "panicked"}

\* While the runner serves, Running is only reported of a kubectl of this very
\* attempt that did take the port: it serves, or its exit is still on its way
\* to the select. A readiness line of an earlier kubectl must never count.
RunningIsBacked ==
    state = "Running" /\ pc \in {"wait", "mark", "health"}
        => child \in {"serving", "dead"} \/ waitCh

\* The healthOK that Status shows of a Running tunnel agrees with the counter
\* that decides about killing kubectl, though one outlives the attempt and the
\* other does not (a restarted tunnel must not show its predecessor's health).
HealthFlagMatches ==
    state = "Running" /\ pc \in {"wait", "health"} => (healthOK <=> fails = 0)

\* Run never comes back while a kubectl it started holds the local port, which
\* is what Supervisor.Stop and a relaunched daemon rely on.
ExitLeavesNoChild ==
    pc = "exited" => child = "none"

\* The runner never starts a kubectl before the previous one was waited for:
\* the second could not bind the local port.
NoOverlap ==
    [][child' = "up" /\ child # "up" => child = "none"]_vars

\* A cancelled runner ends, and its kubectl with it, wherever it is: blocked
\* in a health check, reaping, in backoff or in the five minute pause.
CancelTerminates ==
    Cancelled ~> Finished /\ child = "none"

\* A manual restart request leads to a new launch (or the runner's end), also
\* when it meets the runner in backoff, in the pause or in a health check.
RestartHonoured ==
    restartCh ~> pc = "launch" \/ Finished

\* A kubectl that died while its tunnel was Running is replaced, unless the
\* tunnel is being stopped.
OutageIsRetried ==
    pc = "wait" /\ state = "Running" /\ child = "dead" ~> pc = "launch" \/ Cancelled

-----------------------------------------------------------------------------
(***************************************************************************)
(* The runner implements the lifecycle the rest of the daemon relies on.   *)
(***************************************************************************)

\* waitCh buffers the exit of a child: the runner still has to receive it. A
\* panicked runner never will.
Owned == child # "none" \/ (waitCh /\ pc # "panicked")

Fate ==
    CASE pc = "exited" -> "returned"
      [] pc = "panicked" -> "panicked"
      [] OTHER -> "live"

Lifecycle == INSTANCE TunnelLifecycle
                WITH owned <- Owned, cancelled <- Cancelled, runner <- Fate

\* Every step of the runner, of its helpers and of its environment is a step of
\* the abstract tunnel or changes nothing of it.
ImplementsLifecycle == Lifecycle!Spec
=============================================================================
