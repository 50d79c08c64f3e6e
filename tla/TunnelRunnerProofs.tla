-------------------------- MODULE TunnelRunnerProofs --------------------------
(***************************************************************************)
(* Proofs about TunnelRunner for every health check, threshold and bound.  *)
(*                                                                         *)
(* IInv strengthens the invariants of the runs until they are inductive.   *)
(* Its heart is Custody: outside an attempt there is no child and nothing  *)
(* in waitCh, and during one there is exactly one of the two.              *)
(*                                                                         *)
(* The last part is about RestartPolicy, the delays of the same goroutine, *)
(* for attempts of any length and any number of interventions.             *)
(***************************************************************************)
EXTENDS TunnelRunner, SequenceTheorems, WellFoundedInduction, TLAPS

CONSTANTS Lasting, Jitters, MaxTouched
VARIABLES quarter, counted, ages, readyAge, attemptState, touched, failures

\* The same goroutine in real time: restarts is counted, and recentRestarts the ages
\* of its times.
Policy == INSTANCE RestartPolicy
             WITH restarts <- counted, recent <- ages, state <- attemptState

Idle == {"loop", "launch", "backoff", "pause", "exited"}
Serving == {"wait", "mark", "health"}
Reaping == {"reapStop", "reapRestart", "reapFail"}

\* The exit of the one child of an attempt is collected exactly once.
Custody ==
    /\ pc \in Idle => child = "none" /\ ~waitCh
    /\ pc \notin Idle => (child = "none" <=> waitCh)

\* What is reported, against where the goroutine is.
Reporting ==
    /\ pc = "launch" => state = "Starting"
    /\ pc = "panicked" => state = "Failing"
    /\ pc = "reapStop" => Cancelled
    /\ pc = "wait" /\ readyCh # "nil" => state = "Starting"
    /\ pc \in {"mark", "health"} => readyCh = "nil"
    /\ pc \in Serving /\ readyCh = "nil" => state = "Running"

\* A readiness line, on its way or taken, comes from a kubectl that served.
Evidence ==
    pc \in Serving /\ (line \/ readyCh # "empty")
        => child \in {"serving", "dead"} \/ waitCh

\* The failure counter of the attempt, and the flag that shows it.
Health ==
    /\ pc \in Serving => fails < FailThreshold
    /\ pc = "mark" => fails = 0
    /\ pc = "wait" /\ readyCh # "nil" => fails = 0
    /\ pc \in {"wait", "health"} /\ readyCh = "nil" => (healthOK <=> fails = 0)

IInv ==
    /\ TypeOK
    /\ Custody
    /\ Reporting
    /\ Evidence
    /\ Health

-----------------------------------------------------------------------------

\* Capping an incremented counter keeps it in its range.
LEMMA CapInRange ==
    ASSUME NEW b \in Nat, NEW n \in 0..(b + 1)
    PROVE  /\ CapAt(n + 1, b + 1) \in 0..(b + 1)
           /\ CapAt(0 + 1, b + 1) \in 0..(b + 1)
    BY DEF CapAt

\* The runner as newTunnelRunner makes it satisfies the invariant.
THEOREM InitIInv == Init => IInv
<1> SUFFICES ASSUME Init PROVE IInv
    OBVIOUS
<1>1. TypeOK
  <2>1. /\ healthOK \in BOOLEAN /\ restartCh \in BOOLEAN /\ stopCh \in BOOLEAN
        /\ ctxDone \in BOOLEAN /\ killed \in BOOLEAN /\ line \in BOOLEAN
        /\ waitCh \in BOOLEAN
    BY Zenon DEF Init
  <2>2. QED
    BY <2>1, ThresholdAssumption, BoundsAssumption DEF Init, TypeOK, PCs
<1>2. Custody
    BY DEF Init, Custody, Idle
<1>3. Reporting /\ Evidence /\ Health
    BY DEF Init, Reporting, Evidence, Health, Serving
<1>4. QED
    BY <1>1, <1>2, <1>3 DEF IInv

\* No step of the runner, of its helpers, of kubectl or of a caller breaks it.
THEOREM StepIInv == IInv /\ [Next]_vars => IInv'
<1> SUFFICES ASSUME IInv, [Next]_vars PROVE IInv'
    OBVIOUS
<1> USE ThresholdAssumption, BoundsAssumption
    DEF IInv, Cancelled, vars, runVars, attemptVars, attemptData, historyVars, requestVars
<1>0. healthCheck' \in HealthChecks
    BY DEF Next, TypeOK
<1> USE <1>0
<1>1. CASE LoopExit
    BY <1>1 DEF LoopExit,
        TypeOK, PCs, Custody, Reporting, Evidence, Health, Idle, Serving
<1>2. CASE Attempt
    BY <1>2 DEF Attempt,
        TypeOK, PCs, Custody, Reporting, Evidence, Health, Idle, Serving
<1>3. CASE StartFails
    BY <1>3 DEF StartFails, EnterBackoff, CapAt,
        TypeOK, PCs, Custody, Reporting, Evidence, Health, Idle, Serving
<1>4. CASE StartOK
  <2>1. TypeOK'
    <3>1. line' \in BOOLEAN /\ waitCh' \in BOOLEAN /\ killed' \in BOOLEAN
      BY <1>4, Zenon DEF StartOK, StartChild, FreshAttempt, TypeOK
    <3>2. QED
      BY <1>4, <3>1, CapInRange DEF StartOK, StartChild, FreshAttempt,
          TypeOK, PCs
  <2>2. Custody' /\ Reporting' /\ Evidence' /\ Health'
    BY <1>4 DEF StartOK, StartChild, FreshAttempt,
        TypeOK, PCs, Custody, Reporting, Evidence, Health, Idle, Serving
  <2>3. QED
    BY <2>1, <2>2
<1>5. CASE StartPanics
  <2>1. TypeOK'
    <3>1. line' \in BOOLEAN /\ waitCh' \in BOOLEAN /\ killed' \in BOOLEAN
      BY <1>5, Zenon DEF StartPanics, StartChild, FreshAttempt,
          CancelChild, RecoverPanic, TypeOK
    <3>2. QED
      BY <1>5, <3>1, CapInRange DEF StartPanics, StartChild, FreshAttempt,
          CancelChild, RecoverPanic, TypeOK, PCs
  <2>2. pc' = "panicked" /\ child' = "up" /\ ~waitCh' /\ state' = "Failing"
    BY <1>5, Zenon DEF StartPanics, StartChild, FreshAttempt, CancelChild, RecoverPanic
  <2>3. Custody' /\ Reporting'
    BY <2>2 DEF Custody, Reporting, Idle, Serving
  <2>4. Evidence' /\ Health'
    BY <2>2 DEF Evidence, Health, Serving
  <2>5. QED
    BY <2>1, <2>3, <2>4
<1>6. CASE StopRequested
    BY <1>6 DEF StopRequested, CancelChild,
        TypeOK, PCs, Custody, Reporting, Evidence, Health, Idle, Serving
<1>7. CASE ManualRestart
  <2>1. TypeOK'
    <3>1. restartCh' \in BOOLEAN /\ killed' \in BOOLEAN
      BY <1>7, Zenon DEF ManualRestart, CancelChild
    <3>2. QED
      BY <1>7, <3>1 DEF ManualRestart, CancelChild, TypeOK, PCs
  <2>2. Custody' /\ Reporting' /\ Evidence' /\ Health'
    BY <1>7 DEF ManualRestart, CancelChild,
        TypeOK, PCs, Custody, Reporting, Evidence, Health, Idle, Serving
  <2>3. QED
    BY <2>1, <2>2
<1>8. CASE BecomeReady
    BY <1>8 DEF BecomeReady,
        TypeOK, PCs, Custody, Reporting, Evidence, Health, Idle, Serving
<1>9. CASE Marked
    BY <1>9 DEF Marked,
        TypeOK, PCs, Custody, Reporting, Evidence, Health, Idle, Serving
<1>10. CASE ReadinessTimeout
    BY <1>10 DEF ReadinessTimeout, CancelChild,
        TypeOK, PCs, Custody, Reporting, Evidence, Health, Idle, Serving
<1>11. CASE HealthTick
    BY <1>11 DEF HealthTick,
        TypeOK, PCs, Custody, Reporting, Evidence, Health, Idle, Serving
<1>12. CASE HealthPasses
    BY <1>12 DEF HealthPasses, healthOthers,
        TypeOK, PCs, Custody, Reporting, Evidence, Health, Idle, Serving
<1>13. CASE HealthFails
  <2>1. TypeOK'
    <3>1. healthOK' \in BOOLEAN /\ killed' \in BOOLEAN
      BY <1>13, Zenon DEF HealthFails, CancelChild, ThresholdExceeded,
          healthOthers, TypeOK
    <3>2. QED
      BY <1>13, <3>1, CapInRange DEF HealthFails, CancelChild,
          ThresholdExceeded, healthOthers, TypeOK, PCs, Health, Serving
  <2>2. Custody' /\ Reporting' /\ Evidence' /\ Health'
    BY <1>13 DEF HealthFails, CancelChild, ThresholdExceeded, healthOthers,
        TypeOK, PCs, Custody, Reporting, Evidence, Health, Idle, Serving
  <2>3. QED
    BY <2>1, <2>2
<1>14. CASE ReapStop
    BY <1>14 DEF ReapStop, ReceiveExit,
        TypeOK, PCs, Custody, Reporting, Evidence, Health, Idle, Serving
<1>15. CASE ReapRestart
  <2>1. TypeOK'
    <3>1. waitCh' \in BOOLEAN
      BY <1>15, Zenon DEF ReapRestart, ReceiveExit, TypeOK
    <3>2. QED
      BY <1>15, <3>1, CapInRange DEF ReapRestart, ReceiveExit, TypeOK, PCs
  <2>2. Custody' /\ Reporting' /\ Evidence' /\ Health'
    BY <1>15 DEF ReapRestart, ReceiveExit,
        TypeOK, PCs, Custody, Reporting, Evidence, Health, Idle, Serving
  <2>3. QED
    BY <2>1, <2>2
<1>16. CASE ExitNoticed
  <2>1. TypeOK'
    <3>1. waitCh' \in BOOLEAN
      BY <1>16, Zenon DEF ExitNoticed, ReceiveExit, AfterFailure,
          EnterPause, EnterBackoff, CountedRestarts, CapAt, TypeOK
    <3>2. QED
      BY <1>16, <3>1, CapInRange DEF ExitNoticed, ReceiveExit,
          AfterFailure, EnterPause, EnterBackoff, CountedRestarts, CapAt,
          TypeOK, PCs
  <2>2. Custody' /\ Reporting' /\ Evidence' /\ Health'
    BY <1>16 DEF ExitNoticed, ReceiveExit, AfterFailure, EnterPause,
        EnterBackoff, CountedRestarts, CapAt,
        TypeOK, PCs, Custody, Reporting, Evidence, Health, Idle, Serving
  <2>3. QED
    BY <2>1, <2>2
<1>17. CASE ReapFailure
  <2>1. TypeOK'
    <3>1. waitCh' \in BOOLEAN
      BY <1>17, Zenon DEF ReapFailure, ReceiveExit, AfterFailure,
          EnterPause, EnterBackoff, CountedRestarts, CapAt, TypeOK
    <3>2. QED
      BY <1>17, <3>1, CapInRange DEF ReapFailure, ReceiveExit,
          AfterFailure, EnterPause, EnterBackoff, CountedRestarts, CapAt,
          TypeOK, PCs
  <2>2. Custody' /\ Reporting' /\ Evidence' /\ Health'
    BY <1>17 DEF ReapFailure, ReceiveExit, AfterFailure, EnterPause,
        EnterBackoff, CountedRestarts, CapAt,
        TypeOK, PCs, Custody, Reporting, Evidence, Health, Idle, Serving
  <2>3. QED
    BY <2>1, <2>2
<1>18. CASE BackoffEnds
    BY <1>18 DEF BackoffEnds, BackToLoop,
        TypeOK, PCs, Custody, Reporting, Evidence, Health, Idle, Serving
<1>19. CASE BackoffInterrupted
  <2>1. TypeOK'
    <3>1. restartCh' \in BOOLEAN
      BY <1>19, Zenon DEF BackoffInterrupted, BackToLoop, TypeOK
    <3>2. QED
      BY <1>19, <3>1, CapInRange DEF BackoffInterrupted, BackToLoop, TypeOK, PCs
  <2>2. Custody' /\ Reporting' /\ Evidence' /\ Health'
    BY <1>19 DEF BackoffInterrupted, BackToLoop,
        TypeOK, PCs, Custody, Reporting, Evidence, Health, Idle, Serving
  <2>3. QED
    BY <2>1, <2>2
<1>20. CASE PauseEnds
    BY <1>20 DEF PauseEnds, BackToLoop,
        TypeOK, PCs, Custody, Reporting, Evidence, Health, Idle, Serving
<1>21. CASE KubectlForwards
    BY <1>21 DEF KubectlForwards, attemptOthers,
        TypeOK, PCs, Custody, Reporting, Evidence, Health, Idle, Serving
<1>22. CASE KubectlDies
    BY <1>22 DEF KubectlDies, attemptOthers, Alive,
        TypeOK, PCs, Custody, Reporting, Evidence, Health, Idle, Serving
<1>23. CASE KillDelivered
    BY <1>23 DEF KillDelivered, attemptOthers, Alive,
        TypeOK, PCs, Custody, Reporting, Evidence, Health, Idle, Serving
<1>24. CASE WaitReturns
  <2>1. TypeOK'
    <3>1. line' \in BOOLEAN /\ waitCh' \in BOOLEAN
      BY <1>24, Zenon DEF WaitReturns, attemptOthers, TypeOK
    <3>2. QED
      BY <1>24, <3>1, CapInRange DEF WaitReturns, attemptOthers, TypeOK, PCs
  <2>2. Custody' /\ Reporting' /\ Evidence' /\ Health'
    BY <1>24 DEF WaitReturns, attemptOthers,
        TypeOK, PCs, Custody, Reporting, Evidence, Health, Idle, Serving
  <2>3. QED
    BY <2>1, <2>2
<1>25. CASE DrainStdout
  <2>1. TypeOK'
    <3>1. line' \in BOOLEAN
      BY <1>25, Zenon DEF DrainStdout, attemptOthers, TypeOK
    <3>2. QED
      BY <1>25, <3>1, CapInRange DEF DrainStdout, attemptOthers, TypeOK, PCs
  <2>2. Custody' /\ Reporting' /\ Evidence' /\ Health'
    BY <1>25 DEF DrainStdout, attemptOthers,
        TypeOK, PCs, Custody, Reporting, Evidence, Health, Idle, Serving
  <2>3. QED
    BY <2>1, <2>2
<1>26. CASE Restart
    BY <1>26 DEF Restart,
        TypeOK, PCs, Custody, Reporting, Evidence, Health, Idle, Serving
<1>27. CASE Stop
    BY <1>27 DEF Stop,
        TypeOK, PCs, Custody, Reporting, Evidence, Health, Idle, Serving
<1>28. CASE CancelCtx
    BY <1>28 DEF CancelCtx,
        TypeOK, PCs, Custody, Reporting, Evidence, Health, Idle, Serving
<1>29. CASE FiveMinutesPass
    BY <1>29 DEF FiveMinutesPass,
        TypeOK, PCs, Custody, Reporting, Evidence, Health, Idle, Serving
<1>30. CASE UNCHANGED vars
    BY <1>30 DEF TypeOK, PCs, Custody, Reporting, Evidence, Health, Idle,
        Serving
<1>31. QED
    BY <1>1, <1>2, <1>3, <1>4, <1>5, <1>6, <1>7, <1>8, <1>9, <1>10, <1>11,
        <1>12, <1>13, <1>14, <1>15, <1>16, <1>17, <1>18, <1>19, <1>20,
        <1>21, <1>22, <1>23, <1>24, <1>25, <1>26, <1>27, <1>28, <1>29, <1>30
        DEF Next, Runner, Environment

-----------------------------------------------------------------------------
(***************************************************************************)
(* Safety, for every value of the constants.                               *)
(***************************************************************************)

\* The inductive invariant holds in every reachable state.
THEOREM Invariance == Spec => []IInv
    BY InitIInv, StepIInv, PTL DEF Spec

\* Every variable keeps its type: the counters stay within their caps and the
\* failure counter within the threshold.
THEOREM TypeCorrect == Spec => []TypeOK
<1>1. IInv => TypeOK
    BY DEF IInv
<1>2. QED
    BY <1>1, Invariance, PTL

\* A Running tunnel is backed by a kubectl of the same attempt that took the
\* port, whatever stale output an earlier kubectl left behind.
THEOREM Backed == Spec => []RunningIsBacked
<1>1. IInv => RunningIsBacked
    BY DEF IInv, Reporting, Evidence, Serving, RunningIsBacked
<1>2. QED
    BY <1>1, Invariance, PTL

\* healthOK and the failure counter agree in every Running tunnel.
THEOREM HealthShown == Spec => []HealthFlagMatches
<1>1. IInv => HealthFlagMatches
    BY DEF IInv, Reporting, Health, Serving, HealthFlagMatches
<1>2. QED
    BY <1>1, Invariance, PTL

\* Run returns only after its last kubectl was waited for.
THEOREM CleanExit == Spec => []ExitLeavesNoChild
<1>1. IInv => ExitLeavesNoChild
    BY DEF IInv, Custody, Idle, ExitLeavesNoChild
<1>2. QED
    BY <1>1, Invariance, PTL

\* Two kubectls of one runner never overlap.
THEOREM OneChildAtATime == Spec => NoOverlap
<1>1. IInv /\ [Next]_vars => [child' = "up" /\ child # "up" => child = "none"]_vars
  <2> SUFFICES ASSUME IInv, [Next]_vars, child' = "up", child # "up"
               PROVE  child = "none"
      OBVIOUS
  <2>1. StartOK \/ StartPanics \/ child' = child \/ child' # "up"
      BY DEF Next, Runner, Environment, vars, runVars, attemptVars, attemptData,
             attemptOthers, healthOthers,
             LoopExit, Attempt, StartFails, StopRequested, ManualRestart,
             BecomeReady, Marked, ReadinessTimeout, HealthTick,
             HealthPasses, HealthFails, ReapStop, ReapRestart, ExitNoticed,
             ReapFailure, BackoffEnds, BackoffInterrupted, PauseEnds,
             KubectlForwards, KubectlDies, KillDelivered, WaitReturns,
             DrainStdout, Restart, Stop, CancelCtx, FiveMinutesPass,
             CancelChild, ReceiveExit, BackToLoop
  <2>2. CASE StartOK \/ StartPanics
      BY <2>2 DEF IInv, Custody, Idle, StartOK, StartPanics, StartChild
  <2>3. QED
      BY <2>1, <2>2
<1>2. QED
    BY <1>1, Invariance, PTL DEF Spec, NoOverlap

-----------------------------------------------------------------------------
(***************************************************************************)
(* Refinement: the runner implements TunnelLifecycle.                      *)
(***************************************************************************)

\* The abstract tunnel before the first attempt.
LEMMA InitRefines == Init => Lifecycle!Init
    BY DEF Init, Lifecycle!Init, Owned, Cancelled, Fate

\* A step that changes neither the reported state, nor what is cancelled, nor
\* whether there is a child or a result in waitCh, nor the end of the
\* goroutine, is a stutter of the abstract tunnel.
LEMMA StepRefines ==
    IInv /\ [Next]_vars => [Lifecycle!Next]_(Lifecycle!lifecycleVars)
<1> SUFFICES ASSUME IInv, [Next]_vars
             PROVE  [Lifecycle!Next]_(Lifecycle!lifecycleVars)
    OBVIOUS
<1> USE DEF IInv, TypeOK, PCs, Custody, Reporting, Evidence, Idle, Serving,
        Owned, Fate, Cancelled, Alive, vars, runVars, attemptVars, attemptData,
        historyVars, requestVars, Lifecycle!lifecycleVars
<1>1. CASE LoopExit
  <2>1. Lifecycle!Return
    BY <1>1 DEF LoopExit, Lifecycle!Return
  <2>2. QED
    BY <2>1 DEF Lifecycle!Next
<1>2. CASE Attempt
  <2>1. Lifecycle!Attempt
    BY <1>2 DEF Attempt, Lifecycle!Attempt
  <2>2. QED
    BY <2>1 DEF Lifecycle!Next
<1>3. CASE StartFails
  <2>1. Lifecycle!AbortLaunch
    BY <1>3 DEF StartFails, EnterBackoff, CapAt, Lifecycle!AbortLaunch
  <2>2. QED
    BY <2>1 DEF Lifecycle!Next
<1>4. CASE StartOK
  <2>1. Lifecycle!ChildStarts
    BY <1>4 DEF StartOK, StartChild, FreshAttempt, Lifecycle!ChildStarts
  <2>2. QED
    BY <2>1 DEF Lifecycle!Next
<1>5. CASE StartPanics
  <2>1. Lifecycle!Crash
    BY <1>5 DEF StartPanics, StartChild, FreshAttempt, CancelChild,
        RecoverPanic, Lifecycle!Crash
  <2>2. QED
    BY <2>1 DEF Lifecycle!Next
<1>6. CASE StopRequested
    BY <1>6 DEF StopRequested, CancelChild
<1>7. CASE ManualRestart
    BY <1>7 DEF ManualRestart, CancelChild
<1>8. CASE BecomeReady
  <2>1. Lifecycle!Ready
    BY <1>8 DEF BecomeReady, Lifecycle!Ready
  <2>2. QED
    BY <2>1 DEF Lifecycle!Next
<1>9. CASE Marked
    BY <1>9 DEF Marked
<1>10. CASE ReadinessTimeout
    BY <1>10 DEF ReadinessTimeout, CancelChild
<1>11. CASE HealthTick
    BY <1>11 DEF HealthTick
<1>12. CASE HealthPasses
    BY <1>12 DEF HealthPasses, healthOthers
<1>13. CASE HealthFails
    BY <1>13 DEF HealthFails, CancelChild, ThresholdExceeded, healthOthers
<1>14. CASE ReapStop
  <2>1. Lifecycle!Collect
    BY <1>14 DEF ReapStop, ReceiveExit, Lifecycle!Collect
  <2>2. QED
    BY <2>1 DEF Lifecycle!Next
<1>15. CASE ReapRestart
  <2>1. Lifecycle!Collect
    BY <1>15 DEF ReapRestart, ReceiveExit, Lifecycle!Collect
  <2>2. QED
    BY <2>1 DEF Lifecycle!Next
<1>16. CASE ExitNoticed
  <2>1. Lifecycle!Collect
    BY <1>16 DEF ExitNoticed, ReceiveExit, AfterFailure, EnterPause,
        EnterBackoff, CountedRestarts, CapAt, Lifecycle!Collect
  <2>2. QED
    BY <2>1 DEF Lifecycle!Next
<1>17. CASE ReapFailure
  <2>1. Lifecycle!Collect
    BY <1>17 DEF ReapFailure, ReceiveExit, AfterFailure, EnterPause,
        EnterBackoff, CountedRestarts, CapAt, Lifecycle!Collect
  <2>2. QED
    BY <2>1 DEF Lifecycle!Next
<1>18. CASE BackoffEnds
    BY <1>18 DEF BackoffEnds, BackToLoop
<1>19. CASE BackoffInterrupted
    BY <1>19 DEF BackoffInterrupted, BackToLoop
<1>20. CASE PauseEnds
    BY <1>20 DEF PauseEnds, BackToLoop
<1>21. CASE KubectlForwards
    BY <1>21 DEF KubectlForwards, attemptOthers
<1>22. CASE KubectlDies
    BY <1>22 DEF KubectlDies, attemptOthers, Alive
<1>23. CASE KillDelivered
    BY <1>23 DEF KillDelivered, attemptOthers, Alive
<1>24. CASE WaitReturns
  <2>1. CASE pc = "panicked"
    <3>1. Lifecycle!AbandonedChildEnds
      BY <1>24, <2>1 DEF WaitReturns, attemptOthers,
          Lifecycle!AbandonedChildEnds
    <3>2. QED
      BY <3>1 DEF Lifecycle!Next
  <2>2. CASE pc # "panicked"
    BY <1>24, <2>2 DEF WaitReturns, attemptOthers
  <2>3. QED
    BY <2>1, <2>2
<1>25. CASE DrainStdout
    BY <1>25 DEF DrainStdout, attemptOthers
<1>26. CASE Restart
    BY <1>26 DEF Restart
<1>27. CASE Stop
  <2>1. Lifecycle!Cancel
    BY <1>27 DEF Stop, Lifecycle!Cancel
  <2>2. QED
    BY <2>1 DEF Lifecycle!Next
<1>28. CASE CancelCtx
  <2>1. Lifecycle!Cancel
    BY <1>28 DEF CancelCtx, Lifecycle!Cancel
  <2>2. QED
    BY <2>1 DEF Lifecycle!Next
<1>29. CASE FiveMinutesPass
    BY <1>29 DEF FiveMinutesPass
<1>30. CASE UNCHANGED vars
    BY <1>30
<1>31. QED
    BY <1>1, <1>2, <1>3, <1>4, <1>5, <1>6, <1>7, <1>8, <1>9, <1>10, <1>11,
        <1>12, <1>13, <1>14, <1>15, <1>16, <1>17, <1>18, <1>19, <1>20,
        <1>21, <1>22, <1>23, <1>24, <1>25, <1>26, <1>27, <1>28, <1>29, <1>30
        DEF Next, Runner, Environment

\* TunnelRunner implements TunnelLifecycle, for every health check, threshold
\* and bound: what the daemon relies on of a tunnel is what the goroutines do.
THEOREM Refinement == Spec => ImplementsLifecycle
    BY InitRefines, StepRefines, Invariance, PTL
    DEF Spec, ImplementsLifecycle, Lifecycle!Spec
-----------------------------------------------------------------------------
(***************************************************************************)
(* The restart policy. Its invariant (PolicyInv) ties what recentRestarts  *)
(* holds to the two counters: to the failures since the last pause, and,   *)
(* while nobody intervenes, to the restarts that the delays grow with.     *)
(***************************************************************************)

Window == Policy!Window

\* kept is what the loop of tooManyRestarts keeps of the first n times.
LoopUpTo(kept, s, seconds, n) ==
    kept = [i \in 0..n |-> IF i = 0 THEN <<>> ELSE Policy!Kept(kept[i - 1], s[i] + seconds)]

LEMMA LeastNumber ==
    ASSUME NEW S \in SUBSET Nat, S # {}
    PROVE  \E x \in S : \A y \in S : x <= y
<1> DEFINE R == {ss \in Nat \X Nat : ss[1] < ss[2]}
<1>1. IsWellFoundedOn(R, Nat)
    BY NatLessThanWellFounded DEF OpToRel
<1>2. PICK x \in S : \A y \in S : <<y, x>> \notin R
  <2> HIDE DEF R
  <2>1. QED
    BY <1>1, WFMin
<1>3. \A y \in S : x <= y
  <2> TAKE y \in S
  <2>1. ~(y < x)
    BY <1>2
  <2>2. QED
    BY <2>1
<1>4. QED
    BY <1>3

LEMMA LoopGoesOn ==
    ASSUME NEW s, NEW seconds, NEW n \in Nat
    PROVE  \E kept : LoopUpTo(kept, s, seconds, n)
<1> DEFINE Stuck == {i \in Nat : ~\E kept : LoopUpTo(kept, s, seconds, i)}
<1> SUFFICES ASSUME Stuck # {} PROVE FALSE
    OBVIOUS
<1>1. PICK m \in Stuck : \A i \in Stuck : m <= i
  <2>1. Stuck \in SUBSET Nat
    OBVIOUS
  <2> HIDE DEF Stuck
  <2>2. QED
    BY <2>1, LeastNumber
<1>2. m # 0
  <2> DEFINE first == [i \in 0..0 |-> <<>>]
  <2>1. LoopUpTo(first, s, seconds, 0)
    BY DEF LoopUpTo
  <2> HIDE DEF first
  <2>2. QED
    BY <1>1, <2>1
<1>3. PICK before : LoopUpTo(before, s, seconds, m - 1)
  <2>1. m - 1 \in Nat /\ ~(m <= m - 1)
    BY <1>1, <1>2
  <2>2. m - 1 \notin Stuck
    BY <1>1, <2>1
  <2>3. QED
    BY <2>1, <2>2
<1> DEFINE kept == [i \in 0..m |->
                       IF i = m THEN Policy!Kept(before[m - 1], s[m] + seconds) ELSE before[i]]
<1>4. m \in Nat /\ m - 1 \in Nat
    BY <1>1, <1>2
<1>5. ASSUME NEW i \in 0..m
      PROVE  kept[i] = IF i = 0 THEN <<>> ELSE Policy!Kept(kept[i - 1], s[i] + seconds)
  <2>1. CASE i = m
    <3>1. kept[i] = Policy!Kept(before[m - 1], s[m] + seconds) /\ kept[i - 1] = before[m - 1]
      BY <1>4, <2>1
    <3> HIDE DEF kept
    <3>2. QED
      BY <1>2, <2>1, <3>1
  <2>2. CASE i # m
    <3>1. i \in 0..(m - 1)
      BY <1>4, <2>2
    <3>2. before[i] = IF i = 0 THEN <<>> ELSE Policy!Kept(before[i - 1], s[i] + seconds)
      BY <1>3, <3>1 DEF LoopUpTo
    <3>3. kept[i] = before[i] /\ (i # 0 => kept[i - 1] = before[i - 1])
      BY <1>4, <2>2, <3>1
    <3> HIDE DEF kept
    <3>4. QED
      BY <3>2, <3>3
  <2>3. QED
    BY <2>1, <2>2
<1>6. LoopUpTo(kept, s, seconds, m)
  <2>1. kept = [i \in 0..m |-> kept[i]]
    OBVIOUS
  <2> HIDE DEF kept
  <2>2. QED
    BY <1>5, <2>1 DEF LoopUpTo
<1> HIDE DEF kept
<1>7. QED
    BY <1>1, <1>6

LEMMA AgesOf ==
    ASSUME NEW low \in Nat, NEW s \in Seq(low..Window)
    PROVE  /\ s \in Seq(Nat) /\ Len(s) \in Nat
           /\ \A i \in 1..Len(s) : s[i] \in Nat /\ s[i] >= low
<1>1. Window \in Nat
    BY DEF Window, Policy!Window
<1>2. Len(s) \in Nat
    OBVIOUS
<1>3. ASSUME NEW i \in 1..Len(s)
      PROVE  s[i] \in Nat /\ s[i] >= low
  <2>1. s[i] \in low..Window
    BY <1>3, ElementOfSeq
  <2> DEFINE age == s[i]
  <2> HIDE DEF age
  <2>2. age \in low..Window => age \in Nat /\ age >= low
    BY <1>1
  <2>3. QED
    BY <2>1, <2>2 DEF age
<1>4. s \in Seq(Nat)
  <2>1. low..Window \subseteq Nat
    BY <1>1
  <2>2. QED
    BY <2>1, SeqMonotonic
<1>5. QED
    BY <1>2, <1>3, <1>4

\* One turn of the loop, which leaves out the first gone times.
LEMMA KeepsOne ==
    ASSUME NEW low \in Nat, NEW kept \in Seq(low..Window), NEW age \in Nat, age >= low,
           NEW gone \in Nat, NEW n \in Nat, n <= gone => age > Window,
           Len(kept) <= IF n - 1 <= gone THEN 0 ELSE n - 1 - gone
    PROVE  /\ Policy!Kept(kept, age) \in Seq(low..Window)
           /\ Len(Policy!Kept(kept, age)) <= IF n <= gone THEN 0 ELSE n - gone
<1>1. CASE age > Window
  <2>1. Policy!Kept(kept, age) = kept
    BY <1>1 DEF Policy!Kept, Window, Policy!Window
  <2>2. QED
    BY <2>1
<1>2. CASE ~(age > Window)
  <2>1. Policy!Kept(kept, age) = Append(kept, age) /\ age \in low..Window
    BY <1>2 DEF Policy!Kept, Window, Policy!Window
  <2>2. Append(kept, age) \in Seq(low..Window) /\ Len(Append(kept, age)) = Len(kept) + 1
    BY <2>1, AppendProperties
  <2>3. ~(n <= gone)
    BY <1>2
  <2>4. Len(kept) + 1 <= n - gone
    BY <2>3
  <2>5. QED
    BY <2>1, <2>2, <2>3, <2>4
<1>3. QED
    BY <1>1, <1>2

\* What is left of times after some seconds: none of the first gone, which are past
\* the window then, and none that is younger than low.
LEMMA AgedBounds ==
    ASSUME NEW s \in Seq(Nat), NEW seconds \in Nat,
           NEW gone \in 0..Len(s), \A i \in 1..gone : s[i] + seconds > Window,
           NEW low \in Nat, \A i \in 1..Len(s) : s[i] + seconds >= low
    PROVE  /\ Policy!Aged(s, seconds) \in Seq(low..Window)
           /\ Len(Policy!Aged(s, seconds)) <= Len(s) - gone
<1>1. Len(s) \in Nat /\ gone \in Nat
    OBVIOUS
<1> DEFINE kept == CHOOSE kept : LoopUpTo(kept, s, seconds, Len(s))
<1>2. LoopUpTo(kept, s, seconds, Len(s))
    BY <1>1, LoopGoesOn
<1>3. Policy!Aged(s, seconds) = kept[Len(s)]
    BY DEF Policy!Aged, LoopUpTo
<1> HIDE DEF kept
<1>4. \A i \in 0..Len(s) :
         kept[i] = IF i = 0 THEN <<>> ELSE Policy!Kept(kept[i - 1], s[i] + seconds)
    BY <1>2 DEF LoopUpTo
<1> DEFINE Most(i) == IF i <= gone THEN 0 ELSE i - gone
           Right(i) == kept[i] \in Seq(low..Window) /\ Len(kept[i]) <= Most(i)
           Wrong == {i \in 0..Len(s) : ~Right(i)}
<1>5. ASSUME Wrong # {}
      PROVE  FALSE
  <2>1. PICK m \in Wrong : \A i \in Wrong : m <= i
    <3>1. Wrong \in SUBSET Nat
      BY <1>1
    <3> HIDE DEF Wrong
    <3>2. QED
      BY <1>5, <3>1, LeastNumber
  <2>2. m \in 0..Len(s) /\ m \in Nat /\ ~Right(m)
    BY <1>1, <2>1
  <2>3. CASE m = 0
    <3>1. kept[0] = <<>>
      BY <1>4, <2>2, <2>3
    <3>2. QED
      BY <1>1, <2>2, <2>3, <3>1
  <2>4. CASE m # 0
    <3>1. m - 1 \in 0..Len(s) /\ m \in 1..Len(s) /\ ~(m <= m - 1)
      BY <1>1, <2>2, <2>4
    <3>2. Right(m - 1)
      BY <2>1, <3>1
    <3>3. kept[m] = Policy!Kept(kept[m - 1], s[m] + seconds)
      BY <1>4, <2>4, <3>1
    <3>4. /\ s[m] + seconds \in Nat /\ s[m] + seconds >= low
          /\ m <= gone => s[m] + seconds > Window
      BY <3>1
    <3>5. Right(m)
      <4> DEFINE before == kept[m - 1]
                 age == s[m] + seconds
      <4>1. before \in Seq(low..Window) /\ Len(before) <= IF m - 1 <= gone THEN 0 ELSE m - 1 - gone
        BY <3>2
      <4>2. age \in Nat /\ age >= low /\ (m <= gone => age > Window)
        BY <3>4
      <4>3. kept[m] = Policy!Kept(before, age)
        BY <3>3
      <4> HIDE DEF before, age
      <4>4. /\ Policy!Kept(before, age) \in Seq(low..Window)
            /\ Len(Policy!Kept(before, age)) <= IF m <= gone THEN 0 ELSE m - gone
        BY <1>1, <2>2, <4>1, <4>2, KeepsOne
      <4>5. QED
        BY <4>3, <4>4
    <3>6. QED
      BY <2>2, <3>5
  <2>5. QED
    BY <2>3, <2>4
<1>6. Right(Len(s))
    BY <1>1, <1>5
<1>7. QED
    BY <1>1, <1>3, <1>6

\* The failures that are remembered were all counted since the last pause. While
\* nobody intervenes they are no more than the restarts, and from the seventh on,
\* when a wait takes 45 seconds or longer, they are as old as that.
PolicyInv ==
    /\ quarter \in Nat
    /\ counted \in 0..7
    /\ ages \in Seq(0..Window)
    /\ touched \in Nat
    /\ failures \in 0..11
    /\ failures <= 10 => Len(ages) <= failures
    /\ touched = 0 =>
          /\ readyAge = Policy!Unset
          /\ attemptState # "Failing"
          /\ Len(ages) <= counted
          /\ counted = 7 => \A i \in 1..Len(ages) : ages[i] >= 45

LEMMA Quarters ==
    ASSUME NEW n \in Nat
    PROVE  /\ n \div 4 \in Nat /\ n % 4 \in Nat
           /\ n >= 180 => n \div 4 >= 45
    OBVIOUS

LEMMA DelayBounds ==
    ASSUME NEW attempt \in 1..8, NEW jitter \in 3..5
    PROVE  /\ Policy!Delay(attempt, jitter) \in Nat
           /\ attempt >= 7 => Policy!Delay(attempt, jitter) >= 180
<1> DEFINE k == Policy!CapAt(attempt, 7)
           seconds == Policy!CapAt(Policy!Shifted[k], 60)
<1>1. k \in 1..7 /\ (attempt >= 7 => k = 7)
    BY DEF Policy!CapAt
<1>2. Policy!Delay(attempt, jitter) = seconds * jitter
  <2>1. Policy!MaxShift + 1 = 7
    BY DEF Policy!MaxShift
  <2>2. QED
    BY <2>1 DEF Policy!Delay
<1> HIDE DEF k
<1>3. Policy!Shifted[k] \in {1, 2, 4, 8, 16, 32, 64} /\ (k = 7 => Policy!Shifted[k] = 64)
    BY <1>1 DEF Policy!Shifted
<1>4. seconds \in Nat /\ (k = 7 => seconds = 60)
    BY <1>3 DEF Policy!CapAt
<1> HIDE DEF seconds
<1>5. seconds * jitter \in Nat
    BY <1>4
<1>6. k = 7 => seconds * jitter >= 180
    BY <1>4
<1>7. QED
    BY <1>1, <1>2, <1>5, <1>6

\* The end of a wait.
LEMMA PassKeeps ==
    ASSUME PolicyInv, NEW q \in Nat, NEW w \in Nat, NEW s \in Seq(0..Window), NEW ready,
           Policy!Pass(q, w, s, ready)
    PROVE  /\ quarter' \in Nat
           /\ ages' \in Seq(0..Window) /\ Len(ages') <= Len(s)
           /\ ready = Policy!Unset => readyAge' = Policy!Unset
           /\ w >= 180 => \A i \in 1..Len(ages') : ages'[i] >= 45
           /\ \A gone \in 0..Len(s) :
                 w >= 180 /\ (\A i \in 1..gone : s[i] >= 45) => Len(ages') <= Len(s) - gone
<1> DEFINE n == ((quarter + q) % 4) + w
           seconds == n \div 4
<1>1. n \in Nat /\ n >= w
    BY Quarters DEF PolicyInv
<1>2. /\ quarter' = n % 4
      /\ ages' = Policy!Aged(s, seconds)
      /\ readyAge' = Policy!AgedReady(ready, w)
    BY DEF Policy!Pass, Policy!Second
<1> HIDE DEF n
<1>3. seconds \in Nat /\ n % 4 \in Nat /\ (w >= 180 => seconds >= 45)
    BY <1>1, Quarters
<1> HIDE DEF seconds
<1>4. ready = Policy!Unset => readyAge' = Policy!Unset
    BY <1>2 DEF Policy!AgedReady
<1>5. s \in Seq(Nat) /\ Len(s) \in Nat /\ \A i \in 1..Len(s) : s[i] \in Nat
    BY AgesOf
<1>6. ages' \in Seq(0..Window) /\ Len(ages') <= Len(s) - 0
  <2>1. \A i \in 1..Len(s) : s[i] + seconds >= 0
    BY <1>3, <1>5
  <2>2. 0 \in 0..Len(s) /\ \A i \in 1..0 : s[i] + seconds > Window
    BY <1>5
  <2>3. QED
    BY <1>2, <1>3, <1>5, <2>1, <2>2, AgedBounds
<1>7. ASSUME w >= 180
      PROVE  /\ \A i \in 1..Len(ages') : ages'[i] >= 45
             /\ \A gone \in 0..Len(s) :
                   (\A i \in 1..gone : s[i] >= 45) => Len(ages') <= Len(s) - gone
  <2>1. ASSUME NEW gone \in 0..Len(s), \A i \in 1..gone : s[i] >= 45
        PROVE  ages' \in Seq(45..Window) /\ Len(ages') <= Len(s) - gone
    <3>1. \A i \in 1..Len(s) : s[i] + seconds >= 45
      BY <1>3, <1>5, <1>7
    <3>2. \A i \in 1..gone : s[i] + seconds > Window
      BY <1>3, <1>5, <1>7, <2>1 DEF Window, Policy!Window
    <3>3. QED
      BY <1>2, <1>3, <1>5, <3>1, <3>2, AgedBounds
  <2>2. ages' \in Seq(45..Window)
    <3>1. 0 \in 0..Len(s) /\ \A i \in 1..0 : s[i] >= 45
      BY <1>5
    <3>2. QED
      BY <2>1, <3>1
  <2>3. \A i \in 1..Len(ages') : ages'[i] >= 45
    BY <2>2, AgesOf
  <2>4. QED
    BY <2>1, <2>3
<1>8. QED
    BY <1>2, <1>3, <1>4, <1>5, <1>6, <1>7

\* A failure is counted, and the wait after it passes or is cut short by hand. s is
\* what recentRestarts has left at the failure.
LEMMA BackoffKeeps ==
    ASSUME PolicyInv, Jitters \subseteq 3..5,
           NEW q \in Nat, NEW base \in 0..7, NEW ready,
           NEW s \in Seq(0..Window), Len(s) <= Len(ages),
           NEW touches \in Nat,
           touches = 0 =>
               /\ touched = 0 /\ base = counted /\ ready = Policy!Unset
               /\ counted = 7 => \A i \in 1..Len(s) : s[i] >= 45,
           Policy!Backoff(q, base, s, ready, touches)
    PROVE  PolicyInv'
<1> DEFINE a == Append(s, 0)
<1>1. /\ a \in Seq(0..Window) /\ Len(a) = Len(s) + 1 /\ Len(s) \in Nat
      /\ \A i \in 1..Len(s) : a[i] = s[i]
    BY DEF Window, Policy!Window
<1>2. Len(ages) \in Nat /\ failures \in 0..11 /\ counted \in 0..7
    BY DEF PolicyInv
<1>3. /\ attemptState' = "Backoff"
      /\ counted' = Policy!CapAt(base + 1, 7)
      /\ failures' = Policy!CapAt(failures + 1, 11)
    BY DEF Policy!Backoff, Policy!MaxShift, Policy!MaxRecent
<1>4. counted' \in 0..7 /\ failures' \in 0..11 /\ (failures' <= 10 => failures' = failures + 1)
    BY <1>2, <1>3 DEF Policy!CapAt
<1> HIDE DEF a
<1>5. PICK w \in Nat :
          /\ Policy!Pass(q, w, a, ready)
          /\ touched' \in Nat
          /\ touched' = 0 => touches = 0 /\ (base >= 6 => w >= 180)
  <2>1. ASSUME NEW jitter \in Jitters,
               Policy!Pass(q, Policy!Delay(base + 1, jitter), Append(s, 0), ready),
               touched' = touches
        PROVE  \E w \in Nat :
                  /\ Policy!Pass(q, w, a, ready)
                  /\ touched' \in Nat
                  /\ touched' = 0 => touches = 0 /\ (base >= 6 => w >= 180)
    <3> DEFINE w == Policy!Delay(base + 1, jitter)
    <3>1. base + 1 \in 1..8 /\ jitter \in 3..5 /\ (base >= 6 => base + 1 >= 7)
      BY <2>1
    <3>2. w \in Nat /\ (base >= 6 => w >= 180)
      BY <3>1, DelayBounds
    <3>3. Policy!Pass(q, w, a, ready)
      BY <2>1 DEF a
    <3> HIDE DEF w
    <3>4. QED
      BY <2>1, <3>2, <3>3
  <2>2. ASSUME touched' = touches + 1, Policy!Pass(q, 0, Append(s, 0), ready)
        PROVE  \E w \in Nat :
                  /\ Policy!Pass(q, w, a, ready)
                  /\ touched' \in Nat
                  /\ touched' = 0 => touches = 0 /\ (base >= 6 => w >= 180)
    <3>1. Policy!Pass(q, 0, a, ready)
      BY <2>2 DEF a
    <3>2. touched' \in Nat /\ touched' # 0
      BY <2>2
    <3>3. QED
      BY <3>1, <3>2
  <2>3. QED
    BY <2>1, <2>2 DEF Policy!Backoff
<1>6. /\ quarter' \in Nat
      /\ ages' \in Seq(0..Window) /\ Len(ages') <= Len(a)
      /\ ready = Policy!Unset => readyAge' = Policy!Unset
      /\ w >= 180 => \A i \in 1..Len(ages') : ages'[i] >= 45
      /\ \A gone \in 0..Len(a) :
            w >= 180 /\ (\A i \in 1..gone : a[i] >= 45) => Len(ages') <= Len(a) - gone
    BY <1>1, <1>5, PassKeeps
<1>7. Len(ages') \in Nat
    BY <1>6
<1>8. failures' <= 10 => Len(ages') <= failures'
    BY <1>1, <1>2, <1>4, <1>6, <1>7 DEF PolicyInv
<1>9. ASSUME touched' = 0
      PROVE  /\ readyAge' = Policy!Unset
             /\ attemptState' # "Failing"
             /\ Len(ages') <= counted'
             /\ counted' = 7 => \A i \in 1..Len(ages') : ages'[i] >= 45
  <2>1. /\ touched = 0 /\ base = counted /\ ready = Policy!Unset
        /\ counted = 7 => \A i \in 1..Len(s) : s[i] >= 45
        /\ counted >= 6 => w >= 180
    BY <1>5, <1>9
  <2>2. Len(ages) <= counted
    BY <2>1 DEF PolicyInv
  <2>3. counted' = IF counted = 7 THEN 7 ELSE counted + 1
    BY <1>2, <1>3, <2>1 DEF Policy!CapAt
  <2>4. Len(ages') <= counted'
    <3>1. CASE counted # 7
      BY <1>1, <1>2, <1>6, <1>7, <2>2, <2>3, <3>1
    <3>2. CASE counted = 7
      <4>1. Len(s) \in 0..Len(a) /\ \A i \in 1..Len(s) : a[i] >= 45
        BY <1>1, <2>1, <3>2
      <4>2. Len(ages') <= Len(a) - Len(s)
        BY <1>6, <2>1, <3>2, <4>1
      <4>3. QED
        BY <1>1, <1>7, <2>3, <3>2, <4>2
    <3>3. QED
      BY <3>1, <3>2
  <2>5. counted' = 7 => w >= 180
    BY <1>2, <2>1, <2>3
  <2>6. QED
    BY <1>3, <1>6, <2>1, <2>4, <2>5
<1>10. QED
    BY <1>4, <1>5, <1>6, <1>8, <1>9 DEF PolicyInv

\* A failure at the end of an attempt: a pause, if it was one of more than ten.
LEMMA AfterFailureKeeps ==
    ASSUME PolicyInv, Jitters \subseteq 3..5,
           NEW q \in Nat, NEW ready, NEW touches \in Nat,
           touches = 0 => touched = 0 /\ ready = Policy!Unset,
           Policy!AfterFailure(q, ready, touches)
    PROVE  PolicyInv' /\ (attemptState' = "Failing" => failures > 10)
<1> DEFINE base == IF ready # Policy!Unset /\ ready > Policy!LongRun THEN 0 ELSE counted
           seconds == (quarter + q) \div 4
           s == Policy!Aged(ages, seconds)
<1>1. /\ Policy!TooMany(s) => Policy!FailingPause(q, s, ready, touches)
      /\ ~Policy!TooMany(s) => Policy!Backoff(q, base, s, ready, touches)
    BY DEF Policy!AfterFailure, Policy!Second
<1>2. seconds \in Nat
    BY Quarters DEF PolicyInv
<1>3. /\ Len(ages) \in Nat /\ ages \in Seq(Nat)
      /\ \A i \in 1..Len(ages) : ages[i] \in Nat
      /\ base \in 0..7 /\ (ready = Policy!Unset => base = counted)
  <2>1. ages \in Seq(0..Window) /\ counted \in 0..7
    BY DEF PolicyInv
  <2>2. base \in 0..7 /\ (ready = Policy!Unset => base = counted)
    BY <2>1
  <2> HIDE DEF base
  <2>3. QED
    BY <2>1, <2>2, AgesOf
<1> HIDE DEF base, seconds
<1>4. ASSUME NEW low \in Nat, \A i \in 1..Len(ages) : ages[i] >= low
      PROVE  s \in Seq(low..Window) /\ Len(s) <= Len(ages)
  <2>1. \A i \in 1..Len(ages) : ages[i] + seconds >= low
    BY <1>2, <1>3, <1>4
  <2>2. 0 \in 0..Len(ages) /\ \A i \in 1..0 : ages[i] + seconds > Window
    BY <1>3
  <2>3. s \in Seq(low..Window) /\ Len(s) <= Len(ages) - 0
    BY <1>2, <1>3, <2>1, <2>2, AgedBounds
  <2>4. QED
    BY <1>3, <2>3
<1> HIDE DEF s
<1>5. s \in Seq(0..Window) /\ Len(s) <= Len(ages) /\ Len(s) \in Nat
  <2>1. \A i \in 1..Len(ages) : ages[i] >= 0
    BY <1>3
  <2>2. s \in Seq(0..Window) /\ Len(s) <= Len(ages)
    BY <1>4, <2>1
  <2>3. QED
    BY <2>2
<1>6. CASE Policy!TooMany(s)
  <2>1. Len(s) > 10
    BY <1>6 DEF Policy!TooMany, Policy!MaxRecent
  <2>2. failures > 10
    BY <1>3, <1>5, <2>1 DEF PolicyInv
  <2>3. touches # 0
    <3>1. touched = 0 => Len(ages) <= 7
      BY <1>3 DEF PolicyInv
    <3>2. QED
      BY <1>3, <1>5, <2>1, <3>1
  <2>4. /\ Policy!Pass(q, 1200, <<>>, ready)
        /\ counted' = 0 /\ failures' = 0 /\ touched' = touches
    BY <1>1, <1>6 DEF Policy!FailingPause, Policy!Pause, Policy!Second
  <2> DEFINE w == 1200
             none == <<>>
  <2>5. none \in Seq(0..Window) /\ Len(none) = 0 /\ w \in Nat /\ Policy!Pass(q, w, none, ready)
    BY <2>4
  <2> HIDE DEF w, none
  <2>6. quarter' \in Nat /\ ages' \in Seq(0..Window) /\ Len(ages') <= Len(none)
    BY <2>5, PassKeeps
  <2>7. PolicyInv'
    BY <2>3, <2>4, <2>5, <2>6 DEF PolicyInv
  <2>8. QED
    BY <2>2, <2>7
<1>7. CASE ~Policy!TooMany(s)
  <2>1. Policy!Backoff(q, base, s, ready, touches)
    BY <1>1, <1>7
  <2>2. touches = 0 =>
            /\ touched = 0 /\ base = counted /\ ready = Policy!Unset
            /\ counted = 7 => \A i \in 1..Len(s) : s[i] >= 45
    <3>1. ASSUME touched = 0, counted = 7
          PROVE  \A i \in 1..Len(s) : s[i] >= 45
      <4>1. \A i \in 1..Len(ages) : ages[i] >= 45
        BY <3>1 DEF PolicyInv
      <4>2. s \in Seq(45..Window)
        BY <1>4, <4>1
      <4>3. QED
        BY <4>2, AgesOf
    <3>2. QED
      BY <1>3, <3>1
  <2>3. PolicyInv'
    BY <1>3, <1>5, <2>1, <2>2, BackoffKeeps
  <2>4. attemptState' # "Failing"
    BY <2>1 DEF Policy!Backoff
  <2>5. QED
    BY <2>3, <2>4
<1>8. QED
    BY <1>6, <1>7

\* Every step keeps the invariant, and only a pause that was earned is made.
LEMMA PolicySteps ==
    ASSUME Lasting \subseteq Nat, Jitters \subseteq 3..5, PolicyInv, Policy!Next
    PROVE  PolicyInv' /\ (attemptState' = "Failing" => failures > 10)
<1>1. CASE Policy!StartFails
  <2>1. Policy!Backoff(0, counted, ages, readyAge, touched)
    BY <1>1 DEF Policy!StartFails
  <2>2. PolicyInv'
    BY <2>1, BackoffKeeps DEF PolicyInv
  <2>3. QED
    BY <2>1, <2>2 DEF Policy!Backoff
<1>2. CASE Policy!NeverReady
  <2>1. PICK q \in Lasting : Policy!AfterFailure(q, Policy!AgedReady(readyAge, q), touched)
    BY <1>2 DEF Policy!NeverReady
  <2>2. q \in Nat /\ touched \in Nat
    BY <2>1 DEF PolicyInv
  <2>3. touched = 0 => Policy!AgedReady(readyAge, q) = Policy!Unset
    BY DEF PolicyInv, Policy!AgedReady
  <2>4. QED
    BY <2>1, <2>2, <2>3, AfterFailureKeeps
<1>3. CASE Policy!WasReady
  <2>1. PICK q \in Lasting :
            Policy!AfterFailure(q, Policy!CapAt(q, Policy!LongRun + 1), touched + 1)
    BY <1>3 DEF Policy!WasReady
  <2>2. q \in Nat /\ touched + 1 \in Nat /\ touched + 1 # 0
    BY <2>1 DEF PolicyInv
  <2>3. QED
    BY <2>1, <2>2, AfterFailureKeeps
<1>4. CASE Policy!ManualRestart
  <2>1. PICK q \in Lasting : \E ready : Policy!Pass(q, 0, <<>>, ready)
    BY <1>4 DEF Policy!ManualRestart
  <2> PICK ready : Policy!Pass(q, 0, <<>>, ready)
    BY <2>1
  <2>2. /\ attemptState' = "Starting" /\ touched' = touched + 1
        /\ counted' = 0 /\ failures' = 0
    BY <1>4 DEF Policy!ManualRestart
  <2>3. <<>> \in Seq(0..Window) /\ Len(<<>>) = 0 /\ q \in Nat /\ 0 \in Nat
    BY EmptySeq
  <2>4. quarter' \in Nat /\ ages' \in Seq(0..Window) /\ Len(ages') <= Len(<<>>)
    BY <2>1, <2>3, PassKeeps
  <2>5. touched' \in Nat /\ touched' # 0
    BY <2>2 DEF PolicyInv
  <2>6. QED
    BY <2>2, <2>3, <2>4, <2>5 DEF PolicyInv
<1>5. QED
    BY <1>1, <1>2, <1>3, <1>4 DEF Policy!Next

LEMMA PolicyInvariance ==
    ASSUME Lasting \subseteq Nat, Jitters \subseteq 3..5
    PROVE  Policy!Spec => []PolicyInv
<1>1. Policy!Init => PolicyInv
  <2> SUFFICES ASSUME Policy!Init PROVE PolicyInv
    OBVIOUS
  <2>1. <<>> \in Seq(0..Window) /\ Len(<<>>) = 0
    BY EmptySeq
  <2>2. QED
    BY <2>1 DEF Policy!Init, PolicyInv
<1>2. PolicyInv /\ [Policy!Next]_(Policy!vars) => PolicyInv'
  <2>1. CASE Policy!Next
    BY <2>1, PolicySteps
  <2>2. CASE UNCHANGED Policy!vars
    BY <2>2 DEF PolicyInv, Policy!vars
  <2>3. QED
    BY <2>1, <2>2
<1>3. QED
    BY <1>1, <1>2, PTL DEF Policy!Spec

\* tunnel.go:347: however long its attempts last and whatever the jitter, a kubectl
\* that never becomes ready and that nobody restarts never gets to Failing.
THEOREM PolicySparesUntouched ==
    ASSUME Lasting \subseteq Nat, Jitters \subseteq 3..5
    PROVE  Policy!Spec => []Policy!UntouchedLoopNeverFails
<1>1. PolicyInv => Policy!UntouchedLoopNeverFails
  <2> SUFFICES ASSUME PolicyInv, touched = 0
               PROVE  attemptState # "Failing" /\ Len(ages) <= 7
    BY DEF Policy!UntouchedLoopNeverFails
  <2>1. Len(ages) \in Nat /\ Len(ages) <= counted /\ counted \in 0..7
    BY DEF PolicyInv
  <2>2. QED
    BY <2>1 DEF PolicyInv
<1>2. QED
    BY <1>1, PolicyInvariance, PTL

\* tunnel.go:273: more than ten failures have been counted since the last pause or
\* restart by hand when the tunnel is paused again.
THEOREM PolicyPausesAreEarned ==
    ASSUME Lasting \subseteq Nat, Jitters \subseteq 3..5
    PROVE  Policy!Spec => Policy!FailingIsEarned
<1>1. PolicyInv /\ [Policy!Next]_(Policy!vars) =>
          [attemptState' = "Failing" => failures > Policy!MaxRecent]_(Policy!vars)
    BY PolicySteps DEF Policy!MaxRecent
<1>2. QED
    BY <1>1, PolicyInvariance, PTL DEF Policy!Spec, Policy!FailingIsEarned
=============================================================================
