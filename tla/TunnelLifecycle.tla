-------------------------- MODULE TunnelLifecycle --------------------------
(***************************************************************************)
(* What one tunnel promises to the rest of the daemon, whatever goroutines *)
(* and channels implement it: the state it reports, whether it owns a      *)
(* kubectl process whose exit it has not collected yet, whether it has     *)
(* been told to stop, and whether its runner still runs.                   *)
(*                                                                         *)
(* TunnelRunner.tla implements this specification.                         *)
(***************************************************************************)

VARIABLES
    state,      \* tunnelRunner.state, what Status() and IsReady() report
    owned,      \* a started kubectl has not been collected by the runner
    cancelled,  \* the runner's context is done or its stopCh is closed
    runner      \* "live", "returned" (Run came back), "panicked" (recovered)

lifecycleVars == <<state, owned, cancelled, runner>>

States == {"Stopped", "Starting", "Running", "Backoff", "Failing"}

LifecycleTypeOK ==
    /\ state \in States
    /\ owned \in BOOLEAN
    /\ cancelled \in BOOLEAN
    /\ runner \in {"live", "returned", "panicked"}

Init ==
    /\ state = "Stopped"
    /\ ~owned
    /\ ~cancelled
    /\ runner = "live"

-----------------------------------------------------------------------------

\* A launch is only ever begun by a runner that owns nothing.
Attempt ==
    /\ runner = "live"
    /\ ~cancelled
    /\ ~owned
    /\ state' = "Starting"
    /\ UNCHANGED <<owned, cancelled, runner>>

ChildStarts ==
    /\ runner = "live"
    /\ state = "Starting"
    /\ ~owned
    /\ owned' = TRUE
    /\ UNCHANGED <<state, cancelled, runner>>

AbortLaunch ==
    /\ runner = "live"
    /\ state = "Starting"
    /\ ~owned
    /\ state' = "Backoff"
    /\ UNCHANGED <<owned, cancelled, runner>>

Ready ==
    /\ runner = "live"
    /\ state = "Starting"
    /\ owned
    /\ state' = "Running"
    /\ UNCHANGED <<owned, cancelled, runner>>

\* The runner collects its child. A stop request reports Stopped, a failure
\* Backoff or Failing, and a manual restart keeps the state it interrupted.
Collect ==
    /\ runner = "live"
    /\ owned
    /\ owned' = FALSE
    /\ \/ cancelled /\ state' = "Stopped"
       \/ state' \in {state, "Backoff", "Failing"}
    /\ UNCHANGED <<cancelled, runner>>

Cancel ==
    /\ cancelled' = TRUE
    /\ UNCHANGED <<state, owned, runner>>

Return ==
    /\ runner = "live"
    /\ cancelled
    /\ ~owned
    /\ runner' = "returned"
    /\ UNCHANGED <<state, owned, cancelled>>

\* A panic inside a launch, recovered: the child is abandoned, and collected
\* later by nobody but the operating system.
Crash ==
    /\ runner = "live"
    /\ state = "Starting"
    /\ ~owned
    /\ runner' = "panicked"
    /\ state' = "Failing"
    /\ owned' = TRUE
    /\ UNCHANGED cancelled

AbandonedChildEnds ==
    /\ runner = "panicked"
    /\ owned
    /\ owned' = FALSE
    /\ UNCHANGED <<state, cancelled, runner>>

Next ==
    \/ Attempt
    \/ ChildStarts
    \/ AbortLaunch
    \/ Ready
    \/ Collect
    \/ Cancel
    \/ Return
    \/ Crash
    \/ AbandonedChildEnds

Spec == Init /\ [][Next]_lifecycleVars

-----------------------------------------------------------------------------

\* What the rest of the daemon relies on: a runner that came back owns no
\* kubectl (Supervisor.Stop waits for exactly that), a live runner that
\* reports Stopped, Backoff or Failing owns none, and Running is never
\* reported by a runner that panicked.
Custody ==
    /\ runner = "returned" => ~owned
    /\ runner = "live" /\ state \in {"Stopped", "Backoff", "Failing"} => ~owned
    /\ runner = "panicked" => state = "Failing"
=============================================================================
