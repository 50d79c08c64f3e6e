----------------------------- MODULE Supervisor -----------------------------
(***************************************************************************)
(* internal/supervisor/supervisor.go: the map of registered runners, what  *)
(* Start, Reload, Restart and Stop do to it, and the runners themselves,   *)
(* retired ones included, which go on until they notice that they were     *)
(* cancelled. A runner is known by its generation, the order it was made.  *)
(*                                                                         *)
(* Each generation behaves as TunnelLifecycle says, which TunnelRunner is  *)
(* proved to implement; here the generations share the local ports, so a   *)
(* kubectl only gets to serve on a port nobody else serves on.             *)
(* Every method holds s.mu throughout and is one step, but for the wait of *)
(* Stop, which comes after the unlock.                                     *)
(***************************************************************************)
EXTENDS Naturals, Sequences, FiniteSets, SequencesExt

CONSTANTS
    Names,      \* tunnel names
    Forwards,   \* hostname, kube context, namespace, target and remote port
    Ports,      \* local ports
    Configs,    \* the validated configurations that may be loaded
    MaxGen      \* bound: runners made in one behaviour

HealthChecks == {"off", "on", "badInterval"}

Tunnels == [fwd : Forwards, port : Ports, health : HealthChecks]

\* What config.Validate lets through: at least one tunnel, distinct names (a
\* configuration is a function of names) and distinct local ports.
IsConfig(c) ==
    /\ DOMAIN c # {} /\ DOMAIN c \subseteq Names
    /\ \A n \in DOMAIN c : c[n] \in Tunnels
    /\ \A m, n \in DOMAIN c : c[m].port = c[n].port => m = n

\* A file holds finitely many tunnels.
ASSUME ConfigsAssumption == \A c \in Configs : IsConfig(c) /\ IsFiniteSet(DOMAIN c)
ASSUME MaxGenAssumption == MaxGen \in Nat

Gens == 1..MaxGen

VARIABLES
    started,    \* s.ctx is set
    ctxDone,    \* the context given to Start is cancelled
    applied,    \* the configuration last given to Start or Reload
    runners,    \* s.runners: the generation registered for a name, 0 if none
    made,       \* for every generation made, its name and its t.cfg
    stopped,    \* the generations stopTunnelLocked has stopped and cancelled
    stopper,    \* Stop: "no", "waiting" for the wait group, "returned"
    state,      \* per generation, as in TunnelLifecycle
    proc,       \* its kubectl: "none", "up", "serving", "dead" (not collected)
    fate,       \* its Run: "live", "returned", "panicked"
    token       \* its restartCh is full

registry == <<started, applied, runners, made, stopped>>
vars == <<registry, ctxDone, stopper, state, proc, fate, token>>

Made == DOMAIN made
Registered == {n \in Names : runners[n] # 0}

\* Wrong: every runner is given the root context.
CancelledByRoot(g) == ctxDone

Cancelled(g) == ctxDone \/ g \in stopped

TypeOK ==
    /\ started \in BOOLEAN
    /\ ctxDone \in BOOLEAN
    /\ applied \in Configs \cup {<<>>}
    /\ runners \in [Names -> 0..MaxGen]
    /\ made \in Seq([name : Names, cfg : Tunnels]) /\ Len(made) <= MaxGen
    /\ stopped \subseteq Gens
    /\ stopper \in {"no", "waiting", "returned"}
    /\ state \in [Gens -> {"Stopped", "Starting", "Running", "Backoff", "Failing"}]
    /\ proc \in [Gens -> {"none", "up", "serving", "dead"}]
    /\ fate \in [Gens -> {"live", "returned", "panicked"}]
    /\ token \in [Gens -> BOOLEAN]

Init ==
    /\ started = FALSE
    /\ ctxDone = FALSE
    /\ applied = <<>>
    /\ runners = [n \in Names |-> 0]
    /\ made = <<>>
    /\ stopped = {}
    /\ stopper = "no"
    /\ state = [g \in Gens |-> "Stopped"]
    /\ proc = [g \in Gens |-> "none"]
    /\ fate = [g \in Gens |-> "live"]
    /\ token = [g \in Gens |-> FALSE]

-----------------------------------------------------------------------------
(***************************************************************************)
(* The methods of Supervisor.                                              *)
(***************************************************************************)

lifecycles == <<state, proc, fate, token>>

\* It compares what the forward is made of, not the health check.
tunnelEqual(a, b) == a.fwd = b.fwd /\ a.port = b.port

\* The runners to be made for the names ns, as the tail of made. (The loops
\* run over maps, so in any order; only the identity of a generation counts.)
NewRunners(c, ns) == [i \in 1..Cardinality(ns) |->
    LET n == SetToSeq(ns)[i] IN [name |-> n, cfg |-> c[n]]]

\* Wrong: the runners are only dropped from the map.
ForgetTunnels(out) == UNCHANGED stopped

\* Their stopCh is closed and their context cancelled.
StopTunnels(out) == stopped' = stopped \cup {runners[n] : n \in out}

\* stopTunnelLocked for every name in out, then startTunnelLocked for every
\* name in new.
Replace(c, out, new) ==
    LET added == NewRunners(c, new) IN
    /\ Len(made) + Len(added) <= MaxGen
    /\ made' = made \o added
    /\ StopTunnels(out)
    /\ runners' = [n \in Names |->
          CASE n \in new -> Len(made) + (CHOOSE i \in DOMAIN added : added[i].name = n)
            [] n \in out \ new -> 0
            [] OTHER -> runners[n]]

Start(c) ==
    /\ ~started
    /\ started' = TRUE
    /\ applied' = c
    /\ Replace(c, {}, DOMAIN c)
    /\ UNCHANGED <<ctxDone, stopper, lifecycles>>

\* Wrong: a changed tunnel counts as unchanged.
OnlyRemoved(c) == Registered \ DOMAIN c

\* The registered tunnels that are gone from c or changed in it.
Outdated(c) ==
    {n \in Registered : n \in DOMAIN c => ~tunnelEqual(made[runners[n]].cfg, c[n])}

\* Before Start it panics on the nil context, having changed nothing.
Reload(c) ==
    /\ started
    /\ applied' = c
    /\ Replace(c, Outdated(c), {n \in DOMAIN c : n \notin Registered \ Outdated(c)})
    /\ UNCHANGED <<started, ctxDone, stopper, lifecycles>>

Restart(n) ==
    /\ n \in Registered
    /\ token' = [token EXCEPT ![runners[n]] = TRUE]
    /\ UNCHANGED <<registry, ctxDone, stopper, state, proc, fate>>

\* A signal or the control API's shutdown cancels the context of main.
CancelRoot ==
    /\ ctxDone' = TRUE
    /\ UNCHANGED <<registry, stopper, lifecycles>>

\* Stop up to its unlock. main calls it once, after its context is done.
Stop ==
    /\ started /\ ctxDone
    /\ stopper = "no"
    /\ stopper' = "waiting"
    /\ StopTunnels(Registered)
    /\ runners' = [n \in Names |-> 0]
    /\ UNCHANGED <<started, applied, made, ctxDone, lifecycles>>

\* Wrong: Stop waits until no tunnel is reported as Running.
RunnersIdle == \A g \in Made : state[g] # "Running"

\* The wait group counts every runner made, registered or retired.
RunnersDone == \A g \in Made : fate[g] # "live"

StopReturns ==
    /\ stopper = "waiting"
    /\ RunnersDone
    /\ stopper' = "returned"
    /\ UNCHANGED <<registry, ctxDone, lifecycles>>

-----------------------------------------------------------------------------
(***************************************************************************)
(* A runner and its kubectl, at the grain of TunnelLifecycle.              *)
(***************************************************************************)

supervision == <<registry, ctxDone, stopper>>

Live(g) == g \in Made /\ fate[g] = "live"

SetState(g, s) == state' = [state EXCEPT ![g] = s]
SetProc(g, p) == proc' = [proc EXCEPT ![g] = p]

Attempt(g) ==
    /\ Live(g) /\ ~Cancelled(g)
    /\ proc[g] = "none"
    /\ SetState(g, "Starting")
    /\ UNCHANGED <<supervision, proc, fate, token>>

Launch(g) ==
    /\ Live(g) /\ ~ctxDone
    /\ state[g] = "Starting" /\ proc[g] = "none"
    /\ SetProc(g, "up")
    /\ IF made[g].cfg.health = "badInterval"
          THEN SetState(g, "Failing") /\ fate' = [fate EXCEPT ![g] = "panicked"]
          ELSE UNCHANGED <<state, fate>>
    /\ UNCHANGED <<supervision, token>>

AbortLaunch(g) ==
    /\ Live(g)
    /\ state[g] = "Starting" /\ proc[g] = "none"
    /\ SetState(g, "Backoff")
    /\ UNCHANGED <<supervision, proc, fate, token>>

Ready(g) ==
    /\ Live(g)
    /\ state[g] = "Starting" /\ proc[g] \in {"serving", "dead"}
    /\ SetState(g, "Running")
    /\ UNCHANGED <<supervision, proc, fate, token>>

\* The runner collects its kubectl and goes on to stop, to retry at once for
\* the restart token it took, or to a backoff or pause.
Collect(g) ==
    /\ Live(g) /\ proc[g] = "dead"
    /\ SetProc(g, "none")
    /\ \/ Cancelled(g) /\ SetState(g, "Stopped") /\ UNCHANGED token
       \/ token[g] /\ token' = [token EXCEPT ![g] = FALSE] /\ UNCHANGED state
       \/ \E s \in {"Backoff", "Failing"} : SetState(g, s) /\ UNCHANGED token
    /\ UNCHANGED <<supervision, fate>>

\* A token that arrives in a backoff ends it.
TakeToken(g) ==
    /\ Live(g) /\ state[g] = "Backoff"
    /\ token[g]
    /\ token' = [token EXCEPT ![g] = FALSE]
    /\ UNCHANGED <<supervision, state, proc, fate>>

\* Wrong: only a runner that was stopped while it waited returns.
ReturnIfStopped(g) ==
    /\ Live(g) /\ state[g] = "Stopped" /\ Cancelled(g)
    /\ proc[g] = "none"
    /\ fate' = [fate EXCEPT ![g] = "returned"]
    /\ UNCHANGED <<supervision, state, proc, token>>

Return(g) ==
    /\ Live(g) /\ Cancelled(g)
    /\ proc[g] = "none"
    /\ fate' = [fate EXCEPT ![g] = "returned"]
    /\ UNCHANGED <<supervision, state, proc, token>>

PortFree(p) == \A g \in Made : proc[g] = "serving" => made[g].cfg.port # p

KubectlServes(g) ==
    /\ g \in Made /\ proc[g] = "up"
    /\ PortFree(made[g].cfg.port)
    /\ SetProc(g, "serving")
    /\ UNCHANGED <<supervision, state, fate, token>>

\* It ends by itself, because the port is taken, or because it was killed.
KubectlDies(g) ==
    /\ proc[g] \in {"up", "serving"}
    /\ SetProc(g, "dead")
    /\ UNCHANGED <<supervision, state, fate, token>>

\* The goroutine in cmd.Wait outlives the runner that panicked.
AbandonedEnds(g) ==
    /\ fate[g] = "panicked" /\ proc[g] = "dead"
    /\ SetProc(g, "none")
    /\ UNCHANGED <<supervision, state, fate, token>>

RunnerStep(g) ==
    \/ Attempt(g)
    \/ Launch(g)
    \/ AbortLaunch(g)
    \/ Ready(g)
    \/ Collect(g)
    \/ TakeToken(g)
    \/ Return(g)

ProcessStep(g) ==
    \/ KubectlServes(g)
    \/ KubectlDies(g)
    \/ AbandonedEnds(g)

Next ==
    \/ \E c \in Configs : Start(c) \/ Reload(c)
    \/ \E n \in Names : Restart(n)
    \/ CancelRoot
    \/ Stop
    \/ StopReturns
    \/ \E g \in Gens : RunnerStep(g) \/ ProcessStep(g)

Spec == Init /\ [][Next]_vars

\* exec kills a kubectl whose context is done, or whose runner panicked (its
\* deferred cancel ran).
Killed(g) == (Cancelled(g) \/ fate[g] = "panicked") /\ KubectlDies(g)

\* Weak fairness of every goroutine and of the kill; a cancelled runner that
\* passes the head of its loop again and again returns there.
Fairness ==
    /\ WF_vars(StopReturns)
    /\ \A g \in Gens :
          /\ WF_vars(RunnerStep(g))
          /\ SF_vars(Return(g))
          /\ WF_vars(Killed(g))
          /\ WF_vars(AbandonedEnds(g))

FairSpec == Spec /\ Fairness

-----------------------------------------------------------------------------
(***************************************************************************)
(* Properties.                                                             *)
(***************************************************************************)

\* Between Start and Stop the registered runners are those of the last
\* configuration applied, each forwarding what the configuration says, whatever
\* sequence of reloads led there (removed, changed, back again, ports swapped).
RegistryMatchesConfig ==
    started /\ stopper = "no" =>
        /\ Registered = DOMAIN applied
        /\ \A n \in Registered : LET r == made[runners[n]] IN
              r.name = n /\ tunnelEqual(r.cfg, applied[n])

\* A runner that is not the registered one of its name was stopped: none is
\* lost from the map while it still reconnects by itself.
RetiredAreStopped ==
    \A g \in Made : g \notin stopped => runners[made[g].name] = g

\* supervisor.go:100: Stop waits for the runners to exit. So when it returned
\* no kubectl is left to hold a port, not even one of a runner that an earlier
\* reload retired or that a reload during the wait made; only a runner that
\* panicked may have left one that is being killed.
StopLeavesNothing ==
    stopper = "returned" => \A g \in Gens : proc[g] = "none" \/ fate[g] = "panicked"

\* Stop does return: no runner, however many reloads ago it was retired, keeps
\* the wait group waiting.
StopTerminates == stopper = "waiting" ~> stopper = "returned"

\* The kubectl of a retired runner goes away, so that the port it holds can be
\* taken by whoever the new configuration gives it to.
RetiredReleasesPort ==
    \A g \in Gens : g \in stopped ~> proc[g] = "none" /\ fate[g] # "live"

\* A generation as a tunnel of TunnelLifecycle; SupervisorProofs proves that it is one.
Lifecycle(g) == INSTANCE TunnelLifecycle
    WITH state <- state[g], owned <- proc[g] # "none",
         cancelled <- Cancelled(g), runner <- fate[g]
=============================================================================
