---------------------------- MODULE RestartPolicy ----------------------------
(***************************************************************************)
(* The restart policy of tunnel.go in real time and with the code's own    *)
(* numbers: backoff, the reset after five minutes of running,              *)
(* tooManyRestarts and the Failing pause. TunnelRunner leaves these delays *)
(* open; here one step is one attempt that ended and the wait after it.    *)
(*                                                                         *)
(* Time is counted in quarters of a second. Instead of a clock that grows, *)
(* the model keeps the quarter within the second (recentRestarts holds     *)
(* whole Unix seconds) and the ages of the times the code remembers, each  *)
(* cut off where the code no longer tells it apart.                        *)
(***************************************************************************)
EXTENDS Naturals, Sequences

CONSTANTS
    Lasting,    \* bound: how long an attempt may last, in quarters
    Jitters,    \* bound: the jitter factors tried, in quarters (3, 4 or 5)
    MaxTouched  \* bound: attempts that become ready, and restarts by hand

ASSUME LastingAssumption == Lasting \subseteq Nat
ASSUME JittersAssumption == Jitters \subseteq 3..5

Second == 4
LongRun == 300 * Second
Pause == 300 * Second
Unset == LongRun + 2
Window == 60            \* seconds
MaxRecent == 10
MaxShift == 6

VARIABLES
    quarter,    \* the quarter of the current second
    restarts,   \* tunnelRunner.restarts, capped just above MaxShift
    recent,     \* the ages, in whole seconds, of recentRestarts
    readyAge,   \* the age of startedAt in quarters, or Unset
    state,      \* how the last attempt left the tunnel
    touched,    \* history: attempts that became ready, and interventions by hand
    failures    \* history: failures counted since the last Failing pause

vars == <<quarter, restarts, recent, readyAge, state, touched, failures>>

TypeOK ==
    /\ quarter \in 0..(Second - 1)
    /\ restarts \in 0..(MaxShift + 1)
    /\ recent \in Seq(0..Window)
    /\ readyAge \in 0..Unset
    /\ state \in {"Starting", "Backoff", "Failing"}
    /\ touched \in 0..MaxTouched
    /\ failures \in 0..(MaxRecent + 1)

Init ==
    /\ quarter = 0
    /\ restarts = 0
    /\ recent = <<>>
    /\ readyAge = Unset
    /\ state = "Starting"
    /\ touched = 0
    /\ failures = 0

-----------------------------------------------------------------------------

CapAt(n, bound) == IF n > bound THEN bound ELSE n

Kept(ages, age) == IF age <= Window THEN Append(ages, age) ELSE ages

\* Ages some seconds later, without those past the window: what the loop of
\* tooManyRestarts keeps, which is all that is used of them.
Aged(ages, seconds) ==
    LET kept[i \in 0..Len(ages)] ==
            IF i = 0 THEN <<>> ELSE Kept(kept[i - 1], ages[i] + seconds)
    IN  kept[Len(ages)]

AgedReady(age, q) == IF age = Unset THEN age ELSE CapAt(age + q, LongRun + 1)

\* Wrong: the shift is not capped by its minute, nor does it start at one.
DelayLinear(attempt, jitter) == attempt * jitter

Shifted == <<1, 2, 4, 8, 16, 32, 64>>

\* The wait after the attempt-th failure, in quarters: one second, doubled for
\* every failure, at most a minute, give or take a quarter of it.
Delay(attempt, jitter) == CapAt(Shifted[CapAt(attempt, MaxShift + 1)], 60) * jitter

\* The wait w passes, after an attempt of q quarters.
Pass(q, w, ages, ready) ==
    LET atFailure == (quarter + q) % Second IN
    /\ quarter' = (atFailure + w) % Second
    /\ recent' = Aged(ages, (atFailure + w) \div Second)
    /\ readyAge' = AgedReady(ready, w)

\* A restart token ends the wait at once, without touching the counters. touches
\* is touched with what the attempt has added to it.
Backoff(q, base, ages, ready, touches) ==
    /\ state' = "Backoff"
    /\ restarts' = CapAt(base + 1, MaxShift + 1)
    /\ failures' = CapAt(failures + 1, MaxRecent + 1)
    /\ \/ \E jitter \in Jitters :
              /\ Pass(q, Delay(base + 1, jitter), Append(ages, 0), ready)
              /\ touched' = touches
       \/ /\ touches < MaxTouched /\ touched' = touches + 1
          /\ Pass(q, 0, Append(ages, 0), ready)

TooMany(ages) == Len(ages) > MaxRecent

\* Wrong: the pause leaves recentRestarts alone.
FailingKeepsRecent(q, ages, ready, touches) ==
    /\ state' = "Failing"
    /\ restarts' = 0
    /\ Pass(q, 0, ages, ready)
    /\ failures' = 0
    /\ touched' = touches

\* Failing, the five minute pause, and the counters cleared after it.
FailingPause(q, ages, ready, touches) ==
    /\ state' = "Failing"
    /\ restarts' = 0
    /\ Pass(q, Pause, <<>>, ready)
    /\ failures' = 0
    /\ touched' = touches

\* What follows a failure at the end of an attempt of q quarters; ready is the
\* age of startedAt then, which may be that of an earlier attempt.
AfterFailure(q, ready, touches) ==
    LET base == IF ready # Unset /\ ready > LongRun THEN 0 ELSE restarts
        ages == Aged(recent, (quarter + q) \div Second)
    IN  IF TooMany(ages) THEN FailingPause(q, ages, ready, touches)
                         ELSE Backoff(q, base, ages, ready, touches)

\* Start fails at once: backoff without the reset and without tooManyRestarts.
StartFails == Backoff(0, restarts, recent, readyAge, touched)

\* kubectl exits, or is killed after 30 seconds, without having become ready.
NeverReady ==
    \E q \in Lasting :
        /\ q <= 30 * Second
        /\ AfterFailure(q, AgedReady(readyAge, q), touched)

\* kubectl fails, or is killed, when it has been ready for q quarters.
WasReady ==
    \E q \in Lasting :
        /\ touched < MaxTouched
        /\ AfterFailure(q, CapAt(q, LongRun + 1), touched + 1)

\* A manual restart of an attempt q quarters old, ready at once or not yet,
\* clears both counters.
ManualRestart ==
    \E q \in Lasting : \E ready \in {CapAt(q, LongRun + 1), AgedReady(readyAge, q)} :
        /\ touched < MaxTouched /\ touched' = touched + 1
        /\ state' = "Starting"
        /\ restarts' = 0
        /\ Pass(q, 0, <<>>, ready)
        /\ failures' = 0

Next == StartFails \/ NeverReady \/ WasReady \/ ManualRestart

Spec == Init /\ [][Next]_vars

-----------------------------------------------------------------------------
(***************************************************************************)
(* Properties.                                                             *)
(***************************************************************************)

\* README.md:103 has a kubectl that keeps crashing enter Failing. One that never
\* becomes ready does not, if nobody restarts it by hand: by its own backoff at
\* most seven of its failures fall into a minute, and Failing needs over ten.
UntouchedLoopNeverFails ==
    touched = 0 => state # "Failing" /\ Len(recent) <= 7

\* Every Failing pause is earned by more than ten failures of its own: those
\* before the last pause or manual restart never count again.
FailingIsEarned ==
    [][state' = "Failing" => failures > MaxRecent]_vars
=============================================================================
