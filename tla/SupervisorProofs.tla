-------------------------- MODULE SupervisorProofs --------------------------
(***************************************************************************)
(* Proofs about Supervisor for every set of names, configurations and      *)
(* ports, and any number of runners.                                       *)
(*                                                                         *)
(* The heart of IInv is Bookkeeping: the map of the registered runners and *)
(* the list of those made are each other's inverse, but for the stopped    *)
(* ones. Quiescence is what Stop's answer rests on: a runner made after    *)
(* it, by a reload, never has a kubectl, because the context is done.      *)
(***************************************************************************)
EXTENDS Supervisor, FiniteSetTheorems, SequenceTheorems, TLAPS

Runner == [name : Names, cfg : Tunnels]

\* The registered runners are those made and not stopped, under their names.
Bookkeeping ==
    /\ ~started => made = <<>> /\ Registered = {} /\ stopper = "no"
    /\ stopped \subseteq Made
    /\ \A n \in Registered :
          /\ runners[n] \in Made \ stopped
          /\ made[runners[n]].name = n
    /\ \A g \in Made \ stopped : runners[made[g].name] = g

\* A generation that was not made yet has done nothing.
Unborn ==
    \A g \in Gens \ Made : state[g] = "Stopped" /\ proc[g] = "none" /\ fate[g] = "live"

\* A runner that came back had collected its kubectl.
Custody == \A g \in Gens : fate[g] = "returned" => proc[g] = "none"

\* Stop is called once the context is done; when it returned, the runners that
\* had not ended are those made since, and no kubectl is theirs.
Quiescence ==
    /\ stopper # "no" => ctxDone
    /\ stopper = "returned" => \A g \in Gens : proc[g] = "none" \/ fate[g] # "live"

IInv ==
    /\ TypeOK
    /\ RegistryMatchesConfig
    /\ Bookkeeping
    /\ Unborn
    /\ Custody
    /\ Quiescence

-----------------------------------------------------------------------------
(***************************************************************************)
(* What making and stopping runners does to the bookkeeping.               *)
(***************************************************************************)

\* A finite set is listed without repetition and without a gap.
LEMMA SeqOfFinite ==
    ASSUME NEW S, IsFiniteSet(S)
    PROVE  /\ Cardinality(S) \in Nat
           /\ SetToSeq(S) \in [1..Cardinality(S) -> S]
           /\ \A i, j \in 1..Cardinality(S) : SetToSeq(S)[i] = SetToSeq(S)[j] => i = j
           /\ \A n \in S : \E i \in 1..Cardinality(S) : SetToSeq(S)[i] = n
<1> DEFINE k == Cardinality(S)
<1>1. k \in Nat /\ ExistsBijection(1..k, S)
    BY FS_CardinalityType
<1>2. PICK f \in Bijection(1..k, S) : TRUE
    BY <1>1 DEF ExistsBijection
<1>3. f \in [1..k -> S] /\ IsInjective(f)
    BY <1>2 DEF Bijection, Injection
<1>4. SetToSeq(S) \in [1..k -> S] /\ IsInjective(SetToSeq(S))
    BY <1>3 DEF SetToSeq
<1>5. SetToSeq(S) \in Surjection(1..k, S)
  <2>1. SetToSeq(S) \in Injection(1..k, S)
    BY <1>4 DEF Injection
  <2>2. Cardinality(1..k) = k
    BY <1>1, FS_Interval
  <2>3. QED
    BY <2>1, <2>2, FS_Injection
<1>6. QED
    BY <1>1, <1>4, <1>5 DEF Surjection, IsInjective

\* One runner is made for each of the names, with what the configuration says.
LEMMA NewRunnersProperties ==
    ASSUME NEW c \in Configs, NEW ns \in SUBSET DOMAIN c
    PROVE  LET new == NewRunners(c, ns) IN
           /\ new \in Seq(Runner)
           /\ \A i \in 1..Len(new) : new[i].name \in ns /\ new[i].cfg = c[new[i].name]
           /\ \A n \in ns : \E i \in 1..Len(new) : new[i].name = n
           /\ \A i, j \in 1..Len(new) : new[i].name = new[j].name => i = j
<1> DEFINE k == Cardinality(ns)
           order == SetToSeq(ns)
           new == NewRunners(c, ns)
<1>1. IsConfig(c) /\ IsFiniteSet(DOMAIN c)
    BY ConfigsAssumption
<1>2. IsFiniteSet(ns)
    BY <1>1, FS_Subset
<1>3. /\ k \in Nat
      /\ order \in [1..k -> ns]
      /\ \A i, j \in 1..k : order[i] = order[j] => i = j
      /\ \A n \in ns : \E i \in 1..k : order[i] = n
    BY <1>2, SeqOfFinite
<1>4. new = [i \in 1..k |-> [name |-> order[i], cfg |-> c[order[i]]]]
    BY DEF NewRunners
<1> HIDE DEF k, order, new
<1>5. \A i \in 1..k : new[i] \in Runner /\ new[i].name = order[i] /\ new[i].cfg = c[order[i]]
    BY <1>1, <1>3, <1>4 DEF IsConfig, Runner
<1>6. new \in [1..k -> Runner]
    BY <1>4, <1>5
<1>7. new \in Seq(Runner) /\ Len(new) = k
    BY <1>3, <1>6
<1>8. QED
    BY <1>3, <1>5, <1>7 DEF new

\* The map loses the names of out, gains a new generation for each name of new
\* and keeps the rest, and each generation made is the one its name leads to.
Replaced(c, out, new) ==
    /\ runners' \in [Names -> 0..MaxGen]
    /\ made' \in Seq(Runner) /\ Len(made') <= MaxGen
    /\ Made \subseteq Made' /\ \A g \in Made : made'[g] = made[g]
    /\ stopped \subseteq stopped'
    /\ Registered' = (Registered \ out) \cup new
    /\ \A n \in new : made'[runners'[n]] = [name |-> n, cfg |-> c[n]]
    /\ \A n \in Registered \ out :
          runners'[n] = runners[n] /\ made'[runners'[n]] = made[runners[n]]
    /\ stopped' \subseteq Made'
    /\ \A n \in Registered' :
          runners'[n] \in Made' \ stopped' /\ made'[runners'[n]].name = n
    /\ \A g \in Made' \ stopped' : runners'[made'[g].name] = g

\* Replace, as Start and Reload use it: no name is both kept and made anew.
LEMMA ReplaceEffect ==
    ASSUME TypeOK, Bookkeeping,
           NEW c \in Configs, NEW out \in SUBSET Registered, NEW new \in SUBSET DOMAIN c,
           new \cap Registered \subseteq out,
           Replace(c, out, new)
    PROVE  Replaced(c, out, new)
<1> DEFINE added == NewRunners(c, new)
           index(n) == CHOOSE i \in DOMAIN added : added[i].name = n
<1>1. /\ added \in Seq(Runner)
      /\ \A i \in 1..Len(added) : added[i].name \in new /\ added[i].cfg = c[added[i].name]
      /\ \A n \in new : \E i \in 1..Len(added) : added[i].name = n
      /\ \A i, j \in 1..Len(added) : added[i].name = added[j].name => i = j
    BY NewRunnersProperties
<1>2. /\ made' = made \o added /\ Len(made) + Len(added) <= MaxGen
      /\ stopped' = stopped \cup {runners[n] : n \in out}
      /\ runners' = [n \in Names |->
            IF n \in new THEN Len(made) + index(n)
            ELSE IF n \in out THEN 0 ELSE runners[n]]
    BY DEF Replace, StopTunnels
<1> HIDE DEF added
<1>3. DOMAIN added = 1..Len(added) /\ Len(added) \in Nat
    BY <1>1
<1>4. \A n \in new : index(n) \in 1..Len(added) /\ added[index(n)].name = n
    BY <1>1, <1>3
<1>5. \A i \in 1..Len(added) : index(added[i].name) = i
    BY <1>1, <1>4
<1> HIDE DEF index
<1>6. new \subseteq Names /\ out \subseteq Names
    BY ConfigsAssumption DEF IsConfig, Registered
<1>7. /\ made \in Seq(Runner) /\ Len(made) \in Nat /\ DOMAIN made = 1..Len(made)
      /\ Len(made) <= MaxGen /\ stopped \subseteq 1..MaxGen
      /\ runners \in [Names -> 0..MaxGen]
    BY DEF TypeOK, Runner, Gens
<1>8. /\ made' \in Seq(Runner) /\ Len(made') = Len(made) + Len(added)
      /\ \A g \in 1..(Len(made) + Len(added)) :
            made'[g] = IF g <= Len(made) THEN made[g] ELSE added[g - Len(made)]
    BY <1>1, <1>2, <1>7, ConcatProperties
<1>9. DOMAIN made' = 1..(Len(made) + Len(added))
    BY <1>8
<1>10. Len(made') <= MaxGen /\ Made \subseteq Made' /\ \A g \in Made : made'[g] = made[g]
    BY <1>2, <1>3, <1>7, <1>8, <1>9 DEF Made
<1>11. \A n \in new : runners'[n] = Len(made) + index(n)
    BY <1>2, <1>6
<1>12. \A n \in Names \ new : runners'[n] = IF n \in out THEN 0 ELSE runners[n]
    BY <1>2
<1>13. \A n \in new : /\ runners'[n] \in Made' \ Made
                      /\ made'[runners'[n]] = added[index(n)]
    BY <1>3, <1>4, <1>7, <1>8, <1>9, <1>11 DEF Made
<1>14. \A n \in new : made'[runners'[n]] = [name |-> n, cfg |-> c[n]]
  <2> TAKE n \in new
  <2>1. added[index(n)] \in Runner
    BY <1>1, <1>4
  <2>2. added[index(n)] = [name |-> n, cfg |-> c[n]]
    BY <1>1, <1>4, <2>1 DEF Runner
  <2>3. QED
    BY <1>13, <2>2
<1>15. runners' \in [Names -> 0..MaxGen]
  <2>1. Len(made) \in Nat /\ Len(added) \in Nat /\ Len(made) + Len(added) <= MaxGen
    BY <1>2, <1>3, <1>7
  <2>2. \A n \in new : Len(made) + index(n) \in 0..MaxGen
    BY <1>4, <2>1, MaxGenAssumption
  <2>3. \A n \in Names : runners[n] \in 0..MaxGen /\ 0 \in 0..MaxGen
    BY <1>7, MaxGenAssumption
  <2>4. \A n \in Names : runners'[n] \in 0..MaxGen
    BY <1>11, <1>12, <2>2, <2>3
  <2>5. runners' = [n \in Names |-> runners'[n]]
    BY <1>2, Zenon
  <2>6. QED
    BY <2>4, <2>5
<1>16. Registered' = (Registered \ out) \cup new
  <2>1. \A n \in new : runners'[n] # 0
    BY <1>3, <1>4, <1>7, <1>11
  <2>2. QED
    BY <1>6, <1>12, <2>1 DEF Registered
<1>17. \A n \in Registered \ out :
          runners'[n] = runners[n] /\ made'[runners'[n]] = made[runners[n]]
    BY <1>10, <1>12 DEF Registered, Bookkeeping
<1>18. stopped' \subseteq Made
    BY <1>2 DEF Bookkeeping
<1>19. \A n \in Registered' :
          runners'[n] \in Made' \ stopped' /\ made'[runners'[n]].name = n
  <2> SUFFICES ASSUME NEW n \in (Registered \ out) \cup new
               PROVE  runners'[n] \in Made' \ stopped' /\ made'[runners'[n]].name = n
    BY <1>16
  <2>1. CASE n \in new
    <3>1. runners'[n] \in Made' \ Made /\ made'[runners'[n]] = [name |-> n, cfg |-> c[n]]
      BY <1>13, <1>14, <2>1
    <3>2. QED
      BY <1>18, <3>1
  <2>2. CASE n \in Registered \ out
    <3>1. \A m \in out : runners[m] # runners[n]
      BY <2>2 DEF Bookkeeping
    <3>2. runners[n] \in Made \ stopped /\ made[runners[n]].name = n
      BY <2>2 DEF Bookkeeping
    <3>3. runners[n] \notin stopped'
      BY <1>2, <3>1, <3>2
    <3>4. runners'[n] = runners[n] /\ made'[runners'[n]] = made[runners[n]]
      BY <1>17, <2>2
    <3>5. QED
      BY <1>10, <3>2, <3>3, <3>4
  <2>3. QED
    BY <2>1, <2>2
<1>20. \A g \in Made' \ stopped' : runners'[made'[g].name] = g
  <2> SUFFICES ASSUME NEW g \in Made' \ stopped'
               PROVE  runners'[made'[g].name] = g
    OBVIOUS
  <2>1. CASE g \in Made
    <3>1. g \notin stopped /\ runners[made[g].name] = g /\ made'[g] = made[g]
      BY <1>2, <1>10, <2>1 DEF Bookkeeping
    <3>2. made[g].name \in Names /\ g # 0
      <4>1. g \in 1..Len(made)
        BY <1>7, <2>1 DEF Made
      <4>2. made[g] \in Runner
        BY <1>7, <4>1, ElementOfSeq
      <4>3. QED
        BY <1>7, <4>1, <4>2 DEF Runner
    <3>3. made[g].name \in Registered \ out
      BY <1>2, <3>1, <3>2 DEF Registered
    <3>4. QED
      BY <1>17, <3>1, <3>3
  <2>2. CASE g \notin Made
    <3>1. g - Len(made) \in 1..Len(added) /\ made'[g] = added[g - Len(made)]
      BY <1>3, <1>7, <1>8, <1>9, <2>2 DEF Made
    <3>2. index(made'[g].name) = g - Len(made) /\ made'[g].name \in new
      BY <1>1, <1>5, <3>1
    <3>3. g \in Nat
      BY <1>3, <1>7, <1>9 DEF Made
    <3>4. runners'[made'[g].name] = Len(made) + (g - Len(made))
      BY <1>11, <3>2
    <3>5. QED
      BY <1>7, <3>3, <3>4
  <2>3. QED
    BY <2>1, <2>2
<1>21. QED
    BY <1>2, <1>8, <1>10, <1>14, <1>15, <1>16, <1>17, <1>18, <1>19, <1>20
        DEF Replaced

-----------------------------------------------------------------------------
(***************************************************************************)
(* The inductive invariant.                                                *)
(***************************************************************************)

\* A supervisor that was not started satisfies the invariant.
THEOREM InitIInv == Init => IInv
<1> SUFFICES ASSUME Init PROVE IInv
    OBVIOUS
<1>1. TypeOK
  <2>1. made \in Seq([name : Names, cfg : Tunnels]) /\ Len(made) <= MaxGen
    BY EmptySeq, MaxGenAssumption DEF Init
  <2>2. runners \in [Names -> 0..MaxGen]
    BY MaxGenAssumption DEF Init
  <2>3. token \in [Gens -> BOOLEAN] /\ started \in BOOLEAN /\ ctxDone \in BOOLEAN
    BY DEF Init
  <2>4. QED
    BY <2>1, <2>2, <2>3 DEF Init, TypeOK
<1>2. Made = {} /\ Registered = {}
    BY DEF Init, Made, Registered
<1>3. QED
    BY <1>1, <1>2 DEF Init, IInv, RegistryMatchesConfig, Bookkeeping, Unborn,
        Custody, Quiescence

\* Start and Reload keep the invariant, whatever runners they stop and make.
LEMMA ReplaceIInv ==
    ASSUME IInv, NEW c \in Configs,
           NEW out \in SUBSET Registered,
           out = {n \in Registered : n \in DOMAIN c => ~tunnelEqual(made[runners[n]].cfg, c[n])},
           Replace(c, out, DOMAIN c \ (Registered \ out)),
           applied' = c, started' = TRUE,
           UNCHANGED <<ctxDone, stopper, lifecycles>>
    PROVE  IInv'
<1> DEFINE new == DOMAIN c \ (Registered \ out)
<1>1. /\ new \in SUBSET DOMAIN c /\ new \cap Registered \subseteq out
      /\ (Registered \ out) \cup new = DOMAIN c
      /\ Replace(c, out, new)
    OBVIOUS
<1> HIDE DEF new
<1>2. TypeOK /\ Bookkeeping
    BY DEF IInv
<1>3. Replaced(c, out, new)
    BY <1>1, <1>2, ReplaceEffect
<1>4. TypeOK'
  <2>1. Made' \subseteq Gens
    BY <1>3, MaxGenAssumption DEF Replaced, Made, Gens
  <2>2. QED
    BY <1>2, <1>3, <2>1 DEF Replaced, TypeOK, Runner, lifecycles
<1>5. RegistryMatchesConfig'
  <2>1. Registered' = DOMAIN c
    BY <1>1, <1>3 DEF Replaced
  <2>2. \A n \in DOMAIN c : tunnelEqual(made'[runners'[n]].cfg, c[n])
    <3> TAKE n \in DOMAIN c
    <3>1. CASE n \in new
      <4>1. made'[runners'[n]] = [name |-> n, cfg |-> c[n]]
        BY <1>3, <3>1 DEF Replaced
      <4>2. QED
        BY <4>1 DEF tunnelEqual
    <3>2. CASE n \in Registered \ out
      BY <1>3, <3>2 DEF Replaced
    <3>3. QED
      BY <1>1, <3>1, <3>2
  <2>3. QED
    BY <1>3, <2>1, <2>2 DEF Replaced, RegistryMatchesConfig
<1>6. Bookkeeping'
    BY <1>3 DEF Replaced, Bookkeeping
<1>7. (Unborn /\ Custody /\ Quiescence)'
    BY <1>3 DEF Replaced, IInv, Unborn, Custody, Quiescence, lifecycles, Gens
<1>8. QED
    BY <1>4, <1>5, <1>6, <1>7 DEF IInv

\* The steps of a runner and of its kubectl leave the bookkeeping alone.
LEMMA RunnerIInv ==
    ASSUME IInv, NEW g \in Gens, RunnerStep(g) \/ ProcessStep(g)
    PROVE  IInv'
<1> USE DEF IInv, TypeOK, supervision, registry, SetState, SetProc, Live
<1>1. UNCHANGED supervision
    BY DEF RunnerStep, ProcessStep, Attempt, Launch, AbortLaunch, Ready, Collect,
        TakeToken, Return, KubectlServes, KubectlDies, AbandonedEnds
<1>2. Made' = Made /\ Registered' = Registered
    BY <1>1 DEF Made, Registered
<1>3. RegistryMatchesConfig' /\ Bookkeeping'
    BY <1>1, <1>2 DEF RegistryMatchesConfig, Bookkeeping
<1>4. (TypeOK /\ Unborn /\ Custody /\ Quiescence)'
  <2> USE <1>1, <1>2 DEF Unborn, Custody, Quiescence
  <2>1. CASE Attempt(g)
    BY <2>1 DEF Attempt
  <2>2. CASE Launch(g)
    <3>1. CASE made[g].cfg.health = "badInterval"
      <4>1. /\ proc' = [proc EXCEPT ![g] = "up"] /\ state' = [state EXCEPT ![g] = "Failing"]
            /\ fate' = [fate EXCEPT ![g] = "panicked"] /\ UNCHANGED token
            /\ fate[g] = "live" /\ g \in Made /\ ~ctxDone
        BY <2>2, <3>1 DEF Launch
      <4>2. QED
        BY <4>1
    <3>2. CASE made[g].cfg.health # "badInterval"
      BY <2>2, <3>2 DEF Launch
    <3>3. QED
      BY <3>1, <3>2
  <2>3. CASE AbortLaunch(g)
    BY <2>3 DEF AbortLaunch
  <2>4. CASE Ready(g)
    BY <2>4 DEF Ready
  <2>5. CASE Collect(g)
    <3>1. proc' = [proc EXCEPT ![g] = "none"] /\ fate' = fate /\ g \in Made
      BY <2>5 DEF Collect
    <3>2. token' \in [Gens -> BOOLEAN]
      BY <2>5 DEF Collect
    <3>3. \E s \in {state[g], "Stopped", "Backoff", "Failing"} : state' = [state EXCEPT ![g] = s]
      BY <2>5 DEF Collect
    <3>4. QED
      BY <3>1, <3>2, <3>3
  <2>6. CASE TakeToken(g)
    BY <2>6 DEF TakeToken
  <2>7. CASE Return(g)
    BY <2>7 DEF Return
  <2>8. CASE KubectlServes(g)
    BY <2>8 DEF KubectlServes
  <2>9. CASE KubectlDies(g)
    BY <2>9 DEF KubectlDies
  <2>10. CASE AbandonedEnds(g)
    BY <2>10 DEF AbandonedEnds
  <2>11. QED
    BY <2>1, <2>2, <2>3, <2>4, <2>5, <2>6, <2>7, <2>8, <2>9, <2>10
        DEF RunnerStep, ProcessStep
<1>5. QED
    BY <1>3, <1>4

\* No call of a method, no signal and no step of a runner breaks the invariant.
THEOREM StepIInv == IInv /\ [Next]_vars => IInv'
<1> SUFFICES ASSUME IInv, [Next]_vars PROVE IInv'
    OBVIOUS
<1> USE DEF Made, Registered
<1>1. ASSUME NEW c \in Configs, Start(c) PROVE IInv'
  <2>1. Registered = {}
    BY <1>1 DEF Start, IInv, Bookkeeping
  <2>2. Replace(c, {}, DOMAIN c \ (Registered \ {}))
    <3>1. DOMAIN c \ (Registered \ {}) = DOMAIN c
      BY <2>1
    <3>2. QED
      BY <1>1, <3>1 DEF Start
  <2>3. {} = {n \in Registered : n \in DOMAIN c => ~tunnelEqual(made[runners[n]].cfg, c[n])}
    BY <2>1
  <2>4. applied' = c /\ started' = TRUE /\ UNCHANGED <<ctxDone, stopper, lifecycles>>
    BY <1>1 DEF Start
  <2>5. {} \in SUBSET Registered
    OBVIOUS
  <2>6. QED
    BY <2>2, <2>3, <2>4, <2>5, ReplaceIInv
<1>2. ASSUME NEW c \in Configs, Reload(c) PROVE IInv'
  <2>1. {n \in DOMAIN c : n \notin Registered \ Outdated(c)}
            = DOMAIN c \ (Registered \ Outdated(c))
    OBVIOUS
  <2>2. Replace(c, Outdated(c), DOMAIN c \ (Registered \ Outdated(c)))
    BY <1>2, <2>1 DEF Reload
  <2>3. Outdated(c) \in SUBSET Registered
    BY DEF Outdated
  <2>4. Outdated(c) =
            {n \in Registered : n \in DOMAIN c => ~tunnelEqual(made[runners[n]].cfg, c[n])}
    BY DEF Outdated
  <2>5. applied' = c /\ started' = TRUE /\ UNCHANGED <<ctxDone, stopper, lifecycles>>
    BY <1>2 DEF Reload, IInv, TypeOK
  <2>6. QED
    BY <2>2, <2>3, <2>4, <2>5, ReplaceIInv
<1>3. ASSUME NEW n \in Names, Restart(n) PROVE IInv'
    BY <1>3 DEF Restart, registry, IInv, TypeOK, RegistryMatchesConfig, Bookkeeping,
        Unborn, Custody, Quiescence
<1>4. CASE CancelRoot
    BY <1>4 DEF CancelRoot, registry, lifecycles, IInv, TypeOK, RegistryMatchesConfig,
        Bookkeeping, Unborn, Custody, Quiescence
<1>5. CASE Stop
  <2>1. runners' = [n \in Names |-> 0] /\ stopped' = stopped \cup {runners[n] : n \in Registered}
    BY <1>5 DEF Stop, StopTunnels
  <2>2. Registered' = {}
    BY <2>1
  <2>3. \A n \in Registered : runners[n] \in Made
    BY DEF IInv, Bookkeeping
  <2>4. stopped' \subseteq Made /\ Made \subseteq Gens
    <3>1. Made \subseteq Gens
      BY MaxGenAssumption DEF IInv, TypeOK, Gens
    <3>2. QED
      BY <2>1, <2>3, <3>1 DEF IInv, Bookkeeping
  <2>5. \A g \in Made : g \in stopped'
    <3> TAKE g \in Made
    <3>1. CASE g \notin stopped
      <4>1. runners[made[g].name] = g
        BY <3>1 DEF IInv, Bookkeeping
      <4>2. g \in 1..Len(made) /\ made[g] \in Runner
        <5>1. made \in Seq(Runner)
          BY DEF IInv, TypeOK, Runner
        <5>2. g \in 1..Len(made)
          BY <5>1
        <5>3. QED
          BY <5>1, <5>2, ElementOfSeq
      <4>3. made[g].name \in Registered
        BY <4>1, <4>2 DEF Runner
      <4>4. QED
        BY <2>1, <4>1, <4>3
    <3>2. QED
      BY <2>1, <3>1
  <2>6. TypeOK'
    BY <1>5, <2>1, <2>4, MaxGenAssumption DEF Stop, lifecycles, IInv, TypeOK
  <2>7. (RegistryMatchesConfig /\ Bookkeeping)'
    BY <1>5, <2>2, <2>4, <2>5 DEF Stop, RegistryMatchesConfig, Bookkeeping
  <2>8. (Unborn /\ Custody /\ Quiescence)'
    BY <1>5 DEF Stop, lifecycles, IInv, Unborn, Custody, Quiescence
  <2>9. QED
    BY <2>6, <2>7, <2>8 DEF IInv
<1>6. CASE StopReturns
  <2>1. \A g \in Gens : proc[g] = "none" \/ fate[g] # "live"
    BY <1>6 DEF StopReturns, RunnersDone, IInv, Unborn
  <2>2. QED
    BY <1>6, <2>1 DEF StopReturns, registry, lifecycles, IInv, TypeOK,
        RegistryMatchesConfig, Bookkeeping, Unborn, Custody, Quiescence
<1>7. ASSUME NEW g \in Gens, RunnerStep(g) \/ ProcessStep(g) PROVE IInv'
    BY <1>7, RunnerIInv
<1>8. CASE UNCHANGED vars
    BY <1>8 DEF vars, registry, IInv, TypeOK, RegistryMatchesConfig, Bookkeeping,
        Unborn, Custody, Quiescence
<1>9. QED
    BY <1>1, <1>2, <1>3, <1>4, <1>5, <1>6, <1>7, <1>8 DEF Next

-----------------------------------------------------------------------------
(***************************************************************************)
(* Safety, for every value of the constants.                               *)
(***************************************************************************)

\* The inductive invariant holds in every reachable state.
THEOREM Invariance == Spec => []IInv
    BY InitIInv, StepIInv, PTL DEF Spec

\* The registered runners are those of the configuration last applied, whatever
\* sequence of reloads led there.
THEOREM Registry == Spec => []RegistryMatchesConfig
<1>1. IInv => RegistryMatchesConfig
    BY DEF IInv
<1>2. QED
    BY <1>1, Invariance, PTL

\* No runner is lost from the map without having been stopped.
THEOREM Retired == Spec => []RetiredAreStopped
<1>1. IInv => RetiredAreStopped
    BY DEF IInv, Bookkeeping, RetiredAreStopped
<1>2. QED
    BY <1>1, Invariance, PTL

\* When Stop has returned no kubectl is left but one that a runner's panic left
\* behind, though reloads may go on making runners.
THEOREM StopIsClean == Spec => []StopLeavesNothing
<1>1. IInv => StopLeavesNothing
    BY DEF IInv, TypeOK, Quiescence, Custody, StopLeavesNothing
<1>2. QED
    BY <1>1, Invariance, PTL

-----------------------------------------------------------------------------
(***************************************************************************)
(* Refinement: each generation is a tunnel in the sense of TunnelLifecycle,*)
(* whatever the supervisor and the other generations do.                   *)
(***************************************************************************)

\* The supervisor never takes a cancellation back, and a generation is only
\* cancelled once.
LEMMA CancelledForGood ==
    ASSUME IInv, [Next]_vars, NEW g \in Gens, Cancelled(g)
    PROVE  Cancelled(g)'
<1> USE DEF Cancelled, registry, supervision, lifecycles
<1>1. ASSUME NEW c \in Configs, Start(c) \/ Reload(c) PROVE Cancelled(g)'
    BY <1>1 DEF Start, Reload, Replace, StopTunnels
<1>2. ASSUME NEW n \in Names, Restart(n) PROVE Cancelled(g)'
    BY <1>2 DEF Restart
<1>3. CASE CancelRoot \/ Stop \/ StopReturns
    BY <1>3 DEF CancelRoot, Stop, StopReturns, StopTunnels
<1>4. ASSUME NEW h \in Gens, RunnerStep(h) \/ ProcessStep(h) PROVE Cancelled(g)'
    BY <1>4 DEF RunnerStep, ProcessStep, Attempt, Launch, AbortLaunch, Ready, Collect,
        TakeToken, Return, KubectlServes, KubectlDies, AbandonedEnds
<1>5. CASE UNCHANGED vars
    BY <1>5 DEF vars
<1>6. QED
    BY <1>1, <1>2, <1>3, <1>4, <1>5 DEF Next

\* A step of a generation is a step of its abstract tunnel, or none; a step of
\* anybody else leaves it alone or cancels it.
LEMMA StepRefines ==
    ASSUME IInv, [Next]_vars, NEW g \in Gens
    PROVE  [Lifecycle(g)!Next]_(Lifecycle(g)!lifecycleVars)
<1> DEFINE Abstract == [Lifecycle(g)!Next]_(Lifecycle(g)!lifecycleVars)
<1>1. ASSUME UNCHANGED lifecycles PROVE Abstract
  <2>1. CASE Cancelled(g)' = Cancelled(g)
    BY <1>1, <2>1 DEF lifecycles, Lifecycle!lifecycleVars
  <2>2. CASE Cancelled(g)' # Cancelled(g)
    <3>1. Cancelled(g)' = TRUE
      BY <2>2, CancelledForGood DEF Cancelled
    <3>2. QED
      BY <1>1, <3>1 DEF lifecycles, Lifecycle!Next, Lifecycle!Cancel
  <2>3. QED
    BY <2>1, <2>2
<1>2. ASSUME NEW h \in Gens, RunnerStep(h) \/ ProcessStep(h) PROVE Abstract
  <2> USE DEF SetState, SetProc, Live, Lifecycle!lifecycleVars
  <2>0. /\ UNCHANGED supervision /\ Cancelled(g)' = Cancelled(g)
        /\ state \in [Gens -> {"Stopped", "Starting", "Running", "Backoff", "Failing"}]
        /\ proc \in [Gens -> {"none", "up", "serving", "dead"}]
        /\ fate \in [Gens -> {"live", "returned", "panicked"}]
    BY <1>2 DEF IInv, TypeOK, Cancelled, supervision, registry, RunnerStep, ProcessStep,
        Attempt, Launch, AbortLaunch, Ready, Collect, TakeToken, Return, KubectlServes,
        KubectlDies, AbandonedEnds
  <2>1. CASE h # g
    <3>1. state'[g] = state[g] /\ proc'[g] = proc[g] /\ fate'[g] = fate[g]
      BY <1>2, <2>0, <2>1 DEF RunnerStep, ProcessStep, Attempt, Launch, AbortLaunch, Ready,
          Collect, TakeToken, Return, KubectlServes, KubectlDies, AbandonedEnds
    <3>2. QED
      BY <2>0, <3>1
  <2>2. CASE h = g
    <3> USE <2>0, <2>2
    <3>1. CASE Attempt(h)
      BY <3>1 DEF Attempt, Lifecycle!Next, Lifecycle!Attempt
    <3>2. CASE Launch(h)
      <4>1. CASE made[h].cfg.health = "badInterval"
        BY <3>2, <4>1 DEF Launch, Lifecycle!Next, Lifecycle!Crash
      <4>2. CASE made[h].cfg.health # "badInterval"
        BY <3>2, <4>2 DEF Launch, Lifecycle!Next, Lifecycle!ChildStarts
      <4>3. QED
        BY <4>1, <4>2
    <3>3. CASE AbortLaunch(h)
      BY <3>3 DEF AbortLaunch, Lifecycle!Next, Lifecycle!AbortLaunch
    <3>4. CASE Ready(h)
      BY <3>4 DEF Ready, Lifecycle!Next, Lifecycle!Ready
    <3>5. CASE Collect(h)
      BY <3>5 DEF Collect, Lifecycle!Next, Lifecycle!Collect
    <3>6. CASE TakeToken(h)
      BY <3>6 DEF TakeToken
    <3>7. CASE Return(h)
      BY <3>7 DEF Return, Lifecycle!Next, Lifecycle!Return
    <3>8. CASE KubectlServes(h)
      BY <3>8 DEF KubectlServes
    <3>9. CASE KubectlDies(h)
      BY <3>9 DEF KubectlDies
    <3>10. CASE AbandonedEnds(h)
      BY <3>10 DEF AbandonedEnds, Lifecycle!Next, Lifecycle!AbandonedChildEnds
    <3>11. QED
      BY <1>2, <3>1, <3>2, <3>3, <3>4, <3>5, <3>6, <3>7, <3>8, <3>9, <3>10
          DEF RunnerStep, ProcessStep
  <2>3. QED
    BY <2>1, <2>2
<1>3. CASE \E c \in Configs : Start(c) \/ Reload(c)
    BY <1>1, <1>3 DEF Start, Reload
<1>4. ASSUME NEW n \in Names, Restart(n) PROVE Abstract
    BY <1>4 DEF Restart, Cancelled, registry, Lifecycle!lifecycleVars
<1>5. CASE CancelRoot \/ Stop \/ StopReturns \/ UNCHANGED vars
    BY <1>1, <1>5 DEF CancelRoot, Stop, StopReturns, lifecycles, vars
<1>6. QED
    BY <1>2, <1>3, <1>4, <1>5 DEF Next

\* Whatever the supervisor and the other generations do, each is a behaviour of
\* TunnelLifecycle from its first state on.
THEOREM Refinement ==
    ASSUME NEW g \in Gens
    PROVE  Spec => Lifecycle(g)!Spec
<1>1. Init => Lifecycle(g)!Init
    BY DEF Init, Cancelled, Lifecycle!Init
<1>2. IInv /\ [Next]_vars => [Lifecycle(g)!Next]_(Lifecycle(g)!lifecycleVars)
    BY StepRefines
<1>3. QED
    BY <1>1, <1>2, Invariance, PTL DEF Spec, Lifecycle!Spec
=============================================================================
