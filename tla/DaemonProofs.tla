----------------------------- MODULE DaemonProofs -----------------------------
(***************************************************************************)
(* Proofs about Daemon for any configuration files, any number of reloads  *)
(* and requests, and as many changes of the file as there may be.          *)
(*                                                                         *)
(* One result needs what Validate does not ensure, and says so: that the   *)
(* hosts of a file differ in more than their case (KeysDiffer).            *)
(***************************************************************************)
EXTENDS Daemon, WellFoundedInduction, TLAPS

\* No two tunnels of a file have one routing key.
KeysDiffer ==
    \A c \in Configs : \A i, j \in DOMAIN c :
        toKey[c[i].hostname] = toKey[c[j].hostname] => i = j

\* The supervisor and the proxy have one configuration.
Agree == \E c \in Configs : runners = RunnersOf(c) /\ routes = RoutesOf(c)

\* Before the supervisor is started no reload gets past it.
NotStarted ==
    ~started =>
        /\ runners = <<>> /\ routes = RoutesOf(Boot)
        /\ \A k \in Callers : ~At(k, "supervised")

\* A lone reload is the only one, and the reloads under way are lone unless some
\* have overlapped.
OneLone ==
    /\ \A k \in lone : ~At(k, "idle") /\ \A j \in Callers \ {k} : At(j, "idle")
    /\ ~mixed => \A k \in Callers : At(k, "idle") \/ k \in lone

\* What a reload works with is a configuration, and nobody gets between the steps
\* of a lone one.
ReloadsOwn ==
    \A k \in Callers :
        /\ ~At(k, "idle") /\ ~At(k, "begun") => reload[k].with \in Configs
        /\ k \in lone /\ (At(k, "set") \/ At(k, "supervised")) => cfg = reload[k].with
        /\ k \in lone /\ At(k, "supervised") => runners = RunnersOf(reload[k].with)

\* Unless reloads have overlapped, only a reload between the supervisor and the
\* proxy has them disagree.
AgreeBetween ==
    started /\ ~mixed /\ (\A k \in Callers : ~At(k, "supervised")) => Agree

\* On the port of a runner listens its own kubectl, or nobody.
HoldsPort(n) == n \in bound \/ listening[runners[n].local_port] = NoOne

\* A retired kubectl that is still there keeps the runner that wants its port from
\* becoming Running.
ReadyHold == \A n \in ready : HoldsPort(n)

\* An undisturbed request has the route of a runner that has its host; once it is
\* admitted nobody else listens there.
OwnRoute(c) ==
    LET n == request[c].route.name IN
    /\ request[c].at # "idle"
    /\ n \in DOMAIN runners
    /\ request[c].route = RouteTo(n, runners[n].local_port)
    /\ toKey[runners[n].hostname] = toKey[request[c].host]
    /\ request[c].at = "admitted" => HoldsPort(n)

UndisturbedOwn == \A c \in undisturbed : OwnRoute(c)

IInv ==
    /\ TypeOK
    /\ NotStarted
    /\ OneLone
    /\ ReloadsOwn
    /\ AgreeBetween
    /\ ReadyHold
    /\ UndisturbedOwn

-----------------------------------------------------------------------------
(***************************************************************************)
(* What is made of a configuration.                                        *)
(***************************************************************************)

\* A set of positions that is not empty has a last one.
LEMMA LastPosition ==
    ASSUME NEW n \in Nat, NEW S \in SUBSET (1..n), S # {}
    PROVE  Max(S) \in S
<1> DEFINE T == {n - i : i \in S}
           R == {ss \in Nat \X Nat : ss[1] < ss[2]}
<1>1. IsWellFoundedOn(R, Nat)
    BY NatLessThanWellFounded DEF OpToRel
<1>2. T \subseteq Nat /\ T # {}
  <2>1. \A i \in S : n - i \in Nat
    OBVIOUS
  <2>2. QED
    BY <2>1
<1>3. PICK x \in T : \A y \in T : <<y, x>> \notin R
  <2> HIDE DEF T, R
  <2>1. QED
    BY <1>1, <1>2, WFMin
<1>4. \A y \in T : x <= y
  <2> TAKE y \in T
  <2>1. x \in Nat /\ y \in Nat
    BY <1>2
  <2>2. ~(y < x)
    BY <1>3, <2>1
  <2>3. QED
    BY <2>1, <2>2
<1>5. PICK i \in S : x = n - i
    BY <1>3
<1>6. \A j \in S : i >= j
    BY <1>4, <1>5
<1>7. QED
    BY <1>6 DEF Max

\* A runner has the tunnel of its name.
LEMMA RunnerTunnels ==
    ASSUME NEW c \in Configs
    PROVE  /\ DOMAIN RunnersOf(c) = NamesOf(c) /\ NamesOf(c) \subseteq Names
           /\ \A n \in NamesOf(c) :
                 /\ RunnersOf(c)[n] = FindTunnel(c, n)
                 /\ \E i \in DOMAIN c : c[i].name = n /\ FindTunnel(c, n) = c[i]
                 /\ FindTunnel(c, n).local_port \in Ports
<1>1. \A n \in NamesOf(c) : \E i \in DOMAIN c : c[i].name = n /\ FindTunnel(c, n) = c[i]
    BY DEF NamesOf, FindTunnel
<1>2. QED
    BY <1>1, TunnelsAssumption DEF RunnersOf, NamesOf

\* A route leads to a tunnel of its host.
LEMMA RouteTunnels ==
    ASSUME NEW c \in Configs, NEW h \in DOMAIN RoutesOf(c)
    PROVE  \E i \in DOMAIN c :
              /\ toKey[c[i].hostname] = h
              /\ RoutesOf(c)[h] = RouteTo(c[i].name, c[i].local_port)
<1> DEFINE S == {i \in DOMAIN c : toKey[c[i].hostname] = h}
<1>1. PICK n \in Nat : DOMAIN c = 1..n
    BY ListsAssumption DEF Configs
<1>2. S # {} /\ S \in SUBSET (1..n)
    BY <1>1 DEF RoutesOf
<1>3. Max(S) \in S
    BY <1>2, LastPosition
<1>4. RoutesOf(c)[h] = RouteTo(c[Max(S)].name, c[Max(S)].local_port)
    BY DEF RoutesOf
<1>5. QED
    BY <1>3, <1>4

\* Every tunnel of a configuration is the one found by its name, and no other has
\* its port.
LEMMA TunnelsDistinct ==
    ASSUME NEW c \in Configs
    PROVE  /\ \A i \in DOMAIN c : c[i].name \in NamesOf(c) /\ FindTunnel(c, c[i].name) = c[i]
           /\ \A i, j \in DOMAIN c : c[i].local_port = c[j].local_port => i = j
<1>1. PICK n \in Nat : DOMAIN c = 1..n
    BY ListsAssumption DEF Configs
<1>2. \A i \in DOMAIN c : \A j \in 1..(i - 1) :
         c[j].name # c[i].name /\ c[j].local_port # c[i].local_port
    BY DEF Configs, Validate, Distinct
<1>3. \A i, j \in DOMAIN c :
         c[i].name = c[j].name \/ c[i].local_port = c[j].local_port => i = j
    BY <1>1, <1>2
<1>4. \A i \in DOMAIN c : c[i].name \in NamesOf(c) /\ FindTunnel(c, c[i].name) = c[i]
    BY <1>3 DEF NamesOf, FindTunnel
<1>5. QED
    BY <1>3, <1>4

\* With one configuration for both, and keys that differ, every host is routed to
\* the port its tunnel's runner forwards, and nothing else is.
LEMMA AgreeFollows ==
    ASSUME KeysDiffer, NEW c \in Configs, runners = RunnersOf(c), routes = RoutesOf(c)
    PROVE  /\ DOMAIN routes = {toKey[runners[n].hostname] : n \in DOMAIN runners}
           /\ \A n \in DOMAIN runners :
                 routes[toKey[runners[n].hostname]] = RouteTo(n, runners[n].local_port)
<1>1. /\ DOMAIN runners = {c[i].name : i \in DOMAIN c}
      /\ \A i \in DOMAIN c : runners[c[i].name] = c[i]
    BY TunnelsDistinct, RunnerTunnels DEF NamesOf
<1>2. DOMAIN routes = {toKey[c[i].hostname] : i \in DOMAIN c}
    BY DEF RoutesOf
<1>3. \A i \in DOMAIN c :
         routes[toKey[c[i].hostname]] = RouteTo(c[i].name, c[i].local_port)
  <2> TAKE i \in DOMAIN c
  <2>1. PICK j \in DOMAIN c :
           /\ toKey[c[j].hostname] = toKey[c[i].hostname]
           /\ routes[toKey[c[i].hostname]] = RouteTo(c[j].name, c[j].local_port)
    BY <1>2, RouteTunnels
  <2>2. j = i
    BY <2>1 DEF KeysDiffer
  <2>3. QED
    BY <2>1, <2>2
<1>4. QED
    BY <1>1, <1>2, <1>3

-----------------------------------------------------------------------------
(***************************************************************************)
(* The steps of a reload.                                                  *)
(***************************************************************************)

\* A caller goes on with the configuration it has; nobody else is touched.
LEMMA GotoEffect ==
    ASSUME TypeOK, NEW k \in Callers, NEW a \in {"begun", "loaded", "set", "supervised"},
           Goto(k, a)
    PROVE  /\ reload' \in [Callers -> [at : {"idle", "begun", "loaded", "set", "supervised"},
                                       with : Configs \cup {<<>>}]]
           /\ reload'[k].at = a /\ reload'[k].with = reload[k].with
           /\ \A j \in Callers \ {k} : reload'[j] = reload[j]
    BY DEF TypeOK, Goto

\* A caller that is done, or gives up, is idle and no longer lone.
LEMMA FinishEffect ==
    ASSUME TypeOK, NEW k \in Callers, Finish(k)
    PROVE  /\ reload' \in [Callers -> [at : {"idle", "begun", "loaded", "set", "supervised"},
                                       with : Configs \cup {<<>>}]]
           /\ reload'[k].at = "idle"
           /\ \A j \in Callers \ {k} : reload'[j] = reload[j]
           /\ lone' = lone \ {k}
    BY DEF TypeOK, Finish, Idle

\* The supervisor ends with the runners of the configuration, whichever of them
\* it kept, and those it kept are the ones that are listening or ready.
LEMMA SupReloadEffect ==
    ASSUME TypeOK, NEW k \in Callers, SupReload(k), reload[k].with \in Configs
    PROVE  LET c == reload[k].with IN
           /\ runners' = RunnersOf(c)
           /\ bound' \subseteq bound /\ ready' \subseteq ready
           /\ \A n \in bound' \cup ready' :
                 n \in DOMAIN runners /\ n \in DOMAIN runners' /\ runners'[n] = runners[n]
           /\ \A n \in bound : n \in DOMAIN runners' /\ runners'[n] = runners[n] => n \in bound'
<1> DEFINE c == reload[k].with
<1>1. /\ runners' = [n \in NamesOf(c) |->
                        IF n \in Kept(c) THEN runners[n] ELSE FindTunnel(c, n)]
      /\ bound' = bound \cap Kept(c) /\ ready' = ready \cap Kept(c)
    BY DEF SupReload
<1>2. bound \subseteq DOMAIN runners
    BY DEF TypeOK
<1> HIDE DEF c
<1>3. Kept(c) = {n \in DOMAIN runners \cap NamesOf(c) : runners[n] = FindTunnel(c, n)}
    BY DEF Kept
<1>4. runners' = RunnersOf(c)
    BY <1>1, <1>3 DEF RunnersOf
<1>5. DOMAIN runners' = NamesOf(c) /\ \A n \in NamesOf(c) : runners'[n] = FindTunnel(c, n)
    BY <1>4 DEF RunnersOf
<1>6. QED
    BY <1>1, <1>2, <1>3, <1>4, <1>5 DEF c

-----------------------------------------------------------------------------
(***************************************************************************)
(* The inductive invariant.                                                *)
(***************************************************************************)

\* A daemon that has loaded its configuration satisfies the invariant.
THEOREM InitIInv == Init => IInv
<1> SUFFICES ASSUME Init PROVE IInv
    OBVIOUS
<1>1. Boot \in Configs /\ Boot \in Files /\ MaxEdits \in Nat
    BY FilesAssumption, MaxEditsAssumption DEF Configs
<1>2. TypeOK
  <2>1. reload \in [Callers -> [at : {"idle", "begun", "loaded", "set", "supervised"},
                                 with : Configs \cup {<<>>}]]
    BY DEF Init, Idle
  <2>2. /\ request \in [Clients -> [at : {"idle", "routed", "admitted"},
                                  host : Hosts \cup {NoOne},
                                  route : [name : Names, port : Ports] \cup {NoOne}]]
        /\ undisturbed \subseteq Clients
    BY DEF Init, NoRequest
  <2>3. routes \in {RoutesOf(c) : c \in Configs}
    BY <1>1 DEF Init
  <2>4. /\ disk \in Files /\ edits \in 0..MaxEdits /\ cfg \in Configs
        /\ lone \subseteq Callers /\ signal \in {"none", "hup", "term"}
        /\ started \in BOOLEAN /\ mixed \in BOOLEAN /\ wanted \in BOOLEAN /\ done \in BOOLEAN
    <3>1. edits \in 0..MaxEdits
      BY <1>1 DEF Init
    <3>2. QED
      BY <1>1, <3>1, Zenon DEF Init
  <2>5. /\ runners \in {RunnersOf(c) : c \in Configs} \cup {<<>>}
        /\ ready \subseteq DOMAIN runners
        /\ bound \subseteq {n \in DOMAIN runners : listening[runners[n].local_port] = n}
        /\ listening \in [Ports -> Names \cup {NoOne}]
    BY DEF Init
  <2>6. QED
    BY <2>1, <2>2, <2>3, <2>4, <2>5 DEF TypeOK
<1>3. NotStarted /\ OneLone /\ ReloadsOwn /\ AgreeBetween
    BY <1>1 DEF Init, NotStarted, OneLone, ReloadsOwn, AgreeBetween, At, Idle
<1>4. ReadyHold /\ UndisturbedOwn
    BY DEF Init, ReadyHold, UndisturbedOwn
<1>5. QED
    BY <1>2, <1>3, <1>4 DEF IInv

\* The steps of the reloads, and what they share.
reloads == <<cfg, started, runners, routes, reload, lone, mixed>>

ReloadInv == NotStarted /\ OneLone /\ ReloadsOwn /\ AgreeBetween

\* A reload begins alone, or makes all that are under way overlap.
LEMMA BeginKeeps ==
    ASSUME IInv, NEW k \in Callers, Begin(k), UNCHANGED <<cfg, started, runners, routes>>
    PROVE  ReloadInv'
<1>1. /\ reload[k].at = "idle" /\ reload'[k].at = "begun"
      /\ \A j \in Callers \ {k} : reload'[j] = reload[j]
    BY GotoEffect DEF Begin, At, IInv
<1>2. CASE \A j \in Callers : At(j, "idle")
  <2>1. lone' = {k} /\ mixed' = mixed
    BY <1>2 DEF Begin
  <2>2. \A j \in Callers \ {k} : reload'[j].at = "idle"
    BY <1>1, <1>2 DEF At
  <2>3. NotStarted' /\ OneLone' /\ ReloadsOwn'
    BY <1>1, <2>1, <2>2 DEF IInv, NotStarted, OneLone, ReloadsOwn, At
  <2>4. AgreeBetween'
    BY <1>1, <1>2, <2>1 DEF IInv, AgreeBetween, Agree, At
  <2>5. QED
    BY <2>3, <2>4 DEF ReloadInv
<1>3. CASE ~\A j \in Callers : At(j, "idle")
  <2>1. lone' = {} /\ mixed' = TRUE
    BY <1>3 DEF Begin
  <2>2. NotStarted' /\ OneLone' /\ ReloadsOwn'
    BY <1>1, <2>1 DEF IInv, NotStarted, OneLone, ReloadsOwn, At
  <2>3. AgreeBetween'
    BY <2>1 DEF AgreeBetween
  <2>4. QED
    BY <2>2, <2>3 DEF ReloadInv
<1>4. QED
    BY <1>2, <1>3

\* A reload that fails before it has changed a runner leaves things as they are.
LEMMA FailKeeps ==
    ASSUME IInv, NEW k \in Callers, ~At(k, "supervised"), Fail(k),
           UNCHANGED <<cfg, started, runners, routes>>
    PROVE  ReloadInv'
<1>1. /\ reload'[k].at = "idle" /\ reload[k].at # "supervised"
      /\ \A j \in Callers \ {k} : reload'[j] = reload[j]
      /\ lone' = lone \ {k} /\ mixed' = mixed
    BY FinishEffect DEF Fail, At, IInv
<1>2. NotStarted'
    BY <1>1 DEF IInv, NotStarted, At
<1>3. OneLone'
  <2>1. \A j \in lone : ~At(j, "idle") /\ \A i \in Callers \ {j} : At(i, "idle")
    BY DEF IInv, OneLone
  <2>2. \A j \in lone' : ~At(j, "idle")' /\ \A i \in Callers \ {j} : At(i, "idle")'
    BY <1>1, <2>1 DEF At, IInv, TypeOK
  <2>3. ~mixed' => \A j \in Callers : At(j, "idle")' \/ j \in lone'
    BY <1>1 DEF IInv, OneLone, At
  <2>4. QED
    BY <2>2, <2>3 DEF OneLone
<1>4. ReloadsOwn'
    BY <1>1 DEF IInv, ReloadsOwn, At
<1>5. AgreeBetween'
    BY <1>1 DEF IInv, AgreeBetween, Agree, At
<1>6. QED
    BY <1>2, <1>3, <1>4, <1>5 DEF ReloadInv

\* Only reloads and the start change what they share.
LEMMA StepReloadInv == IInv /\ [Next]_vars => ReloadInv'
<1> SUFFICES ASSUME IInv, [Next]_vars PROVE ReloadInv'
    OBVIOUS
<1>1. ASSUME UNCHANGED reloads PROVE ReloadInv'
    BY <1>1 DEF reloads, IInv, ReloadInv, NotStarted, OneLone, ReloadsOwn, AgreeBetween, Agree, At
<1>2. CASE Start
  <2>1. /\ ~started /\ started' = TRUE /\ runners' = RunnersOf(Boot)
        /\ UNCHANGED <<cfg, routes, reload, lone, mixed>>
    BY <1>2 DEF Start
  <2>2. routes' = RoutesOf(Boot) /\ \A k \in Callers : ~At(k, "supervised")
    BY <2>1 DEF IInv, NotStarted
  <2>3. NotStarted' /\ OneLone' /\ ReloadsOwn'
    BY <2>1, <2>2 DEF IInv, NotStarted, OneLone, ReloadsOwn, At
  <2>4. AgreeBetween'
    BY <2>1, <2>2, FilesAssumption DEF AgreeBetween, Agree
  <2>5. QED
    BY <2>3, <2>4 DEF ReloadInv
<1>3. ASSUME NEW h \in Handlers, HandleReload(h) PROVE ReloadInv'
    BY <1>3, BeginKeeps DEF HandleReload, Callers
<1>4. CASE TakeHup
    BY <1>4, BeginKeeps DEF TakeHup, Callers
<1>5. ASSUME NEW k \in Callers, Load(k) PROVE ReloadInv'
  <2>1. CASE Validate(disk)
    <3>1. /\ reload[k].at = "begun"
          /\ reload' = [reload EXCEPT ![k] = [at |-> "loaded", with |-> disk]]
          /\ UNCHANGED <<cfg, started, runners, routes, lone, mixed>>
      BY <1>5, <2>1 DEF Load, At
    <3>2. /\ reload'[k].at = "loaded" /\ reload'[k].with = disk /\ disk \in Configs
          /\ \A j \in Callers \ {k} : reload'[j] = reload[j]
      BY <2>1, <3>1 DEF IInv, TypeOK, Configs
    <3>3. NotStarted' /\ OneLone' /\ ReloadsOwn'
      BY <3>1, <3>2 DEF IInv, NotStarted, OneLone, ReloadsOwn, At
    <3>4. AgreeBetween'
      BY <3>1, <3>2 DEF IInv, AgreeBetween, Agree, At
    <3>5. QED
      BY <3>3, <3>4 DEF ReloadInv
  <2>2. CASE ~Validate(disk)
    BY <1>5, <2>2, FailKeeps DEF Load, At
  <2>3. QED
    BY <2>1, <2>2
<1>6. ASSUME NEW k \in Callers, SetConfig(k) PROVE ReloadInv'
  <2>1. /\ reload[k].at = "loaded" /\ cfg' = reload[k].with
        /\ UNCHANGED <<started, runners, routes, lone, mixed>>
        /\ reload'[k].at = "set" /\ reload'[k].with = reload[k].with
        /\ \A j \in Callers \ {k} : reload'[j] = reload[j]
    BY <1>6, GotoEffect DEF SetConfig, At, IInv
  <2>2. NotStarted' /\ OneLone' /\ ReloadsOwn'
    BY <2>1 DEF IInv, NotStarted, OneLone, ReloadsOwn, At
  <2>3. AgreeBetween'
    BY <2>1 DEF IInv, AgreeBetween, Agree, At
  <2>4. QED
    BY <2>2, <2>3 DEF ReloadInv
<1>7. ASSUME NEW k \in Callers, SupReload(k) PROVE ReloadInv'
  <2>1. /\ reload[k].at = "set" /\ started
        /\ UNCHANGED <<cfg, started, routes, lone, mixed>>
        /\ reload'[k].at = "supervised" /\ reload'[k].with = reload[k].with
        /\ \A j \in Callers \ {k} : reload'[j] = reload[j]
    BY <1>7, GotoEffect DEF SupReload, At, IInv
  <2>2. runners' = RunnersOf(reload[k].with)
    BY <1>7, <2>1, SupReloadEffect DEF IInv, ReloadsOwn, At
  <2>3. NotStarted' /\ OneLone' /\ ReloadsOwn'
    BY <2>1, <2>2 DEF IInv, NotStarted, OneLone, ReloadsOwn, At
  <2>4. AgreeBetween'
    BY <2>1 DEF AgreeBetween, At
  <2>5. QED
    BY <2>3, <2>4 DEF ReloadInv
<1>8. ASSUME NEW k \in Callers, SupReloadPanics(k) PROVE ReloadInv'
    BY <1>8, FailKeeps DEF SupReloadPanics, At
<1>9. ASSUME NEW k \in Callers, UpdateRoutes(k) PROVE ReloadInv'
  <2>1. /\ reload[k].at = "supervised" /\ routes' = RoutesOf(reload[k].with)
        /\ UNCHANGED <<cfg, started, runners>>
        /\ mixed' = (mixed /\ k \notin lone) /\ lone' = lone \ {k}
        /\ reload'[k].at = "idle"
        /\ \A j \in Callers \ {k} : reload'[j] = reload[j]
    BY <1>9, FinishEffect DEF UpdateRoutes, Updated, At, IInv
  <2>2. started
    BY <2>1 DEF IInv, NotStarted, At
  <2>3. NotStarted' /\ OneLone' /\ ReloadsOwn'
    BY <2>1, <2>2 DEF IInv, NotStarted, OneLone, ReloadsOwn, At
  <2>4. AgreeBetween'
    <3>1. CASE k \in lone
      <4>1. runners = RunnersOf(reload[k].with) /\ reload[k].with \in Configs
        BY <2>1, <3>1 DEF IInv, ReloadsOwn, At
      <4>2. QED
        BY <2>1, <4>1 DEF AgreeBetween, Agree
    <3>2. CASE k \notin lone
      <4>1. mixed /\ mixed'
        BY <2>1, <3>2 DEF IInv, OneLone, At
      <4>2. QED
        BY <4>1 DEF AgreeBetween
    <3>3. QED
      BY <3>1, <3>2
  <2>5. QED
    BY <2>3, <2>4 DEF ReloadInv
<1>10. ASSUME \/ \E c \in Files : Edit(c)
              \/ Hup \/ Term \/ TakeTerm \/ Shutdown
              \/ \E n \in Names : Listens(n) \/ BecomesReady(n) \/ Noticed(n)
              \/ \E p \in Ports : StopsListening(p)
              \/ \E c \in Clients : CheckReady(c) \/ Forward(c) \/ \E h \in Hosts : Request(c, h)
              \/ UNCHANGED vars
       PROVE  UNCHANGED reloads
    BY <1>10 DEF reloads, vars, serving, Edit, Hup, Term, TakeTerm, Shutdown, Listens,
                 BecomesReady, Noticed, StopsListening, CheckReady, Forward, Request
<1>11. QED
    BY <1>1, <1>2, <1>3, <1>4, <1>5, <1>6, <1>7, <1>8, <1>9, <1>10 DEF Next, ReloadStep

\* The runners forward to ports that there are.
LEMMA RunnerPorts ==
    ASSUME TypeOK, NEW n \in DOMAIN runners
    PROVE  n \in Names /\ runners[n].local_port \in Ports
<1>1. PICK c \in Configs : runners = RunnersOf(c)
    BY DEF TypeOK
<1>2. QED
    BY <1>1, RunnerTunnels

\* The types of what reloads share, and of the file.
FileTypes ==
    /\ disk \in Files /\ edits \in 0..MaxEdits /\ wanted \in BOOLEAN
    /\ signal \in {"none", "hup", "term"} /\ done \in BOOLEAN

ReloadTypes ==
    /\ cfg \in Configs
    /\ started \in BOOLEAN
    /\ routes \in {RoutesOf(c) : c \in Configs}
    /\ reload \in [Callers -> [at : {"idle", "begun", "loaded", "set", "supervised"},
                               with : Configs \cup {<<>>}]]
    /\ lone \subseteq Callers /\ mixed \in BOOLEAN

RunnerTypes ==
    /\ runners \in {RunnersOf(c) : c \in Configs} \cup {<<>>}
    /\ ready \subseteq DOMAIN runners
    /\ bound \subseteq {n \in DOMAIN runners : listening[runners[n].local_port] = n}
    /\ listening \in [Ports -> Names \cup {NoOne}]

RequestTypes ==
    /\ request \in [Clients -> [at : {"idle", "routed", "admitted"},
                                host : Hosts \cup {NoOne},
                                route : [name : Names, port : Ports] \cup {NoOne}]]
    /\ undisturbed \subseteq Clients

LEMMA TypeParts == TypeOK <=> FileTypes /\ ReloadTypes /\ RunnerTypes /\ RequestTypes
    BY Zenon DEF TypeOK, FileTypes, ReloadTypes, RunnerTypes, RequestTypes

\* The file changes to one there can be, and the channel of the signals has room
\* for one.
LEMMA StepFileTypes == IInv /\ [Next]_vars => FileTypes'
<1> SUFFICES ASSUME IInv, [Next]_vars PROVE FileTypes'
    OBVIOUS
<1>1. FileTypes
    BY TypeParts DEF IInv
<1>2. ASSUME NEW c \in Files, Edit(c) PROVE FileTypes'
  <2>1. edits' \in 0..MaxEdits
    BY <1>1, <1>2, MaxEditsAssumption DEF Edit, FileTypes
  <2>2. QED
    BY <1>1, <1>2, <2>1, Zenon DEF Edit, FileTypes
<1>3. CASE Hup \/ Term
    BY <1>1, <1>3, Zenon DEF Hup, Term, Deliver, FileTypes, file
<1>4. CASE TakeTerm \/ Shutdown \/ TakeHup
    BY <1>1, <1>4, Zenon DEF TakeTerm, Shutdown, TakeHup, FileTypes, file
<1>5. CASE UNCHANGED <<file, signal, done>>
    BY <1>1, <1>5, Zenon DEF FileTypes, file
<1>6. QED
    BY <1>2, <1>3, <1>4, <1>5 DEF Next, vars, serving, Start, HandleReload, ReloadStep, Load,
       SetConfig, SupReload, SupReloadPanics, UpdateRoutes, Listens, BecomesReady, Noticed,
       StopsListening, CheckReady, Forward, Request

\* A reload puts configurations where there were some.
LEMMA StepReloadTypes == IInv /\ [Next]_vars => ReloadTypes'
<1> SUFFICES ASSUME IInv, [Next]_vars PROVE ReloadTypes'
    OBVIOUS
<1> DEFINE ReloadFunction ==
              reload' \in [Callers -> [at : {"idle", "begun", "loaded", "set", "supervised"},
                                       with : Configs \cup {<<>>}]]
<1>1. ReloadTypes /\ TypeOK
    BY TypeParts DEF IInv
<1>2. CASE Start
    BY <1>1, <1>2, Zenon DEF Start, ReloadTypes
<1>3. ASSUME NEW k \in Callers, Begin(k), UNCHANGED <<cfg, started, routes>> PROVE ReloadTypes'
  <2>1. ReloadFunction
    BY <1>1, <1>3, GotoEffect DEF Begin
  <2>2. lone' \subseteq Callers /\ mixed' \in BOOLEAN
    BY <1>1, <1>3 DEF Begin, ReloadTypes
  <2>3. QED
    BY <1>1, <1>3, <2>1, <2>2, Zenon DEF ReloadTypes
<1>4. ASSUME NEW k \in Callers, Fail(k), UNCHANGED <<cfg, started, routes>> PROVE ReloadTypes'
  <2>1. ReloadFunction /\ lone' = lone \ {k} /\ mixed' = mixed
    BY <1>1, <1>4, FinishEffect DEF Fail
  <2>2. lone' \subseteq Callers
    BY <1>1, <2>1 DEF ReloadTypes
  <2>3. QED
    BY <1>1, <1>4, <2>1, <2>2, Zenon DEF ReloadTypes
<1>5. ASSUME NEW k \in Callers, Load(k) PROVE ReloadTypes'
  <2>1. CASE Validate(disk)
    <3>1. disk \in Configs
      BY <1>1, <2>1 DEF TypeOK, Configs
    <3>2. ReloadFunction
      BY <1>1, <1>5, <2>1, <3>1 DEF Load, ReloadTypes
    <3>3. QED
      BY <1>1, <1>5, <2>1, <3>2, Zenon DEF Load, ReloadTypes
  <2>2. CASE ~Validate(disk)
    BY <1>4, <1>5, <2>2 DEF Load
  <2>3. QED
    BY <2>1, <2>2
<1>6. ASSUME NEW k \in Callers, SetConfig(k) PROVE ReloadTypes'
  <2>1. ReloadFunction
    BY <1>1, <1>6, GotoEffect DEF SetConfig
  <2>2. reload[k].with \in Configs
    BY <1>6 DEF SetConfig, IInv, ReloadsOwn, At
  <2>3. QED
    BY <1>1, <1>6, <2>1, <2>2, Zenon DEF SetConfig, ReloadTypes
<1>7. ASSUME NEW k \in Callers, SupReload(k) PROVE ReloadTypes'
  <2>1. ReloadFunction
    BY <1>1, <1>7, GotoEffect DEF SupReload
  <2>2. QED
    BY <1>1, <1>7, <2>1, Zenon DEF SupReload, ReloadTypes
<1>8. ASSUME NEW k \in Callers, UpdateRoutes(k) PROVE ReloadTypes'
  <2>1. ReloadFunction /\ lone' = lone \ {k}
    BY <1>1, <1>8, FinishEffect DEF UpdateRoutes
  <2>2. lone' \subseteq Callers
    BY <1>1, <2>1 DEF ReloadTypes
  <2>3. mixed' \in BOOLEAN
    BY <1>8, Zenon DEF UpdateRoutes
  <2>4. reload[k].with \in Configs
    BY <1>8 DEF UpdateRoutes, IInv, ReloadsOwn, At
  <2>5. routes' \in {RoutesOf(c) : c \in Configs}
    BY <1>8, <2>4 DEF UpdateRoutes, Updated
  <2>6. QED
    BY <1>1, <1>8, <2>1, <2>2, <2>3, <2>5, Zenon DEF UpdateRoutes, ReloadTypes
<1>9. CASE UNCHANGED <<cfg, started, routes, reload, lone, mixed>>
    BY <1>1, <1>9, Zenon DEF ReloadTypes
<1>10. ASSUME NEW k \in Callers, ReloadStep(k) PROVE ReloadTypes'
    BY <1>4, <1>5, <1>6, <1>7, <1>8, <1>10 DEF ReloadStep, SupReloadPanics
<1>11. CASE TakeHup \/ \E h \in Handlers : HandleReload(h)
    BY <1>3, <1>11 DEF TakeHup, HandleReload, Callers
<1>12. QED
    BY <1>2, <1>9, <1>10, <1>11 DEF Next, vars, serving, Edit, Hup, Term, TakeTerm, Shutdown,
       Listens, BecomesReady, Noticed, StopsListening, CheckReady, Forward, Request

\* Whose kubectl is bound listens on its runner's port, and a reload leaves that
\* so for the runners it keeps.
LEMMA StepRunnerTypes == IInv /\ [Next]_vars => RunnerTypes'
<1> SUFFICES ASSUME IInv, [Next]_vars PROVE RunnerTypes'
    OBVIOUS
<1>1. RunnerTypes /\ TypeOK
    BY TypeParts DEF IInv
<1>2. CASE Start
  <2>1. runners = <<>> /\ runners' = RunnersOf(Boot) /\ UNCHANGED <<bound, ready, listening>>
    BY <1>2 DEF Start, forwards, IInv, NotStarted
  <2>2. bound = {} /\ ready = {}
    BY <1>1, <2>1 DEF RunnerTypes
  <2>3. QED
    BY <1>1, <2>1, <2>2, FilesAssumption DEF RunnerTypes
<1>3. ASSUME NEW k \in Callers, SupReload(k) PROVE RunnerTypes'
  <2>1. reload[k].with \in Configs
    BY <1>3 DEF SupReload, IInv, ReloadsOwn, At
  <2>2. listening' = listening
    BY <1>3 DEF SupReload
  <2>3. /\ runners' = RunnersOf(reload[k].with)
        /\ bound' \subseteq bound /\ ready' \subseteq ready
        /\ \A n \in bound' \cup ready' :
              n \in DOMAIN runners /\ n \in DOMAIN runners' /\ runners'[n] = runners[n]
    BY <1>1, <1>3, <2>1, SupReloadEffect
  <2>4. bound' \subseteq {n \in DOMAIN runners' : listening'[runners'[n].local_port] = n}
    BY <1>1, <2>2, <2>3 DEF RunnerTypes
  <2>5. QED
    BY <1>1, <2>1, <2>2, <2>3, <2>4 DEF RunnerTypes
<1>4. ASSUME NEW n \in Names, Listens(n) PROVE RunnerTypes'
  <2> DEFINE p == runners[n].local_port
  <2>1. /\ n \in DOMAIN runners /\ listening[p] = NoOne
        /\ listening' = [listening EXCEPT ![p] = n] /\ bound' = bound \cup {n}
        /\ UNCHANGED <<runners, ready>>
    BY <1>4 DEF Listens
  <2>2. p \in Ports /\ n # NoOne
    BY <1>1, <2>1, RunnerPorts, TunnelsAssumption
  <2>3. \A m \in bound : runners[m].local_port # p
    BY <1>1, <2>1, RunnerPorts, TunnelsAssumption DEF RunnerTypes
  <2> HIDE DEF p
  <2>4. \A m \in bound : listening'[runners[m].local_port] = m
    BY <1>1, <2>1, <2>3, RunnerPorts DEF RunnerTypes
  <2>5. listening'[p] = n
    BY <1>1, <2>1, <2>2 DEF RunnerTypes
  <2>6. bound' \subseteq {m \in DOMAIN runners' : listening'[runners'[m].local_port] = m}
    BY <1>1, <2>1, <2>4, <2>5 DEF RunnerTypes, p
  <2>7. listening' \in [Ports -> Names \cup {NoOne}]
    BY <1>1, <2>1 DEF RunnerTypes
  <2>8. QED
    BY <1>1, <2>1, <2>6, <2>7 DEF RunnerTypes
<1>5. ASSUME NEW n \in Names, BecomesReady(n) \/ Noticed(n) PROVE RunnerTypes'
    BY <1>1, <1>5 DEF BecomesReady, Noticed, RunnerTypes
<1>6. ASSUME NEW p \in Ports, StopsListening(p) PROVE RunnerTypes'
  <2>1. /\ listening' = [listening EXCEPT ![p] = NoOne]
        /\ bound' = {n \in bound : runners[n].local_port # p}
        /\ UNCHANGED <<runners, ready>>
    BY <1>6 DEF StopsListening
  <2>2. \A m \in bound' : listening'[runners[m].local_port] = m
    BY <1>1, <2>1, RunnerPorts DEF RunnerTypes
  <2>3. QED
    BY <1>1, <2>1, <2>2 DEF RunnerTypes
<1>7. CASE UNCHANGED <<runners, forwards>>
    BY <1>1, <1>7 DEF RunnerTypes, forwards
<1>8. QED
    BY <1>2, <1>3, <1>4, <1>5, <1>6, <1>7 DEF Next, vars, serving, Edit, Hup, Term, TakeTerm,
       Shutdown, HandleReload, TakeHup, ReloadStep, Load, SetConfig, SupReloadPanics,
       UpdateRoutes, CheckReady, Forward, Request

\* No two runners have one port.
LEMMA PortsDistinct ==
    ASSUME TypeOK, NEW m \in DOMAIN runners, NEW n \in DOMAIN runners,
           runners[m].local_port = runners[n].local_port
    PROVE  m = n
<1>1. PICK c \in Configs : runners = RunnersOf(c)
    BY DEF TypeOK
<1>2. PICK i \in DOMAIN c : c[i].name = m /\ runners[m] = c[i]
    BY <1>1, RunnerTunnels
<1>3. PICK j \in DOMAIN c : c[j].name = n /\ runners[n] = c[j]
    BY <1>1, RunnerTunnels
<1>4. QED
    BY <1>2, <1>3, TunnelsDistinct

\* As long as its runner is there, nobody takes a port from a tunnel.
LEMMA PortStays ==
    ASSUME IInv, [Next]_vars, NEW n \in DOMAIN runners, HoldsPort(n),
           n \in DOMAIN runners', runners'[n] = runners[n]
    PROVE  HoldsPort(n)'
<1>1. TypeOK /\ RunnerTypes /\ n \in Names /\ runners[n].local_port \in Ports
    BY TypeParts, RunnerPorts DEF IInv
<1>2. ASSUME NEW k \in Callers, SupReload(k) PROVE HoldsPort(n)'
  <2>1. reload[k].with \in Configs
    BY <1>2 DEF SupReload, IInv, ReloadsOwn, At
  <2>2. listening' = listening
    BY <1>2 DEF SupReload
  <2>3. n \in bound => n \in bound'
    BY <1>1, <1>2, <2>1, SupReloadEffect
  <2>4. QED
    BY <2>2, <2>3 DEF HoldsPort
<1>3. ASSUME NEW m \in Names, Listens(m) PROVE HoldsPort(n)'
  <2>1. /\ m \in DOMAIN runners /\ bound' = bound \cup {m}
        /\ listening' = [listening EXCEPT ![runners[m].local_port] = m]
    BY <1>3 DEF Listens
  <2>2. CASE m = n
    BY <2>1, <2>2 DEF HoldsPort
  <2>3. CASE m # n
    <3>1. runners[m].local_port # runners[n].local_port
      BY <1>1, <2>1, <2>3, PortsDistinct
    <3>2. listening'[runners[n].local_port] = listening[runners[n].local_port]
      BY <1>1, <2>1, <3>1 DEF RunnerTypes
    <3>3. QED
      BY <2>1, <3>2 DEF HoldsPort
  <2>4. QED
    BY <2>2, <2>3
<1>4. ASSUME NEW p \in Ports, StopsListening(p) PROVE HoldsPort(n)'
  <2>1. /\ listening' = [listening EXCEPT ![p] = NoOne]
        /\ bound' = {m \in bound : runners[m].local_port # p}
    BY <1>4 DEF StopsListening
  <2>2. listening'[runners[n].local_port] =
           IF runners[n].local_port = p THEN NoOne ELSE listening[runners[n].local_port]
    BY <1>1, <2>1 DEF RunnerTypes
  <2>3. QED
    BY <2>1, <2>2 DEF HoldsPort
<1>5. CASE UNCHANGED <<bound, listening>>
    BY <1>5 DEF HoldsPort
<1>6. QED
    BY <1>2, <1>3, <1>4, <1>5 DEF Next, vars, serving, forwards, Edit, Start, Hup, Term, TakeTerm,
       Shutdown, HandleReload, TakeHup, ReloadStep, Load, SetConfig, SupReloadPanics,
       UpdateRoutes, BecomesReady, Noticed, CheckReady, Forward, Request

\* A tunnel becomes Running while its own kubectl listens, and stays so as long as
\* its runner is there.
LEMMA StepReadyHold == IInv /\ [Next]_vars => ReadyHold'
<1> SUFFICES ASSUME IInv, [Next]_vars, NEW n \in ready' PROVE HoldsPort(n)'
    BY DEF ReadyHold
<1>1. TypeOK /\ RunnerTypes
    BY TypeParts DEF IInv
<1>2. CASE n \in ready /\ n \in DOMAIN runners' /\ runners'[n] = runners[n]
  <2>1. n \in DOMAIN runners /\ HoldsPort(n)
    BY <1>1, <1>2 DEF IInv, RunnerTypes, ReadyHold
  <2>2. QED
    BY <1>2, <2>1, PortStays
<1>3. ASSUME NEW m \in Names, BecomesReady(m) PROVE HoldsPort(n)'
  <2>1. CASE n \in ready
    BY <1>1, <1>2, <1>3, <2>1 DEF BecomesReady, RunnerTypes
  <2>2. CASE n \notin ready
    BY <1>3, <2>2 DEF BecomesReady, HoldsPort
  <2>3. QED
    BY <2>1, <2>2
<1>4. CASE Start
    BY <1>1, <1>4 DEF Start, forwards, IInv, NotStarted, RunnerTypes
<1>5. ASSUME NEW k \in Callers, SupReload(k) PROVE HoldsPort(n)'
  <2>1. reload[k].with \in Configs
    BY <1>5 DEF SupReload, IInv, ReloadsOwn, At
  <2>2. n \in ready /\ n \in DOMAIN runners' /\ runners'[n] = runners[n]
    BY <1>1, <1>5, <2>1, SupReloadEffect
  <2>3. QED
    BY <1>2, <2>2
<1>6. CASE runners' = runners /\ ready' \subseteq ready
    BY <1>1, <1>2, <1>6 DEF RunnerTypes
<1>7. QED
    BY <1>3, <1>4, <1>5, <1>6 DEF Next, vars, serving, forwards, Edit, Hup, Term, TakeTerm,
       Shutdown, HandleReload, TakeHup, ReloadStep, Load, SetConfig, SupReloadPanics,
       UpdateRoutes, Listens, Noticed, StopsListening, CheckReady, Forward, Request

\* Requests come, are answered or are admitted.
LEMMA StepRequestTypes == IInv /\ [Next]_vars => RequestTypes'
<1> SUFFICES ASSUME IInv, [Next]_vars PROVE RequestTypes'
    OBVIOUS
<1>1. RequestTypes
    BY TypeParts DEF IInv
<1>2. ASSUME NEW c \in Clients, NEW h \in Hosts, Request(c, h) PROVE RequestTypes'
  <2>1. /\ toKey[h] \in DOMAIN routes
        /\ request' = [request EXCEPT ![c] =
              [at |-> "routed", host |-> h, route |-> routes[toKey[h]]]]
        /\ undisturbed' \subseteq undisturbed \cup {c}
    BY <1>2 DEF Request
  <2>2. PICK f \in Configs : routes = RoutesOf(f)
    BY DEF IInv, TypeOK
  <2>3. PICK i \in DOMAIN f : routes[toKey[h]] = RouteTo(f[i].name, f[i].local_port)
    BY <2>1, <2>2, RouteTunnels
  <2>4. routes[toKey[h]] \in [name : Names, port : Ports]
    BY <2>3, TunnelsAssumption DEF RouteTo
  <2>5. QED
    BY <1>1, <2>1, <2>4 DEF RequestTypes
<1>3. ASSUME NEW c \in Clients, CheckReady(c) \/ Forward(c) PROVE RequestTypes'
  <2>1. /\ \/ request' = [request EXCEPT ![c].at = "admitted"]
           \/ request' = [request EXCEPT ![c] = NoRequest]
        /\ undisturbed' \subseteq undisturbed
    BY <1>3 DEF CheckReady, Forward, Answered
  <2>2. QED
    BY <1>1, <2>1 DEF RequestTypes, NoRequest
<1>4. ASSUME NEW k \in Callers, SupReload(k) PROVE RequestTypes'
    BY <1>1, <1>4 DEF SupReload, RequestTypes
<1>5. CASE UNCHANGED requests
    BY <1>1, <1>5 DEF requests, RequestTypes
<1>6. QED
    BY <1>2, <1>3, <1>4, <1>5 DEF Next, vars, Edit, Start, Hup, Term, TakeTerm, Shutdown,
       HandleReload, TakeHup, ReloadStep, Load, SetConfig, SupReloadPanics, UpdateRoutes, Listens,
       BecomesReady, Noticed, StopsListening

\* A request that comes while the supervisor runs what the proxy routes to has the
\* route of a runner.
LEMMA RoutedRunner ==
    ASSUME Agree, NEW h \in Hosts, toKey[h] \in DOMAIN routes
    PROVE  LET n == routes[toKey[h]].name IN
           /\ n \in DOMAIN runners
           /\ routes[toKey[h]] = RouteTo(n, runners[n].local_port)
           /\ toKey[runners[n].hostname] = toKey[h]
<1>1. PICK c \in Configs : runners = RunnersOf(c) /\ routes = RoutesOf(c)
    BY DEF Agree
<1>2. PICK i \in DOMAIN c :
         /\ toKey[c[i].hostname] = toKey[h]
         /\ routes[toKey[h]] = RouteTo(c[i].name, c[i].local_port)
    BY <1>1, RouteTunnels
<1>3. c[i].name \in NamesOf(c) /\ FindTunnel(c, c[i].name) = c[i]
    BY TunnelsDistinct
<1>4. c[i].name \in DOMAIN runners /\ runners[c[i].name] = c[i]
    BY <1>1, <1>3, RunnerTunnels
<1>5. routes[toKey[h]].name = c[i].name
    BY <1>2 DEF RouteTo
<1>6. QED
    BY <1>2, <1>4, <1>5

\* An undisturbed request keeps what it has, as its runner is kept.
LEMMA OwnStays ==
    ASSUME IInv, [Next]_vars, NEW c \in undisturbed, request'[c] = request[c],
           request[c].route.name \in DOMAIN runners',
           runners'[request[c].route.name] = runners[request[c].route.name]
    PROVE  OwnRoute(c)'
<1> DEFINE n == request[c].route.name
<1>1. /\ request[c].at # "idle" /\ n \in DOMAIN runners
      /\ request[c].route = RouteTo(n, runners[n].local_port)
      /\ toKey[runners[n].hostname] = toKey[request[c].host]
      /\ request[c].at = "admitted" => HoldsPort(n)
    BY DEF IInv, UndisturbedOwn, OwnRoute
<1>2. request[c].at = "admitted" => HoldsPort(n)'
    BY <1>1, PortStays
<1>3. HoldsPort(n)' <=> n \in bound' \/ listening'[runners'[n].local_port] = NoOne
    BY DEF HoldsPort
<1>4. QED
    BY <1>1, <1>2, <1>3 DEF OwnRoute, HoldsPort

\* A request that is undisturbed after a step was so before, or has just come.
LEMMA StepUndisturbedOwn == IInv /\ [Next]_vars => UndisturbedOwn'
<1> SUFFICES ASSUME IInv, [Next]_vars, NEW c \in undisturbed' PROVE OwnRoute(c)'
    BY DEF UndisturbedOwn
<1>1. RequestTypes /\ TypeOK /\ c \in Clients
    BY TypeParts, StepRequestTypes DEF IInv, RequestTypes
<1>2. ASSUME c \in undisturbed, request'[c] = request[c], runners' = runners
      PROVE  OwnRoute(c)'
  <2>1. request[c].route.name \in DOMAIN runners
    BY <1>2 DEF IInv, UndisturbedOwn, OwnRoute
  <2>2. QED
    BY <1>2, <2>1, OwnStays
<1>3. ASSUME NEW d \in Clients, NEW h \in Hosts, Request(d, h) PROVE OwnRoute(c)'
  <2>1. /\ request[d].at = "idle" /\ toKey[h] \in DOMAIN routes
        /\ request' = [request EXCEPT ![d] =
              [at |-> "routed", host |-> h, route |-> routes[toKey[h]]]]
        /\ undisturbed' = IF Consistent THEN undisturbed \cup {d} ELSE undisturbed
        /\ UNCHANGED <<runners, routes, bound, listening>>
    BY <1>3 DEF Request, serving, forwards
  <2>2. CASE c # d
    BY <1>1, <1>2, <2>1, <2>2 DEF RequestTypes
  <2>3. CASE c = d
    <3>1. d \notin undisturbed
      BY <2>1 DEF IInv, UndisturbedOwn, OwnRoute
    <3>2. Agree
      BY <2>1, <2>3, <3>1 DEF Consistent, IInv, AgreeBetween
    <3> DEFINE n == routes[toKey[h]].name
    <3>3. /\ n \in DOMAIN runners
          /\ routes[toKey[h]] = RouteTo(n, runners[n].local_port)
          /\ toKey[runners[n].hostname] = toKey[h]
      BY <2>1, <3>2, RoutedRunner
    <3>4. request'[c] = [at |-> "routed", host |-> h, route |-> routes[toKey[h]]]
      BY <1>1, <2>1, <2>3 DEF RequestTypes
    <3>5. QED
      BY <2>1, <3>3, <3>4 DEF OwnRoute
  <2>4. QED
    BY <2>2, <2>3
<1>4. ASSUME NEW d \in Clients, CheckReady(d) PROVE OwnRoute(c)'
  <2>1. UNCHANGED <<runners, bound, listening>>
    BY <1>4 DEF CheckReady, serving, forwards
  <2>2. CASE ~IsReady(request[d].route.name)
    BY <1>1, <1>2, <1>4, <2>1, <2>2 DEF CheckReady, Answered, RequestTypes
  <2>3. CASE IsReady(request[d].route.name)
    <3>1. request' = [request EXCEPT ![d].at = "admitted"] /\ undisturbed' = undisturbed
      BY <1>4, <2>3 DEF CheckReady
    <3>2. CASE c # d
      BY <1>1, <1>2, <2>1, <3>1, <3>2 DEF RequestTypes
    <3>3. CASE c = d
      <4> DEFINE n == request[c].route.name
      <4>1. /\ request'[c].at = "admitted"
            /\ request'[c].host = request[c].host /\ request'[c].route = request[c].route
        BY <1>1, <3>1, <3>3 DEF RequestTypes
      <4>2. HoldsPort(n)
        BY <2>3, <3>3 DEF IsReady, IInv, ReadyHold
      <4>3. OwnRoute(c)
        BY <3>1 DEF IInv, UndisturbedOwn
      <4>4. QED
        BY <2>1, <4>1, <4>2, <4>3 DEF OwnRoute, HoldsPort
    <3>4. QED
      BY <3>2, <3>3
  <2>4. QED
    BY <2>2, <2>3
<1>5. ASSUME NEW d \in Clients, Forward(d) PROVE OwnRoute(c)'
    BY <1>1, <1>2, <1>5 DEF Forward, Answered, serving, RequestTypes
<1>6. ASSUME NEW k \in Callers, SupReload(k) PROVE OwnRoute(c)'
  <2>1. /\ c \in undisturbed /\ request[c].route.name \in Kept(reload[k].with)
        /\ request' = request
    BY <1>6 DEF SupReload
  <2>2. runners' = RunnersOf(reload[k].with) /\ reload[k].with \in Configs
    BY <1>1, <1>6, SupReloadEffect DEF SupReload, IInv, ReloadsOwn, At
  <2>3. /\ request[c].route.name \in DOMAIN runners'
        /\ runners'[request[c].route.name] = runners[request[c].route.name]
    BY <2>1, <2>2 DEF Kept, RunnersOf
  <2>4. QED
    BY <2>1, <2>3, OwnStays
<1>7. CASE Start
  <2>1. DOMAIN runners = {} /\ UNCHANGED requests
    BY <1>7 DEF Start, IInv, NotStarted
  <2>2. QED
    BY <2>1 DEF requests, IInv, UndisturbedOwn, OwnRoute
<1>8. CASE UNCHANGED <<runners, requests>>
    BY <1>2, <1>8 DEF requests
<1>9. QED
    BY <1>3, <1>4, <1>5, <1>6, <1>7, <1>8 DEF Next, vars, Edit, Hup, Term, TakeTerm, Shutdown,
       HandleReload, TakeHup, ReloadStep, Load, SetConfig, SupReloadPanics, UpdateRoutes, Listens,
       BecomesReady, Noticed, StopsListening

\* No step of the daemon or of the world around it breaks the invariant.
THEOREM StepIInv == IInv /\ [Next]_vars => IInv'
<1> SUFFICES ASSUME IInv, [Next]_vars PROVE IInv'
    OBVIOUS
<1>1. TypeOK'
  <2>1. (TypeOK <=> FileTypes /\ ReloadTypes /\ RunnerTypes /\ RequestTypes)'
    BY TypeParts, PTL
  <2>2. QED
    BY <2>1, StepFileTypes, StepReloadTypes, StepRunnerTypes, StepRequestTypes
<1>2. QED
    BY <1>1, StepReloadInv, StepReadyHold, StepUndisturbedOwn DEF IInv, ReloadInv

-----------------------------------------------------------------------------
(***************************************************************************)
(* Safety, for every value of the constants.                               *)
(***************************************************************************)

\* The inductive invariant holds in every reachable state.
THEOREM Invariance == Spec => []IInv
    BY InitIInv, StepIInv, PTL DEF Spec

\* Unless reloads have overlapped since the last lone one, what the proxy routes
\* to is what the supervisor runs, if no two hosts of a file differ in their case
\* alone.
THEOREM Settled == KeysDiffer => (Spec => []SettledRoutes)
<1> SUFFICES ASSUME KeysDiffer PROVE Spec => []SettledRoutes
    OBVIOUS
<1>1. IInv => SettledRoutes
  <2> SUFFICES ASSUME IInv, ~mixed, started, \A k \in Callers : At(k, "idle")
               PROVE  /\ DOMAIN routes = {toKey[runners[n].hostname] : n \in DOMAIN runners}
                      /\ \A n \in DOMAIN runners :
                            routes[toKey[runners[n].hostname]] = RouteTo(n, runners[n].local_port)
    BY DEF SettledRoutes, RoutesFollowRunners
  <2>1. Agree
    BY DEF IInv, AgreeBetween, At
  <2>2. QED
    BY <2>1, AgreeFollows DEF Agree
<1>2. QED
    BY <1>1, Invariance, PTL

\* A reload that no other overlaps ends with one configuration in the daemon, the
\* supervisor and the proxy.
THEOREM LoneReloads == Spec => LoneReloadAgrees
<1> DEFINE Agreed ==
              \A k \in lone : At(k, "supervised") /\ reload'[k].at = "idle" =>
                  /\ cfg' = reload[k].with
                  /\ runners' = RunnersOf(reload[k].with)
                  /\ routes' = RoutesOf(reload[k].with)
<1>1. IInv /\ [Next]_vars => [Agreed]_vars
  <2> SUFFICES ASSUME IInv, Next, NEW k \in lone, At(k, "supervised"), reload'[k].at = "idle"
               PROVE  /\ cfg' = reload[k].with
                      /\ runners' = RunnersOf(reload[k].with)
                      /\ routes' = RoutesOf(reload[k].with)
    OBVIOUS
  <2>1. /\ k \in Callers /\ cfg = reload[k].with /\ runners = RunnersOf(reload[k].with)
        /\ \A j \in Callers \ {k} : reload[j].at = "idle"
        /\ reload[k].at = "supervised"
    BY DEF IInv, TypeOK, OneLone, ReloadsOwn, At
  <2>2. UpdateRoutes(k)
    <3>1. ASSUME NEW j \in Callers, Begin(j) PROVE FALSE
      BY <2>1, <3>1, GotoEffect DEF Begin, At, IInv
    <3>2. ASSUME NEW j \in Callers, ReloadStep(j) PROVE UpdateRoutes(k)
      BY <2>1, <3>2 DEF ReloadStep, Load, SetConfig, SupReload, SupReloadPanics, UpdateRoutes, At
    <3>3. CASE UNCHANGED reload
      BY <2>1, <3>3
    <3>4. QED
      BY <3>1, <3>2, <3>3 DEF Next, Callers, serving, Edit, Start, Hup, Term, TakeTerm, Shutdown,
         HandleReload, TakeHup, Listens, BecomesReady, Noticed, StopsListening, CheckReady,
         Forward, Request
  <2>3. QED
    BY <2>1, <2>2 DEF UpdateRoutes, Updated
<1>2. QED
    BY <1>1, Invariance, PTL DEF Spec, LoneReloadAgrees

\* A tunnel that a reload does not change loses its kubectl to nobody.
THEOREM KeepsUnchanged == Spec => ReloadKeepsUnchanged
<1> DEFINE Undisturbed ==
              \A n \in bound :
                  n \in DOMAIN runners' /\ runners'[n] = runners[n] =>
                      n \in bound' \/ listening'[runners[n].local_port] = NoOne
<1>1. IInv /\ [Next]_vars => [Undisturbed]_vars
  <2> SUFFICES ASSUME IInv, Next, NEW n \in bound,
                      n \in DOMAIN runners', runners'[n] = runners[n], n \notin bound'
               PROVE  listening'[runners[n].local_port] = NoOne
    OBVIOUS
  <2>1. ASSUME NEW k \in Callers, SupReload(k) PROVE FALSE
    <3>1. reload[k].with \in Configs
      BY <2>1 DEF SupReload, IInv, ReloadsOwn, At
    <3>2. QED
      BY <2>1, <3>1, SupReloadEffect DEF IInv
  <2>2. ASSUME NEW p \in Ports, StopsListening(p)
        PROVE  listening'[runners[n].local_port] = NoOne
    BY <2>2 DEF StopsListening, IInv, TypeOK
  <2>3. CASE bound \subseteq bound'
    BY <2>3
  <2>4. QED
    BY <2>1, <2>2, <2>3 DEF Next, serving, forwards, Edit, Start, Hup, Term, TakeTerm, Shutdown,
       HandleReload, TakeHup, ReloadStep, Load, SetConfig, SupReloadPanics, UpdateRoutes, Listens,
       BecomesReady, Noticed, CheckReady, Forward, Request
<1>2. QED
    BY <1>1, Invariance, PTL DEF Spec, ReloadKeepsUnchanged

\* A request whose tunnel the supervisor ran as the proxy routed to it, and that no
\* reload has changed since, is answered by that tunnel's own kubectl or with 502,
\* whatever ports the reloads have exchanged.
THEOREM OwnTunnelAnswers == Spec => ForwardedToOwnTunnel
<1> DEFINE Own ==
              \A c \in undisturbed :
                  request[c].at = "admitted" /\ request'[c] = NoRequest => AnsweredByOwn(c)
<1>1. IInv => [Own]_vars
  <2> SUFFICES ASSUME IInv, NEW c \in undisturbed, request[c].at = "admitted"
               PROVE  AnsweredByOwn(c)
    OBVIOUS
  <2> DEFINE n == request[c].route.name
  <2>1. /\ n \in DOMAIN runners /\ toKey[runners[n].hostname] = toKey[request[c].host]
        /\ request[c].route = RouteTo(n, runners[n].local_port)
        /\ HoldsPort(n)
    BY DEF IInv, UndisturbedOwn, OwnRoute
  <2>2. AnswerOf(c) = listening[runners[n].local_port]
    BY <2>1 DEF AnswerOf, RouteTo
  <2>3. n \in bound => listening[runners[n].local_port] = n
    BY DEF IInv, TypeOK
  <2>4. QED
    BY <2>1, <2>2, <2>3 DEF HoldsPort, AnsweredByOwn
<1>2. QED
    BY <1>1, Invariance, PTL DEF Spec, ForwardedToOwnTunnel
=============================================================================
