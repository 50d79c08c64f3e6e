-------------------------------- MODULE Daemon --------------------------------
(***************************************************************************)
(* cmd/kubetunneld/main.go with internal/proxy/proxy.go and the files of    *)
(* internal/config: how the daemon reloads its configuration, and what a   *)
(* browser's request meets meanwhile.                                      *)
(*                                                                         *)
(* daemon.Reload holds no lock of its own: it reads the file, replaces     *)
(* d.cfg, has the supervisor reload and then the proxy update its routes,  *)
(* each a step. It is called by the goroutine of the signals and by every  *)
(* /reload handler of the control server, which serves before the          *)
(* supervisor was started. ServeHTTP looks up the route, asks whether the  *)
(* tunnel is ready and forwards to its port, again each a step.            *)
(*                                                                         *)
(* The runners are Supervisor's, reduced to what a request can tell: who   *)
(* listens on a port and which tunnels are Running. The model ends where   *)
(* the context of main is done; Supervisor has what follows.               *)
(***************************************************************************)
EXTENDS Config, FiniteSets, FiniteSetsExt

CONSTANTS
    Names, Ports,
    Hosts,          \* host names as a browser sends them
    toKey,          \* the lower case of a host name
    Boot,           \* the file when the daemon starts
    Handlers,       \* concurrent calls of /reload
    SignalLoop,     \* the goroutine of the signals
    Clients,        \* concurrent requests to the proxy
    NoOne,
    MaxEdits        \* bound: changes of the file

ASSUME FilesAssumption == Boot \in Configs /\ Hosts \subseteq DOMAIN toKey
ASSUME TunnelsAssumption ==
    /\ \A c \in Configs : \A i \in DOMAIN c : c[i].name \in Names /\ c[i].local_port \in Ports
    /\ NoOne \notin Names
ASSUME MaxEditsAssumption == MaxEdits \in Nat

Callers == Handlers \cup {SignalLoop}

VARIABLES
    disk,       \* the configuration file
    edits,      \* number of changes of it
    cfg,        \* daemon.cfg
    started,    \* the supervisor has its context
    runners,    \* the tunnels of the supervisor's runners, by name
    bound,      \* the runners whose own kubectl listens
    ready,      \* the runners in state Running
    listening,  \* whose kubectl listens on a port, also a retired runner's
    routes,     \* proxy.backends: host to tunnel name and port
    reload,     \* per caller: where it is in Reload, with which configuration
    lone,       \* history: the callers no other Reload has overlapped
    mixed,      \* history: reloads have overlapped since the last lone one
    undisturbed,\* history: the requests whose tunnel was as routed and still is
    request,    \* per client: where its request is in ServeHTTP
    signal,     \* what is buffered in sigCh
    wanted,     \* history: a SIGHUP was sent since the file last changed
    done        \* the context of main is done

file == <<disk, edits, wanted>>
forwards == <<bound, ready, listening>>
requests == <<request, undisturbed>>
vars == <<file, cfg, started, runners, forwards, routes, reload, lone, mixed, requests, signal, done>>

RouteTo(n, p) == [name |-> n, port |-> p]
Idle == [at |-> "idle", with |-> <<>>]
NoRequest == [at |-> "idle", host |-> NoOne, route |-> NoOne]

\* The routing map of a configuration: of tunnels with one key the last stays.
RoutesOf(c) ==
    [h \in {toKey[c[i].hostname] : i \in DOMAIN c} |->
        LET t == c[Max({i \in DOMAIN c : toKey[c[i].hostname] = h})]
        IN  RouteTo(t.name, t.local_port)]

\* The runners the supervisor makes of a configuration, by name.
RunnersOf(c) == [n \in NamesOf(c) |-> FindTunnel(c, n)]

TypeOK ==
    /\ disk \in Files
    /\ edits \in 0..MaxEdits
    /\ cfg \in Configs
    /\ started \in BOOLEAN
    /\ runners \in {RunnersOf(c) : c \in Configs} \cup {<<>>}
    /\ ready \subseteq DOMAIN runners
    /\ bound \subseteq {n \in DOMAIN runners : listening[runners[n].local_port] = n}
    /\ listening \in [Ports -> Names \cup {NoOne}]
    /\ routes \in {RoutesOf(c) : c \in Configs}
    /\ reload \in [Callers -> [at : {"idle", "begun", "loaded", "set", "supervised"},
                               with : Configs \cup {<<>>}]]
    /\ lone \subseteq Callers /\ mixed \in BOOLEAN
    /\ request \in [Clients -> [at : {"idle", "routed", "admitted"},
                                host : Hosts \cup {NoOne},
                                route : [name : Names, port : Ports] \cup {NoOne}]]
    /\ undisturbed \subseteq Clients
    /\ signal \in {"none", "hup", "term"}
    /\ wanted \in BOOLEAN /\ done \in BOOLEAN

\* main up to ctrl.Start.
Init ==
    /\ disk = Boot /\ edits = 0 /\ wanted = FALSE
    /\ cfg = Boot
    /\ started = FALSE
    /\ runners = <<>>
    /\ bound = {} /\ ready = {}
    /\ listening = [p \in Ports |-> NoOne]
    /\ routes = RoutesOf(Boot)
    /\ reload = [k \in Callers |-> Idle]
    /\ lone = {}
    /\ mixed = FALSE
    /\ request = [c \in Clients |-> NoRequest]
    /\ undisturbed = {}
    /\ signal = "none"
    /\ done = FALSE

-----------------------------------------------------------------------------
(***************************************************************************)
(* The world outside, and main.                                            *)
(***************************************************************************)

Edit(c) ==
    /\ edits < MaxEdits
    /\ disk # c
    /\ disk' = c
    /\ edits' = edits + 1
    /\ wanted' = FALSE
    /\ UNCHANGED <<cfg, started, runners, forwards, routes, reload, lone, mixed, requests, signal, done>>

\* sup.Start, with the configuration main has loaded.
Start ==
    /\ ~started
    /\ started' = TRUE
    /\ runners' = RunnersOf(Boot)
    /\ UNCHANGED <<file, cfg, forwards, routes, reload, lone, mixed, requests, signal, done>>

\* Wrong: a signal is only taken by a goroutine that waits for one.
DeliverUnbuffered(s) ==
    signal' = IF signal = "none" /\ reload[SignalLoop].at = "idle" THEN s ELSE signal

\* signal.Notify drops what does not fit the channel of one.
Deliver(s) == signal' = IF signal = "none" THEN s ELSE signal

Hup ==
    /\ started
    /\ Deliver("hup")
    /\ wanted' = TRUE
    /\ UNCHANGED <<disk, edits, cfg, started, runners, forwards, routes, reload, lone, mixed, requests, done>>

Term ==
    /\ started
    /\ Deliver("term")
    /\ UNCHANGED <<file, cfg, started, runners, forwards, routes, reload, lone, mixed, requests, done>>

\* The goroutine of the signals takes SIGTERM, or the control API's shutdown.
TakeTerm ==
    /\ signal = "term" /\ reload[SignalLoop].at = "idle"
    /\ done' = TRUE
    /\ signal' = "none"
    /\ UNCHANGED <<file, cfg, started, runners, forwards, routes, reload, lone, mixed, requests>>

Shutdown ==
    /\ started
    /\ done' = TRUE
    /\ UNCHANGED <<file, cfg, started, runners, forwards, routes, reload, lone, mixed, requests, signal>>

-----------------------------------------------------------------------------
(***************************************************************************)
(* daemon.Reload.                                                          *)
(***************************************************************************)

At(k, at) == reload[k].at = at
Goto(k, at) == reload' = [reload EXCEPT ![k].at = at]
Finish(k) == reload' = [reload EXCEPT ![k] = Idle] /\ lone' = lone \ {k}
Fail(k) == Finish(k) /\ UNCHANGED mixed

Begin(k) ==
    /\ At(k, "idle")
    /\ Goto(k, "begun")
    /\ IF \A j \in Callers : At(j, "idle")
          THEN lone' = {k} /\ UNCHANGED mixed
          ELSE lone' = {} /\ mixed' = TRUE

HandleReload(h) ==
    /\ Begin(h)
    /\ UNCHANGED <<file, cfg, started, runners, forwards, routes, requests, signal, done>>

TakeHup ==
    /\ signal = "hup"
    /\ Begin(SignalLoop)
    /\ signal' = "none"
    /\ UNCHANGED <<file, cfg, started, runners, forwards, routes, requests, done>>

\* A file that does not load ends the reload.
Load(k) ==
    /\ At(k, "begun")
    /\ IF Validate(disk)
          THEN reload' = [reload EXCEPT ![k] = [at |-> "loaded", with |-> disk]]
               /\ UNCHANGED <<lone, mixed>>
          ELSE Fail(k)
    /\ UNCHANGED <<file, cfg, started, runners, forwards, routes, requests, signal, done>>

SetConfig(k) ==
    /\ At(k, "loaded")
    /\ cfg' = reload[k].with
    /\ Goto(k, "set")
    /\ UNCHANGED <<file, started, runners, forwards, routes, lone, mixed, requests, signal, done>>

\* Wrong: a name that stays keeps its runner; no name does.
KeptByName(c) == DOMAIN runners \cap NamesOf(c)
KeptNone(c) == {}

\* The runners a reload leaves alone.
Kept(c) == {n \in DOMAIN runners \cap NamesOf(c) : runners[n] = FindTunnel(c, n)}

\* sup.Reload: the other runners are retired, their kubectls still listen.
SupReload(k) ==
    LET c == reload[k].with IN
    /\ At(k, "set")
    /\ started
    /\ runners' = [n \in NamesOf(c) |-> IF n \in Kept(c) THEN runners[n] ELSE FindTunnel(c, n)]
    /\ bound' = bound \cap Kept(c)
    /\ ready' = ready \cap Kept(c)
    /\ Goto(k, "supervised")
    /\ undisturbed' = {d \in undisturbed : request[d].route.name \in Kept(c)}
    /\ UNCHANGED <<file, cfg, started, listening, routes, lone, mixed, request, signal, done>>

\* The supervisor has no context yet: it panics, and net/http recovers that.
SupReloadPanics(k) ==
    /\ At(k, "set")
    /\ ~started
    /\ Fail(k)
    /\ UNCHANGED <<file, cfg, started, runners, forwards, routes, requests, signal, done>>

\* Wrong: the hosts that had a route keep it.
UpdatedMerged(c) == [h \in DOMAIN routes \cup DOMAIN RoutesOf(c) |->
    IF h \in DOMAIN routes THEN routes[h] ELSE RoutesOf(c)[h]]

Updated(c) == RoutesOf(c)

UpdateRoutes(k) ==
    /\ At(k, "supervised")
    /\ routes' = Updated(reload[k].with)
    /\ Finish(k)
    /\ mixed' = (mixed /\ k \notin lone)
    /\ UNCHANGED <<file, cfg, started, runners, forwards, requests, signal, done>>

ReloadStep(k) ==
    Load(k) \/ SetConfig(k) \/ SupReload(k) \/ SupReloadPanics(k) \/ UpdateRoutes(k)

-----------------------------------------------------------------------------
(***************************************************************************)
(* The runners, as far as a request can tell.                              *)
(***************************************************************************)

\* A runner's kubectl begins to listen where nobody does. Not that of a retired
\* runner: the context it would be started with, or has been, is done.
Listens(n) ==
    LET p == runners[n].local_port IN
    /\ n \in DOMAIN runners \ bound
    /\ listening[p] = NoOne
    /\ listening' = [listening EXCEPT ![p] = n]
    /\ bound' = bound \cup {n}
    /\ UNCHANGED <<file, cfg, started, runners, ready, routes, reload, lone, mixed, requests, signal, done>>

BecomesReady(n) ==
    /\ n \in bound \ ready
    /\ ready' = ready \cup {n}
    /\ UNCHANGED <<file, cfg, started, runners, bound, listening, routes, reload, lone, mixed, requests, signal, done>>

\* A kubectl goes away, that of a retired runner or one in use.
StopsListening(p) ==
    /\ listening[p] # NoOne
    /\ listening' = [listening EXCEPT ![p] = NoOne]
    /\ bound' = {n \in bound : runners[n].local_port # p}
    /\ UNCHANGED <<file, cfg, started, runners, ready, routes, reload, lone, mixed, requests, signal, done>>

\* The runner collects the exit.
Noticed(n) ==
    /\ n \in ready \ bound
    /\ ready' = ready \ {n}
    /\ UNCHANGED <<file, cfg, started, runners, bound, listening, routes, reload, lone, mixed, requests, signal, done>>

-----------------------------------------------------------------------------
(***************************************************************************)
(* Server.ServeHTTP.                                                       *)
(***************************************************************************)

serving == <<file, cfg, started, runners, forwards, routes, reload, lone, mixed, signal, done>>

Answered(c) ==
    /\ request' = [request EXCEPT ![c] = NoRequest]
    /\ undisturbed' = undisturbed \ {c}

\* The supervisor runs what the proxy routes to, now.
Consistent == started /\ ~mixed /\ \A k \in Callers : ~At(k, "supervised")

\* The lookup under the read lock; the backend found is kept. A host without one
\* has its 404 at once.
Request(c, h) ==
    /\ request[c].at = "idle"
    /\ toKey[h] \in DOMAIN routes
    /\ request' = [request EXCEPT ![c] =
          [at |-> "routed", host |-> h, route |-> routes[toKey[h]]]]
    /\ undisturbed' = IF Consistent THEN undisturbed \cup {c} ELSE undisturbed
    /\ UNCHANGED serving

\* Wrong: a tunnel that is registered will do.
IsRegistered(n) == n \in DOMAIN runners

IsReady(n) == n \in ready

\* A tunnel that is not ready is answered for with 503.
CheckReady(c) ==
    /\ request[c].at = "routed"
    /\ IF IsReady(request[c].route.name)
          THEN request' = [request EXCEPT ![c].at = "admitted"] /\ UNCHANGED undisturbed
          ELSE Answered(c)
    /\ UNCHANGED serving

\* The reverse proxy dials the route's port: whoever listens there answers, or
\* with 502 the proxy itself.
AnswerOf(c) == listening[request[c].route.port]

Forward(c) ==
    /\ request[c].at = "admitted"
    /\ Answered(c)
    /\ UNCHANGED serving

Next ==
    /\ ~done
    /\ \/ \E c \in Files : Edit(c)
       \/ Start \/ Hup \/ Term \/ TakeTerm \/ Shutdown \/ TakeHup
       \/ \E h \in Handlers : HandleReload(h)
       \/ \E k \in Callers : ReloadStep(k)
       \/ \E n \in Names : Listens(n) \/ BecomesReady(n) \/ Noticed(n)
       \/ \E p \in Ports : StopsListening(p)
       \/ \E c \in Clients : CheckReady(c) \/ Forward(c) \/ \E h \in Hosts : Request(c, h)

Spec == Init /\ [][Next]_vars

\* The goroutine of the signals runs; nothing else has to happen.
FairSpec == Spec /\ WF_vars(~done /\ (TakeHup \/ TakeTerm \/ ReloadStep(SignalLoop)))

-----------------------------------------------------------------------------
(***************************************************************************)
(* Properties.                                                             *)
(***************************************************************************)

\* Whatever earlier reloads left behind (those that overlapped, failed or
\* panicked half done), a reload that no other overlaps leaves the daemon, the
\* supervisor and the proxy on the one configuration it loaded.
LoneReloadAgrees ==
    [][\A k \in lone : At(k, "supervised") /\ reload'[k].at = "idle" =>
          /\ cfg' = reload[k].with
          /\ runners' = RunnersOf(reload[k].with)
          /\ routes' = RoutesOf(reload[k].with)]_vars

\* proxy.go:35: "It is safe to Update() the backend map at runtime (hot reload)".
\* When no reload is under way, every host is routed to the port its tunnel's
\* runner forwards, and nothing else is routed. Reloads that overlap break it.
RoutesFollowRunners ==
    started /\ (\A k \in Callers : At(k, "idle")) =>
        LET keyOf(n) == toKey[runners[n].hostname] IN
        /\ DOMAIN routes = {keyOf(n) : n \in DOMAIN runners}
        /\ \A n \in DOMAIN runners : routes[keyOf(n)] = RouteTo(n, runners[n].local_port)

\* The same from the end of a reload that no other overlapped to the next overlap,
\* whatever earlier ones have left behind.
SettledRoutes == ~mixed => RoutesFollowRunners

\* README.md:106: a reload keeps a tunnel "without dropping unrelated
\* connections": a tunnel it does not change loses its kubectl to nobody.
ReloadKeepsUnchanged ==
    [][\A n \in bound :
          n \in DOMAIN runners' /\ runners'[n] = runners[n] =>
              n \in bound' \/ listening'[runners[n].local_port] = NoOne]_vars

\* What a request meets is the kubectl of its tunnel's runner, or nobody.
AnsweredByOwn(c) ==
    LET n == request[c].route.name IN
    /\ n \in DOMAIN runners /\ toKey[runners[n].hostname] = toKey[request[c].host]
    /\ AnswerOf(c) # NoOne => AnswerOf(c) = n /\ n \in bound

\* proxy.go:1-3: the proxy routes to the appropriate kubectl port-forward by Host
\* header. A request is answered by the kubectl of the runner that has its host, or
\* with 502: not by one that a reload has retired and that still holds the port, and
\* not by another tunnel the file has given the port to. That is, if the supervisor
\* ran what the proxy routed to when the request came, and no reload has changed its
\* tunnel since: one that does may have it answered by another tunnel.
ForwardedToOwnTunnel ==
    [][\A c \in undisturbed :
          request[c].at = "admitted" /\ request'[c] = NoRequest => AnsweredByOwn(c)]_vars

\* README.md:106: a SIGHUP sent after an edit makes the daemon serve the new
\* file, also when it comes in the middle of an earlier reload, unless the file
\* changes again, a reload of another caller overlaps or the daemon goes away.
HupApplied ==
    wanted /\ Validate(disk) ~>
        \/ runners = RunnersOf(disk) /\ routes = RoutesOf(disk)
        \/ ~wanted \/ mixed \/ done
=============================================================================
