# kubetunnel in TLA+

This directory holds a model of the kubetunnel daemon: TLA+ modules translated
from the Go code under `src/`, configurations that check them with TLC on small
instances, and proofs that TLAPS checks for every value of the constants.

kubetunnel keeps one `kubectl port-forward` per configured tunnel alive, puts an
HTTPS reverse proxy in front of them, and lets a command line and a dashboard
watch and control them over a Unix socket. What is hard about it is not the data
but the order of events: many goroutines, a child process per tunnel that dies
at any moment, timers, cancellation, reloads, and log streams that come and go.

## 1. Inventory

| Component | State | Operations | Talks to |
|---|---|---|---|
| Tunnel runner (`internal/supervisor/tunnel.go`) | state, health flag, `startedAt`, restart counters, `restartCh`, `stopCh`; per attempt: `readyCh`, `waitCh`, kubectl, failure counter | `Run`, `runOnce`, `backoff`, `tooManyRestarts`, `drainStdout`, `Restart`, `Stop`, `Status`, `IsReady` | kubectl, logger |
| Supervisor (`supervisor.go`) | map of runners, of their cancel functions, wait group, context | `Start`, `Reload`, `Restart`, `Stop`, `Status`, `IsReady` | runners |
| Ring buffer (`internal/logging/ringbuffer.go`) | slots, start, size, subscribers | `Append`, `Snapshot`, `Subscribe`, unsubscribe | producers, tailers |
| Logger, entry (`logger.go`, `entry.go`) | rings, files | `Write`, `TunnelRing`, `MarshalJSON` | ring buffers |
| Proxy (`internal/proxy/proxy.go`) | routes by host | `Update`, `ServeHTTP` | supervisor (`IsReady`), kubectl's ports |
| Daemon (`cmd/kubetunneld/main.go`) | configuration, context, signal channel | start up, `Reload`, shutdown | all of the above |
| Control server (`internal/control/server.go`) | socket | `/reload`, `/restart`, `/shutdown`, `/logs/stream`, readers | daemon, supervisor, rings |
| Control client (`client.go`), dashboard (`internal/tui`) | stream channels; table, selection, entries, search, filter, pause, log pane | `StreamStatus`, `StreamLogs`, `Update`, `handleKey`, `refreshLogs` | control server, the user |
| Log query (`internal/logquery`) | none | `Parse` | logs, streams |
| Configuration (`internal/config`) | none | `Load`, `Validate` | daemon |
| Hosts file (`internal/hostsfile`) | `/etc/hosts`, a backup | `Install`, `Uninstall` | `tunnelctl` |
| `tunnelctl` and scripts (`cmd/tunnelctl`, `scripts/`) | the property list | `install`, `uninstall`, the restart of `update.sh` | launchd, hosts file, control client |
| Certificates (`internal/certs`) | files, a map | `EnsureCert`, `Loader` | mkcert, the TLS listener |

Hard behaviours and what makes each component correct:

* **Runner.** One select waits for readiness, health, exit, timers, restart and
  stop, while helper goroutines report through channels and a stop may come
  anywhere. Correct: the child of an attempt is collected exactly once on every
  path; what is reported belongs to this attempt; a cancellation ends the
  goroutine and kubectl; an outage is retried; Failing is earned and left.
* **Supervisor.** Runners outlive their registration. Correct: the registered
  runners are those of the configuration; a retired one is stopped and lets go of
  its port; `Stop` returns, and then no kubectl is left.
* **Ring buffer and streams.** Sends happen outside the lock. Correct: snapshots
  are the newest entries; a stream has no duplicates, keeps a producer's order,
  misses only what its own full channel dropped; a slow tailer blocks nobody; a
  tailer that leaves breaks nobody.
* **Daemon and proxy.** `Reload` has several callers and no lock of its own, and a
  request reads the routes, the readiness and the port at different moments.
  Correct: the configuration, the runners and the routes agree when reloads are
  over; a reload spares unchanged tunnels; a signal is not lost; a request reaches
  the tunnel of its host.
* **Logger.** Rings are made on demand by whoever comes first. Correct: one ring per
  tunnel, nothing appended is lost before its time, `tunnelctl logs` leaves out only
  the oldest.
* **Queries.** The same text is evaluated by the daemon on its entries and by the
  dashboard on what JSON left of them. Correct: it means what the grammar says, and
  the same at both ends.
* **Dashboard.** Snapshots, entries and keys arrive in any order, the first snapshot
  by a way of its own. Correct: the log pane follows the constraints in force, the
  highlight its tunnel, the table the daemon.
* **Installation.** launchd unloads asynchronously. Correct: `install` outlasts that or
  fails; when it succeeds the new daemon runs; it never waits for ever.
* **Hosts file.** The file belongs to others, too. Correct: their lines survive
  any sequence of calls and crashes; a call repeated changes nothing.

`PROJECT.json` lists the hazards with their lines and the properties on them.

## 2. Modules

```
TunnelLifecycle            what a runner promises          BoundedLog   what the ring promises
   ^ implemented by            ^ obeyed by each runner of      ^ implemented by   ^ assumed by
TunnelRunner  RestartPolicy  Supervisor                     RingBuffer          Logger
                               | reduced in                     ^ composed in
                             Daemon + proxy --> Config      LogStream

Dashboard     Installation     HostsFile     LogQuery
```

The proofs about a module `M` are in `MProofs`, which extends it: TunnelRunner, Supervisor,
LogStream (with those about the RingBuffer it extends), Daemon, Logger, HostsFile, Dashboard,
Installation. Those about LogQuery are in DashboardProofs, which extends both the dashboard and
the language of its filter prompt (hence the names `QueryInit`, `QueryNext` and `QuerySpec`);
those about RestartPolicy are at the end of TunnelRunnerProofs, which has an
instance of it (`Policy`) over variables of its own.

**TunnelRunner** has one runner at the grain of its select. `pc` is the place of
the `Run` goroutine; `child`, `killed`, `line`, `readyCh`, `waitCh` are the
attempt's kubectl, its cancelled context, the readiness line in the pipe and the
two channels. `ReceiveExit`, `BecomeReady`, `ReadinessTimeout`, `HealthTick`,
`ManualRestart`, `StopRequested` are the cases of the select; `ReapStop`,
`ReapRestart` and `ReapFailure` the three receives from `waitCh` after a cancel;
`BackoffEnds`, `BackoffInterrupted`, `PauseEnds` the waits. A health check blocks
the goroutine, so its result is a step of its own, as is the update of
`startedAt` and the health flag after `setState(Running)`. A health check
interval that `time.NewTicker` refuses makes the runner panic in `StartPanics`,
and `RecoverPanic` does what the deferred functions do. Time is only what the
code compares: an armed timer may fire at any moment, `startedAt` is unset,
recent or over five minutes old, pruning keeps any number of entries. Log calls,
pid, `lastError` and `lastHealth` are left out. That a log call itself may panic
is RingBuffer's subject.

**TunnelLifecycle** is what the rest of the daemon may believe of a runner: its
state, whether it owns a kubectl, whether it was cancelled, whether `Run` goes on.

**RestartPolicy** has what TunnelRunner leaves open: the code's delays, in
quarters of a second, the five minute rule, the window of sixty whole seconds and
the pause. One step is one attempt and the wait after it; times are kept as ages. `touches`
is the count of interventions after what the attempt itself added, so that a wait may
follow an attempt of any kind and be cut short as well.

**Supervisor** has the map of runners and all its methods, each a step since it
holds `s.mu` throughout; the wait in `Stop` comes after the unlock and is a step
of its own. Runners are numbered by generation. Each behaves as TunnelLifecycle,
and they share the local ports, which an operating system gives to one process.
`Stop` comes after the context is done, as in `main`; a `Reload` before `Start`
panics having changed nothing, so it is not a step.

**BoundedLog** is a log that keeps its newest entries. **RingBuffer** has the
slots, `Append` up to its unlock, and every send after it; unsubscribing closes a
channel at any moment, and a send to a closed channel unwinds the producer.
**LogStream** is `handleLogsStream` over it: replay, subscribe, forward, leave.

**Daemon** has `daemon.Reload` step by step for each of its callers, the signal
channel of one, the start up order (the control server first), and
`Server.ServeHTTP` as lookup, readiness check and dial. Its runners are
Supervisor's, reduced to who listens on a port and who is Running. The model ends
when the context of `main` is done. It extends **Config**, which says which files
`Load` accepts: `Validate` is the code's, so a file that a reload reads may be refused,
and what Daemon relies on (names, hosts and ports told apart) comes from there.

**HostsFile** has the scanning loop as a recursive function over the lines, and `Install` and
`Uninstall` as calls that read, (back up,) and rename, with crashes in between.
Lines are told apart as the code does: a marker, a line that contains the marker
text, a line with a carriage return, an empty line, anything else. Others may add a
line at any moment. Lines over the
scanner's limit of a megabyte are left out.

**Logger** has the map of rings with the two locks of `TunnelRing` as two steps, `Write`
with its appends to the global ring and to the tunnel's, and `handleLogs` with its
snapshot, filter and tail. A ring is its latest entries, which is what RingBuffer is
shown to implement.

The loops of HostsFile, Logger (`Passing`) and RestartPolicy (`Aged`) are recursive functions
over the number of turns, and the descent of LogQuery (`Descent`) is one over positions, which
the proofs can reason about.

**LogQuery** has the recursive descent over the tokens of a query and the predicates
of its words, a predicate being the set of entries it accepts. A query is written
token by token. `MoreTerms` and `MoreAnds` take the turns of the two loops from the last one: in
which order conjunctions or disjunctions are joined makes no difference, an error in any is an
error. The reference is the grammar as a relation: all meanings that some
derivation of a query has. `AtClient` is what `MarshalJSON` and a decoding client
leave of an entry.

**Dashboard** has one action per message and per key of `Update`. `wire` is the way of a
snapshot from the ticker of `handleEvents` to the program: socket, channel, pump.
`first` is the first of them, which is returned by a command instead while the pump
already runs. `tunnels` and `cursor` are the table, `pane` is the content of the
viewport; `refreshLogs` is the last conjunct of exactly the actions where the code
calls it. The table widget is external: setting rows clamps the cursor.

**Installation** has the launchctl calls of `installPlist`, `uninstallPlist` and
`update.sh` one by one, in ticks of 100 ms, against a launchd that takes a number of
ticks to unload a service and another to accept it again. It may also refuse to unload it:
`plist.go` looks at the error of bootout in neither place, so the service stays and the
command goes on (`refused` remembers that). A command may be broken off between any two of its
calls (`Interrupt`), and `run_sudo` makes each call of `update.sh` twice. The daemon may crash
or exit successfully, and `KeepAlive` decides what launchd does then. launchd is external,
modelled by the keys of the property list and the comments of plist.go. That a file is written
in part is left out.

The `MC` modules give the constants small values. A definition whose comment
begins with "Wrong:" is a plausible bug: substituted for the definition it stands
before, it must make TLC find the property it belongs to violated.

## 3. What is checked

Passing runs:

| Run | Shows | Bounds and why they are enough |
|---|---|---|
| `runner` | `RunningIsBacked`, `HealthFlagMatches`, `NoOverlap`, `ImplementsLifecycle`; `CancelTerminates`, `RestartHonoured`, `OutageIsRetried` | every kind of health check; threshold and both counter caps 2: each is passed below, at and above; nothing else is bounded |
| `policy` | without intervention the backoff itself keeps a crash loop out of Failing; failures never count across a pause or a restart by hand | attempts of 0, 30 and over 300 s, the shortest jitter (it crowds failures most), one attempt that is ready or restarted: with it Failing is reached |
| `supervisor` | registry, retirement; `Stop` returns and leaves nothing; a retired runner releases its port | two runners: of one tunnel, the second replacing the first, or of two tunnels, one of which may be removed; one may panic |
| `stream` | snapshots and the bounded log; streams; no producer blocks; no subscriber left behind | ring of 2, channel of 1, replay of 1, three entries of two producers, two handlers: the ring wraps, channels overflow, a replay is cut |
| `daemon` | a reload alone repairs everything; from then to the next overlap routes and runners agree; unchanged tunnels keep their kubectl; a request reaches its own tunnel; no SIGHUP is lost | the signal goroutine and one handler, one edit among three files (a tunnel moves to the port of one that goes; two share a port and are refused): the port a tunnel moves to may still have the retired kubectl of the other, one request at a time, any number of signals |
| `hosts` | lines of others survive, the block is the wanted one, calls are idempotent (on files without carriage returns) | all files of up to two lines of others with a block anywhere, three calls, one line added by others |
| `query` | the parser against the grammar, ranges against comparisons; the same meaning at a client | all queries of up to five tokens over five words: every operator under every other |
| `logger` | one ring per tunnel, nothing lost; an answer is the latest entries that pass, in order | two writers of two entries, one reader, rings of 2 and 8: the tunnel's ring wraps, all three race for its creation |
| `dashboard` | the log pane, the selection and the table follow | three snapshots (the selected tunnel moves, goes, none), one snapshot on the wire besides the first: enough to overtake it; two entries kept of two kinds, one search, one filter |
| `installation` | install outlasts launchd or fails; success means the new daemon runs, refused unloads and interrupted commands included; commands end | unloads of 0 to 71 ticks and refusals to load of 0 to 21, on both sides of the 5 s of polls and the 2 s of retries; two property lists; commands, interrupts and crashes repeated without bound |

Every module has a type invariant `TypeOK` (`StreamTypeOK`), which is a conjunct of the
inductive invariant where there are proofs; any run takes it as one more `INVARIANT`.

Runs that show a disagreement between the code and what the repository says of
it (each checks one property that TLC violates):

| Run | What happens |
|---|---|
| `ring_close` | a tailer that leaves makes a logging goroutine panic (ringbuffer.go:7) |
| `daemon_overlap` | overlapping reloads leave routes and runners on different files (proxy.go:35) |

Other disagreements met while modelling, which the properties concerned allow for:

* tunnel.go:266 resets the backoff of a tunnel that "had been Running long enough";
  `startedAt` outlives its attempt, so attempts that were never ready reset it, too.
* supervisor.go:61 says that a reload restarts changed tunnels; `tunnelEqual` (line 157)
  leaves out the health check, so a change of that alone is not applied (it leaves out
  headers and the stripped prefix, too, but those are the proxy's).
* README.md:103 has a Failing tunnel retried; after a panic it stays Failing.
* README.md:24: after a reload the kubectl of the retired runner and that of the new one
  are alive at once, so the new one may fail to bind its port and go through backoff.
* server.go:215: an entry logged between replay and subscription is in neither;
  `GapOnlyAtJoin` allows that and nothing more.
* proxy.go:1: when a reload moves the tunnel of a request between the lookup of its route and
  the dial, the tunnel that gets the old port may answer. `ForwardedToOwnTunnel` is about the
  requests that this did not happen to: their tunnel ran as it was routed and no reload has
  changed it since (`undisturbed`). What could go wrong for those is the other half: the tunnel
  was moved there by an earlier reload and the retired kubectl of another still listens.
* hostsfile.go:3: carriage returns and newlines at the end of the file are changed
  outside the block, which `OutsideKept` and `Idempotent` except.
* README.md:146 and tunnelctl's main.go:190 say that launchd relaunches the daemon after
  `tunnelctl shutdown`; it exits successfully, and `SuccessfulExit` is false (plist.go:30).
* README.md:105 has the daemon resume after a crash; a kubectl that was left behind (it has its
  own process group) keeps the port until it ends on its own.
* main.go:258 prints "LaunchDaemon removed" also when launchd has refused to unload the service
  and the daemon runs on (plist.go:127 discards the error).
* README.md:171 offers the whole filter language in the dashboard; filters on fields that
  Entry does not declare, such as `status:5xx`, accept nothing there (entry.go:47).
* config.go:172 tells hosts apart by their case and the proxy does not, so that of two
  such tunnels only the later one in the file has a route.

`CHECK_DEADLOCK FALSE` stands where the system may really stop: the daemon has
terminated, all entries a run allows are logged and sent, or all calls are made.

### Fairness

* TunnelRunner: weak fairness of the runner's goroutine, of the drain, of
  `cmd.Wait` and of the kill that `exec.CommandContext` sends, since goroutines are
  scheduled, timers fire and the health request has a timeout. Strong fairness of
  the stop, restart and exit cases of the select: Go picks a ready case at random.
  Nothing is assumed of kubectl's readiness or exit, nor of any caller.
* Supervisor: the same at its coarser grain; `Return` is strong because a cancelled
  runner passes the head of its loop again and again.
* LogStream: a producer inside `Append` goes on, a handler goes on, and its select
  does not pass over a done context for ever. No tailer has to read.
* Daemon: only the goroutine of the signals runs; handlers and runners may stall.
* Dashboard: the ticker ticks, and both ways of a snapshot into the program go on, since
  it receives from its senders in turn. No key is ever pressed, no stream has to open.
* Installation: a launchctl call returns and a sleep is over in the end. Nothing is assumed of
  what launchd answers.
* HostsFile, LogQuery, Logger: none.

## 4. What is proved

All safety properties of section 3 are theorems, for every value of the constants that
satisfies the assumptions its module names; what is only model-checked is listed below. The assumptions only say
what the constants are for (a capacity is a positive number, a configuration has finitely
many tunnels with names and ports, launchd's times are whole ticks, the absent file has no
version, the raw line of an entry is its message, a logged status is a whole number); a
hypothesis of one theorem alone is in its statement. The bounds of the runs
(`MaxGen`, `MaxEntries`, `MaxEdits`, `MaxWrites`, `MaxCalls`, `MaxTouched`) are constants as well, so the theorems
hold for any.

Of LogQuery alone the only invariant is that the query consists of tokens. None of the other
properties is inductive alone. Each proof module states an invariant that is,
`IInv` (`StreamIInv` of LogStream, `Inv` of Dashboard), shows that the initial states
satisfy it and, action by action, that no step breaks it, and derives the named theorems
from it.

**TunnelRunnerProofs**, for every kind of health check, threshold and cap: `Backed`,
`HealthShown`, `CleanExit` (a runner that returned leaves no kubectl behind),
`OneChildAtATime` (`NoOverlap`), `TypeCorrect`, and `Refinement`: `Spec` implements
`TunnelLifecycle`. `IInv` adds

* *Custody*: outside an attempt there is no child and nothing in `waitCh`; during
  one there is exactly one of the two, so the exit is collected exactly once;
* *Reporting*: the reported state against the place of the goroutine;
* *Evidence*: a readiness line, in the pipe or in the channel, means that this
  attempt's kubectl did serve;
* *Health*: the failure counter stays below the threshold and agrees with the flag
  wherever the flag can be seen as final.

For RestartPolicy it has `PolicySparesUntouched` (`UntouchedLoopNeverFails`) and
`PolicyPausesAreEarned` (`FailingIsEarned`), for attempts of any lengths and all jitters of the
code (the two assumptions of RestartPolicy are hypotheses of these theorems). `PolicyInv` says

* that the ages in `recentRestarts` are no more than the failures since the last pause or
  manual restart, which is what earns a pause;
* that while nobody intervenes they are no more than `restarts` either, and that from the
  seventh restart on, when a wait takes 45 seconds or longer, all of them are that old. So the
  next failure finds past the window whatever the last one left, and seven remain at most.

`AgedBounds` is the lemma both rest on: what the loop of `tooManyRestarts` keeps is at most what
is young enough.

**SupervisorProofs**, for any number of runners, where the run has two: `Registry`,
`Retired`, `StopIsClean`, and for the runners `Refinement`, that each generation
implements `TunnelLifecycle`, whatever the supervisor and the other runners do. So
the supervisor's coarse runners and TunnelRunner's detailed one keep to the same lifecycle;
that the coarse ones do everything the detailed one does is not proved. `IInv` adds *Bookkeeping* (the map of the
registered runners and the list of those made are inverse to each other, but for the
stopped ones), *Unborn*, *Custody*, and *Quiescence*: once `Stop` has returned only runners
of later reloads are alive, and since the context is done they never get a kubectl.

**LogStreamProofs** begins with the ring, for every capacity: `Latest`, `ProducerOrder`, and
`Refinement`, that the ring implements `BoundedLog`. `IInv` adds *Layout*, which entry every slot holds, with
the arithmetic modulo the capacity; *OneEntryAtATime*; and *SendsAreNewer*: although sends
are made outside the lock, what a producer has left to send is newer than all of its
entries that a subscriber was given.

It then shows that the handlers use the ring as RingBuffer says
(`UsesRing`), which makes these theorems available, and then `NeverTwice` and
`GapBeforeTail`. `StreamIInv` adds that what a client is sent was logged after it joined
(*SentIsNew*), that all of that is in its stream, on its way or lost for a named reason
(*TailIsWhole*), and that its replay ended before it joined (*ReplayIsOlder*).

**DaemonProofs**, for any files, any number of reloads and requests: `Settled`,
`LoneReloads`, `KeepsUnchanged`, `OwnTunnelAnswers`. Only `Settled` has a hypothesis that
`Validate` does not ensure, and that the files of the run satisfy: that no two hosts of a
file differ in their case alone (`KeysDiffer`, see config.go:172 above). `IInv` adds who is
alone (*OneLone*), what a reload works with at each of its steps (*ReloadsOwn*), that nothing
but a reload between the supervisor and the proxy has these disagree (*AgreeBetween*), and for
`OwnTunnelAnswers`

* *ReadyHold*: as long as a retired kubectl keeps the port of a runner, that runner is not ready;
* *UndisturbedOwn*: an undisturbed request has the route of a runner that has its host, and once
  admitted its port can be listened on by nobody else, which is what the check of readiness
  before the dial is for. That no other running tunnel has the port comes from `Validate`
  (`PortsDistinct`).

**LoggerProofs**: `NoneLost`. `IInv` adds *OneRing* and *FoundOwn*: whoever found a ring
found that of its name, and a name never changes its ring. `LatestOfAppend` says that
to keep the latest entries at every append is to keep the latest of all. From the same
invariant comes `AnswersAreWhole` (`AnswerMissesOldest`): the loop that filters keeps the
entries that pass, each behind as many as passed before it (`LoopCounts` and `PassingCounts`,
an induction over its turns), the ring held the latest of what was logged, and so the entry
with n later ones that pass is the one n places before the end of the answer.

**HostsFileProofs**, for files, host lists and lines of others of any length:
`KeepsWhatIsOutside` (`OutsideKept`), `HoldsTheBlock` (`BlockIsWanted`), `CallsAreIdempotent`
(`Idempotent`). `IInv` adds *OneBlock* (a file has no marker, or one BEGIN and one END after it,
which is what the scanning loop handles well), *ReadIsOld* (what a call under way has read is the
beginning of the file, and others have added no marker since) and *BlockIsThere*. The loop is
computed in closed form: `ScanWithout` and `ScanWith` say what it makes of a file without a block
and with one, by an induction over the lines, and `RemovedLines`, `InstallReplaces` and their
like what the two calls come to.

**InstallationProofs**, for any times of launchd, where the run has four and six:
`RidesOutTeardown` and `SuccessMeansRunning`. `IInv` adds *Waited* and *Retried*: what
launchd still needs is at most what it has drawn less the time that the polls and the
retries have slept, hence 50 + 20 ticks; *InstallUnloads*: an install that waits has had the
old service unloaded or the unload refused; and *LoadedIsFile*: one that has come to kickstart
was let through by bootstrap, which a service still loaded does not do.

**DashboardProofs**, for all sets of snapshots, entries, searches and filters, every
`maxEntries` and `WireCap`: `PaneCurrent` and `SelectionKept`, the latter by `SelectsName`,
which says what `selectByName` and the clamping of the table come to. The invariant adds
that whatever is in hand or on the wire is a snapshot and that the cursor is an integer.

The module goes on with LogQuery, for queries of any length over any words and entries:
`QueriesMeanGrammar` (`MeansGrammar`) and `QueriesSameAtClient` (`SameAtClient`). Both `Descent`
and the grammar's `Meanings` look only at later tokens (`ParseReads`, `MeaningsRead`), so they
exist and are what their equations say (`DescentIs`, `MeaningsIs`). From the last token to the
first one then shows

* *TermRight*: a term can end in one place only, where the descent gets to, and has one meaning;
* *AndRight*, *OrRight*: a conjunction or a disjunction can end wherever one of its parts does,
  but only once before a token that cannot continue it, and there the descent gets to.

`WordMeans` says that a range is its two borders, and that needs whole statuses.
For `QueriesSameAtClient` every predicate on the way is *Steady*, the same of an entry and of
what is left of it; a search looks at the raw line, which a client does not get, and
is steady only because that line is the message.

Only model-checked: all liveness, since fairness and ENABLED are beyond the prover.

An induction (over the turns of a loop, the lines of a file, the tokens of a query) is made without the library's
induction theorems, from its well-founded order on the naturals: of the numbers for which the
claim fails there would be a least one (`LeastNumber`), and it fails for one less.

## 5. What is not modelled

Formatting, wording, layout and scrolling; the dashboard's error line; the director's
headers and path rewriting; TLS and certificates (made at start only, one call of mkcert
per host); path expansion, YAML decoding and defaults; the rotating log files; the
tokenizer of queries; opening and removing the control socket; the commands of
`tunnelctl` that are one request and a print; install.sh and install-sudoers.sh.
`Status` and the other readers change nothing and appear only where a property reads
what they show.

## 6. Plan

Done: all modules of section 2 with their runs, and the proofs of section 4.

Left to model, if anything: the tokenizer of queries (quotes, escapes and keywords).
