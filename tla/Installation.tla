---------------------------- MODULE Installation ----------------------------
(***************************************************************************)
(* cmd/tunnelctl: install, uninstall (main.go, plist.go) and the restart   *)
(* of scripts/update.sh, against launchd, which unloads a service in its   *)
(* own time and then for a while refuses to load it again, and which may   *)
(* refuse the unload as well: neither caller of bootout looks at its error.*)
(* A command may be interrupted anywhere, a daemon may exit or crash.      *)
(*                                                                         *)
(* launchd is not part of the repository: it is modelled as far as         *)
(* plist.go uses it, by the keys of its property list and the comments     *)
(* there. Time is counted in ticks of 100 ms, and only passes while a      *)
(* command sleeps or none runs: a command that is slower finds launchd     *)
(* further on. Of the property list there is the version of its contents.  *)
(***************************************************************************)
EXTENDS Naturals

CONSTANTS
    Versions,       \* of the property list
    Nothing,        \* no property list, no daemon
    Teardowns,      \* ticks an unload may take
    Lingers         \* ticks launchd may refuse to load after that

\* The file that is not there has no version.
ASSUME NothingAssumption == Nothing \notin Versions
ASSUME TicksAssumption == Teardowns \subseteq Nat /\ Lingers \subseteq Nat

Polls == 50         \* of waitForBootout, each with a delay of one tick
RetryDelay == 5     \* launchctlDelay between the attempts of retryLaunchctl

VARIABLES
    plist,      \* the file at plistPath
    service,    \* of launchd: absent, loaded or tearing down
    loaded,     \* the property list it was loaded with
    teardown,   \* ticks until it is unloaded
    linger,     \* ticks after that until it can be loaded
    refused,    \* history: launchd refused to unload it when last asked to
    daemon,     \* the property list the running daemon was started by
    exit,       \* how the last daemon ended
    command,    \* the command that runs: which, where, its attempts, its sleep
    result,     \* of the last command
    drawn       \* history: the teardown and the linger of the last unload

launchd == <<service, loaded, teardown, linger, drawn, refused>>
process == <<daemon, exit>>
vars == <<plist, launchd, process, command, result>>

Idle == [at |-> "idle", attempts |-> 0, sleep |-> 0]
At(at) == [at |-> at, attempts |-> 0, sleep |-> 0]

Places == {"idle", "write", "remove", "restart", "bootout", "waitForBootout", "bootstrap",
           "kickstart"}

TypeOK ==
    /\ {plist, loaded, daemon} \subseteq Versions \cup {Nothing}
    /\ service \in {"absent", "loaded", "tearing"}
    /\ teardown \in Nat /\ linger \in Nat /\ drawn \in Nat \X Nat
    /\ refused \in BOOLEAN
    /\ exit \in {"none", "clean", "failed"}
    /\ command \in [at : Places, attempts : 0..Polls, sleep : 0..RetryDelay]

Init ==
    /\ plist = Nothing /\ service = "absent" /\ loaded = Nothing
    /\ teardown = 0 /\ linger = 0 /\ drawn = <<0, 0>> /\ refused = FALSE
    /\ daemon = Nothing /\ exit = "none"
    /\ command = Idle /\ result = "none"

-----------------------------------------------------------------------------
(***************************************************************************)
(* launchd.                                                                *)
(***************************************************************************)

Spawned == daemon' = loaded' /\ exit' = "none"

\* launchctl bootout: returns at once. The service goes, now or later, or stays.
bootout ==
    CASE service # "loaded" -> UNCHANGED <<launchd, process>>
      [] service = "loaded" ->
            \/ /\ refused' = TRUE
               /\ UNCHANGED <<service, loaded, teardown, linger, drawn, process>>
            \/ /\ refused' = FALSE
               /\ UNCHANGED exit
               /\ \E t \in Teardowns, l \in Lingers :
                     /\ teardown' = t /\ linger' = l /\ drawn' = <<t, l>>
                     /\ IF t = 0
                        THEN service' = "absent" /\ loaded' = Nothing /\ daemon' = Nothing
                        ELSE service' = "tearing" /\ UNCHANGED <<loaded, daemon>>

\* launchctl print: an error once the service is gone.
Printed == service # "absent"

CanBootstrap == service = "absent" /\ linger = 0 /\ plist # Nothing

\* launchctl bootstrap, where it succeeds; RunAtLoad starts the daemon.
bootstrap ==
    /\ service' = "loaded" /\ loaded' = plist
    /\ Spawned
    /\ UNCHANGED <<teardown, linger, drawn, refused>>

CanKickstart == service = "loaded"

\* launchctl kickstart -k, where it succeeds: a running daemon is replaced.
kickstart == UNCHANGED launchd /\ Spawned

\* SuccessfulExit false, Crashed true: a successful exit is final.
KeepAlive == exit = "failed"

\* After ThrottleInterval.
Relaunch ==
    /\ service = "loaded" /\ daemon = Nothing /\ KeepAlive
    /\ UNCHANGED <<plist, launchd, command, result>>
    /\ Spawned

Tick ==
    /\ command.sleep > 0 \/ (command.at = "idle" /\ teardown + linger > 0)
    /\ command' = [command EXCEPT !.sleep = IF @ > 0 THEN @ - 1 ELSE 0]
    /\ teardown' = IF teardown > 0 THEN teardown - 1 ELSE 0
    /\ linger' = IF teardown = 0 /\ linger > 0 THEN linger - 1 ELSE linger
    /\ IF teardown = 1 THEN service' = "absent" /\ loaded' = Nothing /\ daemon' = Nothing
                       ELSE UNCHANGED <<service, loaded, daemon>>
    /\ UNCHANGED <<plist, exit, drawn, refused, result>>

-----------------------------------------------------------------------------
(***************************************************************************)
(* The daemon.                                                             *)
(***************************************************************************)

\* /shutdown or SIGTERM: main returns.
Shutdown ==
    /\ service = "loaded" /\ daemon # Nothing
    /\ daemon' = Nothing /\ exit' = "clean"
    /\ UNCHANGED <<plist, launchd, command, result>>

\* A panic or a kill.
Crash ==
    /\ service = "loaded" /\ daemon # Nothing
    /\ daemon' = Nothing /\ exit' = "failed"
    /\ UNCHANGED <<plist, launchd, command, result>>

-----------------------------------------------------------------------------
(***************************************************************************)
(* The commands.                                                           *)
(***************************************************************************)

Awake(at) == command.at = at /\ command.sleep = 0
Ends(r) == command' = Idle /\ result' = r
Start(at) == command = Idle /\ command' = At(at) /\ result' = "none"

\* install and uninstall, and update.sh by the presence of the property list.
Install == Start("write") /\ UNCHANGED <<plist, launchd, process>>
Uninstall == Start("remove") /\ UNCHANGED <<plist, launchd, process>>
Update ==
    /\ Start(IF plist # Nothing THEN "restart" ELSE "write")
    /\ UNCHANGED <<plist, launchd, process>>

\* installPlist: WriteFile, then bootout, whatever it returns.
WritePlist ==
    /\ Awake("write")
    /\ plist' \in Versions
    /\ command' = At("bootout")
    /\ UNCHANGED <<launchd, process, result>>

Bootout ==
    /\ Awake("bootout")
    /\ bootout
    /\ command' = At("waitForBootout")
    /\ UNCHANGED <<plist, result>>

\* Wrong: there is no end to the polls.
waitForBootoutForever ==
    /\ Awake("waitForBootout")
    /\ command' = IF Printed THEN [command EXCEPT !.sleep = 1] ELSE At("bootstrap")
    /\ UNCHANGED <<plist, launchd, process, result>>

waitForBootout ==
    /\ Awake("waitForBootout")
    /\ command' = IF Printed /\ command.attempts < Polls
                  THEN [command EXCEPT !.attempts = @ + 1, !.sleep = 1]
                  ELSE At("bootstrap")
    /\ UNCHANGED <<plist, launchd, process, result>>

\* After an attempt that failed: another one after the delay, or the error.
TryAgain(attempts, delay, failed) ==
    IF command.attempts + 1 < attempts
    THEN command' = [command EXCEPT !.attempts = @ + 1, !.sleep = delay] /\ UNCHANGED result
    ELSE Ends(failed)

\* Wrong: the attempts are not apart.
RetryAtOnce(attempts, failed) == TryAgain(attempts, 0, failed)

\* retryLaunchctl.
Retry(attempts, failed) == TryAgain(attempts, RetryDelay, failed)

\* Wrong: installPlist goes on after the last attempt as if it had succeeded.
BootstrapIgnored ==
    /\ Awake("bootstrap")
    /\ IF CanBootstrap
          THEN bootstrap /\ command' = At("kickstart") /\ UNCHANGED result
          ELSE /\ IF command.attempts = 4 THEN command' = At("kickstart") /\ UNCHANGED result
                                          ELSE Retry(5, "bootstrapFailed")
               /\ UNCHANGED <<launchd, process>>
    /\ UNCHANGED plist

Bootstrap ==
    /\ Awake("bootstrap")
    /\ IF CanBootstrap
          THEN bootstrap /\ command' = At("kickstart") /\ UNCHANGED result
          ELSE Retry(5, "bootstrapFailed") /\ UNCHANGED <<launchd, process>>
    /\ UNCHANGED plist

Kickstart ==
    /\ Awake("kickstart")
    /\ CanKickstart
    /\ kickstart
    /\ Ends("installed")
    /\ UNCHANGED plist

\* launchd may have its reasons not to start it.
KickstartFails ==
    /\ Awake("kickstart")
    /\ Retry(3, "kickstartFailed")
    /\ UNCHANGED <<plist, launchd, process>>

\* uninstallPlist: bootout, and the file is removed whatever launchd makes of that.
RemovePlist ==
    /\ Awake("remove")
    /\ bootout
    /\ plist' = Nothing
    /\ Ends("uninstalled")

\* update.sh: kickstart, or else bootstrap, each tried twice by run_sudo: by sudo -n
\* and, as that may be for want of a password, by sudo.
Restart ==
    /\ Awake("restart")
    /\ \/ command.attempts < 2 /\ CanKickstart /\ kickstart /\ Ends("updated")
       \/ command.attempts >= 2 /\ CanBootstrap /\ bootstrap /\ Ends("updated")
       \/ TryAgain(4, 0, "updateFailed") /\ UNCHANGED <<launchd, process>>
    /\ UNCHANGED plist

\* A command is broken off: what it has done remains.
Interrupt ==
    /\ command # Idle
    /\ Ends("none")
    /\ UNCHANGED <<plist, launchd, process>>

Steps ==
    \/ WritePlist \/ Bootout \/ waitForBootout \/ Bootstrap \/ Kickstart \/ KickstartFails
    \/ RemovePlist \/ Restart

Next ==
    \/ Relaunch \/ Tick
    \/ Shutdown \/ Crash
    \/ Install \/ Uninstall \/ Update
    \/ Steps
    \/ Interrupt

Spec == Init /\ [][Next]_vars

\* launchctl answers, and a sleep is over after its time.
FairSpec == Spec /\ WF_vars(Steps) /\ WF_vars(Tick)

-----------------------------------------------------------------------------
(***************************************************************************)
(* Properties.                                                             *)
(***************************************************************************)

\* plist.go:75-78: install waits "for the unload to complete, then retry the
\* bootstrap a few times to absorb any residual race". It gives up on launchd only
\* where that has refused to unload the old service, is not free again after 7 s, or
\* takes more than 2 s after the unload.
InstallRidesOutTeardown ==
    result = "bootstrapFailed" => refused \/ drawn[2] > 20 \/ drawn[1] + drawn[2] > 70

\* main.go:241: "LaunchDaemon installed - kubetunneld is running": when install says
\* so, launchd has loaded what the file says now and runs a daemon by that, although
\* an error of bootout is not looked at and other installs may have been broken off
\* anywhere. Of update.sh it is said that what is loaded runs: that need not be the
\* file that an interrupted install has left.
InstalledMeansRunning ==
    [][result' \in {"installed", "updated"} /\ result' # result =>
          /\ service' = "loaded" /\ daemon' = loaded'
          /\ result' = "installed" => loaded' = plist']_vars

\* plist.go:99: waitForBootout "gives up after ~5s": no command waits for ever on a
\* launchd that does not unload, or does not load, what it is asked to.
CommandsEnd == command # Idle ~> command = Idle
=============================================================================
