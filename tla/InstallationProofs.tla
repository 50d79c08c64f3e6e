-------------------------- MODULE InstallationProofs --------------------------
(***************************************************************************)
(* Proofs about Installation for any times launchd takes to unload and     *)
(* refuses to load after it, and any versions of the property list.        *)
(*                                                                         *)
(* What launchd still needs is bounded by what it has drawn, less the time *)
(* the command has slept (Waited, Retried): hence the 7 s and the 2 s of   *)
(* InstallRidesOutTeardown, unless the unload was refused (InstallUnloads).*)
(* An install that has come to kickstart was let through by bootstrap, so  *)
(* what is loaded is what the file says (LoadedIsFile).                    *)
(***************************************************************************)
EXTENDS Installation, TLAPS

\* Past bootstrap, launchd has loaded the file.
LoadedIsFile == command.at = "kickstart" => service = "loaded" /\ loaded = plist

\* An install has a file, and has had the old service unloaded before it waits, or
\* the unload refused.
InstallUnloads ==
    /\ command.at \in {"bootout", "waitForBootout", "bootstrap"} => plist # Nothing
    /\ command.at \in {"waitForBootout", "bootstrap"} => service # "loaded" \/ refused

\* Of the unload, launchd first needs what is left of the teardown, then of the linger;
\* what is loaded needs neither.
Unloading ==
    /\ service = "tearing" <=> teardown > 0
    /\ teardown <= drawn[1] /\ linger <= drawn[2]
    /\ teardown > 0 => linger = drawn[2]
    /\ service = "loaded" => linger = 0

\* Every poll of waitForBootout takes its tick off what is left.
Waited ==
    command.at = "waitForBootout" =>
        \/ teardown + linger = 0
        \/ teardown + linger + command.attempts <= drawn[1] + drawn[2] + command.sleep

\* So do the delays between the attempts of bootstrap, after an unload that was
\* seen to end, or after all of the polls.
Retried ==
    command.at = "bootstrap" =>
        \/ teardown + linger = 0
        \/ teardown = 0 /\ linger + RetryDelay * command.attempts <= drawn[2] + command.sleep
        \/ teardown + linger + Polls + RetryDelay * command.attempts
              <= drawn[1] + drawn[2] + command.sleep

\* A result is that of a command that has ended.
ResultAtEnd == command.at # "idle" => result = "none"

IInv ==
    /\ TypeOK
    /\ LoadedIsFile
    /\ InstallUnloads
    /\ Unloading
    /\ Waited
    /\ Retried
    /\ ResultAtEnd
    /\ InstallRidesOutTeardown

-----------------------------------------------------------------------------

USE DEF Polls, RetryDelay

\* Nothing is installed at first.
THEOREM InitIInv == Init => IInv
<1> SUFFICES ASSUME Init PROVE IInv
    OBVIOUS
<1>1. TypeOK
  <2>1. /\ service \in {"absent", "loaded", "tearing"} /\ exit \in {"none", "clean", "failed"}
        /\ {plist, loaded, daemon} \subseteq Versions \cup {Nothing}
    BY DEF Init
  <2>2. /\ teardown \in Nat /\ linger \in Nat /\ drawn \in Nat \X Nat
        /\ command \in [at : Places, attempts : 0..Polls, sleep : 0..RetryDelay]
    BY DEF Init, Idle, Places
  <2>3. refused \in BOOLEAN
    BY DEF Init
  <2>4. QED
    BY <2>1, <2>2, <2>3 DEF TypeOK
<1>2. LoadedIsFile /\ InstallUnloads /\ Waited /\ Retried /\ ResultAtEnd
    BY DEF Init, Idle, LoadedIsFile, InstallUnloads, Waited, Retried, ResultAtEnd
<1>3. Unloading /\ InstallRidesOutTeardown
    BY DEF Init, Unloading, InstallRidesOutTeardown
<1>4. QED
    BY <1>1, <1>2, <1>3 DEF IInv

\* What the daemon does is no matter of the commands.
LEMMA ProcessKeeps ==
    ASSUME IInv, UNCHANGED <<plist, launchd, command, result>>,
           daemon' \in Versions \cup {Nothing},
           exit' \in {"none", "clean", "failed"}
    PROVE  IInv'
<1>1. UNCHANGED <<plist, service, loaded, teardown, linger, drawn, refused, command, result>>
    BY DEF launchd
<1>2. TypeOK'
    BY <1>1 DEF IInv, TypeOK
<1>3. /\ LoadedIsFile' /\ InstallUnloads' /\ Unloading' /\ Waited' /\ Retried'
      /\ ResultAtEnd' /\ InstallRidesOutTeardown'
    BY <1>1 DEF IInv, LoadedIsFile, InstallUnloads, Unloading, Waited, Retried,
                ResultAtEnd, InstallRidesOutTeardown
<1>4. QED
    BY <1>2, <1>3 DEF IInv

LEMMA DaemonKeeps ==
    ASSUME IInv, Relaunch \/ Shutdown \/ Crash
    PROVE  IInv'
<1>1. UNCHANGED <<plist, launchd, command, result>>
    BY DEF Relaunch, Shutdown, Crash
<1>2. /\ daemon' \in Versions \cup {Nothing}
      /\ exit' \in {"none", "clean", "failed"}
    BY DEF IInv, TypeOK, Relaunch, Shutdown, Crash, Spawned, launchd
<1>3. QED
    BY <1>1, <1>2, ProcessKeeps

\* A tick takes one off what launchd still needs and off the sleep of the command.
LEMMA TickKeeps ==
    ASSUME IInv, Tick
    PROVE  IInv'
<1>1. /\ TypeOK /\ LoadedIsFile /\ InstallUnloads /\ Unloading /\ Waited /\ Retried
      /\ ResultAtEnd /\ InstallRidesOutTeardown
    BY DEF IInv
<1>2. /\ command.at \in Places /\ command.attempts \in 0..Polls /\ command.sleep \in 0..RetryDelay
      /\ command' \in [at : Places, attempts : 0..Polls, sleep : 0..RetryDelay]
      /\ command'.at = command.at /\ command'.attempts = command.attempts
      /\ command'.sleep = IF command.sleep > 0 THEN command.sleep - 1 ELSE 0
      /\ command.sleep > 0 \/ command.at = "idle"
    BY <1>1 DEF TypeOK, Tick
<1>3. /\ teardown \in Nat /\ linger \in Nat /\ drawn[1] \in Nat /\ drawn[2] \in Nat
      /\ teardown' = IF teardown > 0 THEN teardown - 1 ELSE 0
      /\ linger' = IF teardown = 0 /\ linger > 0 THEN linger - 1 ELSE linger
      /\ UNCHANGED <<plist, exit, drawn, refused, result>>
    BY <1>1 DEF TypeOK, Tick
<1>4. \/ /\ teardown = 1 /\ service' = "absent" /\ loaded' = Nothing /\ daemon' = Nothing
      \/ teardown # 1 /\ UNCHANGED <<service, loaded, daemon>>
    BY DEF Tick
<1>5. TypeOK'
  <2>1. teardown' \in Nat /\ linger' \in Nat
    BY <1>3
  <2>2. CASE teardown = 1
    BY <1>1, <1>2, <1>3, <1>4, <2>1, <2>2 DEF TypeOK
  <2>3. CASE teardown # 1
    BY <1>1, <1>2, <1>3, <1>4, <2>1, <2>3 DEF TypeOK
  <2>4. QED
    BY <2>2, <2>3
<1>6. LoadedIsFile' /\ InstallUnloads'
    BY <1>1, <1>2, <1>3, <1>4 DEF LoadedIsFile, InstallUnloads, Unloading
<1>7. Unloading'
    BY <1>1, <1>3, <1>4 DEF Unloading, TypeOK
<1>8. Waited' /\ Retried'
  <2>1. CASE command.at = "idle"
    BY <1>2, <2>1 DEF Waited, Retried
  <2>2. CASE command.at # "idle"
    <3>1. /\ command.sleep \in Nat /\ command.sleep > 0 /\ command.attempts \in Nat
          /\ command'.sleep = command.sleep - 1
      BY <1>2, <2>2
    <3>2. teardown' + linger' = 0 \/ teardown' + linger' = teardown + linger - 1
      BY <1>3
    <3>3. teardown + linger = 0 => teardown' + linger' = 0
      BY <1>3
    <3>4. drawn'[1] = drawn[1] /\ drawn'[2] = drawn[2]
      BY <1>3
    <3>5. Waited'
      <4> SUFFICES ASSUME command.at = "waitForBootout", ~(teardown' + linger' = 0)
                   PROVE  teardown' + linger' + command.attempts
                              <= drawn[1] + drawn[2] + command'.sleep
        BY <1>2, <3>4 DEF Waited
      <4>1. teardown + linger + command.attempts <= drawn[1] + drawn[2] + command.sleep
        BY <1>1, <3>3 DEF Waited
      <4>2. teardown' + linger' = teardown + linger - 1
        BY <3>2
      <4>3. QED
        BY <1>3, <3>1, <4>1, <4>2
    <3>6. teardown = 0 => teardown' = 0 /\ (linger' = 0 \/ linger' = linger - 1)
      BY <1>3
    <3>7. Retried'
      <4> SUFFICES ASSUME command.at = "bootstrap", ~(teardown' + linger' = 0)
                   PROVE  \/ /\ teardown' = 0
                             /\ linger' + RetryDelay * command.attempts
                                    <= drawn[2] + command'.sleep
                          \/ teardown' + linger' + Polls + RetryDelay * command.attempts
                                    <= drawn[1] + drawn[2] + command'.sleep
        BY <1>2, <3>4 DEF Retried
      <4>1. CASE /\ teardown = 0
                 /\ linger + RetryDelay * command.attempts <= drawn[2] + command.sleep
        BY <1>3, <3>1, <3>6, <4>1
      <4>2. CASE teardown + linger + Polls + RetryDelay * command.attempts
                     <= drawn[1] + drawn[2] + command.sleep
        <5>1. teardown' + linger' = teardown + linger - 1
          BY <3>2
        <5>2. QED
          BY <1>3, <3>1, <4>2, <5>1
      <4>3. QED
        BY <1>1, <3>3, <4>1, <4>2 DEF Retried
    <3>8. QED
      BY <3>5, <3>7
  <2>3. QED
    BY <2>1, <2>2
<1>9. ResultAtEnd' /\ InstallRidesOutTeardown'
    BY <1>1, <1>2, <1>3 DEF ResultAtEnd, InstallRidesOutTeardown
<1>10. QED
    BY <1>5, <1>6, <1>7, <1>8, <1>9 DEF IInv

-----------------------------------------------------------------------------

\* The types of the variables, with the fields and components by themselves.
LEMMA TypeParts ==
    ASSUME IInv
    PROVE  /\ plist \in Versions \cup {Nothing} /\ loaded \in Versions \cup {Nothing}
           /\ daemon \in Versions \cup {Nothing}
           /\ service \in {"absent", "loaded", "tearing"}
           /\ teardown \in Nat /\ linger \in Nat /\ drawn \in Nat \X Nat
           /\ drawn[1] \in Nat /\ drawn[2] \in Nat
           /\ refused \in BOOLEAN /\ exit \in {"none", "clean", "failed"}
           /\ command \in [at : Places, attempts : 0..Polls, sleep : 0..RetryDelay]
           /\ command.at \in Places /\ command.attempts \in Nat /\ command.sleep \in Nat
           /\ command.attempts <= Polls
BY DEF IInv, TypeOK

\* A command that goes on, or ends, has no attempts behind it.
LEMMA AtTypes ==
    ASSUME NEW at \in Places
    PROVE  /\ At(at) \in [at : Places, attempts : 0..Polls, sleep : 0..RetryDelay]
           /\ At(at).at = at /\ At(at).attempts = 0 /\ At(at).sleep = 0
           /\ Idle \in [at : Places, attempts : 0..Polls, sleep : 0..RetryDelay]
           /\ Idle.at = "idle"
BY DEF At, Idle, Places

\* A command that tries again stays where it is.
LEMMA NextAttempt ==
    ASSUME IInv, NEW n \in 0..RetryDelay, command.attempts < Polls,
           command' = [command EXCEPT !.attempts = @ + 1, !.sleep = n]
    PROVE  /\ command' \in [at : Places, attempts : 0..Polls, sleep : 0..RetryDelay]
           /\ command'.at = command.at /\ command'.attempts = command.attempts + 1
           /\ command'.sleep = n
<1> DEFINE Commands == [at : Places, attempts : 0..Polls, sleep : 0..RetryDelay]
<1>1. command \in Commands /\ command.attempts + 1 \in 0..Polls
    BY TypeParts
<1>2. command' = [[command EXCEPT !.attempts = command.attempts + 1] EXCEPT !.sleep = n]
    BY <1>1
<1>3. /\ [command EXCEPT !.attempts = command.attempts + 1] \in Commands
      /\ [command EXCEPT !.attempts = command.attempts + 1].at = command.at
      /\ [command EXCEPT !.attempts = command.attempts + 1].attempts = command.attempts + 1
    BY <1>1
<1>4. QED
    BY <1>2, <1>3

\* A command that begins, or ends or is broken off without a word to launchd.
LEMMA IdleKeeps ==
    ASSUME IInv, UNCHANGED <<plist, launchd, process>>,
           NEW at \in {"idle", "write", "remove", "restart"},
           command' = At(at), at = "idle" \/ result' = "none", result' # "bootstrapFailed"
    PROVE  IInv'
<1>1. /\ UNCHANGED <<plist, service, loaded, teardown, linger, drawn, refused, daemon, exit>>
      /\ command' \in [at : Places, attempts : 0..Polls, sleep : 0..RetryDelay]
      /\ command'.at = at
    BY AtTypes DEF launchd, process, Places
<1>2. TypeOK'
    BY <1>1 DEF IInv, TypeOK
<1>3. LoadedIsFile' /\ InstallUnloads' /\ Unloading' /\ Waited' /\ Retried'
    BY <1>1 DEF IInv, LoadedIsFile, InstallUnloads, Unloading, Waited, Retried
<1>4. ResultAtEnd' /\ InstallRidesOutTeardown'
    BY <1>1 DEF ResultAtEnd, InstallRidesOutTeardown
<1>5. QED
    BY <1>2, <1>3, <1>4 DEF IInv

LEMMA StartKeeps ==
    ASSUME IInv, Install \/ Uninstall \/ Update \/ Interrupt
    PROVE  IInv'
<1>1. /\ UNCHANGED <<plist, launchd, process>> /\ result' = "none"
      /\ \E at \in {"idle", "write", "remove", "restart"} : command' = At(at)
    BY DEF Install, Uninstall, Update, Interrupt, Start, Ends, At, Idle
<1>2. QED
    BY <1>1, IdleKeeps

LEMMA WritePlistKeeps ==
    ASSUME IInv, WritePlist
    PROVE  IInv'
<1>1. /\ UNCHANGED <<service, loaded, teardown, linger, drawn, refused, daemon, exit, result>>
      /\ command' \in [at : Places, attempts : 0..Polls, sleep : 0..RetryDelay]
      /\ command.at = "write" /\ command'.at = "bootout"
      /\ plist' \in Versions /\ plist' # Nothing
    BY AtTypes, NothingAssumption DEF WritePlist, Awake, launchd, process, Places
<1>2. TypeOK'
    BY <1>1 DEF IInv, TypeOK
<1>3. LoadedIsFile' /\ InstallUnloads' /\ Unloading' /\ Waited' /\ Retried'
    BY <1>1 DEF IInv, LoadedIsFile, InstallUnloads, Unloading, Waited, Retried
<1>4. ResultAtEnd' /\ InstallRidesOutTeardown'
    BY <1>1 DEF IInv, ResultAtEnd, InstallRidesOutTeardown
<1>5. QED
    BY <1>2, <1>3, <1>4 DEF IInv

\* After a bootout the service is unloaded or about to be, unless that was refused.
LEMMA BootoutUnloads ==
    ASSUME IInv, bootout
    PROVE  /\ loaded' \in Versions \cup {Nothing} /\ daemon' \in Versions \cup {Nothing}
           /\ service' \in {"absent", "loaded", "tearing"} /\ refused' \in BOOLEAN
           /\ service' # "loaded" \/ refused'
           /\ teardown' \in Nat /\ linger' \in Nat /\ drawn' \in Nat \X Nat
           /\ drawn'[1] \in Nat /\ drawn'[2] \in Nat
           /\ exit' \in {"none", "clean", "failed"}
           /\ Unloading'
<1>1. CASE UNCHANGED <<service, loaded, teardown, linger, drawn, daemon, exit>>
           /\ refused' \in BOOLEAN /\ (service # "loaded" \/ refused')
    BY <1>1, TypeParts DEF IInv, Unloading
<1>2. CASE service = "loaded" /\ refused' = FALSE /\ UNCHANGED exit
           /\ \E t \in Teardowns, l \in Lingers :
                 /\ teardown' = t /\ linger' = l /\ drawn' = <<t, l>>
                 /\ IF t = 0
                    THEN service' = "absent" /\ loaded' = Nothing /\ daemon' = Nothing
                    ELSE service' = "tearing" /\ UNCHANGED <<loaded, daemon>>
  <2>1. PICK t \in Teardowns, l \in Lingers :
            /\ teardown' = t /\ linger' = l /\ drawn' = <<t, l>>
            /\ IF t = 0 THEN service' = "absent" /\ loaded' = Nothing /\ daemon' = Nothing
                        ELSE service' = "tearing" /\ UNCHANGED <<loaded, daemon>>
    BY <1>2
  <2>2. t \in Nat /\ l \in Nat
    BY TicksAssumption
  <2>3. Unloading' /\ service' # "loaded"
    BY <2>1, <2>2 DEF Unloading
  <2>4. QED
    BY <1>2, <2>1, <2>2, <2>3, TypeParts
<1>3. \/ /\ service # "loaded"
         /\ UNCHANGED <<service, loaded, teardown, linger, drawn, refused, daemon, exit>>
      \/ service = "loaded" /\ bootout
    BY DEF bootout, launchd, process
<1>4. QED
    BY <1>1, <1>2, <1>3, TypeParts DEF bootout, process

LEMMA BootoutKeeps ==
    ASSUME IInv, Bootout
    PROVE  IInv'
<1>1. /\ bootout /\ UNCHANGED <<plist, result>>
      /\ command.at = "bootout"
      /\ command' = At("waitForBootout") /\ "waitForBootout" \in Places
    BY DEF Bootout, Awake, Places
<1>2. /\ command' \in [at : Places, attempts : 0..Polls, sleep : 0..RetryDelay]
      /\ command'.at = "waitForBootout" /\ command'.attempts = 0 /\ command'.sleep = 0
    BY <1>1, AtTypes
<1>3. TypeOK' /\ Unloading' /\ (service' # "loaded" \/ refused')
    BY <1>1, <1>2, BootoutUnloads, TypeParts DEF TypeOK
<1>4. LoadedIsFile' /\ InstallUnloads'
    BY <1>1, <1>2, <1>3 DEF IInv, LoadedIsFile, InstallUnloads
<1>5. Waited' /\ Retried'
  <2>1. /\ teardown' \in Nat /\ linger' \in Nat /\ drawn'[1] \in Nat /\ drawn'[2] \in Nat
        /\ teardown' <= drawn'[1] /\ linger' <= drawn'[2]
    BY <1>1, <1>3, BootoutUnloads DEF Unloading
  <2>2. teardown' + linger' + 0 <= drawn'[1] + drawn'[2] + 0
    BY <2>1
  <2>3. QED
    BY <1>2, <2>2 DEF Waited, Retried
<1>6. ResultAtEnd' /\ InstallRidesOutTeardown'
    BY <1>1 DEF IInv, ResultAtEnd, InstallRidesOutTeardown
<1>7. QED
    BY <1>3, <1>4, <1>5, <1>6 DEF IInv

LEMMA RemovePlistKeeps ==
    ASSUME IInv, RemovePlist
    PROVE  IInv'
<1>1. /\ bootout /\ plist' = Nothing
      /\ command' = Idle /\ result' = "uninstalled" /\ "idle" \in Places
    BY DEF RemovePlist, Ends, Places
<1>2. /\ command' \in [at : Places, attempts : 0..Polls, sleep : 0..RetryDelay]
      /\ command'.at = "idle"
    BY <1>1, AtTypes
<1>3. TypeOK' /\ Unloading'
    BY <1>1, <1>2, BootoutUnloads DEF TypeOK
<1>4. LoadedIsFile' /\ InstallUnloads' /\ Waited' /\ Retried' /\ ResultAtEnd'
    BY <1>2, <1>3 DEF LoadedIsFile, InstallUnloads, Waited, Retried, ResultAtEnd
<1>5. InstallRidesOutTeardown'
    BY <1>1 DEF InstallRidesOutTeardown
<1>6. QED
    BY <1>3, <1>4, <1>5 DEF IInv

\* A poll is paid for by the tick it sleeps; the last one leaves what the unload
\* needs above its fifty.
LEMMA waitForBootoutKeeps ==
    ASSUME IInv, waitForBootout
    PROVE  IInv'
<1>1. /\ UNCHANGED <<plist, service, loaded, teardown, linger, drawn, refused, daemon, exit, result>>
      /\ command.at = "waitForBootout" /\ command.sleep = 0
      /\ {"bootstrap", "waitForBootout"} \subseteq Places
    BY DEF waitForBootout, Awake, launchd, process, Places
<1>2. /\ teardown \in Nat /\ linger \in Nat /\ drawn[1] \in Nat /\ drawn[2] \in Nat
      /\ command.attempts \in Nat
    BY TypeParts
<1>3. Unloading' /\ InstallRidesOutTeardown'
    BY <1>1 DEF IInv, Unloading, InstallRidesOutTeardown
<1>4. CASE Printed /\ command.attempts < Polls
  <2>1. command' = [command EXCEPT !.attempts = @ + 1, !.sleep = 1]
    BY <1>4 DEF waitForBootout
  <2>2. /\ command' \in [at : Places, attempts : 0..Polls, sleep : 0..RetryDelay]
        /\ command'.at = "waitForBootout" /\ command'.attempts = command.attempts + 1
        /\ command'.sleep = 1
    BY <1>1, <1>4, <2>1, NextAttempt
  <2>3. TypeOK'
    BY <1>1, <2>2 DEF IInv, TypeOK
  <2>4. LoadedIsFile' /\ InstallUnloads' /\ Retried' /\ ResultAtEnd'
    BY <1>1, <2>2 DEF IInv, LoadedIsFile, InstallUnloads, Retried, ResultAtEnd
  <2>5. Waited'
    BY <1>1, <1>2, <2>2 DEF IInv, Waited
  <2>6. QED
    BY <1>3, <2>3, <2>4, <2>5 DEF IInv
<1>5. CASE ~(Printed /\ command.attempts < Polls)
  <2>1. command' = At("bootstrap")
    BY <1>5 DEF waitForBootout
  <2>2. /\ command' \in [at : Places, attempts : 0..Polls, sleep : 0..RetryDelay]
        /\ command'.at = "bootstrap" /\ command'.attempts = 0 /\ command'.sleep = 0
    BY <1>1, <2>1, AtTypes
  <2>3. TypeOK'
    BY <1>1, <2>2 DEF IInv, TypeOK
  <2>4. LoadedIsFile' /\ InstallUnloads' /\ Waited' /\ ResultAtEnd'
    BY <1>1, <2>2 DEF IInv, LoadedIsFile, InstallUnloads, Waited, ResultAtEnd
  <2>5. ASSUME ~Printed PROVE Retried'
    <3>1. teardown = 0 /\ linger <= drawn[2]
      BY <1>2, <2>5 DEF Printed, IInv, Unloading
    <3>2. linger + RetryDelay * command'.attempts <= drawn[2] + command'.sleep
      BY <1>2, <2>2, <3>1
    <3>3. QED
      BY <1>1, <3>1, <3>2 DEF Retried
  <2>6. ASSUME command.attempts >= Polls PROVE Retried'
    <3>1. \/ teardown + linger = 0
          \/ teardown + linger + command.attempts <= drawn[1] + drawn[2] + 0
      BY <1>1 DEF IInv, Waited
    <3>2. \/ teardown + linger = 0
          \/ teardown + linger + Polls + RetryDelay * command'.attempts
                <= drawn[1] + drawn[2] + command'.sleep
      BY <1>2, <2>2, <2>6, <3>1
    <3>3. QED
      BY <1>1, <3>2 DEF Retried
  <2>7. QED
    BY <1>2, <1>3, <1>5, <2>3, <2>4, <2>5, <2>6 DEF IInv
<1>6. QED
    BY <1>4, <1>5

\* Another attempt is paid for by the delay before it.
LEMMA RetryBootstrapKeeps ==
    ASSUME IInv, UNCHANGED <<plist, launchd, process, result>>,
           command.at = "bootstrap", command.sleep = 0, command.attempts + 1 < 5,
           command' = [command EXCEPT !.attempts = @ + 1, !.sleep = RetryDelay]
    PROVE  IInv'
<1>1. UNCHANGED <<plist, service, loaded, teardown, linger, drawn, refused, daemon, exit, result>>
    BY DEF launchd, process
<1>2. /\ teardown \in Nat /\ linger \in Nat /\ drawn[1] \in Nat /\ drawn[2] \in Nat
      /\ command.attempts \in Nat
    BY TypeParts
<1>3. /\ command' \in [at : Places, attempts : 0..Polls, sleep : 0..RetryDelay]
      /\ command'.at = "bootstrap" /\ command'.attempts = command.attempts + 1
      /\ command'.sleep = RetryDelay
  <2>1. command.attempts < Polls /\ RetryDelay \in 0..RetryDelay
    BY <1>2
  <2>2. QED
    BY <2>1, NextAttempt
<1>4. TypeOK'
    BY <1>1, <1>3 DEF IInv, TypeOK
<1>5. LoadedIsFile' /\ InstallUnloads' /\ Unloading' /\ Waited'
    BY <1>1, <1>3 DEF IInv, LoadedIsFile, InstallUnloads, Unloading, Waited
<1>6. ResultAtEnd' /\ InstallRidesOutTeardown'
    BY <1>1, <1>3 DEF IInv, ResultAtEnd, InstallRidesOutTeardown
<1>7. Retried'
    BY <1>1, <1>2, <1>3 DEF IInv, Retried
<1>8. QED
    BY <1>4, <1>5, <1>6, <1>7 DEF IInv

\* The fifth attempt comes after 20 ticks, so what it failed for is longer than that.
LEMMA LastBootstrapKeeps ==
    ASSUME IInv, UNCHANGED <<plist, launchd, process>>,
           command.at = "bootstrap", command.sleep = 0, ~CanBootstrap,
           ~(command.attempts + 1 < 5), command' = Idle, result' = "bootstrapFailed"
    PROVE  IInv'
<1>1. /\ UNCHANGED <<plist, service, loaded, teardown, linger, drawn, refused, daemon, exit>>
      /\ "idle" \in Places
    BY DEF launchd, process, Places
<1>2. /\ teardown \in Nat /\ linger \in Nat /\ drawn[1] \in Nat /\ drawn[2] \in Nat
      /\ command.attempts \in Nat
    BY TypeParts
<1>3. /\ command' \in [at : Places, attempts : 0..Polls, sleep : 0..RetryDelay]
      /\ command'.at = "idle"
    BY <1>1, AtTypes
<1>4. TypeOK'
    BY <1>1, <1>3 DEF IInv, TypeOK
<1>5. LoadedIsFile' /\ InstallUnloads' /\ Unloading' /\ Waited' /\ Retried' /\ ResultAtEnd'
    BY <1>1, <1>3 DEF IInv, LoadedIsFile, InstallUnloads, Unloading, Waited, Retried, ResultAtEnd
<1>6. refused \/ teardown + linger > 0
  <2>1. service = "absent" => linger # 0
    BY <1>1 DEF IInv, InstallUnloads, CanBootstrap
  <2>2. service = "tearing" => teardown > 0
    BY DEF IInv, Unloading
  <2>3. refused \/ teardown > 0 \/ linger > 0
    BY <1>1, <1>2, <2>1, <2>2, TypeParts DEF IInv, InstallUnloads
  <2>4. QED
    BY <1>2, <2>3
<1>7. refused \/ drawn[2] > 20 \/ drawn[1] + drawn[2] > 70
  <2> SUFFICES ASSUME ~refused PROVE drawn[2] > 20 \/ drawn[1] + drawn[2] > 70
    OBVIOUS
  <2>1. teardown + linger # 0 /\ teardown + linger > 0
    BY <1>2, <1>6
  <2>2. \/ /\ teardown = 0
           /\ linger + RetryDelay * command.attempts <= drawn[2] + command.sleep
        \/ teardown + linger + Polls + RetryDelay * command.attempts
              <= drawn[1] + drawn[2] + command.sleep
    BY <1>1, <2>1 DEF IInv, Retried
  <2>3. QED
    BY <1>1, <1>2, <2>1, <2>2
<1>8. InstallRidesOutTeardown'
    BY <1>1, <1>7 DEF InstallRidesOutTeardown
<1>9. QED
    BY <1>4, <1>5, <1>8 DEF IInv

\* What launchd loads is what the file says.
LEMMA LoadKeeps ==
    ASSUME IInv, CanBootstrap, bootstrap, UNCHANGED plist,
           NEW at \in {"idle", "kickstart"}, command' = At(at),
           at = "idle" \/ result' = "none", result' # "bootstrapFailed"
    PROVE  IInv'
<1>1. /\ service = "absent" /\ service' = "loaded" /\ loaded' = plist /\ daemon' = plist
      /\ exit' = "none" /\ UNCHANGED <<plist, teardown, linger, drawn, refused>> /\ linger = 0
    BY DEF CanBootstrap, bootstrap, Spawned
<1>2. /\ command' \in [at : Places, attempts : 0..Polls, sleep : 0..RetryDelay]
      /\ command'.at = at
    BY AtTypes DEF Places
<1>3. TypeOK'
    BY <1>1, <1>2, TypeParts DEF TypeOK
<1>4. LoadedIsFile' /\ InstallUnloads' /\ Waited' /\ Retried' /\ ResultAtEnd'
    BY <1>1, <1>2 DEF LoadedIsFile, InstallUnloads, Waited, Retried, ResultAtEnd
<1>5. Unloading'
    BY <1>1 DEF IInv, Unloading
<1>6. InstallRidesOutTeardown'
    BY DEF InstallRidesOutTeardown
<1>7. QED
    BY <1>3, <1>4, <1>5, <1>6 DEF IInv

LEMMA BootstrapKeeps ==
    ASSUME IInv, Bootstrap
    PROVE  IInv'
<1>1. CASE CanBootstrap
  <2>1. /\ bootstrap /\ command' = At("kickstart") /\ UNCHANGED <<plist, result>>
        /\ command.at = "bootstrap"
    BY <1>1 DEF Bootstrap, Awake
  <2>2. result' = "none"
    BY <2>1 DEF IInv, ResultAtEnd
  <2>3. QED
    BY <1>1, <2>1, <2>2, LoadKeeps
<1>2. CASE ~CanBootstrap /\ command.attempts + 1 < 5
    BY <1>2, RetryBootstrapKeeps DEF Bootstrap, Retry, TryAgain, Awake
<1>3. CASE ~CanBootstrap /\ ~(command.attempts + 1 < 5)
    BY <1>3, LastBootstrapKeeps DEF Bootstrap, Retry, TryAgain, Awake, Ends
<1>4. QED
    BY <1>1, <1>2, <1>3

\* A kickstart changes the daemon alone.
LEMMA KickstartOfKeeps ==
    ASSUME IInv, kickstart, UNCHANGED plist, command' = Idle, result' # "bootstrapFailed"
    PROVE  IInv'
<1>1. /\ UNCHANGED <<plist, service, loaded, teardown, linger, drawn, refused>>
      /\ daemon' = loaded /\ exit' = "none"
    BY DEF kickstart, Spawned, launchd
<1>2. /\ command' \in [at : Places, attempts : 0..Polls, sleep : 0..RetryDelay]
      /\ command'.at = "idle"
    BY AtTypes DEF Places
<1>3. TypeOK'
    BY <1>1, <1>2, TypeParts DEF TypeOK
<1>4. LoadedIsFile' /\ InstallUnloads' /\ Unloading' /\ Waited' /\ Retried' /\ ResultAtEnd'
    BY <1>1, <1>2 DEF IInv, LoadedIsFile, InstallUnloads, Unloading, Waited, Retried, ResultAtEnd
<1>5. InstallRidesOutTeardown'
    BY DEF InstallRidesOutTeardown
<1>6. QED
    BY <1>3, <1>4, <1>5 DEF IInv

LEMMA KickstartKeeps ==
    ASSUME IInv, Kickstart
    PROVE  IInv'
BY KickstartOfKeeps DEF Kickstart, Ends, Awake

LEMMA KickstartFailsKeeps ==
    ASSUME IInv, KickstartFails
    PROVE  IInv'
<1>1. /\ UNCHANGED <<plist, launchd, process>>
      /\ UNCHANGED <<plist, service, loaded, teardown, linger, drawn, refused, daemon, exit>>
      /\ command.at = "kickstart"
    BY DEF KickstartFails, Awake, launchd, process
<1>2. CASE command.attempts + 1 < 3
  <2>1. command' = [command EXCEPT !.attempts = @ + 1, !.sleep = RetryDelay] /\ UNCHANGED result
    BY <1>2 DEF KickstartFails, Retry, TryAgain
  <2>2. /\ command' \in [at : Places, attempts : 0..Polls, sleep : 0..RetryDelay]
        /\ command'.at = "kickstart"
    <3>1. command.attempts < Polls /\ RetryDelay \in 0..RetryDelay
      BY <1>2, TypeParts
    <3>2. QED
      BY <1>1, <2>1, <3>1, NextAttempt
  <2>3. TypeOK'
    BY <1>1, <2>2 DEF IInv, TypeOK
  <2>4. LoadedIsFile' /\ InstallUnloads' /\ Unloading' /\ Waited' /\ Retried' /\ ResultAtEnd'
    BY <1>1, <2>1, <2>2
       DEF IInv, LoadedIsFile, InstallUnloads, Unloading, Waited, Retried, ResultAtEnd
  <2>5. InstallRidesOutTeardown'
    BY <1>1, <2>1 DEF IInv, InstallRidesOutTeardown
  <2>6. QED
    BY <2>3, <2>4, <2>5 DEF IInv
<1>3. CASE ~(command.attempts + 1 < 3)
  <2>1. command' = At("idle") /\ result' = "kickstartFailed"
    BY <1>3 DEF KickstartFails, Retry, TryAgain, Ends, At, Idle
  <2>2. QED
    BY <1>1, <2>1, IdleKeeps
<1>4. QED
    BY <1>2, <1>3

\* The next attempt of run_sudo finds launchd as it was.
LEMMA RestartAgainKeeps ==
    ASSUME IInv, UNCHANGED <<plist, launchd, process, result>>,
           command.at = "restart", command.attempts + 1 < 4,
           command' = [command EXCEPT !.attempts = @ + 1, !.sleep = 0]
    PROVE  IInv'
<1>1. UNCHANGED <<plist, service, loaded, teardown, linger, drawn, refused, daemon, exit, result>>
    BY DEF launchd, process
<1>2. /\ command' \in [at : Places, attempts : 0..Polls, sleep : 0..RetryDelay]
      /\ command'.at = "restart"
  <2>1. command.attempts < Polls /\ 0 \in 0..RetryDelay
    BY TypeParts
  <2>2. QED
    BY <2>1, NextAttempt
<1>3. TypeOK'
    BY <1>1, <1>2 DEF IInv, TypeOK
<1>4. LoadedIsFile' /\ InstallUnloads' /\ Unloading' /\ Waited' /\ Retried' /\ ResultAtEnd'
    BY <1>1, <1>2 DEF IInv, LoadedIsFile, InstallUnloads, Unloading, Waited, Retried, ResultAtEnd
<1>5. InstallRidesOutTeardown'
    BY <1>1 DEF IInv, InstallRidesOutTeardown
<1>6. QED
    BY <1>3, <1>4, <1>5 DEF IInv

LEMMA RestartKeeps ==
    ASSUME IInv, Restart
    PROVE  IInv'
<1>1. UNCHANGED plist /\ command.at = "restart" /\ Idle = At("idle")
    BY DEF Restart, Awake, Idle, At
<1>2. \/ kickstart /\ Ends("updated")
      \/ CanBootstrap /\ bootstrap /\ Ends("updated")
      \/ UNCHANGED <<launchd, process>> /\ TryAgain(4, 0, "updateFailed")
    BY DEF Restart
<1>3. CASE kickstart /\ Ends("updated")
    BY <1>1, <1>3, KickstartOfKeeps DEF Ends
<1>4. CASE CanBootstrap /\ bootstrap /\ Ends("updated")
    BY <1>1, <1>4, LoadKeeps DEF Ends
<1>5. CASE UNCHANGED <<launchd, process>> /\ TryAgain(4, 0, "updateFailed")
  <2>1. CASE command.attempts + 1 < 4
    BY <1>1, <1>5, <2>1, RestartAgainKeeps DEF TryAgain
  <2>2. CASE ~(command.attempts + 1 < 4)
    BY <1>1, <1>5, <2>2, IdleKeeps DEF TryAgain, Ends
  <2>3. QED
    BY <2>1, <2>2
<1>6. QED
    BY <1>2, <1>3, <1>4, <1>5

\* Every step of launchd, the daemon or a command keeps the invariant.
THEOREM StepIInv == IInv /\ [Next]_vars => IInv'
<1> SUFFICES ASSUME IInv, [Next]_vars PROVE IInv'
    OBVIOUS
<1>1. CASE UNCHANGED vars
    BY <1>1, ProcessKeeps, TypeParts DEF vars, process
<1>2. CASE Next
    BY <1>2, DaemonKeeps, TickKeeps, StartKeeps, WritePlistKeeps, BootoutKeeps,
       waitForBootoutKeeps, BootstrapKeeps, KickstartKeeps, KickstartFailsKeeps,
       RemovePlistKeeps, RestartKeeps DEF Next, Steps
<1>3. QED
    BY <1>1, <1>2

-----------------------------------------------------------------------------

\* The inductive invariant holds throughout.
THEOREM Invariance == Spec => []IInv
BY InitIInv, StepIInv, PTL DEF Spec

\* plist.go:75-78: for any teardown and linger of launchd, install only gives up
\* on bootstrap where the unload was refused, the linger is over 2 s or both together
\* are over 7 s.
THEOREM RidesOutTeardown == Spec => []InstallRidesOutTeardown
<1>1. IInv => InstallRidesOutTeardown
    BY DEF IInv
<1>2. QED
    BY <1>1, Invariance, PTL

\* main.go:241: a success of install means that launchd has loaded what the file says
\* and runs a daemon by it, although the unload may have been refused and earlier
\* commands broken off; one of the update, that it runs what it has loaded.
THEOREM SuccessMeansRunning == Spec => InstalledMeansRunning
<1> DEFINE Success == result' \in {"installed", "updated"} /\ result' # result
           Running == /\ service' = "loaded" /\ daemon' = loaded'
                      /\ result' = "installed" => loaded' = plist'
<1>1. ASSUME IInv, Next, Success PROVE Running
  <2>1. Kickstart \/ Restart
    BY <1>1 DEF Next, Steps, Relaunch, Tick, Shutdown, Crash, Install, Uninstall, Update,
       Start, WritePlist, Bootout, waitForBootout, Bootstrap, KickstartFails, RemovePlist,
       Interrupt, Ends, Retry, TryAgain
  <2>2. CASE Kickstart
    BY <1>1, <2>2 DEF Kickstart, Awake, kickstart, Spawned, launchd, IInv, LoadedIsFile
  <2>3. CASE Restart
    <3>1. result' = "updated"
      BY <1>1, <2>3 DEF Restart, Ends, TryAgain
    <3>2. (CanKickstart /\ kickstart) \/ bootstrap
      BY <1>1, <2>3, <3>1 DEF Restart, Ends, TryAgain
    <3>3. QED
      BY <3>1, <3>2 DEF CanKickstart, kickstart, bootstrap, Spawned, launchd
  <2>4. QED
    BY <2>1, <2>2, <2>3
<1>2. IInv /\ [Next]_vars => [Success => Running]_vars
    BY <1>1
<1>3. QED
    BY <1>2, Invariance, PTL DEF Spec, InstalledMeansRunning

=============================================================================
