------------------------------ MODULE HostsFile ------------------------------
(***************************************************************************)
(* internal/hostsfile/hostsfile.go: the managed block of /etc/hosts. Install *)
(* and Uninstall read the file, compute its new content and rename it into *)
(* place; Install first keeps a backup, once. A crash, or an edit by others, *)
(* may come in between.                                                    *)
(*                                                                         *)
(* A file is its lines and whether the last one ends with a newline. Lines *)
(* are told apart as far as the code does: "x" and "y" are lines of        *)
(* somebody else, "xCR" is "x" with a carriage return, "blank" is empty,   *)
(* "quotes" contains the text of both markers but is neither; "begin" and  *)
(* "end" are the markers, and a host name is its line in the block.        *)
(***************************************************************************)
EXTENDS Naturals, Sequences, SequencesExt

CONSTANTS
    HostLists,  \* the lists of host names to be installed
    Foreign,    \* the lines of others
    MaxForeign, \* bound: lines outside the block in the first file
    MaxCalls,   \* bound: calls of Install and Uninstall
    MaxEdits    \* bound: lines others add meanwhile

ASSUME ForeignAssumption == Foreign \subseteq {"x", "y", "xCR", "blank", "quotes"}
ASSUME HostListsAssumption ==
    \A hs \in HostLists :
        /\ hs \in Seq(Range(hs))
        /\ \A i \in DOMAIN hs : hs[i] \notin Foreign \cup {"begin", "end"}
ASSUME BoundsAssumption == MaxForeign \in Nat /\ MaxCalls \in Nat /\ MaxEdits \in Nat

VARIABLES
    file,       \* the content of /etc/hosts
    theirs,     \* history: its content as others last left it
    backup,     \* the backup: "none", "torn" or "kept"
    call,       \* the call under way: its phase, host list and what it read
    wants,      \* history: the block last asked for
    calls, edits

vars == <<file, theirs, backup, call, wants, calls, edits>>

\* Contents as the bytes determine them: without a newline at its end a file
\* has no empty last line.
IsContent(f) ==
    /\ ~f.nl => f.lines = <<>> \/ Last(f.lines) # "blank"
    /\ f.nl => f.lines # <<>>

Lines == Foreign \cup {"begin", "end", "x", "oldhost"} \cup UNION {Range(hs) : hs \in HostLists}
Contents == {f \in [lines : Seq(Lines), nl : BOOLEAN] : IsContent(f)}

\* No call has returned; the last one was Uninstall.
Unknown == <<"unknown">>
Nothing == <<>>

NoCall == [phase |-> "idle"]

\* The first line that is the marker, or 0.
Place(lines, marker) == SelectInSeq(lines, LAMBDA l : l = marker)

\* The lines outside the block of a file that has at most one.
Outside(f) ==
    IF Place(f.lines, "begin") = 0 THEN f.lines
    ELSE SubSeq(f.lines, 1, Place(f.lines, "begin") - 1)
            \o SubSeq(f.lines, Place(f.lines, "end") + 1, Len(f.lines))

\* Files nobody damaged: no block, or one anywhere.
FirstForeign == UNION {[1..n -> Foreign] : n \in 0..MaxForeign}
FirstBlocks == {<<>>, <<"begin", "end">>, <<"begin", "oldhost", "end">>}
With(ls, block) == {SubSeq(ls, 1, i) \o block \o SubSeq(ls, i + 1, Len(ls)) : i \in 0..Len(ls)}
FirstLines == UNION {With(ls, block) : ls \in FirstForeign, block \in FirstBlocks}

FirstFiles == {f \in [lines : FirstLines, nl : BOOLEAN] : IsContent(f)}

TypeOK ==
    /\ file \in Contents /\ theirs \in Contents
    /\ backup \in {"none", "torn", "kept"}
    /\ \/ call = NoCall
       \/ call \in [phase : {"backup", "install"}, hosts : HostLists, read : Contents]
       \/ call \in [phase : {"uninstall"}, hosts : {<<>>}, read : Contents]
    /\ calls \in 0..MaxCalls /\ edits \in 0..MaxEdits

Init ==
    /\ file \in FirstFiles
    /\ theirs = file
    /\ backup = "none"
    /\ call = NoCall
    /\ wants = Unknown
    /\ calls = 0
    /\ edits = 0

-----------------------------------------------------------------------------
(***************************************************************************)
(* The pure functions of the code.                                         *)
(***************************************************************************)

\* What bufio.ScanLines returns of a line.
Scanned(line) == IF line = "xCR" THEN "x" ELSE line

AllScanned(lines) == [i \in DOMAIN lines |-> Scanned(lines[i])]

buildBlock(hosts) == <<"begin">> \o hosts \o <<"end">>

\* Wrong: a block is always appended.
NoBlockSeen(f) == FALSE

\* bytes.Contains finds the markers inside other lines, too.
hasBlock(f) ==
    /\ \E i \in DOMAIN f.lines : f.lines[i] \in {"begin", "quotes"}
    /\ \E i \in DOMAIN f.lines : f.lines[i] \in {"end", "quotes"}

\* Wrong: the block is never left again.
ScanForever(s, line, block) ==
    IF Scanned(line) = "begin" THEN [in |-> TRUE, written |-> TRUE, out |-> s.out \o block]
    ELSE IF s.in THEN s
    ELSE [s EXCEPT !.out = Append(@, Scanned(line))]

\* One turn of the loop over the lines: the block replaces BEGIN, and what
\* follows up to END is left out.
Scan(s, line, block) ==
    IF Scanned(line) = "begin" THEN [in |-> TRUE, written |-> TRUE, out |-> s.out \o block]
    ELSE IF s.in THEN [s EXCEPT !.in = Scanned(line) # "end"]
    ELSE [s EXCEPT !.out = Append(@, Scanned(line))]

\* The loop.
Scanning(f, block) ==
    LET after[n \in 0..Len(f.lines)] ==
            IF n = 0 THEN [in |-> FALSE, written |-> FALSE, out |-> <<>>]
                     ELSE Scan(after[n - 1], f.lines[n], block)
    IN  after[Len(f.lines)]

\* Wrong: it is forgotten that the block was written in its old place.
BlockTwice(f, block) == [lines |-> Scanning(f, block).out \o block, nl |-> TRUE]

replaceOrAppendBlock(f, block) ==
    LET s == Scanning(f, block) IN
    IF ~hasBlock(f) THEN [lines |-> f.lines \o block, nl |-> TRUE]
    ELSE [lines |-> IF s.written THEN s.out ELSE s.out \o block, nl |-> TRUE]

\* bytes.TrimRight of all the newlines at the end.
TrimRight(lines) ==
    [lines |-> SubSeq(lines, 1, SelectLastInSeq(lines, LAMBDA l : l # "blank")), nl |-> FALSE]

removeBlock(f) == IF hasBlock(f) THEN TrimRight(Scanning(f, <<>>).out) ELSE f

-----------------------------------------------------------------------------
(***************************************************************************)
(* Calls.                                                                  *)
(***************************************************************************)

Called == call = NoCall /\ calls < MaxCalls /\ calls' = calls + 1

\* Install reads the file, and starts on the backup unless there is one.
StartInstall(hosts) ==
    /\ Called
    /\ call' = [phase |-> IF backup = "none" THEN "backup" ELSE "install",
                hosts |-> hosts, read |-> file]
    /\ backup' = IF backup = "none" THEN "torn" ELSE backup
    /\ UNCHANGED <<file, theirs, wants, edits>>

FinishBackup ==
    /\ call.phase = "backup"
    /\ backup' = "kept"
    /\ call' = [call EXCEPT !.phase = "install"]
    /\ UNCHANGED <<file, theirs, wants, calls, edits>>

\* The new content of what was read is renamed into place, over what others have
\* added since, unless it is the same as what was read.
Finish(out) ==
    /\ IF out = call.read
          THEN UNCHANGED <<file, theirs>>
          ELSE file' = out /\ theirs' = IF file = call.read THEN theirs ELSE call.read
    /\ call' = NoCall
    /\ UNCHANGED <<backup, calls, edits>>

FinishInstall ==
    /\ call.phase = "install"
    /\ Finish(replaceOrAppendBlock(call.read, buildBlock(call.hosts)))
    /\ wants' = buildBlock(call.hosts)

StartUninstall ==
    /\ Called
    /\ call' = [phase |-> "uninstall", hosts |-> <<>>, read |-> file]
    /\ UNCHANGED <<file, theirs, backup, wants, edits>>

FinishUninstall ==
    /\ call.phase = "uninstall"
    /\ Finish(removeBlock(call.read))
    /\ wants' = Nothing

\* A crash before the rename leaves the file as it is.
Crash ==
    /\ call # NoCall
    /\ call' = NoCall
    /\ UNCHANGED <<file, theirs, backup, wants, calls, edits>>

\* Somebody adds a line at the end.
Edit(line) ==
    /\ edits < MaxEdits
    /\ file' = [lines |-> Append(file.lines, line), nl |-> TRUE]
    /\ theirs' = file'
    /\ edits' = edits + 1
    /\ UNCHANGED <<backup, call, wants, calls>>

Next ==
    \/ \E hosts \in HostLists : StartInstall(hosts)
    \/ FinishBackup \/ FinishInstall
    \/ StartUninstall \/ FinishUninstall
    \/ Crash
    \/ \E line \in Foreign : Edit(line)

Spec == Init /\ [][Next]_vars

-----------------------------------------------------------------------------
(***************************************************************************)
(* Properties.                                                             *)
(***************************************************************************)

\* The lines without what is known to change: carriage returns, and the empty
\* lines at the end.
Essence(f) == TrimRight(AllScanned(Outside(f))).lines

\* hostsfile.go:3: "anything outside is preserved": no sequence of calls, crashes
\* and edits loses, adds or reorders a line that is not in the managed block,
\* wherever that is in the file, but for a line added between the read and the
\* rename of a call.
OutsideKept == Essence(file) = Essence(theirs)

\* hostsfile.go:3: "Install and Uninstall are idempotent", on every file that
\* calls and crashes lead to, unless it has carriage returns: those Install only
\* strips once there is a block, so on such a file a second call changes it again.
Idempotent ==
    "xCR" \notin Range(file.lines) =>
    /\ \A hosts \in HostLists :
          LET once == replaceOrAppendBlock(file, buildBlock(hosts))
          IN  replaceOrAppendBlock(once, buildBlock(hosts)) = once
    /\ removeBlock(removeBlock(file)) = removeBlock(file)

\* hostsfile.go:21: after Install "the given hostnames are mapped inside the
\* managed block": there is one block, and it holds those and no older ones;
\* after Uninstall there is none.
BlockIsWanted ==
    /\ wants = Nothing => Place(file.lines, "begin") = 0
    /\ wants \notin {Nothing, Unknown} =>
          SubSeq(file.lines, Place(file.lines, "begin"), Place(file.lines, "end")) = wants
    /\ \A i \in DOMAIN Outside(file) : Outside(file)[i] \notin {"begin", "end"}
=============================================================================
