------------------------------ MODULE Dashboard ------------------------------
(***************************************************************************)
(* internal/tui/dashboard.go with StreamStatus of internal/control/        *)
(* client.go and handleEvents of internal/control/server.go: how what the  *)
(* daemon reports gets on the screen, between the keys of the user.        *)
(*                                                                         *)
(* Update handles one message at a time, so it is one action per message   *)
(* or key. A snapshot comes a long way: handleEvents polls it, a goroutine *)
(* of the client decodes it into a channel, and another one sends it to    *)
(* the program; the wire is all of that, in order. But the first snapshot  *)
(* is the result of the command that opened the stream, which by then has  *)
(* started the pump for the others.                                        *)
(*                                                                         *)
(* A tunnel is its name; an entry has a tunnel, or none. Layout and        *)
(* scrolling, the error line and the requests of r and R (Supervisor's     *)
(* Restart, Daemon's HandleReload) leave no trace here. The model ends     *)
(* where q ends the program.                                               *)
(***************************************************************************)
EXTENDS Integers, Sequences

CONSTANTS
    Snapshots,      \* what Supervisor.Status may report: sequences of tunnels
    NoTunnel,
    Entries,        \* what the log stream may send
    Accepted,       \* the entries that a search or a filter accepts
    NoText,         \* the empty search or filter
    Searches, Filters,
    maxEntries,
    WireCap         \* bound: snapshots on their way

Names == UNION {{s[i] : i \in DOMAIN s} : s \in Snapshots}

ASSUME SnapshotsAssumption == Snapshots \subseteq Seq(Names) /\ NoTunnel \notin Names
ASSUME TextsAssumption == Accepted[NoText] = Entries

VARIABLES
    daemon,     \* the tunnels of the daemon's supervisor
    serving,    \* handleEvents serves this client
    stream,     \* where the status stream is
    first,      \* the result of startStatusStream, not yet in Update
    wire,       \* snapshots polled and not yet in Update
    tunnels, cursor,
    vpReady, entries, pane,
    focus, search, filter, paused

server == <<daemon, serving>>
link == <<server, stream, first, wire>>
table == <<tunnels, cursor>>
texts == <<search, filter>>
vars == <<link, table, vpReady, entries, pane, focus, texts, paused>>

Nothing == <<>>     \* no message in hand

currentName == IF cursor + 1 \in DOMAIN tunnels THEN tunnels[cursor + 1] ELSE NoTunnel

Visible(name, es, s, f) ==
    SelectSeq(es, LAMBDA e : /\ name = NoTunnel \/ e.tunnel \in {NoTunnel, name}
                             /\ e \in Accepted[f] \cap Accepted[s])

\* The last conjunct of the actions that may change what the log pane shows.
refreshLogs ==
    pane' = IF vpReady' THEN Visible(currentName', entries', search', filter') ELSE pane

TypeOK ==
    /\ daemon \in Snapshots /\ serving \in BOOLEAN
    /\ stream \in {"connecting", "opened", "pumped", "lost"}
    /\ first \in {Nothing} \cup {<<s>> : s \in Snapshots}
    /\ wire \in Seq(Snapshots)
    /\ tunnels \in Seq(Names) /\ cursor \in Int
    /\ entries \in Seq(Entries)
    /\ focus \in {"table", "logs", "search", "filter"}

Init ==
    /\ daemon \in Snapshots
    /\ serving = FALSE /\ stream = "connecting" /\ first = Nothing /\ wire = <<>>
    /\ tunnels = <<>> /\ cursor = 0
    /\ vpReady = FALSE /\ entries = <<>> /\ pane = <<>>
    /\ focus = "table" /\ search = NoText /\ filter = NoText /\ paused = FALSE

-----------------------------------------------------------------------------
(***************************************************************************)
(* The daemon and the status stream.                                       *)
(***************************************************************************)

screen == <<table, vpReady, entries, pane, focus, texts, paused>>

\* The supervisor starts or reloads.
Changes(s) ==
    /\ serving /\ s # daemon
    /\ daemon' = s
    /\ UNCHANGED <<serving, stream, first, wire, screen>>

\* handleEvents sends the initial state at once.
StreamStatus ==
    /\ stream = "connecting"
    /\ stream' = "opened" /\ serving' = TRUE /\ wire' = <<daemon>>
    /\ UNCHANGED <<daemon, first, screen>>

\* The daemon is not there, or its first snapshot is too late or never comes.
\* Nothing tries again, and nobody reads the channel.
StatusFails ==
    /\ stream = "connecting" \/ stream = "opened"
    /\ stream' = "lost" /\ serving' = FALSE /\ wire' = <<>>
    /\ UNCHANGED <<daemon, first, screen>>

FirstPulled ==
    /\ stream = "opened" /\ wire # <<>>
    /\ first' = <<Head(wire)>> /\ wire' = Tail(wire)
    /\ stream' = "pumped"
    /\ UNCHANGED <<server, screen>>

\* The ticker of handleEvents.
Poll ==
    /\ serving /\ Len(wire) < WireCap
    /\ wire' = Append(wire, daemon)
    /\ UNCHANGED <<server, stream, first, screen>>

\* The daemon ends or the connection breaks: the pump ends once it has sent the
\* rest. The program is not told.
StreamEnds ==
    /\ serving
    /\ serving' = FALSE
    /\ UNCHANGED <<daemon, stream, first, wire, screen>>

-----------------------------------------------------------------------------
(***************************************************************************)
(* Update: the messages.                                                   *)
(***************************************************************************)

minOf(a, b) == IF a < b THEN a ELSE b
maxOf(a, b) == IF a > b THEN a ELSE b

\* table.SetRows and table.SetCursor of the Bubbles library.
SetRows(rows, c) == minOf(c, Len(rows) - 1)
SetCursor(rows, c) == minOf(maxOf(c, 0), Len(rows) - 1)

\* Wrong: the highlight stays where it was.
selectByNameNot(name, rows) == SetRows(rows, cursor)

selectByName(name, rows) ==
    IF \E i \in DOMAIN rows : rows[i] = name
    THEN SetCursor(rows, (CHOOSE i \in DOMAIN rows : rows[i] = name) - 1)
    ELSE SetRows(rows, cursor)

\* Wrong: what is paused is paused for snapshots, too.
statusMsgPaused(s) ==
    /\ tunnels' = IF paused THEN tunnels ELSE s
    /\ cursor' = IF paused THEN cursor ELSE selectByName(currentName, s)
    /\ UNCHANGED <<vpReady, entries, focus, texts, paused>>
    /\ refreshLogs

\* Wrong: only the table is drawn again.
statusMsgTableOnly(s) ==
    /\ tunnels' = s
    /\ cursor' = selectByName(currentName, s)
    /\ UNCHANGED <<vpReady, entries, pane, focus, texts, paused>>

statusMsg(s) ==
    /\ tunnels' = s
    /\ cursor' = selectByName(currentName, s)
    /\ UNCHANGED <<vpReady, entries, focus, texts, paused>>
    /\ refreshLogs

FirstStatus ==
    /\ first # Nothing
    /\ statusMsg(Head(first))
    /\ first' = Nothing
    /\ UNCHANGED <<server, stream, wire>>

PumpStatus ==
    /\ stream = "pumped" /\ wire # <<>>
    /\ statusMsg(Head(wire))
    /\ wire' = Tail(wire)
    /\ UNCHANGED <<server, stream, first>>

\* An entry of the log stream, which runs on its own; one that comes while the
\* dashboard is paused is gone.
LogMsg(e) ==
    /\ ~paused
    /\ LET es == Append(entries, e)
       IN  entries' = IF Len(es) > maxEntries THEN Tail(es) ELSE es
    /\ UNCHANGED <<link, table, vpReady, focus, texts, paused>>
    /\ refreshLogs

WindowSize ==
    /\ vpReady' = TRUE
    /\ UNCHANGED <<link, table, entries, focus, texts, paused>>
    /\ refreshLogs

-----------------------------------------------------------------------------
(***************************************************************************)
(* handleKey. A filter that does not parse leaves the prompt as it is.     *)
(***************************************************************************)

\* Keys of the two prompts.
TypeSearch(s) ==
    /\ focus = "search"
    /\ search' = s
    /\ UNCHANGED <<link, table, vpReady, entries, focus, filter, paused>>
    /\ refreshLogs

EnterFilter(f) ==
    /\ focus = "filter"
    /\ filter' = f
    /\ focus' = "logs"
    /\ UNCHANGED <<link, table, vpReady, entries, search, paused>>
    /\ refreshLogs

\* Esc in a prompt, which keeps what was typed of a search, or Enter in it.
LeavePrompt ==
    /\ focus \in {"search", "filter"}
    /\ focus' = "logs"
    /\ UNCHANGED <<link, table, vpReady, entries, pane, texts, paused>>

\* Every other key has its meaning outside the prompts.
Key == focus \in {"table", "logs"}

SetFocus(a) ==
    /\ Key
    /\ focus' = a
    /\ UNCHANGED <<link, table, vpReady, entries, pane, texts, paused>>

Tab == SetFocus(IF focus = "table" THEN "logs" ELSE "table")
Search == SetFocus("search")
Filter == SetFocus("filter")

Pause ==
    /\ Key
    /\ paused' = ~paused
    /\ UNCHANGED <<link, table, vpReady, entries, pane, focus, texts>>

Clear ==
    /\ Key
    /\ entries' = <<>>
    /\ UNCHANGED <<link, table, vpReady, focus, texts, paused>>
    /\ refreshLogs

Esc ==
    /\ Key
    /\ search' = NoText
    /\ UNCHANGED <<link, table, vpReady, entries, focus, filter, paused>>
    /\ refreshLogs

\* Up and down, of the table when it has the focus.
Move(by) ==
    /\ focus = "table"
    /\ cursor' = SetCursor(tunnels, cursor + by)
    /\ UNCHANGED <<link, tunnels, vpReady, entries, focus, texts, paused>>
    /\ refreshLogs

Next ==
    \/ \E s \in Snapshots : Changes(s)
    \/ StreamStatus \/ StatusFails \/ FirstPulled \/ Poll \/ StreamEnds
    \/ FirstStatus \/ PumpStatus \/ WindowSize
    \/ \E e \in Entries : LogMsg(e)
    \/ \E s \in Searches \cup {NoText} : TypeSearch(s)
    \/ \E f \in Filters \cup {NoText} : EnterFilter(f)
    \/ LeavePrompt \/ Tab \/ Search \/ Filter \/ Pause \/ Clear \/ Esc
    \/ \E by \in {-1, 1} : Move(by)

Spec == Init /\ [][Next]_vars

\* The ticker ticks and the goroutines of the stream run; the program receives
\* from every sender in turn.
FairSpec == Spec /\ WF_vars(Poll) /\ WF_vars(PumpStatus) /\ WF_vars(FirstStatus)

-----------------------------------------------------------------------------
(***************************************************************************)
(* Properties.                                                             *)
(***************************************************************************)

\* dashboard.go:487: the log pane shows the entries "that pass the
\* selected-tunnel, filter and search constraints", those in force now, whichever
\* of the messages and keys has changed the last of them.
PaneIsCurrent == vpReady => pane = Visible(currentName, entries, search, filter)

\* dashboard.go:239: "Preserve selection by name across snapshots": as long as the
\* selected tunnel is there, no snapshot selects another one, which the next r
\* would restart.
SelectionFollowsTunnel ==
    [][tunnels' # tunnels /\ (\E i \in DOMAIN tunnels' : tunnels'[i] = currentName)
          => currentName' = currentName]_vars

\* README.md:26: a live view. What the daemon settles on is what the table shows
\* from some time on, though the first snapshot may overtake later ones, unless
\* the stream is gone.
StatusShown ==
    \A s \in Snapshots :
        <>[](daemon = s /\ serving /\ stream = "pumped") => <>[](tunnels = s)
=============================================================================
