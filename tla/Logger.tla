------------------------------- MODULE Logger -------------------------------
(***************************************************************************)
(* internal/logging/logger.go with handleLogs of internal/control/         *)
(* server.go: how an entry gets into the global ring and into that of its  *)
(* tunnel, and what `tunnelctl logs` is answered from them.                *)
(*                                                                         *)
(* A ring is what BoundedLog says of it: the latest entries, oldest first. *)
(* RingBuffer shows that it is. Rings are numbered as they are made, and   *)
(* tunnelRings has the number of a name; the global ring is that of the    *)
(* empty name. The rotating files are left out.                            *)
(***************************************************************************)
EXTENDS Naturals, Sequences, FiniteSets

CONSTANTS
    Writers,        \* goroutines that log
    Readers,        \* calls of handleLogs
    Tunnels,        \* whose entries are logged
    NoTunnel,       \* the empty name
    AskedFor,       \* the names clients ask for, with or without a tunnel
    Levels,
    Filters,        \* the sets of levels a filter lets pass
    Tails,          \* how many entries clients ask for
    tunnelCap,
    MaxWrites       \* bound: entries of a writer

ASSUME CapAssumption == tunnelCap \in Nat \ {0} /\ Tails \subseteq Nat \ {0}
ASSUME MaxWritesAssumption == MaxWrites \in Nat

VARIABLES
    tunnelRings,    \* name to ring, 0 for none yet
    rings,          \* the entries of the rings
    call,           \* per goroutine: where it is, for which name, with which ring
    entry,          \* what a writer writes
    query,          \* what a reader has been asked
    writes,         \* number of entries of a writer
    logged          \* history: per name, the entries in the order of the appends

vars == <<tunnelRings, rings, call, entry, query, writes, logged>>

Names == Tunnels \cup AskedFor \cup {NoTunnel}
Callers == Writers \cup Readers
GlobalRing == 1

Idle == [at |-> "idle", name |-> NoTunnel, ring |-> 0]
NoEntry == [tunnel |-> NoTunnel, level |-> ""]
NoQuery == [passes |-> {}, tail |-> 0]

Latest(s, n) == SubSeq(s, IF Len(s) > n THEN Len(s) - n + 1 ELSE 1, Len(s))
Capacity(name) == IF name = NoTunnel THEN 4 * tunnelCap ELSE tunnelCap

Entries == [tunnel : Tunnels \cup {NoTunnel}, level : Levels \cup {""}]

TypeOK ==
    /\ rings \in Seq(Seq(Entries))
    /\ tunnelRings \in [Names -> 0..Len(rings)]
    /\ call \in [Callers -> [at : {"idle", "global", "lookup", "missing", "found"},
                             name : Names, ring : 0..Len(rings)]]
    /\ entry \in [Writers -> Entries]
    /\ query \in [Readers -> [passes : Filters \cup {{}}, tail : Tails \cup {0}]]
    /\ writes \in [Writers -> 0..MaxWrites]
    /\ logged \in [Names -> Seq(Entries)]

Init ==
    /\ tunnelRings = [n \in Names |-> IF n = NoTunnel THEN GlobalRing ELSE 0]
    /\ rings = <<<<>>>>
    /\ call = [k \in Callers |-> Idle]
    /\ entry = [w \in Writers |-> NoEntry]
    /\ query = [r \in Readers |-> NoQuery]
    /\ writes = [w \in Writers |-> 0]
    /\ logged = [n \in Names |-> <<>>]

At(k, at) == call[k].at = at
Goto(k, at) == call' = [call EXCEPT ![k].at = at]
Has(k, ring) == call' = [call EXCEPT ![k].at = "found", ![k].ring = ring]
Returns(k) == call' = [call EXCEPT ![k] = Idle]

Append1(ring, name, e) ==
    /\ rings' = [rings EXCEPT ![ring] = Latest(Append(@, e), Capacity(name))]
    /\ logged' = [logged EXCEPT ![name] = Append(@, e)]

-----------------------------------------------------------------------------
(***************************************************************************)
(* TunnelRing.                                                             *)
(***************************************************************************)

\* Under the read lock.
Lookup(k) ==
    /\ At(k, "lookup")
    /\ IF tunnelRings[call[k].name] # 0 THEN Has(k, tunnelRings[call[k].name])
                                        ELSE Goto(k, "missing")
    /\ UNCHANGED <<tunnelRings, rings, entry, query, writes, logged>>

NewRing(name) ==
    /\ rings' = Append(rings, <<>>)
    /\ tunnelRings' = [tunnelRings EXCEPT ![name] = Len(rings) + 1]

\* The supervisor, before a tunnel's runner starts.
RegisterTunnel(t) ==
    /\ tunnelRings[t] = 0
    /\ NewRing(t)
    /\ UNCHANGED <<call, entry, query, writes, logged>>

\* Wrong: what was missing under the read lock is missing.
CreateUnchecked(k) ==
    /\ NewRing(call[k].name)
    /\ Has(k, Len(rings) + 1)

\* Under the write lock, where another may have been here in between.
Create(k) ==
    IF tunnelRings[call[k].name] # 0
    THEN Has(k, tunnelRings[call[k].name]) /\ UNCHANGED <<tunnelRings, rings>>
    ELSE NewRing(call[k].name) /\ Has(k, Len(rings) + 1)

GetOrCreate(k) ==
    /\ At(k, "missing")
    /\ Create(k)
    /\ UNCHANGED <<entry, query, writes, logged>>

-----------------------------------------------------------------------------
(***************************************************************************)
(* Write and handleLogs.                                                   *)
(***************************************************************************)

\* Daemon, Access and Kubectl make the entry.
Write(w, t, l) ==
    /\ At(w, "idle") /\ writes[w] < MaxWrites
    /\ entry' = [entry EXCEPT ![w] = [tunnel |-> t, level |-> l]]
    /\ writes' = [writes EXCEPT ![w] = @ + 1]
    /\ call' = [call EXCEPT ![w] = [at |-> "global", name |-> t, ring |-> 0]]
    /\ UNCHANGED <<tunnelRings, rings, query, logged>>

AppendGlobal(w) ==
    /\ At(w, "global")
    /\ Append1(GlobalRing, NoTunnel, entry[w])
    /\ IF entry[w].tunnel # NoTunnel THEN Goto(w, "lookup") ELSE Returns(w)
    /\ UNCHANGED <<tunnelRings, entry, query, writes>>

AppendTunnel(w) ==
    /\ At(w, "found")
    /\ Append1(call[w].ring, call[w].name, entry[w])
    /\ Returns(w)
    /\ UNCHANGED <<tunnelRings, entry, query, writes>>

\* A filter that does not parse is answered with 400 before anything else.
handleLogs(r, n, f, tail) ==
    /\ At(r, "idle")
    /\ query' = [query EXCEPT ![r] = [passes |-> f, tail |-> tail]]
    /\ call' = [call EXCEPT ![r] =
          IF n = NoTunnel THEN [at |-> "found", name |-> n, ring |-> GlobalRing]
                          ELSE [at |-> "lookup", name |-> n, ring |-> 0]]
    /\ UNCHANGED <<tunnelRings, rings, entry, writes, logged>>

Filtered(s, e, f) == IF e.level \in f THEN Append(s, e) ELSE s

\* The loop over the entries.
Passing(s, f) ==
    LET kept[i \in 0..Len(s)] == IF i = 0 THEN <<>> ELSE Filtered(kept[i - 1], s[i], f)
    IN  kept[Len(s)]

\* Wrong: as many as were asked for, from the front.
AnswerOldest(s, q) ==
    LET passing == Passing(s, q.passes)
    IN  SubSeq(passing, 1, IF Len(passing) > q.tail THEN q.tail ELSE Len(passing))

\* Of a snapshot: filter, then tail.
Answer(s, q) == Latest(Passing(s, q.passes), q.tail)

Response(r) == Answer(rings[call[r].ring], query[r])

Respond(r) ==
    /\ At(r, "found")
    /\ Returns(r)
    /\ query' = [query EXCEPT ![r] = NoQuery]
    /\ UNCHANGED <<tunnelRings, rings, entry, writes, logged>>

Next ==
    \/ \E w \in Writers :
          \/ \E t \in Tunnels \cup {NoTunnel}, l \in Levels : Write(w, t, l)
          \/ AppendGlobal(w) \/ AppendTunnel(w)
    \/ \E r \in Readers :
          \/ \E n \in AskedFor \cup {NoTunnel}, f \in Filters, t \in Tails : handleLogs(r, n, f, t)
          \/ Respond(r)
    \/ \E t \in Tunnels : RegisterTunnel(t)
    \/ \E k \in Callers : Lookup(k) \/ GetOrCreate(k)

Spec == Init /\ [][Next]_vars

-----------------------------------------------------------------------------
(***************************************************************************)
(* Properties.                                                             *)
(***************************************************************************)

\* logger.go:90: TunnelRing is "creating it if necessary": however writers and
\* readers meet at the first entry of a tunnel, there is one ring of it, and every
\* entry that was appended is there until later ones push it out.
NothingLost ==
    \A n \in Names :
        Latest(logged[n], Capacity(n)) =
            IF tunnelRings[n] = 0 THEN <<>> ELSE rings[tunnelRings[n]]

\* server.go:174: "Apply filter, then tail": the answer holds as many entries as were
\* asked for, or all that pass of those its ring still holds, and they are the latest
\* in the order they were logged: one with n later ones that pass is the (n+1)-th
\* from the end.
AnswerMissesOldest ==
    \A r \in Readers : At(r, "found") =>
        LET all == logged[call[r].name]
            held == {i \in DOMAIN all : i > Len(all) - Capacity(call[r].name)
                                         /\ all[i].level \in query[r].passes}
            Later(i) == Cardinality({j \in held : j > i})
        IN  /\ Len(Response(r)) = IF Cardinality(held) < query[r].tail THEN Cardinality(held)
                                                                      ELSE query[r].tail
            /\ \A i \in held : Later(i) < query[r].tail =>
                   Response(r)[Len(Response(r)) - Later(i)] = all[i]
=============================================================================
