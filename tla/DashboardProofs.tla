--------------------------- MODULE DashboardProofs ---------------------------
(***************************************************************************)
(* What Dashboard promises of the screen, for all tunnels, entries, texts  *)
(* and lengths, and LogQuery of the queries that are typed into its filter *)
(* prompt, for all words, entries and lengths.                             *)
(***************************************************************************)
EXTENDS Dashboard, LogQuery, SequenceTheorems, WellFoundedInduction, TLAPS

\* Whatever is in hand or on the wire is a list of tunnels.
Inv ==
    /\ first \in {Nothing} \cup {<<s>> : s \in Snapshots}
    /\ wire \in Seq(Snapshots)
    /\ daemon \in Snapshots
    /\ tunnels \in Seq(Names)
    /\ cursor \in Int
    /\ PaneIsCurrent

\* Clamping keeps the cursor an integer, and an index of a row as it is.
LEMMA CursorInRange ==
    ASSUME NEW rows \in Seq(Names), NEW c \in Int
    PROVE  /\ SetRows(rows, c) \in Int
           /\ SetCursor(rows, c) \in Int
           /\ c + 1 \in DOMAIN rows => SetCursor(rows, c) = c
BY DEF SetRows, SetCursor, minOf, maxOf

\* A snapshot with the tunnel of that name selects it.
LEMMA SelectsName ==
    ASSUME NEW rows \in Seq(Names), NEW name, cursor \in Int
    PROVE  /\ selectByName(name, rows) \in Int
           /\ (\E i \in DOMAIN rows : rows[i] = name) =>
                 /\ selectByName(name, rows) + 1 \in DOMAIN rows
                 /\ rows[selectByName(name, rows) + 1] = name
<1>1. CASE \E i \in DOMAIN rows : rows[i] = name
  <2> DEFINE k == CHOOSE i \in DOMAIN rows : rows[i] = name
  <2>1. k \in DOMAIN rows /\ rows[k] = name
    BY <1>1
  <2>2. k - 1 \in Int /\ (k - 1) + 1 \in DOMAIN rows /\ (k - 1) + 1 = k
    BY <2>1
  <2>3. selectByName(name, rows) = SetCursor(rows, k - 1)
    BY <1>1 DEF selectByName
  <2>4. selectByName(name, rows) = k - 1
    BY <2>2, <2>3, CursorInRange
  <2> QED
    BY <2>1, <2>2, <2>4
<1>2. CASE ~\E i \in DOMAIN rows : rows[i] = name
  BY <1>2, CursorInRange DEF selectByName
<1> QED
  BY <1>1, <1>2

\* What a snapshot does, the first one or one that was pumped.
LEMMA StatusKeeps ==
    ASSUME Inv, NEW s \in Snapshots, statusMsg(s)
    PROVE  tunnels' \in Seq(Names) /\ cursor' \in Int /\ PaneIsCurrent'
<1>1. s \in Seq(Names)
  BY SnapshotsAssumption
<1>2. tunnels' \in Seq(Names) /\ cursor' \in Int
  BY <1>1, SelectsName DEF Inv, statusMsg
<1> QED
  BY <1>2 DEF statusMsg, refreshLogs, PaneIsCurrent

\* What the log pane shows depends on nothing else.
shown == <<tunnels, cursor, vpReady, entries, pane, search, filter>>

LEMMA PaneKept ==
    ASSUME PaneIsCurrent, UNCHANGED shown
    PROVE  PaneIsCurrent'
<1>1. currentName' = currentName
  BY DEF shown, currentName
<1> QED
  BY <1>1 DEF shown, PaneIsCurrent

LEMMA InvInit == Init => Inv
<1> SUFFICES ASSUME Init PROVE Inv
  OBVIOUS
<1> QED
  BY DEF Init, Inv, PaneIsCurrent

LEMMA InvNext == Inv /\ [Next]_vars => Inv'
<1> SUFFICES ASSUME Inv, [Next]_vars PROVE Inv'
  OBVIOUS
<1> USE DEF Inv
<1>1. ASSUME NEW s \in Snapshots, Changes(s) PROVE Inv'
  BY <1>1, PaneKept DEF Changes, screen, table, texts, shown
<1>2. CASE StreamStatus
  BY <1>2, PaneKept DEF StreamStatus, screen, table, texts, shown
<1>3. CASE StatusFails
  BY <1>3, PaneKept DEF StatusFails, screen, table, texts, shown
<1>4. CASE FirstPulled
  BY <1>4, PaneKept DEF FirstPulled, server, screen, table, texts, shown
<1>5. CASE Poll
  BY <1>5, PaneKept DEF Poll, server, screen, table, texts, shown
<1>6. CASE StreamEnds
  BY <1>6, PaneKept DEF StreamEnds, screen, table, texts, shown
<1>7. CASE FirstStatus
  <2>1. PICK s \in Snapshots : first = <<s>>
    BY <1>7 DEF FirstStatus
  <2>2. statusMsg(s)
    BY <1>7, <2>1 DEF FirstStatus
  <2> QED
    BY <1>7, <2>2, StatusKeeps DEF FirstStatus, server
<1>8. CASE PumpStatus
  <2>1. Head(wire) \in Snapshots /\ Tail(wire) \in Seq(Snapshots)
    BY <1>8 DEF PumpStatus
  <2> QED
    BY <1>8, <2>1, StatusKeeps DEF PumpStatus, server
<1>9. CASE WindowSize
  BY <1>9 DEF WindowSize, refreshLogs, link, server, table, texts, PaneIsCurrent
<1>10. ASSUME NEW e \in Entries, LogMsg(e) PROVE Inv'
  BY <1>10 DEF LogMsg, refreshLogs, link, server, table, texts, PaneIsCurrent
<1>11. ASSUME NEW s, TypeSearch(s) PROVE Inv'
  BY <1>11 DEF TypeSearch, refreshLogs, link, server, table, texts, PaneIsCurrent
<1>12. ASSUME NEW f, EnterFilter(f) PROVE Inv'
  BY <1>12 DEF EnterFilter, refreshLogs, link, server, table, texts, PaneIsCurrent
<1>13. CASE LeavePrompt
  BY <1>13, PaneKept DEF LeavePrompt, link, server, table, texts, shown
<1>14. ASSUME NEW a, SetFocus(a) PROVE Inv'
  BY <1>14, PaneKept DEF SetFocus, link, server, table, texts, shown
<1>15. CASE Pause
  BY <1>15, PaneKept DEF Pause, link, server, table, texts, shown
<1>16. CASE Clear
  BY <1>16 DEF Clear, refreshLogs, link, server, table, texts, PaneIsCurrent
<1>17. CASE Esc
  BY <1>17 DEF Esc, refreshLogs, link, server, table, texts, PaneIsCurrent
<1>18. ASSUME NEW by \in {-1, 1}, Move(by) PROVE Inv'
  <2>1. cursor' \in Int
    BY <1>18, CursorInRange DEF Move
  <2> QED
    BY <1>18, <2>1 DEF Move, refreshLogs, link, server, texts, PaneIsCurrent
<1>19. CASE UNCHANGED vars
  BY <1>19, PaneKept DEF vars, link, server, table, texts, shown
<1> QED
  BY <1>1, <1>2, <1>3, <1>4, <1>5, <1>6, <1>7, <1>8, <1>9, <1>10, <1>11, <1>12,
     <1>13, <1>14, <1>15, <1>16, <1>17, <1>18, <1>19
     DEF Next, Tab, Search, Filter

\* The log pane always shows what passes the constraints in force (dashboard.go:487).
THEOREM PaneCurrent == Spec => []PaneIsCurrent
<1>1. Spec => []Inv
  BY InvInit, InvNext, PTL DEF Spec
<1>2. Inv => PaneIsCurrent
  BY DEF Inv
<1> QED
  BY <1>1, <1>2, PTL

\* No snapshot moves the selection off a tunnel that is still there
\* (dashboard.go:239).
THEOREM SelectionKept == Spec => SelectionFollowsTunnel
<1> DEFINE Kept == tunnels' # tunnels /\ (\E i \in DOMAIN tunnels' : tunnels'[i] = currentName)
                      => currentName' = currentName
<1>1. ASSUME Inv, NEW s \in Snapshots, statusMsg(s) PROVE Kept
  <2>1. s \in Seq(Names) /\ tunnels' = s /\ cursor' = selectByName(currentName, s)
    BY <1>1, SnapshotsAssumption DEF statusMsg
  <2> QED
    BY <2>1, <1>1, SelectsName DEF Inv, currentName
<1>2. ASSUME Inv, [Next]_vars, tunnels' # tunnels PROVE \E s \in Snapshots : statusMsg(s)
  <2>1. FirstStatus \/ PumpStatus
    BY <1>2 DEF Next, Changes, StreamStatus, StatusFails, FirstPulled, Poll, StreamEnds,
       WindowSize, LogMsg, TypeSearch, EnterFilter, LeavePrompt, Tab, Search, Filter, SetFocus,
       Pause, Clear, Esc, Move, screen, link, table, vars
  <2>2. CASE FirstStatus
    BY <2>2, <1>2 DEF FirstStatus, Inv
  <2>3. CASE PumpStatus
    BY <2>3, <1>2 DEF PumpStatus, Inv
  <2> QED
    BY <2>1, <2>2, <2>3
<1>3. Inv /\ [Next]_vars => [Kept]_vars
  BY <1>1, <1>2
<1>4. Spec => []Inv
  BY InvInit, InvNext, PTL DEF Spec
<1> QED
  BY <1>3, <1>4, PTL DEF Spec, SelectionFollowsTunnel

-----------------------------------------------------------------------------
(***************************************************************************)
(* The query language of the dashboard's filter prompt: what LogQuery      *)
(* promises of queries of any length, for all words and entries. A table   *)
(* of the descent and one of the grammar's meanings are read from the end  *)
(* of the query, where both begin.                                         *)
(***************************************************************************)

LEMMA LeastNumber ==
    ASSUME NEW S \in SUBSET Nat, S # {}
    PROVE  \E x \in S : \A y \in S : x <= y
<1> DEFINE R == {ss \in Nat \X Nat : ss[1] < ss[2]}
<1>1. IsWellFoundedOn(R, Nat)
    BY NatLessThanWellFounded DEF OpToRel
<1>2. PICK x \in S : \A y \in S : <<y, x>> \notin R
  <2> HIDE DEF R
  <2>1. QED
    BY <1>1, WFMin
<1>3. \A y \in S : x <= y
  <2> TAKE y \in S
  <2>1. ~(y < x)
    BY <1>2
  <2>2. QED
    BY <2>1
<1>4. QED
    BY <1>3

\* A recursion over a query goes from a token to later ones. What holds at a token
\* when it holds at all later ones holds everywhere.
LEMMA FromTheEnd ==
    ASSUME NEW n \in Nat, NEW S,
           \A i \in 1..n : (\A j \in (i + 1)..n : j \in S) => i \in S
    PROVE  \A i \in 1..n : i \in S
<1> DEFINE Left == {k \in Nat : k < n /\ n - k \notin S}
<1>1. ASSUME Left # {}
      PROVE  FALSE
  <2>1. PICK k \in Left : \A y \in Left : k <= y
    <3>1. Left \in SUBSET Nat
      OBVIOUS
    <3> HIDE DEF Left
    <3>2. QED
      BY <1>1, <3>1, LeastNumber
  <2>2. n - k \in 1..n /\ n - k \notin S
    BY <2>1
  <2>3. ASSUME NEW j \in (n - k + 1)..n
        PROVE  j \in S
    <3>1. n - j \in Nat /\ n - j < n /\ ~(k <= n - j) /\ n - (n - j) = j
      BY <2>1, <2>2
    <3>2. n - j \notin Left
      BY <2>1, <3>1
    <3>3. QED
      BY <3>1, <3>2
  <2>4. QED
    BY <2>2, <2>3
<1>2. ASSUME NEW i \in 1..n
      PROVE  i \in S
  <2>1. n - i \in Nat /\ n - i < n /\ n - (n - i) = i
    BY <1>2
  <2>2. QED
    BY <1>1, <2>1
<1>3. QED
    BY <1>2

-----------------------------------------------------------------------------

End(q) == Len(q) + 1

\* What may be returned when the token at i is the next one: an error, or a later
\* position.
Result(q, i, r) == r.ok \in BOOLEAN /\ (r.ok => r.pos \in (i + 1)..End(q))

Results(q, i, parsed) == \A rule \in Rules : Result(q, i, parsed[i][rule])

LaterResults(q, i, parsed) == \A j \in (i + 1)..End(q) : Results(q, j, parsed)

Agree(q, i, f, g) == \A j \in (i + 1)..End(q) : f[j] = g[j]

\* parsed is right from the token at i on.
ParsedFrom(q, i, parsed) ==
    parsed = [j \in i..End(q) |-> [rule \in Rules |-> parse(q, rule, j, parsed)]]

LEMMA Kinds ==
    ASSUME NEW q \in Seq(Tokens), NEW i \in Nat
    PROVE  /\ Kind(q, i) \in {"eof", "word", "and", "or", "not", "(", ")"}
           /\ Kind(q, i) # "eof" => i \in 1..Len(q)
           /\ i \in 1..Len(q) => Kind(q, i) # "eof"
           /\ Kind(q, i) = "word" => q[i].word \in Words
<1>1. CASE i \in 1..Len(q)
  <2>1. q[i] \in Tokens
    BY <1>1, ElementOfSeq
  <2>2. Kind(q, i) = q[i].kind
    BY <1>1 DEF Kind
  <2>3. QED
    BY <1>1, <2>1, <2>2 DEF Tokens, Word, Mark
<1>2. CASE i \notin 1..Len(q)
    BY <1>2 DEF Kind
<1>3. QED
    BY <1>1, <1>2

LEMMA TermReads ==
    ASSUME NEW q \in Seq(Tokens), NEW i \in 1..End(q), NEW f, NEW g,
           Agree(q, i, f, g), LaterResults(q, i, f)
    PROVE  /\ parseTerm(q, i, f) = parseTerm(q, i, g)
           /\ Result(q, i, parseTerm(q, i, f))
<1>1. Len(q) \in Nat /\ i \in Nat
    BY DEF End
<1>2. /\ Kind(q, i) # "eof" => i + 1 \in (i + 1)..End(q)
      /\ Kind(q, i) # "eof" => f[i + 1] = g[i + 1]
      /\ Kind(q, i) # "eof" => Results(q, i + 1, f)
  <2>1. Kind(q, i) # "eof" => i \in 1..Len(q)
    BY <1>1, Kinds
  <2>2. QED
    BY <1>1, <2>1 DEF End, Agree, LaterResults
<1>3. CASE Kind(q, i) = "not"
  <2> DEFINE inner == f[i + 1]["term"]
  <2>1. Result(q, i + 1, inner)
    BY <1>2, <1>3 DEF Results, Rules
  <2>2. /\ parseTerm(q, i, f) =
              IF inner.ok THEN Parsed(inner.pos, Universe \ inner.pred)
                          ELSE Fails
        /\ parseTerm(q, i, g) = parseTerm(q, i, f)
    BY <1>2, <1>3 DEF parseTerm, Negated
  <2> HIDE DEF inner
  <2>3. Result(q, i, parseTerm(q, i, f))
    BY <1>1, <2>1, <2>2 DEF Result, Parsed, Fails, End
  <2>4. QED
    BY <2>2, <2>3
<1>4. CASE Kind(q, i) = "("
  <2> DEFINE inner == f[i + 1]["or"]
  <2>1. Result(q, i + 1, inner)
    BY <1>2, <1>4 DEF Results, Rules
  <2>2. /\ parseTerm(q, i, f) =
              IF inner.ok /\ Kind(q, inner.pos) = ")"
              THEN Parsed(inner.pos + 1, inner.pred) ELSE Fails
        /\ parseTerm(q, i, g) = parseTerm(q, i, f)
    BY <1>2, <1>4 DEF parseTerm
  <2> HIDE DEF inner
  <2>3. inner.ok /\ Kind(q, inner.pos) = ")" => inner.pos \in (i + 2)..Len(q)
    <3>1. inner.ok => inner.pos \in Nat /\ inner.pos \in (i + 2)..End(q)
      BY <1>1, <2>1 DEF Result, End
    <3>2. QED
      BY <1>1, <3>1, Kinds
  <2>4. Result(q, i, parseTerm(q, i, f))
    BY <1>1, <2>2, <2>3 DEF Result, Parsed, Fails, End
  <2>5. QED
    BY <2>2, <2>4
<1>5. CASE Kind(q, i) = "word"
  <2>1. /\ parseTerm(q, i, f) =
              IF BadRange(q[i].word) THEN Fails
              ELSE Parsed(i + 1, buildPredicate(q[i].word))
        /\ parseTerm(q, i, g) = parseTerm(q, i, f)
    BY <1>5 DEF parseTerm
  <2>2. QED
    BY <1>1, <1>2, <1>5, <2>1 DEF Result, Parsed, Fails
<1>6. CASE Kind(q, i) \notin {"not", "(", "word"}
  <2>1. parseTerm(q, i, f) = Fails /\ parseTerm(q, i, g) = Fails
    BY <1>6 DEF parseTerm
  <2>2. QED
    BY <2>1 DEF Result, Fails
<1>7. QED
    BY <1>3, <1>4, <1>5, <1>6

LEMMA AndReads ==
    ASSUME NEW q \in Seq(Tokens), NEW i \in 1..End(q), NEW f, NEW g,
           Agree(q, i, f, g), LaterResults(q, i, f)
    PROVE  /\ parseAnd(q, i, f) = parseAnd(q, i, g)
           /\ Result(q, i, parseAnd(q, i, f))
<1> DEFINE left == parseTerm(q, i, f)
           next == IF Kind(q, left.pos) = "and" THEN left.pos + 1 ELSE left.pos
           goesOn == left.ok /\ ~EndsAnd(Kind(q, left.pos))
           joined(r) == IF r.ok THEN Parsed(r.pos, left.pred \cap r.pred) ELSE Fails
           right == f[next]["and"]
<1>1. parseTerm(q, i, g) = left /\ Result(q, i, left)
    BY TermReads
<1>2. parseAnd(q, i, f) =
          IF ~goesOn THEN left
          ELSE joined(right)
    BY DEF parseAnd, MoreTerms
<1>3. parseAnd(q, i, g) =
          IF ~goesOn THEN left
          ELSE joined(g[next]["and"])
    BY <1>1 DEF parseAnd, MoreTerms
<1>4. Len(q) \in Nat /\ i \in Nat
    BY DEF End
<1> HIDE DEF left
<1>5. goesOn => next \in (i + 1)..End(q)
  <2>1. left.ok => left.pos \in Nat /\ left.pos \in (i + 1)..End(q)
    BY <1>1, <1>4 DEF Result, End
  <2>2. goesOn => left.pos \in 1..Len(q)
    BY <2>1, Kinds DEF EndsAnd
  <2>3. QED
    BY <1>4, <2>1, <2>2 DEF End
<1> HIDE DEF next
<1>6. goesOn => g[next] = f[next] /\ Result(q, next, right) /\ next \in Nat
    BY <1>4, <1>5 DEF Agree, LaterResults, Results, Rules, End
<1>7. parseAnd(q, i, g) = parseAnd(q, i, f)
  <2> HIDE DEF joined, goesOn
  <2>1. QED
    BY <1>2, <1>3, <1>6
<1> HIDE DEF right
<1>8. Result(q, i, parseAnd(q, i, f))
  <2>1. CASE ~goesOn
    BY <1>1, <1>2, <2>1
  <2>2. CASE goesOn /\ right.ok
    <3>1. right.pos \in (i + 1)..End(q)
      BY <1>4, <1>5, <1>6, <2>2 DEF Result, End
    <3>2. QED
      BY <1>2, <2>2, <3>1 DEF Result, Parsed
  <2>3. CASE goesOn /\ ~right.ok
    BY <1>2, <2>3 DEF Result, Fails
  <2>4. QED
    BY <2>1, <2>2, <2>3
<1>9. QED
    BY <1>7, <1>8

LEMMA OrReads ==
    ASSUME NEW q \in Seq(Tokens), NEW i \in 1..End(q), NEW f, NEW g,
           Agree(q, i, f, g), LaterResults(q, i, f)
    PROVE  /\ parseOr(q, i, f) = parseOr(q, i, g)
           /\ Result(q, i, parseOr(q, i, f))
<1> DEFINE left == parseAnd(q, i, f)
           goesOn == left.ok /\ Kind(q, left.pos) = "or"
           next == left.pos + 1
           joined(r) == IF r.ok THEN Parsed(r.pos, left.pred \cup r.pred) ELSE Fails
           right == f[next]["or"]
<1>1. parseAnd(q, i, g) = left /\ Result(q, i, left)
    BY AndReads
<1>2. parseOr(q, i, f) =
          IF ~goesOn THEN left
          ELSE joined(right)
    BY DEF parseOr, MoreAnds
<1>3. parseOr(q, i, g) =
          IF ~goesOn THEN left
          ELSE joined(g[next]["or"])
    BY <1>1 DEF parseOr, MoreAnds
<1>4. Len(q) \in Nat /\ i \in Nat
    BY DEF End
<1> HIDE DEF left
<1>5. goesOn => next \in (i + 1)..End(q)
  <2>1. left.ok => left.pos \in Nat /\ left.pos \in (i + 1)..End(q)
    BY <1>1, <1>4 DEF Result, End
  <2>2. goesOn => left.pos \in 1..Len(q)
    BY <2>1, Kinds
  <2>3. QED
    BY <1>4, <2>1, <2>2 DEF End
<1> HIDE DEF next
<1>6. goesOn => g[next] = f[next] /\ Result(q, next, right) /\ next \in Nat
    BY <1>4, <1>5 DEF Agree, LaterResults, Results, Rules, End
<1>7. parseOr(q, i, g) = parseOr(q, i, f)
  <2> HIDE DEF joined, goesOn
  <2>1. QED
    BY <1>2, <1>3, <1>6
<1> HIDE DEF right
<1>8. Result(q, i, parseOr(q, i, f))
  <2>1. CASE ~goesOn
    BY <1>1, <1>2, <2>1
  <2>2. CASE goesOn /\ right.ok
    <3>1. right.pos \in (i + 1)..End(q)
      BY <1>4, <1>5, <1>6, <2>2 DEF Result, End
    <3>2. QED
      BY <1>2, <2>2, <3>1 DEF Result, Parsed
  <2>3. CASE goesOn /\ ~right.ok
    BY <1>2, <2>3 DEF Result, Fails
  <2>4. QED
    BY <2>1, <2>2, <2>3
<1>9. QED
    BY <1>7, <1>8

\* Each of the three functions looks only at what is parsed from later tokens on.
LEMMA ParseReads ==
    ASSUME NEW q \in Seq(Tokens), NEW i \in 1..End(q), NEW f, NEW g,
           Agree(q, i, f, g), LaterResults(q, i, f), NEW rule \in Rules
    PROVE  /\ parse(q, rule, i, f) = parse(q, rule, i, g)
           /\ Result(q, i, parse(q, rule, i, f))
<1>1. CASE rule = "or"
    BY <1>1, OrReads DEF parse
<1>2. CASE rule = "and"
    BY <1>2, AndReads DEF parse
<1>3. CASE rule = "term"
    BY <1>3, TermReads DEF parse
<1>4. QED
    BY <1>1, <1>2, <1>3 DEF Rules

LEMMA ParsedExists ==
    ASSUME NEW q \in Seq(Tokens)
    PROVE  \E f : ParsedFrom(q, 1, f)
<1> DEFINE Done == {i \in 1..End(q) : \E f : ParsedFrom(q, i, f) /\ LaterResults(q, i - 1, f)}
<1>1. End(q) \in Nat /\ 1 \in 1..End(q)
    BY DEF End
<1>2. ASSUME NEW i \in 1..End(q), \A j \in (i + 1)..End(q) : j \in Done
      PROVE  i \in Done
  <2>1. PICK f : LaterResults(q, i, f) /\
                 f = [j \in (i + 1)..End(q) |-> [rule \in Rules |-> parse(q, rule, j, f)]]
    <3>1. CASE i = End(q)
      <4> DEFINE f == [j \in (i + 1)..End(q) |-> <<>>]
      <4>1. \A j : j \notin (i + 1)..End(q)
        BY <1>1, <3>1
      <4>2. f = [j \in (i + 1)..End(q) |-> [rule \in Rules |-> parse(q, rule, j, f)]]
        BY <4>1
      <4>3. LaterResults(q, i, f)
        BY <4>1 DEF LaterResults
      <4>4. QED
        BY <4>2, <4>3
    <3>2. CASE i # End(q)
      <4>1. i + 1 \in (i + 1)..End(q) /\ (i + 1) - 1 = i
        BY <1>1, <3>2
      <4>2. i + 1 \in Done
        BY <1>2, <4>1
      <4>3. QED
        BY <4>1, <4>2 DEF ParsedFrom
    <3>3. QED
      BY <3>1, <3>2
  <2> DEFINE Here(h) == [rule \in Rules |-> parse(q, rule, i, h)]
             g == [j \in i..End(q) |-> IF j = i THEN Here(f) ELSE f[j]]
  <2>2. Agree(q, i, f, g) /\ g[i] = Here(f)
    BY <1>1 DEF Agree
  <2>3. ASSUME NEW j \in i..End(q)
        PROVE  /\ g[j] = [rule \in Rules |-> parse(q, rule, j, g)]
               /\ Results(q, j, g)
    <3>1. CASE j = i
      <4>1. ASSUME NEW rule \in Rules
            PROVE  /\ parse(q, rule, i, f) = parse(q, rule, i, g)
                   /\ Result(q, i, parse(q, rule, i, f))
        BY <2>1, <2>2, ParseReads
      <4> HIDE DEF g
      <4>2. QED
        BY <2>2, <3>1, <4>1 DEF Results
    <3>2. CASE j # i
      <4>1. j \in (i + 1)..End(q) /\ j \in 1..End(q)
        BY <1>1, <3>2
      <4>2. g[j] = f[j]
        BY <3>2
      <4>3. f[j] = [rule \in Rules |-> parse(q, rule, j, f)]
        BY <2>1, <4>1
      <4>4. Agree(q, j, f, g) /\ LaterResults(q, j, f)
        BY <1>1, <2>1, <2>2, <4>1 DEF Agree, LaterResults
      <4>5. ASSUME NEW rule \in Rules
            PROVE  parse(q, rule, j, f) = parse(q, rule, j, g)
        BY <4>1, <4>4, ParseReads
      <4>6. Results(q, j, g)
        BY <2>1, <4>1, <4>2 DEF LaterResults, Results
      <4> HIDE DEF g
      <4>7. QED
        BY <4>2, <4>3, <4>5, <4>6
    <3>3. QED
      BY <3>1, <3>2
  <2>4. g = [j \in i..End(q) |-> g[j]]
    OBVIOUS
  <2> HIDE DEF g
  <2>5. ParsedFrom(q, i, g)
    BY <2>3, <2>4 DEF ParsedFrom
  <2>6. LaterResults(q, i - 1, g)
    <3>1. ASSUME NEW j \in (i - 1 + 1)..End(q)
          PROVE  Results(q, j, g)
      <4>1. j \in i..End(q)
        BY <1>1, <3>1
      <4>2. QED
        BY <2>3, <4>1
    <3>2. QED
      BY <3>1 DEF LaterResults
  <2>7. QED
    BY <2>5, <2>6
<1>3. 1 \in Done
  <2> HIDE DEF Done
  <2>1. QED
    BY <1>1, <1>2, FromTheEnd
<1>4. QED
    BY <1>3

\* What Descent(q) is: its equation, and that results are errors or later positions.
LEMMA DescentIs ==
    ASSUME NEW q \in Seq(Tokens), NEW i \in 1..End(q)
    PROVE  /\ \A rule \in Rules :
                  Descent(q)[i][rule] = parse(q, rule, i, Descent(q))
           /\ Results(q, i, Descent(q))
<1> DEFINE d == CHOOSE d : ParsedFrom(q, 1, d)
<1>1. ParsedFrom(q, 1, d)
    BY ParsedExists
<1>2. Descent(q) = d
    BY DEF Descent, ParsedFrom, End
<1> HIDE DEF d
<1>3. \A j \in 1..End(q) : \A rule \in Rules : d[j][rule] = parse(q, rule, j, d)
  <2> DEFINE Here(j) == [rule \in Rules |-> parse(q, rule, j, d)]
  <2>1. d = [j \in 1..End(q) |-> Here(j)]
    BY <1>1 DEF ParsedFrom
  <2>2. \A j \in 1..End(q) : d[j] = Here(j)
    <3> HIDE DEF Here
    <3>1. QED
      BY <2>1
  <2>3. QED
    BY <2>2
<1> DEFINE Done == {j \in 1..End(q) : Results(q, j, d)}
<1>4. ASSUME NEW j \in 1..End(q), \A k \in (j + 1)..End(q) : k \in Done
      PROVE  j \in Done
  <2>1. LaterResults(q, j, d) /\ Agree(q, j, d, d)
    BY <1>4 DEF LaterResults, Agree
  <2>2. Results(q, j, d)
    BY <1>3, <2>1, ParseReads DEF Results
  <2>3. QED
    BY <2>2
<1>5. End(q) \in Nat
    BY DEF End
<1>6. i \in Done
  <2> HIDE DEF Done
  <2>1. QED
    BY <1>4, <1>5, FromTheEnd
<1>7. QED
    BY <1>2, <1>3, <1>6

-----------------------------------------------------------------------------
(***************************************************************************)
(* The grammar.                                                            *)
(***************************************************************************)

\* means is right from the token at i on.
MeansFrom(q, i, means) ==
    means = [k \in i..End(q) |->
                [j \in 0..Len(q) |->
                    [rule \in Rules |-> MeaningsOf(q, rule, k, j, means)]]]

\* What joins the part before k with the part of a conjunction after it.
AfterTerm(q, k, j, means) ==
    means[k + 1][j]["and"]
        \cup (IF Kind(q, k + 1) = "and" THEN means[k + 2][j]["and"] ELSE {})

LEMMA AndHas ==
    ASSUME NEW q, NEW i, NEW j, NEW means, NEW x
    PROVE  x \in AndMeanings(q, i, j, means) <=>
              \/ x \in TermMeanings(q, i, j, means)
              \/ \E k \in i..(j - 1) :
                    \E m \in TermMeanings(q, i, k, means), n \in AfterTerm(q, k, j, means) :
                        x = m \cap n
    BY DEF AndMeanings, AfterTerm

LEMMA OrHas ==
    ASSUME NEW q, NEW i, NEW j, NEW means, NEW x
    PROVE  x \in OrMeanings(q, i, j, means) <=>
              \/ x \in AndMeanings(q, i, j, means)
              \/ \E k \in (i + 1)..(j - 1) :
                    /\ Kind(q, k) = "or"
                    /\ \E m \in AndMeanings(q, i, k - 1, means), n \in means[k + 1][j]["or"] :
                        x = m \cup n
    BY DEF OrMeanings

LEMMA TermMeaningsRead ==
    ASSUME NEW q \in Seq(Tokens), NEW i \in 1..End(q), NEW j \in 0..Len(q),
           NEW f, NEW g, Agree(q, i, f, g)
    PROVE  TermMeanings(q, i, j, f) = TermMeanings(q, i, j, g)
<1>1. CASE i > j
    BY <1>1 DEF TermMeanings
<1>2. CASE ~(i > j)
  <2>1. i + 1 \in (i + 1)..End(q)
    BY <1>2 DEF End
  <2>2. f[i + 1] = g[i + 1]
    BY <2>1 DEF Agree
  <2>3. QED
    BY <2>2 DEF TermMeanings
<1>3. QED
    BY <1>1, <1>2

LEMMA AndMeaningsRead ==
    ASSUME NEW q \in Seq(Tokens), NEW i \in 1..End(q), NEW j \in 0..Len(q),
           NEW f, NEW g, Agree(q, i, f, g)
    PROVE  AndMeanings(q, i, j, f) = AndMeanings(q, i, j, g)
<1>1. TermMeanings(q, i, j, f) = TermMeanings(q, i, j, g)
    BY TermMeaningsRead
<1>2. ASSUME NEW k \in i..(j - 1)
      PROVE  /\ TermMeanings(q, i, k, f) = TermMeanings(q, i, k, g)
             /\ AfterTerm(q, k, j, f) = AfterTerm(q, k, j, g)
  <2>1. /\ k \in 0..Len(q)
        /\ k + 1 \in (i + 1)..End(q) /\ k + 2 \in (i + 1)..End(q)
    BY DEF End
  <2>2. f[k + 1] = g[k + 1] /\ f[k + 2] = g[k + 2]
    BY <2>1 DEF Agree
  <2>3. QED
    BY <2>1, <2>2, TermMeaningsRead DEF AfterTerm
<1>3. ASSUME NEW x
      PROVE  x \in AndMeanings(q, i, j, f) <=> x \in AndMeanings(q, i, j, g)
    BY <1>1, <1>2, AndHas
<1>4. QED
    BY <1>3

LEMMA OrMeaningsRead ==
    ASSUME NEW q \in Seq(Tokens), NEW i \in 1..End(q), NEW j \in 0..Len(q),
           NEW f, NEW g, Agree(q, i, f, g)
    PROVE  OrMeanings(q, i, j, f) = OrMeanings(q, i, j, g)
<1>1. AndMeanings(q, i, j, f) = AndMeanings(q, i, j, g)
    BY AndMeaningsRead
<1>2. ASSUME NEW k \in (i + 1)..(j - 1)
      PROVE  /\ AndMeanings(q, i, k - 1, f) = AndMeanings(q, i, k - 1, g)
             /\ f[k + 1] = g[k + 1]
  <2>1. k - 1 \in 0..Len(q) /\ k + 1 \in (i + 1)..End(q)
    BY DEF End
  <2>2. QED
    BY <2>1, AndMeaningsRead DEF Agree
<1>3. ASSUME NEW x
      PROVE  x \in OrMeanings(q, i, j, f) <=> x \in OrMeanings(q, i, j, g)
  <2> DEFINE Via(k, h) == /\ Kind(q, k) = "or"
                          /\ \E m \in AndMeanings(q, i, k - 1, h), n \in h[k + 1][j]["or"] :
                                x = m \cup n
  <2>1. ASSUME NEW h
        PROVE  x \in OrMeanings(q, i, j, h) <=>
                  \/ x \in AndMeanings(q, i, j, h)
                  \/ \E k \in (i + 1)..(j - 1) : Via(k, h)
    BY OrHas
  <2>2. \A k \in (i + 1)..(j - 1) : Via(k, f) <=> Via(k, g)
    BY <1>2
  <2> HIDE DEF Via
  <2>3. QED
    BY <1>1, <2>1, <2>2
<1>4. QED
    BY <1>3

LEMMA MeaningsRead ==
    ASSUME NEW q \in Seq(Tokens), NEW i \in 1..End(q), NEW j \in 0..Len(q),
           NEW f, NEW g, Agree(q, i, f, g), NEW rule \in Rules
    PROVE  MeaningsOf(q, rule, i, j, f) = MeaningsOf(q, rule, i, j, g)
<1>1. CASE rule = "or"
    BY <1>1, OrMeaningsRead DEF MeaningsOf
<1>2. CASE rule = "and"
    BY <1>2, AndMeaningsRead DEF MeaningsOf
<1>3. CASE rule = "term"
    BY <1>3, TermMeaningsRead DEF MeaningsOf
<1>4. QED
    BY <1>1, <1>2, <1>3 DEF Rules

LEMMA MeansExists ==
    ASSUME NEW q \in Seq(Tokens)
    PROVE  \E f : MeansFrom(q, 1, f)
<1> DEFINE Here(k, h) == [j \in 0..Len(q) |->
                              [rule \in Rules |-> MeaningsOf(q, rule, k, j, h)]]
           Done == {i \in 1..End(q) : \E f : f = [k \in i..End(q) |-> Here(k, f)]}
<1>1. End(q) \in Nat /\ 1 \in 1..End(q)
    BY DEF End
<1>2. ASSUME NEW k \in 1..End(q), NEW f, NEW g, Agree(q, k, f, g)
      PROVE  Here(k, f) = Here(k, g)
  <2>1. ASSUME NEW j \in 0..Len(q), NEW rule \in Rules
        PROVE  MeaningsOf(q, rule, k, j, f) = MeaningsOf(q, rule, k, j, g)
    BY <1>2, MeaningsRead
  <2>2. QED
    BY <2>1
<1> HIDE DEF Here
<1>3. ASSUME NEW i \in 1..End(q), \A j \in (i + 1)..End(q) : j \in Done
      PROVE  i \in Done
  <2>1. PICK f : f = [k \in (i + 1)..End(q) |-> Here(k, f)]
    <3>1. CASE i = End(q)
      <4> DEFINE f == [k \in (i + 1)..End(q) |-> <<>>]
      <4>1. \A k : k \notin (i + 1)..End(q)
        BY <1>1, <3>1
      <4>2. f = [k \in (i + 1)..End(q) |-> Here(k, f)]
        BY <4>1
      <4>3. QED
        BY <4>2
    <3>2. CASE i # End(q)
      <4>1. i + 1 \in (i + 1)..End(q)
        BY <1>1, <3>2
      <4>2. QED
        BY <1>3, <4>1
    <3>3. QED
      BY <3>1, <3>2
  <2> DEFINE g == [k \in i..End(q) |-> IF k = i THEN Here(i, f) ELSE f[k]]
  <2>2. \A k \in (i + 1)..End(q) : g[k] = f[k] /\ k # i
    BY <1>1
  <2>3. g[i] = Here(i, f) /\ g = [k \in i..End(q) |-> g[k]]
    BY <1>1
  <2> HIDE DEF g
  <2>4. ASSUME NEW k \in i..End(q)
        PROVE  g[k] = Here(k, g)
    <3>1. CASE k = i
      <4>1. Agree(q, i, f, g)
        BY <2>2 DEF Agree
      <4>2. QED
        BY <1>2, <2>3, <3>1, <4>1
    <3>2. CASE k # i
      <4>1. k \in (i + 1)..End(q) /\ k \in 1..End(q)
        BY <1>1, <3>2
      <4>2. \A j \in (k + 1)..End(q) : j \in (i + 1)..End(q)
        BY <1>1, <4>1
      <4>3. Agree(q, k, f, g)
        BY <2>2, <4>2 DEF Agree
      <4>4. f[k] = Here(k, f)
        BY <2>1, <4>1
      <4>5. QED
        BY <1>2, <2>2, <4>1, <4>3, <4>4
    <3>3. QED
      BY <3>1, <3>2
  <2>5. g = [k \in i..End(q) |-> Here(k, g)]
    BY <2>3, <2>4
  <2>6. QED
    BY <2>5
<1>4. 1 \in Done
  <2> HIDE DEF Done
  <2>1. QED
    BY <1>1, <1>3, FromTheEnd
<1>5. QED
    BY <1>4 DEF MeansFrom, Here

LEMMA MeaningsIs ==
    ASSUME NEW q \in Seq(Tokens), NEW i \in 1..End(q), NEW j \in 0..Len(q),
           NEW rule \in Rules
    PROVE  Meanings(q)[i][j][rule] = MeaningsOf(q, rule, i, j, Meanings(q))
<1> DEFINE m == CHOOSE m : MeansFrom(q, 1, m)
<1>1. MeansFrom(q, 1, m)
    BY MeansExists
<1>2. Meanings(q) = m
    BY DEF Meanings, MeansFrom, End
<1> HIDE DEF m
<1> DEFINE Here(k) == [l \in 0..Len(q) |->
                           [r \in Rules |-> MeaningsOf(q, r, k, l, m)]]
<1>3. m = [k \in 1..End(q) |-> Here(k)]
    BY <1>1 DEF MeansFrom
<1>4. m[i] = Here(i)
  <2> HIDE DEF Here
  <2>1. QED
    BY <1>3
<1>5. m[i][j][rule] = MeaningsOf(q, rule, i, j, m)
    BY <1>4
<1>6. QED
    BY <1>2, <1>5

-----------------------------------------------------------------------------
(***************************************************************************)
(* A query means what the grammar says.                                    *)
(***************************************************************************)

LEMMA NumericStatus ==
    ASSUME NEW e \in Numeric("status")
    PROVE  e["status"].num \in Nat
<1>1. e \in Universe /\ "status" \in DOMAIN e /\ "num" \in DOMAIN e["status"]
    BY DEF Numeric
<1>2. ASSUME NEW f \in Logged
      PROVE  "status" \notin DOMAIN AtClient(f)
    BY DEF AtClient, TopLevel
<1>3. e \in Logged
    BY <1>1, <1>2 DEF Universe
<1>4. QED
    BY <1>1, <1>3, StatusAssumption

\* A range of statuses is what its two borders say.
LEMMA WordMeans ==
    ASSUME NEW w \in Words, ~BadRange(w)
    PROVE  WordMeaning(w) = buildPredicate(w)
<1>1. CASE ~IsRange(w)
    BY <1>1 DEF WordMeaning
<1>2. CASE IsRange(w)
  <2>1. w.shape = "range" /\ w.field = "status" /\ w.num \in 1..5
    BY <1>2 DEF IsRange, BadRange
  <2> DEFINE At(op, n) == [w EXCEPT !.shape = "compare", !.op = op, !.num = n]
             Border(op, n) == {e \in Numeric("status") : Compare(e["status"].num, op, n)}
  <2>2. ASSUME NEW op, NEW n
        PROVE  fieldPredicate(At(op, n)) = Border(op, n)
    <3> DEFINE v == At(op, n)
    <3>1. v.shape = "compare" /\ v.field = "status" /\ v.op = op /\ v.num = n
      BY <2>1, WordsAssumption
    <3> HIDE DEF v
    <3>2. fieldPredicate(v) = Border(op, n)
      BY <3>1 DEF fieldPredicate, IsRange
    <3>3. QED
      BY <3>2 DEF v
  <2> HIDE DEF At
  <2>3. WordMeaning(w) = Border(">=", w.num * 100) \cap Border("<", (w.num + 1) * 100)
    <3>1. WordMeaning(w) = fieldPredicate(At(">=", w.num * 100))
                                    \cap fieldPredicate(At("<", (w.num + 1) * 100))
      BY <1>2 DEF WordMeaning, At
    <3>2. QED
      BY <2>2, <3>1
  <2>4. buildPredicate(w) =
            {e \in Numeric("status") : InRange(e["status"].num, w.num)}
    BY <1>2, <2>1 DEF buildPredicate, fieldPredicate
  <2>5. ASSUME NEW e \in Numeric("status")
        PROVE  InRange(e["status"].num, w.num) <=>
                  /\ Compare(e["status"].num, ">=", w.num * 100)
                  /\ Compare(e["status"].num, "<", (w.num + 1) * 100)
    <3> DEFINE n == e["status"].num
    <3>1. n \in Nat
      BY NumericStatus
    <3> HIDE DEF n
    <3>2. InRange(n, w.num) <=> n >= w.num * 100 /\ n < (w.num + 1) * 100
      BY <2>1, <3>1 DEF InRange
    <3>3. /\ Compare(n, ">=", w.num * 100) <=> n >= w.num * 100
          /\ Compare(n, "<", (w.num + 1) * 100) <=> n < (w.num + 1) * 100
      BY DEF Compare
    <3>4. QED
      BY <3>2, <3>3 DEF n
  <2>6. QED
    BY <2>3, <2>4, <2>5
<1>3. QED
    BY <1>1, <1>2

\* d is what the descent returns from each token on, m what the grammar says.
Tables(q, d, m) ==
    \A i \in 1..End(q) :
        /\ \A rule \in Rules : d[i][rule] = parse(q, rule, i, d)
        /\ Results(q, i, d)
        /\ \A j \in 0..Len(q) : \A rule \in Rules :
              m[i][j][rule] = MeaningsOf(q, rule, i, j, m)

\* A term has one end, which is where the descent gets to.
TermRight(q, i, d, m) ==
    /\ d[i]["term"].ok => m[i][d[i]["term"].pos - 1]["term"] = {d[i]["term"].pred}
    /\ \A j \in 0..Len(q) : m[i][j]["term"] # {} => d[i]["term"].ok /\ d[i]["term"].pos = j + 1

\* A conjunction has as many ends as terms; the descent takes all of them.
AndRight(q, i, d, m) ==
    /\ d[i]["and"].ok =>
          /\ EndsAnd(Kind(q, d[i]["and"].pos))
          /\ m[i][d[i]["and"].pos - 1]["and"] = {d[i]["and"].pred}
    /\ \A j \in 0..Len(q) :
          m[i][j]["and"] # {} /\ EndsAnd(Kind(q, j + 1))
              => d[i]["and"].ok /\ d[i]["and"].pos = j + 1
    /\ \A j \in 0..Len(q) : m[i][j]["and"] # {} => d[i]["term"].ok

EndsOr(kind) == kind \in {"eof", ")"}

OrRight(q, i, d, m) ==
    /\ d[i]["or"].ok =>
          /\ EndsOr(Kind(q, d[i]["or"].pos))
          /\ m[i][d[i]["or"].pos - 1]["or"] = {d[i]["or"].pred}
    /\ \A j \in 0..Len(q) :
          m[i][j]["or"] # {} /\ EndsOr(Kind(q, j + 1))
              => d[i]["or"].ok /\ d[i]["or"].pos = j + 1

Right(q, i, d, m) == TermRight(q, i, d, m) /\ AndRight(q, i, d, m) /\ OrRight(q, i, d, m)

LaterRight(q, i, d, m) == \A j \in (i + 1)..End(q) : Right(q, j, d, m)

LEMMA TablesOf ==
    ASSUME NEW q \in Seq(Tokens)
    PROVE  Tables(q, Descent(q), Meanings(q))
    BY DescentIs, MeaningsIs DEF Tables

LEMMA TablesAt ==
    ASSUME NEW q \in Seq(Tokens), NEW d, NEW m, Tables(q, d, m), NEW i \in 1..End(q)
    PROVE  /\ d[i]["term"] = parseTerm(q, i, d)
           /\ d[i]["and"] = parseAnd(q, i, d)
           /\ d[i]["or"] = parseOr(q, i, d)
           /\ Result(q, i, d[i]["term"]) /\ Result(q, i, d[i]["and"]) /\ Result(q, i, d[i]["or"])
           /\ \A j \in 0..Len(q) :
                 /\ m[i][j]["term"] = TermMeanings(q, i, j, m)
                 /\ m[i][j]["and"] = AndMeanings(q, i, j, m)
                 /\ m[i][j]["or"] = OrMeanings(q, i, j, m)
<1>1. "term" \in Rules /\ "and" \in Rules /\ "or" \in Rules
    BY DEF Rules
<1>2. /\ d[i]["term"] = parse(q, "term", i, d)
      /\ d[i]["and"] = parse(q, "and", i, d)
      /\ d[i]["or"] = parse(q, "or", i, d)
    BY <1>1 DEF Tables
<1>3. \A j \in 0..Len(q) :
          /\ m[i][j]["term"] = MeaningsOf(q, "term", i, j, m)
          /\ m[i][j]["and"] = MeaningsOf(q, "and", i, j, m)
          /\ m[i][j]["or"] = MeaningsOf(q, "or", i, j, m)
    BY <1>1 DEF Tables
<1>4. Results(q, i, d)
    BY DEF Tables
<1>5. QED
    BY <1>1, <1>2, <1>3, <1>4 DEF Results, parse, MeaningsOf

LEMMA TermStep ==
    ASSUME NEW q \in Seq(Tokens), NEW d, NEW m, Tables(q, d, m),
           NEW i \in 1..End(q), LaterRight(q, i, d, m)
    PROVE  TermRight(q, i, d, m)
<1> DEFINE r == d[i]["term"]
           T(j) == m[i][j]["term"]
<1>1. r = parseTerm(q, i, d) /\ Result(q, i, r)
    BY TablesAt
<1>2. \A j \in 0..Len(q) : T(j) = TermMeanings(q, i, j, m)
    BY TablesAt
<1>3. Len(q) \in Nat /\ i \in Nat /\ End(q) = Len(q) + 1
    BY DEF End
<1>4. Kind(q, i) # "eof" =>
          i \in 1..Len(q) /\ i + 1 \in 1..End(q) /\ Right(q, i + 1, d, m)
  <2>1. Kind(q, i) # "eof" => i \in 1..Len(q)
    BY <1>3, Kinds
  <2>2. QED
    BY <1>3, <2>1 DEF LaterRight
<1>5. SUFFICES /\ r.ok => T(r.pos - 1) = {r.pred}
               /\ \A j \in 0..Len(q) : T(j) # {} => r.ok /\ r.pos = j + 1
    BY DEF TermRight
<1> HIDE DEF r, T
<1>6. CASE Kind(q, i) = "not"
  <2> DEFINE inner == d[i + 1]["term"]
             I(j) == m[i + 1][j]["term"]
  <2>1. Result(q, i + 1, inner)
    BY <1>4, <1>6, TablesAt
  <2>2. r = IF inner.ok THEN Parsed(inner.pos, Universe \ inner.pred) ELSE Fails
    BY <1>1, <1>6 DEF parseTerm, Negated
  <2>3. ASSUME NEW j \in 0..Len(q)
        PROVE  T(j) = IF i > j THEN {} ELSE {Universe \ x : x \in I(j)}
    BY <1>2, <1>6 DEF TermMeanings
  <2>4. /\ inner.ok => I(inner.pos - 1) = {inner.pred}
        /\ \A j \in 0..Len(q) : I(j) # {} => inner.ok /\ inner.pos = j + 1
    BY <1>4, <1>6 DEF Right, TermRight
  <2> HIDE DEF inner, I
  <2>5. ASSUME r.ok
        PROVE  T(r.pos - 1) = {r.pred}
    <3>1. inner.ok /\ r.pos = inner.pos /\ r.pred = Universe \ inner.pred
      BY <2>2, <2>5 DEF Parsed, Fails
    <3>2. inner.pos - 1 \in 0..Len(q) /\ ~(i > inner.pos - 1)
      BY <1>3, <1>4, <1>6, <2>1, <3>1 DEF Result
    <3>3. T(inner.pos - 1) = {Universe \ x : x \in {inner.pred}}
      BY <2>3, <2>4, <3>1, <3>2
    <3>4. QED
      BY <3>1, <3>3
  <2>6. ASSUME NEW j \in 0..Len(q), T(j) # {}
        PROVE  r.ok /\ r.pos = j + 1
    <3>1. I(j) # {}
      BY <2>3, <2>6
    <3>2. QED
      BY <2>2, <2>4, <3>1 DEF Parsed
  <2>7. QED
    BY <2>5, <2>6
<1>7. CASE Kind(q, i) = "("
  <2> DEFINE inner == d[i + 1]["or"]
             I(j) == m[i + 1][j]["or"]
             closed == inner.ok /\ Kind(q, inner.pos) = ")"
  <2>1. Result(q, i + 1, inner)
    BY <1>4, <1>7, TablesAt
  <2>2. r = IF closed THEN Parsed(inner.pos + 1, inner.pred) ELSE Fails
    BY <1>1, <1>7 DEF parseTerm
  <2>3. ASSUME NEW j \in 0..Len(q)
        PROVE  T(j) = IF i < j /\ Kind(q, j) = ")" THEN I(j - 1) ELSE {}
    BY <1>2, <1>3, <1>7 DEF TermMeanings
  <2>4. /\ inner.ok => I(inner.pos - 1) = {inner.pred}
        /\ \A j \in 0..Len(q) :
              I(j) # {} /\ EndsOr(Kind(q, j + 1)) => inner.ok /\ inner.pos = j + 1
    BY <1>4, <1>7 DEF Right, OrRight
  <2> HIDE DEF inner, I
  <2>5. ASSUME r.ok
        PROVE  T(r.pos - 1) = {r.pred}
    <3>1. closed /\ r.pos = inner.pos + 1 /\ r.pred = inner.pred
      BY <2>2, <2>5 DEF Parsed, Fails
    <3>2. inner.pos \in Nat /\ inner.pos > i + 1
      BY <1>3, <1>4, <1>7, <2>1, <3>1 DEF Result
    <3>3. inner.pos \in 1..Len(q)
      BY <3>1, <3>2, Kinds
    <3>4. r.pos - 1 = inner.pos /\ inner.pos \in 0..Len(q) /\ i < inner.pos
      BY <1>3, <3>1, <3>2, <3>3
    <3>5. T(inner.pos) = I(inner.pos - 1)
      BY <2>3, <3>1, <3>4
    <3>6. QED
      BY <2>4, <3>1, <3>4, <3>5
  <2>6. ASSUME NEW j \in 0..Len(q), T(j) # {}
        PROVE  r.ok /\ r.pos = j + 1
    <3>1. i < j /\ Kind(q, j) = ")" /\ I(j - 1) # {}
      BY <2>3, <2>6
    <3>2. j - 1 \in 0..Len(q) /\ (j - 1) + 1 = j
      BY <1>3, <3>1
    <3>3. inner.ok /\ inner.pos = j
      BY <2>4, <3>1, <3>2 DEF EndsOr
    <3>4. QED
      BY <2>2, <3>1, <3>3 DEF Parsed
  <2>7. QED
    BY <2>5, <2>6
<1>8. CASE Kind(q, i) = "word"
  <2> DEFINE w == q[i].word
  <2>1. w \in Words /\ i \in 0..Len(q)
    BY <1>3, <1>4, <1>8, Kinds
  <2>2. r = IF BadRange(w) THEN Fails ELSE Parsed(i + 1, buildPredicate(w))
    BY <1>1, <1>8 DEF parseTerm
  <2>3. ASSUME NEW j \in 0..Len(q)
        PROVE  T(j) = IF i = j /\ ~BadRange(w) THEN {WordMeaning(w)} ELSE {}
    BY <1>2, <1>3, <1>8 DEF TermMeanings
  <2> HIDE DEF w
  <2>4. CASE BadRange(w)
    BY <2>2, <2>3, <2>4 DEF Fails
  <2>5. CASE ~BadRange(w)
    <3>1. r.ok /\ r.pos = i + 1 /\ r.pred = buildPredicate(w)
      BY <2>2, <2>5 DEF Parsed
    <3>2. T(i) = {buildPredicate(w)}
      BY <2>1, <2>3, <2>5, WordMeans
    <3>3. r.pos - 1 = i
      BY <1>3, <3>1
    <3>4. QED
      BY <2>3, <3>1, <3>2, <3>3
  <2>6. QED
    BY <2>4, <2>5
<1>9. CASE Kind(q, i) \notin {"not", "(", "word"}
  <2>1. r = Fails
    BY <1>1, <1>9 DEF parseTerm
  <2>2. \A j \in 0..Len(q) : T(j) = {}
    BY <1>2, <1>9 DEF TermMeanings
  <2>3. QED
    BY <2>1, <2>2 DEF Fails
<1>10. QED
    BY <1>6, <1>7, <1>8, <1>9

\* A term begins with NOT, a parenthesis or a word.
LEMMA TermBegins ==
    ASSUME NEW q \in Seq(Tokens), NEW d, NEW m, Tables(q, d, m),
           NEW i \in 1..End(q), d[i]["term"].ok
    PROVE  Kind(q, i) \in {"not", "(", "word"}
<1>1. d[i]["term"] = parseTerm(q, i, d)
    BY TablesAt
<1>2. QED
    BY <1>1 DEF parseTerm, Fails

\* Where a conjunction goes on after its first term, and with what.
LEMMA AfterFirst ==
    ASSUME NEW q \in Seq(Tokens), NEW d, NEW m, Tables(q, d, m), NEW i \in 1..End(q),
           LaterRight(q, i, d, m), NEW p \in (i + 1)..End(q), NEW j \in 0..Len(q), p <= j
    PROVE  AfterTerm(q, p - 1, j, m) =
              IF EndsAnd(Kind(q, p)) THEN {}
              ELSE m[IF Kind(q, p) = "and" THEN p + 1 ELSE p][j]["and"]
<1>1. /\ p \in 1..Len(q) /\ p \in 1..End(q)
      /\ (p - 1) + 1 = p /\ (p - 1) + 2 = p + 1
    BY DEF End
<1>2. m[p][j]["and"] # {} => Kind(q, p) \in {"not", "(", "word"}
  <2>1. Right(q, p, d, m)
    BY DEF LaterRight
  <2>2. m[p][j]["and"] # {} => d[p]["term"].ok
    BY <2>1 DEF Right, AndRight
  <2>3. QED
    BY <1>1, <2>2, TermBegins
<1>3. AfterTerm(q, p - 1, j, m) =
          m[p][j]["and"] \cup (IF Kind(q, p) = "and" THEN m[p + 1][j]["and"] ELSE {})
    BY <1>1 DEF AfterTerm
<1>4. CASE EndsAnd(Kind(q, p))
    BY <1>2, <1>3, <1>4 DEF EndsAnd
<1>5. CASE Kind(q, p) = "and"
    BY <1>2, <1>3, <1>5 DEF EndsAnd
<1>6. CASE ~EndsAnd(Kind(q, p)) /\ Kind(q, p) # "and"
    BY <1>3, <1>6
<1>7. QED
    BY <1>4, <1>5, <1>6

\* All that a conjunction can mean: its first term, or that and what follows it.
LEMMA AndValue ==
    ASSUME NEW q \in Seq(Tokens), NEW d, NEW m, Tables(q, d, m), NEW i \in 1..End(q),
           TermRight(q, i, d, m), NEW j \in 0..Len(q), NEW x
    PROVE  LET left == d[i]["term"] IN
           x \in m[i][j]["and"] <=>
              /\ left.ok
              /\ \/ j = left.pos - 1 /\ x = left.pred
                 \/ left.pos <= j /\ \E n \in AfterTerm(q, left.pos - 1, j, m) : x = left.pred \cap n
<1> DEFINE left == d[i]["term"]
           T(k) == m[i][k]["term"]
<1>1. /\ left.ok => T(left.pos - 1) = {left.pred}
      /\ \A k \in 0..Len(q) : T(k) # {} => left.ok /\ left.pos = k + 1
    BY DEF TermRight
<1>2. Result(q, i, left) /\ Len(q) \in Nat /\ i \in Nat /\ End(q) = Len(q) + 1
    BY TablesAt DEF End
<1>3. left.ok => left.pos \in Nat /\ left.pos - 1 \in 0..Len(q) /\ left.pos - 1 >= i
    BY <1>2 DEF Result
<1>4. x \in m[i][j]["and"] <=>
          \/ x \in T(j)
          \/ \E k \in i..(j - 1) : \E y \in T(k), n \in AfterTerm(q, k, j, m) : x = y \cap n
  <2>1. m[i][j]["and"] = AndMeanings(q, i, j, m) /\ T(j) = TermMeanings(q, i, j, m)
    BY TablesAt
  <2>2. \A k \in i..(j - 1) : T(k) = TermMeanings(q, i, k, m)
    BY <1>2, TablesAt
  <2>3. QED
    BY <2>1, <2>2, AndHas
<1> HIDE DEF left, T
<1>5. x \in T(j) <=> left.ok /\ j = left.pos - 1 /\ x = left.pred
    BY <1>1, <1>3
<1>6. ASSUME NEW k \in i..(j - 1), NEW y \in T(k), NEW n \in AfterTerm(q, k, j, m), x = y \cap n
      PROVE  /\ left.ok /\ left.pos <= j
             /\ \E o \in AfterTerm(q, left.pos - 1, j, m) : x = left.pred \cap o
  <2>1. k \in 0..Len(q)
    BY <1>2
  <2>2. left.ok /\ left.pos = k + 1
    BY <1>1, <1>6, <2>1
  <2>3. left.pos - 1 = k /\ left.pos <= j
    BY <1>2, <2>1, <2>2
  <2>4. y = left.pred
    BY <1>1, <1>6, <2>2, <2>3
  <2>5. QED
    BY <1>6, <2>2, <2>3, <2>4
<1>7. ASSUME left.ok, left.pos <= j, NEW n \in AfterTerm(q, left.pos - 1, j, m), x = left.pred \cap n
      PROVE  \E k \in i..(j - 1) : \E y \in T(k), o \in AfterTerm(q, k, j, m) : x = y \cap o
  <2>1. left.pos - 1 \in i..(j - 1)
    BY <1>2, <1>3, <1>7
  <2>2. left.pred \in T(left.pos - 1)
    BY <1>1, <1>7
  <2>3. QED
    BY <1>7, <2>1, <2>2
<1>8. QED
    BY <1>4, <1>5, <1>6, <1>7 DEF left

LEMMA AndStep ==
    ASSUME NEW q \in Seq(Tokens), NEW d, NEW m, Tables(q, d, m),
           NEW i \in 1..End(q), LaterRight(q, i, d, m), TermRight(q, i, d, m)
    PROVE  AndRight(q, i, d, m)
<1> DEFINE left == d[i]["term"]
           p == left.pos
           next == IF Kind(q, p) = "and" THEN p + 1 ELSE p
           right == d[next]["and"]
           r == d[i]["and"]
           A(j) == m[i][j]["and"]
           N(j) == m[next][j]["and"]
           ends == EndsAnd(Kind(q, p))
<1>1. r = IF ~left.ok \/ ends THEN left
          ELSE IF right.ok THEN Parsed(right.pos, left.pred \cap right.pred) ELSE Fails
  <2>1. left = parseTerm(q, i, d) /\ r = parseAnd(q, i, d)
    BY TablesAt
  <2> HIDE DEF left, r
  <2>2. QED
    BY <2>1 DEF parseAnd, MoreTerms
<1>2. Result(q, i, left) /\ Len(q) \in Nat /\ i \in Nat /\ End(q) = Len(q) + 1
    BY TablesAt DEF End
<1>3. left.ok => p \in Nat /\ p \in (i + 1)..End(q)
    BY <1>2 DEF Result
<1>4. ASSUME NEW j \in 0..Len(q), NEW x
      PROVE  x \in A(j) <=> /\ left.ok
                            /\ \/ j = p - 1 /\ x = left.pred
                               \/ p <= j /\ ~ends /\ \E n \in N(j) : x = left.pred \cap n
  <2>1. x \in A(j) <=> /\ left.ok
                       /\ \/ j = p - 1 /\ x = left.pred
                          \/ p <= j /\ \E n \in AfterTerm(q, p - 1, j, m) : x = left.pred \cap n
    BY AndValue
  <2>2. left.ok /\ p <= j => AfterTerm(q, p - 1, j, m) = IF ends THEN {} ELSE N(j)
    <3> HIDE DEF left, p
    <3>1. QED
      BY <1>3, AfterFirst
  <2> HIDE DEF left, p, ends, A, N
  <2>3. QED
    BY <2>1, <2>2
<1>5. left.ok /\ ~ends =>
          /\ next \in Nat /\ next >= p /\ Result(q, next, right)
          /\ right.ok =>
                /\ EndsAnd(Kind(q, right.pos))
                /\ N(right.pos - 1) = {right.pred}
          /\ \A j \in 0..Len(q) :
                N(j) # {} /\ EndsAnd(Kind(q, j + 1)) => right.ok /\ right.pos = j + 1
  <2>1. left.ok /\ ~ends => p \in 1..Len(q)
    BY <1>2, <1>3, Kinds DEF EndsAnd
  <2>2. left.ok /\ ~ends => next \in (i + 1)..End(q) /\ next \in 1..End(q) /\ next \in Nat /\ next >= p
    BY <1>2, <1>3, <2>1
  <2> HIDE DEF next, ends, left
  <2>3. left.ok /\ ~ends => AndRight(q, next, d, m) /\ Result(q, next, right)
    BY <2>2, TablesAt DEF LaterRight, Right
  <2>4. QED
    BY <2>2, <2>3 DEF AndRight
<1>6. SUFFICES /\ r.ok => EndsAnd(Kind(q, r.pos)) /\ A(r.pos - 1) = {r.pred}
               /\ \A j \in 0..Len(q) :
                     A(j) # {} /\ EndsAnd(Kind(q, j + 1)) => r.ok /\ r.pos = j + 1
               /\ \A j \in 0..Len(q) : A(j) # {} => left.ok
    BY DEF AndRight
<1> HIDE DEF next, right, r, A, N
<1>7. CASE ~left.ok
    BY <1>1, <1>4, <1>7
<1>8. CASE left.ok /\ ends
  <2>1. r = left /\ p - 1 \in 0..Len(q) /\ (p - 1) + 1 = p /\ p \in Nat
    BY <1>1, <1>2, <1>3, <1>8
  <2>2. \A j \in 0..Len(q) : A(j) # {} => j = p - 1
    BY <1>4, <1>8
  <2>3. A(p - 1) = {left.pred}
    BY <1>4, <1>8, <2>1
  <2>4. QED
    BY <1>8, <2>1, <2>2, <2>3
<1>9. CASE left.ok /\ ~ends
  <2>1. r.ok <=> right.ok
    BY <1>1, <1>5, <1>9 DEF Parsed, Fails, Result
  <2>2. ASSUME r.ok
        PROVE  EndsAnd(Kind(q, r.pos)) /\ A(r.pos - 1) = {r.pred}
    <3>1. right.ok /\ r.pos = right.pos /\ r.pred = left.pred \cap right.pred
      BY <1>1, <1>9, <2>1, <2>2 DEF Parsed
    <3>2. /\ right.pos \in Nat /\ right.pos - 1 \in 0..Len(q)
          /\ p <= right.pos - 1 /\ right.pos - 1 # p - 1
      <4>1. p \in Nat /\ next \in Nat /\ next >= p /\ Result(q, next, right)
        BY <1>3, <1>5, <1>9
      <4>2. right.pos \in (next + 1)..End(q)
        BY <3>1, <4>1 DEF Result
      <4> HIDE DEF p
      <4>3. QED
        BY <1>2, <4>1, <4>2
    <3>3. N(right.pos - 1) = {right.pred}
      BY <1>5, <1>9, <3>1
    <3>4. \A x : x \in A(right.pos - 1) <=> x = left.pred \cap right.pred
      BY <1>4, <1>9, <3>2, <3>3
    <3>5. QED
      BY <1>5, <1>9, <3>1, <3>4
  <2>3. ASSUME NEW j \in 0..Len(q), A(j) # {}, EndsAnd(Kind(q, j + 1))
        PROVE  r.ok /\ r.pos = j + 1
    <3>1. j # p - 1
      BY <1>3, <1>9, <2>3
    <3>2. N(j) # {}
      BY <1>4, <1>9, <2>3, <3>1
    <3>3. right.ok /\ right.pos = j + 1
      BY <1>5, <1>9, <2>3, <3>2
    <3>4. QED
      BY <1>1, <1>9, <3>3 DEF Parsed
  <2>4. QED
    BY <1>9, <2>2, <2>3
<1>10. QED
    BY <1>7, <1>8, <1>9

\* All that a disjunction can mean: one conjunction, or the longest that is there and
\* what follows the OR after it.
LEMMA OrValue ==
    ASSUME NEW q \in Seq(Tokens), NEW d, NEW m, Tables(q, d, m), NEW i \in 1..End(q),
           AndRight(q, i, d, m), NEW j \in 0..Len(q), NEW x
    PROVE  LET left == d[i]["and"] IN
           x \in m[i][j]["or"] <=>
              \/ x \in m[i][j]["and"]
              \/ /\ left.ok /\ left.pos <= j - 1 /\ Kind(q, left.pos) = "or"
                 /\ \E n \in m[left.pos + 1][j]["or"] : x = left.pred \cup n
<1> DEFINE left == d[i]["and"]
           A(k) == m[i][k]["and"]
<1>1. /\ left.ok => A(left.pos - 1) = {left.pred}
      /\ \A k \in 0..Len(q) :
            A(k) # {} /\ EndsAnd(Kind(q, k + 1)) => left.ok /\ left.pos = k + 1
    BY DEF AndRight
<1>2. Result(q, i, left) /\ Len(q) \in Nat /\ i \in Nat /\ End(q) = Len(q) + 1
    BY TablesAt DEF End
<1>3. left.ok => left.pos \in Nat /\ left.pos >= i + 1
    BY <1>2 DEF Result
<1>4. x \in m[i][j]["or"] <=>
          \/ x \in A(j)
          \/ \E k \in (i + 1)..(j - 1) :
                /\ Kind(q, k) = "or"
                /\ \E y \in A(k - 1), n \in m[k + 1][j]["or"] : x = y \cup n
  <2>1. m[i][j]["or"] = OrMeanings(q, i, j, m) /\ A(j) = AndMeanings(q, i, j, m)
    BY TablesAt
  <2>2. ASSUME NEW k \in (i + 1)..(j - 1)
        PROVE  A(k - 1) = AndMeanings(q, i, k - 1, m)
    <3>1. k - 1 \in 0..Len(q)
      BY <1>2
    <3>2. QED
      BY <3>1, TablesAt
  <2> DEFINE Via(k, S) == /\ Kind(q, k) = "or"
                          /\ \E y \in S, n \in m[k + 1][j]["or"] : x = y \cup n
  <2>3. x \in OrMeanings(q, i, j, m) <=>
            \/ x \in AndMeanings(q, i, j, m)
            \/ \E k \in (i + 1)..(j - 1) : Via(k, AndMeanings(q, i, k - 1, m))
    BY OrHas
  <2>4. \A k \in (i + 1)..(j - 1) :
            Via(k, A(k - 1)) <=> Via(k, AndMeanings(q, i, k - 1, m))
    BY <2>2
  <2>5. x \in m[i][j]["or"] <=>
            x \in A(j) \/ \E k \in (i + 1)..(j - 1) : Via(k, A(k - 1))
    <3> HIDE DEF A, Via
    <3>1. QED
      BY <2>1, <2>3, <2>4
  <2>6. QED
    BY <2>5
<1> HIDE DEF left, A
<1>5. ASSUME NEW k \in (i + 1)..(j - 1), Kind(q, k) = "or",
             NEW y \in A(k - 1), NEW n \in m[k + 1][j]["or"], x = y \cup n
      PROVE  /\ left.ok /\ left.pos <= j - 1 /\ Kind(q, left.pos) = "or"
             /\ \E o \in m[left.pos + 1][j]["or"] : x = left.pred \cup o
  <2>1. k - 1 \in 0..Len(q) /\ (k - 1) + 1 = k /\ k <= j - 1
    BY <1>2
  <2>2. left.ok /\ left.pos = k
    BY <1>1, <1>5, <2>1 DEF EndsAnd
  <2>3. y = left.pred
    BY <1>1, <1>5, <2>2
  <2>4. QED
    BY <1>5, <2>1, <2>2, <2>3
<1>6. ASSUME left.ok, left.pos <= j - 1, Kind(q, left.pos) = "or",
             NEW n \in m[left.pos + 1][j]["or"], x = left.pred \cup n
      PROVE  \E k \in (i + 1)..(j - 1) :
                /\ Kind(q, k) = "or"
                /\ \E y \in A(k - 1), o \in m[k + 1][j]["or"] : x = y \cup o
  <2>1. left.pos \in (i + 1)..(j - 1)
    BY <1>2, <1>3, <1>6
  <2>2. left.pred \in A(left.pos - 1)
    BY <1>1, <1>6
  <2>3. QED
    BY <1>6, <2>1, <2>2
<1>7. QED
    BY <1>4, <1>5, <1>6 DEF left, A

LEMMA OrStep ==
    ASSUME NEW q \in Seq(Tokens), NEW d, NEW m, Tables(q, d, m),
           NEW i \in 1..End(q), LaterRight(q, i, d, m), AndRight(q, i, d, m)
    PROVE  OrRight(q, i, d, m)
<1> DEFINE left == d[i]["and"]
           p == left.pos
           next == p + 1
           right == d[next]["or"]
           r == d[i]["or"]
           A(j) == m[i][j]["and"]
           O(j) == m[i][j]["or"]
           N(j) == m[next][j]["or"]
           more == left.ok /\ Kind(q, p) = "or"
<1>1. r = IF ~more THEN left
          ELSE IF right.ok THEN Parsed(right.pos, left.pred \cup right.pred) ELSE Fails
  <2>1. left = parseAnd(q, i, d) /\ r = parseOr(q, i, d)
    BY TablesAt
  <2> HIDE DEF left, r
  <2>2. QED
    BY <2>1 DEF parseOr, MoreAnds
<1>2. Result(q, i, left) /\ Len(q) \in Nat /\ i \in Nat /\ End(q) = Len(q) + 1
    BY TablesAt DEF End
<1>3. left.ok => /\ p \in Nat /\ p \in (i + 1)..End(q)
                 /\ p - 1 \in 0..Len(q) /\ (p - 1) + 1 = p
    BY <1>2 DEF Result
<1>4. /\ left.ok => EndsAnd(Kind(q, p)) /\ A(p - 1) = {left.pred}
      /\ \A j \in 0..Len(q) :
            A(j) # {} /\ EndsAnd(Kind(q, j + 1)) => left.ok /\ p = j + 1
    BY DEF AndRight
<1>5. ASSUME NEW j \in 0..Len(q), NEW x
      PROVE  x \in O(j) <=> \/ x \in A(j)
                            \/ more /\ p <= j - 1 /\ \E n \in N(j) : x = left.pred \cup n
  <2>1. x \in O(j) <=>
            \/ x \in A(j)
            \/ /\ left.ok /\ p <= j - 1 /\ Kind(q, p) = "or"
               /\ \E n \in N(j) : x = left.pred \cup n
    BY OrValue
  <2> HIDE DEF left, p, A, O, N
  <2>2. QED
    BY <2>1
<1>6. more => /\ next = p + 1 /\ next \in Nat /\ Result(q, next, right)
              /\ right.ok =>
                    /\ EndsOr(Kind(q, right.pos))
                    /\ N(right.pos - 1) = {right.pred}
              /\ \A j \in 0..Len(q) :
                    N(j) # {} /\ EndsOr(Kind(q, j + 1)) => right.ok /\ right.pos = j + 1
  <2>1. more => p \in 1..Len(q)
    BY <1>2, <1>3, Kinds
  <2>2. more => next \in (i + 1)..End(q) /\ next \in 1..End(q) /\ next \in Nat /\ next = p + 1
    <3>1. more => p \in Nat /\ p >= i + 1 /\ p <= Len(q)
      BY <1>2, <1>3, <2>1
    <3> HIDE DEF p, more
    <3>2. QED
      BY <1>2, <3>1
  <2> HIDE DEF next, more, left
  <2>3. more => OrRight(q, next, d, m) /\ Result(q, next, right)
    BY <2>2, TablesAt DEF LaterRight, Right
  <2>4. QED
    BY <2>2, <2>3 DEF OrRight
<1>7. SUFFICES /\ r.ok => EndsOr(Kind(q, r.pos)) /\ O(r.pos - 1) = {r.pred}
               /\ \A j \in 0..Len(q) :
                     O(j) # {} /\ EndsOr(Kind(q, j + 1)) => r.ok /\ r.pos = j + 1
    BY DEF OrRight
<1>8. \A kind : EndsOr(kind) <=> EndsAnd(kind) /\ kind # "or"
    BY DEF EndsOr, EndsAnd
<1> HIDE DEF next, right, r, A, O, N
<1>9. CASE ~more
  <2>1. r = left
    BY <1>1, <1>9
  <2>2. \A j \in 0..Len(q) : O(j) = A(j)
    BY <1>5, <1>9
  <2>3. left.ok => EndsOr(Kind(q, p)) /\ O(p - 1) = {left.pred}
    BY <1>3, <1>4, <1>8, <1>9, <2>2
  <2>4. QED
    BY <1>4, <1>8, <2>1, <2>2, <2>3
<1>10. CASE more
  <2>1. r.ok <=> right.ok
    BY <1>1, <1>6, <1>10 DEF Parsed, Fails, Result
  <2>2. ASSUME NEW j \in 0..Len(q), EndsOr(Kind(q, j + 1))
        PROVE  A(j) = {}
    <3>1. A(j) # {} => p = j + 1
      BY <1>4, <1>8, <2>2
    <3>2. QED
      BY <1>10, <2>2, <3>1 DEF EndsOr
  <2>3. ASSUME r.ok
        PROVE  EndsOr(Kind(q, r.pos)) /\ O(r.pos - 1) = {r.pred}
    <3>1. right.ok /\ r.pos = right.pos /\ r.pred = left.pred \cup right.pred
      BY <1>1, <1>10, <2>1, <2>3 DEF Parsed
    <3>2. /\ right.pos \in Nat /\ right.pos - 1 \in 0..Len(q) /\ (right.pos - 1) + 1 = right.pos
          /\ p <= (right.pos - 1) - 1
      <4>1. p \in Nat /\ next = p + 1 /\ Result(q, next, right)
        BY <1>3, <1>6, <1>10
      <4>2. right.pos \in (next + 1)..End(q)
        BY <3>1, <4>1 DEF Result
      <4> HIDE DEF p
      <4>3. QED
        BY <1>2, <4>1, <4>2
    <3>3. N(right.pos - 1) = {right.pred} /\ EndsOr(Kind(q, right.pos))
      BY <1>6, <1>10, <3>1
    <3>4. A(right.pos - 1) = {}
      BY <2>2, <3>2, <3>3
    <3>5. \A x : x \in O(right.pos - 1) <=> x = left.pred \cup right.pred
      BY <1>5, <1>10, <3>2, <3>3, <3>4
    <3>6. QED
      BY <3>1, <3>3, <3>5
  <2>4. ASSUME NEW j \in 0..Len(q), O(j) # {}, EndsOr(Kind(q, j + 1))
        PROVE  r.ok /\ r.pos = j + 1
    <3>1. N(j) # {}
      BY <1>5, <2>2, <2>4
    <3>2. right.ok /\ right.pos = j + 1
      BY <1>6, <1>10, <2>4, <3>1
    <3>3. QED
      BY <1>1, <1>10, <3>2 DEF Parsed
  <2>5. QED
    BY <2>3, <2>4
<1>11. QED
    BY <1>9, <1>10

LEMMA AllRight ==
    ASSUME NEW q \in Seq(Tokens), NEW i \in 1..End(q)
    PROVE  Right(q, i, Descent(q), Meanings(q))
<1> DEFINE d == Descent(q)
           m == Meanings(q)
           Done == {j \in 1..End(q) : Right(q, j, d, m)}
<1>1. Tables(q, d, m)
    BY TablesOf
<1> HIDE DEF d, m
<1>2. ASSUME NEW j \in 1..End(q), \A k \in (j + 1)..End(q) : k \in Done
      PROVE  j \in Done
  <2>1. LaterRight(q, j, d, m)
    BY <1>2 DEF LaterRight
  <2>2. TermRight(q, j, d, m)
    BY <1>1, <2>1, TermStep
  <2>3. AndRight(q, j, d, m)
    BY <1>1, <2>1, <2>2, AndStep
  <2>4. OrRight(q, j, d, m)
    BY <1>1, <2>1, <2>3, OrStep
  <2>5. QED
    BY <2>2, <2>3, <2>4 DEF Right
<1>3. End(q) \in Nat
    BY DEF End
<1>4. i \in Done
  <2> HIDE DEF Done
  <2>1. QED
    BY <1>2, <1>3, FromTheEnd
<1>5. QED
    BY <1>4 DEF d, m

LEMMA QueryOfTokens == QuerySpec => []QueryOK
<1>1. QueryInit => QueryOK
    BY EmptySeq DEF QueryInit, QueryOK
<1>2. QueryOK /\ [QueryNext]_query => QueryOK'
  <2> SUFFICES ASSUME QueryOK, [QueryNext]_query
               PROVE  query' \in Seq(Tokens)
    BY DEF QueryOK
  <2>1. QED
    BY AppendProperties DEF QueryOK, QueryNext, Write
<1>3. QED
    BY <1>1, <1>2, PTL DEF QuerySpec

\* parser.go:5: for queries of any length.
THEOREM QueriesMeanGrammar == QuerySpec => []MeansGrammar
<1>1. QueryOK => MeansGrammar
  <2> SUFFICES ASSUME QueryOK, query # <<>>
               PROVE  Meanings(query)[1][Len(query)]["or"] =
                          IF Parse(query).ok THEN {Parse(query).pred} ELSE {}
    BY DEF MeansGrammar, MeantBy
  <2> DEFINE r == Descent(query)[1]["or"]
             O(j) == Meanings(query)[1][j]["or"]
             n == Len(query)
  <2>1. query \in Seq(Tokens) /\ n \in Nat /\ n \in 0..n /\ 1 \in 1..End(query)
    BY DEF QueryOK, End
  <2>2. /\ r.ok => O(r.pos - 1) = {r.pred}
        /\ O(n) # {} /\ EndsOr(Kind(query, n + 1)) => r.ok /\ r.pos = n + 1
    BY <2>1, AllRight DEF Right, OrRight
  <2>3. Kind(query, n + 1) = "eof" /\ (n + 1) - 1 = n
    BY <2>1 DEF Kind
  <2>4. Parse(query) = IF r.ok /\ r.pos = n + 1 THEN r ELSE Fails
    BY DEF Parse, Whole
  <2> HIDE DEF r, O, n
  <2>5. CASE r.ok /\ r.pos = n + 1
    BY <2>2, <2>3, <2>4, <2>5 DEF O, n
  <2>6. CASE ~(r.ok /\ r.pos = n + 1)
    <3>1. O(n) = {}
      BY <2>2, <2>3, <2>6 DEF EndsOr
    <3>2. QED
      BY <2>4, <2>6, <3>1 DEF Fails, O, n
  <2>7. QED
    BY <2>5, <2>6
<1>2. QED
    BY <1>1, QueryOfTokens, PTL
-----------------------------------------------------------------------------
(***************************************************************************)
(* The two ends of a query.                                                *)
(***************************************************************************)

\* A predicate that says the same of an entry and of what is left of it at a client.
Steady(pred) == \A e \in Logged : e \in pred <=> AtClient(e) \in pred

\* The words that ask only for what the JSON declares.
Declared(w) == w.shape = "search" \/ w.field \in TopLevel

AsksDeclared(q) ==
    \A i \in DOMAIN q : q[i].kind = "word" => Declared(q[i].word)

LEMMA WordsAreSteady ==
    ASSUME NEW w \in Words, Declared(w)
    PROVE  Steady(buildPredicate(w))
<1> SUFFICES ASSUME NEW e \in Logged
             PROVE  e \in buildPredicate(w) <=> AtClient(e) \in buildPredicate(w)
    BY DEF Steady
<1> DEFINE a == AtClient(e)
<1>1. /\ DOMAIN a = DOMAIN e \cap TopLevel
      /\ \A f \in DOMAIN a : a[f] = e[f]
      /\ e \in Universe /\ a \in Universe
    BY DEF AtClient, Universe
<1> HIDE DEF a
<1>2. CASE w.shape = "search"
  <2> DEFINE Found(x) == \E f \in {"msg", "raw"} \cap DOMAIN x : Within(x[f], w.text)
  <2>1. \A x : x \in buildPredicate(w) <=> x \in Universe /\ Found(x)
    BY <1>2 DEF buildPredicate
  <2>2. "raw" \in DOMAIN e => "msg" \in DOMAIN e /\ e["raw"] = e["msg"]
    BY RawAssumption
  <2>3. "raw" \notin DOMAIN a /\ ("msg" \in DOMAIN a <=> "msg" \in DOMAIN e)
    BY <1>1 DEF TopLevel
  <2>4. Found(e) <=> "msg" \in DOMAIN e /\ Within(e["msg"], w.text)
    BY <2>2
  <2>5. Found(a) <=> "msg" \in DOMAIN a /\ Within(a["msg"], w.text)
    BY <2>3
  <2>6. "msg" \in DOMAIN a => a["msg"] = e["msg"]
    BY <1>1
  <2> HIDE DEF Found
  <2>7. e \in buildPredicate(w) <=> a \in buildPredicate(w)
    BY <1>1, <2>1, <2>3, <2>4, <2>5, <2>6
  <2>8. QED
    BY <2>7 DEF a
<1>3. CASE w.shape # "search"
  <2> DEFINE f == w.field
  <2>1. f \in TopLevel /\ buildPredicate(w) = fieldPredicate(w)
    BY <1>3 DEF Declared, buildPredicate
  <2>2. (f \in DOMAIN a <=> f \in DOMAIN e) /\ (f \in DOMAIN e => a[f] = e[f])
    BY <1>1, <2>1
  <2>3. e \in Numeric(f) <=> a \in Numeric(f)
    BY <1>1, <2>2 DEF Numeric
  <2>4. e \in Numeric(f) => a[f] = e[f]
    BY <2>2 DEF Numeric
  <2>5. e \in fieldPredicate(w) <=> a \in fieldPredicate(w)
    <3>1. CASE IsRange(w)
      <4>1. fieldPredicate(w) = {x \in Numeric(f) : InRange(x[f].num, w.num)}
        BY <3>1 DEF fieldPredicate, IsRange
      <4> HIDE DEF f
      <4>2. QED
        BY <2>3, <2>4, <4>1
    <3>2. CASE ~IsRange(w) /\ w.shape = "compare"
      <4>1. fieldPredicate(w) = {x \in Numeric(f) : Compare(x[f].num, w.op, w.num)}
        BY <3>2 DEF fieldPredicate, IsRange
      <4> HIDE DEF f
      <4>2. QED
        BY <2>3, <2>4, <4>1
    <3>3. CASE ~IsRange(w) /\ w.shape = "number" /\ f \in NumericFields
      <4>1. fieldPredicate(w) = {x \in Numeric(f) : x[f].num = w.num}
        BY <3>3 DEF fieldPredicate, IsRange
      <4> HIDE DEF f
      <4>2. QED
        BY <2>3, <2>4, <4>1
    <3>4. CASE /\ ~IsRange(w) /\ w.shape # "compare"
               /\ ~(w.shape = "number" /\ f \in NumericFields)
      <4> DEFINE Has(v) == IF f \in EqualFields THEN v.text = w.text ELSE Within(v, w.text)
      <4>1. fieldPredicate(w) = {x \in Universe : f \in DOMAIN x /\ Has(x[f])}
        BY <3>4 DEF fieldPredicate
      <4> HIDE DEF f, Has
      <4>2. QED
        BY <1>1, <2>2, <4>1
    <3>5. QED
      BY <3>1, <3>2, <3>3, <3>4
  <2>6. QED
    BY <2>1, <2>5 DEF a
<1>4. QED
    BY <1>2, <1>3

\* What a query is put together with keeps a predicate steady.
LEMMA SteadyTogether ==
    ASSUME NEW A, NEW B, Steady(A), Steady(B)
    PROVE  /\ Steady(A \cap B) /\ Steady(A \cup B)
           /\ Steady(Universe) /\ Steady(Universe \ A)
<1>1. \A e \in Logged : e \in Universe /\ AtClient(e) \in Universe
    BY DEF Universe
<1>2. QED
    BY <1>1 DEF Steady

SteadyAt(d, i) == \A rule \in Rules : d[i][rule].ok => Steady(d[i][rule].pred)

LEMMA SteadyStep ==
    ASSUME NEW q \in Seq(Tokens), AsksDeclared(q),
           NEW i \in 1..End(q), NEW d,
           \A j \in 1..End(q) : Results(q, j, d),
           \A rule \in Rules : d[i][rule] = parse(q, rule, i, d),
           \A j \in (i + 1)..End(q) : SteadyAt(d, j)
    PROVE  SteadyAt(d, i)
<1> DEFINE term == d[i]["term"]
           and == d[i]["and"]
           or == d[i]["or"]
<1>1. /\ term = parseTerm(q, i, d)
      /\ and = parseAnd(q, i, d)
      /\ or = parseOr(q, i, d)
  <2>1. "term" \in Rules /\ "and" \in Rules /\ "or" \in Rules
    BY DEF Rules
  <2>2. QED
    BY <2>1 DEF parse
<1>2. Result(q, i, term) /\ Result(q, i, and) /\ Len(q) \in Nat /\ End(q) = Len(q) + 1 /\ i \in Nat
    BY DEF Results, Rules, End
<1>3. ASSUME NEW j \in (i + 1)..End(q)
      PROVE  /\ d[j]["term"].ok => Steady(d[j]["term"].pred)
             /\ d[j]["and"].ok => Steady(d[j]["and"].pred)
             /\ d[j]["or"].ok => Steady(d[j]["or"].pred)
    BY <1>3 DEF SteadyAt, Rules
<1>4. Kind(q, i) # "eof" => i \in 1..Len(q) /\ i + 1 \in (i + 1)..End(q)
    BY <1>2, Kinds
<1> HIDE DEF term, and, or
<1>5. term.ok => Steady(term.pred)
  <2> SUFFICES ASSUME term.ok PROVE Steady(term.pred)
      OBVIOUS
  <2>1. CASE Kind(q, i) = "not"
    <3> DEFINE inner == d[i + 1]["term"]
    <3>1. term = IF inner.ok THEN Parsed(inner.pos, Universe \ inner.pred)
                             ELSE Fails
      BY <1>1, <2>1 DEF parseTerm, Negated
    <3>2. inner.ok => Steady(inner.pred)
      BY <1>3, <1>4, <2>1
    <3> HIDE DEF inner
    <3>3. QED
      BY <3>1, <3>2, SteadyTogether DEF Parsed, Fails
  <2>2. CASE Kind(q, i) = "("
    <3> DEFINE inner == d[i + 1]["or"]
    <3>1. term = IF inner.ok /\ Kind(q, inner.pos) = ")"
                 THEN Parsed(inner.pos + 1, inner.pred) ELSE Fails
      BY <1>1, <2>2 DEF parseTerm
    <3>2. inner.ok => Steady(inner.pred)
      BY <1>3, <1>4, <2>2
    <3> HIDE DEF inner
    <3>3. QED
      BY <3>1, <3>2 DEF Parsed, Fails
  <2>3. CASE Kind(q, i) = "word"
    <3>1. term = IF BadRange(q[i].word) THEN Fails
                 ELSE Parsed(i + 1, buildPredicate(q[i].word))
      BY <1>1, <2>3 DEF parseTerm
    <3>2. q[i].word \in Words /\ Declared(q[i].word)
      BY <1>2, <1>4, <2>3, Kinds DEF AsksDeclared, Kind
    <3>3. QED
      BY <3>1, <3>2, WordsAreSteady DEF Parsed, Fails
  <2>4. CASE Kind(q, i) \notin {"not", "(", "word"}
    BY <1>1, <2>4 DEF parseTerm, Fails
  <2>5. QED
    BY <2>1, <2>2, <2>3, <2>4
<1>6. and.ok => Steady(and.pred)
  <2> DEFINE p == term.pos
             next == IF Kind(q, p) = "and" THEN p + 1 ELSE p
             right == d[next]["and"]
             ends == EndsAnd(Kind(q, p))
  <2>1. and = IF ~term.ok \/ ends THEN term
              ELSE IF right.ok THEN Parsed(right.pos, term.pred \cap right.pred)
                               ELSE Fails
    BY <1>1 DEF parseAnd, MoreTerms
  <2>2. term.ok => p \in Nat /\ p \in (i + 1)..End(q)
    BY <1>2 DEF Result
  <2>3. term.ok /\ ~ends => next \in (i + 1)..End(q)
    <3>1. term.ok /\ ~ends => p \in 1..Len(q)
      BY <1>2, <2>2, Kinds DEF EndsAnd
    <3>2. QED
      BY <1>2, <2>2, <3>1
  <2> HIDE DEF next, ends, p
  <2>4. term.ok /\ ~ends /\ right.ok => Steady(right.pred)
    BY <1>3, <2>3
  <2> HIDE DEF right
  <2>5. QED
    BY <1>5, <2>1, <2>4, SteadyTogether DEF Parsed, Fails
<1>7. or.ok => Steady(or.pred)
  <2> DEFINE p == and.pos
             next == p + 1
             right == d[next]["or"]
             more == and.ok /\ Kind(q, p) = "or"
  <2>1. or = IF ~more THEN and
             ELSE IF right.ok THEN Parsed(right.pos, and.pred \cup right.pred)
                              ELSE Fails
    BY <1>1 DEF parseOr, MoreAnds
  <2>2. and.ok => p \in Nat /\ p \in (i + 1)..End(q)
    BY <1>2 DEF Result
  <2>3. more => next \in (i + 1)..End(q)
    <3>1. more => p \in 1..Len(q)
      BY <1>2, <2>2, Kinds
    <3>2. QED
      BY <1>2, <2>2, <3>1
  <2> HIDE DEF next, p
  <2>4. more /\ right.ok => Steady(right.pred)
    <3> HIDE DEF more
    <3>1. QED
      BY <1>3, <2>3
  <2>5. more => and.ok
    OBVIOUS
  <2> HIDE DEF right, more
  <2>6. QED
    BY <1>6, <2>1, <2>4, <2>5, SteadyTogether DEF Parsed, Fails
<1>8. QED
    BY <1>5, <1>6, <1>7 DEF SteadyAt, Rules, term, and, or

LEMMA AllSteady ==
    ASSUME NEW q \in Seq(Tokens), AsksDeclared(q), NEW i \in 1..End(q)
    PROVE  SteadyAt(Descent(q), i)
<1> DEFINE d == Descent(q)
           Done == {j \in 1..End(q) : SteadyAt(d, j)}
<1>1. \A j \in 1..End(q) : Results(q, j, d)
    BY DescentIs
<1>2. \A j \in 1..End(q) : \A rule \in Rules : d[j][rule] = parse(q, rule, j, d)
    BY DescentIs
<1> HIDE DEF d
<1>3. ASSUME NEW j \in 1..End(q), \A k \in (j + 1)..End(q) : k \in Done
      PROVE  j \in Done
  <2>1. \A k \in (j + 1)..End(q) : SteadyAt(d, k)
    BY <1>3
  <2>2. SteadyAt(d, j)
    BY <1>1, <1>2, <2>1, SteadyStep
  <2>3. QED
    BY <2>2
<1>4. End(q) \in Nat
    BY DEF End
<1>5. i \in Done
  <2> HIDE DEF Done
  <2>1. QED
    BY <1>3, <1>4, FromTheEnd
<1>6. QED
    BY <1>5 DEF d

\* README.md:171: a query that asks for declared fields and texts only says the same
\* of an entry in the daemon and of what the JSON leaves of it at a client.
THEOREM QueriesSameAtClient == QuerySpec => []SameAtClient
<1>1. QueryOK => SameAtClient
  <2> SUFFICES ASSUME QueryOK, AsksDeclared(query), Parse(query).ok
               PROVE  Steady(Parse(query).pred)
      BY DEF SameAtClient, MeantBy, AsksDeclared, Declared, Steady
  <2>1. CASE query = <<>>
    <3>1. Parse(query).pred = Universe
      BY <2>1 DEF Parse, Parsed
    <3>2. QED
      BY <3>1 DEF Steady, Universe
  <2>2. CASE query # <<>>
    <3> DEFINE r == Descent(query)[1]["or"]
    <3>1. query \in Seq(Tokens) /\ 1 \in 1..End(query) /\ "or" \in Rules
      BY DEF QueryOK, End, Rules
    <3>2. r.ok => Steady(r.pred)
      BY <3>1, AllSteady DEF SteadyAt
    <3>3. Parse(query) = IF r.ok /\ r.pos = Len(query) + 1 THEN r ELSE Fails
      BY <2>2 DEF Parse, Whole
    <3> HIDE DEF r
    <3>4. QED
      BY <3>2, <3>3 DEF Fails
  <2>3. QED
    BY <2>1, <2>2
<1>2. QED
    BY <1>1, QueryOfTokens, PTL
=============================================================================
