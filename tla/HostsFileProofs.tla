--------------------------- MODULE HostsFileProofs ---------------------------
(***************************************************************************)
(* Proofs about HostsFile for files, host lists and lines of others of any *)
(* length, and any number of calls, crashes and edits.                     *)
(*                                                                         *)
(* Every file is one that the calls can handle: it has no marker, or one   *)
(* block (OneBlock). On such files the loop is computed in closed form     *)
(* (ScanWithout, ScanWith): a recursive function is only what its equation *)
(* says, so the closed form is shown to satisfy the equation, and the      *)
(* equation to have one solution. What the two calls make of a file is     *)
(* then a concatenation, and the properties are facts about those.         *)
(***************************************************************************)
EXTENDS HostsFile, SequenceTheorems, WellFoundedInduction, TLAPS

Markers == {"begin", "end"}

NoMarker(lines) == \A i \in DOMAIN lines : lines[i] \notin Markers

\* The only markers of the lines are at b and e.
BlockAt(lines, b, e) ==
    /\ b \in 1..Len(lines) /\ e \in 1..Len(lines) /\ b < e
    /\ lines[b] = "begin" /\ lines[e] = "end"
    /\ \A i \in DOMAIN lines : i # b /\ i # e => lines[i] \notin Markers

OneBlock(lines) == NoMarker(lines) \/ \E b, e \in DOMAIN lines : BlockAt(lines, b, e)

Holds(lines, block) ==
    \E b, e \in DOMAIN lines : BlockAt(lines, b, e) /\ SubSeq(lines, b, e) = block

\* Others have only added lines since the call read the file.
Extends(lines, read) ==
    /\ Len(read) <= Len(lines)
    /\ \A i \in DOMAIN read : lines[i] = read[i]
    /\ \A i \in DOMAIN lines : i > Len(read) => lines[i] \notin Markers

ReadIsOld ==
    call # NoCall => OneBlock(call.read.lines) /\ Extends(file.lines, call.read.lines)

BlockIsThere ==
    /\ wants = Nothing => NoMarker(file.lines)
    /\ wants \notin {Nothing, Unknown} => Holds(file.lines, wants)

IInv ==
    /\ TypeOK
    /\ OneBlock(file.lines)
    /\ ReadIsOld
    /\ BlockIsThere
    /\ OutsideKept

-----------------------------------------------------------------------------
(***************************************************************************)
(* Places in a file.                                                       *)
(***************************************************************************)

LEMMA LeastNumber ==
    ASSUME NEW S \in SUBSET Nat, S # {}
    PROVE  \E x \in S : \A y \in S : x <= y
<1> DEFINE R == {ss \in Nat \X Nat : ss[1] < ss[2]}
<1>1. IsWellFoundedOn(R, Nat)
    BY NatLessThanWellFounded DEF OpToRel
<1>2. PICK x \in S : \A y \in S : <<y, x>> \notin R
  <2> HIDE DEF R
  <2>1. QED
    BY <1>1, WFMin
<1>3. \A y \in S : x <= y
  <2> TAKE y \in S
  <2>1. ~(y < x)
    BY <1>2
  <2>2. QED
    BY <2>1
<1>4. QED
    BY <1>3

\* A set of positions that is not empty has a last one.
LEMMA LastPosition ==
    ASSUME NEW n \in Nat, NEW S \in SUBSET (1..n), S # {}
    PROVE  \E x \in S : \A y \in S : x >= y
<1> DEFINE T == {n - i : i \in S}
<1>2. T \subseteq Nat /\ T # {}
  <2>1. \A i \in S : n - i \in Nat
    OBVIOUS
  <2>2. QED
    BY <2>1
<1>3. PICK x \in T : \A y \in T : x <= y
  <2> HIDE DEF T
  <2>1. QED
    BY <1>2, LeastNumber
<1>5. PICK i \in S : x = n - i
    BY <1>3
<1>6. \A j \in S : i >= j
  <2> TAKE j \in S
  <2>1. n - i <= n - j
    BY <1>3, <1>5
  <2>2. i \in 1..n /\ j \in 1..n
    OBVIOUS
  <2>3. QED
    BY <2>1, <2>2
<1>7. QED
    BY <1>6

\* The only place of a marker is its first.
LEMMA PlaceOnly ==
    ASSUME NEW lines \in Seq(Lines), NEW marker, NEW p \in 1..Len(lines),
           lines[p] = marker, \A i \in 1..Len(lines) : i # p => lines[i] # marker
    PROVE  Place(lines, marker) = p
<1> DEFINE I == {i \in 1..Len(lines) : lines[i] = marker}
<1>1. I = {p}
    OBVIOUS
<1>2. Min(I) = p
    BY <1>1 DEF Min
<1>3. QED
    BY <1>1, <1>2 DEF Place, SelectInSeq

LEMMA PlaceNone ==
    ASSUME NEW lines \in Seq(Lines), NEW marker, \A i \in 1..Len(lines) : lines[i] # marker
    PROVE  Place(lines, marker) = 0
<1> DEFINE I == {i \in 1..Len(lines) : lines[i] = marker}
<1>1. I = {}
    OBVIOUS
<1>2. QED
    BY <1>1 DEF Place, SelectInSeq

\* The lines up to n are all but the empty ones at the end.
EndsAt(lines, n) ==
    /\ n \in 0..Len(lines)
    /\ n # 0 => lines[n] # "blank"
    /\ \A i \in 1..Len(lines) : i > n => lines[i] = "blank"

LEMMA TrimRightValue ==
    ASSUME NEW lines \in Seq(Lines), NEW n, EndsAt(lines, n)
    PROVE  TrimRight(lines) = [lines |-> SubSeq(lines, 1, n), nl |-> FALSE]
<1> DEFINE I == {i \in 1..Len(lines) : lines[i] # "blank"}
<1>1. Len(lines) \in Nat /\ n \in 0..Len(lines)
    BY DEF EndsAt
<1>2. \A i \in I : i <= n
    BY <1>1 DEF EndsAt
<1>3. (IF I # {} THEN Max(I) ELSE 0) = n
  <2>1. CASE n = 0
    BY <1>1, <1>2, <2>1
  <2>2. CASE n # 0
    <3>1. n \in I
      BY <1>1, <2>2 DEF EndsAt
    <3>2. \A x \in I : (\A y \in I : x >= y) => x = n
      <4> TAKE x \in I
      <4> HAVE \A y \in I : x >= y
      <4>1. x >= n /\ x <= n
        BY <3>1, <1>2
      <4>2. QED
        BY <4>1, <1>1
    <3>3. \A y \in I : n >= y
      BY <1>1, <1>2
    <3>4. Max(I) = n
      BY <3>1, <3>2, <3>3 DEF Max
    <3>5. QED
      BY <3>1, <3>4
  <2>3. QED
    BY <2>1, <2>2
<1>4. QED
    BY <1>3 DEF TrimRight, SelectLastInSeq

LEMMA EndsSomewhere ==
    ASSUME NEW lines \in Seq(Lines)
    PROVE  \E n \in 0..Len(lines) : EndsAt(lines, n)
<1> DEFINE I == {i \in 1..Len(lines) : lines[i] # "blank"}
<1>1. Len(lines) \in Nat
    OBVIOUS
<1>2. CASE I = {}
    BY <1>1, <1>2 DEF EndsAt
<1>3. CASE I # {}
  <2>1. PICK x \in I : \A y \in I : x >= y
    <3> HIDE DEF I
    <3>1. I \in SUBSET (1..Len(lines))
      BY DEF I
    <3>2. QED
      BY <1>1, <1>3, <3>1, LastPosition
  <2>2. EndsAt(lines, x)
    BY <1>1, <2>1 DEF EndsAt
  <2>3. QED
    BY <2>1, <2>2
<1>4. QED
    BY <1>2, <1>3

\* What is trimmed ends where it ends.
LEMMA EndOfPrefix ==
    ASSUME NEW lines \in Seq(Lines), NEW n, EndsAt(lines, n)
    PROVE  EndsAt(SubSeq(lines, 1, n), n)
<1>1. n \in 0..Len(lines) /\ Len(lines) \in Nat
    BY DEF EndsAt
<1>2. /\ SubSeq(lines, 1, n) \in Seq(Lines)
      /\ Len(SubSeq(lines, 1, n)) = n
      /\ \A i \in 1..n : SubSeq(lines, 1, n)[i] = lines[i]
    BY <1>1
<1>3. QED
    BY <1>1, <1>2 DEF EndsAt

LEMMA TrimRightTwice ==
    ASSUME NEW lines \in Seq(Lines)
    PROVE  /\ TrimRight(lines) \in Contents
           /\ TrimRight(TrimRight(lines).lines) = TrimRight(lines)
           /\ \A i \in DOMAIN TrimRight(lines).lines :
                 i \in DOMAIN lines /\ TrimRight(lines).lines[i] = lines[i]
<1>1. PICK n \in 0..Len(lines) : EndsAt(lines, n)
    BY EndsSomewhere
<1> DEFINE s == SubSeq(lines, 1, n)
<1>2. TrimRight(lines) = [lines |-> s, nl |-> FALSE]
    BY <1>1, TrimRightValue
<1>3. s \in Seq(Lines) /\ Len(s) = n /\ \A i \in 1..n : s[i] = lines[i]
    BY <1>1
<1>4. EndsAt(s, n)
    BY <1>1, EndOfPrefix
<1>5. SubSeq(s, 1, n) = s
    BY <1>3, SubSeqFull
<1> HIDE DEF s
<1>6. TrimRight(s) = [lines |-> s, nl |-> FALSE]
  <2>1. TrimRight(s) = [lines |-> SubSeq(s, 1, n), nl |-> FALSE]
    BY <1>3, <1>4, TrimRightValue
  <2>2. QED
    BY <2>1, <1>5
<1>7. TrimRight(lines) \in Contents
  <2>1. s = <<>> \/ Last(s) # "blank"
    BY <1>3, <1>4 DEF EndsAt, Last
  <2>2. QED
    BY <1>2, <1>3, <2>1 DEF Contents, IsContent
<1>8. TrimRight(lines).lines = s
    BY <1>2
<1>9. TrimRight(TrimRight(lines).lines) = TrimRight(lines)
    BY <1>2, <1>6, <1>8
<1>10. ASSUME NEW i \in DOMAIN s
       PROVE  i \in DOMAIN lines /\ s[i] = lines[i]
    BY <1>3
<1>11. QED
    BY <1>7, <1>8, <1>9, <1>10

-----------------------------------------------------------------------------
(***************************************************************************)
(* Scanned lines.                                                          *)
(***************************************************************************)

LEMMA ScannedType ==
    ASSUME NEW line \in Lines
    PROVE  Scanned(line) \in Lines
    BY DEF Scanned, Lines

LEMMA AllScannedType ==
    ASSUME NEW lines \in Seq(Lines)
    PROVE  /\ AllScanned(lines) \in Seq(Lines)
           /\ Len(AllScanned(lines)) = Len(lines)
           /\ \A i \in 1..Len(lines) : AllScanned(lines)[i] = Scanned(lines[i])
<1>1. \A i \in 1..Len(lines) : Scanned(lines[i]) \in Lines
    BY ScannedType
<1>2. DOMAIN lines = 1..Len(lines) /\ Len(lines) \in Nat
    OBVIOUS
<1>3. QED
    BY <1>1, <1>2 DEF AllScanned

\* No line is scanned twice to something else, none to a marker.
LEMMA ScannedLine ==
    ASSUME NEW line
    PROVE  /\ Scanned(Scanned(line)) = Scanned(line)
           /\ Scanned(line) = "begin" <=> line = "begin"
           /\ Scanned(line) = "end" <=> line = "end"
           /\ Scanned(line) \in Markers <=> line \in Markers
    BY DEF Scanned, Markers

LEMMA ScannedTwice ==
    ASSUME NEW lines \in Seq(Lines)
    PROVE  AllScanned(AllScanned(lines)) = AllScanned(lines)
<1> DEFINE s == AllScanned(lines)
<1>1. s \in Seq(Lines) /\ Len(s) = Len(lines)
    BY AllScannedType
<1>2. \A i \in 1..Len(lines) : s[i] = Scanned(lines[i])
    BY AllScannedType
<1> HIDE DEF s
<1>3. AllScanned(s) \in Seq(Lines) /\ Len(AllScanned(s)) = Len(s)
    BY <1>1, AllScannedType
<1>4. \A i \in 1..Len(s) : AllScanned(s)[i] = Scanned(s[i])
    BY <1>1, AllScannedType
<1>5. \A i \in 1..Len(s) : AllScanned(s)[i] = s[i]
    BY <1>1, <1>2, <1>4, ScannedLine
<1>6. AllScanned(s) = s
    BY <1>1, <1>3, <1>5, SeqEqual
<1>7. QED
    BY <1>6 DEF s

LEMMA ScannedConcat ==
    ASSUME NEW s \in Seq(Lines), NEW t \in Seq(Lines)
    PROVE  AllScanned(s \o t) = AllScanned(s) \o AllScanned(t)
<1>1. s \o t \in Seq(Lines) /\ Len(s \o t) = Len(s) + Len(t)
    OBVIOUS
<1>2. \A i \in 1..Len(s) + Len(t) : (s \o t)[i] = IF i <= Len(s) THEN s[i] ELSE t[i - Len(s)]
    OBVIOUS
<1>3. /\ AllScanned(s \o t) \in Seq(Lines)
      /\ Len(AllScanned(s \o t)) = Len(s) + Len(t)
      /\ \A i \in 1..Len(s) + Len(t) : AllScanned(s \o t)[i] = Scanned((s \o t)[i])
    BY <1>1, AllScannedType
<1>4. /\ AllScanned(s) \in Seq(Lines) /\ Len(AllScanned(s)) = Len(s)
      /\ AllScanned(t) \in Seq(Lines) /\ Len(AllScanned(t)) = Len(t)
    BY AllScannedType
<1>5. /\ AllScanned(s) \o AllScanned(t) \in Seq(Lines)
      /\ Len(AllScanned(s) \o AllScanned(t)) = Len(s) + Len(t)
      /\ \A i \in 1..Len(s) + Len(t) : (AllScanned(s) \o AllScanned(t))[i] =
            IF i <= Len(s) THEN AllScanned(s)[i] ELSE AllScanned(t)[i - Len(s)]
  <2> DEFINE a == AllScanned(s)
             b == AllScanned(t)
  <2>1. a \in Seq(Lines) /\ Len(a) = Len(s) /\ b \in Seq(Lines) /\ Len(b) = Len(t)
    BY <1>4
  <2> HIDE DEF a, b
  <2>2. /\ a \o b \in Seq(Lines)
        /\ Len(a \o b) = Len(s) + Len(t)
        /\ \A i \in 1..Len(s) + Len(t) : (a \o b)[i] = IF i <= Len(s) THEN a[i] ELSE b[i - Len(s)]
    BY <2>1
  <2>3. QED
    BY <2>2 DEF a, b
<1>6. ASSUME NEW i \in 1..Len(s) + Len(t)
      PROVE  AllScanned(s \o t)[i] = (AllScanned(s) \o AllScanned(t))[i]
  <2>1. Len(s) \in Nat /\ Len(t) \in Nat
    OBVIOUS
  <2>2. CASE i <= Len(s)
    <3>1. i \in 1..Len(s)
      BY <2>1, <2>2
    <3>2. AllScanned(s)[i] = Scanned(s[i])
      BY <3>1, AllScannedType
    <3>3. QED
      BY <1>2, <1>3, <1>5, <2>2, <3>2
  <2>3. CASE ~(i <= Len(s))
    <3>1. i - Len(s) \in 1..Len(t)
      BY <2>1, <2>3
    <3>2. AllScanned(t)[i - Len(s)] = Scanned(t[i - Len(s)])
      BY <3>1, AllScannedType
    <3>3. QED
      BY <1>2, <1>3, <1>5, <2>3, <3>2
  <2>4. QED
    BY <2>2, <2>3
<1>7. QED
    BY <1>3, <1>5, <1>6, SeqEqual

\* The scanned lines from m to n, one more at a time.
ScannedPart(lines, m, n) == AllScanned(SubSeq(lines, m, n))

LEMMA ScannedPartType ==
    ASSUME NEW lines \in Seq(Lines), NEW m \in 1..(Len(lines) + 1), NEW n \in (m - 1)..Len(lines)
    PROVE  /\ ScannedPart(lines, m, n) \in Seq(Lines)
           /\ Len(ScannedPart(lines, m, n)) = n - m + 1
           /\ n < m => ScannedPart(lines, m, n) = <<>>
           /\ \A i \in 1..(n - m + 1) : ScannedPart(lines, m, n)[i] = Scanned(lines[m + i - 1])
<1>1. Len(lines) \in Nat
    OBVIOUS
<1>2. /\ SubSeq(lines, m, n) \in Seq(Lines)
      /\ Len(SubSeq(lines, m, n)) = n - m + 1
      /\ \A i \in 1..(n - m + 1) : SubSeq(lines, m, n)[i] = lines[m + i - 1]
    BY <1>1
<1> DEFINE t == SubSeq(lines, m, n)
<1> HIDE DEF t
<1>3. /\ AllScanned(t) \in Seq(Lines)
      /\ Len(AllScanned(t)) = Len(t)
      /\ \A i \in 1..Len(t) : AllScanned(t)[i] = Scanned(t[i])
    BY <1>2, AllScannedType DEF t
<1>4. t \in Seq(Lines) /\ Len(t) = n - m + 1 /\ \A i \in 1..(n - m + 1) : t[i] = lines[m + i - 1]
    BY <1>2 DEF t
<1>5. n < m => AllScanned(t) = <<>>
    BY <1>1, <1>3, <1>4
<1>6. \A i \in 1..(n - m + 1) : AllScanned(t)[i] = Scanned(lines[m + i - 1])
    BY <1>3, <1>4
<1>7. QED
    BY <1>3, <1>4, <1>5, <1>6 DEF ScannedPart, t

LEMMA AppendLine ==
    ASSUME NEW s \in Seq(Lines), NEW line \in Lines
    PROVE  /\ Append(s, line) \in Seq(Lines) /\ Len(Append(s, line)) = Len(s) + 1
           /\ \A i \in 1..Len(s) : Append(s, line)[i] = s[i]
           /\ Append(s, line)[Len(s) + 1] = line
    OBVIOUS

LEMMA ConcatAppend ==
    ASSUME NEW s \in Seq(Lines), NEW t \in Seq(Lines), NEW line \in Lines
    PROVE  s \o Append(t, line) = Append(s \o t, line)
    OBVIOUS

LEMMA ScannedPartGrows ==
    ASSUME NEW lines \in Seq(Lines), NEW m \in 1..Len(lines), NEW n \in m..Len(lines)
    PROVE  ScannedPart(lines, m, n) = Append(ScannedPart(lines, m, n - 1), Scanned(lines[n]))
<1> DEFINE s == ScannedPart(lines, m, n)
           t == ScannedPart(lines, m, n - 1)
           u == Append(t, Scanned(lines[n]))
<1>1. Len(lines) \in Nat /\ lines[n] \in Lines /\ Scanned(lines[n]) \in Lines
    BY ScannedType
<1>2. /\ s \in Seq(Lines) /\ Len(s) = n - m + 1
      /\ \A i \in 1..(n - m + 1) : s[i] = Scanned(lines[m + i - 1])
  <2>1. m \in 1..(Len(lines) + 1) /\ n \in (m - 1)..Len(lines)
    BY <1>1
  <2>2. QED
    BY <1>1, <2>1, ScannedPartType
<1>3. /\ t \in Seq(Lines) /\ Len(t) = n - m
      /\ \A i \in 1..(n - m) : t[i] = Scanned(lines[m + i - 1])
  <2>1. m \in 1..(Len(lines) + 1) /\ n - 1 \in (m - 1)..Len(lines) /\ (n - 1) - m + 1 = n - m
    BY <1>1
  <2>2. /\ t \in Seq(Lines) /\ Len(t) = (n - 1) - m + 1
        /\ \A i \in 1..((n - 1) - m + 1) : t[i] = Scanned(lines[m + i - 1])
    BY <2>1, ScannedPartType
  <2>3. QED
    BY <2>1, <2>2
<1> HIDE DEF s, t
<1>4. /\ u \in Seq(Lines) /\ Len(u) = n - m + 1
      /\ \A i \in 1..(n - m) : u[i] = t[i]
      /\ u[n - m + 1] = Scanned(lines[n])
  <2>1. t \in Seq(Lines) /\ Scanned(lines[n]) \in Lines
    BY <1>1, <1>3
  <2>2. /\ u \in Seq(Lines) /\ Len(u) = Len(t) + 1
        /\ \A i \in 1..Len(t) : u[i] = t[i]
        /\ u[Len(t) + 1] = Scanned(lines[n])
    BY <2>1, AppendLine
  <2> HIDE DEF u
  <2>3. QED
    BY <1>1, <1>3, <2>2
<1> HIDE DEF u
<1>5. ASSUME NEW i \in 1..(n - m + 1)
      PROVE  s[i] = u[i]
  <2>1. CASE i <= n - m
    <3>1. i \in 1..(n - m)
      BY <1>1, <2>1
    <3>2. QED
      BY <1>2, <1>3, <1>4, <3>1
  <2>2. CASE i = n - m + 1
    <3>1. m + i - 1 = n
      BY <1>1, <2>2
    <3>2. QED
      BY <1>2, <1>4, <2>2, <3>1
  <2>3. i <= n - m \/ i = n - m + 1
    BY <1>1
  <2>4. QED
    BY <2>1, <2>2, <2>3
<1>6. s = u
    BY <1>2, <1>4, <1>5, SeqEqual
<1>7. QED
    BY <1>6 DEF s, t, u

-----------------------------------------------------------------------------
(***************************************************************************)
(* The loop in closed form.                                                *)
(***************************************************************************)

Start == [in |-> FALSE, written |-> FALSE, out |-> <<>>]

\* The recursive function of Scanning, by its equation.
IsAfter(g, lines, block) ==
    g = [n \in 0..Len(lines) |-> IF n = 0 THEN Start ELSE Scan(g[n - 1], lines[n], block)]

LEMMA OneSolution ==
    ASSUME NEW lines \in Seq(Lines), NEW block, NEW g, NEW h,
           IsAfter(g, lines, block), IsAfter(h, lines, block),
           NEW m \in 0..Len(lines)
    PROVE  g[m] = h[m]
<1> SUFFICES ASSUME g[m] # h[m] PROVE FALSE
    OBVIOUS
<1> DEFINE Differ == {n \in 0..Len(lines) : g[n] # h[n]}
<1>1. Len(lines) \in Nat
    OBVIOUS
<1>2. PICK n \in Differ : \A k \in Differ : n <= k
  <2>1. Differ \in SUBSET Nat /\ m \in Differ
    BY <1>1
  <2> HIDE DEF Differ
  <2>2. QED
    BY <2>1, LeastNumber
<1>3. n \in 0..Len(lines) /\ g[n] # h[n]
    BY <1>2
<1>4. g[n] = IF n = 0 THEN Start ELSE Scan(g[n - 1], lines[n], block)
    BY <1>1, <1>3 DEF IsAfter
<1>5. h[n] = IF n = 0 THEN Start ELSE Scan(h[n - 1], lines[n], block)
    BY <1>1, <1>3 DEF IsAfter
<1>6. n # 0
    BY <1>3, <1>4, <1>5
<1>7. n - 1 \in 0..Len(lines) /\ n - 1 < n
    BY <1>1, <1>3, <1>6
<1>8. g[n - 1] = h[n - 1]
    BY <1>1, <1>2, <1>3, <1>7
<1>9. QED
    BY <1>3, <1>4, <1>5, <1>6, <1>8

LEMMA ScanningIs ==
    ASSUME NEW f \in Contents, NEW block, NEW g, IsAfter(g, f.lines, block)
    PROVE  Scanning(f, block) = g[Len(f.lines)]
<1> DEFINE h == CHOOSE h : IsAfter(h, f.lines, block)
<1>1. IsAfter(h, f.lines, block)
    OBVIOUS
<1>2. Scanning(f, block) = h[Len(f.lines)]
    BY DEF Scanning, IsAfter, Start
<1>3. f.lines \in Seq(Lines) /\ Len(f.lines) \in 0..Len(f.lines)
    BY DEF Contents
<1> HIDE DEF h
<1>4. h[Len(f.lines)] = g[Len(f.lines)]
    BY <1>1, <1>3, OneSolution
<1>5. QED
    BY <1>2, <1>4

State(inBlock, written, out) == [in |-> inBlock, written |-> written, out |-> out]

\* What one turn of the loop does: outside the block, at its begin, within it and
\* at its end.
LEMMA ScanOutside ==
    ASSUME NEW line, NEW block, NEW written, NEW out, line \notin Markers
    PROVE  Scan(State(FALSE, written, out), line, block)
               = State(FALSE, written, Append(out, Scanned(line)))
<1> DEFINE scanned == Scanned(line)
<1>1. scanned # "begin"
    BY ScannedLine DEF Markers
<1> HIDE DEF scanned
<1>2. Scan(State(FALSE, written, out), line, block) = State(FALSE, written, Append(out, scanned))
    BY <1>1 DEF Scan, State, scanned
<1>3. QED
    BY <1>2 DEF scanned

LEMMA ScanBegin ==
    ASSUME NEW line, NEW block, NEW out, line = "begin"
    PROVE  Scan(State(FALSE, FALSE, out), line, block) = State(TRUE, TRUE, out \o block)
<1>1. Scanned(line) = "begin"
    BY ScannedLine
<1>2. QED
    BY <1>1 DEF Scan, State

LEMMA ScanInside ==
    ASSUME NEW line, NEW block, NEW out, line \notin Markers
    PROVE  Scan(State(TRUE, TRUE, out), line, block) = State(TRUE, TRUE, out)
<1>1. Scanned(line) # "begin" /\ Scanned(line) # "end"
    BY ScannedLine DEF Markers
<1>2. QED
    BY <1>1 DEF Scan, State

LEMMA ScanEnd ==
    ASSUME NEW line, NEW block, NEW out, line = "end"
    PROVE  Scan(State(TRUE, TRUE, out), line, block) = State(FALSE, TRUE, out)
<1>1. Scanned(line) = "end" /\ "end" # "begin"
    BY ScannedLine
<1>2. QED
    BY <1>1 DEF Scan, State

\* A file without markers is copied, line by line.
LEMMA ScanWithout ==
    ASSUME NEW f \in Contents, NEW block, NoMarker(f.lines)
    PROVE  Scanning(f, block) = State(FALSE, FALSE, AllScanned(f.lines))
<1> DEFINE lines == f.lines
           g == [n \in 0..Len(lines) |-> State(FALSE, FALSE, ScannedPart(lines, 1, n))]
<1>1. lines \in Seq(Lines) /\ Len(lines) \in Nat
    BY DEF Contents
<1>2. ASSUME NEW n \in 0..Len(lines)
      PROVE  g[n] = IF n = 0 THEN Start ELSE Scan(g[n - 1], lines[n], block)
  <2> HIDE DEF lines
  <2>1. g[n] = State(FALSE, FALSE, ScannedPart(lines, 1, n))
    OBVIOUS
  <2>2. CASE n = 0
    <3>1. ScannedPart(lines, 1, 0) = <<>>
      BY <1>1, ScannedPartType
    <3>2. QED
      BY <2>1, <2>2, <3>1 DEF Start, State
  <2>3. CASE n # 0
    <3>1. n \in 1..Len(lines) /\ n - 1 \in 0..Len(lines) /\ 1 \in 1..Len(lines)
      BY <1>1, <2>3
    <3>2. g[n - 1] = State(FALSE, FALSE, ScannedPart(lines, 1, n - 1))
      BY <3>1
    <3>3. ScannedPart(lines, 1, n) = Append(ScannedPart(lines, 1, n - 1), Scanned(lines[n]))
      BY <1>1, <3>1, ScannedPartGrows
    <3>4. lines[n] \notin Markers
      BY <1>1, <3>1 DEF NoMarker, lines
    <3> HIDE DEF g
    <3>5. Scan(State(FALSE, FALSE, ScannedPart(lines, 1, n - 1)), lines[n], block)
             = State(FALSE, FALSE, Append(ScannedPart(lines, 1, n - 1), Scanned(lines[n])))
      BY <3>4, ScanOutside, Zenon
    <3>6. QED
      BY <2>1, <2>3, <3>2, <3>3, <3>5
  <2>4. QED
    BY <2>2, <2>3
<1>3. IsAfter(g, lines, block)
  <2>1. g = [n \in 0..Len(lines) |-> g[n]]
    OBVIOUS
  <2> HIDE DEF g, lines
  <2>2. QED
    BY <1>2, <2>1, Zenon DEF IsAfter
<1>4. g[Len(lines)] = State(FALSE, FALSE, ScannedPart(lines, 1, Len(lines)))
    BY <1>1
<1>5. ScannedPart(lines, 1, Len(lines)) = AllScanned(lines)
  <2>1. SubSeq(lines, 1, Len(lines)) = lines
    BY <1>1, SubSeqFull
  <2>2. QED
    BY <2>1 DEF ScannedPart
<1>6. Scanning(f, block) = g[Len(lines)]
  <2> HIDE DEF g
  <2>1. QED
    BY <1>3, ScanningIs
<1>7. QED
    BY <1>4, <1>5, <1>6

\* Where the file has its block the new one is written, around it it is copied.
LEMMA ScanWith ==
    ASSUME NEW f \in Contents, NEW block \in Seq(Lines), NEW b, NEW e, BlockAt(f.lines, b, e)
    PROVE  Scanning(f, block) =
              State(FALSE, TRUE, (ScannedPart(f.lines, 1, b - 1) \o block)
                                    \o ScannedPart(f.lines, e + 1, Len(f.lines)))
<1> DEFINE lines == f.lines
           upto == ScannedPart(lines, 1, b - 1) \o block
           g == [n \in 0..Len(lines) |->
                    IF n < b THEN State(FALSE, FALSE, ScannedPart(lines, 1, n))
                    ELSE IF n < e THEN State(TRUE, TRUE, upto)
                    ELSE State(FALSE, TRUE, upto \o ScannedPart(lines, e + 1, n))]
<1>1. lines \in Seq(Lines) /\ Len(lines) \in Nat
    BY DEF Contents
<1>2. /\ b \in 1..Len(lines) /\ e \in 1..Len(lines) /\ b < e
      /\ lines[b] = "begin" /\ lines[e] = "end"
      /\ \A i \in 1..Len(lines) : i # b /\ i # e => lines[i] \notin Markers
    BY <1>1 DEF BlockAt
<1>3. upto \in Seq(Lines)
  <2> HIDE DEF lines
  <2>1. 1 \in 1..(Len(lines) + 1) /\ b - 1 \in (1 - 1)..Len(lines)
    BY <1>1, <1>2
  <2>2. ScannedPart(lines, 1, b - 1) \in Seq(Lines)
    BY <1>1, <2>1, ScannedPartType
  <2>3. QED
    BY <2>2
<1>4. ASSUME NEW n \in 0..Len(lines)
      PROVE  g[n] = IF n = 0 THEN Start ELSE Scan(g[n - 1], lines[n], block)
  <2> HIDE DEF lines, upto
  <2>1. g[n] = IF n < b THEN State(FALSE, FALSE, ScannedPart(lines, 1, n))
               ELSE IF n < e THEN State(TRUE, TRUE, upto)
               ELSE State(FALSE, TRUE, upto \o ScannedPart(lines, e + 1, n))
    OBVIOUS
  <2>2. n # 0 =>
          g[n - 1] = IF n - 1 < b THEN State(FALSE, FALSE, ScannedPart(lines, 1, n - 1))
                     ELSE IF n - 1 < e THEN State(TRUE, TRUE, upto)
                     ELSE State(FALSE, TRUE, upto \o ScannedPart(lines, e + 1, n - 1))
    BY <1>1
  <2> HIDE DEF g
  <2>3. CASE n = 0
    <3>1. ScannedPart(lines, 1, 0) = <<>>
      BY <1>1, ScannedPartType
    <3>2. g[n] = State(FALSE, FALSE, ScannedPart(lines, 1, n))
      <4>1. n < b
        BY <1>2, <2>3
      <4>2. QED
        BY <2>1, <4>1
    <3>3. QED
      BY <2>3, <3>1, <3>2 DEF Start, State
  <2>4. CASE n # 0 /\ n < b
    <3>1. n \in 1..Len(lines) /\ 1 \in 1..Len(lines) /\ n - 1 < b /\ n # b /\ n # e
      BY <1>1, <1>2, <2>4
    <3>2. ScannedPart(lines, 1, n) = Append(ScannedPart(lines, 1, n - 1), Scanned(lines[n]))
      BY <1>1, <3>1, ScannedPartGrows
    <3>3. lines[n] \notin Markers
      BY <1>2, <3>1
    <3>4. Scan(State(FALSE, FALSE, ScannedPart(lines, 1, n - 1)), lines[n], block)
             = State(FALSE, FALSE, Append(ScannedPart(lines, 1, n - 1), Scanned(lines[n])))
      BY <3>3, ScanOutside, Zenon
    <3>5. g[n - 1] = State(FALSE, FALSE, ScannedPart(lines, 1, n - 1))
      BY <2>2, <2>4, <3>1
    <3>6. g[n] = State(FALSE, FALSE, ScannedPart(lines, 1, n))
      BY <2>1, <2>4
    <3>7. QED
      BY <2>4, <3>2, <3>4, <3>5, <3>6
  <2>5. CASE n = b
    <3>1. n # 0 /\ ~(n < b) /\ n < e /\ n - 1 < b /\ n - 1 = b - 1
      BY <1>1, <1>2, <2>5
    <3>2. lines[n] = "begin"
      BY <1>2, <2>5
    <3>3. Scan(State(FALSE, FALSE, ScannedPart(lines, 1, b - 1)), lines[n], block)
             = State(TRUE, TRUE, upto)
      <4> DEFINE before == ScannedPart(lines, 1, b - 1)
      <4>1. upto = before \o block
        BY DEF upto
      <4> HIDE DEF before
      <4>2. Scan(State(FALSE, FALSE, before), lines[n], block) = State(TRUE, TRUE, before \o block)
        BY <3>2, ScanBegin, Zenon
      <4>3. QED
        BY <4>1, <4>2 DEF before
    <3>4. g[n - 1] = State(FALSE, FALSE, ScannedPart(lines, 1, b - 1))
      <4>1. g[n - 1] = State(FALSE, FALSE, ScannedPart(lines, 1, n - 1))
        BY <2>2, <3>1
      <4>2. QED
        BY <3>1, <4>1
    <3>5. g[n] = State(TRUE, TRUE, upto)
      BY <2>1, <3>1
    <3>6. QED
      BY <3>1, <3>3, <3>4, <3>5
  <2>6. CASE n > b /\ n < e
    <3>1. n # 0 /\ ~(n < b) /\ ~(n - 1 < b) /\ n - 1 < e /\ n # b /\ n # e
      BY <1>1, <1>2, <2>6
    <3>2. n \in 1..Len(lines)
      BY <1>1, <3>1
    <3>3. lines[n] \notin Markers
      BY <1>2, <3>1, <3>2
    <3>4. Scan(State(TRUE, TRUE, upto), lines[n], block) = State(TRUE, TRUE, upto)
      BY <3>3, ScanInside, Zenon
    <3>5. g[n - 1] = State(TRUE, TRUE, upto) /\ g[n] = State(TRUE, TRUE, upto)
      BY <2>1, <2>2, <2>6, <3>1
    <3>6. QED
      BY <3>1, <3>4, <3>5
  <2>7. CASE n = e
    <3>1. n # 0 /\ ~(n < b) /\ ~(n < e) /\ ~(n - 1 < b) /\ n - 1 < e
      BY <1>1, <1>2, <2>7
    <3>2. lines[n] = "end"
      BY <1>2, <2>7
    <3>3. Scan(State(TRUE, TRUE, upto), lines[n], block) = State(FALSE, TRUE, upto)
      BY <3>2, ScanEnd, Zenon
    <3>4. g[n - 1] = State(TRUE, TRUE, upto)
      BY <2>2, <3>1
    <3>5. ScannedPart(lines, e + 1, n) = <<>>
      <4>1. e + 1 \in 1..(Len(lines) + 1) /\ n \in ((e + 1) - 1)..Len(lines) /\ n < e + 1
        BY <1>1, <1>2, <2>7
      <4>2. QED
        BY <1>1, <4>1, ScannedPartType
    <3>6. upto \o <<>> = upto
      BY <1>3
    <3>7. g[n] = State(FALSE, TRUE, upto \o ScannedPart(lines, e + 1, n))
      BY <2>1, <3>1
    <3>8. g[n] = State(FALSE, TRUE, upto)
      BY <3>5, <3>6, <3>7
    <3>9. QED
      BY <3>1, <3>3, <3>4, <3>8
  <2>8. CASE n > e
    <3> DEFINE rest == ScannedPart(lines, e + 1, n - 1)
    <3>1. n # 0 /\ ~(n < b) /\ ~(n < e) /\ ~(n - 1 < b) /\ ~(n - 1 < e) /\ n # b /\ n # e
      BY <1>1, <1>2, <2>8
    <3>2. n \in 1..Len(lines) /\ e + 1 \in 1..Len(lines) /\ n \in (e + 1)..Len(lines)
      BY <1>1, <1>2, <2>8
    <3>3. lines[n] \notin Markers
      BY <1>2, <3>1, <3>2
    <3>4. ScannedPart(lines, e + 1, n) = Append(rest, Scanned(lines[n]))
      BY <1>1, <3>2, ScannedPartGrows
    <3>5. rest \in Seq(Lines) /\ Scanned(lines[n]) \in Lines
      <4>1. e + 1 \in 1..(Len(lines) + 1) /\ n - 1 \in ((e + 1) - 1)..Len(lines)
        BY <1>1, <3>2
      <4>2. lines[n] \in Lines
        BY <1>1, <3>2
      <4>3. QED
        BY <1>1, <4>1, <4>2, ScannedPartType, ScannedType
    <3>6. g[n - 1] = State(FALSE, TRUE, upto \o rest)
      BY <2>2, <3>1
    <3>7. g[n] = State(FALSE, TRUE, upto \o ScannedPart(lines, e + 1, n))
      BY <2>1, <3>1
    <3> HIDE DEF rest
    <3>8. upto \o Append(rest, Scanned(lines[n])) = Append(upto \o rest, Scanned(lines[n]))
      BY <1>3, <3>5, ConcatAppend
    <3>9. Scan(State(FALSE, TRUE, upto \o rest), lines[n], block)
             = State(FALSE, TRUE, Append(upto \o rest, Scanned(lines[n])))
      BY <3>3, ScanOutside, Zenon
    <3>10. QED
      BY <3>1, <3>4, <3>6, <3>7, <3>8, <3>9
  <2>9. n = 0 \/ (n # 0 /\ n < b) \/ n = b \/ (n > b /\ n < e) \/ n = e \/ n > e
    BY <1>1, <1>2
  <2>10. QED
    BY <2>3, <2>4, <2>5, <2>6, <2>7, <2>8, <2>9
<1>5. IsAfter(g, lines, block)
  <2>1. g = [n \in 0..Len(lines) |-> g[n]]
    OBVIOUS
  <2> HIDE DEF g, lines
  <2>2. QED
    BY <1>4, <2>1, Zenon DEF IsAfter
<1>6. g[Len(lines)] = State(FALSE, TRUE, upto \o ScannedPart(lines, e + 1, Len(lines)))
  <2> HIDE DEF lines, upto
  <2>1. Len(lines) \in 0..Len(lines) /\ ~(Len(lines) < b) /\ ~(Len(lines) < e)
    BY <1>1, <1>2
  <2>2. QED
    BY <2>1
<1>7. Scanning(f, block) = g[Len(lines)]
  <2> HIDE DEF g
  <2>1. QED
    BY <1>5, ScanningIs
<1>8. QED
    BY <1>6, <1>7

-----------------------------------------------------------------------------
(***************************************************************************)
(* Lines around a block.                                                   *)
(***************************************************************************)

\* The lines before and after the block.
LEMMA AroundBlock ==
    ASSUME NEW lines \in Seq(Lines), NEW b, NEW e, BlockAt(lines, b, e)
    PROVE  LET p == SubSeq(lines, 1, b - 1)
               q == SubSeq(lines, e + 1, Len(lines))
           IN  /\ p \in Seq(Lines) /\ NoMarker(p) /\ Len(p) = b - 1
               /\ q \in Seq(Lines) /\ NoMarker(q) /\ Len(q) = Len(lines) - e
<1> DEFINE p == SubSeq(lines, 1, b - 1)
           q == SubSeq(lines, e + 1, Len(lines))
<1>1. /\ Len(lines) \in Nat /\ b \in 1..Len(lines) /\ e \in 1..Len(lines) /\ b < e
      /\ \A i \in 1..Len(lines) : i # b /\ i # e => lines[i] \notin Markers
    BY DEF BlockAt
<1>2. p \in Seq(Lines) /\ Len(p) = b - 1 /\ \A i \in 1..(b - 1) : p[i] = lines[i]
    BY <1>1
<1>3. /\ q \in Seq(Lines) /\ Len(q) = Len(lines) - e
      /\ \A i \in 1..(Len(lines) - e) : q[i] = lines[e + i]
    BY <1>1
<1> HIDE DEF p, q
<1>4. NoMarker(p)
  <2>1. \A i \in 1..(b - 1) : i \in 1..Len(lines) /\ i # b /\ i # e
    BY <1>1
  <2>2. QED
    BY <1>1, <1>2, <2>1 DEF NoMarker
<1>5. NoMarker(q)
  <2>1. \A i \in 1..(Len(lines) - e) : e + i \in 1..Len(lines) /\ e + i # b /\ e + i # e
    BY <1>1
  <2>2. ASSUME NEW i \in DOMAIN q
        PROVE  q[i] \notin Markers
    <3>1. i \in 1..(Len(lines) - e)
      BY <1>3
    <3>2. q[i] = lines[e + i]
      BY <1>3, <3>1
    <3>3. QED
      BY <1>1, <2>1, <3>1, <3>2
  <2>3. QED
    BY <2>2 DEF NoMarker
<1>6. QED
    BY <1>2, <1>3, <1>4, <1>5 DEF p, q

LEMMA PlacesOfBlock ==
    ASSUME NEW lines \in Seq(Lines), NEW b, NEW e, BlockAt(lines, b, e)
    PROVE  Place(lines, "begin") = b /\ Place(lines, "end") = e
<1>1. /\ b \in 1..Len(lines) /\ e \in 1..Len(lines) /\ b # e
      /\ lines[b] = "begin" /\ lines[e] = "end"
      /\ \A i \in 1..Len(lines) : i # b /\ i # e => lines[i] # "begin" /\ lines[i] # "end"
    BY DEF BlockAt, Markers
<1>2. \A i \in 1..Len(lines) : i # b => lines[i] # "begin"
    BY <1>1
<1>3. \A i \in 1..Len(lines) : i # e => lines[i] # "end"
    BY <1>1
<1>4. QED
    BY <1>1, <1>2, <1>3, PlaceOnly

LEMMA OutsideBlock ==
    ASSUME NEW f \in Contents, NEW b, NEW e, BlockAt(f.lines, b, e)
    PROVE  Outside(f) = SubSeq(f.lines, 1, b - 1) \o SubSeq(f.lines, e + 1, Len(f.lines))
<1>1. f.lines \in Seq(Lines)
    BY DEF Contents
<1>2. Place(f.lines, "begin") = b /\ Place(f.lines, "end") = e
    BY <1>1, PlacesOfBlock
<1>3. b # 0
    BY DEF BlockAt
<1>4. QED
    BY <1>2, <1>3 DEF Outside

LEMMA OutsideNoBlock ==
    ASSUME NEW f \in Contents, NoMarker(f.lines)
    PROVE  Outside(f) = f.lines /\ Place(f.lines, "begin") = 0
<1>1. f.lines \in Seq(Lines)
    BY DEF Contents
<1>2. Place(f.lines, "begin") = 0
    BY <1>1, PlaceNone DEF NoMarker, Markers
<1>3. QED
    BY <1>2 DEF Outside

IsBlock(w) ==
    /\ w \in Seq(Lines) /\ Len(w) \in Nat /\ Len(w) >= 2
    /\ w[1] = "begin" /\ w[Len(w)] = "end"
    /\ \A i \in 2..(Len(w) - 1) : w[i] \notin Markers

LEMMA BlockShape ==
    ASSUME NEW hosts \in HostLists
    PROVE  IsBlock(buildBlock(hosts))
<1> DEFINE w == <<"begin">> \o hosts \o <<"end">>
<1>1. /\ hosts \in Seq(Range(hosts))
      /\ \A i \in 1..Len(hosts) : hosts[i] \notin Markers
    BY HostListsAssumption DEF Markers
<1>2. Range(hosts) \subseteq Lines
    BY DEF Lines
<1>3. hosts \in Seq(Lines)
    BY <1>1, <1>2, SeqMonotonic
<1>4. "begin" \in Lines /\ "end" \in Lines
    BY DEF Lines
<1>5. <<"begin">> \in Seq(Lines) /\ <<"end">> \in Seq(Lines)
    BY <1>4
<1>6. /\ w \in Seq(Lines) /\ Len(w) = Len(hosts) + 2 /\ Len(hosts) \in Nat
      /\ w[1] = "begin" /\ w[Len(hosts) + 2] = "end"
      /\ \A i \in 2..(Len(hosts) + 1) : w[i] = hosts[i - 1]
    BY <1>3, <1>4, <1>5
<1> HIDE DEF w
<1>7. \A i \in 2..(Len(w) - 1) : w[i] \notin Markers
  <2>1. \A i \in 2..(Len(w) - 1) : i \in 2..(Len(hosts) + 1) /\ i - 1 \in 1..Len(hosts)
    BY <1>6
  <2>2. QED
    BY <1>1, <1>6, <2>1
<1>8. QED
    BY <1>6, <1>7 DEF w, buildBlock, IsBlock

\* The lines are p, the block w and q.
Between(lines, p, w, q) ==
    /\ lines \in Seq(Lines)
    /\ BlockAt(lines, Len(p) + 1, Len(p) + Len(w))
    /\ SubSeq(lines, 1, (Len(p) + 1) - 1) = p
    /\ SubSeq(lines, Len(p) + 1, Len(p) + Len(w)) = w
    /\ SubSeq(lines, (Len(p) + Len(w)) + 1, Len(lines)) = q

\* A block between lines without markers is where those end.
LEMMA Surrounded ==
    ASSUME NEW p \in Seq(Lines), NoMarker(p), NEW q \in Seq(Lines), NoMarker(q),
           NEW w, IsBlock(w)
    PROVE  Between((p \o w) \o q, p, w, q)
<1> DEFINE lines == (p \o w) \o q
           b == Len(p) + 1
           e == Len(p) + Len(w)
<1>1. /\ w \in Seq(Lines) /\ Len(w) \in Nat /\ Len(w) >= 2
      /\ w[1] = "begin" /\ w[Len(w)] = "end"
      /\ \A i \in 2..(Len(w) - 1) : w[i] \notin Markers
    BY DEF IsBlock
<1>2. lines = (p \o w) \o q
    OBVIOUS
<1> HIDE DEF lines
<1>3. Len(p) \in Nat /\ Len(q) \in Nat
    OBVIOUS
<1>4. lines \in Seq(Lines) /\ Len(lines) = Len(p) + Len(w) + Len(q)
    BY <1>1, <1>2
<1>5. \A i \in 1..Len(p) : lines[i] = p[i]
    BY <1>1, <1>2
<1>6. \A i \in 1..Len(w) : lines[Len(p) + i] = w[i]
    BY <1>1, <1>2
<1>7. \A i \in 1..Len(q) : lines[Len(p) + Len(w) + i] = q[i]
    BY <1>1, <1>2
<1>8. BlockAt(lines, b, e)
  <2>1. b \in 1..Len(lines) /\ e \in 1..Len(lines) /\ b < e
    BY <1>1, <1>3, <1>4
  <2>2. lines[b] = "begin" /\ lines[e] = "end"
    <3>1. 1 \in 1..Len(w) /\ Len(w) \in 1..Len(w)
      BY <1>1
    <3>2. lines[Len(p) + 1] = w[1] /\ lines[Len(p) + Len(w)] = w[Len(w)]
      BY <1>6, <3>1
    <3>3. QED
      BY <1>1, <3>2
  <2>3. ASSUME NEW i \in 1..Len(lines), i # b, i # e
        PROVE  lines[i] \notin Markers
    <3>1. CASE i \in 1..Len(p)
      BY <1>5, <3>1 DEF NoMarker
    <3>2. CASE i \in (Len(p) + 1)..(Len(p) + Len(w))
      <4>1. i - Len(p) \in 2..(Len(w) - 1) /\ i - Len(p) \in 1..Len(w)
        <5> DEFINE lp == Len(p)
                   lw == Len(w)
        <5>1. lp \in Nat /\ lw \in Nat /\ i \in (lp + 1)..(lp + lw) /\ i # lp + 1 /\ i # lp + lw
          BY <1>1, <1>3, <2>3, <3>2
        <5> HIDE DEF lp, lw
        <5>2. i - lp \in 2..(lw - 1) /\ i - lp \in 1..lw
          BY <5>1
        <5>3. QED
          BY <5>2 DEF lp, lw
      <4>2. lines[Len(p) + (i - Len(p))] = w[i - Len(p)]
        BY <1>6, <4>1
      <4>3. Len(p) + (i - Len(p)) = i
        BY <1>3, <1>4
      <4>4. QED
        BY <1>1, <4>1, <4>2, <4>3
    <3>3. CASE i \in (Len(p) + Len(w) + 1)..(Len(p) + Len(w) + Len(q))
      <4> DEFINE k == i - (Len(p) + Len(w))
      <4>1. k \in 1..Len(q) /\ Len(p) + Len(w) + k = i
        BY <1>1, <1>3, <3>3
      <4>2. lines[i] = q[k]
        BY <1>7, <4>1
      <4>3. QED
        BY <4>1, <4>2 DEF NoMarker
    <3>4. QED
      BY <1>1, <1>3, <1>4, <3>1, <3>2, <3>3
  <2>4. QED
    BY <1>4, <2>1, <2>2, <2>3 DEF BlockAt
<1>9. SubSeq(lines, 1, b - 1) = p
  <2>1. b - 1 = Len(p) /\ Len(p) <= Len(lines)
    BY <1>1, <1>3, <1>4
  <2>2. /\ SubSeq(lines, 1, Len(p)) \in Seq(Lines) /\ Len(SubSeq(lines, 1, Len(p))) = Len(p)
        /\ \A i \in 1..Len(p) : SubSeq(lines, 1, Len(p))[i] = lines[i]
    BY <1>3, <1>4, <2>1
  <2>3. QED
    BY <1>5, <2>1, <2>2, SeqEqual
<1>10. SubSeq(lines, b, e) = w
  <2> DEFINE s == SubSeq(lines, b, e)
  <2>1. s \in Seq(Lines) /\ Len(s) = Len(w) /\ \A i \in 1..Len(w) : s[i] = lines[Len(p) + i]
    BY <1>1, <1>3, <1>4
  <2> HIDE DEF s
  <2>2. \A i \in 1..Len(s) : s[i] = w[i]
    BY <1>6, <2>1
  <2>3. s = w
    BY <1>1, <2>1, <2>2, SeqEqual
  <2>4. QED
    BY <2>3 DEF s
<1>11. SubSeq(lines, e + 1, Len(lines)) = q
  <2> DEFINE s == SubSeq(lines, e + 1, Len(lines))
  <2>1. /\ s \in Seq(Lines) /\ Len(s) = Len(q)
        /\ \A i \in 1..Len(q) : s[i] = lines[Len(p) + Len(w) + i]
    BY <1>1, <1>3, <1>4
  <2> HIDE DEF s
  <2>2. s = q
    BY <1>7, <2>1, SeqEqual
  <2>3. QED
    BY <2>2 DEF s
<1>12. QED
    BY <1>4, <1>8, <1>9, <1>10, <1>11 DEF lines, Between

-----------------------------------------------------------------------------
(***************************************************************************)
(* What the calls make of a file.                                          *)
(***************************************************************************)

LEMMA ScannedNoMarker ==
    ASSUME NEW lines \in Seq(Lines), NoMarker(lines)
    PROVE  NoMarker(AllScanned(lines))
<1>1. /\ AllScanned(lines) \in Seq(Lines) /\ Len(AllScanned(lines)) = Len(lines)
      /\ \A i \in 1..Len(lines) : AllScanned(lines)[i] = Scanned(lines[i])
    BY AllScannedType
<1>2. ASSUME NEW i \in DOMAIN AllScanned(lines)
      PROVE  AllScanned(lines)[i] \notin Markers
  <2>1. i \in 1..Len(lines)
    BY <1>1
  <2>2. lines[i] \notin Markers
    BY <2>1 DEF NoMarker
  <2>3. QED
    BY <1>1, <2>1, <2>2, ScannedLine
<1>3. QED
    BY <1>2 DEF NoMarker

LEMMA NoMarkerConcat ==
    ASSUME NEW p \in Seq(Lines), NoMarker(p), NEW q \in Seq(Lines), NoMarker(q)
    PROVE  p \o q \in Seq(Lines) /\ NoMarker(p \o q)
<1>1. /\ p \o q \in Seq(Lines) /\ Len(p \o q) = Len(p) + Len(q)
      /\ Len(p) \in Nat /\ Len(q) \in Nat
      /\ \A i \in 1..Len(p) + Len(q) :
            (p \o q)[i] = IF i <= Len(p) THEN p[i] ELSE q[i - Len(p)]
  OBVIOUS
<1>2. ASSUME NEW i \in 1..Len(p) + Len(q)
      PROVE  (p \o q)[i] \notin Markers
  <2>1. CASE i <= Len(p)
    <3>1. i \in DOMAIN p
      BY <1>1, <2>1
    <3>2. QED
      BY <1>1, <2>1, <3>1 DEF NoMarker
  <2>2. CASE ~(i <= Len(p))
    <3>1. i - Len(p) \in DOMAIN q
      BY <1>1, <2>2
    <3>2. QED
      BY <1>1, <2>2, <3>1 DEF NoMarker
  <2>3. QED
    BY <2>1, <2>2
<1>3. DOMAIN (p \o q) = 1..Len(p) + Len(q)
  BY <1>1
<1>4. QED
  BY <1>1, <1>2, <1>3 DEF NoMarker

LEMMA BlockIsSeen ==
    ASSUME NEW f \in Contents, NEW b, NEW e, BlockAt(f.lines, b, e)
    PROVE  hasBlock(f)
<1>1. f.lines \in Seq(Lines)
    BY DEF Contents
<1>2. b \in DOMAIN f.lines /\ f.lines[b] = "begin" /\ e \in DOMAIN f.lines /\ f.lines[e] = "end"
    BY <1>1 DEF BlockAt
<1>3. QED
    BY <1>2 DEF hasBlock

\* Where there is a block, it is replaced.
LEMMA InstallReplaces ==
    ASSUME NEW f \in Contents, NEW b, NEW e, BlockAt(f.lines, b, e), NEW block \in Seq(Lines)
    PROVE  replaceOrAppendBlock(f, block) =
              [lines |-> (AllScanned(SubSeq(f.lines, 1, b - 1)) \o block)
                            \o AllScanned(SubSeq(f.lines, e + 1, Len(f.lines))),
               nl |-> TRUE]
<1> DEFINE out == (ScannedPart(f.lines, 1, b - 1) \o block)
                     \o ScannedPart(f.lines, e + 1, Len(f.lines))
<1>1. hasBlock(f)
    BY BlockIsSeen
<1>2. Scanning(f, block) = State(FALSE, TRUE, out)
    BY ScanWith
<1> HIDE DEF out
<1>3. Scanning(f, block).written /\ Scanning(f, block).out = out
    BY <1>2 DEF State
<1>4. replaceOrAppendBlock(f, block) = [lines |-> out, nl |-> TRUE]
    BY <1>1, <1>3 DEF replaceOrAppendBlock
<1>5. QED
    BY <1>4 DEF out, ScannedPart

\* Where there is none, it is appended, whether the loop runs or not.
LEMMA InstallAppends ==
    ASSUME NEW f \in Contents, NoMarker(f.lines), NEW block \in Seq(Lines)
    PROVE  replaceOrAppendBlock(f, block) =
              [lines |-> (IF hasBlock(f) THEN AllScanned(f.lines) ELSE f.lines) \o block,
               nl |-> TRUE]
<1>1. Scanning(f, block) = State(FALSE, FALSE, AllScanned(f.lines))
    BY ScanWithout
<1>2. Scanning(f, block).written = FALSE /\ Scanning(f, block).out = AllScanned(f.lines)
    BY <1>1 DEF State
<1>3. QED
    BY <1>2 DEF replaceOrAppendBlock

\* The file after Install is p, the block and q, and p and q are the lines outside
\* the block before, but for carriage returns.
Installed(f, p, q) ==
    /\ p \in Seq(Lines) /\ NoMarker(p)
    /\ q \in Seq(Lines) /\ NoMarker(q)
    /\ AllScanned(p \o q) = AllScanned(Outside(f))
    /\ "xCR" \notin Range(f.lines) => AllScanned(p) = p /\ AllScanned(q) = q
    /\ \A hosts \in HostLists :
          replaceOrAppendBlock(f, buildBlock(hosts)) =
              [lines |-> (p \o buildBlock(hosts)) \o q, nl |-> TRUE]

LEMMA NothingToScan ==
    ASSUME NEW lines \in Seq(Lines), "xCR" \notin Range(lines)
    PROVE  AllScanned(lines) = lines
<1>1. /\ AllScanned(lines) \in Seq(Lines) /\ Len(AllScanned(lines)) = Len(lines)
      /\ \A i \in 1..Len(lines) : AllScanned(lines)[i] = Scanned(lines[i])
    BY AllScannedType
<1>2. ASSUME NEW i \in 1..Len(lines)
      PROVE  AllScanned(lines)[i] = lines[i]
  <2>1. lines[i] # "xCR"
    BY DEF Range
  <2>2. Scanned(lines[i]) = lines[i]
    BY <2>1 DEF Scanned
  <2>3. QED
    BY <1>1, <2>2
<1>3. QED
    BY <1>1, <1>2, SeqEqual

LEMMA InstallValue ==
    ASSUME NEW f \in Contents, OneBlock(f.lines)
    PROVE  \E p, q : Installed(f, p, q)
<1>1. f.lines \in Seq(Lines)
    BY DEF Contents
<1>2. \A hosts \in HostLists : buildBlock(hosts) \in Seq(Lines)
    BY BlockShape DEF IsBlock
<1>3. CASE NoMarker(f.lines)
  <2> DEFINE p == IF hasBlock(f) THEN AllScanned(f.lines) ELSE f.lines
             q == <<>>
  <2>1. p \in Seq(Lines) /\ NoMarker(p)
    BY <1>1, <1>3, AllScannedType, ScannedNoMarker
  <2>2. q \in Seq(Lines) /\ NoMarker(q)
    BY DEF NoMarker
  <2>3. AllScanned(p) = AllScanned(f.lines)
    BY <1>1, ScannedTwice
  <2>4. "xCR" \notin Range(f.lines) => AllScanned(p) = p /\ AllScanned(q) = q
    <3>1. "xCR" \notin Range(f.lines) => AllScanned(f.lines) = f.lines
      BY <1>1, NothingToScan
    <3>2. AllScanned(q) = q
      BY DEF AllScanned
    <3>3. QED
      BY <2>3, <3>1, <3>2
  <2>5. Outside(f) = f.lines
    BY <1>3, OutsideNoBlock
  <2>6. p \o q = p
    BY <2>1, ConcatEmptySeq
  <2>7. ASSUME NEW hosts \in HostLists
        PROVE  replaceOrAppendBlock(f, buildBlock(hosts)) =
                  [lines |-> (p \o buildBlock(hosts)) \o q, nl |-> TRUE]
    <3> DEFINE w == buildBlock(hosts)
    <3>1. w \in Seq(Lines)
      BY <1>2
    <3> HIDE DEF w
    <3>2. replaceOrAppendBlock(f, w) = [lines |-> p \o w, nl |-> TRUE]
      BY <1>3, <3>1, InstallAppends
    <3>3. (p \o w) \o q = p \o w
      <4> HIDE DEF p
      <4>1. p \o w \in Seq(Lines)
        BY <2>1, <3>1
      <4>2. QED
        BY <4>1, ConcatEmptySeq
    <3>4. QED
      BY <3>2, <3>3 DEF w
  <2> HIDE DEF p, q
  <2>8. Installed(f, p, q)
    BY <2>1, <2>2, <2>3, <2>4, <2>5, <2>6, <2>7 DEF Installed
  <2>9. QED
    BY <2>8
<1>4. CASE \E b, e \in DOMAIN f.lines : BlockAt(f.lines, b, e)
  <2>1. PICK b, e \in DOMAIN f.lines : BlockAt(f.lines, b, e)
    BY <1>4
  <2> DEFINE before == SubSeq(f.lines, 1, b - 1)
             after == SubSeq(f.lines, e + 1, Len(f.lines))
             p == AllScanned(before)
             q == AllScanned(after)
  <2>2. /\ before \in Seq(Lines) /\ NoMarker(before)
        /\ after \in Seq(Lines) /\ NoMarker(after)
    BY <1>1, <2>1, AroundBlock
  <2>3. Outside(f) = before \o after
    BY <2>1, OutsideBlock
  <2>4. \A hosts \in HostLists :
          replaceOrAppendBlock(f, buildBlock(hosts)) =
              [lines |-> (p \o buildBlock(hosts)) \o q, nl |-> TRUE]
    BY <1>2, <2>1, InstallReplaces
  <2> HIDE DEF before, after
  <2>5. p \in Seq(Lines) /\ NoMarker(p) /\ q \in Seq(Lines) /\ NoMarker(q)
    BY <2>2, AllScannedType, ScannedNoMarker
  <2>6. AllScanned(p) = p /\ AllScanned(q) = q
    BY <2>2, ScannedTwice
  <2>7. p \o q = AllScanned(before \o after)
    BY <2>2, ScannedConcat
  <2>8. AllScanned(p \o q) = AllScanned(Outside(f))
    <3>1. before \o after \in Seq(Lines)
      BY <2>2
    <3>2. AllScanned(AllScanned(before \o after)) = AllScanned(before \o after)
      BY <3>1, ScannedTwice
    <3>3. QED
      BY <2>3, <2>7, <3>2
  <2> HIDE DEF p, q
  <2>9. Installed(f, p, q)
    BY <2>4, <2>5, <2>6, <2>8 DEF Installed
  <2>10. QED
    BY <2>9
<1>5. QED
    BY <1>3, <1>4 DEF OneBlock

\* After Install there is one block, the one asked for, and outside it nothing has
\* changed.
LEMMA InstallResult ==
    ASSUME NEW f \in Contents, OneBlock(f.lines), NEW hosts \in HostLists
    PROVE  LET r == replaceOrAppendBlock(f, buildBlock(hosts))
           IN  /\ r \in Contents
               /\ OneBlock(r.lines) /\ Holds(r.lines, buildBlock(hosts))
               /\ Essence(r) = Essence(f)
<1> DEFINE w == buildBlock(hosts)
           r == replaceOrAppendBlock(f, w)
<1>1. PICK p, q : Installed(f, p, q)
    BY InstallValue
<1>2. p \in Seq(Lines) /\ NoMarker(p) /\ q \in Seq(Lines) /\ NoMarker(q)
    BY <1>1 DEF Installed
<1> DEFINE lines == (p \o w) \o q
           b == Len(p) + 1
           e == Len(p) + Len(w)
<1>3. r = [lines |-> lines, nl |-> TRUE]
    BY <1>1 DEF Installed
<1>4. /\ lines \in Seq(Lines)
      /\ BlockAt(lines, b, e)
      /\ SubSeq(lines, 1, b - 1) = p
      /\ SubSeq(lines, b, e) = w
      /\ SubSeq(lines, e + 1, Len(lines)) = q
  <2>1. Between(lines, p, w, q)
    BY <1>2, BlockShape, Surrounded
  <2> HIDE DEF lines, w
  <2>2. QED
    BY <2>1 DEF Between
<1> HIDE DEF lines, r, w
<1>5. r.lines = lines
    BY <1>3
<1>6. b \in DOMAIN lines /\ e \in DOMAIN lines
    BY <1>4 DEF BlockAt
<1>7. r \in Contents
  <2>1. lines # <<>>
    BY <1>4, <1>6
  <2>2. QED
    BY <1>3, <1>4, <2>1 DEF Contents, IsContent
<1>8. OneBlock(r.lines) /\ Holds(r.lines, w)
    BY <1>4, <1>5, <1>6 DEF OneBlock, Holds
<1>9. Outside(r) = p \o q
  <2> HIDE DEF b, e
  <2>1. Outside(r) = SubSeq(r.lines, 1, b - 1) \o SubSeq(r.lines, e + 1, Len(r.lines))
    BY <1>4, <1>5, <1>7, OutsideBlock
  <2>2. QED
    BY <1>4, <1>5, <2>1
<1>10. AllScanned(Outside(r)) = AllScanned(Outside(f))
    BY <1>1, <1>9 DEF Installed
<1>11. Essence(r) = Essence(f)
    BY <1>10 DEF Essence
<1>12. QED
    BY <1>7, <1>8, <1>11 DEF r, w

\* A second Install finds nothing to do.
LEMMA InstallTwice ==
    ASSUME NEW f \in Contents, OneBlock(f.lines), NEW hosts \in HostLists,
           "xCR" \notin Range(f.lines)
    PROVE  LET once == replaceOrAppendBlock(f, buildBlock(hosts))
           IN  replaceOrAppendBlock(once, buildBlock(hosts)) = once
<1> DEFINE w == buildBlock(hosts)
           once == replaceOrAppendBlock(f, w)
<1>1. PICK p, q : Installed(f, p, q)
    BY InstallValue
<1>2. p \in Seq(Lines) /\ NoMarker(p) /\ q \in Seq(Lines) /\ NoMarker(q)
    BY <1>1 DEF Installed
<1> DEFINE lines == (p \o w) \o q
           b == Len(p) + 1
           e == Len(p) + Len(w)
<1>3. once = [lines |-> lines, nl |-> TRUE]
    BY <1>1 DEF Installed
<1>4. /\ BlockAt(lines, b, e)
      /\ SubSeq(lines, 1, b - 1) = p
      /\ SubSeq(lines, e + 1, Len(lines)) = q
  <2>1. Between(lines, p, w, q)
    BY <1>2, BlockShape, Surrounded
  <2> HIDE DEF lines, w
  <2>2. QED
    BY <2>1 DEF Between
<1>5. once \in Contents
    BY InstallResult
<1>6. w \in Seq(Lines)
    BY BlockShape DEF IsBlock
<1>7. AllScanned(p) = p /\ AllScanned(q) = q
    BY <1>1 DEF Installed
<1> HIDE DEF lines, once, w, b, e
<1>8. once.lines = lines
    BY <1>3
<1>9. replaceOrAppendBlock(once, w) =
         [lines |-> (AllScanned(SubSeq(once.lines, 1, b - 1)) \o w)
                       \o AllScanned(SubSeq(once.lines, e + 1, Len(once.lines))),
          nl |-> TRUE]
    BY <1>4, <1>5, <1>6, <1>8, InstallReplaces
<1>10. replaceOrAppendBlock(once, w) = [lines |-> (p \o w) \o q, nl |-> TRUE]
    BY <1>4, <1>7, <1>8, <1>9
<1>11. QED
    BY <1>3, <1>10 DEF lines, once, w

\* What the loop leaves when the block is to be removed.
LEMMA RemovedLines ==
    ASSUME NEW f \in Contents, OneBlock(f.lines)
    PROVE  Scanning(f, <<>>).out = AllScanned(Outside(f)) /\ NoMarker(Outside(f))
           /\ Outside(f) \in Seq(Lines)
<1>1. f.lines \in Seq(Lines)
    BY DEF Contents
<1>2. CASE NoMarker(f.lines)
  <2>1. Scanning(f, <<>>) = State(FALSE, FALSE, AllScanned(f.lines))
    BY <1>2, ScanWithout
  <2>2. Scanning(f, <<>>).out = AllScanned(f.lines)
    BY <2>1 DEF State
  <2>3. Outside(f) = f.lines
    BY <1>2, OutsideNoBlock
  <2>4. QED
    BY <1>1, <1>2, <2>2, <2>3
<1>3. CASE \E b, e \in DOMAIN f.lines : BlockAt(f.lines, b, e)
  <2>1. PICK b, e \in DOMAIN f.lines : BlockAt(f.lines, b, e)
    BY <1>3
  <2> DEFINE p == SubSeq(f.lines, 1, b - 1)
             q == SubSeq(f.lines, e + 1, Len(f.lines))
             out == (AllScanned(p) \o <<>>) \o AllScanned(q)
  <2>2. p \in Seq(Lines) /\ NoMarker(p) /\ q \in Seq(Lines) /\ NoMarker(q)
    BY <1>1, <2>1, AroundBlock
  <2>3. Outside(f) = p \o q
    BY <2>1, OutsideBlock
  <2>4. Scanning(f, <<>>) = State(FALSE, TRUE, out)
    <3>1. <<>> \in Seq(Lines)
      OBVIOUS
    <3>2. QED
      BY <2>1, <3>1, ScanWith DEF ScannedPart
  <2> HIDE DEF out
  <2>5. Scanning(f, <<>>).out = out
    BY <2>4 DEF State
  <2> HIDE DEF p, q
  <2>6. out = AllScanned(p \o q)
    <3>1. AllScanned(p) \in Seq(Lines)
      BY <2>2, AllScannedType
    <3>2. AllScanned(p) \o <<>> = AllScanned(p)
      BY <3>1, ConcatEmptySeq
    <3>3. AllScanned(p \o q) = AllScanned(p) \o AllScanned(q)
      BY <2>2, ScannedConcat
    <3>4. QED
      BY <3>2, <3>3 DEF out
  <2>7. p \o q \in Seq(Lines) /\ NoMarker(p \o q)
    BY <2>2, NoMarkerConcat
  <2>8. QED
    BY <2>3, <2>5, <2>6, <2>7
<1>4. QED
    BY <1>2, <1>3 DEF OneBlock

\* After Uninstall there is no block, nothing has changed outside it, and a second
\* one finds nothing to do.
LEMMA UninstallResult ==
    ASSUME NEW f \in Contents, OneBlock(f.lines)
    PROVE  /\ removeBlock(f) \in Contents
           /\ NoMarker(removeBlock(f).lines)
           /\ Essence(removeBlock(f)) = Essence(f)
           /\ removeBlock(removeBlock(f)) = removeBlock(f)
<1>1. CASE ~hasBlock(f)
  <2>1. removeBlock(f) = f
    BY <1>1 DEF removeBlock
  <2>2. NoMarker(f.lines)
    BY <1>1, BlockIsSeen DEF OneBlock
  <2>3. QED
    BY <2>1, <2>2
<1>2. CASE hasBlock(f)
  <2> DEFINE kept == AllScanned(Outside(f))
             r == TrimRight(kept)
  <2>1. removeBlock(f) = r
    BY <1>2, RemovedLines DEF removeBlock
  <2>2. Outside(f) \in Seq(Lines) /\ NoMarker(Outside(f))
    BY RemovedLines
  <2>3. kept \in Seq(Lines) /\ NoMarker(kept) /\ AllScanned(kept) = kept
    BY <2>2, AllScannedType, ScannedNoMarker, ScannedTwice
  <2>4. Essence(f) = r.lines
    BY DEF Essence
  <2> HIDE DEF kept
  <2>5. /\ r \in Contents
        /\ TrimRight(r.lines) = r
        /\ \A i \in DOMAIN r.lines : i \in DOMAIN kept /\ r.lines[i] = kept[i]
    BY <2>3, TrimRightTwice
  <2> HIDE DEF r
  <2>6. NoMarker(r.lines)
    BY <2>3, <2>5 DEF NoMarker
  <2>7. AllScanned(r.lines) = r.lines
    <3>1. r.lines \in Seq(Lines)
      BY <2>5 DEF Contents
    <3>2. /\ AllScanned(r.lines) \in Seq(Lines) /\ Len(AllScanned(r.lines)) = Len(r.lines)
          /\ \A i \in 1..Len(r.lines) : AllScanned(r.lines)[i] = Scanned(r.lines[i])
      BY <3>1, AllScannedType
    <3>3. ASSUME NEW i \in 1..Len(r.lines)
          PROVE  AllScanned(r.lines)[i] = r.lines[i]
      <4>1. i \in DOMAIN r.lines
        BY <3>1
      <4>2. i \in DOMAIN kept /\ r.lines[i] = kept[i]
        BY <2>5, <4>1
      <4>3. kept[i] = Scanned(kept[i])
        <5>1. i \in 1..Len(kept)
          BY <2>3, <4>2
        <5>2. AllScanned(kept)[i] = Scanned(kept[i])
          BY <2>3, <5>1, AllScannedType
        <5>3. QED
          BY <2>3, <5>2
      <4>4. QED
        BY <3>2, <4>2, <4>3
    <3>4. QED
      BY <3>1, <3>2, <3>3, SeqEqual
  <2>8. Outside(r) = r.lines
    BY <2>5, <2>6, OutsideNoBlock
  <2>9. Essence(r) = Essence(f)
    <3>1. Essence(r) = TrimRight(r.lines).lines
      BY <2>7, <2>8 DEF Essence
    <3>2. QED
      BY <2>4, <2>5, <3>1
  <2>10. removeBlock(r) = r
    <3>1. OneBlock(r.lines)
      BY <2>6 DEF OneBlock
    <3>2. Scanning(r, <<>>).out = r.lines
      BY <2>5, <2>7, <2>8, <3>1, RemovedLines
    <3>3. QED
      BY <2>5, <3>2 DEF removeBlock
  <2>11. QED
    BY <2>1, <2>5, <2>6, <2>9, <2>10
<1>3. QED
    BY <1>1, <1>2

-----------------------------------------------------------------------------
(***************************************************************************)
(* Files that others have added lines to, and those there are at first.    *)
(***************************************************************************)

LEMMA ExtendsItself ==
    ASSUME NEW lines \in Seq(Lines)
    PROVE  Extends(lines, lines)
    BY DEF Extends

LEMMA AppendExtends ==
    ASSUME NEW lines \in Seq(Lines), NEW read \in Seq(Lines), Extends(lines, read),
           NEW line \in Foreign
    PROVE  /\ Append(lines, line) \in Seq(Lines) /\ Append(lines, line) # <<>>
           /\ Extends(Append(lines, line), read)
<1>1. line \in Lines /\ line \notin Markers
    BY ForeignAssumption DEF Lines, Markers
<1> DEFINE new == Append(lines, line)
<1>2. /\ new \in Seq(Lines) /\ Len(new) = Len(lines) + 1 /\ Len(lines) \in Nat
      /\ \A i \in 1..Len(lines) : new[i] = lines[i]
      /\ new[Len(lines) + 1] = line
    BY <1>1
<1> HIDE DEF new
<1>3. Len(read) \in Nat /\ Len(read) <= Len(lines)
    BY DEF Extends
<1>4. ASSUME NEW i \in DOMAIN read
      PROVE  new[i] = read[i]
  <2>1. i \in 1..Len(lines)
    BY <1>2, <1>3
  <2>2. QED
    BY <1>2, <2>1 DEF Extends
<1>5. ASSUME NEW i \in DOMAIN new, i > Len(read)
      PROVE  new[i] \notin Markers
  <2>1. CASE i \in 1..Len(lines)
    BY <1>2, <1>5, <2>1 DEF Extends
  <2>2. CASE i = Len(lines) + 1
    BY <1>1, <1>2, <2>2
  <2>3. QED
    BY <1>2, <2>1, <2>2
<1>6. Extends(new, read)
    BY <1>2, <1>3, <1>4, <1>5 DEF Extends
<1>7. new # <<>>
    BY <1>2
<1>8. QED
    BY <1>2, <1>6, <1>7 DEF new

\* What others add changes nothing about the block.
LEMMA BlockStays ==
    ASSUME NEW lines \in Seq(Lines), NEW read \in Seq(Lines), Extends(lines, read)
    PROVE  /\ NoMarker(read) => NoMarker(lines)
           /\ OneBlock(read) => OneBlock(lines)
           /\ \A w : Holds(read, w) => Holds(lines, w)
<1>1. /\ Len(read) \in Nat /\ Len(lines) \in Nat /\ Len(read) <= Len(lines)
      /\ \A i \in 1..Len(read) : lines[i] = read[i]
      /\ \A i \in 1..Len(lines) : i > Len(read) => lines[i] \notin Markers
    BY DEF Extends
<1>2. NoMarker(read) => NoMarker(lines)
  <2>1. ASSUME NoMarker(read), NEW i \in DOMAIN lines
        PROVE  lines[i] \notin Markers
    <3>1. CASE i > Len(read)
      BY <1>1, <3>1
    <3>2. CASE i \in 1..Len(read)
      BY <1>1, <2>1, <3>2 DEF NoMarker
    <3>3. QED
      BY <1>1, <3>1, <3>2
  <2>2. QED
    BY <2>1 DEF NoMarker
<1>3. ASSUME NEW b, NEW e, BlockAt(read, b, e)
      PROVE  /\ BlockAt(lines, b, e) /\ b \in DOMAIN lines /\ e \in DOMAIN lines
             /\ SubSeq(lines, b, e) = SubSeq(read, b, e)
  <2>1. /\ b \in 1..Len(read) /\ e \in 1..Len(read) /\ b < e
        /\ read[b] = "begin" /\ read[e] = "end"
        /\ \A i \in 1..Len(read) : i # b /\ i # e => read[i] \notin Markers
    BY <1>3 DEF BlockAt
  <2>2. b \in 1..Len(lines) /\ e \in 1..Len(lines)
    BY <1>1, <2>1
  <2>3. ASSUME NEW i \in 1..Len(lines), i # b, i # e
        PROVE  lines[i] \notin Markers
    <3>1. CASE i > Len(read)
      BY <1>1, <3>1
    <3>2. CASE i \in 1..Len(read)
      BY <1>1, <2>1, <2>3, <3>2
    <3>3. QED
      BY <1>1, <3>1, <3>2
  <2>4. BlockAt(lines, b, e)
    BY <1>1, <2>1, <2>2, <2>3 DEF BlockAt
  <2>5. SubSeq(lines, b, e) = SubSeq(read, b, e)
    <3> DEFINE s == SubSeq(lines, b, e)
               t == SubSeq(read, b, e)
    <3>1. /\ s \in Seq(Lines) /\ Len(s) = e - b + 1
          /\ \A i \in 1..(e - b + 1) : s[i] = lines[b + i - 1]
      BY <1>1, <2>1, <2>2
    <3>2. /\ t \in Seq(Lines) /\ Len(t) = e - b + 1
          /\ \A i \in 1..(e - b + 1) : t[i] = read[b + i - 1]
      BY <1>1, <2>1
    <3>3. \A i \in 1..(e - b + 1) : b + i - 1 \in 1..Len(read)
      BY <1>1, <2>1
    <3> HIDE DEF s, t
    <3>4. s = t
      BY <1>1, <3>1, <3>2, <3>3, SeqEqual
    <3>5. QED
      BY <3>4 DEF s, t
  <2>6. QED
    BY <2>2, <2>4, <2>5
<1>4. OneBlock(read) => OneBlock(lines)
    BY <1>2, <1>3 DEF OneBlock
<1>5. ASSUME NEW w, Holds(read, w)
      PROVE  Holds(lines, w)
  <2>1. PICK b, e \in DOMAIN read : BlockAt(read, b, e) /\ SubSeq(read, b, e) = w
    BY <1>5 DEF Holds
  <2>2. QED
    BY <1>3, <2>1 DEF Holds
<1>6. QED
    BY <1>2, <1>4, <1>5

LEMMA FirstFile ==
    ASSUME NEW f \in FirstFiles
    PROVE  f \in Contents /\ OneBlock(f.lines)
<1>1. f.nl \in BOOLEAN /\ IsContent(f) /\ f = [lines |-> f.lines, nl |-> f.nl]
    BY DEF FirstFiles
<1>2. f.lines \in FirstLines
    BY DEF FirstFiles
<1>3. PICK ls \in FirstForeign, w \in FirstBlocks : f.lines \in With(ls, w)
    BY <1>2 DEF FirstLines
<1>4. PICK i \in 0..Len(ls) : f.lines = (SubSeq(ls, 1, i) \o w) \o SubSeq(ls, i + 1, Len(ls))
    BY <1>3 DEF With
<1>5. ls \in Seq(Lines) /\ NoMarker(ls)
  <2>1. PICK n \in 0..MaxForeign : ls \in [1..n -> Foreign]
    BY <1>3 DEF FirstForeign
  <2>2. n \in Nat
    BY <2>1, BoundsAssumption
  <2>3. Foreign \subseteq Lines /\ \A line \in Foreign : line \notin Markers
    BY ForeignAssumption DEF Lines, Markers
  <2>4. QED
    BY <2>1, <2>2, <2>3 DEF NoMarker
<1> DEFINE p == SubSeq(ls, 1, i)
           q == SubSeq(ls, i + 1, Len(ls))
<1>6. p \in Seq(Lines) /\ NoMarker(p)
  <2>1. p \in Seq(Lines) /\ Len(p) = i /\ i \in Nat /\ \A k \in 1..i : p[k] = ls[k] /\ k \in 1..Len(ls)
    BY <1>4, <1>5
  <2> HIDE DEF p
  <2>2. QED
    BY <1>5, <2>1 DEF NoMarker
<1>7. q \in Seq(Lines) /\ NoMarker(q)
  <2>1. /\ q \in Seq(Lines) /\ Len(q) = Len(ls) - i /\ Len(q) \in Nat
        /\ \A k \in 1..(Len(ls) - i) : q[k] = ls[i + k] /\ i + k \in 1..Len(ls)
    BY <1>4, <1>5
  <2> HIDE DEF q
  <2>2. ASSUME NEW k \in 1..(Len(ls) - i)
        PROVE  q[k] \notin Markers
    <3>1. q[k] = ls[i + k] /\ i + k \in DOMAIN ls
      BY <1>5, <2>1
    <3>2. QED
      BY <1>5, <3>1 DEF NoMarker
  <2>3. DOMAIN q = 1..(Len(ls) - i)
    BY <2>1
  <2>4. QED
    BY <2>1, <2>2, <2>3 DEF NoMarker
<1> HIDE DEF p, q
<1>8. f.lines = (p \o w) \o q
    BY <1>4 DEF p, q
<1>9. CASE w = <<>>
  <2>1. f.lines = p \o q
    BY <1>6, <1>8, <1>9
  <2>2. f.lines \in Seq(Lines) /\ NoMarker(f.lines)
    BY <1>6, <1>7, <2>1, NoMarkerConcat
  <2>3. QED
    BY <1>1, <2>2 DEF Contents, OneBlock
<1>10. CASE w # <<>>
  <2>1. IsBlock(w)
    <3>1. "begin" \in Lines /\ "oldhost" \in Lines /\ "end" \in Lines
      BY DEF Lines
    <3>2. CASE w = <<"begin", "end">>
      BY <3>1, <3>2 DEF IsBlock
    <3>3. CASE w = <<"begin", "oldhost", "end">>
      BY <3>1, <3>3 DEF IsBlock, Markers
    <3>4. QED
      BY <1>3, <1>10, <3>2, <3>3 DEF FirstBlocks
  <2>2. Between(f.lines, p, w, q)
    BY <1>6, <1>7, <1>8, <2>1, Surrounded
  <2>3. f.lines \in Seq(Lines) /\ BlockAt(f.lines, Len(p) + 1, Len(p) + Len(w))
    BY <2>2 DEF Between
  <2>4. OneBlock(f.lines)
    BY <2>3 DEF OneBlock, BlockAt
  <2>5. QED
    BY <1>1, <2>3, <2>4 DEF Contents
<1>11. QED
    BY <1>9, <1>10
-----------------------------------------------------------------------------
(***************************************************************************)
(* The calls.                                                              *)
(***************************************************************************)

LEMMA InitIInv == Init => IInv
<1> SUFFICES ASSUME Init PROVE IInv
    OBVIOUS
<1>1. file \in Contents /\ OneBlock(file.lines)
    BY FirstFile DEF Init
<1>2. TypeOK
    BY <1>1, BoundsAssumption DEF Init, TypeOK
<1>3. ReadIsOld /\ OutsideKept
    BY DEF Init, ReadIsOld, OutsideKept
<1>4. BlockIsThere
    BY DEF Init, BlockIsThere, Unknown, Nothing
<1>5. QED
    BY <1>1, <1>2, <1>3, <1>4 DEF IInv

\* Which call is under way.
LEMMA CallUnderWay ==
    ASSUME TypeOK
    PROVE  /\ call.phase \in {"backup", "install"} =>
                 call \in [phase : {"backup", "install"}, hosts : HostLists, read : Contents]
           /\ call.phase = "uninstall" =>
                 call \in [phase : {"uninstall"}, hosts : {<<>>}, read : Contents]
           /\ call # NoCall => call.read \in Contents
           /\ call.phase # "idle" => call # NoCall
    BY DEF TypeOK, NoCall

LEMMA StartStep ==
    ASSUME IInv, (\E hosts \in HostLists : StartInstall(hosts)) \/ StartUninstall
    PROVE  IInv'
<1>1. file' = file /\ theirs' = theirs /\ wants' = wants /\ edits' = edits
    BY DEF StartInstall, StartUninstall
<1>2. /\ calls' \in 0..MaxCalls
      /\ backup' \in {"none", "torn", "kept"}
      /\ call'.read = file
      /\ \/ call' \in [phase : {"backup", "install"}, hosts : HostLists, read : Contents]
         \/ call' \in [phase : {"uninstall"}, hosts : {<<>>}, read : Contents]
    BY BoundsAssumption DEF IInv, TypeOK, StartInstall, StartUninstall, Called
<1>3. TypeOK'
    BY <1>1, <1>2 DEF IInv, TypeOK
<1>4. Extends(file.lines, file.lines)
    BY ExtendsItself DEF IInv, TypeOK, Contents
<1>5. ReadIsOld'
    BY <1>1, <1>2, <1>4 DEF IInv, ReadIsOld
<1>6. QED
    BY <1>1, <1>3, <1>5 DEF IInv, BlockIsThere, OutsideKept

LEMMA BackupStep ==
    ASSUME IInv, FinishBackup
    PROVE  IInv'
<1>1. call \in [phase : {"backup", "install"}, hosts : HostLists, read : Contents]
    BY CallUnderWay DEF IInv, FinishBackup
<1>2. /\ call' \in [phase : {"backup", "install"}, hosts : HostLists, read : Contents]
      /\ call'.read = call.read
    BY <1>1 DEF FinishBackup
<1>3. TypeOK'
    BY <1>2 DEF IInv, TypeOK, FinishBackup
<1>4. call # NoCall
    BY CallUnderWay DEF IInv, FinishBackup
<1>5. ReadIsOld'
    BY <1>2, <1>4 DEF IInv, ReadIsOld, FinishBackup
<1>6. QED
    BY <1>3, <1>5 DEF IInv, BlockIsThere, OutsideKept, FinishBackup

\* What the end of a call keeps, when what it writes has the lines outside the
\* block that it read.
LEMMA FinishStep ==
    ASSUME IInv, call # NoCall, NEW out \in Contents, OneBlock(out.lines),
           Essence(out) = Essence(call.read), Finish(out)
    PROVE  /\ TypeOK' /\ OneBlock(file'.lines) /\ ReadIsOld' /\ OutsideKept'
           /\ NoMarker(out.lines) => NoMarker(file'.lines)
           /\ \A w : Holds(out.lines, w) => Holds(file'.lines, w)
<1>1. call.read \in Contents /\ file \in Contents /\ theirs \in Contents
    BY CallUnderWay DEF IInv, TypeOK
<1>2. file' \in Contents /\ theirs' \in Contents
    BY <1>1 DEF Finish
<1>3. TypeOK'
    BY <1>2 DEF IInv, TypeOK, Finish
<1>4. ReadIsOld'
    BY DEF Finish, ReadIsOld
<1>5. OutsideKept'
  <2>1. CASE out = call.read
    BY <2>1 DEF Finish, IInv, OutsideKept
  <2>2. CASE out # call.read /\ file = call.read
    BY <2>2 DEF Finish, IInv, OutsideKept
  <2>3. CASE out # call.read /\ file # call.read
    BY <2>3 DEF Finish, OutsideKept
  <2>4. QED
    BY <2>1, <2>2, <2>3
<1>6. /\ OneBlock(file'.lines)
      /\ NoMarker(out.lines) => NoMarker(file'.lines)
      /\ \A w : Holds(out.lines, w) => Holds(file'.lines, w)
  <2>1. CASE out = call.read
    <3>1. Extends(file.lines, out.lines)
      BY <2>1 DEF IInv, ReadIsOld
    <3>2. file.lines \in Seq(Lines) /\ out.lines \in Seq(Lines)
      BY <1>1 DEF Contents
    <3>3. file' = file
      BY <2>1 DEF Finish
    <3>4. /\ NoMarker(out.lines) => NoMarker(file.lines)
          /\ OneBlock(out.lines) => OneBlock(file.lines)
          /\ \A w : Holds(out.lines, w) => Holds(file.lines, w)
      BY <3>1, <3>2, BlockStays
    <3>5. QED
      BY <3>3, <3>4
  <2>2. CASE out # call.read
    BY <2>2 DEF Finish
  <2>3. QED
    BY <2>1, <2>2
<1>7. QED
    BY <1>3, <1>4, <1>5, <1>6

LEMMA InstallStep ==
    ASSUME IInv, FinishInstall
    PROVE  IInv'
<1>1. call \in [phase : {"backup", "install"}, hosts : HostLists, read : Contents] /\ call # NoCall
    BY CallUnderWay DEF IInv, FinishInstall
<1>2. call.read \in Contents /\ call.hosts \in HostLists /\ OneBlock(call.read.lines)
    BY <1>1 DEF IInv, ReadIsOld
<1> DEFINE block == buildBlock(call.hosts)
           out == replaceOrAppendBlock(call.read, block)
<1>3. /\ out \in Contents
      /\ OneBlock(out.lines) /\ Holds(out.lines, block)
      /\ Essence(out) = Essence(call.read)
    BY <1>2, InstallResult
<1>4. block # Nothing
    BY <1>2, BlockShape DEF IsBlock, Nothing
<1>5. Finish(out) /\ wants' = block
    BY DEF FinishInstall
<1> HIDE DEF out, block
<1>6. /\ TypeOK' /\ OneBlock(file'.lines) /\ ReadIsOld' /\ OutsideKept'
      /\ \A w : Holds(out.lines, w) => Holds(file'.lines, w)
    BY <1>1, <1>3, <1>5, FinishStep
<1>7. Holds(file'.lines, block)
    BY <1>3, <1>6
<1>8. Holds(file'.lines, wants')
    BY <1>5, <1>7
<1>9. BlockIsThere'
    BY <1>4, <1>5, <1>8 DEF BlockIsThere, Nothing
<1>10. QED
    BY <1>6, <1>9 DEF IInv

LEMMA UninstallStep ==
    ASSUME IInv, FinishUninstall
    PROVE  IInv'
<1>1. call.read \in Contents /\ call # NoCall
    BY CallUnderWay DEF IInv, FinishUninstall
<1>2. OneBlock(call.read.lines)
    BY <1>1 DEF IInv, ReadIsOld
<1> DEFINE out == removeBlock(call.read)
<1>3. /\ out \in Contents
      /\ NoMarker(out.lines)
      /\ Essence(out) = Essence(call.read)
    BY <1>1, <1>2, UninstallResult
<1>4. Finish(out) /\ wants' = Nothing
    BY DEF FinishUninstall
<1> HIDE DEF out
<1>5. OneBlock(out.lines)
    BY <1>3 DEF OneBlock
<1>6. /\ TypeOK' /\ OneBlock(file'.lines) /\ ReadIsOld' /\ OutsideKept'
      /\ NoMarker(file'.lines)
    BY <1>1, <1>3, <1>4, <1>5, FinishStep
<1>7. BlockIsThere'
    BY <1>4, <1>6 DEF BlockIsThere
<1>8. QED
    BY <1>6, <1>7 DEF IInv

LEMMA CrashStep ==
    ASSUME IInv, Crash
    PROVE  IInv'
<1>1. TypeOK'
    BY DEF IInv, TypeOK, Crash
<1>2. ReadIsOld'
    BY DEF ReadIsOld, Crash
<1>3. QED
    BY <1>1, <1>2 DEF IInv, BlockIsThere, OutsideKept, Crash

LEMMA EditStep ==
    ASSUME IInv, NEW line \in Foreign, Edit(line)
    PROVE  IInv'
<1>1. /\ file \in Contents /\ file.lines \in Seq(Lines)
      /\ Extends(file.lines, file.lines)
    BY ExtendsItself DEF IInv, TypeOK, Contents
<1> DEFINE new == Append(file.lines, line)
<1>2. new \in Seq(Lines) /\ new # <<>> /\ Extends(new, file.lines)
    BY <1>1, AppendExtends
<1>3. file' = [lines |-> new, nl |-> TRUE] /\ theirs' = file' /\ edits' \in 0..MaxEdits
      /\ UNCHANGED <<backup, call, wants, calls>>
    BY BoundsAssumption DEF IInv, TypeOK, Edit
<1>4. call # NoCall => call.read.lines \in Seq(Lines) /\ Extends(new, call.read.lines)
  <2>1. ASSUME call # NoCall
        PROVE  call.read.lines \in Seq(Lines) /\ Extends(file.lines, call.read.lines)
    BY <2>1, CallUnderWay DEF IInv, ReadIsOld, Contents
  <2>2. QED
    BY <1>1, <2>1, AppendExtends
<1> HIDE DEF new
<1>5. file'.lines = new
    BY <1>3
<1>6. file' \in Contents
    BY <1>2, <1>3 DEF Contents, IsContent
<1>7. TypeOK'
    BY <1>3, <1>6 DEF IInv, TypeOK
<1>8. /\ NoMarker(file.lines) => NoMarker(new)
      /\ OneBlock(file.lines) => OneBlock(new)
      /\ \A w : Holds(file.lines, w) => Holds(new, w)
    BY <1>1, <1>2, BlockStays
<1>9. ReadIsOld'
    BY <1>3, <1>4, <1>5 DEF IInv, ReadIsOld
<1>10. BlockIsThere'
    BY <1>3, <1>5, <1>8 DEF IInv, BlockIsThere
<1>11. OutsideKept'
    BY <1>3 DEF OutsideKept
<1>12. QED
    BY <1>5, <1>7, <1>8, <1>9, <1>10, <1>11 DEF IInv

LEMMA StepIInv == IInv /\ [Next]_vars => IInv'
<1> SUFFICES ASSUME IInv, [Next]_vars PROVE IInv'
    OBVIOUS
<1>1. CASE UNCHANGED vars
    BY <1>1 DEF IInv, TypeOK, ReadIsOld, BlockIsThere, OutsideKept, vars
<1>2. CASE (\E hosts \in HostLists : StartInstall(hosts)) \/ StartUninstall
    BY <1>2, StartStep
<1>3. CASE FinishBackup
    BY <1>3, BackupStep
<1>4. CASE FinishInstall
    BY <1>4, InstallStep
<1>5. CASE FinishUninstall
    BY <1>5, UninstallStep
<1>6. CASE Crash
    BY <1>6, CrashStep
<1>7. CASE \E line \in Foreign : Edit(line)
    BY <1>7, EditStep
<1>8. QED
    BY <1>1, <1>2, <1>3, <1>4, <1>5, <1>6, <1>7 DEF Next

LEMMA Invariance == Spec => []IInv
<1>1. Init => IInv
    BY InitIInv
<1>2. IInv /\ [Next]_vars => IInv'
    BY StepIInv
<1>3. QED
    BY <1>1, <1>2, PTL DEF Spec

\* hostsfile.go:3: no sequence of calls, crashes and edits, whatever is in the file
\* and wherever its block, loses, adds or reorders a line outside the block.
THEOREM KeepsWhatIsOutside == Spec => []OutsideKept
<1>1. IInv => OutsideKept
    BY DEF IInv
<1>2. QED
    BY <1>1, Invariance, PTL

LEMMA WantedFromInv == IInv => BlockIsWanted
<1> SUFFICES ASSUME IInv PROVE BlockIsWanted
    OBVIOUS
<1>1. file \in Contents /\ file.lines \in Seq(Lines)
    BY DEF IInv, TypeOK, Contents
<1>2. ASSUME wants = Nothing
      PROVE  Place(file.lines, "begin") = 0
    BY <1>1, <1>2, OutsideNoBlock DEF IInv, BlockIsThere
<1>3. ASSUME wants \notin {Nothing, Unknown}
      PROVE  SubSeq(file.lines, Place(file.lines, "begin"), Place(file.lines, "end")) = wants
  <2>1. PICK b, e \in DOMAIN file.lines :
            BlockAt(file.lines, b, e) /\ SubSeq(file.lines, b, e) = wants
    BY <1>3 DEF IInv, BlockIsThere, Holds
  <2>2. Place(file.lines, "begin") = b /\ Place(file.lines, "end") = e
    BY <1>1, <2>1, PlacesOfBlock
  <2>3. QED
    BY <2>1, <2>2
<1>4. NoMarker(Outside(file))
    BY <1>1, RemovedLines DEF IInv
<1>5. QED
    BY <1>2, <1>3, <1>4 DEF BlockIsWanted, NoMarker, Markers

\* hostsfile.go:21: after Install the file has one block, with the hosts asked for
\* and no older ones, also when calls were cut short by crashes or others have edited
\* the file; after Uninstall it has none.
THEOREM HoldsTheBlock == Spec => []BlockIsWanted
    BY Invariance, WantedFromInv, PTL

LEMMA IdempotentFromInv == IInv => Idempotent
<1> SUFFICES ASSUME IInv, "xCR" \notin Range(file.lines)
             PROVE  /\ \A hosts \in HostLists :
                          LET once == replaceOrAppendBlock(file, buildBlock(hosts))
                          IN  replaceOrAppendBlock(once, buildBlock(hosts)) = once
                    /\ removeBlock(removeBlock(file)) = removeBlock(file)
    BY DEF Idempotent
<1>1. file \in Contents /\ OneBlock(file.lines)
    BY DEF IInv, TypeOK
<1>2. QED
    BY <1>1, InstallTwice, UninstallResult

\* hostsfile.go:3: on every file that calls, crashes and edits lead to, unless it
\* has carriage returns, a second Install or Uninstall changes nothing.
THEOREM CallsAreIdempotent == Spec => []Idempotent
    BY Invariance, IdempotentFromInv, PTL
=============================================================================
