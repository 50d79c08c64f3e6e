----------------------------- MODULE LoggerProofs -----------------------------
(***************************************************************************)
(* Proofs about Logger for any number of writers, readers, tunnels and     *)
(* entries, and every capacity of the rings.                               *)
(*                                                                         *)
(* A name has one ring, made once (OneRing), and whoever has found a ring  *)
(* found that of its name (FoundOwn): what TunnelRing has to ask again     *)
(* under the write lock for.                                               *)
(***************************************************************************)
EXTENDS Logger, SequenceTheorems, FiniteSetTheorems, WellFoundedInduction, TLAPS

\* No two names have one ring, and the empty name has the global one.
OneRing ==
    /\ tunnelRings[NoTunnel] = GlobalRing
    /\ \A m, n \in Names : tunnelRings[m] # 0 /\ tunnelRings[m] = tunnelRings[n] => m = n

\* A goroutine that is about to use a ring has that of its name.
FoundOwn ==
    \A k \in Callers : At(k, "found") =>
        call[k].ring = tunnelRings[call[k].name] /\ call[k].ring # 0

IInv ==
    /\ TypeOK
    /\ OneRing
    /\ FoundOwn
    /\ NothingLost

-----------------------------------------------------------------------------
(***************************************************************************)
(* The latest entries of a sequence.                                       *)
(***************************************************************************)

\* How many entries the latest n of a sequence are.
Kept(s, n) == IF Len(s) > n THEN n ELSE Len(s)

\* The latest n of a sequence are its last n, or all if there are fewer.
LEMMA LatestProperties ==
    ASSUME NEW S, NEW s \in Seq(S), NEW n \in Nat
    PROVE  /\ Latest(s, n) \in Seq(S)
           /\ Len(Latest(s, n)) = Kept(s, n)
           /\ \A i \in 1..Kept(s, n) : Latest(s, n)[i] = s[Len(s) - Kept(s, n) + i]
<1> DEFINE m == IF Len(s) > n THEN Len(s) - n + 1 ELSE 1
<1>1. Len(s) \in Nat /\ m \in Int /\ m >= 1
    BY LenProperties
<1>2. \A i \in m..Len(s) : s[i] \in S
    BY <1>1, ElementOfSeq
<1>3. Latest(s, n) = SubSeq(s, m, Len(s))
    BY DEF Latest
<1>4. /\ SubSeq(s, m, Len(s)) \in Seq(S)
      /\ Len(SubSeq(s, m, Len(s))) = IF m <= Len(s) THEN Len(s) - m + 1 ELSE 0
      /\ \A i \in 1..(Len(s) - m + 1) : SubSeq(s, m, Len(s))[i] = s[m + i - 1]
  <2> HIDE DEF m
  <2>1. QED
    BY <1>1, <1>2, SubSeqProperties
<1>5. CASE Len(s) > n
    BY <1>1, <1>3, <1>4, <1>5 DEF Kept
<1>6. CASE ~(Len(s) > n)
    BY <1>1, <1>3, <1>4, <1>6 DEF Kept
<1>7. QED
    BY <1>5, <1>6

\* Keeping the latest entries at every append keeps the latest of them all.
LEMMA LatestOfAppend ==
    ASSUME NEW S, NEW s \in Seq(S), NEW e \in S, NEW n \in Nat \ {0}
    PROVE  Latest(Append(Latest(s, n), e), n) = Latest(Append(s, e), n)
<1> DEFINE k == Kept(s, n)
           last == Latest(s, n)
           a == Append(last, e)
           b == Append(s, e)
           l == Kept(b, n)
<1>1. last \in Seq(S) /\ Len(last) = k /\ \A i \in 1..k : last[i] = s[Len(s) - k + i]
    BY LatestProperties
<1> HIDE DEF last
<1>2. a \in Seq(S) /\ Len(a) = k + 1 /\ (\A i \in 1..k : a[i] = last[i]) /\ a[k + 1] = e
    BY <1>1, AppendProperties
<1>3. /\ b \in Seq(S) /\ Len(b) = Len(s) + 1
      /\ (\A i \in 1..Len(s) : b[i] = s[i]) /\ b[Len(s) + 1] = e
    BY AppendProperties
<1> HIDE DEF a, b
<1>4. Len(s) \in Nat /\ k \in 0..n /\ l \in 1..n /\ l <= k + 1 /\ k <= Len(s)
    BY <1>3, LenProperties DEF Kept
<1>5. Kept(a, n) = l
    BY <1>2, <1>3, LenProperties DEF Kept
<1> HIDE DEF k, l
<1>6. /\ Latest(a, n) \in Seq(S) /\ Len(Latest(a, n)) = l
      /\ \A i \in 1..l : Latest(a, n)[i] = a[k + 1 - l + i]
  <2>1. /\ Latest(a, n) \in Seq(S) /\ Len(Latest(a, n)) = l
        /\ \A i \in 1..l : Latest(a, n)[i] = a[Len(a) - l + i]
    <3>1. /\ Latest(a, n) \in Seq(S) /\ Len(Latest(a, n)) = Kept(a, n)
          /\ \A i \in 1..Kept(a, n) : Latest(a, n)[i] = a[Len(a) - Kept(a, n) + i]
      BY <1>2, LatestProperties, Zenon
    <3>2. QED
      BY <1>5, <3>1, Zenon
  <2>2. Len(a) = k + 1
    BY <1>2
  <2>3. ASSUME NEW i \in 1..l PROVE Latest(a, n)[i] = a[k + 1 - l + i]
    <3>1. Latest(a, n)[i] = a[Len(a) - l + i]
      BY <2>1
    <3>2. Len(a) - l + i = k + 1 - l + i
      BY <1>4, <2>2
    <3>3. QED
      BY <3>1, <3>2, Zenon
  <2>4. QED
    BY <2>1, <2>3
<1>7. /\ Latest(b, n) \in Seq(S) /\ Len(Latest(b, n)) = l
      /\ \A i \in 1..l : Latest(b, n)[i] = b[Len(s) + 1 - l + i]
  <2>1. /\ Latest(b, n) \in Seq(S) /\ Len(Latest(b, n)) = l
        /\ \A i \in 1..l : Latest(b, n)[i] = b[Len(b) - l + i]
    BY <1>3, LatestProperties DEF l
  <2>2. QED
    BY <1>3, <2>1
<1>8. \A i \in 1..l : a[k + 1 - l + i] = b[Len(s) + 1 - l + i]
  <2> TAKE i \in 1..l
  <2>1. CASE i = l
    BY <1>2, <1>3, <1>4, <2>1
  <2>2. CASE i < l
    <3> DEFINE j == k + 1 - l + i
    <3>1. j \in 1..k /\ Len(s) - k + j = Len(s) + 1 - l + i /\ Len(s) + 1 - l + i \in 1..Len(s)
      BY <1>4, <2>2
    <3> HIDE DEF j
    <3>2. a[j] = s[Len(s) - k + j]
      BY <1>1, <1>2, <3>1
    <3>3. b[Len(s) + 1 - l + i] = s[Len(s) + 1 - l + i]
      BY <1>3, <3>1
    <3>4. QED
      BY <3>1, <3>2, <3>3 DEF j
  <2>3. QED
    BY <1>4, <2>1, <2>2
<1>9. Latest(a, n) = Latest(b, n)
    BY <1>6, <1>7, <1>8, SeqEqual
<1>10. QED
    BY <1>9 DEF a, b, last

-----------------------------------------------------------------------------
(***************************************************************************)
(* The inductive invariant.                                                *)
(***************************************************************************)

\* A new logger, with its global ring alone, satisfies the invariant.
THEOREM InitIInv == Init => IInv
<1> SUFFICES ASSUME Init PROVE IInv
    OBVIOUS
<1>1. rings \in Seq(Seq(Entries)) /\ Len(rings) = 1 /\ rings[1] = <<>>
    BY DEF Init
<1>2. TypeOK
  <2>1. /\ tunnelRings \in [Names -> 0..Len(rings)]
        /\ call \in [Callers -> [at : {"idle", "global", "lookup", "missing", "found"},
                                 name : Names, ring : 0..Len(rings)]]
    BY <1>1 DEF Init, Idle, GlobalRing, Names
  <2>2. /\ entry \in [Writers -> Entries]
        /\ query \in [Readers -> [passes : Filters \cup {{}}, tail : Tails \cup {0}]]
        /\ writes \in [Writers -> 0..MaxWrites]
    <3>1. entry \in [Writers -> Entries]
      BY DEF Init, NoEntry, Entries
    <3>2. query \in [Readers -> [passes : Filters \cup {{}}, tail : Tails \cup {0}]]
      BY DEF Init, NoQuery
    <3>3. writes \in [Writers -> 0..MaxWrites]
      BY MaxWritesAssumption DEF Init
    <3>4. QED
      BY <3>1, <3>2, <3>3
  <2>3. logged \in [Names -> Seq(Entries)]
    <3>1. <<>> \in Seq(Entries)
      BY EmptySeq
    <3>2. QED
      BY <3>1 DEF Init
  <2>4. QED
    BY <1>1, <2>1, <2>2, <2>3 DEF TypeOK
<1>3. OneRing /\ FoundOwn
  <2>1. \A n \in Names : tunnelRings[n] = IF n = NoTunnel THEN 1 ELSE 0
    BY DEF Init, GlobalRing
  <2>2. NoTunnel \in Names
    BY DEF Names
  <2>3. OneRing
    BY <2>1, <2>2 DEF OneRing, GlobalRing
  <2>4. FoundOwn
    BY DEF Init, FoundOwn, At, Idle
  <2>5. QED
    BY <2>3, <2>4
<1>4. NothingLost
  <2> SUFFICES ASSUME NEW n \in Names
               PROVE  Latest(logged[n], Capacity(n)) =
                          IF tunnelRings[n] = 0 THEN <<>> ELSE rings[tunnelRings[n]]
    BY DEF NothingLost
  <2>1. logged[n] = <<>> /\ tunnelRings[n] \in {0, 1} /\ GlobalRing = 1
    BY DEF Init, GlobalRing
  <2>2. Capacity(n) \in Nat \ {0}
    BY CapAssumption DEF Capacity
  <2>3. Latest(<<>>, Capacity(n)) = <<>>
    <3>1. <<>> \in Seq(Entries) /\ Len(<<>>) = 0
      BY EmptySeq
    <3>2. Kept(<<>>, Capacity(n)) = 0
      BY <2>2, <3>1 DEF Kept
    <3>3. Latest(<<>>, Capacity(n)) \in Seq(Entries) /\ Len(Latest(<<>>, Capacity(n))) = 0
      BY <2>2, <3>1, <3>2, LatestProperties
    <3>4. QED
      BY <3>3, EmptySeq
  <2>4. QED
    BY <1>1, <2>1, <2>3
<1>5. QED
    BY <1>2, <1>3, <1>4 DEF IInv

\* A ring made for a name that has none is empty, and only that name's.
LEMMA NewRingKeeps ==
    ASSUME IInv, NEW name \in Names, tunnelRings[name] = 0, NewRing(name), UNCHANGED logged
    PROVE  /\ rings' \in Seq(Seq(Entries)) /\ Len(rings') = Len(rings) + 1
           /\ tunnelRings' \in [Names -> 0..Len(rings')]
           /\ tunnelRings'[name] = Len(rings) + 1
           /\ \A n \in Names \ {name} : tunnelRings'[n] = tunnelRings[n]
           /\ OneRing' /\ NothingLost'
<1>1. /\ rings \in Seq(Seq(Entries)) /\ Len(rings) \in Nat
      /\ tunnelRings \in [Names -> 0..Len(rings)]
    BY LenProperties DEF IInv, TypeOK
<1>2. /\ rings' = Append(rings, <<>>)
      /\ tunnelRings' = [tunnelRings EXCEPT ![name] = Len(rings) + 1]
    BY DEF NewRing
<1>3. <<>> \in Seq(Entries)
    BY EmptySeq
<1>4. /\ rings' \in Seq(Seq(Entries)) /\ Len(rings') = Len(rings) + 1
      /\ \A i \in 1..Len(rings) : rings'[i] = rings[i]
      /\ rings'[Len(rings) + 1] = <<>>
    BY <1>1, <1>2, <1>3, AppendProperties
<1>5. /\ tunnelRings' \in [Names -> 0..Len(rings')]
      /\ tunnelRings'[name] = Len(rings) + 1
      /\ \A n \in Names \ {name} : tunnelRings'[n] = tunnelRings[n]
    BY <1>1, <1>2, <1>4
<1>6. OneRing'
  <2>1. name # NoTunnel
    BY DEF IInv, OneRing, GlobalRing
  <2>2. tunnelRings'[NoTunnel] = GlobalRing
    BY <1>5, <2>1 DEF IInv, OneRing, Names
  <2>3. \A m, n \in Names : tunnelRings'[m] # 0 /\ tunnelRings'[m] = tunnelRings'[n] => m = n
    BY <1>1, <1>5 DEF IInv, OneRing
  <2>4. QED
    BY <2>2, <2>3 DEF OneRing
<1>7. NothingLost'
  <2> SUFFICES ASSUME NEW n \in Names
               PROVE  Latest(logged[n], Capacity(n)) =
                          IF tunnelRings'[n] = 0 THEN <<>> ELSE rings'[tunnelRings'[n]]
    BY DEF NothingLost, Capacity
  <2>1. Latest(logged[n], Capacity(n)) =
            IF tunnelRings[n] = 0 THEN <<>> ELSE rings[tunnelRings[n]]
    BY DEF IInv, NothingLost
  <2>2. CASE n = name
    BY <1>1, <1>4, <1>5, <2>1, <2>2
  <2>3. CASE n # name
    <3>1. tunnelRings'[n] = tunnelRings[n] /\ tunnelRings[n] \in 0..Len(rings)
      BY <1>1, <1>5, <2>3
    <3>2. tunnelRings[n] # 0 => rings'[tunnelRings[n]] = rings[tunnelRings[n]]
      BY <1>1, <1>4, <3>1
    <3>3. QED
      BY <2>1, <3>1, <3>2, Zenon
  <2>4. QED
    BY <2>2, <2>3
<1>8. QED
    BY <1>4, <1>5, <1>6, <1>7

\* An append to the ring of a name keeps its latest entries, and leaves the other
\* rings alone.
LEMMA AppendKeeps ==
    ASSUME IInv, NEW name \in Names, NEW ring, ring = tunnelRings[name], ring # 0,
           NEW e \in Entries, Append1(ring, name, e), UNCHANGED tunnelRings
    PROVE  /\ rings' \in Seq(Seq(Entries)) /\ Len(rings') = Len(rings)
           /\ logged' \in [Names -> Seq(Entries)]
           /\ NothingLost'
<1>1. /\ rings \in Seq(Seq(Entries)) /\ Len(rings) \in Nat
      /\ tunnelRings \in [Names -> 0..Len(rings)]
      /\ logged \in [Names -> Seq(Entries)]
      /\ ring \in 1..Len(rings)
    BY LenProperties DEF IInv, TypeOK
<1> DEFINE cap == Capacity(name)
           old == logged[name]
           new == Latest(Append(rings[ring], e), cap)
<1>2. /\ rings' = [rings EXCEPT ![ring] = new]
      /\ logged' = [logged EXCEPT ![name] = Append(old, e)]
    BY DEF Append1
<1>3. cap \in Nat \ {0}
    BY CapAssumption DEF Capacity
<1>4. old \in Seq(Entries) /\ rings[ring] = Latest(old, cap)
    BY <1>1 DEF IInv, NothingLost
<1> HIDE DEF cap, old
<1>5. new = Latest(Append(old, e), cap)
    BY <1>3, <1>4, LatestOfAppend
<1>6. Append(old, e) \in Seq(Entries) /\ new \in Seq(Entries)
    BY <1>3, <1>4, <1>5, AppendProperties, LatestProperties
<1> HIDE DEF new
<1>7. /\ rings' \in Seq(Seq(Entries)) /\ Len(rings') = Len(rings)
      /\ \A i \in 1..Len(rings) : rings'[i] = IF i = ring THEN new ELSE rings[i]
    BY <1>1, <1>2, <1>6, ExceptSeq
<1>8. logged' \in [Names -> Seq(Entries)]
    BY <1>1, <1>2, <1>6
<1>9. NothingLost'
  <2> SUFFICES ASSUME NEW n \in Names
               PROVE  Latest(logged'[n], Capacity(n)) =
                          IF tunnelRings[n] = 0 THEN <<>> ELSE rings'[tunnelRings[n]]
    BY DEF NothingLost, Capacity
  <2>1. CASE n = name
    BY <1>1, <1>2, <1>5, <1>7, <2>1 DEF cap
  <2>2. CASE n # name
    <3>1. logged'[n] = logged[n]
      BY <1>1, <1>2, <2>2
    <3>2. tunnelRings[n] # ring
      BY <2>2 DEF IInv, OneRing
    <3>3. QED
      BY <1>1, <1>7, <3>1, <3>2 DEF IInv, NothingLost
  <2>3. QED
    BY <2>1, <2>2
<1>10. QED
    BY <1>7, <1>8, <1>9

\* What the lookups and the requests leave alone.
LEMMA RingsKept ==
    ASSUME IInv, UNCHANGED <<tunnelRings, rings, logged>>
    PROVE  OneRing' /\ NothingLost'
BY DEF IInv, OneRing, NothingLost, Capacity

\* The parts of the type invariant.
LEMMA TypeParts ==
    ASSUME TypeOK
    PROVE  /\ rings \in Seq(Seq(Entries)) /\ Len(rings) \in Nat
           /\ tunnelRings \in [Names -> 0..Len(rings)]
           /\ call \in [Callers -> [at : {"idle", "global", "lookup", "missing", "found"},
                                    name : Names, ring : 0..Len(rings)]]
           /\ entry \in [Writers -> Entries]
           /\ query \in [Readers -> [passes : Filters \cup {{}}, tail : Tails \cup {0}]]
           /\ writes \in [Writers -> 0..MaxWrites]
           /\ logged \in [Names -> Seq(Entries)]
BY LenProperties DEF TypeOK

\* A goroutine that has a ring is still of its type.
LEMMA HasTypes ==
    ASSUME TypeOK, NEW k \in Callers, NEW last \in Nat, Len(rings) <= last,
           NEW ring \in 0..last, Has(k, ring)
    PROVE  call' \in [Callers -> [at : {"idle", "global", "lookup", "missing", "found"},
                                  name : Names, ring : 0..last]]
<1> DEFINE Calls == [at : {"idle", "global", "lookup", "missing", "found"},
                     name : Names, ring : 0..last]
<1>1. 0..Len(rings) \subseteq 0..last
    BY TypeParts
<1>2. call \in [Callers -> Calls]
    BY <1>1, TypeParts
<1>3. call' = [call EXCEPT ![k] = [[@ EXCEPT !.at = "found"] EXCEPT !.ring = ring]]
    BY <1>2 DEF Has
<1>4. [[call[k] EXCEPT !.at = "found"] EXCEPT !.ring = ring] \in Calls
    BY <1>2
<1> HIDE DEF Calls
<1>5. call' \in [Callers -> Calls]
    BY <1>2, <1>3, <1>4
<1>6. QED
    BY <1>5 DEF Calls

\* Under the read lock a goroutine finds the ring of its name, or none.
LEMMA LookupKeeps ==
    ASSUME IInv, NEW k \in Callers, Lookup(k)
    PROVE  IInv'
<1>1. TypeOK /\ OneRing /\ FoundOwn
    BY DEF IInv
<1>2. UNCHANGED <<tunnelRings, rings, entry, query, writes, logged>>
    BY DEF Lookup
<1>3. /\ call[k].name \in Names /\ tunnelRings[call[k].name] \in 0..Len(rings)
      /\ Len(rings) \in Nat
    BY <1>1, TypeParts
<1>4. CASE tunnelRings[call[k].name] # 0
  <2>1. call' = [call EXCEPT ![k].at = "found", ![k].ring = tunnelRings[call[k].name]]
    BY <1>4 DEF Lookup, Has
  <2>2. call' \in [Callers -> [at : {"idle", "global", "lookup", "missing", "found"},
                               name : Names, ring : 0..Len(rings)]]
    BY <1>1, <1>3, <1>4, HasTypes DEF Lookup
  <2>3. TypeOK'
    BY <1>1, <1>2, <2>2 DEF TypeOK
  <2>4. FoundOwn'
    BY <1>1, <1>2, <1>4, <2>1, TypeParts DEF FoundOwn, At
  <2>5. QED
    BY <1>2, <2>3, <2>4, RingsKept DEF IInv
<1>5. CASE tunnelRings[call[k].name] = 0
  <2>1. call' = [call EXCEPT ![k].at = "missing"]
    BY <1>5 DEF Lookup, Goto
  <2>2. call' \in [Callers -> [at : {"idle", "global", "lookup", "missing", "found"},
                               name : Names, ring : 0..Len(rings)]]
    BY <1>1, <2>1, TypeParts
  <2>3. TypeOK'
    BY <1>1, <1>2, <2>2 DEF TypeOK
  <2>4. FoundOwn'
    BY <1>1, <1>2, <2>1, TypeParts DEF FoundOwn, At
  <2>5. QED
    BY <1>2, <2>3, <2>4, RingsKept DEF IInv
<1>6. QED
    BY <1>4, <1>5

\* Under the write lock it finds the ring another has made meanwhile, or makes it.
LEMMA GetOrCreateKeeps ==
    ASSUME IInv, NEW k \in Callers, GetOrCreate(k)
    PROVE  IInv'
<1> DEFINE name == call[k].name
<1>1. TypeOK /\ OneRing /\ FoundOwn
    BY DEF IInv
<1>2. UNCHANGED <<entry, query, writes, logged>> /\ Create(k)
    BY DEF GetOrCreate
<1>3. name \in Names /\ tunnelRings[name] \in 0..Len(rings) /\ Len(rings) \in Nat
    BY <1>1, TypeParts
<1>4. CASE tunnelRings[name] # 0
  <2>1. /\ call' = [call EXCEPT ![k].at = "found", ![k].ring = tunnelRings[name]]
        /\ UNCHANGED <<tunnelRings, rings>>
    BY <1>2, <1>4 DEF Create, Has
  <2>2. call' \in [Callers -> [at : {"idle", "global", "lookup", "missing", "found"},
                               name : Names, ring : 0..Len(rings)]]
    BY <1>1, <1>2, <1>3, <1>4, HasTypes DEF Create
  <2>3. TypeOK'
    BY <1>1, <1>2, <2>1, <2>2 DEF TypeOK
  <2>4. FoundOwn'
    BY <1>1, <1>4, <2>1, TypeParts DEF FoundOwn, At
  <2>5. QED
    BY <1>2, <2>1, <2>3, <2>4, RingsKept DEF IInv
<1>5. CASE tunnelRings[name] = 0
  <2>1. NewRing(name) /\ Has(k, Len(rings) + 1)
    BY <1>2, <1>5 DEF Create
  <2>2. /\ rings' \in Seq(Seq(Entries)) /\ Len(rings') = Len(rings) + 1
        /\ tunnelRings' \in [Names -> 0..Len(rings')]
        /\ tunnelRings'[name] = Len(rings) + 1
        /\ \A n \in Names \ {name} : tunnelRings'[n] = tunnelRings[n]
        /\ OneRing' /\ NothingLost'
    BY <1>2, <1>3, <1>5, <2>1, NewRingKeeps
  <2>3. call' = [call EXCEPT ![k].at = "found", ![k].ring = Len(rings) + 1]
    BY <2>1 DEF Has
  <2>4. call' \in [Callers -> [at : {"idle", "global", "lookup", "missing", "found"},
                               name : Names, ring : 0..Len(rings')]]
    <3>1. Len(rings') \in Nat /\ Len(rings) <= Len(rings') /\ Len(rings) + 1 \in 0..Len(rings')
      BY <1>3, <2>2
    <3>2. QED
      BY <1>1, <2>1, <3>1, HasTypes
  <2>5. TypeOK'
    BY <1>1, <1>2, <2>2, <2>4 DEF TypeOK
  <2>6. FoundOwn'
    <3> SUFFICES ASSUME NEW j \in Callers, call'[j].at = "found"
                 PROVE  call'[j].ring = tunnelRings'[call'[j].name] /\ call'[j].ring # 0
      BY DEF FoundOwn, At
    <3>1. CASE j = k
      BY <1>1, <1>3, <2>2, <2>3, <3>1, TypeParts
    <3>2. CASE j # k
      <4>1. call'[j] = call[j]
        BY <1>1, <2>3, <3>2, TypeParts
      <4>2. /\ call[j].ring = tunnelRings[call[j].name] /\ call[j].ring # 0
            /\ call[j].name \in Names
        BY <1>1, <4>1, TypeParts DEF FoundOwn, At
      <4>3. call[j].name # name
        BY <1>5, <4>2
      <4>4. QED
        BY <2>2, <4>1, <4>2, <4>3
    <3>3. QED
      BY <3>1, <3>2
  <2>7. QED
    BY <2>2, <2>5, <2>6 DEF IInv
<1>6. QED
    BY <1>4, <1>5

\* The supervisor makes the ring of a tunnel nobody has logged for.
LEMMA RegisterKeeps ==
    ASSUME IInv, NEW t \in Tunnels, RegisterTunnel(t)
    PROVE  IInv'
<1>1. TypeOK /\ FoundOwn /\ t \in Names
    BY DEF IInv, Names
<1>2. tunnelRings[t] = 0 /\ NewRing(t) /\ UNCHANGED <<call, entry, query, writes, logged>>
    BY DEF RegisterTunnel
<1>3. /\ rings' \in Seq(Seq(Entries)) /\ Len(rings') = Len(rings) + 1
      /\ tunnelRings' \in [Names -> 0..Len(rings')]
      /\ \A n \in Names \ {t} : tunnelRings'[n] = tunnelRings[n]
      /\ OneRing' /\ NothingLost'
    BY <1>1, <1>2, NewRingKeeps
<1>4. TypeOK'
  <2>1. call' \in [Callers -> [at : {"idle", "global", "lookup", "missing", "found"},
                               name : Names, ring : 0..Len(rings')]]
    BY <1>1, <1>2, <1>3, TypeParts
  <2>2. QED
    BY <1>1, <1>2, <1>3, <2>1 DEF TypeOK
<1>5. FoundOwn'
  <2> SUFFICES ASSUME NEW j \in Callers, call[j].at = "found"
               PROVE  call[j].ring = tunnelRings'[call[j].name] /\ call[j].ring # 0
    BY <1>2 DEF FoundOwn, At
  <2>1. /\ call[j].ring = tunnelRings[call[j].name] /\ call[j].ring # 0
        /\ call[j].name \in Names
    BY <1>1, TypeParts DEF FoundOwn, At
  <2>2. call[j].name # t
    BY <1>2, <2>1
  <2>3. QED
    BY <1>3, <2>1, <2>2
<1>6. QED
    BY <1>3, <1>4, <1>5 DEF IInv

\* A write goes to the global ring first, and a goroutine that has appended there
\* looks for its tunnel's ring.
LEMMA WriteKeeps ==
    ASSUME IInv, NEW w \in Writers, NEW t \in Tunnels \cup {NoTunnel}, NEW l \in Levels,
           Write(w, t, l)
    PROVE  IInv'
<1>1. TypeOK /\ FoundOwn /\ w \in Callers /\ t \in Names
    BY DEF IInv, Callers, Names
<1>2. /\ entry' = [entry EXCEPT ![w] = [tunnel |-> t, level |-> l]]
      /\ writes' = [writes EXCEPT ![w] = @ + 1] /\ writes[w] < MaxWrites
      /\ call' = [call EXCEPT ![w] = [at |-> "global", name |-> t, ring |-> 0]]
      /\ UNCHANGED <<tunnelRings, rings, query, logged>>
    BY DEF Write
<1>3. entry' \in [Writers -> Entries]
    BY <1>1, <1>2, TypeParts DEF Entries
<1>4. writes' \in [Writers -> 0..MaxWrites]
    BY <1>1, <1>2, MaxWritesAssumption, TypeParts
<1>5. call' \in [Callers -> [at : {"idle", "global", "lookup", "missing", "found"},
                             name : Names, ring : 0..Len(rings)]]
    BY <1>1, <1>2, TypeParts
<1>6. TypeOK'
    BY <1>1, <1>2, <1>3, <1>4, <1>5 DEF TypeOK
<1>7. FoundOwn'
    BY <1>1, <1>2, TypeParts DEF FoundOwn, At
<1>8. QED
    BY <1>2, <1>6, <1>7, RingsKept DEF IInv

LEMMA AppendGlobalKeeps ==
    ASSUME IInv, NEW w \in Writers, AppendGlobal(w)
    PROVE  IInv'
<1>1. /\ TypeOK /\ FoundOwn /\ OneRing
      /\ w \in Callers /\ NoTunnel \in Names /\ entry[w] \in Entries
    BY TypeParts DEF IInv, Callers, Names
<1>2. /\ Append1(GlobalRing, NoTunnel, entry[w])
      /\ UNCHANGED <<tunnelRings, entry, query, writes>>
    BY DEF AppendGlobal
<1>3. GlobalRing = tunnelRings[NoTunnel] /\ GlobalRing # 0
    BY <1>1 DEF OneRing, GlobalRing
<1>4. /\ rings' \in Seq(Seq(Entries)) /\ Len(rings') = Len(rings)
      /\ logged' \in [Names -> Seq(Entries)]
      /\ NothingLost'
    BY <1>1, <1>2, <1>3, AppendKeeps
<1>5. /\ call' \in [Callers -> [at : {"idle", "global", "lookup", "missing", "found"},
                                name : Names, ring : 0..Len(rings)]]
      /\ FoundOwn'
  <2>1. CASE call' = [call EXCEPT ![w].at = "lookup"]
    <3>1. call' \in [Callers -> [at : {"idle", "global", "lookup", "missing", "found"},
                                 name : Names, ring : 0..Len(rings)]]
      BY <1>1, <2>1, TypeParts
    <3>2. FoundOwn'
      BY <1>1, <1>2, <2>1, TypeParts DEF FoundOwn, At
    <3>3. QED
      BY <3>1, <3>2
  <2>2. CASE call' = [call EXCEPT ![w] = Idle]
    BY <1>1, <1>2, <2>2, TypeParts DEF FoundOwn, At, Idle
  <2>3. QED
    BY <2>1, <2>2 DEF AppendGlobal, Goto, Returns
<1>6. TypeOK'
    BY <1>1, <1>2, <1>4, <1>5 DEF TypeOK
<1>7. OneRing'
    BY <1>1, <1>2 DEF OneRing
<1>8. QED
    BY <1>4, <1>5, <1>6, <1>7 DEF IInv

LEMMA AppendTunnelKeeps ==
    ASSUME IInv, NEW w \in Writers, AppendTunnel(w)
    PROVE  IInv'
<1>1. /\ TypeOK /\ FoundOwn /\ OneRing
      /\ w \in Callers /\ NoTunnel \in Names /\ entry[w] \in Entries /\ call[w].name \in Names
    BY TypeParts DEF IInv, Callers, Names
<1>2. /\ Append1(call[w].ring, call[w].name, entry[w])
      /\ call' = [call EXCEPT ![w] = Idle]
      /\ UNCHANGED <<tunnelRings, entry, query, writes>>
    BY DEF AppendTunnel, Returns
<1>3. call[w].ring = tunnelRings[call[w].name] /\ call[w].ring # 0
    BY <1>1 DEF FoundOwn, AppendTunnel
<1>4. /\ rings' \in Seq(Seq(Entries)) /\ Len(rings') = Len(rings)
      /\ logged' \in [Names -> Seq(Entries)]
      /\ NothingLost'
    BY <1>1, <1>2, <1>3, AppendKeeps
<1>5. call' \in [Callers -> [at : {"idle", "global", "lookup", "missing", "found"},
                             name : Names, ring : 0..Len(rings)]]
    BY <1>1, <1>2, TypeParts DEF Idle
<1>6. FoundOwn'
    BY <1>1, <1>2, TypeParts DEF FoundOwn, At, Idle
<1>7. TypeOK'
    BY <1>1, <1>2, <1>4, <1>5 DEF TypeOK
<1>8. OneRing'
    BY <1>1, <1>2 DEF OneRing
<1>9. QED
    BY <1>4, <1>6, <1>7, <1>8 DEF IInv

\* A request without a tunnel has the global ring at once; one with a tunnel looks
\* for its ring as a writer does.
LEMMA handleLogsKeeps ==
    ASSUME IInv, NEW r \in Readers, NEW n \in AskedFor \cup {NoTunnel}, NEW f \in Filters,
           NEW tail \in Tails, handleLogs(r, n, f, tail)
    PROVE  IInv'
<1>1. TypeOK /\ FoundOwn /\ OneRing /\ r \in Callers /\ n \in Names
    BY DEF IInv, Callers, Names
<1>2. /\ query' = [query EXCEPT ![r] = [passes |-> f, tail |-> tail]]
      /\ UNCHANGED <<tunnelRings, rings, entry, writes, logged>>
    BY DEF handleLogs
<1>3. query' \in [Readers -> [passes : Filters \cup {{}}, tail : Tails \cup {0}]]
    BY <1>1, <1>2, TypeParts
<1>4. GlobalRing \in 0..Len(rings) /\ GlobalRing = tunnelRings[NoTunnel] /\ GlobalRing # 0
    BY <1>1, TypeParts DEF OneRing, GlobalRing, Names
<1>5. CASE call' = [call EXCEPT ![r] = [at |-> "found", name |-> NoTunnel, ring |-> GlobalRing]]
  <2>1. call' \in [Callers -> [at : {"idle", "global", "lookup", "missing", "found"},
                               name : Names, ring : 0..Len(rings)]]
    BY <1>1, <1>4, <1>5, TypeParts DEF Names
  <2>2. TypeOK'
    BY <1>1, <1>2, <1>3, <2>1 DEF TypeOK
  <2>3. FoundOwn'
    BY <1>1, <1>2, <1>4, <1>5, TypeParts DEF FoundOwn, At
  <2>4. QED
    BY <1>2, <2>2, <2>3, RingsKept DEF IInv
<1>6. CASE call' = [call EXCEPT ![r] = [at |-> "lookup", name |-> n, ring |-> 0]]
  <2>1. call' \in [Callers -> [at : {"idle", "global", "lookup", "missing", "found"},
                               name : Names, ring : 0..Len(rings)]]
    BY <1>1, <1>6, TypeParts
  <2>2. TypeOK'
    BY <1>1, <1>2, <1>3, <2>1 DEF TypeOK
  <2>3. FoundOwn'
    BY <1>1, <1>2, <1>6, TypeParts DEF FoundOwn, At
  <2>4. QED
    BY <1>2, <2>2, <2>3, RingsKept DEF IInv
<1>7. QED
    BY <1>5, <1>6 DEF handleLogs

LEMMA RespondKeeps ==
    ASSUME IInv, NEW r \in Readers, Respond(r)
    PROVE  IInv'
<1>1. TypeOK /\ FoundOwn /\ r \in Callers /\ NoTunnel \in Names
    BY DEF IInv, Callers, Names
<1>2. /\ call' = [call EXCEPT ![r] = Idle]
      /\ query' = [query EXCEPT ![r] = NoQuery]
      /\ UNCHANGED <<tunnelRings, rings, entry, writes, logged>>
    BY DEF Respond, Returns
<1>3. query' \in [Readers -> [passes : Filters \cup {{}}, tail : Tails \cup {0}]]
    BY <1>1, <1>2, TypeParts DEF NoQuery
<1>4. call' \in [Callers -> [at : {"idle", "global", "lookup", "missing", "found"},
                             name : Names, ring : 0..Len(rings)]]
    BY <1>1, <1>2, TypeParts DEF Idle
<1>5. TypeOK'
    BY <1>1, <1>2, <1>3, <1>4 DEF TypeOK
<1>6. FoundOwn'
    BY <1>1, <1>2, TypeParts DEF FoundOwn, At, Idle
<1>7. QED
    BY <1>2, <1>5, <1>6, RingsKept DEF IInv

\* Every step of a writer, a reader or the supervisor keeps the invariant.
THEOREM StepIInv == IInv /\ [Next]_vars => IInv'
<1> SUFFICES ASSUME IInv, [Next]_vars PROVE IInv'
    OBVIOUS
<1>1. ASSUME NEW w \in Writers, NEW t \in Tunnels \cup {NoTunnel}, NEW l \in Levels, Write(w, t, l)
      PROVE  IInv'
    BY <1>1, WriteKeeps
<1>2. ASSUME NEW w \in Writers, AppendGlobal(w) PROVE IInv'
    BY <1>2, AppendGlobalKeeps
<1>3. ASSUME NEW w \in Writers, AppendTunnel(w) PROVE IInv'
    BY <1>3, AppendTunnelKeeps
<1>4. ASSUME NEW r \in Readers, NEW n \in AskedFor \cup {NoTunnel}, NEW f \in Filters,
             NEW t \in Tails, handleLogs(r, n, f, t)
      PROVE  IInv'
    BY <1>4, handleLogsKeeps
<1>5. ASSUME NEW r \in Readers, Respond(r) PROVE IInv'
    BY <1>5, RespondKeeps
<1>6. ASSUME NEW t \in Tunnels, RegisterTunnel(t) PROVE IInv'
    BY <1>6, RegisterKeeps
<1>7. ASSUME NEW k \in Callers, Lookup(k) PROVE IInv'
    BY <1>7, LookupKeeps
<1>8. ASSUME NEW k \in Callers, GetOrCreate(k) PROVE IInv'
    BY <1>8, GetOrCreateKeeps
<1>9. CASE UNCHANGED vars
    BY <1>9 DEF vars, IInv, TypeOK, OneRing, FoundOwn, NothingLost, At, Capacity
<1>10. QED
    BY <1>1, <1>2, <1>3, <1>4, <1>5, <1>6, <1>7, <1>8, <1>9 DEF Next

-----------------------------------------------------------------------------

\* The inductive invariant holds throughout.
THEOREM Invariance == Spec => []IInv
BY InitIInv, StepIInv, PTL DEF Spec

\* logger.go:90: whatever the interleaving of writers, readers and the supervisor at
\* the first entry of a tunnel, no entry goes to a ring that nobody reads.
THEOREM NoneLost == Spec => []NothingLost
<1>1. IInv => NothingLost
    BY DEF IInv
<1>2. QED
    BY <1>1, Invariance, PTL

-----------------------------------------------------------------------------
(***************************************************************************)
(* The answers.                                                            *)
(***************************************************************************)

LEMMA LeastNumber ==
    ASSUME NEW S \in SUBSET Nat, S # {}
    PROVE  \E x \in S : \A y \in S : x <= y
<1> DEFINE R == {ss \in Nat \X Nat : ss[1] < ss[2]}
<1>1. IsWellFoundedOn(R, Nat)
    BY NatLessThanWellFounded DEF OpToRel
<1>2. PICK x \in S : \A y \in S : <<y, x>> \notin R
  <2> HIDE DEF R
  <2>1. QED
    BY <1>1, WFMin
<1>3. \A y \in S : x <= y
  <2> TAKE y \in S
  <2>1. ~(y < x)
    BY <1>2
  <2>2. QED
    BY <2>1
<1>4. QED
    BY <1>3

\* kept is what the filter has kept after each of the first n entries.
KeptUpTo(kept, s, f, n) ==
    kept = [i \in 0..n |-> IF i = 0 THEN <<>> ELSE Filtered(kept[i - 1], s[i], f)]

\* The loop can go on over any number of entries.
LEMMA LoopGoesOn ==
    ASSUME NEW s, NEW f, NEW n \in Nat
    PROVE  \E kept : KeptUpTo(kept, s, f, n)
<1> DEFINE Stuck == {i \in Nat : ~\E kept : KeptUpTo(kept, s, f, i)}
<1> SUFFICES ASSUME Stuck # {} PROVE FALSE
    OBVIOUS
<1>1. PICK m \in Stuck : \A i \in Stuck : m <= i
  <2>1. Stuck \in SUBSET Nat
    OBVIOUS
  <2> HIDE DEF Stuck
  <2>2. QED
    BY <2>1, LeastNumber
<1>2. m # 0
  <2> DEFINE first == [i \in 0..0 |-> <<>>]
  <2>1. KeptUpTo(first, s, f, 0)
    BY DEF KeptUpTo
  <2> HIDE DEF first
  <2>2. QED
    BY <1>1, <2>1
<1>3. PICK before : KeptUpTo(before, s, f, m - 1)
  <2>1. m - 1 \in Nat /\ ~(m <= m - 1)
    BY <1>1, <1>2
  <2>2. m - 1 \notin Stuck
    BY <1>1, <2>1
  <2>3. QED
    BY <2>1, <2>2
<1> DEFINE kept == [i \in 0..m |->
                       IF i = m THEN Filtered(before[m - 1], s[m], f) ELSE before[i]]
<1>4. m \in Nat /\ m - 1 \in Nat
    BY <1>1, <1>2
<1>5. ASSUME NEW i \in 0..m
      PROVE  kept[i] = IF i = 0 THEN <<>> ELSE Filtered(kept[i - 1], s[i], f)
  <2>1. CASE i = m
    <3>1. kept[i] = Filtered(before[m - 1], s[m], f) /\ kept[i - 1] = before[m - 1]
      BY <1>4, <2>1
    <3> HIDE DEF kept
    <3>2. QED
      BY <1>2, <2>1, <3>1
  <2>2. CASE i # m
    <3>1. i \in 0..(m - 1)
      BY <1>4, <2>2
    <3>2. before[i] = IF i = 0 THEN <<>> ELSE Filtered(before[i - 1], s[i], f)
      BY <1>3, <3>1 DEF KeptUpTo
    <3>3. kept[i] = before[i] /\ (i # 0 => kept[i - 1] = before[i - 1])
      BY <1>4, <2>2, <3>1
    <3> HIDE DEF kept
    <3>4. QED
      BY <3>2, <3>3
  <2>3. QED
    BY <2>1, <2>2
<1>6. KeptUpTo(kept, s, f, m)
  <2>1. kept = [i \in 0..m |-> kept[i]]
    OBVIOUS
  <2> HIDE DEF kept
  <2>2. QED
    BY <1>5, <2>1 DEF KeptUpTo
<1> HIDE DEF kept
<1>7. QED
    BY <1>1, <1>6

\* Which of the i entries after the first d pass.
PassAfter(all, f, d, i) == {j \in (d + 1)..(d + i) : all[j].level \in f}

LEMMA PassNext ==
    ASSUME NEW all, NEW f, NEW d \in Nat, NEW m \in Nat \ {0}
    PROVE  /\ all[d + m].level \in f =>
                 PassAfter(all, f, d, m) = PassAfter(all, f, d, m - 1) \cup {d + m}
           /\ all[d + m].level \notin f =>
                 PassAfter(all, f, d, m) = PassAfter(all, f, d, m - 1)
           /\ d + m \notin PassAfter(all, f, d, m - 1)
<1> DEFINE now == (d + 1)..(d + m)
           before == (d + 1)..(d + (m - 1))
<1>1. now = before \cup {d + m} /\ d + m \notin before
    OBVIOUS
<1>2. /\ PassAfter(all, f, d, m) = {j \in now : all[j].level \in f}
      /\ PassAfter(all, f, d, m - 1) = {j \in before : all[j].level \in f}
    BY DEF PassAfter
<1> DEFINE last == d + m
<1> HIDE DEF now, before, last
<1>3. now = before \cup {last} /\ last \notin before
    BY <1>1 DEF last
<1>4. /\ all[last].level \in f =>
            {j \in now : all[j].level \in f} = {j \in before : all[j].level \in f} \cup {last}
      /\ all[last].level \notin f =>
            {j \in now : all[j].level \in f} = {j \in before : all[j].level \in f}
    BY <1>3
<1>5. last \notin {j \in before : all[j].level \in f}
    BY <1>3
<1>6. QED
    BY <1>2, <1>4, <1>5 DEF last

LEMMA PassAfterFinite ==
    ASSUME NEW all, NEW f, NEW d \in Nat, NEW i \in Nat
    PROVE  IsFiniteSet(PassAfter(all, f, d, i))
<1>1. d + 1 \in Int /\ d + i \in Int
    OBVIOUS
<1>2. IsFiniteSet((d + 1)..(d + i))
    BY <1>1, FS_Interval, Zenon
<1>3. PassAfter(all, f, d, i) \in SUBSET ((d + 1)..(d + i))
    BY DEF PassAfter
<1>4. QED
    BY <1>2, <1>3, FS_Subset

\* The place of an entry among those that pass: how many do up to it.
Place(all, f, d, j) == Cardinality(PassAfter(all, f, d, j - d))

\* Those that pass are in p, in the order of all.
InOrder(p, all, f, d, i) ==
    \A j \in PassAfter(all, f, d, i) : p[Place(all, f, d, j)] = all[j]

LEMMA PlaceBounds ==
    ASSUME NEW all, NEW f, NEW d \in Nat, NEW i \in Nat, NEW j \in PassAfter(all, f, d, i)
    PROVE  /\ j \in (d + 1)..(d + i)
           /\ Place(all, f, d, j) \in 1..Cardinality(PassAfter(all, f, d, i))
<1>1. j \in (d + 1)..(d + i) /\ all[j].level \in f
    BY DEF PassAfter
<1> DEFINE k == j - d
<1>2. k \in Nat /\ j \in (d + 1)..(d + k) /\ \A x \in (d + 1)..(d + k) : x \in (d + 1)..(d + i)
    BY <1>1
<1>3. j \in PassAfter(all, f, d, k) /\ PassAfter(all, f, d, k) \in SUBSET PassAfter(all, f, d, i)
  <2> HIDE DEF k
  <2>1. QED
    BY <1>1, <1>2 DEF PassAfter
<1>4. IsFiniteSet(PassAfter(all, f, d, i)) /\ IsFiniteSet(PassAfter(all, f, d, k))
  <2> HIDE DEF k
  <2>1. QED
    BY <1>2, PassAfterFinite
<1> DEFINE P == PassAfter(all, f, d, k)
           Q == PassAfter(all, f, d, i)
<1>5. Place(all, f, d, j) = Cardinality(P)
    BY DEF Place
<1> HIDE DEF k, P, Q
<1>6. Cardinality(P) \in Nat /\ Cardinality(Q) \in Nat
    BY <1>4, FS_CardinalityType DEF P, Q
<1>7. Cardinality(P) # 0
    BY <1>3, <1>4, FS_EmptySet DEF P
<1>8. Cardinality(P) <= Cardinality(Q)
    BY <1>3, <1>4, FS_Subset DEF P, Q
<1>9. Place(all, f, d, j) \in 1..Cardinality(Q)
    BY <1>5, <1>6, <1>7, <1>8
<1>10. QED
    BY <1>1, <1>9 DEF Q

\* One more entry.
LEMMA CountNext ==
    ASSUME NEW all, NEW f, NEW d \in Nat, NEW m \in Nat \ {0},
           NEW before \in Seq(Entries), all[d + m] \in Entries,
           Len(before) = Cardinality(PassAfter(all, f, d, m - 1)),
           InOrder(before, all, f, d, m - 1)
    PROVE  /\ Filtered(before, all[d + m], f) \in Seq(Entries)
           /\ Len(Filtered(before, all[d + m], f)) = Cardinality(PassAfter(all, f, d, m))
           /\ InOrder(Filtered(before, all[d + m], f), all, f, d, m)
<1> DEFINE e == all[d + m]
           P == PassAfter(all, f, d, m - 1)
           Q == PassAfter(all, f, d, m)
<1>1. /\ e.level \in f => Q = P \cup {d + m}
      /\ e.level \notin f => Q = P
      /\ d + m \notin P
    BY PassNext
<1>2. IsFiniteSet(P) /\ m - 1 \in Nat
    BY PassAfterFinite
<1>3. \A j \in P : before[Place(all, f, d, j)] = all[j] /\ Place(all, f, d, j) \in 1..Len(before)
    BY <1>2, PlaceBounds DEF InOrder
<1>4. Place(all, f, d, d + m) = Cardinality(Q)
  <2>1. (d + m) - d = m
    OBVIOUS
  <2>2. QED
    BY <2>1 DEF Place
<1> HIDE DEF e, P, Q
<1>5. CASE e.level \in f
  <2>1. Cardinality(Q) = Cardinality(P) + 1
    BY <1>1, <1>2, <1>5, FS_AddElement
  <2>2. Filtered(before, e, f) = Append(before, e)
    BY <1>5 DEF Filtered
  <2>3. /\ Append(before, e) \in Seq(Entries) /\ Len(Append(before, e)) = Len(before) + 1
        /\ \A i \in 1..Len(before) : Append(before, e)[i] = before[i]
        /\ Append(before, e)[Len(before) + 1] = e
    BY AppendProperties DEF e
  <2>4. ASSUME NEW j \in Q PROVE Append(before, e)[Place(all, f, d, j)] = all[j]
    <3>1. CASE j \in P
      BY <1>3, <2>3, <3>1
    <3>2. CASE j = d + m
      <4>1. Place(all, f, d, j) = Len(before) + 1
        BY <1>4, <2>1, <3>2 DEF P
      <4>2. QED
        BY <2>3, <3>2, <4>1 DEF e
    <3>3. QED
      BY <1>1, <1>5, <3>1, <3>2
  <2>5. InOrder(Append(before, e), all, f, d, m)
    BY <2>4 DEF InOrder, Q
  <2>6. QED
    BY <2>1, <2>2, <2>3, <2>5 DEF e, P, Q
<1>6. CASE e.level \notin f
  <2>1. Q = P /\ Filtered(before, e, f) = before
    BY <1>1, <1>6 DEF Filtered
  <2>2. InOrder(before, all, f, d, m)
    BY <1>3, <2>1 DEF InOrder, Q
  <2>3. QED
    BY <2>1, <2>2 DEF e, P, Q
<1>7. QED
    BY <1>5, <1>6

\* s is what comes after the first d entries.
ComesAfter(s, all, d) == \A i \in 1..Len(s) : s[i] = all[d + i]

\* The filter keeps the entries that pass in their order, wherever they were logged.
LEMMA LoopCounts ==
    ASSUME NEW s \in Seq(Entries), NEW f, NEW kept, KeptUpTo(kept, s, f, Len(s)),
           NEW all, NEW d \in Nat, ComesAfter(s, all, d)
    PROVE  \A n \in 0..Len(s) :
              /\ kept[n] \in Seq(Entries)
              /\ Len(kept[n]) = Cardinality(PassAfter(all, f, d, n))
              /\ InOrder(kept[n], all, f, d, n)
<1> DEFINE Pass(i) == PassAfter(all, f, d, i)
           Right(i) == /\ kept[i] \in Seq(Entries)
                       /\ Len(kept[i]) = Cardinality(Pass(i))
                       /\ InOrder(kept[i], all, f, d, i)
           Wrong == {i \in 0..Len(s) : ~Right(i)}
<1> SUFFICES ASSUME NEW n \in 0..Len(s), ~Right(n) PROVE FALSE
    OBVIOUS
<1>1. Len(s) \in Nat
    OBVIOUS
<1>2. PICK m \in Wrong : \A i \in Wrong : m <= i
  <2>1. Wrong \in SUBSET Nat /\ n \in Wrong
    BY <1>1
  <2> HIDE DEF Wrong
  <2>2. QED
    BY <2>1, LeastNumber
<1>3. m \in 0..Len(s) /\ m \in Nat /\ ~Right(m)
    BY <1>1, <1>2
<1>4. \A i \in 0..Len(s) : i < m => Right(i)
    BY <1>1, <1>2, <1>3
<1>5. \A i \in 0..Len(s) : kept[i] = IF i = 0 THEN <<>> ELSE Filtered(kept[i - 1], s[i], f)
    BY DEF KeptUpTo
<1>6. CASE m = 0
  <2>1. Pass(0) = {}
    BY DEF PassAfter
  <2>2. kept[0] = <<>>
    BY <1>3, <1>5, <1>6
  <2>3. Cardinality({}) = 0
    BY FS_EmptySet
  <2> HIDE DEF Pass
  <2>4. Right(0)
    <3>1. kept[0] \in Seq(Entries) /\ Len(kept[0]) = 0
      BY <2>2
    <3>2. Cardinality(Pass(0)) = 0
      BY <2>1, <2>3
    <3>3. InOrder(kept[0], all, f, d, 0)
      BY <2>1 DEF InOrder, Pass
    <3>4. QED
      BY <3>1, <3>2, <3>3
  <2>5. QED
    BY <1>3, <1>6, <2>4
<1>7. CASE m # 0
  <2>1. m - 1 \in 0..Len(s) /\ m - 1 < m /\ m \in 1..Len(s)
    BY <1>1, <1>3, <1>7
  <2>2. /\ kept[m - 1] \in Seq(Entries) /\ Len(kept[m - 1]) = Cardinality(Pass(m - 1))
        /\ InOrder(kept[m - 1], all, f, d, m - 1)
    BY <1>4, <2>1
  <2>3. kept[m] = Filtered(kept[m - 1], s[m], f)
    BY <1>5, <1>7, <2>1
  <2>4. s[m] = all[d + m] /\ s[m] \in Entries
    BY <2>1 DEF ComesAfter
  <2>5. m \in Nat \ {0}
    BY <1>3, <1>7
  <2>6. /\ Filtered(kept[m - 1], s[m], f) \in Seq(Entries)
        /\ Len(Filtered(kept[m - 1], s[m], f)) = Cardinality(PassAfter(all, f, d, m))
        /\ InOrder(Filtered(kept[m - 1], s[m], f), all, f, d, m)
    BY <2>2, <2>4, <2>5, CountNext
  <2>7. QED
    BY <1>3, <2>3, <2>6
<1>8. QED
    BY <1>6, <1>7

\* The entries that pass of those the ring holds.
HeldOf(all, cap, f) == {i \in DOMAIN all : i > Len(all) - cap /\ all[i].level \in f}

LaterIn(held, i) == Cardinality({j \in held : j > i})

\* p is what all has at the positions held, in their order.
InOrderOf(p, all, held) ==
    /\ p \in Seq(Entries) /\ Len(p) = Cardinality(held)
    /\ \A i \in held : /\ LaterIn(held, i) \in Nat
                       /\ Len(p) - LaterIn(held, i) \in 1..Len(p)
                       /\ p[Len(p) - LaterIn(held, i)] = all[i]

\* What passes of a ring: as many entries as do of those logged that it holds, and an
\* entry has as many after it as pass after it.
LEMMA PassingCounts ==
    ASSUME NEW all \in Seq(Entries), NEW cap \in Nat, NEW f
    PROVE  InOrderOf(Passing(Latest(all, cap), f), all, HeldOf(all, cap, f))
<1> DEFINE held == HeldOf(all, cap, f)
           passing == Passing(Latest(all, cap), f)
<1> DEFINE s == Latest(all, cap)
           n == Kept(all, cap)
           d == Len(all) - n
<1>1. s \in Seq(Entries) /\ Len(s) = n /\ \A i \in 1..n : s[i] = all[d + i]
    BY LatestProperties
<1>2. Len(all) \in Nat /\ n \in Nat /\ d \in Nat
    BY DEF Kept
<1>3. held = PassAfter(all, f, d, n)
  <2>1. ASSUME NEW i
        PROVE  i \in DOMAIN all /\ i > Len(all) - cap <=> i \in (d + 1)..(d + n)
    <3>1. DOMAIN all = 1..Len(all)
      OBVIOUS
    <3>2. CASE Len(all) > cap
      <4>1. n = cap /\ d = Len(all) - cap
        BY <3>2 DEF Kept
      <4> HIDE DEF n, d
      <4>2. QED
        BY <1>2, <3>1, <3>2, <4>1
    <3>3. CASE ~(Len(all) > cap)
      <4>1. n = Len(all) /\ d = 0
        BY <1>2, <3>3 DEF Kept
      <4> HIDE DEF n, d
      <4>2. QED
        BY <1>2, <3>1, <3>3, <4>1
    <3>4. QED
      BY <3>2, <3>3
  <2> HIDE DEF n, d
  <2>2. QED
    BY <2>1 DEF PassAfter, HeldOf
<1> HIDE DEF s, d, n, held, passing
<1> DEFINE kept == CHOOSE kept : KeptUpTo(kept, s, f, Len(s))
<1>4. KeptUpTo(kept, s, f, Len(s))
  <2>1. Len(s) \in Nat
    BY <1>1
  <2>2. QED
    BY <2>1, LoopGoesOn
<1>5. Passing(s, f) = kept[Len(s)]
    BY DEF Passing, KeptUpTo
<1> HIDE DEF kept
<1>6. /\ kept[n] \in Seq(Entries)
      /\ Len(kept[n]) = Cardinality(PassAfter(all, f, d, n))
      /\ InOrder(kept[n], all, f, d, n)
  <2>1. n \in 0..Len(s)
    BY <1>1, <1>2
  <2>2. ComesAfter(s, all, d)
    BY <1>1 DEF ComesAfter
  <2>3. s \in Seq(Entries) /\ d \in Nat
    BY <1>1, <1>2
  <2>4. \A i \in 0..Len(s) :
           /\ kept[i] \in Seq(Entries)
           /\ Len(kept[i]) = Cardinality(PassAfter(all, f, d, i))
           /\ InOrder(kept[i], all, f, d, i)
    BY <1>4, <2>2, <2>3, LoopCounts
  <2>5. QED
    BY <2>1, <2>4
<1>7. /\ passing \in Seq(Entries) /\ Len(passing) = Cardinality(held)
      /\ InOrder(passing, all, f, d, n)
  <2>1. passing = Passing(s, f)
    BY DEF s, passing
  <2>2. QED
    BY <1>1, <1>3, <1>5, <1>6, <2>1
<1>8. ASSUME NEW i \in held
      PROVE  /\ LaterIn(held, i) \in Nat /\ Len(passing) - LaterIn(held, i) \in 1..Len(passing)
             /\ passing[Len(passing) - LaterIn(held, i)] = all[i]
  <2> DEFINE upto == PassAfter(all, f, d, i - d)
             later == {j \in held : j > i}
  <2>1. i \in (d + 1)..(d + n) /\ i - d \in Nat
    BY <1>2, <1>3 DEF PassAfter
  <2>2. later = held \ upto /\ held \cap upto = upto
    <3>1. \A j \in held : j \in (d + 1)..(d + n) /\ all[j].level \in f
      BY <1>3 DEF PassAfter
    <3>2. \A j : j \in (d + 1)..(d + (i - d)) <=> j \in (d + 1)..(d + n) /\ ~(j > i)
      BY <1>2, <2>1
    <3>3. \A j : j \in upto <=> j \in held /\ ~(j > i)
      BY <1>3, <3>2 DEF PassAfter
    <3> HIDE DEF upto
    <3>4. QED
      BY <3>3
  <2>3. IsFiniteSet(held)
    BY <1>2, <1>3, PassAfterFinite
  <2>4. Cardinality(later) = Cardinality(held) - Cardinality(upto) /\ IsFiniteSet(later)
    <3> HIDE DEF upto, later
    <3>1. /\ IsFiniteSet(held \ upto)
          /\ Cardinality(held \ upto) = Cardinality(held) - Cardinality(held \cap upto)
      BY <2>3, FS_Difference
    <3>2. QED
      BY <2>2, <3>1
  <2>5. Place(all, f, d, i) = Cardinality(upto)
    BY DEF Place
  <2>6. Place(all, f, d, i) \in 1..Cardinality(held)
    BY <1>2, <1>3, PlaceBounds
  <2>7. passing[Place(all, f, d, i)] = all[i]
    BY <1>3, <1>7 DEF InOrder
  <2>8. Cardinality(held) \in Nat /\ Cardinality(later) \in Nat
    <3> HIDE DEF upto, later
    <3>1. QED
      BY <2>3, <2>4, FS_CardinalityType
  <2> HIDE DEF upto, later
  <2>9. Len(passing) - Cardinality(later) = Place(all, f, d, i)
    BY <1>7, <2>4, <2>5, <2>6, <2>8
  <2>10. QED
    BY <1>7, <2>6, <2>7, <2>8, <2>9 DEF later, LaterIn
<1>9. QED
    BY <1>7, <1>8 DEF InOrderOf, held, passing

LEMMA AnswersFromInv == IInv => AnswerMissesOldest
<1> SUFFICES ASSUME IInv, NEW r \in Readers, At(r, "found")
             PROVE  LET all == logged[call[r].name]
                        held == {i \in DOMAIN all : i > Len(all) - Capacity(call[r].name)
                                                     /\ all[i].level \in query[r].passes}
                        Later(i) == Cardinality({j \in held : j > i})
                    IN  /\ Len(Response(r)) = IF Cardinality(held) < query[r].tail
                                              THEN Cardinality(held) ELSE query[r].tail
                        /\ \A i \in held : Later(i) < query[r].tail =>
                               Response(r)[Len(Response(r)) - Later(i)] = all[i]
    BY DEF AnswerMissesOldest
<1> DEFINE name == call[r].name
           all == logged[name]
           f == query[r].passes
           tail == query[r].tail
           held == {i \in DOMAIN all : i > Len(all) - Capacity(name) /\ all[i].level \in f}
           Later(i) == Cardinality({j \in held : j > i})
           passing == Passing(Latest(all, Capacity(name)), f)
<1>1. TypeOK /\ r \in Callers
    BY DEF IInv, Callers
<1>2. name \in Names /\ all \in Seq(Entries) /\ tail \in Nat
  <2>1. name \in Names /\ all \in Seq(Entries)
    BY <1>1, TypeParts
  <2>2. tail \in Tails \cup {0}
    BY <1>1, TypeParts
  <2> HIDE DEF tail
  <2>3. QED
    BY <2>1, <2>2, CapAssumption
<1>3. Capacity(name) \in Nat
    BY CapAssumption DEF Capacity
<1>4. rings[call[r].ring] = Latest(all, Capacity(name))
    BY <1>1, <1>2 DEF IInv, FoundOwn, NothingLost
<1>5. Response(r) = Latest(passing, tail)
    BY <1>4 DEF Response, Answer
<1>6. /\ passing \in Seq(Entries) /\ Len(passing) = Cardinality(held)
      /\ \A i \in held : /\ Later(i) \in Nat /\ Len(passing) - Later(i) \in 1..Len(passing)
                         /\ passing[Len(passing) - Later(i)] = all[i]
  <2> DEFINE cap == Capacity(name)
  <2>1. held = HeldOf(all, cap, f) /\ passing = Passing(Latest(all, cap), f)
    BY DEF HeldOf
  <2>2. cap \in Nat
    BY <1>3
  <2>3. \A i : Later(i) = LaterIn(held, i)
    BY DEF LaterIn
  <2> HIDE DEF all, f, Later, held, passing, cap
  <2>4. InOrderOf(Passing(Latest(all, cap), f), all, HeldOf(all, cap, f))
    BY <1>2, <2>2, PassingCounts
  <2>5. InOrderOf(passing, all, held)
    BY <2>1, <2>4
  <2>6. QED
    BY <2>3, <2>5 DEF InOrderOf
<1> HIDE DEF passing, held, tail, Later
<1> DEFINE k == Kept(passing, tail)
<1>7. /\ Len(Response(r)) = k
      /\ \A i \in 1..k : Response(r)[i] = passing[Len(passing) - k + i]
  <2>1. /\ Len(Latest(passing, tail)) = Kept(passing, tail)
        /\ \A i \in 1..Kept(passing, tail) :
               Latest(passing, tail)[i] = passing[Len(passing) - Kept(passing, tail) + i]
    BY <1>2, <1>6, LatestProperties
  <2>2. QED
    BY <1>5, <2>1
<1>8. Len(passing) \in Nat
    BY <1>6
<1>9. k = IF Cardinality(held) < tail THEN Cardinality(held) ELSE tail
    BY <1>2, <1>6, <1>8 DEF Kept
<1>10. ASSUME NEW i \in held, Later(i) < tail
       PROVE  Response(r)[Len(Response(r)) - Later(i)] = all[i]
  <2>1. Later(i) \in Nat /\ Len(passing) - Later(i) \in 1..Len(passing)
    BY <1>6
  <2>2. k \in Nat /\ Later(i) < k
    BY <1>2, <1>8, <1>10, <2>1 DEF Kept
  <2> DEFINE at == k - Later(i)
  <2> HIDE DEF k
  <2>3. at \in 1..k /\ Len(passing) - k + at = Len(passing) - Later(i)
    BY <1>8, <2>1, <2>2
  <2> HIDE DEF at
  <2>4. Response(r)[at] = passing[Len(passing) - Later(i)]
    BY <1>7, <2>3
  <2>5. QED
    BY <1>6, <1>7, <2>4 DEF at
<1>11. QED
    BY <1>7, <1>9, <1>10 DEF held, tail, Later

\* server.go:174: whatever has been logged, and whatever filter and tail are asked
\* for, an answer has the latest entries that pass in their order, and is short only of
\* what the ring has dropped or the tail leaves out.
THEOREM AnswersAreWhole == Spec => []AnswerMissesOldest
    BY Invariance, AnswersFromInv, PTL

=============================================================================
