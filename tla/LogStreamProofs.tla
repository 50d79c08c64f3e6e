--------------------------- MODULE LogStreamProofs ---------------------------
(***************************************************************************)
(* Proofs about RingBuffer, and about LogStream which is built on it, for  *)
(* every capacity of the ring and of the channels, every limit of the      *)
(* replay, and any number of producers, subscribers and entries.           *)
(*                                                                         *)
(* The ring. Layout says which entry every slot holds: from it follow what *)
(* Snapshot returns and that the ring is a BoundedLog. SendsAreNewer says  *)
(* that what a producer still has to send is newer than all of its entries *)
(* that a subscriber was given: it has the sends of one entry left at a    *)
(* time.                                                                   *)
(*                                                                         *)
(* The stream. The handlers only take steps of the ring buffer or steps of *)
(* their own, so what is proved of the ring buffer holds there. A          *)
(* subscriber is sent only what was logged after it joined (SentIsNew),    *)
(* all of that reaches it or is lost for a reason (TailIsWhole), and its   *)
(* replay ends before it joined (ReplayIsOlder).                           *)
(***************************************************************************)
EXTENDS LogStream, SequenceTheorems, TLAPS

\* The slots from start on hold the newest entries, oldest first.
Layout ==
    /\ size <= Len(hist)
    /\ size < Capacity => start = 0 /\ size = Len(hist)
    /\ \A i \in 0..(size - 1) :
          entries[(start + i) % Capacity] = Len(hist) - size + i + 1

\* What a producer has left to send is one entry, which it appended.
OneEntryAtATime ==
    \A p \in Producers : \A x \in sending[p] :
        /\ x[1] \in 1..Len(hist) /\ hist[x[1]] = p
        /\ \A y \in sending[p] : x[1] = y[1]

\* A subscriber is given entries that were appended, and none of a producer
\* that is as new as the one it has left to send.
SendsAreNewer ==
    \A s \in Subscribers : \A i \in DOMAIN Stream(s) :
        /\ Stream(s)[i] \in 1..Len(hist)
        /\ \A p \in Producers : \A x \in sending[p] :
              x[2] = s /\ hist[Stream(s)[i]] = p => Stream(s)[i] < x[1]

IInv ==
    /\ TypeOK
    /\ Layout
    /\ OneEntryAtATime
    /\ SendsAreNewer
    /\ StreamKeepsProducerOrder

-----------------------------------------------------------------------------
(***************************************************************************)
(* The arithmetic of the slots.                                            *)
(***************************************************************************)

\* The remainder of what exceeds the ring less than three times.
LEMMA Wrap ==
    ASSUME NEW n \in Nat \ {0}, NEW x \in Nat, x < 3 * n
    PROVE  /\ x % n \in 0..(n - 1)
           /\ x % n = IF x < n THEN x ELSE IF x < 2 * n THEN x - n ELSE x - 2 * n
    OBVIOUS

\* WriteSlot keeps the layout: in a full ring the new entry takes the slot of the
\* oldest, and the next slot is the oldest from then on.
LEMMA WriteKeepsLayout ==
    ASSUME TypeOK, Layout, NEW p \in Producers, Len(hist) < MaxEntries,
           WriteSlot(Len(hist) + 1), hist' = Append(hist, p)
    PROVE  /\ Layout'
           /\ entries' \in [0..(Capacity - 1) -> 0..MaxEntries]
           /\ start' \in 0..(Capacity - 1) /\ size' \in 0..Capacity
<1> DEFINE N == Len(hist)
           w(x) == x % Capacity
           L == Len(hist')
           Held == \A i \in 0..(size' - 1) : entries'[w(start' + i)] = L - size' + i + 1
           Bounds == /\ size' <= L
                     /\ size' < Capacity => start' = 0 /\ size' = L
                     /\ start' \in 0..(Capacity - 1) /\ size' \in 0..Capacity
<1>1. Capacity \in Nat \ {0}
    BY CapacityAssumption
<1>2. \A x \in Nat : x < 3 * Capacity => w(x) =
          IF x < Capacity THEN x ELSE IF x < 2 * Capacity THEN x - Capacity ELSE x - 2 * Capacity
    BY <1>1, Wrap
<1>3. /\ entries' = [entries EXCEPT ![w(start + size)] = N + 1]
      /\ IF size < Capacity
            THEN size' = size + 1 /\ start' = start
            ELSE size' = size /\ start' = w(start + 1)
    BY DEF WriteSlot
<1>4. \A i \in 0..(size - 1) : entries[w(start + i)] = N - size + i + 1
    BY DEF Layout
<1>5. L = N + 1
    BY DEF TypeOK
<1>6. /\ entries \in [0..(Capacity - 1) -> 0..MaxEntries]
      /\ start \in 0..(Capacity - 1) /\ size \in 0..Capacity
      /\ N \in Nat /\ N < MaxEntries /\ size <= N
      /\ size < Capacity => start = 0 /\ size = N
    BY DEF TypeOK, Layout
<1> HIDE DEF w, N, L
<1>7. w(start + size) \in 0..(Capacity - 1) /\ N + 1 \in 0..MaxEntries
  <2>1. start + size \in Nat /\ start + size < 2 * Capacity
    BY <1>1, <1>6
  <2>2. w(start + size) \in 0..(Capacity - 1)
    BY <1>1, <1>2, <2>1
  <2>3. N + 1 \in 0..MaxEntries
    BY <1>6, MaxEntriesAssumption
  <2>4. QED
    BY <2>2, <2>3
<1>8. entries' \in [0..(Capacity - 1) -> 0..MaxEntries]
  <2>1. entries' = [entries EXCEPT ![w(start + size)] = N + 1]
    BY <1>3
  <2>2. entries \in [0..(Capacity - 1) -> 0..MaxEntries]
    BY <1>6
  <2>3. QED
    BY <1>7, <2>1, <2>2, Zenon
<1>9. ASSUME size < Capacity PROVE Held /\ Bounds
  <2>1. start = 0 /\ start' = 0 /\ size' = size + 1 /\ size = N /\ w(start + size) = size
    BY <1>1, <1>2, <1>3, <1>6, <1>9
  <2>2. \A i \in 0..size : w(start' + i) = i /\ w(start + i) = i
    BY <1>1, <1>2, <1>6, <1>9, <2>1
  <2>3. \A i \in 0..size : entries'[i] = i + 1
    <3>1. entries' = [entries EXCEPT ![size] = size + 1]
      BY <1>3, <2>1, Zenon
    <3>2. \A i \in 0..(size - 1) : entries[i] = i + 1
      <4> TAKE i \in 0..(size - 1)
      <4>1. entries[w(start + i)] = N - size + i + 1
        BY <1>4
      <4>2. w(start + i) = i
        BY <1>6, <2>2
      <4>3. QED
        BY <1>6, <2>1, <4>1, <4>2
    <3>3. QED
      <4>1. size \in 0..(Capacity - 1)
        BY <1>1, <1>6, <1>9
      <4>2. QED
        BY <1>6, <3>1, <3>2, <4>1
  <2>4. Held
    <3>1. size' - 1 = size /\ L - size' = 0 /\ size \in Nat
      BY <1>5, <1>6, <2>1
    <3>2. \A i \in 0..size : entries'[w(start' + i)] = i + 1
      BY <2>2, <2>3
    <3>3. QED
      BY <3>1, <3>2
  <2>5. Bounds
    BY <1>1, <1>5, <1>6, <1>9, <2>1
  <2>6. QED
    BY <2>4, <2>5
<1>10. ASSUME size = Capacity PROVE Held /\ Bounds
  <2>1. size' = Capacity /\ w(start + size) = start /\ start' = w(start + 1)
    BY <1>1, <1>2, <1>3, <1>6, <1>10
  <2>2. start' = (IF start + 1 < Capacity THEN start + 1 ELSE 0)
    BY <1>1, <1>2, <1>6, <2>1
  <2>3. w(start' + (Capacity - 1)) = start
    <3>1. CASE start + 1 < Capacity
      BY <1>1, <1>2, <1>6, <2>2, <3>1
    <3>2. CASE ~(start + 1 < Capacity)
      <4>1. start = Capacity - 1 /\ start' = 0
        BY <1>1, <1>6, <2>2, <3>2
      <4>2. w(Capacity - 1) = Capacity - 1 /\ 0 + (Capacity - 1) = Capacity - 1
        BY <1>1, <1>2
      <4>3. QED
        BY <4>1, <4>2
    <3>3. QED
      BY <3>1, <3>2
  <2>4. \A i \in 0..(Capacity - 2) : w(start' + i) = w(start + (i + 1))
    BY <1>1, <1>2, <1>6, <2>2
  <2>5. \A i \in 0..(Capacity - 2) :
           w(start + (i + 1)) # start /\ w(start + (i + 1)) \in 0..(Capacity - 1)
    BY <1>1, <1>2, <1>6
  <2>6. \A i \in 0..(Capacity - 2) : entries[w(start + (i + 1))] = N - size + (i + 1) + 1
    <3> TAKE i \in 0..(Capacity - 2)
    <3>1. i + 1 \in 0..(size - 1)
      BY <1>1, <1>10
    <3>2. QED
      BY <1>4, <3>1
  <2>7. \A i \in 0..(Capacity - 2) : entries'[w(start' + i)] = N - Capacity + (i + 1) + 1
    BY <1>3, <1>6, <1>10, <2>1, <2>4, <2>5, <2>6
  <2>8. entries'[w(start' + (Capacity - 1))] = N + 1
    BY <1>3, <1>6, <1>7, <2>1, <2>3
  <2>9. \A i \in 0..(Capacity - 1) : entries'[w(start' + i)] = N + 1 - Capacity + i + 1
    <3> TAKE i \in 0..(Capacity - 1)
    <3>1. i = Capacity - 1 \/ i \in 0..(Capacity - 2)
      BY <1>1
    <3>2. QED
      BY <1>1, <1>6, <2>7, <2>8, <3>1
  <2>10. start' \in 0..(Capacity - 1)
    BY <1>1, <1>6, <2>2
  <2>11. Held
    <3> SUFFICES ASSUME NEW i \in 0..(size' - 1)
                 PROVE  entries'[w(start' + i)] = L - size' + i + 1
      OBVIOUS
    <3>1. i \in 0..(Capacity - 1)
      BY <2>1
    <3>2. entries'[w(start' + i)] = N + 1 - Capacity + i + 1
      BY <2>9, <3>1
    <3>3. L - size' = N + 1 - Capacity
      BY <1>1, <1>5, <1>6, <2>1
    <3>4. QED
      BY <3>2, <3>3, Zenon
  <2>12. Bounds
    BY <1>1, <1>5, <1>6, <1>10, <2>1, <2>10
  <2>13. QED
    BY <2>11, <2>12
<1>11. Held /\ Bounds
  <2>1. size < Capacity \/ size = Capacity
    BY <1>1, <1>6
  <2>2. QED
    BY <1>9, <1>10, <2>1, Zenon
<1>12. Layout'
    BY <1>11, Zenon DEF Layout, w, L
<1>13. QED
    BY <1>8, <1>11, <1>12

\* What Snapshot returns in such a layout: the end of the history.
LEMMA SnapshotValue ==
    TypeOK /\ Layout =>
        \A limit \in Nat :
            /\ SnapshotSize(limit) \in 0..size
            /\ Snapshot(limit) = [i \in 1..SnapshotSize(limit) |->
                                      Len(hist) - SnapshotSize(limit) + i]
<1> SUFFICES ASSUME TypeOK, Layout, NEW limit \in Nat
             PROVE  /\ SnapshotSize(limit) \in 0..size
                    /\ Snapshot(limit) = [i \in 1..SnapshotSize(limit) |->
                                              Len(hist) - SnapshotSize(limit) + i]
    OBVIOUS
<1> DEFINE n == SnapshotSize(limit)
           N == Len(hist)
           w(x) == x % Capacity
<1>1. /\ Capacity \in Nat \ {0} /\ N \in Nat
      /\ start \in 0..(Capacity - 1) /\ size \in 0..Capacity
    BY CapacityAssumption DEF TypeOK
<1>2. n \in 0..size
    BY <1>1 DEF SnapshotSize
<1>3. \A x \in Nat : x < 3 * Capacity => w(x) =
          IF x < Capacity THEN x ELSE IF x < 2 * Capacity THEN x - Capacity ELSE x - 2 * Capacity
    BY <1>1, Wrap
<1>4. \A i \in 0..(size - 1) : entries[w(start + i)] = N - size + i + 1
    BY DEF Layout
<1>5. Snapshot(limit) = [i \in 1..n |-> entries[w(w(start + size - n + Capacity) + i - 1)]]
    BY DEF Snapshot
<1> HIDE DEF n, N, w
<1>6. ASSUME NEW i \in 1..n
      PROVE  entries[w(w(start + size - n + Capacity) + i - 1)] = N - n + i
  <2> DEFINE b == w(start + size - n + Capacity)
  <2>1. start + size - n + Capacity \in Nat /\ start + size - n + Capacity < 3 * Capacity
    BY <1>1, <1>2
  <2>2. b = IF start + size - n < Capacity THEN start + size - n ELSE start + size - n - Capacity
    BY <1>1, <1>2, <1>3, <2>1
  <2>3. w(b + i - 1) = w(start + (size - n + i - 1))
    <3> HIDE DEF b
    <3>1. CASE start + size - n < Capacity
      <4>1. b + i - 1 = start + (size - n + i - 1)
        BY <1>1, <1>2, <2>2, <3>1
      <4>2. QED
        BY <4>1
    <3>2. CASE ~(start + size - n < Capacity)
      <4>1. b + i - 1 = start + (size - n + i - 1) - Capacity /\ b + i - 1 \in Nat
            /\ b + i - 1 < Capacity
        BY <1>1, <1>2, <2>2, <3>2
      <4>2. QED
        BY <1>1, <1>2, <1>3, <4>1
    <3>3. QED
      BY <3>1, <3>2
  <2>4. size - n + i - 1 \in 0..(size - 1)
    BY <1>1, <1>2
  <2>5. entries[w(start + (size - n + i - 1))] = N - size + (size - n + i - 1) + 1
    BY <1>4, <2>4
  <2>6. N - size + (size - n + i - 1) + 1 = N - n + i
    BY <1>1, <1>2
  <2>7. QED
    BY <2>3, <2>5, <2>6
<1>7. QED
    BY <1>2, <1>5, <1>6 DEF n, N

-----------------------------------------------------------------------------
(***************************************************************************)
(* What any step does to the streams and to the history.                   *)
(***************************************************************************)

\* Moving the head of b to the end of a does not change the two in a row.
LEMMA MoveHead ==
    ASSUME NEW S, NEW a \in Seq(S), NEW b \in Seq(S), b # <<>>
    PROVE  Append(a, Head(b)) \o Tail(b) = a \o b
<1>1. /\ Head(b) \in S /\ Tail(b) \in Seq(S)
      /\ b = <<Head(b)>> \o Tail(b)
    BY HeadTailProperties, SMTT(20)
<1>2. Append(a, Head(b)) = a \o <<Head(b)>> /\ <<Head(b)>> \in Seq(S)
    BY <1>1, AppendIsConcat
<1>3. (a \o <<Head(b)>>) \o Tail(b) = a \o (<<Head(b)>> \o Tail(b))
    BY <1>1, <1>2, ConcatAssociative
<1>4. QED
    BY <1>1, <1>2, <1>3

\* An element added to b is added to the two in a row.
LEMMA AppendToSecond ==
    ASSUME NEW S, NEW a \in Seq(S), NEW b \in Seq(S), NEW e \in S
    PROVE  a \o Append(b, e) = Append(a \o b, e)
<1>1. <<e>> \in Seq(S) /\ a \o b \in Seq(S)
    BY ConcatProperties
<1>2. Append(b, e) = b \o <<e>> /\ Append(a \o b, e) = (a \o b) \o <<e>>
    BY <1>1, AppendIsConcat
<1>3. (a \o b) \o <<e>> = a \o (b \o <<e>>)
    BY <1>1, ConcatAssociative
<1>4. QED
    BY <1>2, <1>3

\* A stream is a sequence of entries.
LEMMA StreamType ==
    ASSUME TypeOK, NEW s \in Subscribers
    PROVE  Stream(s) \in Seq(Entries) /\ DOMAIN Stream(s) = 1..Len(Stream(s))
<1>1. got[s] \in Seq(Entries) /\ chan[s] \in Seq(Entries)
    BY DEF TypeOK
<1>2. Stream(s) \in Seq(Entries)
    BY <1>1, ConcatProperties DEF Stream
<1>3. QED
    BY <1>2, LenProperties

\* A send puts its entry at the end of the stream of its subscriber, if there is
\* room in the channel, and changes no other stream.
LEMMA OfferStep ==
    ASSUME TypeOK, NEW t \in Subscribers, NEW e \in Entries, Offer(t, e), UNCHANGED got,
           NEW s \in Subscribers
    PROVE  Stream(s)' = IF t = s /\ Len(chan[t]) < ChanCap
                        THEN Append(Stream(s), e)
                        ELSE Stream(s)
<1>1. /\ got \in [Subscribers -> Seq(Entries)]
      /\ chan \in [Subscribers -> Seq(Entries)]
    BY DEF TypeOK
<1>2. CASE Len(chan[t]) < ChanCap /\ t = s
  <2>1. chan'[s] = Append(chan[s], e) /\ got'[s] = got[s]
    BY <1>1, <1>2 DEF Offer
  <2>2. got[s] \o Append(chan[s], e) = Append(got[s] \o chan[s], e)
    BY <1>1, AppendToSecond
  <2>3. QED
    BY <1>2, <2>1, <2>2 DEF Stream
<1>3. CASE ~(Len(chan[t]) < ChanCap /\ t = s)
  <2>1. chan'[s] = chan[s] /\ got'[s] = got[s]
    BY <1>1, <1>3 DEF Offer
  <2>2. QED
    BY <1>3, <2>1 DEF Stream
<1>4. QED
    BY <1>2, <1>3

\* What is received only changes sides.
LEMMA ReceiveStep ==
    ASSUME TypeOK, NEW t \in Subscribers, Receive(t), NEW s \in Subscribers
    PROVE  Stream(s)' = Stream(s)
<1>1. /\ got \in [Subscribers -> Seq(Entries)]
      /\ chan \in [Subscribers -> Seq(Entries)]
    BY DEF TypeOK
<1>2. /\ got' = [got EXCEPT ![t] = Append(@, Head(chan[t]))]
      /\ chan' = [chan EXCEPT ![t] = Tail(@)] /\ chan[t] # <<>>
    BY DEF Receive
<1>3. CASE t = s
  <2>1. got'[s] = Append(got[s], Head(chan[s])) /\ chan'[s] = Tail(chan[s])
    BY <1>1, <1>2, <1>3
  <2>2. Append(got[s], Head(chan[s])) \o Tail(chan[s]) = got[s] \o chan[s]
    BY <1>1, <1>2, <1>3, MoveHead
  <2>3. QED
    BY <2>1, <2>2 DEF Stream
<1>4. CASE t # s
    BY <1>1, <1>2, <1>4 DEF Stream
<1>5. QED
    BY <1>3, <1>4

\* A stream only changes by a send.
LEMMA StreamStep ==
    ASSUME TypeOK, [Next]_vars, NEW s \in Subscribers
    PROVE  \/ Stream(s)' = Stream(s)
           \/ \E p \in Producers, e \in Entries :
                 /\ <<e, s>> \in sending[p]
                 /\ sending' = [sending EXCEPT ![p] = @ \ {<<e, s>>}]
                 /\ hist' = hist
                 /\ Stream(s)' = Append(Stream(s), e)
<1>1. ASSUME UNCHANGED <<chan, got>> PROVE Stream(s)' = Stream(s)
    BY <1>1 DEF Stream
<1>2. ASSUME NEW p \in Producers, AppendLocked(p) \/ SendPanics(p)
      PROVE  UNCHANGED <<chan, got>>
    BY <1>2 DEF AppendLocked, SendPanics, channels
<1>3. ASSUME NEW t \in Subscribers, Subscribe(t) \/ Unsubscribe(t)
      PROVE  UNCHANGED <<chan, got>>
    BY <1>3 DEF Subscribe, Unsubscribe, channels
<1>4. ASSUME NEW p \in Producers, Send(p)
      PROVE  \/ Stream(s)' = Stream(s)
             \/ \E e \in Entries :
                   /\ <<e, s>> \in sending[p]
                   /\ sending' = [sending EXCEPT ![p] = @ \ {<<e, s>>}]
                   /\ hist' = hist
                   /\ Stream(s)' = Append(Stream(s), e)
  <2>1. PICK e \in Entries, t \in Subscribers \ closed :
            /\ <<e, t>> \in sending[p] /\ Offer(t, e)
            /\ sending' = [sending EXCEPT ![p] = @ \ {<<e, t>>}]
            /\ hist' = hist /\ UNCHANGED got
    BY <1>4 DEF Send, ring
  <2>2. Stream(s)' = Stream(s) \/ (t = s /\ Stream(s)' = Append(Stream(s), e))
    BY <2>1, OfferStep
  <2>3. QED
    BY <2>1, <2>2
<1>5. CASE UNCHANGED vars
    BY <1>1, <1>5 DEF vars, channels
<1>6. QED
    BY <1>1, <1>2, <1>3, <1>4, <1>5, ReceiveStep DEF Next

\* The history only grows, and what is left to send was left before or is the
\* entry just appended by a producer that had nothing left.
LEMMA HistoryStep ==
    ASSUME TypeOK, [Next]_vars
    PROVE  /\ hist' \in Seq(Producers) /\ Len(hist) <= Len(hist')
           /\ \A e \in 1..Len(hist) : hist'[e] = hist[e]
           /\ \A p \in Producers : \A x \in sending'[p] :
                 \/ x \in sending[p]
                 \/ /\ x[1] = Len(hist) + 1 /\ x[1] \in 1..Len(hist') /\ hist'[x[1]] = p
                    /\ sending[p] = {}
<1>1. /\ hist \in Seq(Producers) /\ Len(hist) \in Nat
      /\ sending \in [Producers -> SUBSET (Entries \X Subscribers)]
    BY DEF TypeOK
<1>2. ASSUME NEW q \in Producers, AppendLocked(q)
      PROVE  /\ hist' \in Seq(Producers) /\ Len(hist') = Len(hist) + 1
             /\ \A e \in 1..Len(hist) : hist'[e] = hist[e]
             /\ hist'[Len(hist) + 1] = q
             /\ sending[q] = {}
             /\ sending' = [sending EXCEPT ![q] = {Len(hist) + 1} \X subs]
  <2>1. hist' = Append(hist, q) /\ sending[q] = {}
        /\ sending' = [sending EXCEPT ![q] = @ \cup ({Len(hist) + 1} \X subs)]
    BY <1>2 DEF AppendLocked, MayAppend
  <2>2. sending' = [sending EXCEPT ![q] = {Len(hist) + 1} \X subs]
    BY <1>1, <2>1
  <2>3. QED
    BY <1>1, <2>1, <2>2, AppendProperties
<1>3. ASSUME NEW q \in Producers, Send(q) \/ SendPanics(q)
      PROVE  /\ hist' = hist
             /\ \A p \in Producers : sending'[p] \subseteq sending[p]
    BY <1>1, <1>3 DEF Send, SendPanics, ring
<1>4. ASSUME NEW t \in Subscribers, Subscribe(t) \/ Unsubscribe(t) \/ Receive(t)
      PROVE  hist' = hist /\ sending' = sending
    BY <1>4 DEF Subscribe, Unsubscribe, Receive, ring
<1>5. ASSUME UNCHANGED vars PROVE hist' = hist /\ sending' = sending
    BY <1>5 DEF vars, ring
<1>6. CASE \E q \in Producers : AppendLocked(q)
  <2>1. PICK q \in Producers : AppendLocked(q)
    BY <1>6
  <2>2. \A p \in Producers : \A x \in sending'[p] :
            x \in sending[p] \/ (p = q /\ x[1] = Len(hist) + 1)
    BY <1>1, <1>2, <2>1
  <2>3. QED
    BY <1>1, <1>2, <2>1, <2>2
<1>7. CASE hist' = hist /\ \A p \in Producers : sending'[p] \subseteq sending[p]
    BY <1>1, <1>7
<1>8. QED
    BY <1>3, <1>4, <1>5, <1>6, <1>7 DEF Next

-----------------------------------------------------------------------------
(***************************************************************************)
(* The inductive invariant.                                                *)
(***************************************************************************)

\* A new ring buffer satisfies the invariant.
THEOREM InitIInv == Init => IInv
<1> SUFFICES ASSUME Init PROVE IInv
    OBVIOUS
<1>1. Capacity \in Nat \ {0} /\ ChanCap \in Nat \ {0} /\ MaxEntries \in Nat
    BY CapacityAssumption, ChanCapAssumption, MaxEntriesAssumption
<1>2. TypeOK
    BY <1>1 DEF Init, TypeOK
<1>3. Layout
    BY <1>1 DEF Init, Layout
<1>4. \A s \in Subscribers : Stream(s) = <<>>
    BY DEF Init, Stream
<1>5. OneEntryAtATime /\ SendsAreNewer /\ StreamKeepsProducerOrder
    BY <1>4 DEF Init, OneEntryAtATime, SendsAreNewer, StreamKeepsProducerOrder
<1>6. QED
    BY <1>2, <1>3, <1>5 DEF IInv

\* Every step keeps the types.
LEMMA StepTypeOK == TypeOK /\ Layout /\ [Next]_vars => TypeOK'
<1> SUFFICES ASSUME TypeOK, Layout, [Next]_vars PROVE TypeOK'
    OBVIOUS
<1> USE CapacityAssumption, ChanCapAssumption, MaxEntriesAssumption
    DEF TypeOK, ring, channels
<1>1. ASSUME NEW p \in Producers, AppendLocked(p) PROVE TypeOK'
  <2>1. /\ entries' \in [0..(Capacity - 1) -> 0..MaxEntries]
        /\ start' \in 0..(Capacity - 1) /\ size' \in 0..Capacity
    BY <1>1, WriteKeepsLayout DEF AppendLocked
  <2>2. hist' \in Seq(Producers) /\ Len(hist') <= MaxEntries
    BY <1>1 DEF AppendLocked
  <2>3. sending' \in [Producers -> SUBSET (Entries \X Subscribers)]
    BY <1>1 DEF AppendLocked, Entries
  <2>4. QED
    BY <1>1, <2>1, <2>2, <2>3 DEF AppendLocked
<1>2. ASSUME NEW p \in Producers, Send(p) PROVE TypeOK'
  <2>1. PICK e \in Entries, s \in Subscribers \ closed :
            /\ Offer(s, e)
            /\ sending' = [sending EXCEPT ![p] = @ \ {<<e, s>>}]
            /\ UNCHANGED <<ring, closed, got, subs, since, panicked>>
    BY <1>2 DEF Send
  <2>2. CASE Len(chan[s]) < ChanCap
    <3>1. chan' = [chan EXCEPT ![s] = Append(@, e)] /\ dropped' = dropped
      BY <2>1, <2>2 DEF Offer
    <3>2. chan' \in [Subscribers -> Seq(Entries)] /\ \A t \in Subscribers : Len(chan'[t]) <= ChanCap
      BY <2>2, <3>1
    <3>3. QED
      BY <2>1, <3>1, <3>2
  <2>3. CASE ~(Len(chan[s]) < ChanCap)
    <3>1. dropped' = [dropped EXCEPT ![s] = @ \cup {e}] /\ chan' = chan
      BY <2>1, <2>3 DEF Offer
    <3>2. dropped' \in [Subscribers -> SUBSET Entries]
      BY <3>1
    <3>3. sending' \in [Producers -> SUBSET (Entries \X Subscribers)]
      BY <2>1
    <3>4. QED
      BY <2>1, <3>1, <3>2, <3>3
  <2>4. QED
    BY <2>2, <2>3
<1>3. ASSUME NEW p \in Producers, SendPanics(p) PROVE TypeOK'
    BY <1>3 DEF SendPanics
<1>4. ASSUME NEW s \in Subscribers, Subscribe(s) \/ Unsubscribe(s) PROVE TypeOK'
  <2>1. CASE Subscribe(s)
    <3>1. since' \in [Subscribers -> 0..MaxEntries]
      BY <2>1 DEF Subscribe
    <3>2. QED
      BY <2>1, <3>1 DEF Subscribe
  <2>2. CASE Unsubscribe(s)
    BY <2>2 DEF Unsubscribe
  <2>3. QED
    BY <1>4, <2>1, <2>2
<1>5. ASSUME NEW s \in Subscribers, Receive(s) PROVE TypeOK'
  <2>1. Head(chan[s]) \in Entries /\ Tail(chan[s]) \in Seq(Entries)
        /\ Len(Tail(chan[s])) = Len(chan[s]) - 1
    BY <1>5, HeadTailProperties DEF Receive
  <2>2. /\ got' = [got EXCEPT ![s] = Append(@, Head(chan[s]))]
        /\ chan' = [chan EXCEPT ![s] = Tail(@)]
        /\ UNCHANGED <<ring, closed, dropped, subs, since, sending, panicked>>
    BY <1>5 DEF Receive
  <2>3. chan' \in [Subscribers -> Seq(Entries)] /\ \A t \in Subscribers : Len(chan'[t]) <= ChanCap
    <3>1. /\ chan \in [Subscribers -> Seq(Entries)]
          /\ \A t \in Subscribers : Len(chan[t]) <= ChanCap /\ Len(chan[t]) \in Nat
      BY LenProperties DEF TypeOK
    <3>2. chan' \in [Subscribers -> Seq(Entries)]
      BY <2>1, <2>2, <3>1, Zenon
    <3>3. ASSUME NEW t \in Subscribers PROVE Len(chan'[t]) <= ChanCap
      BY <2>1, <2>2, <3>1, ChanCapAssumption
    <3>4. QED
      BY <3>2, <3>3
  <2>4. got' \in [Subscribers -> Seq(Entries)]
    BY <2>1, <2>2
  <2>5. QED
    BY <2>2, <2>3, <2>4
<1>6. CASE UNCHANGED vars
    BY <1>6 DEF vars
<1>7. QED
    BY <1>1, <1>2, <1>3, <1>4, <1>5, <1>6 DEF Next

\* Every step keeps the layout: only an append touches the ring.
LEMMA StepLayout == TypeOK /\ Layout /\ [Next]_vars => Layout'
<1> SUFFICES ASSUME TypeOK, Layout, [Next]_vars PROVE Layout'
    OBVIOUS
<1>1. ASSUME NEW p \in Producers, AppendLocked(p) PROVE Layout'
    BY <1>1, WriteKeepsLayout DEF AppendLocked
<1>2. CASE UNCHANGED ring
    BY <1>2 DEF ring, Layout
<1>3. QED
    BY <1>1, <1>2 DEF Next, Send, SendPanics, Subscribe, Unsubscribe, Receive, vars

\* Every step keeps the order: a send ends what was left to send of its entry
\* to its subscriber, and an append makes an entry newer than all of them.
LEMMA StepSendsAreNewer ==
    IInv /\ TypeOK' /\ [Next]_vars
        => OneEntryAtATime' /\ SendsAreNewer' /\ StreamKeepsProducerOrder'
<1> SUFFICES ASSUME IInv, TypeOK', [Next]_vars
             PROVE  OneEntryAtATime' /\ SendsAreNewer' /\ StreamKeepsProducerOrder'
    OBVIOUS
<1>1. /\ hist' \in Seq(Producers) /\ Len(hist) <= Len(hist')
      /\ \A e \in 1..Len(hist) : hist'[e] = hist[e]
      /\ \A p \in Producers : \A x \in sending'[p] :
            \/ x \in sending[p]
            \/ /\ x[1] = Len(hist) + 1 /\ x[1] \in 1..Len(hist') /\ hist'[x[1]] = p
               /\ sending[p] = {}
    BY HistoryStep DEF IInv
<1>2. Len(hist) \in Nat /\ Len(hist') \in Nat
    BY DEF IInv, TypeOK
<1>3. OneEntryAtATime'
  <2>1. ASSUME NEW p \in Producers, NEW x \in sending'[p]
        PROVE  /\ x[1] \in 1..Len(hist') /\ hist'[x[1]] = p
               /\ \A y \in sending'[p] : x[1] = y[1]
    BY <1>1, <1>2, <2>1 DEF IInv, OneEntryAtATime
  <2>2. QED
    BY <2>1 DEF OneEntryAtATime
<1>4. ASSUME NEW s \in Subscribers, NEW i \in DOMAIN Stream(s)'
      PROVE  /\ Stream(s)'[i] \in 1..Len(hist')
             /\ \A q \in Producers : \A x \in sending'[q] :
                   x[2] = s /\ hist'[Stream(s)'[i]] = q => Stream(s)'[i] < x[1]
             /\ \A j \in DOMAIN Stream(s)' :
                   i < j /\ hist'[Stream(s)'[i]] = hist'[Stream(s)'[j]]
                       => Stream(s)'[i] < Stream(s)'[j]
  <2> DEFINE str == Stream(s)
             new == Stream(s)'
  <2>1. str \in Seq(Entries) /\ DOMAIN str = 1..Len(str) /\ Len(str) \in Nat
    BY StreamType, LenProperties DEF IInv
  <2>2. \A k \in DOMAIN str :
           /\ str[k] \in 1..Len(hist)
           /\ \A q \in Producers : \A x \in sending[q] :
                 x[2] = s /\ hist[str[k]] = q => str[k] < x[1]
           /\ \A j \in DOMAIN str : k < j /\ hist[str[k]] = hist[str[j]] => str[k] < str[j]
    BY DEF IInv, SendsAreNewer, StreamKeepsProducerOrder
  <2>3. CASE new = str
    <3> HIDE DEF str
    <3>1. str[i] \in 1..Len(hist) /\ hist'[str[i]] = hist[str[i]]
      BY <1>1, <2>2, <2>3
    <3>2. \A j \in DOMAIN str : hist'[str[j]] = hist[str[j]]
      BY <1>1, <2>2
    <3>3. ASSUME NEW q \in Producers, NEW x \in sending'[q], x[2] = s, hist[str[i]] = q
          PROVE  str[i] < x[1]
      BY <1>1, <1>2, <2>2, <2>3, <3>1, <3>3
    <3>4. QED
      BY <1>2, <1>1, <2>2, <2>3, <3>1, <3>2, <3>3
  <2>4. ASSUME NEW p \in Producers, NEW e \in Entries,
               <<e, s>> \in sending[p],
               sending' = [sending EXCEPT ![p] = @ \ {<<e, s>>}],
               hist' = hist, new = Append(str, e)
        PROVE  /\ new[i] \in 1..Len(hist)
               /\ \A q \in Producers : \A x \in sending'[q] :
                     x[2] = s /\ hist[new[i]] = q => new[i] < x[1]
               /\ \A j \in DOMAIN new :
                     i < j /\ hist[new[i]] = hist[new[j]] => new[i] < new[j]
    <3>1. /\ DOMAIN new = 1..(Len(str) + 1) /\ new[Len(str) + 1] = e
          /\ \A k \in DOMAIN str : new[k] = str[k]
      BY <2>1, <2>4, AppendProperties
    <3>2. /\ e \in 1..Len(hist) /\ hist[e] = p
          /\ \A y \in sending[p] : y[1] = e /\ y \in Entries \X Subscribers
      <4>1. /\ <<e, s>> \in sending[p] /\ <<e, s>>[1] = e
            /\ sending[p] \subseteq Entries \X Subscribers
        BY <2>4 DEF IInv, TypeOK
      <4>2. QED
        BY <4>1 DEF IInv, OneEntryAtATime
    <3>3. /\ \A q \in Producers : sending'[q] \subseteq sending[q]
          /\ \A y \in sending'[p] : y[2] # s
      <4>1. sending'[p] = sending[p] \ {<<e, s>>}
        BY <2>4 DEF IInv, TypeOK
      <4>2. \A y \in sending[p] : y = <<e, y[2]>>
        BY <3>2
      <4>3. \A y \in sending'[p] : y[2] # s
        BY <4>1, <4>2
      <4>4. \A q \in Producers : sending'[q] \subseteq sending[q]
        BY <2>4 DEF IInv, TypeOK
      <4>5. QED
        BY <4>3, <4>4
    <3> HIDE DEF str, new
    <3>4. CASE i \in DOMAIN str
      <4>1. new[i] = str[i] /\ str[i] \in 1..Len(hist)
        BY <2>2, <3>1, <3>4
      <4>2. \A q \in Producers : \A x \in sending'[q] :
               x[2] = s /\ hist[str[i]] = q => str[i] < x[1]
        BY <2>2, <3>3, <3>4
      <4>3. \A j \in DOMAIN str : i < j /\ hist[new[i]] = hist[new[j]] => new[i] < new[j]
        BY <2>2, <3>1, <3>4
      <4>4. hist[str[i]] = p => str[i] < e
        BY <2>2, <2>4, <3>4
      <4>5. \A j \in DOMAIN new : j \in DOMAIN str \/ new[j] = e
        BY <2>1, <3>1
      <4>6. QED
        BY <3>2, <4>1, <4>2, <4>3, <4>4, <4>5
    <3>5. CASE i \notin DOMAIN str
      <4>1. i = Len(str) + 1 /\ new[i] = e
        BY <2>1, <3>1, <3>5 DEF new
      <4>2. \A j \in DOMAIN new : ~(i < j)
        BY <2>1, <3>1, <4>1
      <4>3. QED
        BY <3>2, <3>3, <4>1, <4>2
    <3>6. QED
      BY <3>4, <3>5
  <2>5. \/ new = str
        \/ \E p \in Producers, e \in Entries :
              /\ <<e, s>> \in sending[p]
              /\ sending' = [sending EXCEPT ![p] = @ \ {<<e, s>>}]
              /\ hist' = hist
              /\ new = Append(str, e)
    BY StreamStep DEF IInv
  <2>6. QED
    BY <2>3, <2>4, <2>5
<1>5. SendsAreNewer'
    BY <1>4 DEF SendsAreNewer
<1>6. StreamKeepsProducerOrder'
    BY <1>4 DEF StreamKeepsProducerOrder
<1>7. QED
    BY <1>3, <1>5, <1>6

\* No append, send, call or receipt breaks the invariant.
THEOREM StepIInv == IInv /\ [Next]_vars => IInv'
    BY StepTypeOK, StepLayout, StepSendsAreNewer DEF IInv

-----------------------------------------------------------------------------
(***************************************************************************)
(* Safety, for every value of the constants.                               *)
(***************************************************************************)

\* The inductive invariant holds in every reachable state.
THEOREM Invariance == Spec => []IInv
    BY InitIInv, StepIInv, PTL DEF Spec

\* A snapshot of any length is the end of the history, however often the ring
\* has wrapped around.
LEMMA LatestInLayout == IInv => SnapshotIsLatest
<1> SUFFICES ASSUME IInv, NEW limit \in 0..(Capacity + 1)
             PROVE  LET snap == Snapshot(limit) IN
                    /\ Len(snap) = IF limit = 0 \/ limit > size THEN size ELSE limit
                    /\ \A i \in DOMAIN snap : snap[i] = Len(hist) - Len(snap) + i
    BY DEF SnapshotIsLatest
<1> DEFINE n == SnapshotSize(limit)
<1>1. size \in Nat /\ limit \in Nat
    BY CapacityAssumption DEF IInv, TypeOK
<1>2. n \in 0..size /\ Snapshot(limit) = [i \in 1..n |-> Len(hist) - n + i]
    BY <1>1, SnapshotValue DEF IInv
<1>3. n = IF limit = 0 \/ limit > size THEN size ELSE limit
    BY <1>1 DEF SnapshotSize
<1> HIDE DEF n
<1>4. Len(Snapshot(limit)) = n /\ DOMAIN Snapshot(limit) = 1..n
    BY <1>1, <1>2
<1>5. QED
    BY <1>2, <1>3, <1>4

\* /logs shows the latest entries and no others.
THEOREM Latest == Spec => []SnapshotIsLatest
    BY LatestInLayout, Invariance, PTL

\* The entries of one producer are streamed in the order it logged them.
THEOREM ProducerOrder == Spec => []StreamKeepsProducerOrder
<1>1. IInv => StreamKeepsProducerOrder
    BY DEF IInv
<1>2. QED
    BY <1>1, Invariance, PTL

-----------------------------------------------------------------------------
(***************************************************************************)
(* Refinement: the slots, the start and the size are a BoundedLog.         *)
(***************************************************************************)

\* n consecutive numbers, the last of which is N.
Window(n, N) == [i \in 1..n |-> N - n + i]

\* A window moves on by one.
LEMMA TailThenAppend ==
    ASSUME NEW n \in Nat \ {0}, NEW N \in Nat
    PROVE  Append(Tail(Window(n, N)), N + 1) = Window(n, N + 1)
<1> DEFINE window == Window(n, N)
           moved == Window(n, N + 1)
           rest == Tail(window)
           result == Append(rest, N + 1)
<1>1. /\ window \in Seq(Int) /\ Len(window) = n
      /\ \A i \in 1..n : window[i] = N - n + i
    BY DEF Window
<1>2. /\ moved \in Seq(Int) /\ Len(moved) = n
      /\ \A i \in 1..n : moved[i] = N + 1 - n + i
    BY DEF Window
<1> HIDE DEF window, moved
<1>3. /\ rest \in Seq(Int) /\ Len(rest) = n - 1
      /\ \A i \in 1..(n - 1) : rest[i] = window[i + 1]
    BY <1>1, HeadTailProperties
<1> HIDE DEF rest
<1>4. /\ result \in Seq(Int) /\ Len(result) = n
      /\ \A i \in 1..(n - 1) : result[i] = rest[i]
      /\ result[n] = N + 1
    BY <1>3, AppendProperties
<1> HIDE DEF result
<1>5. \A i \in 1..n : result[i] = moved[i]
  <2> TAKE i \in 1..n
  <2>1. moved[i] = N + 1 - n + i
    BY <1>2
  <2>2. CASE i = n
    BY <1>4, <2>1, <2>2
  <2>3. CASE i \in 1..(n - 1)
    <3>1. result[i] = window[i + 1] /\ i + 1 \in 1..n
      BY <1>3, <1>4, <2>3
    <3>2. window[i + 1] = N - n + (i + 1)
      BY <1>1, <3>1
    <3>3. QED
      BY <2>1, <3>1, <3>2
  <2>4. QED
    BY <2>2, <2>3
<1>6. result = moved
    BY <1>2, <1>4, <1>5, SeqEqual
<1>7. QED
    BY <1>6, Zenon DEF window, moved, rest, result

\* An append adds the next entry to the abstract log, and takes the oldest one
\* from a full log; no other step touches it.
LEMMA StepRefines == IInv /\ [Next]_vars => [Log!Add]_(Snapshot(0))
<1> SUFFICES ASSUME IInv, [Next]_vars PROVE [Log!Add]_(Snapshot(0))
    OBVIOUS
<1>1. CASE UNCHANGED ring
    BY <1>1 DEF ring, Snapshot, SnapshotSize
<1>2. ASSUME NEW p \in Producers, AppendLocked(p) PROVE Log!Add
  <2> DEFINE N == Len(hist)
  <2>1. IInv'
    BY StepIInv
  <2>2. Snapshot(0) = Window(size, N)
    BY SnapshotValue DEF IInv, SnapshotSize, Window
  <2>3. Snapshot(0)' = Window(size', Len(hist'))
    <3>1. (TypeOK /\ Layout =>
              \A limit \in Nat :
                  /\ SnapshotSize(limit) \in 0..size
                  /\ Snapshot(limit) = [i \in 1..SnapshotSize(limit) |->
                                            Len(hist) - SnapshotSize(limit) + i])'
      BY SnapshotValue, PTL
    <3>2. QED
      BY <2>1, <3>1 DEF IInv, SnapshotSize, Window
  <2>4. /\ Len(hist') = N + 1
        /\ size' = IF size < Capacity THEN size + 1 ELSE size
    BY <1>2 DEF AppendLocked, WriteSlot, IInv, TypeOK
  <2>5. /\ N \in Nat /\ Capacity \in Nat \ {0} /\ size \in 0..Capacity /\ size <= N
        /\ size < Capacity => size = N
    BY CapacityAssumption DEF IInv, TypeOK, Layout
  <2> DEFINE log == Snapshot(0)
             rest == IF Len(log) < Capacity THEN log ELSE Tail(log)
  <2> HIDE DEF N
  <2>6. log \in Seq(Int) /\ Len(log) = size
    BY <2>2, <2>5 DEF Window
  <2>7. Log!Newest + 1 = N + 1
    BY <2>2, <2>5, <2>6 DEF Log!Newest, Window
  <2>8. Snapshot(0)' = Append(rest, N + 1)
    <3> HIDE DEF log
    <3>1. log = Window(size, N)
      BY <2>2 DEF log
    <3>2. CASE size < Capacity
      <4>1. rest = log /\ size' = size + 1 /\ size = N
        BY <2>4, <2>5, <2>6, <3>2
      <4>2. QED
        BY <2>3, <2>4, <2>5, <2>6, <3>1, <4>1 DEF Window
    <3>3. CASE size = Capacity
      <4>1. rest = Tail(log) /\ size' = size
        BY <2>4, <2>5, <2>6, <3>3
      <4>2. Append(Tail(log), N + 1) = Window(size, N + 1)
        BY <2>5, <3>1, <3>3, TailThenAppend
      <4>3. Snapshot(0)' = Window(size, N + 1)
        BY <2>3, <2>4, <4>1, Zenon
      <4>4. QED
        BY <4>1, <4>2, <4>3, Zenon
    <3>4. QED
      BY <2>5, <3>2, <3>3
  <2>9. QED
    BY <2>7, <2>8 DEF Log!Add
<1>3. QED
    BY <1>1, <1>2 DEF Next, Send, SendPanics, Subscribe, Unsubscribe, Receive, vars

\* The ring buffer implements a bounded log, whatever its capacity: wrapping
\* around neither loses nor repeats nor reorders an entry.
THEOREM Refinement == Spec => ImplementsBoundedLog
<1>1. Init => Log!Init
    BY CapacityAssumption DEF Init, Log!Init, Snapshot, SnapshotSize
<1>2. QED
    BY <1>1, StepRefines, Invariance, PTL DEF Spec, ImplementsBoundedLog, Log!Spec

-----------------------------------------------------------------------------
(***************************************************************************)
(* The handlers of the stream.                                             *)
(***************************************************************************)

\* What a subscriber was sent, and what is left to send to it, was logged after
\* it joined.
SentIsNew ==
    /\ \A s \in Subscribers :
          /\ since[s] <= Len(hist)
          /\ \A i \in DOMAIN Stream(s) : s \in subs \cup closed /\ since[s] < Stream(s)[i]
    /\ \A p \in Producers : \A x \in sending[p] :
          x[2] \in subs \cup closed /\ since[x[2]] < x[1]

\* The entry is in the stream, or will be, or was lost.
Settled(s, e) ==
    \/ \E i \in DOMAIN Stream(s) : Stream(s)[i] = e
    \/ e \in dropped[s]
    \/ \E p \in Producers : <<e, s>> \in sending[p]
    \/ hist[e] \in panicked

\* Nothing logged since a tailer joined has vanished without a reason.
TailIsWhole ==
    \A s \in subs : \A e \in (since[s] + 1)..Len(hist) : Settled(s, e)

\* A handler subscribes once it has replayed, and unsubscribes as it returns.
StepOfHandler ==
    \A s \in Subscribers :
        /\ s \in subs <=> at[s] = 3
        /\ s \in closed <=> at[s] = 0

\* The replay holds the newest entries of its time, and the tail starts later.
ReplayIsOlder ==
    \A s \in Subscribers :
        /\ \E n \in 0..asOf[s] : replayed[s] = Window(n, asOf[s])
        /\ asOf[s] <= Len(hist)
        /\ s \in subs \cup closed => asOf[s] <= since[s]

StreamIInv ==
    /\ IInv
    /\ StreamTypeOK
    /\ SentIsNew
    /\ TailIsWhole
    /\ StepOfHandler
    /\ ReplayIsOlder

-----------------------------------------------------------------------------
(***************************************************************************)
(* The handlers over the ring buffer.                                      *)
(***************************************************************************)

\* Every step of the producers and handlers is one of the ring buffer, or leaves
\* it alone.
LEMMA StreamStepIsRingStep == [StreamNext]_streamVars => [Next]_vars
    BY DEF StreamNext, streamVars, Next, Replay, StartTail, ForwardEntry, HangUp, Leave

\* The handlers use the ring buffer as RingBuffer says it is used.
THEOREM UsesRing == StreamSpec => Spec
<1>1. StreamInit => Init
    BY DEF StreamInit
<1>2. QED
    BY <1>1, StreamStepIsRingStep, PTL DEF StreamSpec, Spec

\* A subscriber joins at the end of the history and stays known; what is added
\* to the sends that are left is for those who have joined.
LEMMA JoinStep ==
    ASSUME TypeOK, [Next]_vars
    PROVE  /\ subs \cup closed \subseteq subs' \cup closed'
           /\ \A s \in Subscribers :
                 \/ since'[s] = since[s]
                 \/ s \notin subs \cup closed /\ since'[s] = Len(hist)
           /\ \A p \in Producers : \A x \in sending'[p] :
                 \/ x \in sending[p]
                 \/ x[1] = Len(hist) + 1 /\ x[2] \in subs
<1>1. /\ sending \in [Producers -> SUBSET (Entries \X Subscribers)]
      /\ since \in [Subscribers -> 0..MaxEntries]
    BY DEF TypeOK
<1>2. ASSUME NEW p \in Producers, AppendLocked(p)
      PROVE  /\ UNCHANGED <<subs, closed, since>>
             /\ \A q \in Producers : \A x \in sending'[q] :
                   x \in sending[q] \/ (x[1] = Len(hist) + 1 /\ x[2] \in subs)
  <2>1. /\ UNCHANGED <<subs, closed, since>>
        /\ sending' = [sending EXCEPT ![p] = @ \cup ({Len(hist) + 1} \X subs)]
    BY <1>2 DEF AppendLocked, channels
  <2>2. \A x \in {Len(hist) + 1} \X subs : x[1] = Len(hist) + 1 /\ x[2] \in subs
    OBVIOUS
  <2>3. QED
    BY <1>1, <2>1, <2>2
<1>3. ASSUME NEW p \in Producers, Send(p) \/ SendPanics(p)
      PROVE  /\ UNCHANGED <<subs, closed, since>>
             /\ \A q \in Producers : sending'[q] \subseteq sending[q]
    BY <1>1, <1>3 DEF Send, SendPanics, channels
<1>4. ASSUME NEW t \in Subscribers, Subscribe(t)
      PROVE  /\ subs \subseteq subs' /\ closed' = closed /\ sending' = sending
             /\ \A s \in Subscribers : since'[s] = since[s]
                    \/ (s \notin subs \cup closed /\ since'[s] = Len(hist))
    BY <1>1, <1>4 DEF Subscribe, channels
<1>5. ASSUME NEW t \in Subscribers, Unsubscribe(t) \/ Receive(t)
      PROVE  /\ subs \cup closed = subs' \cup closed' /\ sending' = sending
             /\ since' = since
    BY <1>5 DEF Unsubscribe, Receive
<1>6. CASE UNCHANGED vars
    BY <1>6 DEF vars, channels
<1>7. QED
    BY <1>2, <1>3, <1>4, <1>5, <1>6 DEF Next

\* No step sends a subscriber what was logged before it joined.
LEMMA StepSentIsNew == IInv /\ SentIsNew /\ [Next]_vars => SentIsNew'
<1> SUFFICES ASSUME IInv, SentIsNew, [Next]_vars PROVE SentIsNew'
    OBVIOUS
<1> DEFINE joined == subs \cup closed
           N == Len(hist)
<1>1. /\ joined \subseteq joined'
      /\ \A s \in Subscribers : since'[s] = since[s] \/ (s \notin joined /\ since'[s] = N)
      /\ \A p \in Producers : \A x \in sending'[p] :
            x \in sending[p] \/ (x[1] = N + 1 /\ x[2] \in subs)
    BY JoinStep DEF IInv
<1>2. /\ N \in Nat /\ N <= Len(hist') /\ Len(hist') \in Nat
      /\ \A s \in Subscribers : since[s] \in Nat
      /\ \A p \in Producers : \A x \in sending[p] : x \in Entries \X Subscribers
      /\ subs \subseteq Subscribers
  <2>1. hist' \in Seq(Producers) /\ N <= Len(hist')
    BY HistoryStep DEF IInv
  <2>2. QED
    BY <2>1 DEF IInv, TypeOK
<1>3. /\ \A s \in Subscribers :
            /\ since[s] <= N
            /\ \A i \in DOMAIN Stream(s) : s \in joined /\ since[s] < Stream(s)[i]
      /\ \A p \in Producers : \A x \in sending[p] : x[2] \in joined /\ since[x[2]] < x[1]
    BY DEF SentIsNew
<1>4. ASSUME NEW s \in Subscribers
      PROVE  /\ since'[s] <= Len(hist')
             /\ \A i \in DOMAIN Stream(s)' : s \in joined' /\ since'[s] < Stream(s)'[i]
  <2> DEFINE str == Stream(s)
             new == Stream(s)'
  <2>1. since'[s] <= Len(hist')
    BY <1>1, <1>2, <1>3
  <2>2. CASE new = str
    <3> HIDE DEF str, N
    <3>1. \A i \in DOMAIN str : s \in joined /\ since[s] < str[i]
      BY <1>3 DEF str
    <3>2. QED
      BY <1>1, <2>1, <2>2, <3>1
  <2>3. ASSUME NEW p \in Producers, NEW e \in Entries, <<e, s>> \in sending[p],
               new = Append(str, e)
        PROVE  \A i \in DOMAIN new : s \in joined' /\ since'[s] < new[i]
    <3>1. s \in joined /\ since[s] < e
      BY <1>3, <2>3
    <3>2. \A i \in DOMAIN str : since[s] < str[i]
      BY <1>3
    <3>3. \A i \in DOMAIN new : (i \in DOMAIN str /\ new[i] = str[i]) \/ new[i] = e
      <4>1. str \in Seq(Entries) /\ DOMAIN str = 1..Len(str) /\ Len(str) \in Nat
        BY StreamType, LenProperties DEF IInv
      <4> HIDE DEF str
      <4>2. QED
        BY <2>3, <4>1, AppendProperties
    <3> HIDE DEF str, new
    <3>4. QED
      BY <1>1, <3>1, <3>2, <3>3
  <2>4. new = str \/ \E p \in Producers, e \in Entries :
                        <<e, s>> \in sending[p] /\ new = Append(str, e)
    BY StreamStep DEF IInv
  <2>5. QED
    BY <2>1, <2>2, <2>3, <2>4
<1>5. ASSUME NEW p \in Producers, NEW x \in sending'[p]
      PROVE  x[2] \in joined' /\ since'[x[2]] < x[1]
  <2>1. CASE x \in sending[p]
    <3>1. x[2] \in joined /\ since[x[2]] < x[1] /\ x[2] \in Subscribers
      BY <1>2, <1>3, <2>1
    <3>2. QED
      BY <1>1, <3>1
  <2>2. CASE x[1] = N + 1 /\ x[2] \in subs
    <3>1. x[2] \in Subscribers /\ since'[x[2]] = since[x[2]]
      BY <1>1, <1>2, <2>2
    <3>2. since[x[2]] <= N /\ since[x[2]] \in Nat
      BY <1>2, <1>3, <3>1
    <3> HIDE DEF N
    <3>3. QED
      BY <1>1, <1>2, <2>2, <3>1, <3>2
  <2>3. QED
    BY <1>1, <2>1, <2>2
<1>6. QED
    BY <1>4, <1>5 DEF SentIsNew

\* An entry that is settled stays so: a send puts it into the stream or drops
\* it, and a panic ends the sends of its producer alone.
LEMMA StaysSettled ==
    ASSUME IInv, [Next]_vars, NEW s \in Subscribers, NEW e \in 1..Len(hist), Settled(s, e)
    PROVE  Settled(s, e)'
<1>1. /\ sending \in [Producers -> SUBSET (Entries \X Subscribers)]
      /\ dropped \in [Subscribers -> SUBSET Entries]
    BY DEF IInv, TypeOK
<1>2. hist'[e] = hist[e]
    BY HistoryStep DEF IInv
<1>3. ASSUME NEW i \in DOMAIN Stream(s), Stream(s)[i] = e
      PROVE  \E j \in DOMAIN Stream(s)' : Stream(s)'[j] = e
  <2>1. /\ Stream(s) \in Seq(Entries) /\ DOMAIN Stream(s) = 1..Len(Stream(s))
        /\ Len(Stream(s)) \in Nat
    BY StreamType, LenProperties DEF IInv
  <2>2. Stream(s)' = Stream(s) \/ \E d \in Entries : Stream(s)' = Append(Stream(s), d)
    BY StreamStep DEF IInv
  <2>3. i \in DOMAIN Stream(s)' /\ Stream(s)'[i] = e
    BY <1>3, <2>1, <2>2, AppendProperties
  <2>4. QED
    BY <2>3
<1>4. ASSUME e \in dropped[s] PROVE e \in dropped'[s]
  <2>1. \/ dropped' = dropped
        \/ \E d \in Entries, r \in Subscribers : dropped' = [dropped EXCEPT ![r] = @ \cup {d}]
    BY DEF Next, vars, channels, AppendLocked, Send, Offer, SendPanics, Subscribe,
           Unsubscribe, Receive
  <2>2. QED
    BY <1>1, <1>4, <2>1
<1>5. ASSUME hist[e] \in panicked PROVE hist'[e] \in panicked'
  <2>1. UNCHANGED panicked \/ \E p \in Producers : SendPanics(p)
    BY DEF Next, vars, AppendLocked, Send, Subscribe, Unsubscribe, Receive
  <2>2. panicked \subseteq panicked'
    BY <2>1 DEF SendPanics
  <2>3. QED
    BY <1>2, <1>5, <2>2
<1>6. ASSUME NEW p \in Producers, <<e, s>> \in sending[p]
      PROVE  \/ \E j \in DOMAIN Stream(s)' : Stream(s)'[j] = e
             \/ e \in dropped'[s]
             \/ <<e, s>> \in sending'[p]
             \/ hist'[e] \in panicked'
  <2>1. hist[e] = p
    BY <1>6 DEF IInv, OneEntryAtATime
  <2>2. ASSUME NEW q \in Producers, AppendLocked(q) PROVE <<e, s>> \in sending'[p]
    BY <1>1, <1>6, <2>2 DEF AppendLocked
  <2>3. ASSUME NEW q \in Producers, SendPanics(q)
        PROVE  <<e, s>> \in sending'[p] \/ hist'[e] \in panicked'
    <3>1. /\ sending' = [sending EXCEPT ![q] = {}]
          /\ panicked' = panicked \cup {q}
      BY <2>3 DEF SendPanics
    <3>2. QED
      BY <1>1, <1>2, <1>6, <2>1, <3>1
  <2>4. ASSUME NEW q \in Producers, Send(q)
        PROVE  \/ \E j \in DOMAIN Stream(s)' : Stream(s)'[j] = e
               \/ e \in dropped'[s]
               \/ <<e, s>> \in sending'[p]
    <3>1. PICK d \in Entries, t \in Subscribers \ closed :
              /\ <<d, t>> \in sending[q] /\ Offer(t, d) /\ UNCHANGED got
              /\ sending' = [sending EXCEPT ![q] = @ \ {<<d, t>>}]
      BY <2>4 DEF Send
    <3>2. CASE q # p \/ d # e \/ t # s
      <4>1. <<e, s>> # <<d, t>> \/ q # p
        BY <3>2
      <4>2. QED
        BY <1>1, <1>6, <3>1, <4>1
    <3>3. CASE d = e /\ t = s /\ Len(chan[t]) < ChanCap
      <4>1. Stream(s)' = Append(Stream(s), e)
        BY <3>1, <3>3, OfferStep DEF IInv
      <4>2. Stream(s) \in Seq(Entries) /\ e \in Entries
        BY <3>1, <3>3, StreamType DEF IInv
      <4>3. /\ DOMAIN Append(Stream(s), e) = 1..(Len(Stream(s)) + 1)
            /\ Append(Stream(s), e)[Len(Stream(s)) + 1] = e
            /\ Len(Stream(s)) \in Nat
        BY <4>2, AppendProperties, LenProperties
      <4>4. QED
        BY <4>1, <4>3
    <3>4. CASE t = s /\ d = e /\ ~(Len(chan[t]) < ChanCap)
      BY <1>1, <3>1, <3>4 DEF Offer
    <3>5. QED
      BY <3>2, <3>3, <3>4
  <2>5. ASSUME NEW t \in Subscribers, Subscribe(t) \/ Unsubscribe(t) \/ Receive(t)
        PROVE  <<e, s>> \in sending'[p]
    BY <1>6, <2>5 DEF Subscribe, Unsubscribe, Receive
  <2>6. CASE UNCHANGED vars
    BY <1>6, <2>6 DEF vars
  <2>7. QED
    BY <2>2, <2>3, <2>4, <2>5, <2>6 DEF Next
<1>7. QED
    BY <1>3, <1>4, <1>5, <1>6 DEF Settled

\* An append leaves its entry to be sent to all who have joined, and who joins
\* has missed nothing yet.
LEMMA StepTailIsWhole == IInv /\ TailIsWhole /\ [Next]_vars => TailIsWhole'
<1> SUFFICES ASSUME IInv, TailIsWhole, [Next]_vars,
                    NEW s \in subs', NEW e \in (since'[s] + 1)..Len(hist')
             PROVE  Settled(s, e)'
    BY DEF TailIsWhole
<1>1. /\ Len(hist) \in Nat /\ subs \subseteq Subscribers /\ hist \in Seq(Producers)
      /\ since \in [Subscribers -> 0..MaxEntries]
      /\ sending \in [Producers -> SUBSET (Entries \X Subscribers)]
    BY DEF IInv, TypeOK
<1>2. ASSUME s \in subs, since'[s] = since[s], hist' = hist
      PROVE  Settled(s, e)'
  <2>1. e \in (since[s] + 1)..Len(hist) /\ e \in 1..Len(hist) /\ s \in Subscribers
    BY <1>1, <1>2
  <2>2. Settled(s, e)
    BY <1>2, <2>1 DEF TailIsWhole
  <2>3. QED
    BY <2>1, <2>2, StaysSettled
<1>3. ASSUME NEW p \in Producers, AppendLocked(p) PROVE Settled(s, e)'
  <2>1. /\ subs' = subs /\ since' = since /\ Len(hist') = Len(hist) + 1
        /\ sending' = [sending EXCEPT ![p] = @ \cup ({Len(hist) + 1} \X subs)]
    BY <1>1, <1>3, AppendProperties DEF AppendLocked
  <2>2. CASE e = Len(hist) + 1
    <3>1. <<e, s>> \in sending'[p]
      BY <1>1, <2>1, <2>2
    <3>2. QED
      BY <3>1 DEF Settled
  <2>3. CASE e # Len(hist) + 1
    <3>1. s \in Subscribers /\ e \in (since[s] + 1)..Len(hist) /\ e \in 1..Len(hist)
      BY <1>1, <2>1, <2>3
    <3>2. Settled(s, e)
      BY <2>1, <3>1 DEF TailIsWhole
    <3>3. QED
      BY <3>1, <3>2, StaysSettled
  <2>4. QED
    BY <2>2, <2>3
<1>4. ASSUME NEW p \in Producers, Send(p) \/ SendPanics(p) PROVE Settled(s, e)'
    BY <1>2, <1>4 DEF Send, SendPanics, ring
<1>5. ASSUME NEW t \in Subscribers, Subscribe(t) PROVE Settled(s, e)'
  <2>1. /\ subs' = subs \cup {t} /\ since' = [since EXCEPT ![t] = Len(hist)] /\ hist' = hist
        /\ t \notin subs
    BY <1>5 DEF Subscribe, ring
  <2>2. CASE s = t
    BY <1>1, <2>1, <2>2
  <2>3. CASE s # t
    BY <1>1, <1>2, <2>1, <2>3
  <2>4. QED
    BY <2>2, <2>3
<1>6. ASSUME NEW t \in Subscribers, Unsubscribe(t) \/ Receive(t) PROVE Settled(s, e)'
    BY <1>2, <1>6 DEF Unsubscribe, Receive, ring
<1>7. CASE UNCHANGED vars
    BY <1>2, <1>7 DEF vars, ring
<1>8. QED
    BY <1>3, <1>4, <1>5, <1>6, <1>7 DEF Next

\* Every handler does its steps in their order, and its replay, taken first, is a
\* window of the history that ends before it joined.
LEMMA StepHandlers ==
    StreamIInv /\ [StreamNext]_streamVars
        => StreamTypeOK' /\ StepOfHandler' /\ ReplayIsOlder'
<1> SUFFICES ASSUME StreamIInv, [StreamNext]_streamVars
             PROVE  StreamTypeOK' /\ StepOfHandler' /\ ReplayIsOlder'
    OBVIOUS
<1> DEFINE N == Len(hist)
           Typed == /\ at' \in [Subscribers -> 0..3] /\ hungUp' \subseteq Subscribers
                    /\ replayed' \in [Subscribers -> Seq(Entries)]
                    /\ \A s \in Subscribers : Len(replayed'[s]) <= ReplayLimit
                    /\ asOf' \in [Subscribers -> 0..MaxEntries]
<1>1. [Next]_vars
    BY StreamStepIsRingStep
<1>2. TypeOK' /\ N <= Len(hist') /\ N \in 0..MaxEntries /\ Len(hist') \in Nat
  <2>1. TypeOK' /\ N <= Len(hist')
    BY <1>1, StepTypeOK, HistoryStep DEF StreamIInv, IInv
  <2>2. QED
    BY <2>1, MaxEntriesAssumption DEF StreamIInv, IInv, TypeOK
<1>3. /\ at \in [Subscribers -> 0..3] /\ hungUp \subseteq Subscribers
      /\ replayed \in [Subscribers -> Seq(Entries)]
      /\ \A s \in Subscribers : Len(replayed[s]) <= ReplayLimit
      /\ asOf \in [Subscribers -> 0..MaxEntries]
      /\ since \in [Subscribers -> 0..MaxEntries]
    BY DEF StreamIInv, StreamTypeOK, TypeOK
<1>4. \A s \in Subscribers :
        /\ Doing(s, "replay") <=> at[s] = 1
        /\ Doing(s, "subscribe") <=> at[s] = 2
        /\ Doing(s, "forward") <=> at[s] = 3
    BY <1>3 DEF Doing, Order
<1>5. ASSUME UNCHANGED <<at, replayed, asOf>>, hungUp' \subseteq Subscribers,
             UNCHANGED <<subs, closed, since>>
      PROVE  Typed /\ StepOfHandler' /\ ReplayIsOlder'
  <2>1. StepOfHandler'
    BY <1>5 DEF StreamIInv, StepOfHandler
  <2>2. ReplayIsOlder'
    BY <1>2, <1>3, <1>5 DEF StreamIInv, ReplayIsOlder
  <2>3. QED
    BY <1>3, <1>5, <2>1, <2>2
<1>6. ASSUME NEW s \in Subscribers, Replay(s) PROVE Typed /\ StepOfHandler' /\ ReplayIsOlder'
  <2> DEFINE n == SnapshotSize(ReplayLimit)
  <2>1. /\ replayed' = [replayed EXCEPT ![s] = Snapshot(ReplayLimit)]
        /\ asOf' = [asOf EXCEPT ![s] = N]
        /\ at[s] = 1 /\ at' = [at EXCEPT ![s] = 2]
        /\ UNCHANGED <<subs, closed, since, hist, hungUp>>
    <3>1. at[s] = 1 /\ at' = [at EXCEPT ![s] = @ + 1]
      BY <1>4, <1>6 DEF Replay
    <3>2. at' = [at EXCEPT ![s] = 2]
      BY <3>1
    <3>3. QED
      BY <1>6, <3>1, <3>2 DEF Replay, vars, ring, channels
  <2>2. /\ n \in 0..N /\ n <= ReplayLimit
        /\ Snapshot(ReplayLimit) = Window(n, N)
    <3>1. n \in 0..size /\ Snapshot(ReplayLimit) = [i \in 1..n |-> N - n + i]
      BY SnapshotValue, ReplayLimitAssumption DEF StreamIInv, IInv
    <3>2. size \in Nat /\ size <= N
      BY CapacityAssumption DEF StreamIInv, IInv, TypeOK, Layout
    <3>3. n <= ReplayLimit
      BY <3>2, ReplayLimitAssumption DEF SnapshotSize
    <3> HIDE DEF n
    <3>4. QED
      BY <1>2, <3>1, <3>2, <3>3 DEF Window
  <2> HIDE DEF n
  <2>3. Window(n, N) \in Seq(Entries) /\ Len(Window(n, N)) = n
    <3>1. \A i \in 1..n : N - n + i \in Entries
      BY <1>2, <2>2, MaxEntriesAssumption DEF Entries
    <3>2. QED
      BY <2>2, <3>1 DEF Window
  <2> HIDE DEF N
  <2>4. Typed
    BY <1>2, <1>3, <2>1, <2>2, <2>3
  <2>5. StepOfHandler'
    BY <1>3, <2>1 DEF StreamIInv, StepOfHandler
  <2>6. s \notin subs \cup closed
    BY <2>1 DEF StreamIInv, StepOfHandler
  <2>7. ASSUME NEW t \in Subscribers
        PROVE  /\ \E k \in 0..asOf'[t] : replayed'[t] = Window(k, asOf'[t])
               /\ asOf'[t] <= N
               /\ t \in subs \cup closed => asOf'[t] <= since[t]
    <3>1. CASE t = s
      BY <1>2, <1>3, <2>1, <2>2, <2>6, <3>1
    <3>2. CASE t # s
      BY <1>3, <2>1, <3>2 DEF StreamIInv, ReplayIsOlder, N
    <3>3. QED
      BY <3>1, <3>2
  <2>8. ReplayIsOlder'
    BY <2>1, <2>7 DEF ReplayIsOlder, N
  <2>9. QED
    BY <2>4, <2>5, <2>8
<1>7. ASSUME NEW s \in Subscribers, StartTail(s) PROVE Typed /\ StepOfHandler' /\ ReplayIsOlder'
  <2>1. /\ subs' = subs \cup {s} /\ since' = [since EXCEPT ![s] = N]
        /\ at[s] = 2 /\ at' = [at EXCEPT ![s] = 3]
        /\ UNCHANGED <<closed, hist, hungUp, replayed, asOf>>
    <3>1. at[s] = 2 /\ at' = [at EXCEPT ![s] = @ + 1]
      BY <1>4, <1>7 DEF StartTail
    <3>2. at' = [at EXCEPT ![s] = 3]
      BY <3>1
    <3>3. QED
      BY <1>7, <3>1, <3>2 DEF StartTail, Subscribe, ring, channels
  <2>2. Typed
    BY <1>3, <2>1
  <2>3. StepOfHandler'
    BY <1>3, <2>1 DEF StreamIInv, StepOfHandler
  <2>4. ReplayIsOlder'
    BY <1>3, <2>1 DEF StreamIInv, ReplayIsOlder
  <2>5. QED
    BY <2>2, <2>3, <2>4
<1>8. ASSUME NEW s \in Subscribers, Leave(s) PROVE Typed /\ StepOfHandler' /\ ReplayIsOlder'
  <2>1. /\ s \in subs /\ subs' = subs \ {s} /\ closed' = closed \cup {s}
        /\ at[s] = 3 /\ at' = [at EXCEPT ![s] = 0]
        /\ UNCHANGED <<since, hist, hungUp, replayed, asOf>>
    BY <1>3, <1>4, <1>8 DEF Leave, Unsubscribe, ring
  <2>2. Typed
    BY <1>3, <2>1
  <2>3. StepOfHandler'
    BY <1>3, <2>1 DEF StreamIInv, StepOfHandler
  <2>4. ReplayIsOlder'
    BY <1>3, <2>1 DEF StreamIInv, ReplayIsOlder
  <2>5. QED
    BY <2>2, <2>3, <2>4
<1>9. \/ /\ UNCHANGED <<at, replayed, asOf>> /\ hungUp' \subseteq Subscribers
         /\ UNCHANGED <<subs, closed, since>>
      \/ \E s \in Subscribers : Replay(s) \/ StartTail(s) \/ Leave(s)
  <2>1. ASSUME NEW p \in Producers, AppendLocked(p) \/ Send(p) \/ SendPanics(p), UNCHANGED handlers
        PROVE  /\ UNCHANGED <<at, replayed, asOf, hungUp>>
               /\ UNCHANGED <<subs, closed, since>>
    BY <2>1 DEF AppendLocked, Send, SendPanics, handlers, channels
  <2>2. ASSUME NEW s \in Subscribers, ForwardEntry(s) \/ HangUp(s)
        PROVE  /\ UNCHANGED <<at, replayed, asOf, subs, closed, since>>
               /\ hungUp' \subseteq Subscribers
    BY <1>3, <2>2 DEF ForwardEntry, Receive, HangUp, handlers, vars, channels
  <2>3. QED
    BY <1>3, <2>1, <2>2 DEF StreamNext, streamVars, handlers, vars, channels
<1>10. Typed /\ StepOfHandler' /\ ReplayIsOlder'
    BY <1>5, <1>6, <1>7, <1>8, <1>9
<1>11. subs' \subseteq {s \in Subscribers : at'[s] \in 2..3}
    BY <1>2, <1>10 DEF StepOfHandler, TypeOK
<1>12. QED
    BY <1>2, <1>10, <1>11 DEF StreamTypeOK

-----------------------------------------------------------------------------
(***************************************************************************)
(* What a client is shown.                                                 *)
(***************************************************************************)

\* The inductive invariant holds in every reachable state.
THEOREM StreamInvariance == StreamSpec => []StreamIInv
<1>1. StreamInit => StreamIInv
  <2> SUFFICES ASSUME StreamInit PROVE StreamIInv
    OBVIOUS
  <2>1. IInv /\ \A s \in Subscribers : Stream(s) = <<>>
    BY InitIInv DEF StreamInit, Init, Stream
  <2>2. StreamTypeOK
    BY <2>1, ReplayLimitAssumption, MaxEntriesAssumption DEF StreamInit, StreamTypeOK, IInv, Init
  <2>3. SentIsNew /\ TailIsWhole /\ StepOfHandler
    BY <2>1 DEF StreamInit, Init, SentIsNew, TailIsWhole, StepOfHandler
  <2>4. ReplayIsOlder
    BY DEF StreamInit, Init, ReplayIsOlder, Window
  <2>5. QED
    BY <2>1, <2>2, <2>3, <2>4 DEF StreamIInv
<1>2. StreamIInv /\ [StreamNext]_streamVars => StreamIInv'
    BY StreamStepIsRingStep, StepIInv, StepSentIsNew, StepTailIsWhole, StepHandlers DEF StreamIInv
<1>3. QED
    BY <1>1, <1>2, PTL DEF StreamSpec

\* No client is shown an entry twice, or an entry of the tail that is older than
\* its replay.
THEOREM NeverTwice == StreamSpec => []NothingTwice
<1>1. StreamIInv => NothingTwice
  <2> SUFFICES ASSUME StreamIInv, NEW s \in Subscribers
               PROVE  /\ IsInjective(Shown(s))
                      /\ \A i \in DOMAIN replayed[s], j \in DOMAIN Stream(s) :
                            replayed[s][i] < Stream(s)[j]
    BY DEF NothingTwice
  <2> DEFINE rep == replayed[s]
             str == Stream(s)
             k == Len(rep)
  <2>1. /\ rep \in Seq(Entries) /\ DOMAIN rep = 1..k /\ k \in Nat
        /\ str \in Seq(Entries) /\ DOMAIN str = 1..Len(str) /\ Len(str) \in Nat
    BY StreamType, LenProperties DEF StreamIInv, IInv, StreamTypeOK
  <2>2. asOf[s] \in Nat /\ since[s] \in Nat
    BY DEF StreamIInv, StreamTypeOK, TypeOK
  <2>3. \A i \in 1..k : rep[i] = asOf[s] - k + i
    <3>1. PICK n \in 0..asOf[s] : rep = Window(n, asOf[s])
      BY DEF StreamIInv, ReplayIsOlder
    <3>2. k = n /\ \A i \in 1..n : rep[i] = asOf[s] - n + i
      BY <2>2, <3>1 DEF Window
    <3> HIDE DEF rep, k
    <3>3. QED
      BY <3>2
  <2>4. \A j \in 1..Len(str) : asOf[s] < str[j] /\ str[j] \in Nat
    <3>1. \A j \in DOMAIN str : s \in subs \cup closed /\ since[s] < str[j] /\ str[j] \in Nat
      BY <2>1, MaxEntriesAssumption DEF StreamIInv, SentIsNew, Entries
    <3>2. s \in subs \cup closed => asOf[s] <= since[s]
      BY DEF StreamIInv, ReplayIsOlder
    <3> HIDE DEF str
    <3>3. QED
      BY <2>1, <2>2, <3>1, <3>2
  <2>5. \A i, j \in 1..Len(str) : str[i] = str[j] => i = j
    <3>1. \A j \in DOMAIN str : str[j] \in Int
      BY <2>4
    <3>2. \A i, j \in DOMAIN str : i < j /\ hist[str[i]] = hist[str[j]] => str[i] < str[j]
      BY DEF StreamIInv, IInv, StreamKeepsProducerOrder
    <3> HIDE DEF str
    <3>3. QED
      BY <2>1, <3>1, <3>2
  <2>6. /\ DOMAIN Shown(s) = 1..(k + Len(str))
        /\ \A i \in 1..(k + Len(str)) : Shown(s)[i] = IF i <= k THEN rep[i] ELSE str[i - k]
    BY <2>1, ConcatProperties, LenProperties DEF Shown
  <2> HIDE DEF rep, str, k
  <2>7. \A i \in 1..k, j \in 1..Len(str) : rep[i] < str[j] /\ rep[i] \in Int
    <3>1. \A i \in 1..k : rep[i] <= asOf[s] /\ rep[i] \in Int
      BY <2>1, <2>2, <2>3
    <3>2. QED
      BY <2>2, <2>4, <3>1
  <2>8. ASSUME NEW a \in DOMAIN Shown(s), NEW b \in DOMAIN Shown(s), Shown(s)[a] = Shown(s)[b]
        PROVE  a = b
    <3>1. CASE a <= k /\ b <= k
      BY <2>1, <2>2, <2>3, <2>6, <2>8, <3>1
    <3>2. CASE a > k /\ b > k
      <4>1. a - k \in 1..Len(str) /\ b - k \in 1..Len(str) /\ str[a - k] = str[b - k]
        BY <2>1, <2>6, <2>8, <3>2
      <4>2. a - k = b - k
        BY <2>5, <4>1
      <4>3. QED
        BY <2>1, <2>6, <4>2
    <3>3. CASE a <= k /\ b > k
      <4>1. a \in 1..k /\ b - k \in 1..Len(str) /\ rep[a] = str[b - k]
        BY <2>1, <2>6, <2>8, <3>3
      <4>2. QED
        BY <2>4, <2>7, <4>1
    <3>4. CASE b <= k /\ a > k
      <4>1. b \in 1..k /\ a - k \in 1..Len(str) /\ rep[b] = str[a - k]
        BY <2>1, <2>6, <2>8, <3>4
      <4>2. QED
        BY <2>4, <2>7, <4>1
    <3>5. QED
      BY <2>1, <2>6, <3>1, <3>2, <3>3, <3>4
  <2>9. QED
    BY <2>1, <2>7, <2>8 DEF IsInjective, rep, str
<1>2. QED
    BY <1>1, StreamInvariance, PTL

\* All that a client misses after its replay was logged before it joined, or was
\* lost to its own full channel or to the panic of a producer.
THEOREM GapBeforeTail == StreamSpec => []GapOnlyAtJoin
<1>1. StreamIInv => GapOnlyAtJoin
  <2> SUFFICES ASSUME StreamIInv, NEW s \in subs
               PROVE  /\ \A i \in DOMAIN replayed[s] :
                            replayed[s][i] = asOf[s] - Len(replayed[s]) + i
                      /\ \A e \in (asOf[s] + 1)..Len(hist) :
                            e <= since[s] \/ AccountedFor(s, e)
    BY DEF GapOnlyAtJoin
  <2>1. /\ s \in Subscribers /\ asOf[s] \in Nat /\ since[s] \in Nat /\ Len(hist) \in Nat
        /\ replayed[s] \in Seq(Entries) /\ Stream(s) \in Seq(Entries)
    <3>1. TypeOK /\ StreamTypeOK
      BY DEF StreamIInv, IInv
    <3>2. s \in Subscribers
      BY <3>1 DEF TypeOK
    <3>3. replayed[s] \in Seq(Entries) /\ asOf[s] \in 0..MaxEntries
      BY <3>1, <3>2 DEF StreamTypeOK
    <3>4. since[s] \in Nat /\ Len(hist) \in Nat
      BY <3>1, <3>2, LenProperties DEF TypeOK
    <3>5. Stream(s) \in Seq(Entries)
      BY <3>1, <3>2, StreamType
    <3>6. QED
      BY <3>2, <3>3, <3>4, <3>5
  <2>2. \A i \in DOMAIN replayed[s] : replayed[s][i] = asOf[s] - Len(replayed[s]) + i
    <3>1. PICK n \in 0..asOf[s] : replayed[s] = Window(n, asOf[s])
      BY <2>1 DEF StreamIInv, ReplayIsOlder
    <3>2. /\ Len(replayed[s]) = n /\ DOMAIN replayed[s] = 1..n
          /\ \A i \in 1..n : replayed[s][i] = asOf[s] - n + i
      BY <2>1, <3>1 DEF Window
    <3>3. QED
      BY <3>2
  <2>3. ASSUME NEW e \in (asOf[s] + 1)..Len(hist), ~(e <= since[s])
        PROVE  AccountedFor(s, e)
    <3>1. Settled(s, e)
      BY <2>1, <2>3 DEF StreamIInv, TailIsWhole
    <3>2. ASSUME NEW i \in DOMAIN Stream(s), Stream(s)[i] = e
          PROVE  e \in Range(Shown(s))
      <4> DEFINE k == Len(replayed[s])
      <4>1. i \in 1..Len(Stream(s)) /\ Len(Stream(s)) \in Nat /\ k \in Nat
        BY <2>1, <3>2, LenProperties
      <4>2. /\ k + i \in DOMAIN Shown(s)
            /\ Shown(s)[k + i] = Stream(s)[i]
        <5>1. /\ DOMAIN Shown(s) = 1..(k + Len(Stream(s)))
              /\ \A j \in 1..(k + Len(Stream(s))) :
                    Shown(s)[j] = IF j <= k THEN replayed[s][j] ELSE Stream(s)[j - k]
          BY <2>1, ConcatProperties, LenProperties DEF Shown
        <5> HIDE DEF k
        <5>2. k + i \in 1..(k + Len(Stream(s))) /\ ~(k + i <= k) /\ (k + i) - k = i
          BY <4>1
        <5>3. QED
          BY <5>1, <5>2
      <4>3. QED
        BY <3>2, <4>2 DEF Range
    <3>3. QED
      BY <3>1, <3>2 DEF Settled, AccountedFor
  <2>4. QED
    BY <2>2, <2>3
<1>2. QED
    BY <1>1, StreamInvariance, PTL
=============================================================================
