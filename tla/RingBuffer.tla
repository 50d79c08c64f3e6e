----------------------------- MODULE RingBuffer -----------------------------
(***************************************************************************)
(* internal/logging/ringbuffer.go: the ring of log entries with its live   *)
(* tailers. Producers are the goroutines that log (runners, the drains of  *)
(* kubectl's output, proxy handlers); subscribers are the streaming        *)
(* handlers of the control server.                                         *)
(*                                                                         *)
(* Append writes the ring under the lock, but sends to the channels it     *)
(* copied after the unlock: every send is a step of its own, and           *)
(* unsubscribing may close a channel in between. An entry is its number in *)
(* the order of the critical sections; what it says is left out.           *)
(***************************************************************************)
EXTENDS Naturals, Sequences, FiniteSets, SequencesExt

CONSTANTS
    Producers,
    Subscribers,    \* one per call of Subscribe
    Capacity,       \* capacity of the ring, after NewRingBuffer's default
    ChanCap,        \* capacity of a subscriber's channel (64)
    MaxEntries      \* bound: entries appended in one behaviour

ASSUME CapacityAssumption == Capacity \in Nat \ {0}
ASSUME ChanCapAssumption == ChanCap \in Nat \ {0}
ASSUME MaxEntriesAssumption == MaxEntries \in Nat

VARIABLES
    entries,    \* the slots 0..Capacity-1, 0 in a slot never written
    start,      \* index of the oldest entry
    size,
    subs,       \* the subscribers in r.subs
    chan,       \* what is buffered in each subscriber's channel
    closed,     \* the subscribers whose channel is closed
    sending,    \* per producer: the sends left of its Append, <<entry, to>>
    panicked,   \* the producers a send on a closed channel has unwound
    hist,       \* history: the producer of every entry appended
    since,      \* history: the entries there were when a subscriber joined
    got,        \* history: what a subscriber received
    dropped     \* history: the entries a full channel did not take

ring == <<entries, start, size, hist>>
channels == <<chan, closed, got, dropped>>
vars == <<ring, channels, subs, since, sending, panicked>>

Entries == 1..MaxEntries

TypeOK ==
    /\ entries \in [0..(Capacity - 1) -> 0..MaxEntries]
    /\ start \in 0..(Capacity - 1)
    /\ size \in 0..Capacity
    /\ subs \subseteq Subscribers
    /\ chan \in [Subscribers -> Seq(Entries)]
    /\ \A s \in Subscribers : Len(chan[s]) <= ChanCap
    /\ closed \subseteq Subscribers \ subs
    /\ sending \in [Producers -> SUBSET (Entries \X Subscribers)]
    /\ panicked \subseteq Producers
    /\ hist \in Seq(Producers) /\ Len(hist) <= MaxEntries
    /\ since \in [Subscribers -> 0..MaxEntries]
    /\ got \in [Subscribers -> Seq(Entries)]
    /\ dropped \in [Subscribers -> SUBSET Entries]

Init ==
    /\ entries = [i \in 0..(Capacity - 1) |-> 0]
    /\ start = 0
    /\ size = 0
    /\ subs = {}
    /\ chan = [s \in Subscribers |-> <<>>]
    /\ closed = {}
    /\ sending = [p \in Producers |-> {}]
    /\ panicked = {}
    /\ hist = <<>>
    /\ since = [s \in Subscribers |-> 0]
    /\ got = [s \in Subscribers |-> <<>>]
    /\ dropped = [s \in Subscribers |-> {}]

-----------------------------------------------------------------------------

\* Wrong: a full ring overwrites the oldest slot but still calls it the oldest.
WriteKeepsStart(e) ==
    /\ entries' = [entries EXCEPT ![(start + size) % Capacity] = e]
    /\ size' = IF size < Capacity THEN size + 1 ELSE size
    /\ start' = start

\* The critical section of Append on the ring proper. In a full ring the slot
\* after the newest entry is the one of the oldest.
WriteSlot(e) ==
    /\ entries' = [entries EXCEPT ![(start + size) % Capacity] = e]
    /\ IF size < Capacity
          THEN size' = size + 1 /\ start' = start
          ELSE size' = size /\ start' = (start + 1) % Capacity

\* Wrong: the sends are left to other goroutines, so Append returns at once.
MayAppendAgain(p) == p \notin panicked

\* A goroutine appends its next entry once its last Append has returned.
MayAppend(p) == p \notin panicked /\ sending[p] = {}

\* Append up to its unlock, with the channels it copied.
AppendLocked(p) ==
    /\ MayAppend(p)
    /\ Len(hist) < MaxEntries
    /\ WriteSlot(Len(hist) + 1)
    /\ hist' = Append(hist, p)
    /\ sending' = [sending EXCEPT ![p] = @ \cup ({Len(hist) + 1} \X subs)]
    /\ UNCHANGED <<channels, subs, since, panicked>>

\* Wrong: a send that waits for room in the channel.
OfferBlocking(s, e) ==
    /\ Len(chan[s]) < ChanCap
    /\ chan' = [chan EXCEPT ![s] = Append(@, e)]
    /\ UNCHANGED dropped

\* Wrong: room is made by dropping what is buffered already.
OfferEvicting(s, e) ==
    /\ chan' = [chan EXCEPT ![s] = Append(IF Len(@) < ChanCap THEN @ ELSE Tail(@), e)]
    /\ UNCHANGED dropped

\* The non-blocking send: a full channel drops the new entry.
Offer(s, e) ==
    IF Len(chan[s]) < ChanCap
    THEN chan' = [chan EXCEPT ![s] = Append(@, e)] /\ UNCHANGED dropped
    ELSE dropped' = [dropped EXCEPT ![s] = @ \cup {e}] /\ UNCHANGED chan

\* One of the producer's remaining sends; Append returns after the last.
Send(p) ==
    \E e \in Entries, s \in Subscribers \ closed :
        /\ <<e, s>> \in sending[p]
        /\ Offer(s, e)
        /\ sending' = [sending EXCEPT ![p] = @ \ {<<e, s>>}]
        /\ UNCHANGED <<ring, closed, got, subs, since, panicked>>

\* Go panics on a send to a closed channel, also in a select with a default;
\* the panic unwinds Append and whatever the goroutine was doing.
SendPanics(p) ==
    /\ \E e \in Entries, s \in closed : <<e, s>> \in sending[p]
    /\ panicked' = panicked \cup {p}
    /\ sending' = [sending EXCEPT ![p] = {}]
    /\ UNCHANGED <<ring, channels, subs, since>>

\* An identifier is handed out once, so a subscriber subscribes once.
Subscribe(s) ==
    /\ s \notin subs \cup closed
    /\ subs' = subs \cup {s}
    /\ since' = [since EXCEPT ![s] = Len(hist)]
    /\ UNCHANGED <<ring, channels, sending, panicked>>

Unsubscribe(s) ==
    /\ s \in subs
    /\ subs' = subs \ {s}
    /\ closed' = closed \cup {s}
    /\ UNCHANGED <<ring, chan, got, dropped, since, sending, panicked>>

\* What is buffered can be received after the close, too.
Receive(s) ==
    /\ chan[s] # <<>>
    /\ got' = [got EXCEPT ![s] = Append(@, Head(chan[s]))]
    /\ chan' = [chan EXCEPT ![s] = Tail(@)]
    /\ UNCHANGED <<ring, closed, dropped, subs, since, sending, panicked>>

Next ==
    \/ \E p \in Producers : AppendLocked(p) \/ Send(p) \/ SendPanics(p)
    \/ \E s \in Subscribers : Subscribe(s) \/ Unsubscribe(s) \/ Receive(s)

Spec == Init /\ [][Next]_vars

-----------------------------------------------------------------------------
(***************************************************************************)
(* Properties.                                                             *)
(***************************************************************************)

\* Snapshot(limit): the limit most recent entries, oldest first, all of them if
\* limit is 0 or exceeds the size.
SnapshotSize(limit) == IF limit > 0 /\ limit < size THEN limit ELSE size

Snapshot(limit) ==
    LET n == SnapshotSize(limit)
        begin == (start + size - n + Capacity) % Capacity
    IN  [i \in 1..n |-> entries[(begin + i - 1) % Capacity]]

\* The end of a stream a subscriber has seen: received, then still buffered.
Stream(s) == got[s] \o chan[s]

\* A snapshot of any length is the end of the history without a gap, also after
\* the ring has wrapped around: /logs shows the latest entries and no others.
SnapshotIsLatest ==
    \A limit \in 0..(Capacity + 1) :
        LET snap == Snapshot(limit) IN
        /\ Len(snap) = IF limit = 0 \/ limit > size THEN size ELSE limit
        /\ \A i \in DOMAIN snap : snap[i] = Len(hist) - Len(snap) + i

\* The entries of one producer are streamed in the order it logged them. (Those
\* of different producers need not be: the ring has another order then.)
StreamKeepsProducerOrder ==
    \A s \in Subscribers : \A i, j \in DOMAIN Stream(s) :
        i < j /\ hist[Stream(s)[i]] = hist[Stream(s)[j]]
            => Stream(s)[i] < Stream(s)[j]

\* ringbuffer.go:78: "slow consumers will drop events, not block producers".
\* Append ends though no subscriber ever reads.
ProducerNotBlocked ==
    \A p \in Producers : sending[p] # {} ~> sending[p] = {}

\* ringbuffer.go:7: the ring is "goroutine-safe". Logging while a tailer goes
\* away must not blow up the goroutine that logs.
NoSendOnClosed == panicked = {}

Log == INSTANCE BoundedLog WITH log <- Snapshot(0)

\* The slots, the start and the size implement a bounded log of entries.
ImplementsBoundedLog == Log!Spec
=============================================================================
