------------------------------ MODULE LogStream ------------------------------
(***************************************************************************)
(* handleLogsStream of internal/control/server.go over the ring buffer:    *)
(* what a client of /logs/stream is sent. The handler takes a snapshot of  *)
(* the ring and replays it, then subscribes, then forwards its channel     *)
(* until the client hangs up. Each call of the handler is one subscriber;  *)
(* its filter, which applies to both parts alike, is left out.             *)
(***************************************************************************)
EXTENDS RingBuffer

CONSTANT ReplayLimit    \* how much is replayed (100)

ASSUME ReplayLimitAssumption == ReplayLimit \in Nat \ {0}

VARIABLES
    at,         \* per handler: its step, an index of Order, or 0 once returned
    hungUp,     \* the clients whose request context is done
    replayed,   \* history: what the handler replayed
    asOf        \* history: the entries there were at the snapshot

handlers == <<at, hungUp, replayed, asOf>>
streamVars == <<vars, handlers>>

StreamTypeOK ==
    /\ TypeOK
    /\ at \in [Subscribers -> 0..3]
    /\ hungUp \subseteq Subscribers
    /\ replayed \in [Subscribers -> Seq(Entries)]
    /\ \A s \in Subscribers : Len(replayed[s]) <= ReplayLimit
    /\ asOf \in [Subscribers -> 0..MaxEntries]
    /\ subs \subseteq {s \in Subscribers : at[s] \in 2..3}

StreamInit ==
    /\ Init
    /\ at = [s \in Subscribers |-> 1]
    /\ hungUp = {}
    /\ replayed = [s \in Subscribers |-> <<>>]
    /\ asOf = [s \in Subscribers |-> 0]

\* Wrong: subscribing before the replay.
OrderSwapped == <<"subscribe", "replay", "forward">>

\* The steps of the handler.
Order == <<"replay", "subscribe", "forward">>

Doing(s, step) == at[s] # 0 /\ Order[at[s]] = step

Replay(s) ==
    /\ Doing(s, "replay")
    /\ replayed' = [replayed EXCEPT ![s] = Snapshot(ReplayLimit)]
    /\ asOf' = [asOf EXCEPT ![s] = Len(hist)]
    /\ at' = [at EXCEPT ![s] = @ + 1]
    /\ UNCHANGED <<vars, hungUp>>

StartTail(s) ==
    /\ Doing(s, "subscribe")
    /\ Subscribe(s)
    /\ at' = [at EXCEPT ![s] = @ + 1]
    /\ UNCHANGED <<hungUp, replayed, asOf>>

\* An entry is taken from the channel and written to the client.
ForwardEntry(s) ==
    /\ Doing(s, "forward")
    /\ Receive(s)
    /\ UNCHANGED handlers

HangUp(s) ==
    /\ hungUp' = hungUp \cup {s}
    /\ UNCHANGED <<vars, at, replayed, asOf>>

\* Wrong: the handler returns without its deferred unsub.
LeaveSubscribed(s) ==
    /\ Doing(s, "forward") /\ s \in hungUp
    /\ at' = [at EXCEPT ![s] = 0]
    /\ UNCHANGED <<vars, hungUp, replayed, asOf>>

\* Only the loop looks at the request's context.
Leave(s) ==
    /\ Doing(s, "forward") /\ s \in hungUp
    /\ Unsubscribe(s)
    /\ at' = [at EXCEPT ![s] = 0]
    /\ UNCHANGED <<hungUp, replayed, asOf>>

StreamNext ==
    \/ \E p \in Producers :
          (AppendLocked(p) \/ Send(p) \/ SendPanics(p)) /\ UNCHANGED handlers
    \/ \E s \in Subscribers :
          Replay(s) \/ StartTail(s) \/ ForwardEntry(s) \/ HangUp(s) \/ Leave(s)

StreamSpec == StreamInit /\ [][StreamNext]_streamVars

\* A producer inside Append goes on, and so does the handler; its select picks
\* at random, so the done context is not passed over for ever, however many
\* entries there are. Nobody has to read.
StreamFairness ==
    /\ \A p \in Producers :
          WF_streamVars((Send(p) \/ SendPanics(p)) /\ UNCHANGED handlers)
    /\ \A s \in Subscribers :
          WF_streamVars(Replay(s) \/ StartTail(s)) /\ SF_streamVars(Leave(s))

FairStreamSpec == StreamSpec /\ StreamFairness

-----------------------------------------------------------------------------

\* The replay and what follows, as far as the client has read.
Shown(s) == replayed[s] \o Stream(s)

\* An entry is never shown twice, though it may be logged, and still be on its
\* way to other tailers, while the handler goes from the replay to the tail; and
\* nothing of the tail is older than the replay.
NothingTwice ==
    \A s \in Subscribers :
        /\ IsInjective(Shown(s))
        /\ \A i \in DOMAIN replayed[s], j \in DOMAIN Stream(s) :
              replayed[s][i] < Stream(s)[j]

\* The entry is shown, or will be, or the tailer's own full channel or the panic
\* of its producer cost it.
AccountedFor(s, e) ==
    \/ e \in Range(Shown(s)) \cup dropped[s]
    \/ \E p \in Producers : <<e, s>> \in sending[p]
    \/ hist[e] \in panicked

\* The replay ends with the newest entry of its time, and all that a client
\* misses after it was logged between the replay and the subscription.
GapOnlyAtJoin ==
    \A s \in subs :
        /\ \A i \in DOMAIN replayed[s] : replayed[s][i] = asOf[s] - Len(replayed[s]) + i
        /\ \A e \in (asOf[s] + 1)..Len(hist) :
              e <= since[s] \/ AccountedFor(s, e)

\* A handler whose client hung up leaves no subscriber behind, for which every
\* Append would go on sending.
HandlerUnsubscribes ==
    \A s \in Subscribers : s \in hungUp ~> s \notin subs /\ at[s] = 0
=============================================================================
