---------------------------- MODULE LiveUpdates ----------------------------
(***************************************************************************)
(* The live view: after a transaction commits, its transition is published *)
(* to audit.events, if that succeeds; Reporting consumes the topic one     *)
(* message after the other and its hub hands each to the channels of those *)
(* who watch, dropping it where a channel is full.                         *)
(***************************************************************************)
EXTENDS Ledger

CONSTANTS
  Watched,      \* records of the batch that is watched
  Viewers,      \* StreamBatchUpdates calls for it
  BufferSize,   \* subscribeBufferSize
  MaxRestarts   \* bound: ends of the Reporting process

ASSUME LiveAssumption ==
  Watched \subseteq Records /\ BufferSize \in Nat \ {0} /\ MaxRestarts \in Nat

VARIABLES
  writes,    \* transactions of each record so far
  unsent,    \* transitions committed and not published yet
  topic,     \* audit.events, one partition
  position,  \* messages handled by this Reporting process
  committed, \* the group's offset
  viewer,    \* [pc, registered, closed, channel, last, total]
  restarts
liveVars == <<writes, unsent, topic, position, committed, viewer, restarts>>

Away == [pc |-> "away", registered |-> FALSE, closed |-> FALSE,
         channel |-> <<>>, last |-> 0, total |-> 0]

LiveInit ==
  /\ writes = [r \in Watched |-> 0]
  /\ unsent = {} /\ topic = <<>>
  /\ position = 0 /\ committed = 0
  /\ viewer = [v \in Viewers |-> Away]
  /\ restarts = 0

-----------------------------------------------------------------------------
\* Only a recovery moves money.
RecoveredDelta(r, to) == IF to = "RECOVERED" THEN Amount[r] ELSE 0

\* Every transaction but a claim is followed by a publication.  The rows it
\* leaves behind play no part here.
LedgerMoves ==
  /\ \E r \in Watched :
       /\ writes' = [writes EXCEPT ![r] = @ + 1]
       /\ \/ /\ Intake(r) \/ Account(r) \/ Answer(r)
             /\ unsent' = unsent \union
                  {[record |-> r, write |-> writes'[r],
                    delta |-> RecoveredDelta(r, state'[r])]}
          \/ Claim({r}) /\ UNCHANGED unsent
  /\ UNCHANGED <<trail, attempts, topic, position, committed, viewer, restarts>>

\* The pods publish each on its own; a failure is logged and forgotten.
PublishEvent ==
  /\ \E e \in unsent :
       /\ unsent' = unsent \ {e}
       /\ topic' = Append(topic, e) \/ UNCHANGED topic
  /\ UNCHANGED <<ledgerVars, writes, position, committed, viewer, restarts>>

\* Mutant: the hub waits for the slowest viewer.
HubWaits(i) ==
  /\ \A v \in Viewers : viewer[v].registered => Len(viewer[v].channel) < BufferSize
  /\ viewer' = [v \in Viewers |->
       IF viewer[v].registered THEN [viewer[v] EXCEPT !.channel = Append(@, i)]
       ELSE viewer[v]]

\* The hub, under its lock.  A full channel misses this update.
HubPublish(i) ==
  viewer' = [v \in Viewers |->
    IF viewer[v].registered /\ Len(viewer[v].channel) < BufferSize
    THEN [viewer[v] EXCEPT !.channel = Append(@, i)]
    ELSE viewer[v]]

\* HandleMessage, then the commit of its offset, one message at a time.
Handle ==
  /\ position = committed /\ position < Len(topic)
  /\ position' = position + 1
  /\ HubPublish(position + 1)
  /\ UNCHANGED <<ledgerVars, writes, unsent, topic, committed, restarts>>

CommitOffset ==
  /\ committed < position
  /\ committed' = position
  /\ UNCHANGED <<ledgerVars, writes, unsent, topic, position, viewer, restarts>>

\* Reporting ends and comes back: streams end with it, and a message that was
\* handled and not committed is handled again.
RestartReporting ==
  /\ restarts < MaxRestarts
  /\ restarts' = restarts + 1
  /\ position' = committed
  /\ viewer' = [v \in Viewers |-> Away]
  /\ UNCHANGED <<ledgerVars, writes, unsent, topic, committed>>

-----------------------------------------------------------------------------
Set(v, new) == viewer' = [viewer EXCEPT ![v] = new]
RestUnchanged == UNCHANGED <<ledgerVars, writes, unsent, topic, position, committed, restarts>>

Subscribe(v) ==
  /\ viewer[v].pc = "away"
  /\ Set(v, [Away EXCEPT !.pc = "watching", !.registered = TRUE])
  /\ RestUnchanged

\* The stream sends the next update.  A slow client just does not get here.
Relay(v) ==
  /\ viewer[v].pc = "watching" /\ viewer[v].channel # <<>>
  /\ LET i == Head(viewer[v].channel)
     IN  Set(v, [viewer[v] EXCEPT !.channel = Tail(@), !.last = i, !.total = @ + topic[i].delta])
  /\ RestUnchanged

\* Mutant: unsubscribe closes the channel before it is out of the hub.
CloseFirst(v) ==
  /\ RestUnchanged
  /\ \/ /\ viewer[v].pc = "watching"
        /\ Set(v, [viewer[v] EXCEPT !.pc = "leaving", !.closed = TRUE])
     \/ /\ viewer[v].pc = "leaving"
        /\ Set(v, Away)

\* The client leaves.  Unsubscribing takes the channel out of the hub under the
\* lock, and closes it after the unlock.
Unsubscribe(v) ==
  /\ RestUnchanged
  /\ \/ /\ viewer[v].pc = "watching"
        /\ Set(v, [viewer[v] EXCEPT !.pc = "leaving", !.registered = FALSE])
     \/ /\ viewer[v].pc = "leaving"
        /\ Set(v, Away)

LiveNext ==
  \/ LedgerMoves \/ PublishEvent
  \/ Handle \/ CommitOffset \/ RestartReporting
  \/ \E v \in Viewers : Subscribe(v) \/ Relay(v) \/ Unsubscribe(v)

-----------------------------------------------------------------------------
\* publish sends to registered channels: none of them is closed.
SafeSends == \A v \in Viewers : viewer[v].registered => ~viewer[v].closed

Increasing(s) == \A i, j \in DOMAIN s : i < j => s[i] < s[j]
Delta    == [i \in DOMAIN topic |-> topic[i].delta]
Total(v) == viewer[v].total + SumFunctionOnSet(Delta, Range(viewer[v].channel))

InTopicOrder == \A v \in Viewers : Increasing(<<viewer[v].last>> \o viewer[v].channel)
InTheBooks   == \A v \in Viewers : Total(v) <= AmountOf(Recovered)

\* What a stream shows is in the order of the topic and shows nothing twice, and
\* the money it adds up is in the books already.
StreamsAreSound == SafeSends /\ InTopicOrder /\ InTheBooks

\* No viewer, however slow, keeps the updates of the others back.
ConsumerKeepsUp == <>[](position = Len(topic))
=============================================================================
