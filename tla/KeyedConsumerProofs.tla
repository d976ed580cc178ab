------------------------- MODULE KeyedConsumerProofs -------------------------
(***************************************************************************)
(* For any number of members, partitions, workers and records, and any     *)
(* sequence of crashes, rebalances, failed handlers and failed commits: no *)
(* record is skipped and keys stay in order.  While no partition moves     *)
(* between live members, the committed offset follows the tracker.         *)
(***************************************************************************)
EXTENDS KeyedConsumer, TLAPS

(***************************************************************************)
(* The inductive invariant.  Wherever a member may take its next commit    *)
(* from, what lies behind that place has been resolved.                    *)
(***************************************************************************)
Prefix(p, n) == \A o \in Offsets : o < n => o \in resolved[p]
Settled(rec) == rec.offset \in resolved[rec.partition]

CommittedBehind == \A p \in Partitions : Prefix(p, committed[p])
StartBehind ==
  \A m \in Members, p \in Partitions :
    owner[p] = m /\ next[m][p] = Unseen => Prefix(p, position[m][p])
NextBehind   == \A m \in Members, p \in Partitions : Prefix(p, next[m][p])
DoneSettled  == \A m \in Members, p \in Partitions : done[m][p] \subseteq resolved[p]
SendingSettled ==
  \A m \in Members, w \in Workers :
    worker[m][w].phase = "sending" => Settled(worker[m][w].rec)
FinishedSettled ==
  \A m \in Members : \A i \in 1..Len(finished[m]) : Settled(finished[m][i])
CommitBehind ==
  \A m \in Members :
    commit[m] # NoRecord => Prefix(commit[m].partition, commit[m].offset + 1)

KeyedInv ==
  /\ TypeOK
  /\ CommittedBehind /\ StartBehind /\ NextBehind /\ DoneSettled
  /\ SendingSettled /\ FinishedSettled /\ CommitBehind

\* A table after one of its entries is replaced.
LEMMA TableUpdate ==
  ASSUME NEW A, NEW B, NEW T, NEW f \in [A -> [B -> T]],
         NEW a \in A, NEW b \in B, NEW v \in T, NEW g, g = [f EXCEPT ![a][b] = v]
  PROVE  /\ g \in [A -> [B -> T]]
         /\ g[a][b] = v
         /\ \A x \in A, y \in B : x # a \/ y # b => g[x][y] = f[x][y]
  OBVIOUS

Work == [phase : {"handling", "cancelled", "sending"}, rec : Kafka] \union {Idle}
Sent(state) == [state EXCEPT !.phase = "sending"]

\* No record of the log is NoRecord, and an idle worker has none.
LEMMA RealRecords ==
  /\ \A rec \in Kafka : rec # NoRecord /\ rec.partition \in Partitions
                        /\ rec.offset \in Offsets
  /\ \A state \in Work : state # Idle =>
        state.rec \in Kafka /\ state.phase \in {"handling", "cancelled", "sending"}
  /\ Idle.phase = "idle"
<1>1. \A rec \in Kafka : rec.partition \in Partitions /\ rec.offset \in Offsets
  BY DEF Kafka
<1>2. \A o \in Offsets : o # Unseen
  BY KeyedAssumption DEF Offsets, Unseen
<1>3. NoRecord.offset = Unseen
  BY DEF NoRecord
<1>4. \A rec \in Kafka : rec # NoRecord
  BY <1>1, <1>2, <1>3
<1>5. Idle.phase = "idle"
  BY DEF Idle
<1>6. \A state \in Work : state # Idle =>
        state.rec \in Kafka /\ state.phase \in {"handling", "cancelled", "sending"}
  BY DEF Work
<1> QED BY <1>1, <1>4, <1>5, <1>6

LEMMA SentState ==
  ASSUME NEW state \in Work, state.phase = "handling"
  PROVE  Sent(state) \in Work /\ Sent(state).phase = "sending" /\ Sent(state).rec = state.rec
<1>1. state # Idle
  BY RealRecords
<1> QED BY <1>1 DEF Work, Sent

\* Nothing that has been resolved is forgotten.
LEMMA ResolvedGrows ==
  ASSUME TypeOK, Next, NEW p \in Partitions
  PROVE  resolved[p] \subseteq resolved'[p]
<1>1. CASE UNCHANGED resolved
  BY <1>1
<1>2. CASE \E m \in Members, w \in Workers : HandlerReturns(m, w)
  BY <1>2 DEF HandlerReturns, TypeOK
<1> QED
  BY <1>1, <1>2, ZenonT(60)
  DEF Next, Dispatching, Committing, Working, Lifecycle, Assigning, Assign, Rebalance,
      GiveTo, Fetch, HandOver, DropHand, HandlerFails, SendFinished, Complete,
      CommitLands, CommitFails, Cancel, Stop, Crash, Forget, Restart

LEMMA PrefixGrows ==
  ASSUME TypeOK, Next, NEW p \in Partitions, NEW n, Prefix(p, n)
  PROVE  Prefix(p, n)'
  BY ResolvedGrows DEF Prefix, Offsets

(***************************************************************************)
(* Each part of the invariant is kept by a step.                           *)
(***************************************************************************)
LEMMA CommittedStep ==
  ASSUME TypeOK, CommittedBehind, CommitBehind, Next
  PROVE  CommittedBehind'
<1> SUFFICES ASSUME NEW p \in Partitions PROVE Prefix(p, committed[p])'
  BY DEF CommittedBehind
<1>1. CASE committed'[p] = committed[p]
  BY <1>1, PrefixGrows DEF CommittedBehind, Prefix
<1>2. CASE \E m \in Members : commit[m] # NoRecord
                /\ committed' = [committed EXCEPT ![commit[m].partition] =
                                   commit[m].offset + 1]
  <2>1. PICK m \in Members : commit[m] # NoRecord
                /\ committed' = [committed EXCEPT ![commit[m].partition] =
                                   commit[m].offset + 1]
    BY <1>2
  <2>2. commit[m] \in Kafka
    BY <2>1 DEF TypeOK
  <2>3. CASE p = commit[m].partition
    <3>1. committed'[p] = commit[m].offset + 1
      BY <2>1, <2>3 DEF TypeOK
    <3>2. Prefix(p, commit[m].offset + 1)
      BY <2>1, <2>3 DEF CommitBehind
    <3> QED BY <3>1, <3>2, PrefixGrows DEF Prefix
  <2>4. CASE p # commit[m].partition
    BY <1>1, <2>1, <2>4 DEF TypeOK
  <2> QED BY <2>3, <2>4
<1>3. UNCHANGED committed \/ \E m \in Members : CommitLands(m) \/ CommitFails(m)
  BY ZenonT(60)
  DEF Next, Dispatching, Committing, Working, Lifecycle, Assigning, Assign, Rebalance,
      GiveTo, Fetch, HandOver, DropHand, HandlerReturns, HandlerFails, SendFinished,
      Complete, Cancel, Stop, Crash, Forget, Restart, brokerVars
<1> QED BY <1>1, <1>2, <1>3 DEF CommitLands, CommitFails

\* Reading the partition from its committed offset.
LEMMA StartStep ==
  ASSUME TypeOK, CommittedBehind, StartBehind, Next
  PROVE  StartBehind'
<1> SUFFICES ASSUME NEW m \in Members, NEW p \in Partitions,
                    owner'[p] = m, next'[m][p] = Unseen
             PROVE  Prefix(p, position[m][p])'
  BY DEF StartBehind
<1>1. CASE owner[p] = m /\ next[m][p] = Unseen /\ position'[m][p] = position[m][p]
  BY <1>1, PrefixGrows DEF StartBehind, Prefix
<1>2. CASE position'[m][p] = committed[p]
  BY <1>2, PrefixGrows DEF CommittedBehind, Prefix
<1>3. CASE \E q \in Partitions, k \in Members : GiveTo(q, k)
  <2>1. PICK q \in Partitions, k \in Members : GiveTo(q, k)
    BY <1>3
  <2>2. owner' = [owner EXCEPT ![q] = k] /\ UNCHANGED next
        /\ position' = [position EXCEPT ![k][q] = committed[q]]
    BY <2>1 DEF GiveTo, trackerVars
  <2>3. CASE q = p
    <3>1. k = m
      BY <2>2, <2>3 DEF TypeOK
    <3> QED BY <1>2, <2>2, <2>3, <3>1 DEF TypeOK
  <2>4. CASE q # p
    BY <1>1, <2>2, <2>4 DEF TypeOK
  <2> QED BY <2>3, <2>4
<1>4. CASE \E k \in Members, q \in Partitions : Fetch(k, q)
  <2>1. PICK k \in Members, q \in Partitions : Fetch(k, q)
    BY <1>4
  <2>2. /\ position' = [position EXCEPT ![k][q] = position[k][q] + 1]
        /\ next' = [next EXCEPT ![k][q] = IF @ = Unseen THEN position[k][q] ELSE @]
        /\ UNCHANGED owner
    BY <2>1 DEF Fetch, brokerVars
  <2>3. CASE k = m /\ q = p
    <3>1. next'[m][p] # Unseen
      BY <2>2, <2>3 DEF TypeOK, Unseen
    <3> QED BY <3>1
  <2>4. CASE k # m \/ q # p
    BY <1>1, <2>2, <2>4 DEF TypeOK
  <2> QED BY <2>3, <2>4
<1>5. CASE \E k \in Members : Complete(k)
  <2>1. PICK k \in Members : Complete(k)
    BY <1>5
  <2>2. UNCHANGED owner /\ UNCHANGED position
    BY <2>1 DEF Complete, brokerVars
  <2>3. next[m][p] = Unseen
    <3>1. CASE UNCHANGED next
      BY <3>1
    <3>2. CASE ~UNCHANGED next
      <4> DEFINE q == Head(finished[k]).partition
      <4>1. PICK x \in next[k][q]..LogLength : next' = [next EXCEPT ![k][q] = x]
        BY <2>1, <3>2 DEF Complete, trackerVars
      <4>2. CASE k = m /\ q = p
        <5>1. next'[m][p] = x
          BY <4>1, <4>2 DEF TypeOK
        <5>2. next[m][p] \in {Unseen} \union 0..LogLength
          BY DEF TypeOK
        <5> QED BY <4>1, <4>2, <5>1, <5>2 DEF Unseen
      <4>3. CASE k # m \/ q # p
        <5>1. next'[m][p] = next[m][p]
          BY <4>1, <4>3 DEF TypeOK
        <5> QED BY <5>1
      <4> QED BY <4>2, <4>3
    <3> QED BY <3>1, <3>2
  <2> QED BY <1>1, <2>2, <2>3
<1>6. CASE \E k \in Members : Forget(k)
  <2>1. PICK k \in Members : Forget(k)
    BY <1>6
  <2>2. k # m
    BY <2>1, KeyedAssumption DEF Forget
  <2>3. owner[p] = m /\ UNCHANGED position
    BY <2>1, KeyedAssumption DEF Forget
  <2>4. next'[m][p] = next[m][p]
    BY <2>1, <2>2 DEF Forget, TypeOK
  <2> QED BY <1>1, <2>3, <2>4
<1>7. CASE UNCHANGED <<owner, next, position>>
  BY <1>1, <1>7
<1> QED
  BY <1>3, <1>4, <1>5, <1>6, <1>7, ZenonT(60)
  DEF Next, Dispatching, Committing, Working, Lifecycle, Assigning, Assign, Rebalance,
      HandOver, DropHand, HandlerReturns, HandlerFails, SendFinished, CommitLands,
      CommitFails, Cancel, Stop, Crash, Restart, brokerVars, trackerVars

(***************************************************************************)
(* What complete does with the record at the head of the channel.          *)
(***************************************************************************)
HeadOf(m)  == Head(finished[m])
AtHead(m)  == HeadOf(m).partition
WithHead(m) == done[m][AtHead(m)] \union {HeadOf(m).offset}

LEMMA HeadType ==
  ASSUME TypeOK, NEW m \in Members, Complete(m)
  PROVE  /\ HeadOf(m) \in Kafka /\ HeadOf(m) = finished[m][1]
         /\ Len(finished[m]) \in Nat \ {0}
         /\ AtHead(m) \in Partitions /\ HeadOf(m).offset \in Offsets
         /\ WithHead(m) \subseteq Offsets
         /\ next[m][AtHead(m)] \in {Unseen} \union 0..LogLength
<1>1. finished[m] \in Seq(Kafka) /\ finished[m] # <<>>
  BY DEF Complete, TypeOK
<1>2. HeadOf(m) \in Kafka /\ HeadOf(m) = finished[m][1] /\ Len(finished[m]) \in Nat \ {0}
  BY <1>1 DEF HeadOf
<1>3. AtHead(m) \in Partitions /\ HeadOf(m).offset \in Offsets
  BY <1>2, RealRecords DEF AtHead
<1>4. done[m][AtHead(m)] \subseteq Offsets
      /\ next[m][AtHead(m)] \in {Unseen} \union 0..LogLength
  BY <1>3 DEF TypeOK
<1> QED BY <1>2, <1>3, <1>4 DEF WithHead

\* The tracker of one partition moves from n to the end of its run, k.
Folds(m, k) ==
  LET p == AtHead(m)
      n == next[m][p]
  IN  /\ k \in n..LogLength
      /\ RunEnds(n, WithHead(m), k)
      /\ next' = [next EXCEPT ![m][p] = k]
      /\ done' = [done EXCEPT ![m][p] = WithHead(m) \ (n..(k - 1))]
      /\ commit' = IF k = n \/ broken[m] THEN commit
                   ELSE [commit EXCEPT ![m] = [partition |-> p, offset |-> k - 1]]

LEMMA CompleteCases ==
  ASSUME NEW m \in Members, Complete(m)
  PROVE  UNCHANGED <<next, done, commit>> \/ \E k : Folds(m, k)
<1>1. CASE HeadOf(m).offset < next[m][AtHead(m)]
  BY <1>1 DEF Complete, HeadOf, AtHead, trackerVars
<1>2. CASE ~(HeadOf(m).offset < next[m][AtHead(m)])
  BY <1>2 DEF Complete, HeadOf, AtHead, WithHead, Folds
<1> QED BY <1>1, <1>2

\* Everything before the end of the run has been resolved.
LEMMA RunSettled ==
  ASSUME TypeOK, NextBehind, DoneSettled, FinishedSettled,
         NEW m \in Members, Complete(m), NEW k, Folds(m, k)
  PROVE  /\ Prefix(AtHead(m), k) /\ WithHead(m) \subseteq resolved[AtHead(m)]
         /\ k \in {Unseen} \union 0..LogLength
         /\ k # next[m][AtHead(m)] => k - 1 \in Offsets
<1> DEFINE p == AtHead(m)
           n == next[m][p]
<1>1. p \in Partitions /\ n \in {Unseen} \union 0..LogLength /\ WithHead(m) \subseteq Offsets
  BY HeadType
<1>2. Settled(HeadOf(m))
  BY HeadType DEF FinishedSettled
<1>3. WithHead(m) \subseteq resolved[p]
  BY <1>1, <1>2 DEF WithHead, DoneSettled, Settled, AtHead
<1>4. Prefix(p, n)
  BY <1>1 DEF NextBehind
<1>5. k \in n..LogLength /\ \A i \in n..(k - 1) : i \in WithHead(m)
  BY DEF Folds, RunEnds
<1>6. LogLength \in Nat
  BY KeyedAssumption
<1>7. ASSUME NEW o \in Offsets, o < k PROVE o \in resolved[p]
  <2>1. o \in Int /\ n \in Int /\ k \in Int
    BY <1>1, <1>5, <1>6 DEF Offsets, Unseen
  <2>2. CASE o < n
    BY <1>4, <2>2 DEF Prefix
  <2>3. CASE ~(o < n)
    <3>1. o \in n..(k - 1)
      BY <1>7, <2>1, <2>3
    <3> QED BY <1>3, <1>5, <3>1
  <2> QED BY <2>2, <2>3
<1>8. k # n => k - 1 \in Offsets
  <2> SUFFICES ASSUME k # n PROVE k - 1 \in Offsets
    OBVIOUS
  <2>1. k - 1 \in n..(k - 1)
    BY <1>1, <1>5, <1>6 DEF Unseen
  <2> QED BY <1>1, <1>5, <2>1
<1>9. k \in {Unseen} \union 0..LogLength
  BY <1>1, <1>5, <1>6 DEF Unseen
<1> QED BY <1>3, <1>7, <1>8, <1>9 DEF Prefix

LEMMA NextStep ==
  ASSUME TypeOK, StartBehind, NextBehind, DoneSettled, FinishedSettled, Next
  PROVE  NextBehind'
<1> SUFFICES ASSUME NEW m \in Members, NEW p \in Partitions
             PROVE  Prefix(p, next[m][p])'
  BY DEF NextBehind
<1>1. CASE next'[m][p] = next[m][p]
  BY <1>1, PrefixGrows DEF NextBehind, Prefix
<1>2. CASE next'[m][p] = Unseen
  BY <1>2, KeyedAssumption DEF Prefix, Offsets, Unseen
<1>3. CASE \E k \in Members, q \in Partitions : Fetch(k, q)
  <2>1. PICK k \in Members, q \in Partitions : Fetch(k, q)
    BY <1>3
  <2>2. /\ next' = [next EXCEPT ![k][q] = IF @ = Unseen THEN position[k][q] ELSE @]
        /\ owner[q] = k
    BY <2>1 DEF Fetch
  <2>3. CASE k = m /\ q = p /\ next[m][p] = Unseen
    <3>1. next'[m][p] = position[m][p]
      BY <2>2, <2>3 DEF TypeOK
    <3>2. Prefix(p, position[m][p])
      BY <2>2, <2>3 DEF StartBehind
    <3> QED BY <3>1, <3>2, PrefixGrows DEF Prefix
  <2>4. CASE ~(k = m /\ q = p /\ next[m][p] = Unseen)
    <3>1. next'[m][p] = next[m][p]
      BY <2>2, <2>4 DEF TypeOK
    <3> QED BY <1>1, <3>1
  <2> QED BY <2>3, <2>4
<1>4. CASE \E k \in Members : Complete(k)
  <2>1. PICK k \in Members : Complete(k)
    BY <1>4
  <2>2. CASE UNCHANGED next
    BY <1>1, <2>2
  <2>3. CASE \E e : Folds(k, e)
    <3>1. PICK e : Folds(k, e)
      BY <2>3
    <3>2. AtHead(k) \in Partitions
      BY <2>1, HeadType
    <3>3. next' = [next EXCEPT ![k][AtHead(k)] = e]
      BY <3>1 DEF Folds
    <3>4. CASE k = m /\ AtHead(k) = p
      <4>1. next'[m][p] = e
        BY <3>3, <3>4 DEF TypeOK
      <4>2. Prefix(p, e)
        BY <2>1, <3>1, <3>4, RunSettled
      <4> QED BY <4>1, <4>2, PrefixGrows DEF Prefix
    <3>5. CASE k # m \/ AtHead(k) # p
      <4>1. next'[m][p] = next[m][p]
        BY <3>2, <3>3, <3>5 DEF TypeOK
      <4> QED BY <1>1, <4>1
    <3> QED BY <3>4, <3>5
  <2> QED BY <2>1, <2>2, <2>3, CompleteCases
<1>5. CASE \E k \in Members : Forget(k)
  <2>1. PICK k \in Members : Forget(k)
    BY <1>5
  <2>2. next' = [next EXCEPT ![k] = [q \in Partitions |-> Unseen]]
    BY <2>1 DEF Forget
  <2>3. next'[m][p] = Unseen \/ next'[m][p] = next[m][p]
    BY <2>2 DEF TypeOK
  <2> QED BY <1>1, <1>2, <2>3
<1>6. CASE UNCHANGED next
  BY <1>1, <1>6
<1> QED
  BY <1>3, <1>4, <1>5, <1>6, ZenonT(60)
  DEF Next, Dispatching, Committing, Working, Lifecycle, Assigning, Assign, Rebalance,
      GiveTo, HandOver, DropHand, HandlerReturns, HandlerFails, SendFinished,
      CommitLands, CommitFails, Cancel, Stop, Crash, Restart, trackerVars

LEMMA DoneStep ==
  ASSUME TypeOK, NextBehind, DoneSettled, FinishedSettled, Next
  PROVE  DoneSettled'
<1> SUFFICES ASSUME NEW m \in Members, NEW p \in Partitions
             PROVE  done'[m][p] \subseteq resolved'[p]
  BY DEF DoneSettled
<1>0. resolved[p] \subseteq resolved'[p]
  BY ResolvedGrows
<1>1. CASE done'[m][p] = done[m][p]
  BY <1>0, <1>1 DEF DoneSettled
<1>2. CASE \E k \in Members : Complete(k)
  <2>1. PICK k \in Members : Complete(k)
    BY <1>2
  <2>2. CASE UNCHANGED done
    BY <1>1, <2>2
  <2>3. CASE \E e : Folds(k, e)
    <3>1. PICK e : Folds(k, e)
      BY <2>3
    <3>2. AtHead(k) \in Partitions
      BY <2>1, HeadType
    <3>3. PICK rest : rest \subseteq WithHead(k)
                      /\ done' = [done EXCEPT ![k][AtHead(k)] = rest]
      BY <3>1 DEF Folds
    <3>4. CASE k = m /\ AtHead(k) = p
      <4>1. done'[m][p] = rest
        BY <3>3, <3>4 DEF TypeOK
      <4>2. rest \subseteq resolved[p]
        BY <2>1, <3>1, <3>3, <3>4, RunSettled
      <4> QED BY <1>0, <4>1, <4>2
    <3>5. CASE k # m \/ AtHead(k) # p
      <4>1. done'[m][p] = done[m][p]
        BY <3>2, <3>3, <3>5 DEF TypeOK
      <4> QED BY <1>1, <4>1
    <3> QED BY <3>4, <3>5
  <2> QED BY <2>1, <2>2, <2>3, CompleteCases
<1>3. CASE \E k \in Members : Forget(k)
  <2>1. PICK k \in Members : done' = [done EXCEPT ![k] = [q \in Partitions |-> {}]]
    BY <1>3 DEF Forget
  <2>2. done'[m][p] = {} \/ done'[m][p] = done[m][p]
    BY <2>1 DEF TypeOK
  <2> QED BY <1>1, <2>2
<1>4. CASE UNCHANGED done
  BY <1>1, <1>4
<1> QED
  BY <1>2, <1>3, <1>4, ZenonT(60)
  DEF Next, Dispatching, Committing, Working, Lifecycle, Assigning, Assign, Rebalance,
      GiveTo, Fetch, HandOver, DropHand, HandlerReturns, HandlerFails, SendFinished,
      CommitLands, CommitFails, Cancel, Stop, Crash, Restart, trackerVars

\* A record is sent to the committer only after its handler has returned.
LEMMA SendingStep ==
  ASSUME TypeOK, SendingSettled, Next
  PROVE  SendingSettled'
<1> SUFFICES ASSUME NEW m \in Members, NEW w \in Workers,
                    worker'[m][w].phase = "sending"
             PROVE  Settled(worker[m][w].rec)'
  BY DEF SendingSettled
<1>0. worker \in [Members -> [Workers -> Work]]
  BY DEF TypeOK, Work
<1>1. CASE worker'[m][w] = worker[m][w]
  <2>1. Settled(worker[m][w].rec) /\ worker[m][w].rec \in Kafka
    BY <1>0, <1>1, RealRecords DEF SendingSettled
  <2> QED BY <1>1, <2>1, RealRecords, ResolvedGrows DEF Settled
<1>2. CASE worker'[m][w].phase # "sending"
  BY <1>2
<1>3. CASE \E k \in Members : HandOver(k)
  <2>1. PICK k \in Members : HandOver(k)
    BY <1>3
  <2> DEFINE v == WorkerOf(hand[k])
             state == [phase |-> IF status[k] = "running" THEN "handling"
                                 ELSE "cancelled", rec |-> hand[k]]
  <2>2. worker' = [worker EXCEPT ![k][v] = state]
    BY <2>1 DEF HandOver
  <2>3. state.phase # "sending"
    OBVIOUS
  <2>4. worker'[m][w] = state \/ worker'[m][w] = worker[m][w]
    BY <1>0, <2>2
  <2> QED BY <1>1, <1>2, <2>3, <2>4
<1>4. CASE \E k \in Members, v \in Workers : HandlerReturns(k, v)
  <2>1. PICK k \in Members, v \in Workers : HandlerReturns(k, v)
    BY <1>4
  <2>2. /\ worker' = [worker EXCEPT ![k][v] = Sent(worker[k][v])]
        /\ worker[k][v].phase = "handling"
    BY <2>1 DEF HandlerReturns, Sent
  <2>3. worker[k][v] \in Work
    BY <1>0
  <2>4. /\ Sent(worker[k][v]) \in Work
        /\ Sent(worker[k][v]).rec = worker[k][v].rec
    BY <2>2, <2>3, SentState
  <2>5. worker[k][v].rec \in Kafka
    BY <2>2, <2>3, RealRecords
  <2>6. CASE k = m /\ v = w
    <3>1. worker'[m][w] = Sent(worker[m][w])
      BY <1>0, <2>2, <2>6
    <3>2. worker'[m][w].rec = worker[m][w].rec
      BY <2>4, <2>6, <3>1
    <3>3. resolved' = [resolved EXCEPT ![worker[m][w].rec.partition] =
                          @ \union {worker[m][w].rec.offset}]
      BY <2>1, <2>6 DEF HandlerReturns
    <3>4. worker[m][w].rec.partition \in Partitions
      BY <2>5, <2>6, RealRecords
    <3>5. worker[m][w].rec.offset \in resolved'[worker[m][w].rec.partition]
      BY <3>3, <3>4 DEF TypeOK
    <3> QED BY <3>2, <3>5 DEF Settled
  <2>7. CASE k # m \/ v # w
    <3>1. worker'[m][w] = worker[m][w]
      BY <1>0, <2>2, <2>4, <2>7, TableUpdate
    <3> QED BY <1>1, <3>1
  <2> QED BY <2>6, <2>7
<1>5. CASE \E k \in Members, v \in Workers : HandlerFails(k, v) \/ SendFinished(k, v)
  <2>1. PICK k \in Members, v \in Workers : worker' = [worker EXCEPT ![k][v] = Idle]
    BY <1>5 DEF HandlerFails, SendFinished
  <2>2. worker'[m][w] = Idle \/ worker'[m][w] = worker[m][w]
    BY <1>0, <2>1
  <2> QED BY <1>1, <1>2, <2>2, RealRecords
<1>6. CASE \E k \in Members : Forget(k)
  <2>1. PICK k \in Members : worker' = [worker EXCEPT ![k] = [v \in Workers |-> Idle]]
    BY <1>6 DEF Forget
  <2>2. worker'[m][w] = Idle \/ worker'[m][w] = worker[m][w]
    BY <1>0, <2>1
  <2> QED BY <1>1, <1>2, <2>2, RealRecords
<1>7. CASE UNCHANGED worker
  BY <1>1, <1>7
<1> QED
  BY <1>3, <1>4, <1>5, <1>6, <1>7, ZenonT(60)
  DEF Next, Dispatching, Committing, Working, Lifecycle, Assigning, Assign, Rebalance,
      GiveTo, Fetch, DropHand, Complete, CommitLands, CommitFails, Cancel, Stop, Crash,
      Restart

\* The channel holds settled records only.
LEMMA FinishedStep ==
  ASSUME TypeOK, SendingSettled, FinishedSettled, Next
  PROVE  FinishedSettled'
<1> SUFFICES ASSUME NEW m \in Members, NEW i \in 1..Len(finished'[m])
             PROVE  Settled(finished[m][i])'
  BY DEF FinishedSettled
<1>0. \A rec \in Kafka : Settled(rec) => Settled(rec)'
  BY RealRecords, ResolvedGrows DEF Settled
<1>1. CASE finished'[m] = finished[m]
  <2>1. finished[m] \in Seq(Kafka) /\ i \in 1..Len(finished[m])
    BY <1>1 DEF TypeOK
  <2>2. finished[m][i] \in Kafka /\ Settled(finished[m][i])
    BY <2>1 DEF FinishedSettled
  <2>3. Settled(finished[m][i])' <=> finished[m][i].offset \in resolved'[finished[m][i].partition]
    BY <1>1 DEF Settled
  <2> QED BY <1>0, <2>2, <2>3 DEF Settled
<1>2. CASE \E k \in Members, v \in Workers : SendFinished(k, v)
  <2>1. PICK k \in Members, v \in Workers : SendFinished(k, v)
    BY <1>2
  <2> DEFINE rec == worker[k][v].rec
  <2>2. worker[k][v] \in Work /\ worker[k][v].phase = "sending"
    BY <2>1 DEF SendFinished, TypeOK, Work
  <2>3. rec \in Kafka /\ Settled(rec)
    BY <2>2, RealRecords DEF SendingSettled
  <2>4. finished' = [finished EXCEPT ![k] = Append(finished[k], rec)]
    BY <2>1 DEF SendFinished
  <2>5. CASE k = m
    <3>1. finished'[m] = Append(finished[m], rec) /\ finished[m] \in Seq(Kafka)
      BY <2>4, <2>5 DEF TypeOK
    <3>2. CASE i \in 1..Len(finished[m])
      <4>1. finished'[m][i] = finished[m][i] /\ finished[m][i] \in Kafka
        BY <3>1, <3>2
      <4>2. Settled(finished[m][i])
        BY <3>2 DEF FinishedSettled
      <4> QED BY <1>0, <4>1, <4>2 DEF Settled
    <3>3. CASE i \notin 1..Len(finished[m])
      <4>1. finished'[m][i] = rec
        BY <3>1, <3>3
      <4> QED BY <1>0, <2>3, <4>1 DEF Settled
    <3> QED BY <3>2, <3>3
  <2>6. CASE k # m
    BY <1>1, <2>4, <2>6 DEF TypeOK
  <2> QED BY <2>5, <2>6
<1>3. CASE \E k \in Members : Complete(k)
  <2>1. PICK k \in Members : Complete(k)
    BY <1>3
  <2>2. /\ finished' = [finished EXCEPT ![k] = Tail(finished[k])]
        /\ finished[k] # <<>>
    BY <2>1 DEF Complete
  <2>3. CASE k = m
    <3>1. /\ finished'[m] = Tail(finished[m]) /\ finished[m] \in Seq(Kafka)
          /\ finished[m] # <<>>
      BY <2>2, <2>3 DEF TypeOK
    <3>2. finished'[m][i] = finished[m][i + 1] /\ i + 1 \in 1..Len(finished[m])
      BY <3>1
    <3>3. finished[m][i + 1] \in Kafka /\ Settled(finished[m][i + 1])
      BY <3>1, <3>2 DEF FinishedSettled
    <3> QED BY <1>0, <3>2, <3>3 DEF Settled
  <2>4. CASE k # m
    BY <1>1, <2>2, <2>4 DEF TypeOK
  <2> QED BY <2>3, <2>4
<1>4. CASE \E k \in Members : Forget(k)
  <2>1. PICK k \in Members : finished' = [finished EXCEPT ![k] = <<>>]
    BY <1>4 DEF Forget
  <2>2. finished'[m] = <<>> \/ finished'[m] = finished[m]
    BY <2>1 DEF TypeOK
  <2> QED BY <1>1, <2>2
<1>5. CASE UNCHANGED finished
  BY <1>1, <1>5
<1> QED
  BY <1>2, <1>3, <1>4, <1>5, ZenonT(60)
  DEF Next, Dispatching, Committing, Working, Lifecycle, Assigning, Assign, Rebalance,
      GiveTo, Fetch, HandOver, DropHand, HandlerReturns, HandlerFails, CommitLands,
      CommitFails, Cancel, Stop, Crash, Restart

\* A commit being issued ends a settled prefix.
LEMMA CommitStep ==
  ASSUME TypeOK, NextBehind, DoneSettled, FinishedSettled, CommitBehind, Next
  PROVE  CommitBehind'
<1> SUFFICES ASSUME NEW m \in Members, commit'[m] # NoRecord
             PROVE  Prefix(commit[m].partition, commit[m].offset + 1)'
  BY DEF CommitBehind
<1>0. commit \in [Members -> Kafka \union {NoRecord}]
  BY DEF TypeOK
<1>1. CASE commit'[m] = commit[m]
  <2>1. commit[m] \in Kafka /\ Prefix(commit[m].partition, commit[m].offset + 1)
    BY <1>0, <1>1 DEF CommitBehind
  <2>2. commit[m].partition \in Partitions
    BY <2>1, RealRecords
  <2> QED BY <1>1, <2>1, <2>2, ResolvedGrows DEF Prefix, Offsets
<1>2. CASE \E k \in Members : Complete(k)
  <2>1. PICK k \in Members : Complete(k)
    BY <1>2
  <2>2. CASE UNCHANGED commit
    BY <1>1, <2>2
  <2>3. CASE ~UNCHANGED commit
    <3>1. PICK e : Folds(k, e)
      BY <2>1, <2>3, CompleteCases
    <3> DEFINE last == [partition |-> AtHead(k), offset |-> e - 1]
    <3>2. commit' = [commit EXCEPT ![k] = last]
      BY <2>3, <3>1 DEF Folds
    <3>3. CASE k = m
      <4>1. commit'[m] = last
        BY <1>0, <3>2, <3>3
      <4>2. Prefix(AtHead(k), e) /\ e \in Int
        BY <2>1, <3>1, KeyedAssumption, RunSettled DEF Unseen
      <4>3. last.partition = AtHead(k) /\ last.offset + 1 = e
        BY <4>2
      <4>4. AtHead(k) \in Partitions
        BY <2>1, HeadType
      <4> QED BY <4>1, <4>2, <4>3, <4>4, ResolvedGrows DEF Prefix, Offsets
    <3>4. CASE k # m
      BY <1>0, <1>1, <3>2, <3>4
    <3> QED BY <3>3, <3>4
  <2> QED BY <2>2, <2>3
<1>3. CASE \E k \in Members : CommitLands(k) \/ CommitFails(k) \/ Forget(k)
  <2>1. PICK k \in Members : commit' = [commit EXCEPT ![k] = NoRecord]
    BY <1>3 DEF CommitLands, CommitFails, Forget
  <2>2. commit'[m] = NoRecord \/ commit'[m] = commit[m]
    BY <1>0, <2>1
  <2> QED BY <1>1, <2>2
<1>4. CASE UNCHANGED commit
  BY <1>1, <1>4
<1> QED
  BY <1>2, <1>3, <1>4, ZenonT(60)
  DEF Next, Dispatching, Committing, Working, Lifecycle, Assigning, Assign, Rebalance,
      GiveTo, Fetch, HandOver, DropHand, HandlerReturns, HandlerFails, SendFinished,
      Cancel, Stop, Crash, Restart

(***************************************************************************)
(* Types.                                                                  *)
(***************************************************************************)
LEMMA TypeWorker ==
  ASSUME TypeOK, Next
  PROVE  worker' \in [Members -> [Workers -> Work]]
<1>0. worker \in [Members -> [Workers -> Work]]
  BY DEF TypeOK, Work
<1>1. CASE \E k \in Members : HandOver(k)
  <2>1. PICK k \in Members : HandOver(k)
    BY <1>1
  <2> DEFINE v == WorkerOf(hand[k])
             state == [phase |-> IF status[k] = "running" THEN "handling"
                                 ELSE "cancelled", rec |-> hand[k]]
  <2>2. worker' = [worker EXCEPT ![k][v] = state]
    BY <2>1 DEF HandOver
  <2>3. hand[k] \in Kafka
    BY <2>1 DEF HandOver, TypeOK
  <2>4. v \in Workers
    BY <2>3, RealRecords, KeyedAssumption DEF WorkerOf
  <2>5. state \in Work
    BY <2>3 DEF Work
  <2> QED BY <1>0, <2>2, <2>4, <2>5, TableUpdate
<1>2. CASE \E k \in Members, v \in Workers : HandlerReturns(k, v)
  <2>1. PICK k \in Members, v \in Workers : HandlerReturns(k, v)
    BY <1>2
  <2>2. /\ worker' = [worker EXCEPT ![k][v] = Sent(worker[k][v])]
        /\ worker[k][v].phase = "handling"
    BY <2>1 DEF HandlerReturns, Sent
  <2>3. Sent(worker[k][v]) \in Work
    BY <1>0, <2>2, SentState
  <2> QED BY <1>0, <2>2, <2>3, TableUpdate
<1>3. CASE \E k \in Members, v \in Workers : HandlerFails(k, v) \/ SendFinished(k, v)
  <2>1. PICK k \in Members, v \in Workers : worker' = [worker EXCEPT ![k][v] = Idle]
    BY <1>3 DEF HandlerFails, SendFinished
  <2>2. Idle \in Work
    BY DEF Work
  <2> QED BY <1>0, <2>1, <2>2, TableUpdate
<1>4. CASE \E k \in Members : Forget(k)
  <2>1. PICK k \in Members : worker' = [worker EXCEPT ![k] = [v \in Workers |-> Idle]]
    BY <1>4 DEF Forget
  <2>2. Idle \in Work
    BY DEF Work
  <2> QED BY <1>0, <2>1, <2>2
<1>5. CASE UNCHANGED worker
  BY <1>0, <1>5
<1> QED
  BY <1>1, <1>2, <1>3, <1>4, <1>5, ZenonT(60)
  DEF Next, Dispatching, Committing, Working, Lifecycle, Assigning, Assign, Rebalance,
      GiveTo, Fetch, DropHand, Complete, CommitLands, CommitFails, Cancel, Stop, Crash,
      Restart

LEMMA TypeFinished ==
  ASSUME TypeOK, Next
  PROVE  finished' \in [Members -> Seq(Kafka)]
<1>0. finished \in [Members -> Seq(Kafka)]
  BY DEF TypeOK
<1>1. CASE \E k \in Members, v \in Workers : SendFinished(k, v)
  <2>1. PICK k \in Members, v \in Workers : SendFinished(k, v)
    BY <1>1
  <2>2. worker[k][v] \in Work /\ worker[k][v].phase = "sending"
    BY <2>1 DEF SendFinished, TypeOK, Work
  <2>3. worker[k][v].rec \in Kafka
    BY <2>2, RealRecords
  <2>4. Append(finished[k], worker[k][v].rec) \in Seq(Kafka)
    BY <1>0, <2>3
  <2>5. finished' = [finished EXCEPT ![k] = Append(finished[k], worker[k][v].rec)]
    BY <2>1 DEF SendFinished
  <2> QED BY <1>0, <2>4, <2>5
<1>2. CASE \E k \in Members : Complete(k)
  <2>1. PICK k \in Members : /\ finished' = [finished EXCEPT ![k] = Tail(finished[k])]
                             /\ finished[k] # <<>>
    BY <1>2 DEF Complete
  <2>2. Tail(finished[k]) \in Seq(Kafka)
    BY <1>0, <2>1
  <2> QED BY <1>0, <2>1, <2>2
<1>3. CASE \E k \in Members : Forget(k)
  <2>1. PICK k \in Members : finished' = [finished EXCEPT ![k] = <<>>]
    BY <1>3 DEF Forget
  <2> QED BY <1>0, <2>1
<1>4. CASE UNCHANGED finished
  BY <1>0, <1>4
<1> QED
  BY <1>1, <1>2, <1>3, <1>4, ZenonT(60)
  DEF Next, Dispatching, Committing, Working, Lifecycle, Assigning, Assign, Rebalance,
      GiveTo, Fetch, HandOver, DropHand, HandlerReturns, HandlerFails, CommitLands,
      CommitFails, Cancel, Stop, Crash, Restart

\* The tracker and the commit it hands out.
LEMMA TypeTracker ==
  ASSUME TypeOK, NextBehind, DoneSettled, FinishedSettled, Next
  PROVE  /\ next' \in [Members -> [Partitions -> {Unseen} \union 0..LogLength]]
         /\ done' \in [Members -> [Partitions -> SUBSET Offsets]]
         /\ commit' \in [Members -> Kafka \union {NoRecord}]
<1>0. /\ next \in [Members -> [Partitions -> {Unseen} \union 0..LogLength]]
      /\ done \in [Members -> [Partitions -> SUBSET Offsets]]
      /\ commit \in [Members -> Kafka \union {NoRecord}]
  BY DEF TypeOK
<1>1. CASE \E k \in Members : Complete(k)
  <2>1. PICK k \in Members : Complete(k)
    BY <1>1
  <2>2. CASE UNCHANGED <<next, done, commit>>
    BY <1>0, <2>2
  <2>3. CASE \E e : Folds(k, e)
    <3>1. PICK e : Folds(k, e)
      BY <2>3
    <3>2. /\ AtHead(k) \in Partitions /\ WithHead(k) \subseteq Offsets
      BY <2>1, HeadType
    <3>3. /\ e \in {Unseen} \union 0..LogLength
          /\ e # next[k][AtHead(k)] => e - 1 \in Offsets
      BY <2>1, <3>1, RunSettled
    <3>4. next' = [next EXCEPT ![k][AtHead(k)] = e]
      BY <3>1 DEF Folds
    <3>5. next' \in [Members -> [Partitions -> {Unseen} \union 0..LogLength]]
      BY <1>0, <3>2, <3>3, <3>4, TableUpdate
    <3>6. PICK rest : rest \subseteq WithHead(k)
                      /\ done' = [done EXCEPT ![k][AtHead(k)] = rest]
      BY <3>1 DEF Folds
    <3>7. rest \in SUBSET Offsets
      BY <3>2, <3>6
    <3>8. done' \in [Members -> [Partitions -> SUBSET Offsets]]
      BY <1>0, <3>2, <3>6, <3>7, TableUpdate
    <3>9. CASE commit' = commit
      BY <1>0, <3>5, <3>8, <3>9
    <3>10. CASE commit' # commit
      <4> DEFINE last == [partition |-> AtHead(k), offset |-> e - 1]
      <4>1. e # next[k][AtHead(k)] /\ commit' = [commit EXCEPT ![k] = last]
        BY <3>1, <3>10 DEF Folds
      <4>2. last \in Kafka
        BY <3>2, <3>3, <4>1 DEF Kafka
      <4>3. commit' \in [Members -> Kafka \union {NoRecord}]
        BY <1>0, <4>1, <4>2
      <4> QED BY <3>5, <3>8, <4>3
    <3> QED BY <3>9, <3>10
  <2> QED BY <2>1, <2>2, <2>3, CompleteCases
<1>2. CASE \E k \in Members, q \in Partitions : Fetch(k, q)
  <2>1. PICK k \in Members, q \in Partitions : Fetch(k, q)
    BY <1>2
  <2> DEFINE start == IF next[k][q] = Unseen THEN position[k][q] ELSE next[k][q]
  <2>2. next' = [next EXCEPT ![k][q] = start]
    BY <2>1 DEF Fetch
  <2>3. start \in {Unseen} \union 0..LogLength
    BY DEF TypeOK
  <2>4. next' \in [Members -> [Partitions -> {Unseen} \union 0..LogLength]]
    BY <1>0, <2>2, <2>3, TableUpdate
  <2> QED BY <1>0, <2>1, <2>4 DEF Fetch
<1>3. CASE \E k \in Members : CommitLands(k) \/ CommitFails(k)
  <2>1. PICK k \in Members : commit' = [commit EXCEPT ![k] = NoRecord]
    BY <1>3 DEF CommitLands, CommitFails
  <2>2. commit' \in [Members -> Kafka \union {NoRecord}]
    BY <1>0, <2>1
  <2> QED BY <1>0, <1>3, <2>2 DEF CommitLands, CommitFails, trackerVars
<1>4. CASE \E k \in Members : Forget(k)
  <2>1. PICK k \in Members : Forget(k)
    BY <1>4
  <2>2. next' = [next EXCEPT ![k] = [q \in Partitions |-> Unseen]]
    BY <2>1 DEF Forget
  <2>3. done' = [done EXCEPT ![k] = [q \in Partitions |-> {}]]
    BY <2>1 DEF Forget
  <2>4. commit' = [commit EXCEPT ![k] = NoRecord]
    BY <2>1 DEF Forget
  <2> QED BY <1>0, <2>2, <2>3, <2>4
<1>5. CASE UNCHANGED <<next, done, commit>>
  BY <1>0, <1>5
<1> QED
  BY <1>1, <1>2, <1>3, <1>4, <1>5, ZenonT(60)
  DEF Next, Dispatching, Committing, Working, Lifecycle, Assigning, Assign, Rebalance,
      GiveTo, HandOver, DropHand, HandlerReturns, HandlerFails, SendFinished, Cancel,
      Stop, Crash, Restart, trackerVars

\* The broker's side.
LEMMA TypeBroker ==
  ASSUME TypeOK, Next
  PROVE  owner' \in [Partitions -> Members \union {Nobody}]
         /\ committed' \in [Partitions -> 0..LogLength]
<1>0. /\ owner \in [Partitions -> Members \union {Nobody}]
      /\ committed \in [Partitions -> 0..LogLength]
  BY DEF TypeOK
<1>1. CASE \E k \in Members : CommitLands(k) \/ CommitFails(k)
  <2>1. PICK k \in Members : commit[k] # NoRecord /\ UNCHANGED owner
          /\ \/ UNCHANGED committed
             \/ committed' = [committed EXCEPT ![commit[k].partition] =
                                commit[k].offset + 1]
    BY <1>1 DEF CommitLands, CommitFails
  <2>2. commit[k].partition \in Partitions /\ commit[k].offset \in Offsets
    BY <2>1, RealRecords DEF TypeOK
  <2>3. commit[k].offset + 1 \in 0..LogLength
    BY <2>2, KeyedAssumption DEF Offsets
  <2> QED BY <1>0, <2>1, <2>2, <2>3
<1>2. CASE \E k \in Members, q \in Partitions : GiveTo(q, k)
  BY <1>0, <1>2 DEF GiveTo
<1>3. CASE \E k \in Members : Forget(k)
  BY <1>0, <1>3 DEF Forget
<1>4. CASE UNCHANGED <<owner, committed>>
  BY <1>0, <1>4
<1> QED
  BY <1>1, <1>2, <1>3, <1>4, ZenonT(60)
  DEF Next, Dispatching, Committing, Working, Lifecycle, Assigning, Assign, Rebalance,
      Fetch, HandOver, DropHand, HandlerReturns, HandlerFails, SendFinished, Complete,
      Cancel, Stop, Crash, Restart, brokerVars

LEMMA TypeFetching ==
  ASSUME TypeOK, Next
  PROVE  position' \in [Members -> [Partitions -> 0..LogLength]]
         /\ hand' \in [Members -> Kafka \union {NoRecord}]
<1>0. /\ position \in [Members -> [Partitions -> 0..LogLength]]
      /\ hand \in [Members -> Kafka \union {NoRecord}]
      /\ committed \in [Partitions -> 0..LogLength]
  BY DEF TypeOK
<1>1. CASE \E k \in Members, q \in Partitions : Fetch(k, q)
  <2>1. PICK k \in Members, q \in Partitions : Fetch(k, q)
    BY <1>1
  <2> DEFINE o == position[k][q]
             rec == [partition |-> q, offset |-> o]
  <2>2. /\ o < LogLength
        /\ position' = [position EXCEPT ![k][q] = o + 1]
        /\ hand' = [hand EXCEPT ![k] = rec]
    BY <2>1 DEF Fetch
  <2>3. o \in 0..LogLength
    BY <1>0
  <2>4. o \in Offsets /\ o + 1 \in 0..LogLength
    BY <2>2, <2>3, KeyedAssumption DEF Offsets
  <2>5. rec \in Kafka
    BY <2>4 DEF Kafka
  <2>6. position' \in [Members -> [Partitions -> 0..LogLength]]
    BY <1>0, <2>2, <2>4, TableUpdate
  <2>7. hand' \in [Members -> Kafka \union {NoRecord}]
    BY <1>0, <2>2, <2>5
  <2> QED BY <2>6, <2>7
<1>2. CASE \E k \in Members, q \in Partitions : GiveTo(q, k)
  <2>1. PICK k \in Members, q \in Partitions :
          position' = [position EXCEPT ![k][q] = committed[q]] /\ UNCHANGED hand
    BY <1>2 DEF GiveTo
  <2>2. committed[q] \in 0..LogLength
    BY <1>0
  <2>3. position' \in [Members -> [Partitions -> 0..LogLength]]
    BY <1>0, <2>1, <2>2, TableUpdate
  <2> QED BY <1>0, <2>1, <2>3
<1>3. CASE /\ UNCHANGED position
           /\ \/ UNCHANGED hand
              \/ \E k \in Members : hand' = [hand EXCEPT ![k] = NoRecord]
  BY <1>0, <1>3
<1> QED
  BY <1>1, <1>2, <1>3, ZenonT(60)
  DEF Next, Dispatching, Committing, Working, Lifecycle, Assigning, Assign, Rebalance,
      HandOver, DropHand, HandlerReturns, HandlerFails, SendFinished, Complete,
      CommitLands, CommitFails, Cancel, Stop, Crash, Forget, Restart

LEMMA TypeResolved ==
  ASSUME TypeOK, Next
  PROVE  resolved' \in [Partitions -> SUBSET Offsets]
<1>0. resolved \in [Partitions -> SUBSET Offsets]
  BY DEF TypeOK
<1>1. CASE \E k \in Members, v \in Workers : HandlerReturns(k, v)
  <2>1. PICK k \in Members, v \in Workers : HandlerReturns(k, v)
    BY <1>1
  <2> DEFINE rec == worker[k][v].rec
  <2>2. worker[k][v] \in Work /\ worker[k][v].phase = "handling"
    BY <2>1 DEF HandlerReturns, TypeOK, Work
  <2>3. rec.partition \in Partitions /\ rec.offset \in Offsets
    BY <2>2, RealRecords
  <2>4. resolved' = [resolved EXCEPT ![rec.partition] = @ \union {rec.offset}]
    BY <2>1 DEF HandlerReturns
  <2> QED BY <1>0, <2>3, <2>4
<1>2. CASE UNCHANGED resolved
  BY <1>0, <1>2
<1> QED
  BY <1>1, <1>2, ZenonT(60)
  DEF Next, Dispatching, Committing, Working, Lifecycle, Assigning, Assign, Rebalance,
      GiveTo, Fetch, HandOver, DropHand, HandlerFails, SendFinished, Complete,
      CommitLands, CommitFails, Cancel, Stop, Crash, Forget, Restart

LEMMA TypeStatus ==
  ASSUME TypeOK, Next
  PROVE  /\ status' \in [Members -> {"running", "draining", "down"}]
         /\ broken' \in [Members -> BOOLEAN]
         /\ failures' \in Nat /\ rebalances' \in Nat
<1>0. /\ status \in [Members -> {"running", "draining", "down"}]
      /\ broken \in [Members -> BOOLEAN]
      /\ failures \in Nat /\ rebalances \in Nat
  BY DEF TypeOK
<1>1. \/ UNCHANGED status
      \/ \E k \in Members, s \in {"running", "draining", "down"} :
            status' = [status EXCEPT ![k] = s]
  BY ZenonT(60)
  DEF Next, Dispatching, Committing, Working, Lifecycle, Assigning, Assign, Rebalance,
      GiveTo, Fetch, HandOver, DropHand, HandlerReturns, HandlerFails, SendFinished,
      Complete, CommitLands, CommitFails, Cancel, Stop, Crash, Forget, Restart
<1>2. \/ UNCHANGED broken
      \/ \E k \in Members, b \in BOOLEAN : broken' = [broken EXCEPT ![k] = b]
  BY ZenonT(60)
  DEF Next, Dispatching, Committing, Working, Lifecycle, Assigning, Assign, Rebalance,
      GiveTo, Fetch, HandOver, DropHand, HandlerReturns, HandlerFails, SendFinished,
      Complete, CommitLands, CommitFails, Cancel, Stop, Crash, Forget, Restart
<1>3. UNCHANGED failures \/ Fault
  <2>1. \/ UNCHANGED boundVars
        \/ \E k \in Members : Stop(k) \/ Cancel(k) \/ Crash(k) \/ CommitFails(k)
        \/ \E k \in Members, v \in Workers : HandlerFails(k, v)
        \/ \E q \in Partitions, k \in Members : GiveTo(q, k)
    BY ZenonT(60)
  DEF Next, Dispatching, Committing, Working, Lifecycle, Assigning, Assign,
      Rebalance, Fetch, HandOver, DropHand, HandlerReturns, SendFinished, Complete,
      CommitLands, Restart
  <2> QED BY <2>1 DEF boundVars, Stop, Cancel, Crash, CommitFails, HandlerFails, GiveTo
<1>4. UNCHANGED rebalances \/ \E q \in Partitions, k \in Members : Rebalance(q, k)
  BY ZenonT(60)
  DEF Next, Dispatching, Committing, Working, Lifecycle, Assigning, Assign,
      Fetch, HandOver, DropHand, HandlerReturns, HandlerFails, SendFinished,
      Complete, CommitLands, CommitFails, Cancel, Stop, Crash, Forget, Restart, boundVars
<1>5. failures' \in Nat
  BY <1>0, <1>3 DEF Fault
<1>6. rebalances' \in Nat
  BY <1>0, <1>4 DEF Rebalance
<1>7. status' \in [Members -> {"running", "draining", "down"}]
  BY <1>0, <1>1
<1>8. broken' \in [Members -> BOOLEAN]
  BY <1>0, <1>2, Zenon
<1> QED BY <1>5, <1>6, <1>7, <1>8

(***************************************************************************)
(* The invariant and the theorems.                                         *)
(***************************************************************************)
LEMMA InitInv == Init => KeyedInv
<1> SUFFICES ASSUME Init PROVE KeyedInv
  OBVIOUS
<1>1. TypeOK
  <2>1. worker \in [Members -> [Workers -> Work]]
    BY DEF Init, Work
  <2>2. 0 \in 0..LogLength
    BY KeyedAssumption
  <2>3. finished \in [Members -> Seq(Kafka)]
    BY DEF Init
  <2> QED BY <2>1, <2>2, <2>3 DEF Init, TypeOK, Work
<1>2. \A p \in Partitions : Prefix(p, 0) /\ Prefix(p, Unseen)
  BY KeyedAssumption DEF Prefix, Offsets, Unseen
<1>3. CommittedBehind /\ StartBehind /\ NextBehind
  BY <1>2 DEF Init, CommittedBehind, StartBehind, NextBehind
<1>4. DoneSettled /\ FinishedSettled /\ CommitBehind
  BY DEF Init, DoneSettled, FinishedSettled, CommitBehind
<1>5. SendingSettled
  BY RealRecords DEF Init, SendingSettled
<1> QED BY <1>1, <1>3, <1>4, <1>5 DEF KeyedInv

LEMMA TypeStep ==
  ASSUME KeyedInv, Next
  PROVE  TypeOK'
<1>1. TypeOK /\ NextBehind /\ DoneSettled /\ FinishedSettled
  BY DEF KeyedInv
<1>2. worker' \in [Members -> [Workers -> Work]]
  BY <1>1, TypeWorker
<1>3. finished' \in [Members -> Seq(Kafka)]
  BY <1>1, TypeFinished
<1>4. /\ next' \in [Members -> [Partitions -> {Unseen} \union 0..LogLength]]
      /\ done' \in [Members -> [Partitions -> SUBSET Offsets]]
      /\ commit' \in [Members -> Kafka \union {NoRecord}]
  BY <1>1, TypeTracker
<1> QED
  BY <1>1, <1>2, <1>3, <1>4, TypeBroker, TypeFetching, TypeResolved, TypeStatus
  DEF TypeOK, Work

LEMMA Invariance == Spec => []KeyedInv
<1>1. Init => KeyedInv
  BY InitInv
<1>2. KeyedInv /\ [Next]_vars => KeyedInv'
  <2> SUFFICES ASSUME KeyedInv, [Next]_vars PROVE KeyedInv'
    OBVIOUS
  <2>1. CASE UNCHANGED vars
    BY <2>1
    DEF vars, brokerVars, trackerVars, boundVars, KeyedInv, TypeOK, CommittedBehind,
        StartBehind, NextBehind, DoneSettled, SendingSettled, FinishedSettled,
        CommitBehind, Prefix, Settled
  <2>2. CASE Next
    <3>1. TypeOK'
      BY <2>2, TypeStep
    <3>2. CommittedBehind' /\ StartBehind'
      BY <2>2, CommittedStep, StartStep DEF KeyedInv
    <3>3. NextBehind' /\ DoneSettled'
      BY <2>2, NextStep, DoneStep DEF KeyedInv
    <3>4. SendingSettled' /\ FinishedSettled'
      BY <2>2, SendingStep, FinishedStep DEF KeyedInv
    <3>5. CommitBehind'
      BY <2>2, CommitStep DEF KeyedInv
    <3> QED BY <3>1, <3>2, <3>3, <3>4, <3>5 DEF KeyedInv
  <2> QED BY <2>1, <2>2
<1> QED BY <1>1, <1>2, PTL DEF Spec

\* Every member's memory and the broker's offsets are always well formed.
THEOREM KeyedTypes == Spec => []TypeOK
<1>1. KeyedInv => TypeOK
  BY DEF KeyedInv
<1> QED BY <1>1, Invariance, PTL

\* Whatever crashes, moves or fails, everything below the committed offset has
\* been resolved by a handler: no event is lost by committing past it.
THEOREM NoRecordSkipped == Spec => []NothingSkipped
<1>1. KeyedInv => NothingSkipped
  BY DEF KeyedInv, CommittedBehind, Prefix, NothingSkipped
<1> QED BY <1>1, Invariance, PTL

-----------------------------------------------------------------------------
(***************************************************************************)
(* What a step may do to one part of one member.                           *)
(***************************************************************************)
LEMMA WorkerChange ==
  ASSUME TypeOK, Next, NEW m \in Members, NEW w \in Workers
  PROVE  \/ worker'[m][w] = worker[m][w]
         \/ /\ HandOver(m) /\ hand[m] \in Kafka /\ w = WorkerOf(hand[m])
            /\ worker'[m][w] = [phase |-> IF status[m] = "running" THEN "handling"
                                          ELSE "cancelled", rec |-> hand[m]]
         \/ HandlerReturns(m, w) /\ worker'[m][w] = Sent(worker[m][w])
         \/ SendFinished(m, w) /\ worker'[m][w] = Idle
         \/ worker'[m][w] = Idle /\ status'[m] # "running"
<1>0. worker \in [Members -> [Workers -> Work]] /\ hand \in [Members -> Kafka \union {NoRecord}]
      /\ status \in [Members -> {"running", "draining", "down"}]
  BY DEF TypeOK, Work
<1>1. CASE \E k \in Members : HandOver(k)
  <2>1. PICK k \in Members : HandOver(k)
    BY <1>1
  <2>2. worker' = [worker EXCEPT ![k][WorkerOf(hand[k])] =
          [phase |-> IF status[k] = "running" THEN "handling" ELSE "cancelled",
           rec |-> hand[k]]]
        /\ hand[k] \in Kafka
    BY <1>0, <2>1 DEF HandOver
  <2> QED BY <1>0, <2>1, <2>2
<1>2. CASE \E k \in Members, v \in Workers : HandlerReturns(k, v)
  <2>1. PICK k \in Members, v \in Workers : HandlerReturns(k, v)
    BY <1>2
  <2>2. worker' = [worker EXCEPT ![k][v] = Sent(worker[k][v])]
    BY <2>1 DEF HandlerReturns, Sent
  <2> QED BY <1>0, <2>1, <2>2
<1>3. CASE \E k \in Members, v \in Workers : SendFinished(k, v)
  <2>1. PICK k \in Members, v \in Workers : SendFinished(k, v)
    BY <1>3
  <2>2. worker' = [worker EXCEPT ![k][v] = Idle]
    BY <2>1 DEF SendFinished
  <2> QED BY <1>0, <2>1, <2>2
<1>4. CASE \E k \in Members, v \in Workers : HandlerFails(k, v)
  <2>1. PICK k \in Members, v \in Workers : HandlerFails(k, v)
    BY <1>4
  <2>2. worker' = [worker EXCEPT ![k][v] = Idle] /\ status' = [status EXCEPT ![k] = "draining"]
    BY <2>1 DEF HandlerFails
  <2> QED BY <1>0, <2>1, <2>2
<1>5. CASE \E k \in Members : Forget(k)
  <2>1. PICK k \in Members : Forget(k)
    BY <1>5
  <2>2. worker' = [worker EXCEPT ![k] = [v \in Workers |-> Idle]]
        /\ status' = [status EXCEPT ![k] = "down"]
    BY <2>1 DEF Forget
  <2> QED BY <1>0, <2>2
<1>6. CASE UNCHANGED worker
  BY <1>6
<1> QED
  BY <1>1, <1>2, <1>3, <1>4, <1>5, <1>6, ZenonT(60)
  DEF Next, Dispatching, Committing, Working, Lifecycle, Assigning, Assign, Rebalance,
      GiveTo, Fetch, DropHand, Complete, CommitLands, CommitFails, Cancel, Stop, Crash,
      Restart

LEMMA HandChange ==
  ASSUME TypeOK, Next, NEW m \in Members
  PROVE  \/ hand'[m] = hand[m]
         \/ hand'[m] = NoRecord /\ HandOver(m)
         \/ hand'[m] = NoRecord /\ status'[m] # "running"
         \/ \E p \in Partitions :
              Fetch(m, p) /\ hand'[m] = [partition |-> p, offset |-> position[m][p]]
<1>0. hand \in [Members -> Kafka \union {NoRecord}]
      /\ status \in [Members -> {"running", "draining", "down"}]
  BY DEF TypeOK
<1>1. CASE \E k \in Members : HandOver(k)
  <2>1. PICK k \in Members : HandOver(k)
    BY <1>1
  <2> QED BY <1>0, <2>1 DEF HandOver
<1>2. CASE \E k \in Members : DropHand(k)
  <2>1. PICK k \in Members : DropHand(k)
    BY <1>2
  <2> QED BY <1>0, <2>1 DEF DropHand
<1>3. CASE \E k \in Members, p \in Partitions : Fetch(k, p)
  <2>1. PICK k \in Members, p \in Partitions : Fetch(k, p)
    BY <1>3
  <2>2. hand' = [hand EXCEPT ![k] = [partition |-> p, offset |-> position[k][p]]]
    BY <2>1 DEF Fetch
  <2> QED BY <1>0, <2>1, <2>2
<1>4. CASE \E k \in Members : Forget(k)
  <2>1. PICK k \in Members : Forget(k)
    BY <1>4
  <2> QED BY <1>0, <2>1 DEF Forget
<1>5. CASE UNCHANGED hand
  BY <1>5
<1> QED
  BY <1>1, <1>2, <1>3, <1>4, <1>5, ZenonT(60)
  DEF Next, Dispatching, Committing, Working, Lifecycle, Assigning, Assign, Rebalance,
      GiveTo, HandlerReturns, HandlerFails, SendFinished, Complete, CommitLands,
      CommitFails, Cancel, Stop, Crash, Restart

LEMMA FetchChange ==
  ASSUME TypeOK, Next, NEW m \in Members, NEW p \in Partitions, owner'[p] = m
  PROVE  \/ /\ GiveTo(p, m) /\ position'[m][p] = committed[p]
            /\ Assign(p, m) \/ Rebalance(p, m)
         \/ owner[p] = m /\ position'[m][p] = position[m][p]
         \/ owner[p] = m /\ Fetch(m, p) /\ position'[m][p] = position[m][p] + 1
<1>0. /\ owner \in [Partitions -> Members \union {Nobody}]
      /\ position \in [Members -> [Partitions -> 0..LogLength]]
  BY DEF TypeOK
<1>1. CASE \E q \in Partitions, k \in Members : Assign(q, k) \/ Rebalance(q, k)
  <2>1. PICK q \in Partitions, k \in Members : Assign(q, k) \/ Rebalance(q, k)
    BY <1>1
  <2>2. GiveTo(q, k)
    BY <2>1 DEF Assign, Rebalance
  <2>3. owner' = [owner EXCEPT ![q] = k] /\ position' = [position EXCEPT ![k][q] = committed[q]]
    BY <2>2 DEF GiveTo
  <2>4. CASE q = p
    <3>1. k = m /\ position'[m][p] = committed[p]
      BY <1>0, <2>3, <2>4
    <3> QED BY <2>1, <2>2, <2>4, <3>1
  <2>5. CASE q # p
    BY <1>0, <2>3, <2>5
  <2> QED BY <2>4, <2>5
<1>2. CASE \E k \in Members, q \in Partitions : Fetch(k, q)
  <2>1. PICK k \in Members, q \in Partitions : Fetch(k, q)
    BY <1>2
  <2>2. position' = [position EXCEPT ![k][q] = position[k][q] + 1] /\ UNCHANGED owner
    BY <2>1 DEF Fetch, brokerVars
  <2> QED BY <1>0, <2>1, <2>2
<1>3. CASE \E k \in Members : Forget(k)
  <2>1. PICK k \in Members : Forget(k)
    BY <1>3
  <2>2. owner' = [q \in Partitions |-> IF owner[q] = k THEN Nobody ELSE owner[q]]
        /\ UNCHANGED position
    BY <2>1 DEF Forget
  <2> QED BY <1>0, <2>2, KeyedAssumption
<1>4. CASE UNCHANGED <<owner, position>>
  BY <1>4
<1> QED
  BY <1>1, <1>2, <1>3, <1>4, ZenonT(60)
  DEF Next, Dispatching, Committing, Working, Lifecycle, Assigning,
      HandOver, DropHand, HandlerReturns, HandlerFails, SendFinished, Complete,
      CommitLands, CommitFails, Cancel, Stop, Crash, Restart, brokerVars

\* A member begins to run only from nothing.
LEMMA StatusChange ==
  ASSUME TypeOK, Next, NEW m \in Members, status'[m] = "running"
  PROVE  \/ status[m] = "running"
         \/ status[m] = "down" /\ UNCHANGED <<owner, hand, worker, next>>
<1>0. status \in [Members -> {"running", "draining", "down"}]
  BY DEF TypeOK
<1>1. CASE \E k \in Members : status' = [status EXCEPT ![k] = "draining"]
  BY <1>0, <1>1
<1>2. CASE \E k \in Members : Forget(k)
  BY <1>0, <1>2 DEF Forget
<1>3. CASE \E k \in Members : Restart(k)
  BY <1>0, <1>3 DEF Restart, brokerVars, trackerVars
<1>4. CASE UNCHANGED status
  BY <1>4
<1> QED
  BY <1>1, <1>2, <1>3, <1>4, ZenonT(60)
  DEF Next, Dispatching, Committing, Working, Lifecycle, Assigning, Assign, Rebalance,
      GiveTo, Fetch, HandOver, DropHand, HandlerReturns, HandlerFails, SendFinished, Complete,
      CommitLands, CommitFails, Cancel, Stop, Crash

(***************************************************************************)
(* Keys in order.  A member takes the records of a partition in the order  *)
(* of the log, and a record waits in its hand until the worker of its key  *)
(* is done with the one before.                                            *)
(***************************************************************************)
Rec(p, o)     == [partition |-> p, offset |-> o]
Earlier(p, o) == {e \in Offsets : e < o /\ Key[p][e] = Key[p][o]}
\* The worker of its key is at the record.
At(m, p, o) ==
  worker[m][WorkerFor[Key[p][o]]] = [phase |-> "handling", rec |-> Rec(p, o)]
InHandling(m, p, o) == o \in resolved[p] \/ At(m, p, o)

DownIsEmpty ==
  \A m \in Members : status[m] = "down" =>
    /\ Drained(m)
    /\ \A p \in Partitions : owner[p] # m
HandlingInTurn ==
  \A m \in Members, w \in Workers, p \in Partitions, o \in Offsets :
    worker[m][w] = [phase |-> "handling", rec |-> Rec(p, o)] =>
      Earlier(p, o) \subseteq resolved[p]
HandInTurn ==
  \A m \in Members, p \in Partitions, o \in Offsets :
    status[m] = "running" /\ hand[m] = Rec(p, o) =>
      \A e \in Earlier(p, o) : InHandling(m, p, e)
FetchedInTurn ==
  \A m \in Members, p \in Partitions :
    status[m] = "running" /\ owner[p] = m =>
      \A e \in Offsets : e < position[m][p] =>
         InHandling(m, p, e) \/ hand[m] = Rec(p, e)

OrderInv ==
  KeyedInv /\ DownIsEmpty /\ HandlingInTurn /\ HandInTurn /\ FetchedInTurn /\ KeysInOrder

LEMMA RecIs ==
  /\ \A p \in Partitions, o \in Offsets :
       Rec(p, o) \in Kafka /\ Rec(p, o) # NoRecord
       /\ WorkerOf(Rec(p, o)) = WorkerFor[Key[p][o]]
       /\ WorkerFor[Key[p][o]] \in Workers
  /\ \A rec \in Kafka : rec.partition \in Partitions /\ rec.offset \in Offsets
                        /\ rec = Rec(rec.partition, rec.offset)
<1>1. \A p \in Partitions, o \in Offsets :
        Rec(p, o) \in Kafka /\ Rec(p, o).partition = p /\ Rec(p, o).offset = o
  BY DEF Rec, Kafka
<1>2. \A rec \in Kafka : rec.partition \in Partitions /\ rec.offset \in Offsets
                         /\ rec = Rec(rec.partition, rec.offset)
  BY DEF Rec, Kafka
<1> QED BY <1>1, <1>2, RealRecords, KeyedAssumption DEF WorkerOf

LEMMA DownStep ==
  ASSUME TypeOK, DownIsEmpty, Next
  PROVE  DownIsEmpty'
<1> SUFFICES ASSUME NEW m \in Members, status'[m] = "down"
             PROVE  (Drained(m) /\ \A p \in Partitions : owner[p] # m)'
  BY DEF DownIsEmpty
<1>0. /\ status \in [Members -> {"running", "draining", "down"}]
      /\ owner \in [Partitions -> Members \union {Nobody}]
      /\ worker \in [Members -> [Workers -> Work]]
      /\ hand \in [Members -> Kafka \union {NoRecord}]
      /\ commit \in [Members -> Kafka \union {NoRecord}]
      /\ finished \in [Members -> Seq(Kafka)]
  BY DEF TypeOK, Work
<1>1. CASE \E k \in Members : Forget(k)
  <2>1. PICK k \in Members : Forget(k)
    BY <1>1
  <2>2. CASE k = m
    <3>1. Drained(m)'
      BY <1>0, <2>1, <2>2 DEF Forget, Drained
    <3>2. \A p \in Partitions : owner'[p] # m
      BY <2>1, <2>2, KeyedAssumption DEF Forget
    <3> QED BY <3>1, <3>2
  <2>3. CASE k # m
    <3>1. status[m] = "down"
      BY <1>0, <2>1, <2>3 DEF Forget
    <3>2. Drained(m) /\ \A p \in Partitions : owner[p] # m
      BY <3>1 DEF DownIsEmpty
    <3>3. Drained(m)'
      BY <1>0, <2>1, <2>3, <3>2 DEF Forget, Drained
    <3>4. \A p \in Partitions : owner'[p] # m
      BY <2>1, <3>2, KeyedAssumption DEF Forget
    <3> QED BY <3>3, <3>4
  <2> QED BY <2>2, <2>3
<1>2. CASE status'[m] = status[m] /\ ~\E k \in Members : Forget(k)
  <2>1. Drained(m) /\ \A p \in Partitions : owner[p] # m
    BY <1>2 DEF DownIsEmpty
  <2>2. hand[m] = NoRecord /\ finished[m] = <<>> /\ commit[m] = NoRecord
        /\ \A w \in Workers : worker[m][w] = Idle
    BY <2>1 DEF Drained
  <2>3. \A w \in Workers : worker[m][w].phase = "idle"
    BY <2>2, RealRecords
  <2>4. \A w \in Workers : worker'[m][w] = Idle
    BY <2>2, <2>3, WorkerChange DEF HandOver, HandlerReturns
  <2>5. hand'[m] = NoRecord
    BY <1>2, <2>2, HandChange DEF Fetch
  <2>6. \A p \in Partitions : owner'[p] # m
    BY <1>2, <2>1, FetchChange DEF GiveTo
  <2>7. finished'[m] = <<>>
    <3>1. CASE \E k \in Members, w \in Workers : SendFinished(k, w)
      <4>1. PICK k \in Members, w \in Workers : SendFinished(k, w)
        BY <3>1
      <4>2. k # m
        BY <2>3, <4>1 DEF SendFinished
      <4> QED BY <1>0, <2>2, <4>1, <4>2 DEF SendFinished
    <3>2. CASE \E k \in Members : Complete(k)
      <4>1. PICK k \in Members : Complete(k)
        BY <3>2
      <4>2. k # m
        BY <2>2, <4>1 DEF Complete
      <4> QED BY <1>0, <2>2, <4>1, <4>2 DEF Complete
    <3>3. CASE UNCHANGED finished
      BY <2>2, <3>3
    <3> QED
      BY <1>2, <3>1, <3>2, <3>3, ZenonT(60)
      DEF Next, Dispatching, Committing, Working, Lifecycle, Assigning, Assign, Rebalance,
          GiveTo, Fetch, HandOver, DropHand, HandlerReturns, HandlerFails, CommitLands,
          CommitFails, Cancel, Stop, Crash, Restart
  <2>8. commit'[m] = NoRecord
    <3>1. CASE \E k \in Members : Complete(k)
      <4>1. PICK k \in Members : Complete(k)
        BY <3>1
      <4>2. k # m
        BY <2>2, <4>1 DEF Complete
      <4>3. \/ UNCHANGED commit
            \/ \E rec : commit' = [commit EXCEPT ![k] = rec]
        BY <4>1, CompleteCases DEF Folds
      <4> QED BY <1>0, <2>2, <4>2, <4>3
    <3>2. CASE \E k \in Members : commit' = [commit EXCEPT ![k] = NoRecord]
      BY <1>0, <2>2, <3>2
    <3>3. CASE UNCHANGED commit
      BY <2>2, <3>3
    <3> QED
      BY <1>2, <3>1, <3>2, <3>3, ZenonT(60)
      DEF Next, Dispatching, Committing, Working, Lifecycle, Assigning, Assign, Rebalance,
          GiveTo, Fetch, HandOver, DropHand, HandlerReturns, HandlerFails, SendFinished,
          CommitLands, CommitFails, Cancel, Stop, Crash, Restart
  <2> QED BY <2>4, <2>5, <2>6, <2>7, <2>8 DEF Drained
<1>3. CASE \E k \in Members : status' = [status EXCEPT ![k] = "draining"]
  <2>1. status'[m] = status[m]
    BY <1>0, <1>3
  <2> QED BY <1>1, <1>2, <2>1
<1>4. CASE \E k \in Members : status' = [status EXCEPT ![k] = "running"]
  <2>1. status'[m] = status[m]
    BY <1>0, <1>4
  <2> QED BY <1>1, <1>2, <2>1
<1>5. CASE UNCHANGED status
  BY <1>1, <1>2, <1>5
<1> QED
  BY <1>1, <1>3, <1>4, <1>5, ZenonT(60)
  DEF Next, Dispatching, Committing, Working, Lifecycle, Assigning, Assign, Rebalance,
      GiveTo, Fetch, HandOver, DropHand, HandlerReturns, HandlerFails, SendFinished,
      Complete, CommitLands, CommitFails, Cancel, Stop, Crash, Restart

\* A record in its worker stays there until it is resolved, while its member runs.
LEMMA InHandlingStays ==
  ASSUME TypeOK, Next, NEW m \in Members, NEW p \in Partitions, NEW o \in Offsets,
         InHandling(m, p, o), status'[m] = "running"
  PROVE  InHandling(m, p, o)'
<1>1. CASE o \in resolved[p]
  BY <1>1, ResolvedGrows DEF InHandling
<1>2. CASE At(m, p, o)
  <2>1. PICK w \in Workers : w = WorkerFor[Key[p][o]]
    BY RecIs
  <2>2. worker[m][w] = [phase |-> "handling", rec |-> Rec(p, o)]
    BY <1>2, <2>1 DEF At
  <2>3. worker[m][w].phase = "handling" /\ worker[m][w].rec = Rec(p, o)
        /\ worker[m][w] # Idle
    BY <2>2, RealRecords
  <2>4. CASE worker'[m][w] = worker[m][w]
    BY <2>1, <2>2, <2>4 DEF At, InHandling
  <2>5. CASE HandlerReturns(m, w)
    <3>1. resolved' = [resolved EXCEPT ![p] = @ \union {o}]
      BY <2>3, <2>5 DEF HandlerReturns, Rec
    <3> QED BY <3>1 DEF TypeOK, InHandling
  <2>6. ~HandOver(m) \/ w # WorkerOf(hand[m])
    BY <2>3 DEF HandOver
  <2>7. ~SendFinished(m, w)
    BY <2>3 DEF SendFinished
  <2> QED BY <2>4, <2>5, <2>6, <2>7, WorkerChange
<1> QED BY <1>1, <1>2 DEF InHandling

LEMMA HandlingStep ==
  ASSUME TypeOK, HandlingInTurn, HandInTurn, Next
  PROVE  HandlingInTurn'
<1> SUFFICES ASSUME NEW m \in Members, NEW w \in Workers, NEW p \in Partitions,
                    NEW o \in Offsets,
                    worker'[m][w] = [phase |-> "handling", rec |-> Rec(p, o)]
             PROVE  Earlier(p, o) \subseteq resolved'[p]
  BY DEF HandlingInTurn
<1>1. worker'[m][w].phase = "handling" /\ worker'[m][w].rec = Rec(p, o)
      /\ worker'[m][w] # Idle
  BY RealRecords
<1>2. CASE worker'[m][w] = worker[m][w]
  BY <1>2, ResolvedGrows DEF HandlingInTurn
<1>3. CASE /\ HandOver(m) /\ hand[m] \in Kafka /\ w = WorkerOf(hand[m])
           /\ worker'[m][w] = [phase |-> IF status[m] = "running" THEN "handling"
                                         ELSE "cancelled", rec |-> hand[m]]
  <2>1. status[m] = "running" /\ hand[m] = Rec(p, o) /\ worker[m][w] = Idle
    BY <1>1, <1>3 DEF HandOver
  <2>2. w = WorkerFor[Key[p][o]]
    BY <1>3, <2>1, RecIs
  <2>3. ASSUME NEW e \in Earlier(p, o) PROVE e \in resolved[p]
    <3>1. InHandling(m, p, e)
      BY <2>1 DEF HandInTurn
    <3>2. Key[p][e] = Key[p][o]
      BY DEF Earlier
    <3>3. ~At(m, p, e)
      BY <2>1, <2>2, <3>2, RealRecords DEF At
    <3> QED BY <3>1, <3>3 DEF InHandling
  <2> QED BY <2>3, ResolvedGrows
<1>4. CASE HandlerReturns(m, w) /\ worker'[m][w] = Sent(worker[m][w])
  <2>1. worker[m][w] \in Work /\ worker[m][w].phase = "handling"
    BY <1>4 DEF TypeOK, Work, HandlerReturns
  <2> QED BY <1>1, <1>4, <2>1, SentState
<1> QED BY <1>1, <1>2, <1>3, <1>4, WorkerChange

LEMMA HandStep ==
  ASSUME TypeOK, DownIsEmpty, HandInTurn, FetchedInTurn, Next
  PROVE  HandInTurn'
<1> SUFFICES ASSUME NEW m \in Members, NEW p \in Partitions, NEW o \in Offsets,
                    status'[m] = "running", hand'[m] = Rec(p, o),
                    NEW e \in Earlier(p, o)
             PROVE  InHandling(m, p, e)'
  BY DEF HandInTurn
<1>1. e \in Offsets /\ e < o /\ hand'[m] # NoRecord
  BY RecIs DEF Earlier
<1>2. status[m] = "running"
  <2>1. CASE status[m] = "down" /\ UNCHANGED hand
    BY <1>1, <2>1 DEF DownIsEmpty, Drained
  <2> QED BY <2>1, StatusChange
<1>3. CASE hand'[m] = hand[m]
  BY <1>1, <1>2, <1>3, InHandlingStays DEF HandInTurn
<1>4. CASE \E q \in Partitions :
             Fetch(m, q) /\ hand'[m] = [partition |-> q, offset |-> position[m][q]]
  <2>1. Fetch(m, p) /\ o = position[m][p]
    BY <1>4 DEF Rec
  <2>2. owner[p] = m /\ hand[m] = NoRecord
    BY <2>1 DEF Fetch
  <2>3. InHandling(m, p, e)
    BY <1>1, <1>2, <2>1, <2>2, RecIs DEF FetchedInTurn
  <2> QED BY <1>1, <2>3, InHandlingStays
<1> QED BY <1>1, <1>3, <1>4, HandChange

LEMMA FetchedStep ==
  ASSUME TypeOK, CommittedBehind, DownIsEmpty, FetchedInTurn, Next
  PROVE  FetchedInTurn'
<1> SUFFICES ASSUME NEW m \in Members, NEW p \in Partitions, status'[m] = "running",
                    owner'[p] = m, NEW e \in Offsets, e < position'[m][p]
             PROVE  (InHandling(m, p, e) \/ hand[m] = Rec(p, e))'
  BY DEF FetchedInTurn
<1>1. status[m] = "running"
  <2>1. CASE status[m] = "down" /\ UNCHANGED owner
    BY <2>1 DEF DownIsEmpty
  <2> QED BY <2>1, StatusChange
<1>2. CASE position'[m][p] = committed[p]
  BY <1>2, ResolvedGrows DEF CommittedBehind, Prefix, InHandling
<1>3. CASE InHandling(m, p, e)
  BY <1>3, InHandlingStays
<1>4. CASE hand[m] = Rec(p, e)
  <2>1. hand[m] # NoRecord
    BY <1>4, RecIs
  <2>2. CASE HandOver(m)
    <3>1. PICK w \in Workers : w = WorkerFor[Key[p][e]] /\ w = WorkerOf(Rec(p, e))
      BY RecIs
    <3>2. worker' = [worker EXCEPT ![m][w] = [phase |-> "handling", rec |-> hand[m]]]
      BY <1>1, <1>4, <2>2, <3>1 DEF HandOver
    <3>3. worker'[m][w] = [phase |-> "handling", rec |-> hand[m]]
      BY <3>2 DEF TypeOK
    <3> QED BY <1>4, <3>1, <3>3 DEF At, InHandling
  <2>3. \A q \in Partitions : ~Fetch(m, q)
    BY <2>1 DEF Fetch
  <2> QED BY <1>4, <2>2, <2>3, HandChange
<1>5. CASE owner[p] = m /\ position'[m][p] = position[m][p]
  BY <1>1, <1>3, <1>4, <1>5 DEF FetchedInTurn
<1>6. CASE owner[p] = m /\ Fetch(m, p) /\ position'[m][p] = position[m][p] + 1
  <2>1. position[m][p] \in Int /\ e \in Int
    BY KeyedAssumption DEF TypeOK, Offsets
  <2>2. CASE e < position[m][p]
    BY <1>1, <1>3, <1>4, <1>6, <2>2 DEF FetchedInTurn
  <2>3. CASE e = position[m][p]
    <3>1. hand' = [hand EXCEPT ![m] = Rec(p, e)]
      BY <1>6, <2>3 DEF Fetch, Rec
    <3> QED BY <3>1 DEF TypeOK
  <2> QED BY <1>6, <2>1, <2>2, <2>3
<1> QED BY <1>2, <1>5, <1>6, FetchChange

LEMMA KeysStep ==
  ASSUME TypeOK, HandlingInTurn, KeysInOrder, Next
  PROVE  KeysInOrder'
<1> SUFFICES ASSUME NEW p \in Partitions, NEW o \in resolved'[p], NEW e \in Offsets,
                    e < o, Key[p][e] = Key[p][o]
             PROVE  e \in resolved'[p]
  BY DEF KeysInOrder
<1>1. CASE o \in resolved[p]
  BY <1>1, ResolvedGrows DEF KeysInOrder
<1>2. CASE \E m \in Members, w \in Workers : HandlerReturns(m, w)
  <2>1. PICK m \in Members, w \in Workers : HandlerReturns(m, w)
    BY <1>2
  <2>2. worker[m][w] \in Work /\ worker[m][w].phase = "handling"
    BY <2>1 DEF TypeOK, Work, HandlerReturns
  <2>3. PICK rec \in Kafka : rec = worker[m][w].rec
    BY <2>2, RealRecords
  <2>4. worker[m][w] = [phase |-> "handling", rec |-> rec]
    BY <2>2, <2>3, RealRecords DEF Work
  <2>5. resolved' = [resolved EXCEPT ![rec.partition] = @ \union {rec.offset}]
    BY <2>1, <2>3 DEF HandlerReturns
  <2>6. CASE o \notin resolved[p]
    <3>1. rec.partition = p /\ rec.offset = o
      BY <2>5, <2>6 DEF TypeOK
    <3>2. rec = Rec(p, o) /\ o \in Offsets
      BY <3>1, RecIs
    <3>3. e \in resolved[p]
      BY <2>4, <3>2 DEF HandlingInTurn, Earlier
    <3> QED BY <3>3, ResolvedGrows
  <2> QED BY <1>1, <2>6
<1>3. CASE UNCHANGED resolved
  BY <1>1, <1>3
<1> QED
  BY <1>2, <1>3, ZenonT(60)
  DEF Next, Dispatching, Committing, Working, Lifecycle, Assigning, Assign, Rebalance,
      GiveTo, Fetch, HandOver, DropHand, HandlerFails, SendFinished, Complete,
      CommitLands, CommitFails, Cancel, Stop, Crash, Forget, Restart

LEMMA OrderInvariance == Spec => []OrderInv
<1>1. Init => OrderInv
  <2> SUFFICES ASSUME Init PROVE OrderInv
    OBVIOUS
  <2>1. KeyedInv
    BY InitInv
  <2>2. \A m \in Members : hand[m] = NoRecord /\ status[m] = "running"
    BY DEF Init
  <2>3. \A m \in Members, w \in Workers : worker[m][w].phase = "idle"
    BY RealRecords DEF Init
  <2>4. \A p \in Partitions : resolved[p] = {} /\ owner[p] = Nobody
    BY DEF Init
  <2>5. HandlingInTurn
    BY <2>3 DEF HandlingInTurn
  <2>6. HandInTurn
    BY <2>2, RecIs DEF HandInTurn
  <2>7. DownIsEmpty /\ FetchedInTurn
    BY <2>2, <2>4, KeyedAssumption DEF DownIsEmpty, FetchedInTurn
  <2>8. KeysInOrder
    BY <2>4 DEF KeysInOrder
  <2> QED BY <2>1, <2>5, <2>6, <2>7, <2>8 DEF OrderInv
<1>2. OrderInv /\ KeyedInv' /\ [Next]_vars => OrderInv'
  <2> SUFFICES ASSUME OrderInv, KeyedInv', [Next]_vars PROVE OrderInv'
    OBVIOUS
  <2>1. CASE UNCHANGED vars
    BY <2>1
    DEF vars, brokerVars, trackerVars, boundVars, OrderInv, DownIsEmpty, Drained,
        HandlingInTurn, HandInTurn, FetchedInTurn, KeysInOrder, InHandling, At
  <2>2. CASE Next
    <3>1. TypeOK /\ CommittedBehind
      BY DEF OrderInv, KeyedInv
    <3>2. DownIsEmpty' /\ HandlingInTurn'
      BY <2>2, <3>1, DownStep, HandlingStep DEF OrderInv
    <3>3. HandInTurn' /\ FetchedInTurn'
      BY <2>2, <3>1, HandStep, FetchedStep DEF OrderInv
    <3>4. KeysInOrder'
      BY <2>2, <3>1, KeysStep DEF OrderInv
    <3> QED BY <3>2, <3>3, <3>4 DEF OrderInv
  <2> QED BY <2>1, <2>2
<1> QED BY <1>1, <1>2, Invariance, PTL DEF Spec

\* Events of one payment are handled in the order they were sent, whatever runs
\* in parallel, crashes, or is delivered again.
THEOREM KeysStayInOrder == Spec => []KeysInOrder
<1>1. OrderInv => KeysInOrder
  BY DEF OrderInv
<1> QED BY <1>1, OrderInvariance, PTL

-----------------------------------------------------------------------------
(***************************************************************************)
(* Commits.  As long as no partition moves between live members, only its  *)
(* owner remembers anything of a partition, and the owner has committed,   *)
(* or is about to commit, all that its tracker has seen finished.          *)
(***************************************************************************)
Owns(m, p) ==
  /\ next[m][p] # Unseen => owner[p] = m /\ committed[p] <= next[m][p]
  /\ owner[p] = m /\ next[m][p] = Unseen => position[m][p] = committed[p]
  /\ commit[m] # NoRecord /\ commit[m].partition = p =>
        commit[m].offset + 1 = next[m][p]
  /\ next[m][p] # Unseen /\ ~broken[m] =>
        committed[p] >= next[m][p] \/ commit[m] = Rec(p, next[m][p] - 1)

Owned == \A m \in Members, p \in Partitions : Owns(m, p)

OwnTypes ==
  /\ owner \in [Partitions -> Members \union {Nobody}]
  /\ committed \in [Partitions -> 0..LogLength]
  /\ position \in [Members -> [Partitions -> 0..LogLength]]
  /\ next \in [Members -> [Partitions -> {Unseen} \union 0..LogLength]]
  /\ commit \in [Members -> Kafka \union {NoRecord}]
  /\ broken \in [Members -> BOOLEAN]
  /\ LogLength \in Nat

LEMMA OwnTypesHold == TypeOK => OwnTypes
  BY KeyedAssumption DEF TypeOK, OwnTypes

LEMMA AssignOwned ==
  ASSUME OwnTypes, Owned, NEW q \in Partitions, NEW k \in Members, Assign(q, k)
  PROVE  Owned'
<1> SUFFICES ASSUME NEW m \in Members, NEW p \in Partitions PROVE Owns(m, p)'
  BY DEF Owned
<1>1. /\ owner[q] = Nobody /\ owner' = [owner EXCEPT ![q] = k]
      /\ position' = [position EXCEPT ![k][q] = committed[q]]
      /\ UNCHANGED <<committed, next, commit, broken>>
  BY DEF Assign, GiveTo, trackerVars
<1>2. Owns(m, p)
  BY DEF Owned
<1>3. Nobody \notin Members
  BY KeyedAssumption
<1>4. CASE p = q
  <2>1. next[m][p] = Unseen
    BY <1>1, <1>2, <1>3, <1>4 DEF Owns
  <2>2. owner'[p] = k /\ (k = m => position'[m][p] = committed[p])
    BY <1>1, <1>4 DEF OwnTypes
  <2> QED BY <1>1, <1>2, <2>1, <2>2 DEF Owns
<1>5. CASE p # q
  <2>1. owner'[p] = owner[p] /\ position'[m][p] = position[m][p]
    BY <1>1, <1>5 DEF OwnTypes
  <2> QED BY <1>1, <1>2, <2>1 DEF Owns
<1> QED BY <1>4, <1>5

LEMMA FetchOwned ==
  ASSUME OwnTypes, Owned, NEW q \in Partitions, NEW k \in Members, Fetch(k, q)
  PROVE  Owned'
<1> SUFFICES ASSUME NEW m \in Members, NEW p \in Partitions PROVE Owns(m, p)'
  BY DEF Owned
<1>1. /\ owner[q] = k /\ UNCHANGED <<owner, committed, commit, broken>>
      /\ position' = [position EXCEPT ![k][q] = position[k][q] + 1]
      /\ next' = [next EXCEPT ![k][q] = IF @ = Unseen THEN position[k][q] ELSE @]
  BY DEF Fetch, brokerVars
<1>2. Owns(m, p)
  BY DEF Owned
<1>3. CASE p = q /\ m = k
  <2>1. next'[m][p] = IF next[m][p] = Unseen THEN position[m][p] ELSE next[m][p]
    BY <1>1, <1>3 DEF OwnTypes
  <2>2. position[m][p] \in Nat /\ committed[p] \in Nat /\ next'[m][p] # Unseen
    BY <2>1 DEF OwnTypes, Unseen
  <2>3. commit[m] # NoRecord => commit[m].offset + 1 # Unseen
    BY RealRecords DEF OwnTypes, Unseen, Offsets
  <2> QED BY <1>1, <1>2, <1>3, <2>1, <2>2, <2>3 DEF Owns
<1>4. CASE ~(p = q /\ m = k)
  <2>1. next'[m][p] = next[m][p] /\ position'[m][p] = position[m][p]
    BY <1>1, <1>4 DEF OwnTypes
  <2> QED BY <1>1, <1>2, <2>1 DEF Owns
<1> QED BY <1>3, <1>4

LEMMA CompleteOwned ==
  ASSUME TypeOK, OwnTypes, Owned, NEW k \in Members, Complete(k)
  PROVE  Owned'
<1> SUFFICES ASSUME NEW m \in Members, NEW p \in Partitions PROVE Owns(m, p)'
  BY DEF Owned
<1>1. commit[k] = NoRecord /\ UNCHANGED <<owner, committed, position, broken>>
  BY DEF Complete, brokerVars
<1>2. Owns(m, p)
  BY DEF Owned
<1>3. CASE UNCHANGED <<next, done, commit>>
  BY <1>1, <1>2, <1>3 DEF Owns
<1>4. CASE \E e : Folds(k, e)
  <2>1. PICK e : Folds(k, e)
    BY <1>4
  <2>2. PICK q \in Partitions : q = AtHead(k)
    BY HeadType
  <2>3. PICK n : n = next[k][q]
    OBVIOUS
  <2>4. /\ e \in n..LogLength /\ RunEnds(n, WithHead(k), e)
        /\ next' = [next EXCEPT ![k][q] = e]
        /\ commit' = IF e = n \/ broken[k] THEN commit
                     ELSE [commit EXCEPT ![k] = Rec(q, e - 1)]
    BY <2>1, <2>2, <2>3 DEF Folds, Rec
  <2>5. n \in Int /\ e \in Int /\ n <= e
    BY <2>3, <2>4 DEF OwnTypes, Unseen
  <2>6. n = Unseen => e = n
    <3> SUFFICES ASSUME n = Unseen, e # n PROVE FALSE
      OBVIOUS
    <3>1. n \in n..(e - 1)
      BY <2>5
    <3>2. n \in Offsets
      BY <2>4, <3>1, HeadType DEF RunEnds
    <3> QED BY <3>2, KeyedAssumption DEF Offsets, Unseen
  <2>7. CASE m # k
    <3>1. next'[m][p] = next[m][p] /\ commit'[m] = commit[m]
      BY <2>4, <2>7 DEF OwnTypes
    <3> QED BY <1>1, <1>2, <3>1 DEF Owns
  <2>8. CASE m = k /\ e = n
    <3>1. next'[m][p] = next[m][p] /\ commit' = commit
      BY <2>3, <2>4, <2>8 DEF OwnTypes
    <3> QED BY <1>1, <1>2, <3>1 DEF Owns
  <2>9. CASE m = k /\ e # n /\ p # q
    <3>1. next'[m][p] = next[m][p]
      BY <2>4, <2>9 DEF OwnTypes
    <3>2. commit'[m] = commit[m] \/ commit'[m] = Rec(q, e - 1)
      BY <2>4, <2>9 DEF OwnTypes
    <3>3. commit[m] = NoRecord
      BY <1>1, <2>9
    <3>4. commit'[m].partition # p \/ commit'[m] = NoRecord
      BY <2>9, <3>2, <3>3 DEF Rec
    <3>5. next[m][p] # Unseen /\ ~broken[m] => committed[p] >= next[m][p]
      <4>1. committed[p] >= 0 /\ next[m][p] \in {Unseen} \union 0..LogLength
            /\ LogLength \in Nat
        BY DEF OwnTypes
      <4>2. Rec(p, next[m][p] - 1) = NoRecord => next[m][p] = 0
        BY <4>1 DEF Rec, NoRecord, Unseen
      <4> QED BY <1>2, <3>3, <4>1, <4>2 DEF Owns
    <3> QED BY <1>1, <1>2, <3>1, <3>4, <3>5 DEF Owns
  <2>10. CASE m = k /\ e # n /\ p = q
    <3>1. next'[m][p] = e /\ next[m][p] = n /\ n # Unseen /\ e # Unseen
      BY <2>3, <2>4, <2>5, <2>6, <2>10 DEF OwnTypes, Unseen
    <3>2. commit'[m] = IF broken[m] THEN NoRecord ELSE Rec(p, e - 1)
      BY <1>1, <2>4, <2>10 DEF OwnTypes
    <3>3. Rec(p, e - 1).offset + 1 = e
      BY <2>5 DEF Rec
    <3>4. committed[p] \in Int /\ committed[p] <= n /\ owner[p] = m
      BY <1>2, <3>1 DEF Owns, OwnTypes
    <3> QED BY <1>1, <2>5, <3>1, <3>2, <3>3, <3>4 DEF Owns
  <2> QED BY <2>7, <2>8, <2>9, <2>10
<1> QED BY <1>3, <1>4, CompleteCases

LEMMA CommitOwned ==
  ASSUME OwnTypes, Owned, NEW k \in Members, CommitLands(k) \/ CommitFails(k)
  PROVE  Owned'
<1> SUFFICES ASSUME NEW m \in Members, NEW p \in Partitions PROVE Owns(m, p)'
  BY DEF Owned
<1>1. /\ commit[k] # NoRecord /\ commit' = [commit EXCEPT ![k] = NoRecord]
      /\ UNCHANGED <<owner, position, next>>
      /\ \/ UNCHANGED committed /\ broken' = [broken EXCEPT ![k] = TRUE]
         \/ /\ committed' = [committed EXCEPT ![commit[k].partition] = commit[k].offset + 1]
            /\ UNCHANGED broken \/ broken' = [broken EXCEPT ![k] = TRUE]
  BY DEF CommitLands, CommitFails, trackerVars
<1>2. Owns(m, p)
  BY DEF Owned
<1>3. PICK rec \in Kafka : rec = commit[k]
  BY <1>1 DEF OwnTypes
<1>4. PICK q \in Partitions, o \in Offsets : q = rec.partition /\ o = rec.offset /\ rec = Rec(q, o)
  BY RecIs
<1>5. o + 1 = next[k][q] /\ o + 1 # Unseen /\ owner[q] = k /\ o \in Int
  <2>1. Owns(k, q)
    BY DEF Owned
  <2>2. o \in Int /\ o + 1 # Unseen
    BY DEF Offsets, Unseen
  <2> QED BY <1>1, <1>3, <1>4, <2>1, <2>2 DEF Owns
<1>6. CASE m # k
  <2>1. p = q => next[m][p] = Unseen
    BY <1>2, <1>5, <1>6 DEF Owns
  <2>2. p = q => owner[p] # m
    BY <1>5, <1>6
  <2>3. p # q => committed'[p] = committed[p]
    BY <1>1, <1>3, <1>4 DEF OwnTypes
  <2>4. commit'[m] = commit[m] /\ broken'[m] = broken[m]
    BY <1>1, <1>6 DEF OwnTypes
  <2> QED BY <1>1, <1>2, <2>1, <2>2, <2>3, <2>4 DEF Owns
<1>7. CASE m = k /\ p # q
  <2>1. committed'[p] = committed[p] /\ commit'[m] = NoRecord
    BY <1>1, <1>3, <1>4, <1>7 DEF OwnTypes
  <2>2. broken'[m] \/ broken'[m] = broken[m]
    BY <1>1 DEF OwnTypes
  <2>3. commit[m] # Rec(p, next[m][p] - 1)
    BY <1>3, <1>4, <1>7 DEF Rec
  <2> QED BY <1>1, <1>2, <2>1, <2>2, <2>3 DEF Owns
<1>8. CASE m = k /\ p = q
  <2>1. commit'[m] = NoRecord /\ next[m][p] = o + 1 /\ next'[m][p] = next[m][p]
    BY <1>1, <1>5, <1>8 DEF OwnTypes
  <2>2. \/ committed'[p] = o + 1
        \/ committed'[p] = committed[p] /\ broken'[m]
    BY <1>1, <1>3, <1>4, <1>8 DEF OwnTypes
  <2> QED BY <1>1, <1>2, <1>5, <1>8, <2>1, <2>2 DEF Owns
<1> QED BY <1>6, <1>7, <1>8

LEMMA ForgetOwned ==
  ASSUME OwnTypes, Owned, NEW k \in Members, Forget(k)
  PROVE  Owned'
<1> SUFFICES ASSUME NEW m \in Members, NEW p \in Partitions PROVE Owns(m, p)'
  BY DEF Owned
<1>1. /\ owner'[p] = IF owner[p] = k THEN Nobody ELSE owner[p]
      /\ next' = [next EXCEPT ![k] = [q \in Partitions |-> Unseen]]
      /\ commit' = [commit EXCEPT ![k] = NoRecord]
      /\ broken' = [broken EXCEPT ![k] = FALSE]
      /\ UNCHANGED <<committed, position>>
  BY DEF Forget
<1>2. Owns(m, p)
  BY DEF Owned
<1>3. m # Nobody
  BY KeyedAssumption
<1>4. CASE m = k
  <2>1. next'[m][p] = Unseen /\ commit'[m] = NoRecord /\ owner'[p] # m
    BY <1>1, <1>3, <1>4 DEF OwnTypes
  <2> QED BY <2>1 DEF Owns
<1>5. CASE m # k
  <2>1. /\ next'[m][p] = next[m][p] /\ commit'[m] = commit[m] /\ broken'[m] = broken[m]
        /\ owner'[p] = m <=> owner[p] = m
    BY <1>1, <1>3, <1>5 DEF OwnTypes
  <2> QED BY <1>1, <1>2, <2>1 DEF Owns
<1> QED BY <1>4, <1>5

(***************************************************************************)
(* Gaps.  A record that has been fetched passes from the hand to its       *)
(* worker, from there to the channel, and from there to the tracker.       *)
(***************************************************************************)
\* Next is no rebalance while no partition has moved after it.
LEMMA StillUnmoved ==
  ASSUME TypeOK, Next, Unmoved'
  PROVE  Unmoved /\ \A q \in Partitions, k \in Members : ~Rebalance(q, k)
<1>1. rebalances \in Nat /\ rebalances' = 0
  BY DEF TypeOK, Unmoved
<1>2. \A q \in Partitions, k \in Members : ~Rebalance(q, k)
  BY <1>1 DEF Rebalance
<1>3. rebalances' = rebalances
  BY <1>2, ZenonT(60)
  DEF Next, Dispatching, Committing, Working, Lifecycle, Assigning, Assign, GiveTo, Fetch,
      HandOver, DropHand, HandlerReturns, HandlerFails, SendFinished, Complete,
      CommitLands, CommitFails, Cancel, Stop, Crash, Forget, Restart, boundVars, Fault
<1> QED BY <1>1, <1>2, <1>3 DEF Unmoved

LEMMA FinishedChange ==
  ASSUME TypeOK, Next, NEW m \in Members
  PROVE  \/ finished'[m] = finished[m]
         \/ \E w \in Workers : /\ worker[m][w].phase = "sending"
                               /\ finished'[m] = Append(finished[m], worker[m][w].rec)
         \/ Complete(m) /\ finished'[m] = Tail(finished[m])
         \/ status'[m] # "running"
<1>0. /\ finished \in [Members -> Seq(Kafka)]
      /\ status \in [Members -> {"running", "draining", "down"}]
  BY DEF TypeOK
<1>1. CASE \E k \in Members, w \in Workers : SendFinished(k, w)
  <2>1. PICK k \in Members, w \in Workers : SendFinished(k, w)
    BY <1>1
  <2> QED BY <1>0, <2>1 DEF SendFinished
<1>2. CASE \E k \in Members : Complete(k)
  <2>1. PICK k \in Members : Complete(k)
    BY <1>2
  <2>2. finished' = [finished EXCEPT ![k] = Tail(@)]
    BY <2>1 DEF Complete
  <2> QED BY <1>0, <2>1, <2>2
<1>3. CASE \E k \in Members : Forget(k)
  <2>1. PICK k \in Members : Forget(k)
    BY <1>3
  <2> QED BY <1>0, <2>1 DEF Forget
<1>4. CASE UNCHANGED finished
  BY <1>4
<1> QED
  BY <1>1, <1>2, <1>3, <1>4, ZenonT(60)
  DEF Next, Dispatching, Committing, Working, Lifecycle, Assigning, Assign, Rebalance,
      GiveTo, Fetch, HandOver, DropHand, HandlerReturns, HandlerFails, CommitLands,
      CommitFails, Cancel, Stop, Crash, Restart

LEMMA HoldsStays ==
  ASSUME TypeOK, Next, NEW m \in Members, status'[m] = "running",
         NEW rec \in Kafka, Holds(m, rec), ~(Complete(m) /\ HeadOf(m) = rec)
  PROVE  Holds(m, rec)'
<1>1. rec # NoRecord /\ Idle.rec = NoRecord
  BY RealRecords DEF Idle
<1>2. CASE hand[m] = rec
  <2>1. CASE HandOver(m)
    <3>1. PICK w \in Workers : w = WorkerOf(rec)
      BY KeyedAssumption, RealRecords DEF WorkerOf
    <3>2. PICK phase : worker' = [worker EXCEPT ![m][w] = [phase |-> phase, rec |-> rec]]
      BY <1>2, <2>1, <3>1 DEF HandOver
    <3>3. worker'[m][w].rec = rec
      BY <3>2 DEF TypeOK
    <3> QED BY <3>3 DEF Holds
  <2>2. \A p \in Partitions : ~Fetch(m, p)
    BY <1>1, <1>2 DEF Fetch
  <2> QED BY <1>2, <2>1, <2>2, HandChange DEF Holds
<1>3. ASSUME NEW w \in Workers, worker[m][w].rec = rec
      PROVE  Holds(m, rec)'
  <2>1. worker[m][w] \in Work /\ worker[m][w] # Idle
    BY <1>1, <1>3 DEF TypeOK, Work
  <2>2. CASE worker'[m][w] = worker[m][w]
    BY <1>3, <2>2 DEF Holds
  <2>3. CASE HandlerReturns(m, w) /\ worker'[m][w] = Sent(worker[m][w])
    <3>1. worker'[m][w].rec = rec
      BY <1>3, <2>1, <2>3, SentState DEF HandlerReturns
    <3> QED BY <3>1 DEF Holds
  <2>4. CASE SendFinished(m, w)
    <3>1. finished'[m] = Append(finished[m], rec) /\ finished[m] \in Seq(Kafka)
      BY <1>3, <2>4 DEF SendFinished, TypeOK
    <3>2. Len(finished'[m]) \in 1..Len(finished'[m])
          /\ finished'[m][Len(finished'[m])] = rec
      BY <3>1
    <3> QED BY <3>2 DEF Holds
  <2>5. ~HandOver(m) \/ w # WorkerOf(hand[m])
    BY <2>1 DEF HandOver
  <2> QED BY <2>2, <2>3, <2>4, <2>5, WorkerChange
<1>4. ASSUME NEW i \in 1..Len(finished[m]), finished[m][i] = rec
      PROVE  Holds(m, rec)'
  <2>0. finished[m] \in Seq(Kafka)
    BY DEF TypeOK
  <2>1. CASE finished'[m] = finished[m]
    BY <1>4, <2>1 DEF Holds
  <2>2. ASSUME NEW w \in Workers, worker[m][w].phase = "sending",
               finished'[m] = Append(finished[m], worker[m][w].rec)
        PROVE  Holds(m, rec)'
    <3>1. worker[m][w].rec \in Kafka
      BY <2>2, RealRecords DEF TypeOK, Work
    <3>2. i \in 1..Len(finished'[m]) /\ finished'[m][i] = rec
      BY <1>4, <2>0, <2>2, <3>1
    <3> QED BY <3>2 DEF Holds
  <2>3. CASE Complete(m) /\ finished'[m] = Tail(finished[m])
    <3>1. i # 1
      BY <1>4, <2>3, HeadType
    <3>2. finished[m] # <<>>
      BY <2>3 DEF Complete
    <3>3. i - 1 \in 1..Len(finished'[m]) /\ finished'[m][i - 1] = rec
      BY <1>4, <2>0, <2>3, <3>1, <3>2
    <3> QED BY <3>3 DEF Holds
  <2> QED BY <2>1, <2>2, <2>3, FinishedChange
<1> QED BY <1>2, <1>3, <1>4 DEF Holds

LEMMA TrackerChange ==
  ASSUME TypeOK, Next, NEW m \in Members, NEW p \in Partitions, status'[m] = "running"
  PROVE  \/ next'[m][p] = next[m][p] /\ done'[m][p] = done[m][p]
         \/ /\ Fetch(m, p) /\ done'[m][p] = done[m][p]
            /\ next'[m][p] = IF next[m][p] = Unseen THEN position[m][p] ELSE next[m][p]
         \/ \E k : /\ Complete(m) /\ AtHead(m) = p /\ next'[m][p] = k
                   /\ k \in next[m][p]..LogLength /\ RunEnds(next[m][p], WithHead(m), k)
                   /\ done'[m][p] = WithHead(m) \ (next[m][p]..(k - 1))
<1>0. /\ next \in [Members -> [Partitions -> {Unseen} \union 0..LogLength]]
      /\ done \in [Members -> [Partitions -> SUBSET Offsets]]
      /\ status \in [Members -> {"running", "draining", "down"}]
  BY DEF TypeOK
<1>1. CASE \E j \in Members, q \in Partitions : Fetch(j, q)
  <2>1. PICK j \in Members, q \in Partitions : Fetch(j, q)
    BY <1>1
  <2>2. next' = [next EXCEPT ![j][q] = IF @ = Unseen THEN position[j][q] ELSE @]
        /\ UNCHANGED done
    BY <2>1 DEF Fetch
  <2> QED BY <1>0, <2>1, <2>2
<1>2. CASE \E j \in Members : Complete(j)
  <2>1. PICK j \in Members : Complete(j)
    BY <1>2
  <2>2. CASE UNCHANGED <<next, done, commit>>
    BY <2>2
  <2>3. CASE \E k : Folds(j, k)
    <3>1. PICK k : Folds(j, k)
      BY <2>3
    <3>2. PICK q \in Partitions : q = AtHead(j)
      BY <2>1, HeadType
    <3>3. PICK d : d = WithHead(j) \ (next[j][q]..(k - 1))
      OBVIOUS
    <3>4. /\ next' = [next EXCEPT ![j][q] = k] /\ done' = [done EXCEPT ![j][q] = d]
          /\ k \in next[j][q]..LogLength /\ RunEnds(next[j][q], WithHead(j), k)
      BY <3>1, <3>2, <3>3 DEF Folds
    <3>5. CASE j = m /\ q = p
      <4>1. next'[m][p] = k /\ done'[m][p] = d
        BY <1>0, <3>4, <3>5
      <4> QED BY <2>1, <3>2, <3>3, <3>4, <3>5, <4>1
    <3>6. CASE ~(j = m /\ q = p)
      <4>1. next'[m][p] = next[m][p] /\ done'[m][p] = done[m][p]
        BY <1>0, <3>4, <3>6
      <4> QED BY <4>1
    <3> QED BY <3>5, <3>6
  <2> QED BY <2>1, <2>2, <2>3, CompleteCases
<1>3. CASE \E k \in Members : Forget(k)
  <2>1. PICK k \in Members : Forget(k)
    BY <1>3
  <2>2. k # m
    BY <1>0, <2>1 DEF Forget
  <2> QED BY <1>0, <2>1, <2>2 DEF Forget
<1>4. CASE UNCHANGED <<next, done>>
  BY <1>4
<1> QED
  BY <1>1, <1>2, <1>3, <1>4, ZenonT(60)
  DEF Next, Dispatching, Committing, Working, Lifecycle, Assigning, Assign, Rebalance,
      GiveTo, HandOver, DropHand, HandlerReturns, HandlerFails, SendFinished,
      CommitLands, CommitFails, Cancel, Stop, Crash, Restart, trackerVars

LEMMA GapsStep ==
  ASSUME TypeOK, DownIsEmpty, Owned, GapsAreInFlight, Next, Unmoved'
  PROVE  GapsAreInFlight'
<1> SUFFICES ASSUME NEW m \in Members, NEW p \in Partitions, owner'[p] = m,
                    status'[m] = "running", next'[m][p] # Unseen,
                    NEW o \in next'[m][p]..(position'[m][p] - 1)
             PROVE  o \in done'[m][p] \/ Holds(m, Rec(p, o))'
  BY DEF GapsAreInFlight, Rec
<1>1. /\ next[m][p] \in {Unseen} \union 0..LogLength /\ LogLength \in Nat
      /\ position[m][p] \in 0..LogLength
  BY KeyedAssumption DEF TypeOK
<1>2. status[m] = "running"
  <2>1. CASE status[m] = "down" /\ UNCHANGED owner
    BY <2>1 DEF DownIsEmpty
  <2> QED BY <2>1, StatusChange
<1>3. /\ next'[m][p] \in 0..LogLength /\ next[m][p] <= next'[m][p]
      /\ ~Fetch(m, p) => next[m][p] # Unseen
  <2>1. CASE next'[m][p] = next[m][p]
    BY <1>1, <2>1
  <2>2. CASE /\ Fetch(m, p)
             /\ next'[m][p] = IF next[m][p] = Unseen THEN position[m][p] ELSE next[m][p]
    BY <1>1, <2>2 DEF Unseen
  <2>3. ASSUME NEW k, Complete(m), AtHead(m) = p, next'[m][p] = k,
               k \in next[m][p]..LogLength, RunEnds(next[m][p], WithHead(m), k)
        PROVE  next'[m][p] \in 0..LogLength /\ next[m][p] <= next'[m][p]
               /\ next[m][p] # Unseen
    <3>1. CASE next[m][p] = Unseen
      <4>1. k \in Int /\ k > Unseen
        BY <1>1, <2>3, <3>1 DEF Unseen
      <4>2. Unseen \in WithHead(m)
        BY <2>3, <3>1, <4>1 DEF RunEnds, Unseen
      <4> QED BY <4>2, <2>3, HeadType, KeyedAssumption DEF Offsets, Unseen
    <3>2. CASE next[m][p] # Unseen
      BY <1>1, <2>3, <3>2
    <3> QED BY <3>1, <3>2
  <2> QED BY <2>1, <2>2, <2>3, TrackerChange
<1>4. CASE owner[p] = m /\ next[m][p] # Unseen /\ o < position[m][p]
  <2>1. o \in next[m][p]..(position[m][p] - 1)
    BY <1>1, <1>3, <1>4
  <2>2. o \in Offsets
    BY <1>1, <1>4, <2>1 DEF Offsets, Unseen
  <2>3. CASE o \in done[m][p]
    <3>1. ASSUME NEW k, AtHead(m) = p, next'[m][p] = k, k \in next[m][p]..LogLength,
                 done'[m][p] = WithHead(m) \ (next[m][p]..(k - 1))
          PROVE  o \in done'[m][p]
      <4>1. o \in WithHead(m)
        BY <2>3, <3>1 DEF WithHead
      <4>2. o \notin next[m][p]..(k - 1)
        BY <1>1, <1>3, <3>1
      <4> QED BY <3>1, <4>1, <4>2
    <3> QED BY <2>3, <3>1, TrackerChange
  <2>4. CASE Holds(m, Rec(p, o))
    <3>1. Rec(p, o) \in Kafka /\ Rec(p, o).partition = p /\ Rec(p, o).offset = o
      BY <2>2, RecIs DEF Rec
    <3>2. CASE Complete(m) /\ HeadOf(m) = Rec(p, o)
      <4>1. AtHead(m) = p /\ HeadOf(m).offset = o /\ o \in WithHead(m)
        BY <3>1, <3>2 DEF AtHead, WithHead
      <4>2. ~(HeadOf(m).offset < next[m][AtHead(m)])
        <5>1. o \in Int /\ next[m][p] \in Int /\ next[m][p] <= o
          BY <1>1, <2>1 DEF Unseen
        <5>2. ~(o < next[m][p])
          BY <5>1
        <5> QED BY <4>1, <5>2
      <4>3. PICK k : Folds(m, k)
        BY <3>2, <4>2 DEF Complete, HeadOf, AtHead, WithHead, Folds
      <4>4. next'[m][p] = k /\ done'[m][p] = WithHead(m) \ (next[m][p]..(k - 1))
            /\ k \in next[m][p]..LogLength
        <5>1. /\ next' = [next EXCEPT ![m][p] = k] /\ k \in next[m][p]..LogLength
              /\ done' = [done EXCEPT ![m][p] = WithHead(m) \ (next[m][p]..(k - 1))]
          BY <4>1, <4>3 DEF Folds
        <5> QED BY <5>1 DEF TypeOK
      <4>5. o \notin next[m][p]..(k - 1)
        BY <1>1, <1>3, <4>4
      <4> QED BY <4>1, <4>4, <4>5
    <3>3. CASE ~(Complete(m) /\ HeadOf(m) = Rec(p, o))
      BY <2>4, <3>1, <3>3, HoldsStays
    <3> QED BY <3>2, <3>3
  <2> QED BY <1>2, <1>4, <2>1, <2>3, <2>4 DEF GapsAreInFlight, Rec
<1>5. ~(Assign(p, m) \/ Rebalance(p, m))
  <2> SUFFICES ASSUME Assign(p, m) PROVE FALSE
    BY StillUnmoved
  <2>1. UNCHANGED next /\ owner[p] = Nobody
    BY DEF Assign, GiveTo, trackerVars
  <2>2. owner[p] = m
    BY <2>1 DEF Owned, Owns
  <2> QED BY <2>1, <2>2, KeyedAssumption
<1>6. CASE owner[p] = m /\ position'[m][p] = position[m][p]
  <2>1. CASE Fetch(m, p)
    BY <1>1, <1>6, <2>1 DEF Fetch, TypeOK
  <2>2. CASE ~Fetch(m, p)
    BY <1>1, <1>3, <1>4, <1>6, <2>2
  <2> QED BY <2>1, <2>2
<1>7. CASE owner[p] = m /\ Fetch(m, p) /\ position'[m][p] = position[m][p] + 1
  <2>1. o \in Int /\ (o < position[m][p] \/ o = position[m][p])
    BY <1>1, <1>3, <1>7
  <2>2. CASE o = position[m][p]
    <3>1. hand' = [hand EXCEPT ![m] = Rec(p, o)]
      BY <1>7, <2>2 DEF Fetch, Rec
    <3>2. hand'[m] = Rec(p, o)
      BY <3>1 DEF TypeOK
    <3> QED BY <3>2 DEF Holds
  <2>3. CASE o < position[m][p]
    <3>1. next' = [next EXCEPT ![m][p] =
                     IF next[m][p] = Unseen THEN position[m][p] ELSE next[m][p]]
      BY <1>7 DEF Fetch
    <3>2. next'[m][p] = IF next[m][p] = Unseen THEN position[m][p] ELSE next[m][p]
      BY <3>1 DEF TypeOK
    <3>3. next[m][p] # Unseen
      BY <1>1, <2>3, <3>2
    <3> QED BY <1>4, <1>7, <2>3, <3>3
  <2> QED BY <2>1, <2>2, <2>3
<1> QED BY <1>5, <1>6, <1>7, FetchChange

LEMMA OwnedStep ==
  ASSUME TypeOK, Owned, Next, Unmoved'
  PROVE  Owned'
<1>1. OwnTypes
  BY OwnTypesHold
<1>2. CASE \E q \in Partitions, k \in Members : Assign(q, k)
  BY <1>1, <1>2, AssignOwned
<1>3. CASE \E q \in Partitions, k \in Members : Fetch(k, q)
  BY <1>1, <1>3, FetchOwned
<1>4. CASE \E k \in Members : Complete(k)
  BY <1>1, <1>4, CompleteOwned
<1>5. CASE \E k \in Members : CommitLands(k) \/ CommitFails(k)
  BY <1>1, <1>5, CommitOwned
<1>6. CASE \E k \in Members : Forget(k)
  BY <1>1, <1>6, ForgetOwned
<1>7. CASE UNCHANGED <<owner, committed, position, next, commit, broken>>
  BY <1>7 DEF Owned, Owns
<1> QED
  BY <1>2, <1>3, <1>4, <1>5, <1>6, <1>7, StillUnmoved, ZenonT(60)
  DEF Next, Dispatching, Committing, Working, Lifecycle, Assigning, HandOver, DropHand,
      HandlerReturns, HandlerFails, SendFinished, Cancel, Stop, Crash, Restart,
      brokerVars, trackerVars

UnmovedInv == OrderInv /\ (Unmoved => Owned /\ GapsAreInFlight)

LEMMA UnmovedInvariance == Spec => []UnmovedInv
<1>1. Init => (Owned /\ GapsAreInFlight)
  <2> SUFFICES ASSUME Init PROVE Owned /\ GapsAreInFlight
    OBVIOUS
  <2>1. \A m \in Members, p \in Partitions :
          next[m][p] = Unseen /\ commit[m] = NoRecord /\ owner[p] = Nobody
    BY DEF Init
  <2> QED BY <2>1, KeyedAssumption DEF Owned, Owns, GapsAreInFlight
<1>2. UnmovedInv /\ OrderInv' /\ [Next]_vars => UnmovedInv'
  <2> SUFFICES ASSUME UnmovedInv, OrderInv', [Next]_vars, Unmoved'
               PROVE  Owned' /\ GapsAreInFlight'
    BY DEF UnmovedInv
  <2>1. TypeOK /\ DownIsEmpty
    BY DEF UnmovedInv, OrderInv, KeyedInv
  <2>2. CASE UNCHANGED vars
    BY <2>2
    DEF vars, brokerVars, trackerVars, boundVars, UnmovedInv, Unmoved, Owned, Owns,
        GapsAreInFlight, Holds
  <2>3. CASE Next
    <3>1. Owned /\ GapsAreInFlight
      BY <2>1, <2>3, StillUnmoved DEF UnmovedInv
    <3> QED BY <2>1, <2>3, <3>1, OwnedStep, GapsStep
  <2> QED BY <2>2, <2>3
<1> QED BY <1>1, <1>2, OrderInvariance, PTL DEF Spec, UnmovedInv

\* While no partition moves, the tracker never waits for a record that nobody
\* works on: every gap below what was fetched is in the member's hands.
THEOREM GapsAreWorkedOn == Spec => []UnmovedGapsAreInFlight
<1>1. UnmovedInv => UnmovedGapsAreInFlight
  BY DEF UnmovedInv, UnmovedGapsAreInFlight
<1> QED BY <1>1, UnmovedInvariance, PTL

\* Until a partition moves, no commit takes the group back, whichever member
\* crashed with a commit under way and whoever took its partitions over.
THEOREM CommitsOnlyForward == Spec => CommitsMoveForward
<1> DEFINE Forward == Unmoved => \A p \in Partitions : committed'[p] >= committed[p]
<1>1. UnmovedInv /\ [Next]_vars => Forward
  <2> SUFFICES ASSUME UnmovedInv, [Next]_vars, Unmoved, NEW p \in Partitions
               PROVE  committed'[p] >= committed[p]
    OBVIOUS
  <2>1. OwnTypes /\ Owned
    BY OwnTypesHold DEF UnmovedInv, OrderInv, KeyedInv
  <2>2. committed[p] \in Int
    BY <2>1 DEF OwnTypes
  <2>3. CASE UNCHANGED committed
    BY <2>2, <2>3
  <2>4. ASSUME NEW k \in Members, commit[k] # NoRecord,
               committed' = [committed EXCEPT ![commit[k].partition] = commit[k].offset + 1]
        PROVE  committed'[p] >= committed[p]
    <3>1. commit[k] \in Kafka
      BY <2>1, <2>4 DEF OwnTypes
    <3>2. CASE commit[k].partition = p
      <4>1. committed'[p] = commit[k].offset + 1 /\ commit[k].offset \in Offsets
        BY <2>1, <2>4, <3>1, <3>2, RealRecords DEF OwnTypes
      <4>2. commit[k].offset + 1 = next[k][p] /\ committed'[p] # Unseen
        BY <2>1, <2>4, <3>2, <4>1 DEF Owned, Owns, Offsets, Unseen
      <4> QED BY <2>1, <4>1, <4>2 DEF Owned, Owns
    <3>3. CASE commit[k].partition # p
      BY <2>1, <2>2, <2>4, <3>3 DEF OwnTypes
    <3> QED BY <3>2, <3>3
  <2>5. CASE UNCHANGED vars
    BY <2>3, <2>5 DEF vars, brokerVars
  <2>6. CASE Next
    <3>1. UNCHANGED committed \/ \E k \in Members : CommitLands(k) \/ CommitFails(k)
      BY <2>6, ZenonT(60)
      DEF Next, Dispatching, Committing, Working, Lifecycle, Assigning, Assign, Rebalance,
          GiveTo, Fetch, HandOver, DropHand, HandlerReturns, HandlerFails, SendFinished,
          Complete, Cancel, Stop, Crash, Forget, Restart, brokerVars
    <3> QED BY <2>3, <2>4, <3>1 DEF CommitLands, CommitFails
  <2> QED BY <2>5, <2>6
<1>2. UnmovedInv /\ [Next]_vars => [Forward]_vars
  BY <1>1
<1> QED BY <1>2, UnmovedInvariance, PTL DEF Spec, CommitsMoveForward

\* A member that is told to stop commits what it finished before it goes, unless
\* a commit of its own has failed or a partition has moved.
THEOREM StopCommits == Spec => StopCommitsPrefix
<1> DEFINE Committed ==
      \A m \in Members : Stop(m) /\ ~broken[m] /\ Unmoved =>
        \A p \in Partitions : next[m][p] # Unseen => committed[p] >= next[m][p]
<1>1. UnmovedInv => Committed
  <2> SUFFICES ASSUME UnmovedInv, NEW m \in Members, Stop(m), ~broken[m], Unmoved,
                      NEW p \in Partitions, next[m][p] # Unseen
               PROVE  committed[p] >= next[m][p]
    OBVIOUS
  <2>1. OwnTypes /\ Owned
    BY OwnTypesHold DEF UnmovedInv, OrderInv, KeyedInv
  <2>2. committed[p] >= next[m][p] \/ commit[m] = Rec(p, next[m][p] - 1)
    BY <2>1 DEF Owned, Owns
  <2>3. commit[m] = NoRecord
    BY DEF Stop, Drained
  <2>4. commit[m] = Rec(p, next[m][p] - 1) => next[m][p] = 0
    <3>1. next[m][p] \in Int
      BY <2>1 DEF OwnTypes, Unseen
    <3>2. NoRecord = Rec(p, next[m][p] - 1) => next[m][p] - 1 = -1
      BY DEF Rec, NoRecord, Unseen
    <3> QED BY <2>3, <3>1, <3>2
  <2>5. committed[p] >= 0
    BY <2>1 DEF OwnTypes
  <2> QED BY <2>2, <2>4, <2>5
<1>2. UnmovedInv /\ [Next]_vars => [Committed]_vars
  BY <1>1
<1> QED BY <1>2, UnmovedInvariance, PTL DEF Spec, StopCommitsPrefix
=============================================================================
