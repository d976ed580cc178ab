---------------------------- MODULE KeyedConsumer ----------------------------
(***************************************************************************)
(* ConsumeKeyed (internal/platform/kafkax/keyed.go): the members of a      *)
(* Kafka consumer group, each spreading the records it fetches over a pool *)
(* of workers by key and committing, per partition, the contiguous prefix  *)
(* of what has been handled.                                               *)
(*                                                                         *)
(* The broker keeps owner and committed; resolved is the outside effect of *)
(* the handlers.  Everything else is one member's memory: fetchAndDispatch *)
(* (position, hand), the workers, the channel of completed records, the    *)
(* commitTracker (next, done) and the committer (commit, broken).  A       *)
(* member that is down has none of it; coming back it starts afresh.       *)
(***************************************************************************)
EXTENDS Integers, Sequences, FiniteSets

CONSTANTS
  Members,        \* consumer processes of the group
  Partitions,
  LogLength,      \* records in each partition, at offsets 0..LogLength-1
  PoolSize,       \* workers of a member
  Key,            \* [partition -> [offset -> key]]
  WorkerFor,      \* [key -> worker], the hash of the key modulo PoolSize
  MaxFailures,    \* bound on crashes, stop signals, failed handlers and commits
  MaxRebalances   \* bound on moves of a partition away from a live member

Offsets == 0..(LogLength - 1)
Workers == 1..PoolSize
Nobody  == "nobody"

ASSUME KeyedAssumption ==
  /\ Nobody \notin Members
  /\ LogLength \in Nat /\ PoolSize \in Nat \ {0}
  /\ \A p \in Partitions, o \in Offsets : WorkerFor[Key[p][o]] \in Workers
  /\ MaxFailures \in Nat /\ MaxRebalances \in Nat

VARIABLES
  owner,       \* the member each partition is assigned to, or Nobody
  committed,   \* the group's committed offset: the next one to deliver
  resolved,    \* offsets some handler has resolved
  status,      \* of each member: "running", "draining" (cancelled) or "down"
  position,    \* next offset a member will fetch of each partition
  hand,        \* the fetched record waiting for its worker, or NoRecord
  worker,      \* what each worker is at
  finished,    \* channel from the workers to the committer
  next,        \* commitTracker.next, or Unseen
  done,        \* commitTracker.completed: finished beyond a gap
  commit,      \* the commit being issued, or NoRecord
  broken,      \* a commit has failed: keep draining, commit nothing more
  failures, rebalances

brokerVars  == <<owner, committed>>
trackerVars == <<next, done>>
boundVars   == <<failures, rebalances>>
vars == <<brokerVars, resolved, status, position, hand, worker, finished,
          trackerVars, commit, broken, boundVars>>

Unseen   == -1
NoRecord == [partition |-> Nobody, offset |-> Unseen]
Kafka    == [partition : Partitions, offset : Offsets]
Idle     == [phase |-> "idle", rec |-> NoRecord]

TypeOK ==
  /\ owner \in [Partitions -> Members \union {Nobody}]
  /\ committed \in [Partitions -> 0..LogLength]
  /\ resolved \in [Partitions -> SUBSET Offsets]
  /\ status \in [Members -> {"running", "draining", "down"}]
  /\ position \in [Members -> [Partitions -> 0..LogLength]]
  /\ hand \in [Members -> Kafka \union {NoRecord}]
  /\ worker \in [Members -> [Workers ->
       [phase : {"handling", "cancelled", "sending"}, rec : Kafka] \union {Idle}]]
  /\ finished \in [Members -> Seq(Kafka)]
  /\ next \in [Members -> [Partitions -> {Unseen} \union 0..LogLength]]
  /\ done \in [Members -> [Partitions -> SUBSET Offsets]]
  /\ commit \in [Members -> Kafka \union {NoRecord}]
  /\ broken \in [Members -> BOOLEAN]
  /\ failures \in Nat /\ rebalances \in Nat

Init ==
  /\ owner = [p \in Partitions |-> Nobody]
  /\ committed = [p \in Partitions |-> 0]
  /\ resolved = [p \in Partitions |-> {}]
  /\ status = [m \in Members |-> "running"]
  /\ position = [m \in Members |-> [p \in Partitions |-> 0]]
  /\ hand = [m \in Members |-> NoRecord]
  /\ worker = [m \in Members |-> [w \in Workers |-> Idle]]
  /\ finished = [m \in Members |-> <<>>]
  /\ next = [m \in Members |-> [p \in Partitions |-> Unseen]]
  /\ done = [m \in Members |-> [p \in Partitions |-> {}]]
  /\ commit = [m \in Members |-> NoRecord]
  /\ broken = [m \in Members |-> FALSE]
  /\ failures = 0 /\ rebalances = 0

\* Something goes wrong that need not.
Fault == failures < MaxFailures /\ failures' = failures + 1

-----------------------------------------------------------------------------
(***************************************************************************)
(* The group.  A member that is given a partition fetches from the         *)
(* committed offset; what it remembers of the partition is kept.           *)
(***************************************************************************)
GiveTo(p, m) ==
  /\ status[m] = "running"
  /\ owner' = [owner EXCEPT ![p] = m]
  /\ position' = [position EXCEPT ![m][p] = committed[p]]
  /\ UNCHANGED <<committed, resolved, status, hand, worker, finished,
                 trackerVars, commit, broken, failures>>

Assign(p, m) ==
  /\ owner[p] = Nobody
  /\ GiveTo(p, m)
  /\ UNCHANGED rebalances

\* Another member joined or left, and the partition moves while its owner lives.
Rebalance(p, m) ==
  /\ owner[p] \notin {Nobody, m}
  /\ rebalances < MaxRebalances
  /\ GiveTo(p, m)
  /\ rebalances' = rebalances + 1

-----------------------------------------------------------------------------
(***************************************************************************)
(* fetchAndDispatch.                                                       *)
(***************************************************************************)
\* The next record is taken from the fetch and shown to the tracker, which
\* notes where the partition starts the first time it meets it.
Fetch(m, p) ==
  LET o == position[m][p]
  IN  /\ status[m] = "running"
      /\ owner[p] = m
      /\ o < LogLength
      /\ hand[m] = NoRecord
      /\ hand' = [hand EXCEPT ![m] = [partition |-> p, offset |-> o]]
      /\ position' = [position EXCEPT ![m][p] = o + 1]
      /\ next' = [next EXCEPT ![m][p] = IF @ = Unseen THEN o ELSE @]
      /\ UNCHANGED <<brokerVars, resolved, status, worker, finished, done,
                     commit, broken, boundVars>>

\* Mutant: records are dealt to the workers in turn.
WorkerInTurn(rec) == 1 + (rec.offset % PoolSize)

WorkerOf(rec) == WorkerFor[Key[rec.partition][rec.offset]]

\* The channel of a worker is unbuffered: it takes a record only when idle.
\* After a cancellation the select may still pick this branch, and then the
\* handler runs with a dead context.
HandOver(m) ==
  /\ hand[m] # NoRecord
  /\ worker[m][WorkerOf(hand[m])] = Idle
  /\ status[m] \in {"running", "draining"}
  /\ worker' = [worker EXCEPT ![m][WorkerOf(hand[m])] =
       [phase |-> IF status[m] = "running" THEN "handling" ELSE "cancelled",
        rec |-> hand[m]]]
  /\ hand' = [hand EXCEPT ![m] = NoRecord]
  /\ UNCHANGED <<brokerVars, resolved, status, position, finished, trackerVars,
                 commit, broken, boundVars>>

\* The other branch: cancelled, fetchAndDispatch returns.
DropHand(m) ==
  /\ status[m] = "draining"
  /\ hand[m] # NoRecord
  /\ hand' = [hand EXCEPT ![m] = NoRecord]
  /\ UNCHANGED <<brokerVars, resolved, status, position, worker, finished,
                 trackerVars, commit, broken, boundVars>>

-----------------------------------------------------------------------------
(***************************************************************************)
(* The workers.                                                            *)
(***************************************************************************)
HandlerReturns(m, w) ==
  LET rec == worker[m][w].rec
  IN  /\ worker[m][w].phase = "handling"
      /\ resolved' = [resolved EXCEPT ![rec.partition] = @ \union {rec.offset}]
      /\ worker' = [worker EXCEPT ![m][w].phase = "sending"]
      /\ UNCHANGED <<brokerVars, status, position, hand, finished, trackerVars,
                     commit, broken, boundVars>>

\* fail: the member is cancelled and the record is never completed.  In a member
\* already cancelled a handler may fail for that alone.
HandlerFails(m, w) ==
  /\ \/ /\ \/ worker[m][w].phase = "cancelled"
           \/ worker[m][w].phase = "handling" /\ status[m] = "draining"
        /\ UNCHANGED failures
     \/ worker[m][w].phase = "handling" /\ Fault
  /\ worker' = [worker EXCEPT ![m][w] = Idle]
  /\ status' = [status EXCEPT ![m] = "draining"]
  /\ UNCHANGED <<brokerVars, resolved, position, hand, finished, trackerVars,
                 commit, broken, rebalances>>

\* Mutant: a full channel is not waited for.
SendOrDrop(m, w) ==
  /\ worker[m][w].phase = "sending"
  /\ finished' = IF Len(finished[m]) < PoolSize
                 THEN [finished EXCEPT ![m] = Append(@, worker[m][w].rec)]
                 ELSE finished
  /\ worker' = [worker EXCEPT ![m][w] = Idle]
  /\ UNCHANGED <<brokerVars, resolved, status, position, hand, trackerVars,
                 commit, broken, boundVars>>

SendFinished(m, w) ==
  /\ worker[m][w].phase = "sending"
  /\ Len(finished[m]) < PoolSize
  /\ finished' = [finished EXCEPT ![m] = Append(@, worker[m][w].rec)]
  /\ worker' = [worker EXCEPT ![m][w] = Idle]
  /\ UNCHANGED <<brokerVars, resolved, status, position, hand, trackerVars,
                 commit, broken, boundVars>>

-----------------------------------------------------------------------------
(***************************************************************************)
(* The committer.  complete folds the finished record into the tracker and *)
(* hands out the end of the contiguous prefix if it moved.                 *)
(***************************************************************************)
\* Mutant: the highest finished record is taken for the end of the run.
HighestEnds(n, completed, k) ==
  /\ k - 1 \in completed
  /\ \A i \in completed : i < k

\* Mutant: the run is followed for one record only.
OneStepEnds(n, completed, k) == k = IF n \in completed THEN n + 1 ELSE n

\* k is where the run of completed offsets that starts at n ends.
RunEnds(n, completed, k) ==
  /\ k \notin completed
  /\ \A i \in n..(k - 1) : i \in completed

\* Mutant: whatever has just finished is committed, without a tracker.
CompleteEach(m) ==
  /\ finished[m] # <<>>
  /\ commit[m] = NoRecord
  /\ finished' = [finished EXCEPT ![m] = Tail(@)]
  /\ commit' = [commit EXCEPT ![m] = IF broken[m] THEN NoRecord ELSE Head(finished[m])]
  /\ UNCHANGED <<brokerVars, resolved, status, position, hand, worker,
                 trackerVars, broken, boundVars>>

Complete(m) ==
  LET rec == Head(finished[m])
      p   == rec.partition
      n   == next[m][p]
      all == done[m][p] \union {rec.offset}
  IN  /\ finished[m] # <<>>
      /\ commit[m] = NoRecord
      /\ finished' = [finished EXCEPT ![m] = Tail(@)]
      /\ IF rec.offset < n
         THEN UNCHANGED <<trackerVars, commit>>
         ELSE \E k \in n..LogLength :
                /\ RunEnds(n, all, k)
                /\ next' = [next EXCEPT ![m][p] = k]
                /\ done' = [done EXCEPT ![m][p] = all \ (n..(k - 1))]
                /\ commit' = IF k = n \/ broken[m] THEN commit
                             ELSE [commit EXCEPT ![m] =
                                     [partition |-> p, offset |-> k - 1]]
      /\ UNCHANGED <<brokerVars, resolved, status, position, hand, worker,
                     broken, boundVars>>

\* The broker takes the commit.
CommitLands(m) ==
  /\ commit[m] # NoRecord
  /\ committed' = [committed EXCEPT ![commit[m].partition] = commit[m].offset + 1]
  /\ commit' = [commit EXCEPT ![m] = NoRecord]
  /\ UNCHANGED <<owner, resolved, status, position, hand, worker, finished,
                 trackerVars, broken, boundVars>>

\* The commit is refused, or its answer is lost after it took effect.
CommitFails(m) ==
  /\ Fault
  /\ commit[m] # NoRecord
  /\ \/ UNCHANGED committed
     \/ committed' = [committed EXCEPT ![commit[m].partition] = commit[m].offset + 1]
  /\ commit' = [commit EXCEPT ![m] = NoRecord]
  /\ broken' = [broken EXCEPT ![m] = TRUE]
  /\ status' = [status EXCEPT ![m] = "draining"]
  /\ UNCHANGED <<owner, resolved, position, hand, worker, finished, trackerVars,
                 rebalances>>

-----------------------------------------------------------------------------
(***************************************************************************)
(* Stopping, crashing and starting.                                        *)
(***************************************************************************)
Forget(m) ==
  /\ owner' = [p \in Partitions |-> IF owner[p] = m THEN Nobody ELSE owner[p]]
  /\ hand' = [hand EXCEPT ![m] = NoRecord]
  /\ worker' = [worker EXCEPT ![m] = [w \in Workers |-> Idle]]
  /\ finished' = [finished EXCEPT ![m] = <<>>]
  /\ next' = [next EXCEPT ![m] = [p \in Partitions |-> Unseen]]
  /\ done' = [done EXCEPT ![m] = [p \in Partitions |-> {}]]
  /\ commit' = [commit EXCEPT ![m] = NoRecord]
  /\ broken' = [broken EXCEPT ![m] = FALSE]
  /\ status' = [status EXCEPT ![m] = "down"]
  /\ UNCHANGED <<committed, resolved, position, rebalances>>

\* The signal that asks a member to stop.
Cancel(m) ==
  /\ Fault
  /\ status[m] = "running"
  /\ status' = [status EXCEPT ![m] = "draining"]
  /\ UNCHANGED <<brokerVars, resolved, position, hand, worker, finished,
                 trackerVars, commit, broken, rebalances>>

\* Mutant: the member does not wait for its committer.
DrainedWorkers(m) == hand[m] = NoRecord /\ \A w \in Workers : worker[m][w] = Idle

\* Workers first, then the committer, then ConsumeKeyed returns.
Drained(m) ==
  /\ hand[m] = NoRecord
  /\ \A w \in Workers : worker[m][w] = Idle
  /\ finished[m] = <<>>
  /\ commit[m] = NoRecord

Stop(m) ==
  /\ status[m] = "draining"
  /\ Drained(m)
  /\ Forget(m)
  /\ UNCHANGED failures

Crash(m) ==
  /\ Fault
  /\ status[m] # "down"
  /\ Forget(m)

Restart(m) ==
  /\ status[m] = "down"
  /\ status' = [status EXCEPT ![m] = "running"]
  /\ UNCHANGED <<brokerVars, resolved, position, hand, worker, finished,
                 trackerVars, commit, broken, boundVars>>

-----------------------------------------------------------------------------
Dispatching(m) == HandOver(m) \/ DropHand(m) \/ \E p \in Partitions : Fetch(m, p)
Working(m, w)  == HandlerReturns(m, w) \/ SendFinished(m, w) \/ HandlerFails(m, w)
Committing(m)  == Complete(m) \/ CommitLands(m)
Lifecycle(m)   == Stop(m) \/ Restart(m)
Assigning(p)   == \E m \in Members : Assign(p, m)

Next ==
  \/ \E m \in Members :
       \/ Dispatching(m) \/ Committing(m) \/ CommitFails(m)
       \/ \E w \in Workers : Working(m, w)
       \/ Lifecycle(m) \/ Cancel(m) \/ Crash(m)
       \/ \E p \in Partitions : Rebalance(p, m)
  \/ \E p \in Partitions : Assigning(p)

Spec == Init /\ [][Next]_vars

(***************************************************************************)
(* Every goroutine of a live member runs, a handler returns, commits are   *)
(* answered, a member that went down comes back (its orchestrator restarts *)
(* it), and the group coordinator assigns every partition.                 *)
(***************************************************************************)
Fairness ==
  /\ \A m \in Members :
       /\ WF_vars(Dispatching(m)) /\ WF_vars(Committing(m)) /\ WF_vars(Lifecycle(m))
       /\ \A w \in Workers : WF_vars(Working(m, w))
  /\ \A p \in Partitions : WF_vars(Assigning(p))

FairSpec == Spec /\ Fairness

-----------------------------------------------------------------------------
\* No record is skipped: below the committed offset every record has been
\* resolved, in whatever order the workers finished, crashed or moved.
NothingSkipped ==
  \A p \in Partitions, o \in Offsets : o < committed[p] => o \in resolved[p]

\* Records of one key are resolved in the order of the log, though workers run
\* in parallel, members crash and partitions move.
KeysInOrder ==
  \A p \in Partitions : \A o \in resolved[p], earlier \in Offsets :
     earlier < o /\ Key[p][earlier] = Key[p][o] => earlier \in resolved[p]

\* No partition has moved between live members yet.
Unmoved == rebalances = 0

\* Commits only move forward, so the group is never sent back to records it has
\* left behind, as long as no partition moves between live members.
CommitsMoveForward ==
  [][Unmoved => \A p \in Partitions : committed'[p] >= committed[p]]_vars

\* A graceful stop leaves nothing behind: what the member's workers resolved up
\* to the first unresolved record is committed before it goes down.
StopCommitsPrefix ==
  [][\A m \in Members : Stop(m) /\ ~broken[m] /\ Unmoved =>
       \A p \in Partitions :
          next[m][p] # Unseen => committed[p] >= next[m][p]]_vars

\* keyed.go: only a fetched but unfinished record pins the commit point.  What
\* the tracker of a partition's owner still waits for is on its way to it.
Holds(m, rec) ==
  \/ hand[m] = rec
  \/ \E w \in Workers : worker[m][w].rec = rec
  \/ \E i \in 1..Len(finished[m]) : finished[m][i] = rec

GapsAreInFlight ==
  \A m \in Members, p \in Partitions :
    owner[p] = m /\ status[m] = "running" /\ next[m][p] # Unseen =>
      \A o \in next[m][p]..(position[m][p] - 1) :
         o \in done[m][p] \/ Holds(m, [partition |-> p, offset |-> o])

\* The same, as long as no partition moves between live members.
UnmovedGapsAreInFlight == Unmoved => GapsAreInFlight

\* Every record of the log is resolved and committed in the end, unless a
\* partition moves between live members.
AllCommitted ==
  []Unmoved => \A p \in Partitions : <>[](committed[p] = LogLength)
=============================================================================
