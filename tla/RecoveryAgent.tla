---------------------------- MODULE RecoveryAgent ----------------------------
(***************************************************************************)
(* The Decision Engine at work: how one failed payment is taken in, waits, *)
(* is claimed by a scheduler pod, is acted upon through the Executor, and  *)
(* is answered at once or much later by the world outside.                 *)
(*                                                                         *)
(* Shared state is Postgres (row, trail, and the Executor's slot), Kafka   *)
(* (inbox, deadLetters) and the World Simulator's queue of delayed answers *)
(* (report).  Each Decision Engine pod keeps in memory the raw event it is *)
(* handling (intake) and the records it has claimed (job), and loses both  *)
(* when it exits.  resume holds the ReportDelayedOutcome calls being       *)
(* served.  What may go wrong is chosen by Faults:                         *)
(*   "call"      an Execute call is lost, times out or loses its answer    *)
(*   "port"      the action fails at the port, or its outcome is not saved *)
(*   "db"        a transaction of the scheduler fails                      *)
(*   "dlq"       a dead letter cannot be published                         *)
(*   "report"    a report call is lost or times out, or its sender dies    *)
(*   "classify"  the Classifier does not answer                            *)
(*   "redeliver" Kafka delivers a raw event again, also to a second pod    *)
(*   "downtime"  payment-downtime webhooks arrive                          *)
(***************************************************************************)
EXTENDS RecoveryPolicy, FiniteSetsExt

CONSTANTS
  Records, Pods,
  Callers,             \* bound: report calls served at once
  Buckets,             \* root causes the Classifier may name
  Amount,              \* [record -> paise at risk]
  BatchSize,           \* claimBatchSize
  MaxExecuteAttempts,  \* Execute calls per claimed record
  MaxDeliverAttempts,  \* report calls per delayed answer
  MaxAttempts,         \* bound on attempt numbers
  MaxTime,             \* bound on the clock
  MaxCrashes,          \* bound on pod crashes
  Faults,
  EarlyReports,        \* TRUE: an answer may come before its nudge is recorded
  None

ASSUME AgentAssumption ==
  /\ IsFiniteSet(Records) /\ IsFiniteSet(Pods) /\ IsFiniteSet(Callers)
  /\ None \notin Records \union Buckets
  /\ Amount \in [Records -> Nat]
  /\ BatchSize \in Nat \ {0}
  /\ MaxExecuteAttempts \in Nat \ {0} /\ MaxDeliverAttempts \in Nat \ {0}
  /\ MaxAttempts \in Nat /\ MaxTime \in Nat /\ MaxCrashes \in Nat
  /\ EarlyReports \in BOOLEAN

VARIABLES
  now,          \* the clock
  down,         \* an unresolved payment downtime covers the instrument
  crashes,      \* pod crashes so far
  inbox,        \* raw.events: "pending" or "acked" per record
  intake,       \* the record whose raw event each pod is handling
  row,          \* RECORD_STATE
  trail,        \* AUDIT_ENTRY, per record
  job,          \* claimed records each pod works through
  deadLetters,  \* records in the dead letter topic
  report,       \* the delayed answer to each attempt
  resume,       \* ReportDelayedOutcome calls being served
  slot, handler, effects, answered   \* the Executor's

EX == INSTANCE Executor
        WITH Actions <- SpendingActions, PortMayFail <- "port" \in Faults

engineVars   == <<row, trail, job, deadLetters>>
intakeVars   == <<inbox, intake>>
worldVars    == <<now, down, crashes>>
reportVars   == <<report, resume>>
executorVars == <<slot, handler, effects, answered>>
vars == <<worldVars, intakeVars, engineVars, reportVars, executorVars>>

-----------------------------------------------------------------------------
Waiting  == {"RETRY_SCHEDULED", "NUDGE_SCHEDULED"}
Claimed  == {"RETRYING", "NUDGED"}
Terminal == {"RECOVERED", "ESCALATED", "CLOSED_UNECONOMIC"}
States   == {"NEW"} \union Waiting \union Claimed \union Terminal
Numbers  == 1..MaxAttempts
Outcomes == {"SUCCESS", "FAILURE", "PENDING"}

NewRow == [state |-> "NEW", attempts |-> 0, action |-> NoAction, due |-> Null,
           bucket |-> None]

\* What scoring decided, before it is written.
NoPlan == [state |-> "NEW", action |-> NoAction, due |-> Null]

IdleJob == [phase |-> "idle", action |-> NoAction, from |-> "NEW", n |-> 0,
            tries |-> 0, outcome |-> "none", plan |-> NoPlan]
NoReport   == [phase |-> "none", outcome |-> "none", tries |-> 0]
IdleResume == [phase |-> "idle", record |-> None, n |-> 0, outcome |-> "none",
               try |-> 0, plan |-> NoPlan]

Dues    == {Null} \union Nat
PendingActions == SpendingActions \union {NoAction}
Answers == {"SUCCESS", "FAILURE"}

Plans   == [state : States, action : PendingActions, due : Dues]
Rows    == [state : States, attempts : 0..MaxAttempts, action : PendingActions, due : Dues,
            bucket : Buckets \union {None}]
Edges   == [from : States \union {"SCORING"}, to : States \union {"SCORING"}]
Jobs    == [phase : {"idle", "claimed", "calling", "answered", "rescoring"},
            action : PendingActions, from : Claimed \union {"NEW"}, n : 0..MaxAttempts,
            tries : 0..MaxExecuteAttempts, outcome : Outcomes \union {"none"},
            plan : Plans]
Reports == [phase : {"none", "queued", "delivering", "calling", "done"},
            outcome : Answers \union {"none"}, tries : 0..MaxDeliverAttempts]
Resumes == [phase : {"idle", "called", "planned"}, record : Records \union {None},
            n : 0..MaxAttempts, outcome : Answers \union {"none"},
            try : 0..MaxDeliverAttempts, plan : Plans]

TypeOK ==
  /\ now \in 0..MaxTime /\ down \in BOOLEAN /\ crashes \in 0..MaxCrashes
  /\ inbox \in [Records -> {"pending", "acked"}]
  /\ intake \in [Pods -> Records \union {None}]
  /\ row \in [Records -> Rows]
  /\ trail \in [Records -> Seq(Edges)]
  /\ job \in [Pods -> [Records -> Jobs]]
  /\ deadLetters \in SUBSET Records
  /\ report \in [Records -> [Numbers -> Reports]]
  /\ resume \in [Callers -> Resumes]
  /\ EX!ExecutorTypeOK

Init ==
  /\ now = 0 /\ down = FALSE /\ crashes = 0
  /\ inbox = [r \in Records |-> "pending"]
  /\ intake = [p \in Pods |-> None]
  /\ row = [r \in Records |-> NewRow]
  /\ trail = [r \in Records |-> <<>>]
  /\ job = [p \in Pods |-> [r \in Records |-> IdleJob]]
  /\ deadLetters = {}
  /\ report = [r \in Records |-> [n \in Numbers |-> NoReport]]
  /\ resume = [c \in Callers |-> IdleResume]
  /\ EX!ExecutorInit

-----------------------------------------------------------------------------
(***************************************************************************)
(* Scoring: what INTERVENTION_ATTEMPT says has been spent, and the plan.   *)
(***************************************************************************)
Contacts(r) == {n \in Numbers : slot[r][n].action \in Nudges}
Retries(r)  == {n \in Numbers : slot[r][n].action = "RETRY"}

History(r) ==
  [retries     |-> Cardinality(Retries(r)),
   contacts    |-> Cardinality(Contacts(r)),
   lastContact |-> IF Contacts(r) = {} THEN Null
                   ELSE Max({slot[r][n].at : n \in Contacts(r)})]

Plan(r, bucket) ==
  LET h     == History(r)
      route == ScoreAndRoute(bucket, h, down, Amount[r], now)
  IN  [state |-> route.state, action |-> route.action,
       due |-> DueAt(route.state, bucket, now)]

Edge(from, to) == [from |-> from, to |-> to]
ScoredEdge(plan) == Edge("SCORING", plan.state)
\* Mutant: the trail skips the scoring step.
RescoringInOneEdge(from, plan) ==
  <<Edge(from, plan.state)>>

RescoringPath(from, plan) == <<Edge(from, "SCORING"), ScoredEdge(plan)>>

\* Mutant: every scoring is counted as an attempt.
RescoredAsAttempt(old, plan, n) ==
  [old EXCEPT !.state = plan.state, !.attempts = @ + 1, !.action = plan.action,
              !.due = plan.due]

\* One transaction: the row is overwritten and the edges are appended.
Rescored(old, plan, n) ==
  [old EXCEPT !.state = plan.state, !.attempts = n, !.action = plan.action,
              !.due = plan.due]

WriteRow(r, new, edges) ==
  /\ row' = [row EXCEPT ![r] = new]
  /\ trail' = [trail EXCEPT ![r] = @ \o edges]

\* Mutant: a nudge that went out is taken for a payment that came in.
SentMeansRecovered(action, outcome) ==
  IF outcome \in {"SUCCESS", "PENDING"} THEN "RECOVERED" ELSE "ESCALATED"

DecideAfterExecute(action, outcome) ==
  CASE outcome = "SUCCESS" -> "RECOVERED"
    [] outcome = "PENDING" /\ IsNudge(action) -> "NUDGED"
    [] OTHER -> "ESCALATED"

-----------------------------------------------------------------------------
(***************************************************************************)
(* Intake of raw events.                                                   *)
(***************************************************************************)
HandleStart(p, r) ==
  /\ intake[p] = None
  /\ inbox[r] = "pending"
  /\ "redeliver" \in Faults \/ \A q \in Pods : intake[q] # r
  /\ IF row[r].state = "NEW"
     THEN intake' = [intake EXCEPT ![p] = r] /\ UNCHANGED inbox
     ELSE inbox' = [inbox EXCEPT ![r] = "acked"] /\ UNCHANGED intake
  /\ UNCHANGED <<worldVars, engineVars, reportVars, executorVars>>

\* The Classifier answered; the record is routed and its first row inserted.
HandleSchedule(p, r) ==
  /\ intake[p] = r
  /\ row[r].state = "NEW"
  /\ \E bucket \in Buckets :
       \/ \* low confidence, or escalation recommended: past the economics
          WriteRow(r, [NewRow EXCEPT !.state = "ESCALATED", !.bucket = bucket],
                   <<Edge("NEW", "ESCALATED")>>)
       \/ WriteRow(r, Rescored([NewRow EXCEPT !.bucket = bucket], Plan(r, bucket), 0),
                   RescoringPath("NEW", Plan(r, bucket)))
  /\ intake' = [intake EXCEPT ![p] = None]
  /\ inbox' = [inbox EXCEPT ![r] = "acked"]
  /\ UNCHANGED <<worldVars, job, deadLetters, reportVars, executorVars>>

HandleDeadLetter(p, r) ==
  /\ "classify" \in Faults
  /\ intake[p] = r
  /\ deadLetters' = deadLetters \union {r}
  /\ intake' = [intake EXCEPT ![p] = None]
  /\ inbox' = [inbox EXCEPT ![r] = "acked"]
  /\ UNCHANGED <<worldVars, row, trail, job, reportVars, executorVars>>

\* A pod exits and is restarted: what it held in memory is gone.
PodExit(p) ==
  /\ job' = [job EXCEPT ![p] = [r \in Records |-> IdleJob]]
  /\ intake' = [intake EXCEPT ![p] = None]
  /\ UNCHANGED <<inbox, row, trail, deadLetters, now, down, reportVars,
                 executorVars>>

\* Another pod inserted the row first: the primary key refuses the insert, the
\* handler's error stops the consumer and with it the whole process.
HandleConflict(p, r) ==
  /\ intake[p] = r
  /\ row[r].state # "NEW"
  /\ PodExit(p)
  /\ UNCHANGED crashes

Redeliver(r) ==
  /\ "redeliver" \in Faults
  /\ inbox[r] = "acked"
  /\ inbox' = [inbox EXCEPT ![r] = "pending"]
  /\ UNCHANGED <<worldVars, intake, engineVars, reportVars, executorVars>>

-----------------------------------------------------------------------------
(***************************************************************************)
(* The scheduler worker of each pod.                                       *)
(***************************************************************************)
Due(r) == row[r].state \in Waiting /\ row[r].due # Null /\ row[r].due <= now

ClaimedState(scheduled) ==
  IF scheduled = "RETRY_SCHEDULED" THEN "RETRYING" ELSE "NUDGED"

\* Mutant: due rows are selected, and not updated.
ClaimedUnchanged(old) == old

ClaimedRow(old) == [old EXCEPT !.state = ClaimedState(@), !.due = Null]

\* One transaction claims a batch.  Rows locked by another pod are skipped, so
\* the batch may be any part of what is due.
ClaimDue(p) ==
  /\ \A r \in Records : job[p][r] = IdleJob
  /\ \E batch \in SUBSET {r \in Records : Due(r)} :
       /\ batch # {} /\ Cardinality(batch) <= BatchSize
       /\ \A r \in batch : row[r].attempts < MaxAttempts
       /\ row' = [r \in Records |->
                    IF r \in batch THEN ClaimedRow(row[r]) ELSE row[r]]
       /\ trail' = [r \in Records |->
                      IF r \in batch
                      THEN Append(trail[r], Edge(row[r].state, ClaimedState(row[r].state)))
                      ELSE trail[r]]
       /\ job' = [job EXCEPT ![p] = [r \in Records |->
                    IF r \in batch
                    THEN [IdleJob EXCEPT !.phase = "claimed",
                                         !.action = row[r].action,
                                         !.from = ClaimedState(row[r].state),
                                         !.n = row[r].attempts + 1]
                    ELSE IdleJob]]
  /\ UNCHANGED <<worldVars, intakeVars, deadLetters, reportVars, executorVars>>

\* A pod works through its batch one record at a time.
Turn(p, r) ==
  \A other \in Records \ {r} :
     job[p][other].phase \in {"idle", "claimed"} /\ job[p][other].tries = 0

\* Execute reaches the Executor: it claims the attempt's slot, or finds it taken.
CallExecute(p, r) ==
  LET n == job[p][r].n
  IN  /\ job[p][r].phase = "claimed"
      /\ Turn(p, r)
      /\ \/ EX!ClaimSlot(r, n, job[p][r].action, now)
         \/ EX!Exists(r, n) /\ UNCHANGED executorVars
      /\ job' = [job EXCEPT ![p][r].phase = "calling"]
      /\ UNCHANGED <<worldVars, intakeVars, row, trail, deadLetters, reportVars>>

\* Mutant: a slot that is not resolved yet is taken for a failed attempt.
CallNotAwaited(p, r) ==
  /\ job[p][r].phase = "calling"
  /\ job' = [job EXCEPT ![p][r].phase = "answered",
       ![p][r].outcome = IF EX!Resolved(r, job[p][r].n)
                         THEN slot[r][job[p][r].n].outcome ELSE "FAILURE"]
  /\ UNCHANGED <<worldVars, intakeVars, row, trail, deadLetters, reportVars,
                 executorVars>>

CallAnswered(p, r) ==
  LET n == job[p][r].n
  IN  /\ job[p][r].phase = "calling"
      /\ EX!Replay(r, n)
      /\ job' = [job EXCEPT ![p][r].phase = "answered",
                            ![p][r].outcome = slot[r][n].outcome]
      /\ UNCHANGED <<worldVars, intakeVars, row, trail, deadLetters, reportVars>>

\* Claimed, not resolved, and nobody is working on it: Execute answers Aborted.
Abandoned(r, n) ==
  EX!Exists(r, n) /\ ~EX!Resolved(r, n) /\ handler[r][n] = "none"

\* An Execute call ends in an error.  After the last try the record is dead-
\* lettered and forgotten; its row stays as the claim left it.
CallFails(p, r) ==
  /\ \/ job[p][r].phase = "calling" /\ ("call" \in Faults \/ Abandoned(r, job[p][r].n))
     \/ job[p][r].phase = "claimed" /\ "call" \in Faults /\ Turn(p, r)
  /\ IF job[p][r].tries + 1 < MaxExecuteAttempts
     THEN /\ job' = [job EXCEPT ![p][r].phase = "claimed", ![p][r].tries = @ + 1]
          /\ UNCHANGED deadLetters
     ELSE /\ job' = [job EXCEPT ![p][r] = IdleJob]
          /\ \/ deadLetters' = deadLetters \union {r}
             \/ "dlq" \in Faults /\ UNCHANGED deadLetters
  /\ UNCHANGED <<worldVars, intakeVars, row, trail, reportVars, executorVars>>

\* Success, or a nudge the customer has yet to answer.  The row is overwritten
\* without looking at it again.
RecordResult(p, r) ==
  LET j == job[p][r]
      to == DecideAfterExecute(j.action, j.outcome)
  IN  /\ j.phase = "answered"
      /\ j.outcome # "FAILURE"
      /\ WriteRow(r, [row[r] EXCEPT !.state = to, !.attempts = j.n],
                  <<Edge(j.from, to)>>)
      /\ job' = [job EXCEPT ![p][r] = IdleJob]
      /\ UNCHANGED <<worldVars, intakeVars, deadLetters, reportVars, executorVars>>

\* A failed attempt is re-scored with this attempt spent...
Rescore(p, r) ==
  /\ job[p][r].phase = "answered"
  /\ job[p][r].outcome = "FAILURE"
  /\ job' = [job EXCEPT ![p][r].phase = "rescoring",
                        ![p][r].plan = Plan(r, row[r].bucket)]
  /\ UNCHANGED <<worldVars, intakeVars, row, trail, deadLetters, reportVars,
                 executorVars>>

\* ...and the result is written, again without looking at the row.
RecordRescore(p, r) ==
  LET j == job[p][r]
  IN  /\ j.phase = "rescoring"
      /\ WriteRow(r, Rescored(row[r], j.plan, j.n), RescoringPath(j.from, j.plan))
      /\ job' = [job EXCEPT ![p][r] = IdleJob]
      /\ UNCHANGED <<worldVars, intakeVars, deadLetters, reportVars, executorVars>>

\* A read or the transaction fails: logged, and the record is forgotten.
ResultLost(p, r) ==
  /\ "db" \in Faults
  /\ job[p][r].phase \in {"answered", "rescoring"}
  /\ job' = [job EXCEPT ![p][r] = IdleJob]
  /\ UNCHANGED <<worldVars, intakeVars, row, trail, deadLetters, reportVars,
                 executorVars>>

Crash(p) ==
  /\ crashes < MaxCrashes
  /\ intake[p] # None \/ \E r \in Records : job[p][r] # IdleJob
  /\ PodExit(p)
  /\ crashes' = crashes + 1

-----------------------------------------------------------------------------
(***************************************************************************)
(* The Executor and the world behind its ports.  A nudge the customer will *)
(* answer later is PENDING, and the answer is queued before the port       *)
(* replies.                                                                *)
(***************************************************************************)
QueueAnswer(r, n) ==
  \E answer \in Answers :
    report' = [report EXCEPT ![r][n] =
                 [phase |-> "queued", outcome |-> answer, tries |-> 0]]

PortActs(r, n) ==
  /\ \/ \E o \in Answers : EX!Perform(r, n, o) /\ UNCHANGED report
     \/ IsNudge(slot[r][n].action) /\ EX!Perform(r, n, "PENDING") /\ QueueAnswer(r, n)
  /\ UNCHANGED <<worldVars, intakeVars, engineVars, resume>>

PortFails(r, n) ==
  /\ EX!PerformFails(r, n)
  /\ \/ UNCHANGED report
     \/ /\ IsNudge(slot[r][n].action) /\ effects'[r][n] # effects[r][n]
        /\ QueueAnswer(r, n)
  /\ UNCHANGED <<worldVars, intakeVars, engineVars, resume>>

OutcomeSaved(r, n) ==
  /\ EX!RecordOutcome(r, n) \/ EX!RecordOutcomeFails(r, n)
  /\ UNCHANGED <<worldVars, intakeVars, engineVars, reportVars>>

-----------------------------------------------------------------------------
(***************************************************************************)
(* Delayed answers.  The World Simulator's poller takes a due answer off   *)
(* its queue, then reports it with a bounded number of calls.              *)
(***************************************************************************)
PollerBusy ==
  \E r \in Records, n \in Numbers : report[r][n].phase \in {"delivering", "calling"}

InProgress(r, n) ==
  handler[r][n] # "none" \/ \E p \in Pods : job[p][r].n = n

PollerTake(r, n) ==
  /\ report[r][n].phase = "queued"
  /\ ~PollerBusy
  /\ EarlyReports \/ ~InProgress(r, n)
  /\ report' = [report EXCEPT ![r][n].phase = "delivering"]
  /\ UNCHANGED <<worldVars, intakeVars, engineVars, resume, executorVars>>

PollerCall(r, n, c) ==
  /\ report[r][n].phase = "delivering"
  /\ report[r][n].tries < MaxDeliverAttempts
  /\ resume[c] = IdleResume
  /\ report' = [report EXCEPT ![r][n].phase = "calling", ![r][n].tries = @ + 1]
  /\ resume' = [resume EXCEPT ![c] =
       [IdleResume EXCEPT !.phase = "called", !.record = r, !.n = n,
                          !.outcome = report[r][n].outcome,
                          !.try = report[r][n].tries + 1]]
  /\ UNCHANGED <<worldVars, intakeVars, engineVars, executorVars>>

\* No reply came in time.  The call may still be running.
PollerTimesOut(r, n) ==
  /\ "report" \in Faults
  /\ report[r][n].phase = "calling"
  /\ report' = [report EXCEPT ![r][n].phase =
       IF report[r][n].tries < MaxDeliverAttempts THEN "delivering" ELSE "done"]
  /\ UNCHANGED <<worldVars, intakeVars, engineVars, resume, executorVars>>

\* The World Simulator stops with the answer already off its queue.
PollerDies(r, n) ==
  /\ "report" \in Faults
  /\ report[r][n].phase \in {"delivering", "calling"}
  /\ report' = [report EXCEPT ![r][n].phase = "done"]
  /\ UNCHANGED <<worldVars, intakeVars, engineVars, resume, executorVars>>

\* Mutant: any answer will do for a record in NUDGED.
AwaitsAny(r, n) == row[r].state = "NUDGED"

\* The record is resting in NUDGED and this attempt is the one it waits for.
Awaits(r, n) == row[r].state = "NUDGED" /\ row[r].attempts = n

\* The handler returns; its caller, if it still waits, is done.
Respond(c) ==
  LET r == resume[c].record
      n == resume[c].n
      heard == report[r][n].phase = "calling" /\ report[r][n].tries = resume[c].try
  IN  /\ resume' = [resume EXCEPT ![c] = IdleResume]
      /\ report' = IF heard THEN [report EXCEPT ![r][n].phase = "done"] ELSE report

ResumeDiscard(c) ==
  /\ resume[c].phase = "called"
  /\ ~Awaits(resume[c].record, resume[c].n)
  /\ Respond(c)
  /\ UNCHANGED <<worldVars, intakeVars, engineVars, executorVars>>

\* loadNudged, then the plan: a success ends the record, a failure re-scores it.
ResumePlan(c) ==
  LET r == resume[c].record
  IN  /\ resume[c].phase = "called"
      /\ Awaits(r, resume[c].n)
      /\ resume' = [resume EXCEPT ![c].phase = "planned",
           ![c].plan = IF resume[c].outcome = "SUCCESS"
                       THEN [NoPlan EXCEPT !.state = "RECOVERED"]
                       ELSE Plan(r, row[r].bucket)]
      /\ UNCHANGED <<worldVars, intakeVars, engineVars, report, executorVars>>

ResumePath(c) ==
  IF resume[c].outcome = "SUCCESS" THEN <<Edge("NUDGED", "RECOVERED")>>
  ELSE RescoringPath("NUDGED", resume[c].plan)

\* applyResumedOutcome checks again under the row lock.
ResumeApply(c) ==
  LET r == resume[c].record
  IN  /\ resume[c].phase = "planned"
      /\ IF Awaits(r, resume[c].n)
         THEN WriteRow(r, Rescored(row[r], resume[c].plan, resume[c].n), ResumePath(c))
         ELSE UNCHANGED <<row, trail>>
      /\ Respond(c)
      /\ UNCHANGED <<worldVars, intakeVars, job, deadLetters, executorVars>>

\* The call's deadline passed, or its pod or database failed: nothing is applied.
ResumeFails(c) ==
  /\ "report" \in Faults
  /\ resume[c].phase # "idle"
  /\ resume' = [resume EXCEPT ![c] = IdleResume]
  /\ UNCHANGED <<worldVars, intakeVars, engineVars, report, executorVars>>

-----------------------------------------------------------------------------
Tick ==
  /\ now < MaxTime
  /\ now' = now + 1
  /\ UNCHANGED <<down, crashes, intakeVars, engineVars, reportVars, executorVars>>

DowntimeEvent ==
  /\ "downtime" \in Faults
  /\ down' = ~down
  /\ UNCHANGED <<now, crashes, intakeVars, engineVars, reportVars, executorVars>>

PodStep(p) ==
  \/ ClaimDue(p)
  \/ \E r \in Records :
       \/ HandleStart(p, r) \/ HandleSchedule(p, r) \/ HandleConflict(p, r)
       \/ CallExecute(p, r) \/ CallAnswered(p, r)
       \/ RecordResult(p, r) \/ Rescore(p, r) \/ RecordRescore(p, r)
       \/ CallFails(p, r)

ExecutorStep(r, n) == PortActs(r, n) \/ OutcomeSaved(r, n)
PollerStep(r, n)   == PollerTake(r, n) \/ \E c \in Callers : PollerCall(r, n, c)
ResumeStep(c)      == ResumeDiscard(c) \/ ResumePlan(c) \/ ResumeApply(c)

FaultStep ==
  \/ \E p \in Pods : Crash(p)
  \/ \E p \in Pods, r \in Records : HandleDeadLetter(p, r) \/ ResultLost(p, r)
  \/ \E r \in Records : Redeliver(r)
  \/ \E r \in Records, n \in Numbers :
       PortFails(r, n) \/ PollerTimesOut(r, n) \/ PollerDies(r, n)
  \/ \E c \in Callers : ResumeFails(c)
  \/ DowntimeEvent

Next ==
  \/ Tick
  \/ \E p \in Pods : PodStep(p)
  \/ \E r \in Records, n \in Numbers : ExecutorStep(r, n) \/ PollerStep(r, n)
  \/ \E c \in Callers : ResumeStep(c)
  \/ FaultStep

Spec == Init /\ [][Next]_vars

(***************************************************************************)
(* Time passes, each pod keeps polling and handling, a call that entered   *)
(* the Executor is carried through, and the poller and the report handlers *)
(* keep running.  Nothing is assumed of faults.                            *)
(***************************************************************************)
Fairness ==
  /\ WF_vars(Tick)
  /\ \A p \in Pods : WF_vars(PodStep(p))
  /\ \A r \in Records, n \in Numbers :
       WF_vars(ExecutorStep(r, n)) /\ WF_vars(PollerStep(r, n))
  /\ \A c \in Callers : WF_vars(ResumeStep(c))

FairSpec == Spec /\ Fairness

-----------------------------------------------------------------------------
(***************************************************************************)
(* Safety.                                                                 *)
(***************************************************************************)

\* The hard caps hold across re-scoring, crashes, retried calls and repeated
\* answers: a record is never debited or contacted more often than allowed.
CapsRespected ==
  \A r \in Records :
     Cardinality(Retries(r)) <= MaxRetries /\ Cardinality(Contacts(r)) <= MaxContacts

\* Two contacts of one customer are never closer than the cooldown, although it
\* is checked when a nudge is scheduled and never when it is sent.
CooldownRespected ==
  \A r \in Records : \A m, n \in Contacts(r) :
     m < n => slot[r][n].at - slot[r][m].at >= ContactCooldown

\* Attempt numbers have no gaps and no attempt starts before the one before it
\* is settled, so the count in the row is at most one behind the Executor's.
AttemptsInSequence ==
  \A r \in Records :
    /\ \A n \in Numbers \ {1} : EX!Exists(r, n) => EX!Resolved(r, n - 1)
    /\ LET started == Cardinality({n \in Numbers : EX!Exists(r, n)})
       IN  row[r].attempts \in {started - 1, started}

\* Claiming serialises a record (store.go): only one execution of it is ever in
\* flight, and until it ends its row is as the claim left it.
ClaimSerialises ==
  \A p \in Pods, r \in Records : job[p][r].phase # "idle" =>
    /\ \A q \in Pods \ {p} : job[q][r].phase = "idle"
    /\ row[r].state = job[p][r].from
    /\ row[r].attempts + 1 = job[p][r].n

\* A record is called recovered only when some attempt on it really brought the
\* money in, at once or by the customer's later answer.
RecoveredIsReal ==
  \A r \in Records : row[r].state = "RECOVERED" =>
    \E n \in Numbers :
      \/ slot[r][n].outcome = "SUCCESS"
      \/ slot[r][n].outcome = "PENDING" /\ report[r][n].outcome = "SUCCESS"

\* Once a record has ended nothing more reaches the customer or the bank.
NoSpendAfterEnd ==
  [][\A r \in Records : row[r].state \in Terminal => effects'[r] = effects[r]]_vars

(***************************************************************************)
(* The lifecycle a record is promised, seen through the database.  An      *)
(* intervention is in flight in RETRYING, and in NUDGED until its sending  *)
(* is recorded by an edge of its own.                                      *)
(***************************************************************************)
JustClaimed(r) ==
  trail[r] # <<>> /\ trail[r][Len(trail[r])].from = "NUDGE_SCHEDULED"

Lifecycle == INSTANCE RecordLifecycle
  WITH MaxSpent <- MaxRetries + MaxContacts,
       state <- [r \in Records |-> row[r].state],
       spent <- [r \in Records |-> row[r].attempts],
       inFlight <- [r \in Records |->
                      \/ row[r].state = "RETRYING"
                      \/ row[r].state = "NUDGED" /\ JustClaimed(r)]

\* The engine implements the lifecycle: each intervention is claimed from a
\* waiting state, accounted for once, and answered only after that.
ImplementsLifecycle == Lifecycle!Spec

\* Every persisted state is explained by the trail: no gap and no edge the Audit
\* service calls impossible, whatever crashed, failed or came twice in between.
TrailsComplete ==
  \A r \in Records : Lifecycle!TrailComplete(row[r].state, trail[r])

(***************************************************************************)
(* Liveness.                                                               *)
(***************************************************************************)

\* Every failed payment ends: recovered, closed or escalated.
EventuallySettled == \A r \in Records : <>(row[r].state \in Terminal)

(***************************************************************************)
(* What the documentation says and the code does not do.                   *)
(***************************************************************************)

\* docs/PRD.md: killing a service and restarting it loses no record.  Once
\* taken in, a record ends or is in the dead letter topic for someone to see.
NoRecordLost ==
  \A r \in Records : row[r].state # "NEW" ~>
                       (row[r].state \in Terminal \/ r \in deadLetters)
=============================================================================
