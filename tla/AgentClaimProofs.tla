-------------------------- MODULE AgentClaimProofs --------------------------
(***************************************************************************)
(* For any payments, pods, policies, faults and crashes, as long as no     *)
(* answer is delivered twice: one pod at a time works on a record, its     *)
(* attempts and its trail are in order, nothing is spent on it after its   *)
(* end, and the agent implements RecordLifecycle.                          *)
(***************************************************************************)
EXTENDS RecoveryAgentProofs

-----------------------------------------------------------------------------
(***************************************************************************)
(* What holds when no answer is delivered twice: the World Simulator tries *)
(* a report once, or every report call is answered in time.                *)
(***************************************************************************)
OneDelivery == MaxDeliverAttempts = 1 \/ "report" \notin Faults

Live(p, r)       == job[p][r].phase # "idle"
Serving(c, r, n) == resume[c].phase # "idle" /\ resume[c].record = r /\ resume[c].n = n

\* The record waits for an answer, or an execution of it has been claimed.
Rests(r)   == row[r].state = "NUDGED" /\ ~JustClaimed(r)
InClaim(r) == row[r].state = "RETRYING" \/ (row[r].state = "NUDGED" /\ JustClaimed(r))

\* A pod holding a record is the only one, its row is as the claim left it, and its
\* action is the attempt's, once that is started.
Owned(p, r) == Live(p, r) =>
  /\ \A q \in Pods : Live(q, r) => q = p
  /\ row[r].state = job[p][r].from /\ row[r].attempts + 1 = job[p][r].n
  /\ job[p][r].from = (IF job[p][r].action = "RETRY" THEN "RETRYING" ELSE "NUDGED")
  /\ InClaim(r)
  /\ EX!Exists(r, job[p][r].n) => slot[r][job[p][r].n].action = job[p][r].action

\* Every counted attempt has ended; at most one more was started, under a claim.
InSequence(r) ==
  \A n \in Numbers :
    /\ n <= row[r].attempts => EX!Resolved(r, n)
    /\ n > row[r].attempts /\ EX!Exists(r, n) => n = row[r].attempts + 1 /\ InClaim(r)

\* Nothing has happened to a record that was not taken in.
Fresh(r) == row[r].state = "NEW" => row[r].attempts = 0 /\ trail[r] = <<>>

Explained(r) == Lifecycle!TrailComplete(row[r].state, trail[r])

\* An answer is on its way to at most one handler, and only once.
DeliveredOnce(r, n) ==
  /\ report[r][n].tries <= 1
  /\ report[r][n].phase \in {"none", "queued"} => report[r][n].tries = 0
  /\ report[r][n].phase = "delivering" /\ report[r][n].tries < MaxDeliverAttempts
       => report[r][n].tries = 0
  /\ \A c \in Callers : Serving(c, r, n) =>
       report[r][n].tries = 1 /\ \A d \in Callers : Serving(d, r, n) => d = c

\* Once a record has moved on from a nudge, the nudge's answer has been used.
UsedUp(r) ==
  row[r].attempts # 0 /\ slot[r][row[r].attempts].outcome = "PENDING" /\ ~Rests(r) =>
    /\ report[r][row[r].attempts].tries = 1
    /\ \A c \in Callers : ~Serving(c, r, row[r].attempts)

\* An answer that is planned finds the record as the plan saw it.
Foreseen(c, r) == resume[c].phase = "planned" /\ resume[c].record = r =>
  Rests(r) /\ row[r].attempts = resume[c].n

EngineInv(r) ==
  /\ \A p \in Pods : Owned(p, r)
  /\ InSequence(r) /\ Fresh(r) /\ Explained(r)

DeliveryInv(r) ==
  /\ \A n \in Numbers : DeliveredOnce(r, n)
  /\ UsedUp(r)
  /\ \A c \in Callers : Foreseen(c, r)

AgentInv == GroundInv /\ \A r \in Records : EngineInv(r) /\ DeliveryInv(r)

(***************************************************************************)
(* What a step must leave alone for each part to stay true.                *)
(***************************************************************************)
RowKept(r) == row'[r] = row[r] /\ trail'[r] = trail[r]

JobsKept(r) == \A p \in Pods : job'[p][r] \in {job[p][r], IdleJob}

DeliveryKept(r) ==
  /\ \A n \in Numbers :
       /\ report'[r][n].tries = report[r][n].tries
       /\ report'[r][n].phase \in {report[r][n].phase, "done"}
  /\ \A c \in Callers : resume'[c] \in {resume[c], IdleResume} \/ resume'[c].record # r

LEMMA RowStays ==
  ASSUME NEW r \in Records, RowKept(r)
  PROVE  /\ JustClaimed(r)' <=> JustClaimed(r)
         /\ InClaim(r)' <=> InClaim(r)
         /\ Rests(r)' <=> Rests(r)
         /\ Explained(r) => Explained(r)'
  BY DEF RowKept, JustClaimed, InClaim, Rests, Explained, Lifecycle!TrailComplete,
         Lifecycle!IncompleteTrail, Lifecycle!ImpossibleTransition

LEMMA SequenceStays ==
  ASSUME TypeOK, NEW r \in Records, RowKept(r), SpendingKept(r), InSequence(r)
  PROVE  InSequence(r)'
<1>1. ASSUME NEW n \in Numbers PROVE EX!Resolved(r, n) => EX!Resolved(r, n)'
  BY DEF SpendingKept, EX!Resolved
<1> QED BY <1>1, RowStays DEF RowKept, SpendingKept, InSequence

LEMMA OwnedStays ==
  ASSUME GroundInv, NEW r \in Records, RowKept(r), SpendingKept(r), JobsKept(r),
         NEW p \in Pods, Owned(p, r)
  PROVE  Owned(p, r)'
<1> SUFFICES ASSUME Live(p, r)' PROVE Owned(p, r)'
  BY DEF Owned
<1>1. job'[p][r] = job[p][r] /\ Live(p, r)
  BY DEF JobsKept, Live, IdleJob
<1>2. \A q \in Pods : Live(q, r)' => Live(q, r)
  BY DEF JobsKept, Live, IdleJob
<1>3. PICK n \in Numbers, j \in Jobs : j = job[p][r] /\ n = j.n
  BY <1>1, LiveJob DEF Live
<1>4. EX!Exists(r, n)' => slot'[r][n].action = j.action
  BY <1>1, <1>3 DEF Owned, SpendingKept
<1>5. InClaim(r)' /\ row'[r] = row[r]
  BY <1>1, RowStays DEF Owned, RowKept
<1> QED BY <1>1, <1>2, <1>3, <1>4, <1>5 DEF Owned

LEMMA EngineStays ==
  ASSUME GroundInv, NEW r \in Records, EngineInv(r),
         RowKept(r), SpendingKept(r), JobsKept(r)
  PROVE  EngineInv(r)'
<1>1. TypeOK
  BY DEF GroundInv
<1>2. Fresh(r) => Fresh(r)'
  BY DEF Fresh, RowKept
<1> QED BY <1>1, <1>2, OwnedStays, SequenceStays, RowStays DEF EngineInv

LEMMA DeliveredOnceStays ==
  ASSUME NEW r \in Records, NEW n \in Numbers, DeliveryKept(r), DeliveredOnce(r, n)
  PROVE  DeliveredOnce(r, n)'
<1>1. \A c \in Callers : Serving(c, r, n)' => Serving(c, r, n)
  BY DEF DeliveryKept, Serving, IdleResume
<1> QED BY <1>1 DEF DeliveryKept, DeliveredOnce

\* The last counted attempt, when it is pending, is the same as before.
LastKept(r) ==
  row[r].attempts # 0 /\ slot'[r][row[r].attempts].outcome = "PENDING" =>
    slot[r][row[r].attempts].outcome = "PENDING"

LEMMA LastStays ==
  ASSUME GroundInv, NEW r \in Records, SpendingKept(r) PROVE LastKept(r)
<1>1. TypeOK /\ RowForm(r)
  BY DEF GroundInv
<1>2. row[r].attempts # 0 => row[r].attempts \in Numbers
  BY <1>1, AgentAssumption DEF TypeOK, Rows, Numbers
<1> QED BY <1>1, <1>2 DEF LastKept, RowForm, SpendingKept

LEMMA UsedUpStays ==
  ASSUME GroundInv, NEW r \in Records, RowKept(r), SpendingKept(r), DeliveryKept(r),
         UsedUp(r)
  PROVE  UsedUp(r)'
<1>1. row[r].attempts \in 0..MaxAttempts
  BY DEF GroundInv, TypeOK, Rows
<1>2. row[r].attempts # 0 => row[r].attempts \in Numbers
  BY <1>1, AgentAssumption DEF Numbers
<1>3. ASSUME NEW n \in Numbers, NEW c \in Callers PROVE Serving(c, r, n)' => Serving(c, r, n)
  BY DEF DeliveryKept, Serving, IdleResume
<1>4. row'[r] = row[r] /\ (Rests(r)' <=> Rests(r)) /\ LastKept(r)
  BY RowStays, LastStays DEF RowKept
<1> QED BY <1>2, <1>3, <1>4 DEF UsedUp, LastKept, DeliveryKept

LEMMA ForeseenStays ==
  ASSUME NEW r \in Records, RowKept(r), NEW c \in Callers, resume'[c] \in {resume[c], IdleResume} \/ resume'[c].record # r,
         Foreseen(c, r)
  PROVE  Foreseen(c, r)'
<1> SUFFICES ASSUME resume'[c].phase = "planned", resume'[c].record = r
             PROVE  Rests(r)' /\ row'[r].attempts = resume'[c].n
  BY DEF Foreseen
<1>1. resume'[c] = resume[c]
  BY DEF IdleResume
<1> QED BY <1>1, RowStays DEF Foreseen, RowKept

LEMMA DeliveryStays ==
  ASSUME GroundInv, NEW r \in Records, DeliveryInv(r),
         RowKept(r), SpendingKept(r), DeliveryKept(r)
  PROVE  DeliveryInv(r)'
<1>1. \A n \in Numbers : DeliveredOnce(r, n)'
  BY DeliveredOnceStays DEF DeliveryInv
<1>2. UsedUp(r)'
  BY UsedUpStays DEF DeliveryInv
<1>3. \A c \in Callers : Foreseen(c, r)'
  BY ForeseenStays DEF DeliveryInv, DeliveryKept
<1> QED BY <1>1, <1>2, <1>3 DEF DeliveryInv, Numbers

-----------------------------------------------------------------------------
(***************************************************************************)
(* Trails.                                                                 *)
(***************************************************************************)
\* A trail that explains a state, and an edge the Audit service accepts out of it.
LEMMA TrailGrows ==
  ASSUME NEW S, NEW t \in Seq(S), NEW state, NEW e \in S,
         \/ t = <<>> /\ state = "NEW"
         \/ state # "NEW" /\ Lifecycle!TrailComplete(state, t),
         e.from = state, e.to # "NEW", <<state, e.to>> \in Lifecycle!AllowedTransitions
  PROVE  /\ Lifecycle!TrailComplete(e.to, Append(t, e))
         /\ Append(t, e) \in Seq(S) /\ Append(t, e) # <<>>
         /\ Append(t, e)[Len(Append(t, e))] = e
<1> DEFINE u == Append(t, e)
<1>1. /\ u \in Seq(S) /\ u # <<>> /\ Len(u) = Len(t) + 1 /\ u[Len(u)] = e /\ Len(t) \in Nat
      /\ \A i \in 1..Len(t) : u[i] = t[i]
  <2>1. u \in Seq(S) /\ Len(u) = Len(t) + 1 /\ Len(t) \in Nat
    OBVIOUS
  <2>2. u[Len(t) + 1] = e /\ \A i \in 1..Len(t) : u[i] = t[i]
    OBVIOUS
  <2>3. u # <<>>
    <3>1. Len(<<>>) = 0 /\ Len(u) # 0
      BY <2>1
    <3> QED BY <3>1
  <2> QED BY <2>1, <2>2, <2>3
<1> HIDE DEF u
<1>2. ~Lifecycle!IncompleteTrail(e.to, u)
  BY <1>1 DEF Lifecycle!IncompleteTrail
<1>3. ASSUME NEW i \in 1..Len(u)
      PROVE  /\ i > 1 => u[i].from = u[i - 1].to
             /\ <<u[i].from, u[i].to>> \in Lifecycle!AllowedTransitions
  <2>1. CASE i \in 1..Len(t)
    <3>1. state # "NEW" /\ ~Lifecycle!ImpossibleTransition(t)
      BY <2>1 DEF Lifecycle!TrailComplete
    <3>2. /\ i > 1 => t[i].from = t[i - 1].to
          /\ <<t[i].from, t[i].to>> \in Lifecycle!AllowedTransitions
      BY <2>1, <3>1 DEF Lifecycle!ImpossibleTransition
    <3>3. u[i] = t[i] /\ (i > 1 => u[i - 1] = t[i - 1])
      BY <1>1, <2>1
    <3> QED BY <3>2, <3>3
  <2>2. CASE i = Len(t) + 1
    <3>1. u[i] = e
      BY <1>1, <2>2
    <3>2. ASSUME i > 1 PROVE u[i].from = u[i - 1].to
      <4>1. t # <<>> /\ i - 1 = Len(t) /\ Len(t) \in 1..Len(t)
        BY <1>1, <2>2, <3>2
      <4>2. t[Len(t)].to = state
        BY <4>1 DEF Lifecycle!TrailComplete, Lifecycle!IncompleteTrail
      <4> QED BY <1>1, <3>1, <4>1, <4>2
    <3> QED BY <3>1, <3>2
  <2> QED BY <1>1, <2>1, <2>2
<1>4. Lifecycle!TrailComplete(e.to, u)
  BY <1>2, <1>3 DEF Lifecycle!TrailComplete, Lifecycle!ImpossibleTransition
<1> QED BY <1>1, <1>4 DEF u

\* The same for the two edges of a scoring.
LEMMA TrailGrowsByPath ==
  ASSUME NEW t \in Seq(Edges), NEW state \in States, NEW plan \in Plans,
         \/ t = <<>> /\ state = "NEW"
         \/ state # "NEW" /\ Lifecycle!TrailComplete(state, t),
         <<state, "SCORING">> \in Lifecycle!AllowedTransitions, plan.state \in Routed
  PROVE  /\ Lifecycle!TrailComplete(plan.state, t \o RescoringPath(state, plan))
         /\ t \o RescoringPath(state, plan) # <<>>
         /\ (t \o RescoringPath(state, plan))[Len(t \o RescoringPath(state, plan))].from
              = "SCORING"
<1>1. PICK e \in Edges : e = Edge(state, "SCORING") /\ e.from = state /\ e.to = "SCORING"
  <2>1. Edge(state, "SCORING") \in Edges
    BY DEF Edge, Edges
  <2>2. Edge(state, "SCORING").from = state /\ Edge(state, "SCORING").to = "SCORING"
    BY DEF Edge
  <2> QED BY <2>1, <2>2
<1>2. PICK f \in Edges :
        f = Edge("SCORING", plan.state) /\ f.from = "SCORING" /\ f.to = plan.state
  <2>1. Edge("SCORING", plan.state) \in Edges
    BY DEF Edge, Edges, Plans
  <2>2. /\ Edge("SCORING", plan.state).from = "SCORING"
        /\ Edge("SCORING", plan.state).to = plan.state
    BY DEF Edge
  <2> QED BY <2>1, <2>2
<1>3. t \o RescoringPath(state, plan) = Append(Append(t, e), f)
  BY <1>1, <1>2 DEF RescoringPath, ScoredEdge
<1>4. /\ <<f.from, f.to>> \in Lifecycle!AllowedTransitions
      /\ f.to # "NEW" /\ f.from # "NEW"
  BY <1>2 DEF Lifecycle!AllowedTransitions, Lifecycle!Waiting, Routed, Waiting
<1>5. PICK u \in Seq(Edges) : u = Append(t, e) /\ Lifecycle!TrailComplete(f.from, u)
  <2>1. /\ <<state, e.to>> \in Lifecycle!AllowedTransitions
        /\ e.to # "NEW" /\ e.to = f.from
    BY <1>1, <1>2
  <2>2. Lifecycle!TrailComplete(e.to, Append(t, e)) /\ Append(t, e) \in Seq(Edges)
    BY <1>1, <2>1, TrailGrows
  <2> QED BY <2>1, <2>2
<1>6. Lifecycle!TrailComplete(f.to, Append(u, f))
  BY <1>4, <1>5, TrailGrows
<1>7. Append(u, f) # <<>>
  BY <1>4, <1>5, TrailGrows
<1>8. Append(u, f)[Len(Append(u, f))] = f
  BY <1>4, <1>5, TrailGrows
<1> QED BY <1>2, <1>3, <1>5, <1>6, <1>7, <1>8

-----------------------------------------------------------------------------
(***************************************************************************)
(* Every step keeps AgentInv: first what it means for the records, the     *)
(* jobs and the answers a step is not about.                               *)
(***************************************************************************)
Kept(r) == RowKept(r) /\ SpendingKept(r) /\ JobsKept(r) /\ DeliveryKept(r)

LEMMA KeptStays ==
  ASSUME AgentInv, NEW r \in Records, Kept(r)
  PROVE  EngineInv(r)' /\ DeliveryInv(r)'
  BY EngineStays, DeliveryStays DEF AgentInv, Kept

LEMMA AllKept ==
  ASSUME AgentInv, GroundInv', \A r \in Records : Kept(r)
  PROVE  AgentInv'
<1>1. \A r \in Records : EngineInv(r)' /\ DeliveryInv(r)'
  BY KeptStays
<1> QED BY <1>1 DEF AgentInv

LEMMA OneTouched ==
  ASSUME AgentInv, GroundInv', NEW r \in Records,
         \A s \in Records \ {r} : Kept(s), EngineInv(r)', DeliveryInv(r)'
  PROVE  AgentInv'
<1>1. \A s \in Records : EngineInv(s)' /\ DeliveryInv(s)'
  BY KeptStays
<1> QED BY <1>1 DEF AgentInv

LEMMA RowsStay ==
  ASSUME NEW r \in Records
  PROVE  /\ UNCHANGED <<row, trail>> => \A s \in Records : RowKept(s)
         /\ OtherRows(r) => \A s \in Records \ {r} : RowKept(s)
  BY DEF RowKept, OtherRows

LEMMA SlotsStay ==
  ASSUME NEW r \in Records, NEW n \in Numbers
  PROVE  /\ UNCHANGED executorVars => \A s \in Records : SpendingKept(s)
         /\ OthersSame(r, n) => \A s \in Records \ {r} : SpendingKept(s)
  BY DEF SpendingKept, OthersSame, SameSlot, EX!Exists, executorVars

LEMMA JobsStay ==
  ASSUME NEW r \in Records, NEW p \in Pods
  PROVE  /\ UNCHANGED job => \A s \in Records : JobsKept(s)
         /\ OtherJobs(p, r) => \A s \in Records \ {r} : JobsKept(s)
         /\ OtherJobs(p, r) /\ job'[p][r] = IdleJob => \A s \in Records : JobsKept(s)
  BY DEF JobsKept, OtherJobs

LEMMA AnswersStay ==
  ASSUME NEW r \in Records, NEW n \in Numbers, NEW c \in Callers
  PROVE  /\ UNCHANGED <<report, resume>> => \A s \in Records : DeliveryKept(s)
         /\ OtherReports(r, n) /\ OtherResumes(c) /\ resume'[c].record = r =>
              \A s \in Records \ {r} : DeliveryKept(s)
         /\ OtherReports(r, n) /\ UNCHANGED resume => \A s \in Records \ {r} : DeliveryKept(s)
  BY DEF DeliveryKept, OtherReports, OtherResumes

LEMMA QuietAgent ==
  ASSUME AgentInv, GroundInv', UNCHANGED <<row, trail>>, UNCHANGED reportVars,
         UNCHANGED executorVars, \A r \in Records : JobsKept(r)
  PROVE  AgentInv'
<1>1. \A r \in Records : Kept(r)
  BY DEF Kept, RowKept, SpendingKept, DeliveryKept, reportVars, executorVars, EX!Exists
<1> QED BY <1>1, AllKept

LEMMA TickAgent == ASSUME AgentInv, Tick PROVE AgentInv'
<1>1. GroundInv' /\ GroundInv
  BY TickGround DEF AgentInv
<1> QED BY <1>1, QuietAgent DEF Tick, engineVars, JobsKept

LEMMA QuietStep ==
  ASSUME AgentInv,
         \/ DowntimeEvent \/ UNCHANGED vars
         \/ \E r \in Records : Redeliver(r)
         \/ \E p \in Pods : Crash(p)
         \/ \E p \in Pods, r \in Records :
              HandleStart(p, r) \/ HandleDeadLetter(p, r) \/ HandleConflict(p, r)
  PROVE  AgentInv'
<1>1. GroundInv
  BY DEF AgentInv
<1>2. GroundInv'
  BY <1>1, DowntimeGround, StutterGround, RedeliverGround, CrashGround, HandleStartGround,
     HandleDeadLetterGround, HandleConflictGround
<1>3. /\ UNCHANGED <<row, trail>> /\ UNCHANGED reportVars /\ UNCHANGED executorVars
      /\ UNCHANGED now
      /\ UNCHANGED job \/ \E p \in Pods : PodExit(p)
  BY DEF DowntimeEvent, vars, Redeliver, Crash, HandleStart, HandleDeadLetter,
         HandleConflict, PodExit, engineVars, worldVars
<1>4. ASSUME NEW r \in Records PROVE JobsKept(r)
  <2>1. ASSUME NEW p \in Pods, PodExit(p) PROVE JobsKept(r)
    <3>1. job \in [Pods -> [Records -> Jobs]]
      BY <1>1 DEF GroundInv, TypeOK
    <3> QED BY <2>1, <3>1 DEF PodExit, JobsKept
  <2> QED BY <1>3, <2>1 DEF JobsKept
<1> QED BY <1>1, <1>2, <1>3, <1>4, QuietAgent

(***************************************************************************)
(* A pod at work on a record it holds.                                     *)
(***************************************************************************)
\* The record stays with the pod that has it, at the same attempt.
LEMMA OwnedByOne ==
  ASSUME NEW p \in Pods, NEW r \in Records, Live(p, r), Owned(p, r), OtherJobs(p, r),
         NEW j \in Jobs, job'[p][r] = j, NEW n \in Numbers, NEW a \in SpendingActions,
         n = job[p][r].n, a = job[p][r].action,
         j.n = n, j.action = a, j.from = job[p][r].from, RowKept(r),
         EX!Exists(r, n)' => slot'[r][n].action = a
  PROVE  \A q \in Pods : Owned(q, r)'
<1>1. \A q \in Pods : Live(q, r)' => q = p
  BY DEF Owned, OtherJobs, Live
<1>2. InClaim(r)' /\ row'[r] = row[r]
  BY RowStays DEF Owned, RowKept
<1>3. Owned(p, r)'
  BY <1>1, <1>2 DEF Owned
<1>4. \A q \in Pods : q # p => ~Live(q, r)'
  BY <1>1
<1> QED BY <1>3, <1>4 DEF Owned

\* What a pod's call changes: only the job, or also the slot of the attempt.
LEMMA JobStep ==
  ASSUME AgentInv, GroundInv', NEW p \in Pods, NEW r \in Records, OtherJobs(p, r),
         UNCHANGED <<now, row, trail>>, UNCHANGED reportVars,
         \A s \in Records : SpendingKept(s), \A q \in Pods : Owned(q, r)'
  PROVE  AgentInv'
<1>1. GroundInv /\ TypeOK /\ EngineInv(r)
  BY DEF AgentInv, GroundInv
<1>2. \A s \in Records : RowKept(s) /\ DeliveryKept(s)
  BY DEF RowKept, DeliveryKept, reportVars
<1>3. \A s \in Records \ {r} : Kept(s)
  BY <1>2 DEF Kept, OtherJobs, JobsKept
<1>4. EngineInv(r)'
  BY <1>1, <1>2, SequenceStays, RowStays DEF EngineInv, Fresh, RowKept
<1>5. DeliveryInv(r)'
  BY <1>1, <1>2, DeliveryStays DEF AgentInv
<1> QED BY <1>2, <1>3, <1>4, <1>5, OneTouched

\* Nothing is spent by a call that changes no slot.
LEMMA OwnedWithoutSpending ==
  ASSUME AgentInv, UNCHANGED <<row, trail>>, UNCHANGED slot,
         NEW p \in Pods, NEW r \in Records, Live(p, r), OtherJobs(p, r),
         NEW j \in Jobs, job'[p][r] = j,
         j.n = job[p][r].n, j.action = job[p][r].action, j.from = job[p][r].from
  PROVE  \A q \in Pods : Owned(q, r)'
<1>1. GroundInv /\ Owned(p, r)
  BY DEF AgentInv, EngineInv
<1>2. PICK n \in Numbers, a \in SpendingActions : n = job[p][r].n /\ a = job[p][r].action
  BY <1>1, LiveJob DEF Live
<1>3. RowKept(r)
  BY DEF RowKept
<1>4. EX!Exists(r, n)' => slot'[r][n].action = a
  BY <1>1, <1>2 DEF Owned, EX!Exists
<1> QED BY <1>1, <1>2, <1>3, <1>4, OwnedByOne

LEMMA CallAnsweredAgent ==
  ASSUME AgentInv, NEW p \in Pods, NEW r \in Records, CallAnswered(p, r) PROVE AgentInv'
<1>1. GroundInv /\ job[p][r].phase # "idle" /\ EX!Replay(r, job[p][r].n)
  BY CallAnsweredDoes DEF AgentInv
<1>2. PICK n \in Numbers, old \in Jobs : TypeOK /\ old = job[p][r] /\ n = old.n
  BY <1>1, LiveJob
<1>3. PICK o \in Outcomes : o = slot[r][n].outcome
  BY <1>1, <1>2 DEF EX!Replay, EX!Resolved, EX!Outcomes, Outcomes
<1>4. PICK j \in Jobs : /\ j = Answered(old, o) /\ j.phase = "answered"
                       /\ j.n = old.n /\ j.action = old.action /\ j.from = old.from
  BY JobStages
<1>5. JobBecomes(p, r, j)
  BY <1>1, <1>2, <1>3, <1>4, CallAnsweredDoes
<1>6. job'[p][r] = j /\ OtherJobs(p, r)
  BY <1>2, <1>5, JobBecomesDoes
<1>7. UNCHANGED <<now, row, trail>> /\ UNCHANGED reportVars /\ UNCHANGED slot
  BY DEF CallAnswered, worldVars, EX!Replay
<1>8. \A q \in Pods : Owned(q, r)'
  BY <1>1, <1>2, <1>4, <1>6, <1>7, OwnedWithoutSpending DEF Live
<1>9. \A s \in Records : SpendingKept(s)
  BY <1>7 DEF SpendingKept, EX!Exists
<1> QED BY <1>1, <1>6, <1>7, <1>8, <1>9, CallAnsweredGround, JobStep

LEMMA RescoreAgent ==
  ASSUME AgentInv, NEW p \in Pods, NEW r \in Records, Rescore(p, r) PROVE AgentInv'
<1>1. GroundInv /\ job[p][r].phase # "idle" /\ EngineInv(r)
  BY RescoreDoes DEF AgentInv
<1>2. PICK old \in Jobs, plan \in Plans :
        TypeOK /\ old = job[p][r] /\ plan = Plan(r, row[r].bucket)
  BY <1>1, LiveJob, PlanIsScored
<1>3. PICK j \in Jobs : /\ j = Rescoring(old, plan) /\ j.plan = plan
                       /\ j.n = old.n /\ j.action = old.action /\ j.from = old.from
  BY JobStages
<1>4. JobBecomes(p, r, j)
  BY <1>1, <1>2, <1>3, RescoreDoes
<1>5. job'[p][r] = j /\ OtherJobs(p, r)
  BY <1>2, <1>4, JobBecomesDoes
<1>6. UNCHANGED <<now, row, trail>> /\ UNCHANGED reportVars /\ UNCHANGED slot
  BY DEF Rescore, worldVars, executorVars
<1>7. \A q \in Pods : Owned(q, r)'
  BY <1>1, <1>2, <1>3, <1>5, <1>6, OwnedWithoutSpending DEF Live
<1>8. \A s \in Records : SpendingKept(s)
  BY <1>6 DEF SpendingKept, EX!Exists
<1> QED BY <1>1, <1>5, <1>6, <1>7, <1>8, RescoreGround, JobStep

LEMMA CallFailsAgent ==
  ASSUME AgentInv, NEW p \in Pods, NEW r \in Records, CallFails(p, r) PROVE AgentInv'
<1>1. GroundInv /\ job[p][r].phase # "idle" /\ GroundInv'
  BY CallFailsDoes, CallFailsGround DEF AgentInv
<1>2. PICK old \in Jobs : TypeOK /\ old = job[p][r]
  BY <1>1, LiveJob
<1>3. UNCHANGED <<now, row, trail>> /\ UNCHANGED reportVars /\ UNCHANGED executorVars
  BY DEF CallFails, worldVars
<1>4. CASE JobBecomes(p, r, IdleJob)
  <2>1. \A s \in Records : JobsKept(s)
    BY <1>1, <1>4, PutDown, JobsStay
  <2> QED BY <1>1, <1>3, <2>1, QuietAgent
<1>5. CASE old.tries + 1 < MaxExecuteAttempts /\ JobBecomes(p, r, Retried(old))
  <2>1. PICK j \in Jobs : /\ j = Retried(old) /\ j.phase = "claimed"
                         /\ j.n = old.n /\ j.action = old.action /\ j.from = old.from
    BY <1>5, JobStages
  <2>2. job'[p][r] = j /\ OtherJobs(p, r)
    BY <1>2, <1>5, <2>1, JobBecomesDoes
  <2>3. \A q \in Pods : Owned(q, r)'
    BY <1>1, <1>2, <1>3, <2>1, <2>2, OwnedWithoutSpending DEF Live, executorVars
  <2>4. \A s \in Records : SpendingKept(s)
    BY <1>3 DEF SpendingKept, EX!Exists, executorVars
  <2> QED BY <1>1, <1>3, <2>2, <2>3, <2>4, JobStep
<1> QED BY <1>1, <1>2, <1>4, <1>5, CallFailsDoes

LEMMA ResultLostAgent ==
  ASSUME AgentInv, NEW p \in Pods, NEW r \in Records, ResultLost(p, r) PROVE AgentInv'
<1>1. GroundInv /\ GroundInv' /\ JobBecomes(p, r, IdleJob)
  BY ResultLostGround DEF AgentInv, ResultLost, JobBecomes
<1>2. \A s \in Records : JobsKept(s)
  BY <1>1, PutDown, JobsStay
<1>3. UNCHANGED <<now, row, trail>> /\ UNCHANGED reportVars /\ UNCHANGED executorVars
  BY DEF ResultLost, worldVars
<1> QED BY <1>1, <1>2, <1>3, QuietAgent

\* The attempt's slot is taken at the first call, while the record is under claim.
LEMMA CallExecuteAgent ==
  ASSUME AgentInv, NEW p \in Pods, NEW r \in Records, CallExecute(p, r) PROVE AgentInv'
<1>1. GroundInv /\ job[p][r].phase = "claimed" /\ EngineInv(r) /\ DeliveryInv(r)
  BY CallExecuteDoes DEF AgentInv
<1>2. PICK n \in Numbers, a \in SpendingActions, old \in Jobs :
        TypeOK /\ old = job[p][r] /\ n = old.n /\ a = old.action
  BY <1>1, LiveJob
<1>3. PICK j \in Jobs : /\ j = Called(old) /\ j.phase = "calling"
                       /\ j.n = old.n /\ j.action = old.action /\ j.from = old.from
  BY JobStages
<1>4. /\ JobBecomes(p, r, j)
      /\ EX!ClaimSlot(r, n, a, now) \/ (EX!Exists(r, n) /\ UNCHANGED executorVars)
  BY <1>1, <1>2, <1>3, CallExecuteDoes
<1>5. job'[p][r] = j /\ OtherJobs(p, r)
  BY <1>2, <1>4, JobBecomesDoes
<1>6. UNCHANGED <<now, row, trail>> /\ UNCHANGED reportVars /\ GroundInv'
  BY <1>1, CallExecuteGround DEF CallExecute, worldVars
<1>7. Live(p, r) /\ Owned(p, r)
  BY <1>1 DEF Live, EngineInv
<1>8. CASE EX!Exists(r, n) /\ UNCHANGED executorVars
  <2>1. \A q \in Pods : Owned(q, r)'
    BY <1>1, <1>2, <1>3, <1>5, <1>6, <1>7, <1>8, OwnedWithoutSpending DEF executorVars
  <2>2. \A s \in Records : SpendingKept(s)
    BY <1>8 DEF SpendingKept, EX!Exists, executorVars
  <2> QED BY <1>5, <1>6, <2>1, <2>2, JobStep
<1>9. CASE EX!ClaimSlot(r, n, a, now)
  <2>1. ~EX!Exists(r, n) /\ slot'[r][n] = Marked(a, now) /\ OthersSame(r, n)
    BY <1>1, <1>9, ClaimSlotDoes
  <2>2. n = row[r].attempts + 1 /\ InClaim(r)
    BY <1>2, <1>7 DEF Owned
  <2>4. RowKept(r) /\ InClaim(r)' /\ row'[r] = row[r]
    BY <1>6, <2>2, RowStays DEF RowKept
  <2>5. slot'[r][n].action = a /\ slot'[r][n].outcome = "UNSPECIFIED"
    BY <2>1 DEF Marked, EX!ClaimMarker
  <2>6. \A q \in Pods : Owned(q, r)'
    <3>1. EX!Exists(r, n)'
      BY <2>5 DEF EX!Exists, EX!NoRow
    <3> QED BY <1>2, <1>3, <1>5, <1>7, <2>4, <2>5, <3>1, OwnedByOne
  <2>7. InSequence(r)'
    <3>1. row[r].attempts \in Nat /\ n \in Nat
      BY <1>2, AgentAssumption DEF TypeOK, Rows, Numbers
    <3>2. ASSUME NEW m \in Numbers
          PROVE  /\ m <= row[r].attempts => EX!Resolved(r, m)'
                 /\ m > row[r].attempts /\ EX!Exists(r, m)' => m = row[r].attempts + 1
      <4>1. CASE m = n
        BY <2>2, <3>1, <4>1
      <4>2. CASE m # n
        BY <1>1, <2>1, <4>2
           DEF OthersSame, SameSlot, EngineInv, InSequence, EX!Exists, EX!Resolved
      <4> QED BY <4>1, <4>2
    <3> QED BY <2>4, <3>2 DEF InSequence, Numbers
  <2>8. Fresh(r)'
    BY <2>2, <2>4 DEF Fresh, InClaim
  <2>9. EngineInv(r)'
    BY <1>1, <2>4, <2>6, <2>7, <2>8, RowStays DEF EngineInv
  <2>10. DeliveryInv(r)'
    <3>1. ~Rests(r) /\ ~Rests(r)'
      BY <2>2, <2>4, RowStays DEF Rests, InClaim
    <3>2. row[r].attempts \in 0..MaxAttempts /\ row[r].attempts # n
      BY <1>2, <2>2, AgentAssumption DEF TypeOK, Rows
    <3>3. row[r].attempts # 0 => slot'[r][row[r].attempts] = slot[r][row[r].attempts]
      BY <2>1, <3>2, AgentAssumption DEF OthersSame, SameSlot, Numbers
    <3>4. UsedUp(r)'
      BY <1>1, <1>6, <2>4, <3>1, <3>3 DEF DeliveryInv, UsedUp, reportVars, Serving
    <3>5. \A c \in Callers : Foreseen(c, r)'
      BY <1>1, <1>6, <3>1 DEF DeliveryInv, Foreseen, reportVars
    <3>6. \A m \in Numbers : DeliveredOnce(r, m)'
      BY <1>1, <1>6 DEF DeliveryInv, DeliveredOnce, reportVars, Serving
    <3> QED BY <3>4, <3>5, <3>6 DEF DeliveryInv, Numbers
  <2>11. \A s \in Records \ {r} : Kept(s)
    BY <1>5, <1>6, <2>1, SlotsStay, JobsStay DEF Kept, RowKept, DeliveryKept, reportVars
  <2> QED BY <1>1, <1>6, <2>9, <2>10, <2>11, OneTouched
<1> QED BY <1>4, <1>8, <1>9

(***************************************************************************)
(* The steps that write a row, while no answer is planned for it.          *)
(***************************************************************************)
LEMMA RowStep ==
  ASSUME AgentInv, NEW r \in Records, UNCHANGED reportVars, UNCHANGED executorVars,
         ~Rests(r), \A q \in Pods : Owned(q, r)', InSequence(r)', Fresh(r)',
         Explained(r)', UsedUp(r)'
  PROVE  EngineInv(r)' /\ DeliveryInv(r)'
<1>1. GroundInv /\ TypeOK /\ EngineInv(r) /\ DeliveryInv(r)
  BY DEF AgentInv, GroundInv
<1>2. DeliveryKept(r)
  BY DEF DeliveryKept, reportVars
<1>4. \A m \in Numbers : DeliveredOnce(r, m)'
  BY <1>1, <1>2, DeliveredOnceStays DEF DeliveryInv
<1>5. \A c \in Callers : Foreseen(c, r)'
  BY <1>1 DEF DeliveryInv, Foreseen, reportVars
<1> QED BY <1>4, <1>5 DEF EngineInv, DeliveryInv, Numbers

LEMMA OneRowWritten ==
  ASSUME AgentInv, GroundInv', NEW r \in Records, OtherRows(r),
         UNCHANGED reportVars, UNCHANGED executorVars,
         \A s \in Records \ {r} : JobsKept(s), EngineInv(r)', DeliveryInv(r)'
  PROVE  AgentInv'
<1>1. \A s \in Records \ {r} : Kept(s)
  BY DEF Kept, OtherRows, RowKept, SpendingKept, EX!Exists, DeliveryKept, reportVars,
         executorVars
<1> QED BY <1>1, OneTouched DEF AgentInv

LEMMA NobodyHolds ==
  ASSUME NEW r \in Records, EngineInv(r), ~InClaim(r)
  PROVE  \A q \in Pods : ~Live(q, r)
  BY DEF EngineInv, Owned

LEMMA TrailTypes ==
  ASSUME TypeOK, NEW r \in Records
  PROVE  trail[r] \in Seq(Edges) /\ row[r] \in Rows /\ row[r].state \in States
  BY DEF TypeOK, Rows

LEMMA HandleScheduleAgent ==
  ASSUME AgentInv, NEW p \in Pods, NEW r \in Records, HandleSchedule(p, r) PROVE AgentInv'
<1>1. GroundInv /\ TypeOK /\ EngineInv(r) /\ GroundInv' /\ row[r].state = "NEW"
  BY HandleScheduleGround DEF AgentInv, GroundInv, HandleSchedule
<1>2. /\ UNCHANGED now /\ UNCHANGED job /\ UNCHANGED reportVars /\ UNCHANGED executorVars
  BY DEF HandleSchedule, worldVars
<1>3. PICK new \in Rows, edges \in Seq(Edges) :
           /\ WriteRow(r, new, edges) /\ new.attempts = 0
           /\ \/ new.state = "ESCALATED" /\ edges = <<Edge("NEW", "ESCALATED")>>
              \/ \E bucket \in Buckets :
                   /\ new.state = Plan(r, bucket).state
                   /\ new.action = Plan(r, bucket).action
                   /\ edges = RescoringPath("NEW", Plan(r, bucket))
  BY <1>1, HandleScheduleDoes
<1>4. row'[r] = new /\ trail'[r] = trail[r] \o edges /\ OtherRows(r)
  BY <1>1, <1>3, WriteRowDoes
<1>5. /\ ~InClaim(r) /\ ~Rests(r) /\ row[r].attempts = 0 /\ trail[r] = <<>>
      /\ \A q \in Pods : ~Live(q, r)
  BY <1>1, NobodyHolds DEF InClaim, Rests, EngineInv, Fresh
<1>6. \A q \in Pods : Owned(q, r)'
  BY <1>2, <1>5 DEF Owned, Live
<1>7. InSequence(r)'
  <2>1. \A n \in Numbers : n > 0 /\ ~EX!Exists(r, n)
    BY <1>1, <1>5 DEF EngineInv, InSequence, Numbers
  <2>2. \A n \in Numbers : n > 0 /\ ~EX!Exists(r, n)'
    BY <1>2, <2>1 DEF executorVars, EX!Exists
  <2>3. row'[r].attempts = 0
    BY <1>3, <1>4
  <2>4. \A n \in Numbers : ~(n <= 0)
    BY DEF Numbers
  <2> QED BY <2>2, <2>3, <2>4 DEF InSequence, Numbers
<1>8. Fresh(r)' /\ Explained(r)'
  <2>1. CASE new.state = "ESCALATED" /\ edges = <<Edge("NEW", "ESCALATED")>>
    <3>1. Fresh(r)'
      BY <1>4, <2>1 DEF Fresh
    <3>2. PICK e \in Edges : e = Edge("NEW", "ESCALATED") /\ e.from = "NEW" /\ e.to = "ESCALATED"
      <4>1. Edge("NEW", "ESCALATED") \in Edges
        BY DEF Edge, Edges, States, Terminal
      <4> QED BY <4>1 DEF Edge
    <3>3. <<"NEW", e.to>> \in Lifecycle!AllowedTransitions
      BY <3>2 DEF Lifecycle!AllowedTransitions
    <3>4. PICK t \in Seq(Edges) : t = trail[r]
      BY <1>1, TrailTypes
    <3>5. Lifecycle!TrailComplete(e.to, Append(t, e))
      BY <1>5, <3>2, <3>3, <3>4, TrailGrows
    <3>6. trail'[r] = Append(t, e) /\ row'[r].state = e.to
      BY <1>4, <2>1, <3>2, <3>4
    <3> QED BY <3>1, <3>5, <3>6
         DEF Explained, Lifecycle!TrailComplete, Lifecycle!IncompleteTrail, Lifecycle!ImpossibleTransition
  <2>2. CASE \E bucket \in Buckets :
                /\ new.state = Plan(r, bucket).state
                /\ new.action = Plan(r, bucket).action
                /\ edges = RescoringPath("NEW", Plan(r, bucket))
    <3>1. PICK bucket \in Buckets :
                /\ new.state = Plan(r, bucket).state
                /\ new.action = Plan(r, bucket).action
                /\ edges = RescoringPath("NEW", Plan(r, bucket))
      BY <2>2
    <3>2. PICK plan \in Plans : plan = Plan(r, bucket) /\ plan.state \in Routed
      BY <1>1, PlanIsScored
    <3>3. Fresh(r)'
      BY <1>4, <3>1, <3>2 DEF Fresh, Routed, Waiting
    <3>4. PICK t \in Seq(Edges) : t = trail[r]
      BY <1>1, TrailTypes
    <3>5. "NEW" \in States /\ <<"NEW", "SCORING">> \in Lifecycle!AllowedTransitions
      BY DEF States, Lifecycle!AllowedTransitions
    <3>6. Lifecycle!TrailComplete(plan.state, t \o RescoringPath("NEW", plan))
      BY <1>5, <3>2, <3>4, <3>5, TrailGrowsByPath
    <3>7. trail'[r] = t \o RescoringPath("NEW", plan) /\ row'[r].state = plan.state
      BY <1>4, <3>1, <3>2, <3>4
    <3> QED BY <3>3, <3>6, <3>7
         DEF Explained, Lifecycle!TrailComplete, Lifecycle!IncompleteTrail, Lifecycle!ImpossibleTransition
  <2> QED BY <1>3, <2>1, <2>2
<1>9. UsedUp(r)'
  BY <1>3, <1>4 DEF UsedUp
<1>10. EngineInv(r)' /\ DeliveryInv(r)'
  BY <1>2, <1>5, <1>6, <1>7, <1>8, <1>9, RowStep
<1>11. \A s \in Records \ {r} : JobsKept(s)
  BY <1>2 DEF JobsKept
<1> QED BY <1>1, <1>2, <1>4, <1>10, <1>11, OneRowWritten

LEMMA ClaimedRecord ==
  ASSUME AgentInv, NEW p \in Pods, NEW r \in Records, ClaimsRecord(p, r),
         \A q \in Pods \ {p} : job'[q] = job[q], UNCHANGED now, UNCHANGED reportVars,
         UNCHANGED executorVars
  PROVE  EngineInv(r)' /\ DeliveryInv(r)'
<1>1. GroundInv /\ TypeOK /\ EngineInv(r) /\ DeliveryInv(r) /\ RowForm(r)
  BY DEF AgentInv, GroundInv
<1>2. PICK old \in Rows, t \in Seq(Edges) :
        /\ old = row[r] /\ t = trail[r] /\ old.state \in Waiting
        /\ old.attempts < MaxAttempts
  BY <1>1, TrailTypes DEF ClaimsRecord, Due
<1>3. PICK new \in Rows, j \in Jobs, n \in Numbers, e \in Edges :
        /\ row'[r] = new /\ job'[p][r] = j /\ trail'[r] = Append(t, e)
        /\ new.state = ClaimedState(old.state) /\ new.attempts = old.attempts
        /\ n = old.attempts + 1 /\ j.n = n /\ j.phase = "claimed" /\ j.action = old.action
        /\ j.from = ClaimedState(old.state)
        /\ e.from = old.state /\ e.to = ClaimedState(old.state)
  <2>1. /\ ClaimedRow(old) \in Rows /\ ClaimedJob(old) \in Jobs
        /\ ClaimedRow(old).state = ClaimedState(old.state)
        /\ ClaimedRow(old).attempts = old.attempts
        /\ ClaimedJob(old).phase = "claimed" /\ ClaimedJob(old).action = old.action
        /\ ClaimedJob(old).from = ClaimedState(old.state)
        /\ ClaimedJob(old).n = old.attempts + 1 /\ old.attempts + 1 \in Numbers
        /\ ClaimedState(old.state) \in Claimed
    BY <1>2, ClaimedTypes
  <2>2. PICK e : e = Edge(old.state, ClaimedState(old.state))
    OBVIOUS
  <2>3. e \in Edges /\ e.from = old.state /\ e.to = ClaimedState(old.state)
    BY <1>2, <2>1, <2>2 DEF Edge, Edges, States
  <2>4. /\ row'[r] = ClaimedRow(old) /\ trail'[r] = Append(t, e)
        /\ job'[p][r] = ClaimedJob(old)
    BY <1>2, <2>2 DEF ClaimsRecord
  <2> QED BY <2>1, <2>3, <2>4
<1>4. ~InClaim(r) /\ ~Rests(r) /\ old.state # "NEW"
  BY <1>2 DEF InClaim, Rests, Waiting
<1>5. \A q \in Pods : ~Live(q, r)
  BY <1>1, <1>4, NobodyHolds
<1>6. PICK a \in SpendingActions :
        a = old.action /\ old.state = ScheduledState(a)
  BY <1>1, <1>2 DEF RowForm, Scheduled
<1>7. /\ new.state = (IF a = "RETRY" THEN "RETRYING" ELSE "NUDGED")
      /\ a # "RETRY" => e.from = "NUDGE_SCHEDULED"
  BY <1>3, <1>6 DEF ScheduledState, ClaimedState
<1>8. /\ Lifecycle!TrailComplete(e.to, Append(t, e)) /\ Append(t, e) # <<>>
      /\ Append(t, e)[Len(Append(t, e))] = e
  <2>1. Lifecycle!TrailComplete(old.state, t)
    BY <1>1, <1>2 DEF EngineInv, Explained
  <2>2. e.to # "NEW" /\ <<old.state, e.to>> \in Lifecycle!AllowedTransitions
    BY <1>2, <1>3 DEF Waiting, ClaimedState, Lifecycle!AllowedTransitions
  <2> QED BY <1>3, <1>4, <2>1, <2>2, TrailGrows
<1>9. InClaim(r)'
  <2>1. PICK u : u = Append(t, e)
    OBVIOUS
  <2>2. u # <<>> /\ u[Len(u)] = e /\ trail'[r] = u
    BY <1>3, <1>8, <2>1
  <2>3. a # "RETRY" => JustClaimed(r)'
    BY <1>7, <2>2 DEF JustClaimed
  <2> QED BY <1>3, <1>7, <2>3 DEF InClaim
<1>10. ~EX!Exists(r, n)
  <2>1. n > old.attempts
    BY <1>3, AgentAssumption DEF Rows
  <2> QED BY <1>1, <1>2, <1>4, <2>1 DEF EngineInv, InSequence
<1>11. \A q \in Pods : Owned(q, r)'
  <2>1. \A q \in Pods : Live(q, r)' => q = p
    BY <1>5 DEF Live
  <2>2. ~EX!Exists(r, n)'
    BY <1>10 DEF executorVars, EX!Exists
  <2>3. Owned(p, r)'
    BY <1>3, <1>6, <1>7, <1>9, <2>1, <2>2 DEF Owned
  <2> QED BY <2>1, <2>3 DEF Owned
<1>12. InSequence(r)'
  BY <1>1, <1>2, <1>3, <1>4 DEF EngineInv, InSequence, executorVars, EX!Exists, EX!Resolved
<1>13. Fresh(r)'
  BY <1>3, <1>7 DEF Fresh
<1>14. Explained(r)'
  BY <1>3, <1>8 DEF Explained, Lifecycle!TrailComplete, Lifecycle!IncompleteTrail,
                    Lifecycle!ImpossibleTransition
<1>15. UsedUp(r)'
  BY <1>1, <1>2, <1>3, <1>4 DEF DeliveryInv, UsedUp, executorVars, reportVars, Serving
<1> QED BY <1>4, <1>11, <1>12, <1>13, <1>14, <1>15, RowStep

LEMMA ClaimDueAgent == ASSUME AgentInv, NEW p \in Pods, ClaimDue(p) PROVE AgentInv'
<1>1. GroundInv /\ GroundInv'
  BY ClaimDueGround DEF AgentInv
<1>2. PICK batch \in SUBSET Records :
        /\ \A r \in batch : ClaimsRecord(p, r)
        /\ \A r \in Records \ batch :
             row'[r] = row[r] /\ trail'[r] = trail[r] /\ job'[p][r] = job[p][r]
  BY <1>1, ClaimDueDoes
<1>3. \A q \in Pods \ {p} : job'[q] = job[q]
  BY <1>1, ClaimDueDoes
<1>4. UNCHANGED now /\ UNCHANGED reportVars /\ UNCHANGED executorVars
  BY DEF ClaimDue, worldVars
<1>5. \A r \in batch : EngineInv(r)' /\ DeliveryInv(r)'
  BY <1>2, <1>3, <1>4, ClaimedRecord
<1>6. ASSUME NEW r \in Records \ batch PROVE Kept(r)
  BY <1>2, <1>3, <1>4 DEF Kept, RowKept, SpendingKept, EX!Exists, JobsKept, DeliveryKept,
     reportVars, executorVars
<1>7. \A r \in Records \ batch : EngineInv(r)' /\ DeliveryInv(r)'
  BY <1>1, <1>4, <1>6, KeptStays
<1> QED BY <1>1, <1>5, <1>7 DEF AgentInv

\* Recording what came of an attempt leaves nobody with the record.
LEMMA PutDownByOwner ==
  ASSUME GroundInv, NEW p \in Pods, NEW r \in Records, EngineInv(r), Live(p, r),
         JobBecomes(p, r, IdleJob)
  PROVE  /\ \A q \in Pods : Owned(q, r)'
         /\ \A s \in Records \ {r} : JobsKept(s)
<1>1. OtherJobs(p, r) /\ job'[p][r] = IdleJob
  BY PutDown
<1>2. \A q \in Pods : ~Live(q, r)'
  BY <1>1 DEF EngineInv, Owned, Live, OtherJobs, IdleJob
<1> QED BY <1>1, <1>2, JobsStay DEF Owned

\* The attempt under claim is counted.
LEMMA CountAttempt ==
  ASSUME TypeOK, NEW r \in Records, NEW n \in Numbers, InSequence(r),
         n = row[r].attempts + 1, EX!Resolved(r, n), row'[r].attempts = n,
         UNCHANGED executorVars
  PROVE  InSequence(r)'
<1>1. row[r].attempts \in Nat /\ n \in Nat
  BY AgentAssumption DEF TypeOK, Rows, Numbers
<1>2. ASSUME NEW m \in Numbers
      PROVE  /\ m <= n => EX!Resolved(r, m)
             /\ ~(m > n /\ EX!Exists(r, m))
  <2>1. m \in Nat
    BY DEF Numbers
  <2>2. m <= n => m = n \/ m <= row[r].attempts
    BY <1>1, <2>1
  <2>3. m > n => m > row[r].attempts /\ m # row[r].attempts + 1
    BY <1>1, <2>1
  <2> QED BY <2>2, <2>3 DEF InSequence
<1> QED BY <1>2 DEF InSequence, Numbers, executorVars, EX!Exists, EX!Resolved

LEMMA RecordResultAgent ==
  ASSUME AgentInv, NEW p \in Pods, NEW r \in Records, RecordResult(p, r) PROVE AgentInv'
<1>1. GroundInv /\ TypeOK /\ EngineInv(r) /\ DeliveryInv(r) /\ GroundInv'
  BY RecordResultGround DEF AgentInv, GroundInv
<1>2. UNCHANGED now /\ UNCHANGED reportVars /\ UNCHANGED executorVars
  BY DEF RecordResult, worldVars
<1>3. PICK n \in Numbers, new \in Rows :
           /\ n = job[p][r].n /\ job[p][r].phase = "answered"
           /\ EX!Resolved(r, n) /\ job[p][r].outcome = slot[r][n].outcome
           /\ slot[r][n].outcome # "FAILURE"
           /\ new.state = DecideAfterExecute(job[p][r].action, job[p][r].outcome)
           /\ new.state \in {"RECOVERED", "NUDGED", "ESCALATED"}
           /\ new.attempts = n /\ row' \in [Records -> Rows] /\ row'[r] = new
           /\ trail'[r] = trail[r] \o <<Edge(job[p][r].from, new.state)>>
           /\ trail' \in [Records -> Seq(Edges)] /\ OtherRows(r)
           /\ JobBecomes(p, r, IdleJob)
  BY <1>1, RecordResultDoes
<1>4. PICK a \in SpendingActions, from \in Claimed, t \in Seq(Edges) :
        /\ a = job[p][r].action /\ from = job[p][r].from /\ t = trail[r]
        /\ row[r].state = from /\ from = (IF a = "RETRY" THEN "RETRYING" ELSE "NUDGED")
        /\ slot[r][n].action = a /\ row[r].attempts + 1 = n /\ InClaim(r)
  <2>1. Live(p, r) /\ Owned(p, r) /\ job[p][r].action \in SpendingActions
    BY <1>1, <1>3, LiveJob DEF Live, EngineInv
  <2>2. EX!Exists(r, n)
    BY <1>3 DEF EX!Exists, EX!Resolved, EX!Outcomes, EX!NoRow
  <2>3. trail[r] \in Seq(Edges)
    BY <1>1, TrailTypes
  <2> QED BY <1>3, <2>1, <2>2, <2>3 DEF Owned, Claimed
<1>5. /\ new.state = "NUDGED" => a # "RETRY"
      /\ slot[r][n].outcome = "PENDING" => new.state = "NUDGED"
  <2>1. SlotForm(r, n)
    BY <1>1 DEF GroundInv
  <2> QED BY <1>3, <1>4, <2>1 DEF DecideAfterExecute, SlotForm, IsNudge, Nudges
<1>6. PICK e \in Edges : /\ e = Edge(from, new.state) /\ e.from = from /\ e.to = new.state
                         /\ trail'[r] = Append(t, e)
  <2>1. Edge(from, new.state) \in Edges
    BY <1>3 DEF Edge, Edges, States, Rows
  <2>2. Edge(from, new.state).from = from /\ Edge(from, new.state).to = new.state
    BY DEF Edge
  <2>3. t \o <<Edge(from, new.state)>> = Append(t, Edge(from, new.state))
    BY <2>1
  <2> QED BY <1>3, <1>4, <2>1, <2>2, <2>3
<1>7. /\ Lifecycle!TrailComplete(e.to, Append(t, e)) /\ Append(t, e) # <<>>
      /\ Append(t, e)[Len(Append(t, e))] = e
  <2>1. from # "NEW" /\ Lifecycle!TrailComplete(from, t)
    BY <1>1, <1>4 DEF EngineInv, Explained, Claimed
  <2>2. e.to # "NEW" /\ <<from, e.to>> \in Lifecycle!AllowedTransitions
    BY <1>3, <1>4, <1>5, <1>6 DEF Lifecycle!AllowedTransitions
  <2> QED BY <1>6, <2>1, <2>2, TrailGrows
<1>8. InSequence(r)'
  BY <1>1, <1>2, <1>3, <1>4, CountAttempt DEF EngineInv
<1>9. Fresh(r)'
  BY <1>3 DEF Fresh
<1>10. Explained(r)'
  BY <1>3, <1>6, <1>7 DEF Explained, Lifecycle!TrailComplete, Lifecycle!IncompleteTrail,
                    Lifecycle!ImpossibleTransition
<1>11. UsedUp(r)'
  <2>1. ASSUME slot[r][n].outcome = "PENDING" PROVE Rests(r)'
    <3>1. PICK u : u = Append(t, e)
      OBVIOUS
    <3>2. u[Len(u)].from = "NUDGED" /\ trail'[r] = u
      BY <1>4, <1>5, <1>6, <1>7, <2>1, <3>1
    <3>3. ~JustClaimed(r)'
      BY <3>2 DEF JustClaimed
    <3> QED BY <1>3, <1>5, <2>1, <3>3 DEF Rests
  <2> QED BY <1>2, <1>3, <2>1 DEF UsedUp, executorVars
<1>12. ~Rests(r) /\ Live(p, r)
  BY <1>3, <1>4 DEF InClaim, Rests, Live
<1>13. /\ \A q \in Pods : Owned(q, r)'
       /\ \A s \in Records \ {r} : JobsKept(s)
  BY <1>1, <1>3, <1>12, PutDownByOwner
<1>14. EngineInv(r)' /\ DeliveryInv(r)'
  BY <1>2, <1>8, <1>9, <1>10, <1>11, <1>12, <1>13, RowStep
<1> QED BY <1>1, <1>2, <1>3, <1>13, <1>14, OneRowWritten

LEMMA RecordRescoreAgent ==
  ASSUME AgentInv, NEW p \in Pods, NEW r \in Records, RecordRescore(p, r) PROVE AgentInv'
<1>1. GroundInv /\ TypeOK /\ EngineInv(r) /\ DeliveryInv(r) /\ GroundInv'
  BY RecordRescoreGround DEF AgentInv, GroundInv
<1>2. UNCHANGED now /\ UNCHANGED reportVars /\ UNCHANGED executorVars
  BY DEF RecordRescore, worldVars
<1>3. PICK n \in Numbers, new \in Rows, plan \in Plans :
           /\ n = job[p][r].n /\ job[p][r].phase = "rescoring" /\ plan = job[p][r].plan
           /\ EX!Resolved(r, n) /\ slot[r][n].outcome = "FAILURE" /\ PlanForm(plan)
           /\ new.state = plan.state /\ new.action = plan.action /\ new.attempts = n
           /\ row' \in [Records -> Rows] /\ row'[r] = new
           /\ trail'[r] = trail[r] \o RescoringPath(job[p][r].from, plan)
           /\ trail' \in [Records -> Seq(Edges)] /\ OtherRows(r)
           /\ JobBecomes(p, r, IdleJob)
  BY <1>1, RecordRescoreDoes
<1>4. PICK from \in States, t \in Seq(Edges) :
        /\ from = job[p][r].from /\ t = trail[r]
        /\ row[r].state = from /\ from \in {"RETRYING", "NUDGED"}
        /\ row[r].attempts + 1 = n /\ InClaim(r) /\ Live(p, r)
  <2>1. Live(p, r) /\ Owned(p, r)
    BY <1>1, <1>3 DEF Live, EngineInv
  <2>2. trail[r] \in Seq(Edges)
    BY <1>1, TrailTypes
  <2> QED BY <1>3, <2>1, <2>2 DEF Owned, States, Claimed
<1>5. Lifecycle!TrailComplete(plan.state, t \o RescoringPath(from, plan))
  <2>1. from # "NEW" /\ Lifecycle!TrailComplete(from, t)
    BY <1>1, <1>4 DEF EngineInv, Explained
  <2>2. <<from, "SCORING">> \in Lifecycle!AllowedTransitions /\ plan.state \in Routed
    BY <1>3, <1>4 DEF Lifecycle!AllowedTransitions, PlanForm
  <2> QED BY <2>1, <2>2, TrailGrowsByPath
<1>6. Explained(r)'
  BY <1>3, <1>4, <1>5 DEF Explained, Lifecycle!TrailComplete, Lifecycle!IncompleteTrail,
                    Lifecycle!ImpossibleTransition
<1>7. InSequence(r)'
  BY <1>1, <1>2, <1>3, <1>4, CountAttempt DEF EngineInv
<1>8. Fresh(r)'
  BY <1>3 DEF Fresh, PlanForm, Routed, Waiting
<1>9. UsedUp(r)'
  BY <1>2, <1>3 DEF UsedUp, executorVars
<1>10. ~Rests(r)
  BY <1>4 DEF InClaim, Rests
<1>11. /\ \A q \in Pods : Owned(q, r)'
       /\ \A s \in Records \ {r} : JobsKept(s)
  BY <1>1, <1>3, <1>4, PutDownByOwner
<1>12. EngineInv(r)' /\ DeliveryInv(r)'
  BY <1>2, <1>6, <1>7, <1>8, <1>9, <1>10, <1>11, RowStep
<1> QED BY <1>1, <1>2, <1>3, <1>11, <1>12, OneRowWritten

(***************************************************************************)
(* The port, the poller and the report handlers: the engine's part of a    *)
(* record stays, and one answer of it moves.                               *)
(***************************************************************************)
EngineKept ==
  UNCHANGED <<now, row, trail, job>> /\ \A s \in Records : SpendingKept(s)

\* Of one record only what concerns one of its answers changed.
LEMMA OneAnswerMoves ==
  ASSUME AgentInv, GroundInv', EngineKept, NEW r \in Records,
         \A s \in Records \ {r} : DeliveryKept(s), DeliveryInv(r)'
  PROVE  AgentInv'
<1>1. GroundInv /\ EngineInv(r)
  BY DEF AgentInv
<1>2. \A s \in Records : RowKept(s) /\ SpendingKept(s) /\ JobsKept(s)
  BY DEF EngineKept, RowKept, JobsKept
<1>3. EngineInv(r)'
  BY <1>1, <1>2, EngineStays
<1> QED BY <1>1, <1>2, <1>3, OneTouched DEF Kept

LEMMA NoAnswerMoves ==
  ASSUME AgentInv, GroundInv', EngineKept, \A s \in Records : DeliveryKept(s)
  PROVE  AgentInv'
<1>1. \A s \in Records : Kept(s)
  BY DEF EngineKept, RowKept, JobsKept, Kept
<1> QED BY <1>1, AllKept

\* What is planned stays foreseen while only reports change.
LEMMA ForeseenRests ==
  ASSUME AgentInv, EngineKept, NEW r \in Records, NEW c \in Callers,
         resume'[c] = resume[c]
  PROVE  Foreseen(c, r)'
<1>1. RowKept(r) /\ Foreseen(c, r)
  BY DEF AgentInv, EngineKept, RowKept, DeliveryInv
<1> QED BY <1>1, ForeseenStays

\* The last counted attempt is pending after the step only if it was before.
LEMMA LastWas ==
  ASSUME AgentInv, EngineKept, NEW r \in Records
  PROVE  /\ row'[r] = row[r] /\ (Rests(r)' <=> Rests(r))
         /\ row[r].attempts # 0 => row[r].attempts \in Numbers
         /\ LastKept(r)
<1>1. GroundInv /\ TypeOK /\ RowKept(r) /\ SpendingKept(r)
  BY DEF AgentInv, GroundInv, EngineKept, RowKept
<1>2. row[r].attempts \in 0..MaxAttempts
  BY <1>1 DEF TypeOK, Rows
<1> QED BY <1>1, <1>2, RowStays, LastStays, AgentAssumption DEF RowKept, Numbers

LEMMA AnswerQueued ==
  ASSUME AgentInv, GroundInv', EngineKept, UNCHANGED resume,
         NEW r \in Records, NEW n \in Numbers, slot[r][n].outcome = EX!ClaimMarker,
         report[r][n].phase = "none", UNCHANGED report \/ QueueAnswer(r, n)
  PROVE  AgentInv'
<1>1. GroundInv /\ TypeOK /\ DeliveryInv(r)
  BY DEF AgentInv, GroundInv
<1>2. CASE UNCHANGED report
  BY <1>2, NoAnswerMoves DEF DeliveryKept
<1>3. CASE QueueAnswer(r, n)
  <2>1. PICK x \in Reports : /\ report'[r][n] = x /\ OtherReports(r, n)
                             /\ x.tries = 0 /\ x.phase = "queued"
    <3>1. PICK answer \in Answers : /\ report' \in [Records -> [Numbers -> Reports]]
                                    /\ report'[r][n] = Queued(answer) /\ OtherReports(r, n)
      BY <1>1, <1>3, QueueAnswerDoes
    <3>2. Queued(answer).tries = 0 /\ Queued(answer).phase = "queued"
      BY DEF Queued
    <3> QED BY <3>1, <3>2
  <2>2. \A c \in Callers : ~Serving(c, r, n)
    BY <1>1 DEF DeliveryInv, DeliveredOnce
  <2>3. \A c \in Callers, m \in Numbers : Serving(c, r, m)' <=> Serving(c, r, m)
    BY DEF Serving
  <2>4. ASSUME NEW m \in Numbers PROVE DeliveredOnce(r, m)'
    <3>1. CASE m = n
      BY <2>1, <2>2, <2>3, <3>1 DEF DeliveredOnce
    <3>2. CASE m # n
      BY <1>1, <2>1, <2>3, <3>2 DEF DeliveryInv, DeliveredOnce, OtherReports
    <3> QED BY <3>1, <3>2
  <2>5. UsedUp(r)'
    <3>1. PICK m : m = row[r].attempts
      OBVIOUS
    <3>2. m # 0 /\ slot'[r][m].outcome = "PENDING" =>
            m \in Numbers /\ m # n /\ slot[r][m].outcome = "PENDING"
      BY <3>1, LastWas DEF LastKept, EX!ClaimMarker
    <3>3. m \in Numbers /\ m # n => report'[r][m] = report[r][m]
      BY <2>1 DEF OtherReports
    <3>4. row'[r].attempts = m /\ (Rests(r)' <=> Rests(r))
      BY <3>1, LastWas
    <3> QED BY <1>1, <2>3, <3>1, <3>2, <3>3, <3>4 DEF DeliveryInv, UsedUp
  <2>6. \A c \in Callers : Foreseen(c, r)'
    BY ForeseenRests
  <2>7. DeliveryInv(r)'
    BY <2>4, <2>5, <2>6 DEF DeliveryInv, Numbers
  <2>8. \A s \in Records \ {r} : DeliveryKept(s)
    BY <2>1 DEF DeliveryKept, OtherReports
  <2> QED BY <2>7, <2>8, OneAnswerMoves
<1> QED BY <1>2, <1>3

LEMMA PortAgent ==
  ASSUME AgentInv, NEW r \in Records, NEW n \in Numbers, PortActs(r, n) \/ PortFails(r, n)
  PROVE  AgentInv'
<1>1. GroundInv /\ GroundInv' /\ SlotForm(r, n) /\ AnswerForm(r, n)
  BY PortActsGround, PortFailsGround DEF AgentInv, GroundInv
<1>2. /\ UNCHANGED report \/ QueueAnswer(r, n)
      /\ UNCHANGED <<now, row, trail, job>> /\ UNCHANGED resume
      /\ handler[r][n] = "port" /\ slot' = slot
  BY DEF PortActs, PortFails, worldVars, engineVars, EX!Perform, EX!PerformFails
<1>3. EngineKept
  BY <1>2 DEF EngineKept, SpendingKept, EX!Exists
<1>4. slot[r][n].outcome = EX!ClaimMarker /\ report[r][n].phase = "none"
  BY <1>1, <1>2 DEF SlotForm, AnswerForm
<1> QED BY <1>1, <1>2, <1>3, <1>4, AnswerQueued

LEMMA OutcomeSavedAgent ==
  ASSUME AgentInv, NEW r \in Records, NEW n \in Numbers, OutcomeSaved(r, n)
  PROVE  AgentInv'
<1>1. GroundInv /\ GroundInv' /\ TypeOK
  BY OutcomeSavedGround DEF AgentInv, GroundInv
<1>2. UNCHANGED <<now, row, trail, job>> /\ UNCHANGED reportVars
  BY DEF OutcomeSaved, worldVars, engineVars
<1>3. \A s \in Records : SpendingKept(s)
  BY <1>1, OutcomeSpendsNothing
<1>4. EngineKept /\ \A s \in Records : DeliveryKept(s)
  BY <1>2, <1>3 DEF EngineKept, DeliveryKept, reportVars
<1> QED BY <1>1, <1>4, NoAnswerMoves

LEMMA PollerMovesAgent ==
  ASSUME OneDelivery, AgentInv, NEW r \in Records, NEW n \in Numbers,
         PollerTake(r, n) \/ PollerTimesOut(r, n) \/ PollerDies(r, n)
  PROVE  AgentInv'
<1>1. GroundInv /\ GroundInv' /\ TypeOK /\ DeliveryInv(r)
  BY PollerMovesGround DEF AgentInv, GroundInv
<1>2. PICK x \in Reports : x = report[r][n]
  BY <1>1 DEF TypeOK
<1>3. PICK phase \in {"delivering", "done"} :
           /\ ReportBecomes(r, n, Moved(x, phase))
           /\ x.phase \in {"queued", "delivering", "calling"}
           /\ phase = "delivering" =>
                \/ x.phase = "queued"
                \/ "report" \in Faults /\ x.tries < MaxDeliverAttempts
  BY <1>1, <1>2, PollerMoves
<1>4. PICK y \in Reports : /\ y = Moved(x, phase) /\ y.phase = phase /\ y.tries = x.tries
                           /\ report'[r][n] = y /\ OtherReports(r, n)
  BY <1>1, <1>3, ReportStages, ReportBecomesDoes
<1>5. EngineKept /\ UNCHANGED resume
  BY DEF EngineKept, SpendingKept, EX!Exists, PollerTake, PollerTimesOut, PollerDies,
         worldVars, engineVars, executorVars
<1>6. \A c \in Callers, m \in Numbers : Serving(c, r, m)' <=> Serving(c, r, m)
  BY <1>5 DEF Serving
<1>7. ASSUME NEW m \in Numbers PROVE DeliveredOnce(r, m)'
  <2>1. CASE m = n
    <3>1. phase = "delivering" => x.tries = 0
      <4>1. x.tries \in Nat /\ DeliveredOnce(r, n)
        BY <1>1, AgentAssumption DEF Reports, DeliveryInv
      <4> QED BY <1>2, <1>3, <4>1 DEF DeliveredOnce, OneDelivery
    <3> QED BY <1>1, <1>2, <1>4, <1>6, <2>1, <3>1 DEF DeliveryInv, DeliveredOnce
  <2>2. CASE m # n
    BY <1>1, <1>4, <1>6, <2>2 DEF DeliveryInv, DeliveredOnce, OtherReports
  <2> QED BY <2>1, <2>2
<1>8. UsedUp(r)'
  <2>1. \A m \in Numbers : report'[r][m].tries = report[r][m].tries
    BY <1>2, <1>4 DEF OtherReports
  <2> QED BY <1>1, <1>5, <1>6, <2>1, LastWas DEF DeliveryInv, UsedUp, LastKept
<1>9. \A c \in Callers : Foreseen(c, r)'
  BY <1>5, ForeseenRests
<1>10. \A s \in Records \ {r} : DeliveryKept(s)
  BY <1>4, <1>5 DEF DeliveryKept, OtherReports
<1>11. DeliveryInv(r)'
  BY <1>7, <1>8, <1>9 DEF DeliveryInv, Numbers
<1> QED BY <1>1, <1>5, <1>10, <1>11, OneAnswerMoves

LEMMA PollerCallAgent ==
  ASSUME AgentInv, NEW r \in Records, NEW n \in Numbers, NEW c \in Callers,
         PollerCall(r, n, c)
  PROVE  AgentInv'
<1>1. GroundInv /\ GroundInv' /\ TypeOK /\ DeliveryInv(r)
  BY PollerCallGround DEF AgentInv, GroundInv
<1>2. PICK x \in Reports, outcome \in Answers, try \in 1..MaxDeliverAttempts :
           /\ x = report[r][n] /\ outcome = x.outcome /\ try = x.tries + 1
           /\ x.phase = "delivering" /\ x.tries < MaxDeliverAttempts
           /\ resume[c] = IdleResume
           /\ ReportBecomes(r, n, Sent(x))
           /\ ResumeBecomes(c, Calling(r, n, outcome, try))
  BY <1>1, PollerCallDoes
<1>3. PICK y \in Reports : /\ y = Sent(x) /\ y.phase = "calling" /\ y.tries = x.tries + 1
                           /\ report'[r][n] = y /\ OtherReports(r, n)
  BY <1>1, <1>2, ReportStages, ReportBecomesDoes
<1>4. PICK z \in Resumes : /\ z.phase = "called" /\ z.record = r /\ z.n = n
                           /\ resume'[c] = z /\ OtherResumes(c)
  BY <1>1, <1>2, CallingTypes, ResumeBecomesDoes
<1>5. EngineKept
  BY DEF EngineKept, SpendingKept, EX!Exists, PollerCall, worldVars, engineVars, executorVars
<1>6. x.tries = 0 /\ y.tries = 1 /\ \A d \in Callers : ~Serving(d, r, n)
  <2>1. DeliveredOnce(r, n)
    BY <1>1 DEF DeliveryInv
  <2> QED BY <1>2, <1>3, <2>1 DEF DeliveredOnce
<1>7. \A d \in Callers, m \in Numbers :
        Serving(d, r, m)' <=> Serving(d, r, m) \/ (d = c /\ m = n)
  BY <1>2, <1>4 DEF Serving, OtherResumes, IdleResume
<1>8. ASSUME NEW m \in Numbers PROVE DeliveredOnce(r, m)'
  <2>1. CASE m = n
    BY <1>3, <1>6, <1>7, <2>1 DEF DeliveredOnce
  <2>2. CASE m # n
    BY <1>1, <1>3, <1>7, <2>2 DEF DeliveryInv, DeliveredOnce, OtherReports
  <2> QED BY <2>1, <2>2
<1>9. UsedUp(r)'
  <2>1. PICK m : m = row[r].attempts
    OBVIOUS
  <2>2. SUFFICES ASSUME m # 0, slot'[r][m].outcome = "PENDING", ~Rests(r)
                 PROVE  report'[r][m].tries = 1 /\ \A d \in Callers : ~Serving(d, r, m)'
    BY <1>5, <2>1, LastWas DEF UsedUp
  <2>3. m \in Numbers /\ slot[r][m].outcome = "PENDING"
    BY <1>5, <2>1, <2>2, LastWas DEF LastKept
  <2>4. report[r][m].tries = 1 /\ \A d \in Callers : ~Serving(d, r, m)
    BY <1>1, <2>1, <2>2, <2>3 DEF DeliveryInv, UsedUp
  <2>5. m # n
    BY <1>2, <1>6, <2>4
  <2> QED BY <1>3, <1>7, <2>3, <2>4, <2>5 DEF OtherReports
<1>10. ASSUME NEW d \in Callers PROVE Foreseen(d, r)'
  <2>1. CASE d = c
    BY <1>4, <2>1 DEF Foreseen
  <2>2. CASE d # c
    BY <1>4, <1>5, <2>2, ForeseenRests DEF OtherResumes
  <2> QED BY <2>1, <2>2
<1>11. \A s \in Records \ {r} : DeliveryKept(s)
  BY <1>3, <1>4 DEF DeliveryKept, OtherReports, OtherResumes
<1>12. DeliveryInv(r)'
  BY <1>8, <1>9, <1>10 DEF DeliveryInv, Numbers
<1> QED BY <1>1, <1>5, <1>11, <1>12, OneAnswerMoves

\* A report call ends without having touched a row.
LEMMA CallEndsAgent ==
  ASSUME AgentInv, NEW c \in Callers, ResumeDiscard(c) \/ ResumeFails(c)
  PROVE  AgentInv'
<1>1. GroundInv /\ GroundInv' /\ TypeOK /\ resume[c].phase # "idle"
  BY ResumeDiscardGround, ResumeFailsGround DEF AgentInv, GroundInv, ResumeDiscard, ResumeFails
<1>2. EngineKept /\ UNCHANGED executorVars
  BY DEF EngineKept, SpendingKept, EX!Exists, ResumeDiscard, ResumeFails, worldVars,
         engineVars, executorVars
<1>3. \A s \in Records : DeliveryKept(s)
  <2>1. CASE ResumeDiscard(c)
    <3>1. /\ resume'[c] = IdleResume /\ OtherResumes(c)
          /\ \A r \in Records, n \in Numbers :
              \/ report'[r][n] = report[r][n]
              \/ report'[r][n] = Moved(report[r][n], "done")
      BY <1>1, <1>2, <2>1, RespondDoes DEF ResumeDiscard
    <3>2. \A r \in Records, n \in Numbers : report[r][n] \in Reports
      BY <1>1 DEF TypeOK
    <3>3. \A x \in Reports : Moved(x, "done").phase = "done" /\ Moved(x, "done").tries = x.tries
      BY ReportStages
    <3> QED BY <3>1, <3>2, <3>3 DEF DeliveryKept, OtherResumes
  <2>2. CASE ResumeFails(c)
    <3>1. resume'[c] = IdleResume /\ OtherResumes(c) /\ report' = report
      BY <1>1, <2>2 DEF ResumeFails, OtherResumes, TypeOK
    <3> QED BY <3>1 DEF DeliveryKept, OtherResumes
  <2> QED BY <2>1, <2>2
<1> QED BY <1>1, <1>2, <1>3, NoAnswerMoves

\* An awaited answer finds its record resting: had it moved on, the answer would have
\* been used.
LEMMA ResumePlanAgent ==
  ASSUME AgentInv, NEW c \in Callers, ResumePlan(c) PROVE AgentInv'
<1>1. GroundInv /\ GroundInv' /\ TypeOK
  BY ResumePlanGround DEF AgentInv, GroundInv
<1>2. PICK x \in Resumes, r \in Records, n \in Numbers, plan \in Plans :
           /\ x = resume[c] /\ x.phase = "called" /\ r = x.record /\ n = x.n
           /\ Awaits(r, n) /\ ResumeBecomes(c, Planned(x, plan))
           /\ x.outcome = "SUCCESS" => plan = Recovery
           /\ x.outcome # "SUCCESS" => plan = Plan(r, row[r].bucket)
  BY <1>1, ResumePlanDoes
<1>3. PICK y \in Resumes :
        /\ y.phase = "planned" /\ y.record = r /\ y.n = n /\ y.plan = plan
        /\ y.outcome = x.outcome /\ resume'[c] = y /\ OtherResumes(c)
  BY <1>1, <1>2, PlannedTypes, ResumeBecomesDoes
<1>4. EngineKept /\ UNCHANGED report /\ UNCHANGED slot
  BY DEF EngineKept, SpendingKept, EX!Exists, ResumePlan, worldVars, engineVars, executorVars
<1>5. DeliveryInv(r) /\ EngineInv(r) /\ RowForm(r) /\ AnswerForm(r, n) /\ ResumeForm(c)
  BY <1>1 DEF AgentInv, GroundInv
<1>6. row[r].attempts = n /\ n # 0 /\ Rests(r)
  <2>1. row[r].attempts = n /\ n # 0
    BY <1>2 DEF Awaits, Numbers
  <2>2. slot[r][n].outcome = "PENDING"
    BY <1>2, <1>5, <2>1 DEF RowForm, AnswerForm, ResumeForm, EX!Resolved, EX!Outcomes,
       EX!ClaimMarker
  <2>3. Serving(c, r, n)
    BY <1>2 DEF Serving
  <2> QED BY <1>5, <2>1, <2>2, <2>3 DEF DeliveryInv, UsedUp
<1>7. \A d \in Callers, m \in Numbers : Serving(d, r, m)' <=> Serving(d, r, m)
  BY <1>2, <1>3 DEF Serving, OtherResumes
<1>8. \A m \in Numbers : DeliveredOnce(r, m)'
  BY <1>4, <1>5, <1>7 DEF DeliveryInv, DeliveredOnce
<1>9. UsedUp(r)'
  BY <1>4, <1>6, LastWas DEF UsedUp
<1>10. ASSUME NEW d \in Callers PROVE Foreseen(d, r)'
  <2>1. CASE d = c
    <3>1. Rests(r)' /\ row'[r].attempts = n
      BY <1>4, <1>6, LastWas
    <3> QED BY <1>3, <2>1, <3>1 DEF Foreseen
  <2>2. CASE d # c
    BY <1>3, <1>4, <2>2, ForeseenRests DEF OtherResumes
  <2> QED BY <2>1, <2>2
<1>11. \A s \in Records \ {r} : DeliveryKept(s)
  BY <1>3, <1>4 DEF DeliveryKept, OtherResumes
<1>12. DeliveryInv(r)'
  BY <1>8, <1>9, <1>10 DEF DeliveryInv, Numbers
<1> QED BY <1>1, <1>4, <1>11, <1>12, OneAnswerMoves

\* A planned answer is applied to the row it was planned for, and is used up by it.
LEMMA ResumeApplyAgent ==
  ASSUME AgentInv, NEW c \in Callers, ResumeApply(c) PROVE AgentInv'
<1>1. GroundInv /\ GroundInv' /\ TypeOK
  BY ResumeApplyGround DEF AgentInv, GroundInv
<1>2. PICK x \in Resumes, r \in Records, n \in Numbers, plan \in Plans :
           /\ x = resume[c] /\ x.phase = "planned" /\ r = x.record /\ n = x.n
           /\ plan = x.plan /\ Respond(c)
           /\ \/ ~Awaits(r, n) /\ UNCHANGED <<row, trail>>
              \/ /\ Awaits(r, n) /\ OtherRows(r)
                 /\ row' \in [Records -> Rows] /\ trail' \in [Records -> Seq(Edges)]
                 /\ row'[r].state = plan.state /\ row'[r].attempts = n
                 /\ row'[r].action = plan.action
                 /\ x.outcome = "SUCCESS" =>
                      trail'[r] = trail[r] \o <<Edge("NUDGED", "RECOVERED")>>
                 /\ x.outcome # "SUCCESS" =>
                      trail'[r] = trail[r] \o RescoringPath("NUDGED", plan)
  BY <1>1, ResumeApplyDoes
<1>3. EngineInv(r) /\ DeliveryInv(r) /\ ResumeForm(c) /\ Foreseen(c, r)
  BY <1>1 DEF AgentInv, GroundInv, DeliveryInv
<1>4. /\ Rests(r) /\ row[r].attempts = n /\ Awaits(r, n) /\ row[r].state = "NUDGED"
      /\ x.outcome # "SUCCESS" => PlanForm(plan)
      /\ x.outcome = "SUCCESS" => plan.state = "RECOVERED"
      /\ Serving(c, r, n)
  BY <1>2, <1>3 DEF Foreseen, Rests, Awaits, ResumeForm, Serving
<1>5. UNCHANGED now /\ UNCHANGED job /\ UNCHANGED executorVars
  BY DEF ResumeApply, worldVars
<1>6. /\ resume'[c] = IdleResume /\ OtherResumes(c)
      /\ \A s \in Records, k \in Numbers :
          \/ report'[s][k] = report[s][k]
          \/ report'[s][k] = Moved(report[s][k], "done")
  BY <1>1, <1>2, <1>5, RespondDoes
<1>7. \A s \in Records : DeliveryKept(s) /\ SpendingKept(s) /\ JobsKept(s)
  <2>1. \A s \in Records, k \in Numbers : report[s][k] \in Reports
    BY <1>1 DEF TypeOK
  <2>2. \A z \in Reports : Moved(z, "done").phase = "done" /\ Moved(z, "done").tries = z.tries
    BY ReportStages
  <2>3. \A s \in Records : DeliveryKept(s)
    BY <1>6, <2>1, <2>2 DEF DeliveryKept, OtherResumes
  <2> QED BY <1>5, <2>3 DEF SpendingKept, JobsKept, EX!Exists, executorVars
<1>8. \A q \in Pods : ~Live(q, r)
  BY <1>3, <1>4, NobodyHolds DEF Rests, InClaim
<1>9. \A q \in Pods : Owned(q, r)'
  BY <1>5, <1>8 DEF Owned, Live
<1>10. InSequence(r)'
  <2>1. ~InClaim(r)
    BY <1>4 DEF Rests, InClaim
  <2> QED BY <1>2, <1>3, <1>4, <1>5, <2>1
       DEF EngineInv, InSequence, executorVars, EX!Exists, EX!Resolved
<1>11. Fresh(r)'
  BY <1>2, <1>4 DEF Fresh, PlanForm, Routed, Waiting
<1>13. Explained(r)'
  <2>1. PICK t \in Seq(Edges) : t = trail[r] /\ Lifecycle!TrailComplete("NUDGED", t)
    BY <1>1, <1>3, <1>4, TrailTypes DEF EngineInv, Explained
  <2>2. CASE x.outcome = "SUCCESS"
    <3>1. PICK e \in Edges : e = Edge("NUDGED", "RECOVERED") /\ e.from = "NUDGED" /\ e.to = "RECOVERED"
      <4>1. Edge("NUDGED", "RECOVERED") \in Edges
        BY DEF Edge, Edges, States, Claimed, Terminal
      <4> QED BY <4>1 DEF Edge
    <3>2. <<"NUDGED", e.to>> \in Lifecycle!AllowedTransitions
      BY <3>1 DEF Lifecycle!AllowedTransitions
    <3>3. Lifecycle!TrailComplete(e.to, Append(t, e))
      BY <2>1, <3>1, <3>2, TrailGrows
    <3>4. trail'[r] = Append(t, e) /\ row'[r].state = e.to
      BY <1>2, <1>4, <2>1, <2>2, <3>1
    <3> QED BY <3>3, <3>4
         DEF Explained, Lifecycle!TrailComplete, Lifecycle!IncompleteTrail, Lifecycle!ImpossibleTransition
  <2>3. CASE x.outcome # "SUCCESS"
    <3>1. "NUDGED" \in States /\ <<"NUDGED", "SCORING">> \in Lifecycle!AllowedTransitions
      BY DEF States, Claimed, Lifecycle!AllowedTransitions
    <3>2. Lifecycle!TrailComplete(plan.state, t \o RescoringPath("NUDGED", plan))
      BY <1>4, <2>1, <2>3, <3>1, TrailGrowsByPath DEF PlanForm
    <3>3. trail'[r] = t \o RescoringPath("NUDGED", plan) /\ row'[r].state = plan.state
      BY <1>2, <1>4, <2>1, <2>3
    <3> QED BY <3>2, <3>3
         DEF Explained, Lifecycle!TrailComplete, Lifecycle!IncompleteTrail, Lifecycle!ImpossibleTransition
  <2> QED BY <2>2, <2>3
<1>14. EngineInv(r)'
  BY <1>9, <1>10, <1>11, <1>13 DEF EngineInv
<1>15. \A d \in Callers, m \in Numbers : Serving(d, r, m)' => d # c /\ Serving(d, r, m)
  BY <1>6 DEF Serving, OtherResumes, IdleResume
<1>16. \A m \in Numbers : DeliveredOnce(r, m)'
  BY <1>3, <1>7, DeliveredOnceStays DEF DeliveryInv
<1>17. report[r][n].tries = 1 /\ \A d \in Callers : Serving(d, r, n) => d = c
  BY <1>3, <1>4 DEF DeliveryInv, DeliveredOnce
<1>18. UsedUp(r)'
  <2>1. report'[r][n].tries = 1
    BY <1>7, <1>17 DEF DeliveryKept
  <2>2. row'[r].attempts = n
    BY <1>2, <1>4
  <2> QED BY <1>15, <1>17, <2>1, <2>2 DEF UsedUp
<1>19. ASSUME NEW d \in Callers PROVE Foreseen(d, r)'
  <2>1. ~(resume'[d].phase = "planned" /\ resume'[d].record = r)
    <3>1. CASE d = c
      BY <1>6, <3>1 DEF IdleResume
    <3>2. CASE d # c
      <4>1. resume'[d] = resume[d] /\ Foreseen(d, r)
        BY <1>3, <1>6, <3>2 DEF OtherResumes, DeliveryInv
      <4> QED BY <1>4, <1>17, <3>2, <4>1 DEF Foreseen, Serving
    <3> QED BY <3>1, <3>2
  <2> QED BY <2>1 DEF Foreseen
<1>20. DeliveryInv(r)'
  BY <1>16, <1>18, <1>19 DEF DeliveryInv, Numbers
<1>21. \A s \in Records \ {r} : Kept(s)
  BY <1>2, <1>4, <1>7 DEF Kept, OtherRows, RowKept
<1> QED BY <1>1, <1>14, <1>20, <1>21, OneTouched

-----------------------------------------------------------------------------
LEMMA InitAgent == ASSUME Init PROVE AgentInv
<1>1. GroundInv
  BY InitGround
<1>2. ASSUME NEW r \in Records, NEW n \in Numbers
      PROVE  /\ slot[r][n].action = "UNSPECIFIED" /\ slot[r][n].outcome = "no row"
             /\ slot[r][n].at = 0
             /\ report[r][n].tries = 0 /\ report[r][n].phase = "none"
  BY DEF Init, EX!ExecutorInit, EX!EmptySlot, EX!NoRow, EX!Numbers, Numbers, NoReport
<1>5. ASSUME NEW r \in Records PROVE EngineInv(r)
  <2>1. /\ row[r].state = "NEW" /\ row[r].attempts = 0 /\ trail[r] = <<>> /\ now = 0
        /\ \A p \in Pods : job[p][r].phase = "idle"
    BY DEF Init, NewRow, IdleJob
  <2>2. InSequence(r)
    <3>1. ASSUME NEW n \in Numbers PROVE ~EX!Exists(r, n) /\ ~(n <= 0)
      <4>1. slot[r][n].outcome = "no row"
        BY <1>2
      <4>2. ~(n <= 0)
        BY AgentAssumption DEF Numbers
      <4> QED BY <4>1, <4>2 DEF EX!Exists, EX!NoRow
    <3> QED BY <2>1, <3>1 DEF InSequence
  <2> QED BY <2>1, <2>2
       DEF EngineInv, Owned, Live, Fresh, Explained, Lifecycle!TrailComplete
<1>6. ASSUME NEW r \in Records PROVE DeliveryInv(r)
  <2>1. \A c \in Callers : resume[c].phase = "idle"
    BY DEF Init, IdleResume
  <2>2. row[r].attempts = 0
    BY DEF Init, NewRow
  <2>3. \A n \in Numbers : DeliveredOnce(r, n)
    <3>1. \A n \in Numbers : report[r][n].tries = 0 /\ report[r][n].phase = "none"
      BY <1>2
    <3> QED BY <2>1, <3>1 DEF DeliveredOnce, Serving
  <2> QED BY <2>1, <2>2, <2>3 DEF DeliveryInv, UsedUp, Foreseen
<1> QED BY <1>1, <1>5, <1>6 DEF AgentInv

LEMMA AgentStep == ASSUME OneDelivery, AgentInv, [Next]_vars PROVE AgentInv'
<1>1. CASE UNCHANGED vars
  BY <1>1, QuietStep
<1>2. CASE Tick \/ DowntimeEvent \/ \E r \in Records : Redeliver(r)
  BY <1>2, TickAgent, QuietStep
<1>3. CASE \E p \in Pods : ClaimDue(p) \/ Crash(p)
  BY <1>3, ClaimDueAgent, QuietStep
<1>4. CASE \E p \in Pods, r \in Records : PodActs(p, r)
  BY <1>4, QuietStep, HandleScheduleAgent, CallExecuteAgent, CallAnsweredAgent,
     CallFailsAgent, RecordResultAgent, RescoreAgent, RecordRescoreAgent, ResultLostAgent
     DEF PodActs
<1>5. CASE \E r \in Records, n \in Numbers : AttemptActs(r, n)
  BY <1>5, PortAgent, OutcomeSavedAgent, PollerMovesAgent, PollerCallAgent DEF AttemptActs
<1>6. CASE \E c \in Callers : CallActs(c)
  BY <1>6, CallEndsAgent, ResumePlanAgent, ResumeApplyAgent DEF CallActs
<1> QED BY <1>1, <1>2, <1>3, <1>4, <1>5, <1>6, StepSplit

LEMMA AgentInvariance == ASSUME OneDelivery PROVE Spec => []AgentInv
<1>1. Init => AgentInv
  BY InitAgent
<1>2. AgentInv /\ [Next]_vars => AgentInv'
  BY AgentStep
<1> QED BY <1>1, <1>2, PTL DEF Spec

\* claimDue's lock and the row it leaves behind are enough: as long as no answer is
\* delivered twice, two pods never work on one record and nothing touches the row of
\* a record in work.  StaleReport shows a run in which a second delivery does.
THEOREM OneExecutionAtATime == ASSUME OneDelivery PROVE Spec => []ClaimSerialises
<1>1. AgentInv => ClaimSerialises
  BY DEF AgentInv, EngineInv, Owned, Live, ClaimSerialises
<1> QED BY <1>1, AgentInvariance, PTL

\* The Audit service finds nothing to object to in any trail: what each transaction
\* appends continues it, ends in the state it writes, and is an edge of the table.
THEOREM TrailsExplainStates == ASSUME OneDelivery PROVE Spec => []TrailsComplete
<1>1. AgentInv => TrailsComplete
  BY DEF AgentInv, EngineInv, Explained, TrailsComplete
<1> QED BY <1>1, AgentInvariance, PTL

LEMMA Started ==
  ASSUME AgentInv, NEW r \in Records
  PROVE  /\ row[r].attempts \in 0..MaxAttempts
         /\ \E k \in {row[r].attempts, row[r].attempts + 1} :
              /\ k \in 0..MaxAttempts
              /\ {n \in Numbers : EX!Exists(r, n)} = 1..k
              /\ Cardinality({n \in Numbers : EX!Exists(r, n)}) = k
<1>1. row[r].attempts \in 0..MaxAttempts /\ InSequence(r)
  BY DEF AgentInv, GroundInv, TypeOK, Rows, EngineInv
<1>2. PICK a \in 0..MaxAttempts : a = row[r].attempts
  BY <1>1
<1>3. \A n \in Numbers : n <= a => EX!Exists(r, n)
  BY <1>1, <1>2 DEF InSequence, EX!Exists, EX!Resolved, EX!Outcomes, EX!NoRow
<1>4. \A n \in Numbers : n > a /\ EX!Exists(r, n) => n = a + 1
  BY <1>1, <1>2 DEF InSequence
<1>5. \A k \in 0..MaxAttempts : Cardinality(1..k) = k
  <2>1. ASSUME NEW k \in 0..MaxAttempts PROVE Cardinality(1..k) = k
    <3>1. Cardinality(1..k) = IF 1 > k THEN 0 ELSE k - 1 + 1
      BY FS_Interval, AgentAssumption
    <3> QED BY <3>1, AgentAssumption
  <2> QED BY <2>1
<1>6. CASE \E n \in Numbers : n > a /\ EX!Exists(r, n)
  <2>1. a + 1 \in Numbers /\ EX!Exists(r, a + 1) /\ a + 1 \in 0..MaxAttempts
    BY <1>2, <1>4, <1>6, AgentAssumption DEF Numbers
  <2>2. {n \in Numbers : EX!Exists(r, n)} = 1..(a + 1)
    BY <1>3, <1>4, <2>1, AgentAssumption DEF Numbers
  <2> QED BY <1>1, <1>2, <1>5, <2>1, <2>2
<1>7. CASE ~ \E n \in Numbers : n > a /\ EX!Exists(r, n)
  <2>1. {n \in Numbers : EX!Exists(r, n)} = 1..a
    BY <1>3, <1>7, AgentAssumption DEF Numbers
  <2> QED BY <1>1, <1>2, <1>5, <2>1
<1> QED BY <1>6, <1>7

\* The attempts of a record are numbered without gaps and one is over before the next is
\* claimed, so RECORD_STATE's count is never more than one behind the Executor's.
THEOREM AttemptsFollowOneAnother == ASSUME OneDelivery PROVE Spec => []AttemptsInSequence
<1>1. ASSUME AgentInv PROVE AttemptsInSequence
  <2> SUFFICES ASSUME NEW r \in Records
               PROVE  /\ \A n \in Numbers \ {1} : EX!Exists(r, n) => EX!Resolved(r, n - 1)
                      /\ row[r].attempts \in {Cardinality({n \in Numbers : EX!Exists(r, n)}) - 1,
                                              Cardinality({n \in Numbers : EX!Exists(r, n)})}
    BY DEF AttemptsInSequence
  <2>1. PICK a \in 0..MaxAttempts, k \in 0..MaxAttempts :
          /\ a = row[r].attempts /\ k \in {a, a + 1}
          /\ {n \in Numbers : EX!Exists(r, n)} = 1..k
          /\ Cardinality({n \in Numbers : EX!Exists(r, n)}) = k
    BY <1>1, Started
  <2>2. InSequence(r)
    BY <1>1 DEF AgentInv, EngineInv
  <2>3. ASSUME NEW n \in Numbers \ {1}, EX!Exists(r, n) PROVE EX!Resolved(r, n - 1)
    <3>1. n - 1 \in Numbers /\ n - 1 <= a
      BY <2>1, <2>3, AgentAssumption DEF Numbers
    <3> QED BY <2>1, <2>2, <3>1 DEF InSequence
  <2> QED BY <2>1, <2>3, AgentAssumption
<1> QED BY <1>1, AgentInvariance, PTL

-----------------------------------------------------------------------------
(***************************************************************************)
(* Nothing is spent after the end.                                         *)
(***************************************************************************)
LEMMA ActingIsClaimed ==
  ASSUME AgentInv, NEW r \in Records, NEW n \in Numbers, handler[r][n] = "port"
  PROVE  InClaim(r)
<1>1. SlotForm(r, n) /\ InSequence(r) /\ row[r].attempts \in 0..MaxAttempts
  BY DEF AgentInv, GroundInv, TypeOK, Rows, EngineInv
<1>2. EX!Exists(r, n) /\ ~EX!Resolved(r, n)
  BY <1>1 DEF SlotForm, EX!Exists, EX!Resolved, EX!Outcomes, EX!ClaimMarker, EX!NoRow
<1>3. ~(n <= row[r].attempts)
  BY <1>1, <1>2 DEF InSequence
<1>4. n > row[r].attempts
  BY <1>1, <1>3, AgentAssumption DEF Numbers
<1> QED BY <1>1, <1>2, <1>4 DEF InSequence

LEMMA EffectsOfStep ==
  ASSUME AgentInv, [Next]_vars, NEW r \in Records, effects'[r] # effects[r]
  PROVE  InClaim(r)
<1>0. CASE UNCHANGED vars
  BY <1>0 DEF vars, executorVars
<1>1. CASE Tick \/ DowntimeEvent \/ \E s \in Records : Redeliver(s)
  BY <1>1 DEF Tick, DowntimeEvent, Redeliver, executorVars
<1>6. CASE \E p \in Pods : ClaimDue(p) \/ Crash(p)
  BY <1>6 DEF ClaimDue, Crash, PodExit, executorVars
<1>2. ASSUME NEW p \in Pods, NEW s \in Records, PodActs(p, s) PROVE InClaim(r)
  <2>1. CASE CallExecute(p, s) \/ CallAnswered(p, s)
    BY <2>1 DEF CallExecute, CallAnswered, EX!ClaimSlot, EX!Replay, executorVars
  <2>2. CASE ~CallExecute(p, s) /\ ~CallAnswered(p, s)
    <3>1. UNCHANGED executorVars
      BY <1>2, <2>2 DEF PodActs, HandleStart, HandleSchedule, HandleConflict, PodExit,
         HandleDeadLetter, CallFails, RecordResult, Rescore, RecordRescore, ResultLost
    <3> QED BY <3>1 DEF executorVars
  <2> QED BY <2>1, <2>2
<1>3. ASSUME NEW s \in Records, NEW n \in Numbers, AttemptActs(s, n) PROVE InClaim(r)
  <2>1. GroundInv
    BY DEF AgentInv
  <2>2. CASE PortActs(s, n)
    <3>1. PICK o \in Outcomes : EX!Perform(s, n, o)
      BY <2>2 DEF PortActs, Outcomes, Answers
    <3>2. s = r /\ handler[s][n] = "port"
      BY <2>1, <3>1, PerformDoes
    <3> QED BY <3>2, ActingIsClaimed
  <2>3. CASE PortFails(s, n)
    <3>1. s = r /\ handler[s][n] = "port"
      BY <2>1, <2>3, PerformFailsDoes DEF PortFails
    <3> QED BY <3>1, ActingIsClaimed
  <2>4. CASE ~PortActs(s, n) /\ ~PortFails(s, n)
    BY <1>3, <2>4 DEF AttemptActs, OutcomeSaved, PollerTake, PollerTimesOut, PollerDies,
       PollerCall, EX!RecordOutcome, EX!RecordOutcomeFails, executorVars
  <2> QED BY <2>2, <2>3, <2>4
<1>4. CASE \E c \in Callers : CallActs(c)
  BY <1>4 DEF CallActs, ResumeDiscard, ResumePlan, ResumeApply, ResumeFails, executorVars
<1> QED BY <1>0, <1>1, <1>2, <1>3, <1>4, <1>6, StepSplit

\* Once a record is recovered, escalated or closed, no port is reached for it any more,
\* not by a late Execute call nor by one a crashed pod has left behind.
THEOREM EndedIsLeftAlone == ASSUME OneDelivery PROVE Spec => NoSpendAfterEnd
<1>1. AgentInv /\ [Next]_vars =>
        [\A r \in Records : row[r].state \in Terminal => effects'[r] = effects[r]]_vars
  BY EffectsOfStep DEF InClaim, Terminal
<1> QED BY <1>1, AgentInvariance, PTL DEF Spec, NoSpendAfterEnd

-----------------------------------------------------------------------------
(***************************************************************************)
(* The agent implements the lifecycle.                                     *)
(***************************************************************************)
StateView  == [r \in Records |-> row[r].state]
SpentView  == [r \in Records |-> row[r].attempts]
FlightView == [r \in Records |-> InClaim(r)]

\* A record that waits has not spent everything it may.
LEMMA WaitingMaySpend ==
  ASSUME AgentInv, SpendingInv, NEW r \in Records, row[r].state \in Waiting,
         row[r].attempts < MaxAttempts
  PROVE  row[r].attempts < MaxRetries + MaxContacts
<1>1. /\ SpendingFits(r) /\ MayFollow(r, row[r].attempts, row[r]) /\ InSequence(r)
      /\ \A n \in Numbers : SlotForm(r, n)
  BY DEF AgentInv, GroundInv, EngineInv, SpendingInv
<1>2. PICK k \in 0..MaxAttempts : k = row[r].attempts
  BY DEF AgentInv, GroundInv, TypeOK, Rows
<1>3. PICK R, C : R = Retries(r) /\ C = Contacts(r)
  OBVIOUS
<1>4. /\ IsFiniteSet(R) /\ IsFiniteSet(C)
      /\ Cardinality(R) \in Nat /\ Cardinality(C) \in Nat
  BY <1>3, SpentFinite
<1>5. Cardinality(R) + Cardinality(C) < MaxRetries + MaxContacts
  <2>1. k + 1 \in Numbers /\ k + 1 > k
    BY <1>2, AgentAssumption DEF Numbers
  <2>2. ~EX!Exists(r, k + 1)
    BY <1>1, <1>2, <2>1 DEF InSequence, InClaim, Waiting
  <2>3. Affordable(r, row[r].action)
    BY <1>1, <1>2, <2>1, <2>2 DEF MayFollow, MaySpend
  <2> QED BY <1>1, <1>3, <1>4, <2>3, PolicyAssumption DEF Affordable, SpendingFits
<1>6. 1..k \subseteq R \union C
  <2>1. ASSUME NEW n \in 1..k PROVE n \in R \union C
    <3>1. n \in Numbers /\ n <= k
      BY AgentAssumption DEF Numbers
    <3>2. EX!Exists(r, n)
      BY <1>1, <1>2, <3>1 DEF InSequence, EX!Resolved, EX!Exists, EX!Outcomes, EX!NoRow
    <3>3. slot[r][n].action \in SpendingActions
      BY <1>1, <3>1, <3>2 DEF SlotForm
    <3> QED BY <1>3, <3>1, <3>3 DEF Retries, Contacts, SpendingActions
  <2> QED BY <2>1
<1>7. Cardinality(1..k) = k
  <2>1. Cardinality(1..k) = IF 1 > k THEN 0 ELSE k - 1 + 1
    BY FS_Interval, AgentAssumption
  <2> QED BY <2>1, AgentAssumption
<1>8. /\ IsFiniteSet(R \union C) /\ Cardinality(R \intersect C) \in Nat
      /\ Cardinality(R \union C) = Cardinality(R) + Cardinality(C) - Cardinality(R \intersect C)
  <2>1. IsFiniteSet(R \intersect C)
    BY <1>4, FS_Subset
  <2> QED BY <1>4, <2>1, FS_Union, FS_CardinalityType
<1>9. Cardinality(1..k) <= Cardinality(R \union C)
  BY <1>6, <1>8, FS_Subset
<1> QED BY <1>2, <1>4, <1>5, <1>7, <1>8, <1>9, PolicyAssumption, AgentAssumption

\* A step on one row, seen in the lifecycle.
LEMMA OneRowViewed ==
  ASSUME NEW r \in Records, OtherRows(r)
  PROVE  /\ StateView' = [StateView EXCEPT ![r] = row'[r].state]
         /\ SpentView' = [SpentView EXCEPT ![r] = row'[r].attempts]
         /\ FlightView' = [FlightView EXCEPT ![r] = InClaim(r)']
<1>1. \A s \in Records \ {r} : row'[s] = row[s] /\ InClaim(s)' = InClaim(s)
  BY DEF OtherRows, InClaim, JustClaimed
<1>2. StateView' = [StateView EXCEPT ![r] = row'[r].state]
  BY <1>1 DEF StateView
<1>3. SpentView' = [SpentView EXCEPT ![r] = row'[r].attempts]
  BY <1>1 DEF SpentView
<1>4. FlightView' = [FlightView EXCEPT ![r] = InClaim(r)']
  BY <1>1 DEF FlightView
<1> QED BY <1>2, <1>3, <1>4

LEMMA Views ==
  /\ Lifecycle!lifecycleVars = <<StateView, SpentView, FlightView>>
  /\ Lifecycle!Init <=> /\ StateView = [r \in Records |-> "NEW"]
                        /\ SpentView = [r \in Records |-> 0]
                        /\ FlightView = [r \in Records |-> FALSE]
  BY DEF Lifecycle!lifecycleVars, Lifecycle!Init, StateView, SpentView, FlightView, InClaim

LEMMA QuietView ==
  ASSUME UNCHANGED <<row, trail>> PROVE UNCHANGED Lifecycle!lifecycleVars
  BY DEF Lifecycle!lifecycleVars, JustClaimed

LEMMA ViewedSteps ==
  ASSUME NEW r \in Records
  PROVE  /\ Lifecycle!Intake(r) <=>
              /\ StateView[r] = "NEW"
              /\ \E s \in Lifecycle!Routed : StateView' = [StateView EXCEPT ![r] = s]
              /\ UNCHANGED <<SpentView, FlightView>>
         /\ Lifecycle!Account(r) <=>
              /\ StateView[r] \in Lifecycle!Claimed
              /\ FlightView[r]
              /\ \/ \E s \in Lifecycle!Routed \union {"RECOVERED"} :
                      StateView' = [StateView EXCEPT ![r] = s]
                 \/ StateView[r] = "NUDGED" /\ UNCHANGED StateView
              /\ SpentView' = [SpentView EXCEPT ![r] = @ + 1]
              /\ FlightView' = [FlightView EXCEPT ![r] = FALSE]
         /\ Lifecycle!Answer(r) <=>
              /\ StateView[r] = "NUDGED"
              /\ ~FlightView[r]
              /\ \E s \in Lifecycle!Routed \union {"RECOVERED"} :
                   StateView' = [StateView EXCEPT ![r] = s]
              /\ UNCHANGED <<SpentView, FlightView>>
<1> USE DEF StateView, SpentView, FlightView, InClaim
<1>1. Lifecycle!Intake(r) <=>
              /\ StateView[r] = "NEW"
              /\ \E s \in Lifecycle!Routed : StateView' = [StateView EXCEPT ![r] = s]
              /\ UNCHANGED <<SpentView, FlightView>>
  BY DEF Lifecycle!Intake
<1>2. Lifecycle!Account(r) <=>
              /\ StateView[r] \in Lifecycle!Claimed
              /\ FlightView[r]
              /\ \/ \E s \in Lifecycle!Routed \union {"RECOVERED"} :
                      StateView' = [StateView EXCEPT ![r] = s]
                 \/ StateView[r] = "NUDGED" /\ UNCHANGED StateView
              /\ SpentView' = [SpentView EXCEPT ![r] = @ + 1]
              /\ FlightView' = [FlightView EXCEPT ![r] = FALSE]
  BY DEF Lifecycle!Account
<1>3. Lifecycle!Answer(r) <=>
              /\ StateView[r] = "NUDGED"
              /\ ~FlightView[r]
              /\ \E s \in Lifecycle!Routed \union {"RECOVERED"} :
                   StateView' = [StateView EXCEPT ![r] = s]
              /\ UNCHANGED <<SpentView, FlightView>>
  BY DEF Lifecycle!Answer
<1> QED BY <1>1, <1>2, <1>3

LEMMA ViewedClaim ==
  ASSUME NEW batch \in SUBSET Records
  PROVE  Lifecycle!Claim(batch) <=>
           /\ batch # {}
           /\ \A r \in batch : /\ StateView[r] \in Lifecycle!Waiting
                               /\ SpentView[r] < MaxRetries + MaxContacts
           /\ StateView' = [r \in Records |->
                 IF r \notin batch THEN StateView[r]
                 ELSE IF StateView[r] = "RETRY_SCHEDULED" THEN "RETRYING" ELSE "NUDGED"]
           /\ FlightView' = [r \in Records |-> r \in batch \/ FlightView[r]]
           /\ UNCHANGED SpentView
  BY DEF Lifecycle!Claim, StateView, SpentView, FlightView, InClaim

LEMMA ScheduleIsIntake ==
  ASSUME AgentInv, NEW p \in Pods, NEW r \in Records, HandleSchedule(p, r)
  PROVE  Lifecycle!Intake(r)
<1>1. GroundInv /\ TypeOK /\ EngineInv(r) /\ row[r].state = "NEW"
  BY DEF AgentInv, GroundInv, HandleSchedule
<1>2. PICK new \in Rows, edges \in Seq(Edges) :
           /\ WriteRow(r, new, edges) /\ new.attempts = 0
           /\ \/ new.state = "ESCALATED" /\ edges = <<Edge("NEW", "ESCALATED")>>
              \/ \E bucket \in Buckets :
                   /\ new.state = Plan(r, bucket).state
                   /\ new.action = Plan(r, bucket).action
                   /\ edges = RescoringPath("NEW", Plan(r, bucket))
  BY <1>1, HandleScheduleDoes
<1>3. row'[r] = new /\ OtherRows(r)
  BY <1>1, <1>2, WriteRowDoes
<1>4. new.state \in Routed /\ row[r].attempts = 0
  BY <1>1, <1>2, PlanIsScored DEF Routed, EngineInv, Fresh
<1>5. InClaim(r) = FALSE /\ InClaim(r)' = FALSE
  BY <1>1, <1>3, <1>4 DEF InClaim, Routed, Waiting
<1>6. /\ StateView' = [StateView EXCEPT ![r] = new.state]
      /\ SpentView' = [SpentView EXCEPT ![r] = 0]
      /\ FlightView' = [FlightView EXCEPT ![r] = FALSE]
  BY <1>2, <1>3, <1>5, OneRowViewed
<1>7. StateView[r] = "NEW" /\ SpentView[r] = 0 /\ FlightView[r] = FALSE
  BY <1>1, <1>4, <1>5 DEF StateView, SpentView, FlightView
<1>8. UNCHANGED <<SpentView, FlightView>>
  <2>1. SpentView = [SpentView EXCEPT ![r] = 0]
    BY <1>7 DEF SpentView
  <2>2. FlightView = [FlightView EXCEPT ![r] = FALSE]
    BY <1>7 DEF FlightView
  <2> QED BY <1>6, <2>1, <2>2
<1>9. new.state \in Lifecycle!Routed
  BY <1>4 DEF Routed, Waiting, Lifecycle!Routed, Lifecycle!Waiting
<1> QED BY <1>6, <1>7, <1>8, <1>9, ViewedSteps

LEMMA DueIsClaimed ==
  ASSUME AgentInv, SpendingInv, NEW p \in Pods, ClaimDue(p)
  PROVE  \E batch \in SUBSET Records : Lifecycle!Claim(batch)
<1>1. GroundInv /\ TypeOK
  BY DEF AgentInv, GroundInv
<1>2. PICK batch \in SUBSET Records :
        /\ batch # {}
        /\ \A r \in batch : ClaimsRecord(p, r)
        /\ \A r \in Records \ batch :
             row'[r] = row[r] /\ trail'[r] = trail[r] /\ job'[p][r] = job[p][r]
  BY <1>1, ClaimDueDoes
<1>3. \A r \in batch : /\ row[r].state \in Waiting
                       /\ row[r].attempts < MaxRetries + MaxContacts
                       /\ row[r] \in Rows /\ row[r].attempts < MaxAttempts
  BY <1>1, <1>2, WaitingMaySpend, TrailTypes DEF ClaimsRecord, Due
<1>4. \A r \in batch : /\ row'[r].state = ClaimedState(row[r].state)
                       /\ row'[r].attempts = row[r].attempts
  BY <1>2, <1>3, ClaimedTypes DEF ClaimsRecord
<1>5. ASSUME NEW r \in batch PROVE InClaim(r)' = TRUE
  <2>1. PICK t \in Seq(Edges), e \in Edges :
          trail'[r] = Append(t, e) /\ e.from = row[r].state
    <3>1. PICK e : e = Edge(row[r].state, ClaimedState(row[r].state))
      OBVIOUS
    <3>2. e \in Edges /\ e.from = row[r].state
      BY <1>3, <3>1, ClaimedTypes DEF Edge, Edges, States, Rows
    <3> QED BY <1>1, <1>2, <3>1, <3>2, TrailTypes DEF ClaimsRecord
  <2>2. PICK u : u = Append(t, e)
    OBVIOUS
  <2>3. u # <<>> /\ u[Len(u)] = e
    <3>1. Len(u) = Len(t) + 1 /\ Len(t) \in Nat /\ u[Len(t) + 1] = e
      BY <2>2
    <3>2. Len(<<>>) = 0 /\ Len(u) # 0
      BY <3>1
    <3> QED BY <3>1, <3>2
  <2>4. row[r].state = "NUDGE_SCHEDULED" => JustClaimed(r)'
    BY <2>1, <2>2, <2>3 DEF JustClaimed
  <2> QED BY <1>3, <1>4, <2>4 DEF InClaim, Waiting, ClaimedState
<1>6. \A r \in Records \ batch : row'[r] = row[r] /\ InClaim(r)' = InClaim(r)
  BY <1>2 DEF InClaim, JustClaimed
<1>7. \A r \in batch : /\ StateView[r] \in Lifecycle!Waiting
                       /\ SpentView[r] < MaxRetries + MaxContacts
  BY <1>3 DEF StateView, SpentView, Waiting, Lifecycle!Waiting
<1>8. StateView' = [r \in Records |->
                 IF r \notin batch THEN StateView[r]
                 ELSE IF StateView[r] = "RETRY_SCHEDULED" THEN "RETRYING" ELSE "NUDGED"]
  BY <1>4, <1>6 DEF StateView, ClaimedState
<1>9. FlightView' = [r \in Records |-> r \in batch \/ FlightView[r]]
  <2>1. \A r \in Records : InClaim(r)' = (r \in batch \/ FlightView[r])
    <3>1. \A r \in Records : FlightView[r] = InClaim(r) /\ InClaim(r) \in BOOLEAN
      BY DEF FlightView, InClaim
    <3> QED BY <1>5, <1>6, <3>1
  <2> QED BY <2>1 DEF FlightView
<1>10. UNCHANGED SpentView
  BY <1>4, <1>6 DEF SpentView
<1> QED BY <1>2, <1>7, <1>8, <1>9, <1>10, ViewedClaim

\* What the lifecycle sees of one record.
LEMMA Viewed ==
  ASSUME NEW r \in Records
  PROVE  /\ StateView[r] = row[r].state /\ SpentView[r] = row[r].attempts
         /\ FlightView[r] = InClaim(r)
  BY DEF StateView, SpentView, FlightView

LEMMA WriteIsAccount ==
  ASSUME NEW r \in Records, OtherRows(r), NEW to, row[r].state \in Claimed, InClaim(r),
         row'[r].state = to, row'[r].attempts = row[r].attempts + 1, InClaim(r)' = FALSE,
         to \in Routed \union {"RECOVERED"} \/ (to = "NUDGED" /\ row[r].state = "NUDGED")
  PROVE  Lifecycle!Account(r)
<1>1. /\ StateView' = [StateView EXCEPT ![r] = to]
      /\ SpentView' = [SpentView EXCEPT ![r] = row[r].attempts + 1]
      /\ FlightView' = [FlightView EXCEPT ![r] = FALSE]
      /\ StateView[r] = row[r].state /\ SpentView[r] = row[r].attempts
      /\ FlightView[r] = InClaim(r)
  BY OneRowViewed, Viewed
<1>2. SpentView' = [SpentView EXCEPT ![r] = @ + 1]
  BY <1>1
<1>3. to = "NUDGED" /\ row[r].state = "NUDGED" => UNCHANGED StateView
  BY <1>1 DEF StateView
<1>4. to \in Routed \union {"RECOVERED"} => to \in Lifecycle!Routed \union {"RECOVERED"}
  BY DEF Routed, Waiting, Lifecycle!Routed, Lifecycle!Waiting
<1>5. StateView[r] \in Lifecycle!Claimed /\ FlightView[r]
  BY <1>1 DEF Claimed, Lifecycle!Claimed
<1>6. \/ \E s \in Lifecycle!Routed \union {"RECOVERED"} : StateView' = [StateView EXCEPT ![r] = s]
      \/ StateView[r] = "NUDGED" /\ UNCHANGED StateView
  BY <1>1, <1>3, <1>4
<1> QED BY <1>1, <1>2, <1>5, <1>6, ViewedSteps

LEMMA ResultIsAccount ==
  ASSUME AgentInv, NEW p \in Pods, NEW r \in Records, RecordResult(p, r)
  PROVE  Lifecycle!Account(r)
<1>1. GroundInv /\ TypeOK /\ EngineInv(r)
  BY DEF AgentInv, GroundInv
<1>2. PICK n \in Numbers, new \in Rows :
           /\ n = job[p][r].n /\ job[p][r].phase = "answered"
           /\ EX!Resolved(r, n) /\ job[p][r].outcome = slot[r][n].outcome
           /\ slot[r][n].outcome # "FAILURE"
           /\ new.state = DecideAfterExecute(job[p][r].action, job[p][r].outcome)
           /\ new.state \in {"RECOVERED", "NUDGED", "ESCALATED"}
           /\ new.attempts = n /\ row' \in [Records -> Rows] /\ row'[r] = new
           /\ trail'[r] = trail[r] \o <<Edge(job[p][r].from, new.state)>>
           /\ trail' \in [Records -> Seq(Edges)] /\ OtherRows(r)
           /\ JobBecomes(p, r, IdleJob)
  BY <1>1, RecordResultDoes
<1>3. /\ row[r].attempts + 1 = n /\ InClaim(r) /\ row[r].state = job[p][r].from
      /\ job[p][r].from = (IF job[p][r].action = "RETRY" THEN "RETRYING" ELSE "NUDGED")
  <2>1. Live(p, r) /\ Owned(p, r)
    BY <1>1, <1>2 DEF Live, EngineInv
  <2> QED BY <1>2, <2>1 DEF Owned
<1>4. new.state = "NUDGED" => job[p][r].from = "NUDGED"
  BY <1>2, <1>3 DEF DecideAfterExecute, IsNudge, Nudges
<1>5. PICK t \in Seq(Edges), e \in Edges : trail'[r] = t \o <<e>> /\ e.from = job[p][r].from
  <2>1. Edge(job[p][r].from, new.state) \in Edges
    BY <1>2, <1>3 DEF Edge, Edges, States, Rows, Claimed
  <2>2. Edge(job[p][r].from, new.state).from = job[p][r].from
    BY DEF Edge
  <2> QED BY <1>1, <1>2, <2>1, <2>2, TrailTypes
<1>6. InClaim(r)' = FALSE
  <2>1. PICK u : u = t \o <<e>>
    OBVIOUS
  <2>2. u[Len(u)] = e
    BY <2>1
  <2>3. new.state = "NUDGED" => ~JustClaimed(r)'
    BY <1>4, <1>5, <2>1, <2>2 DEF JustClaimed
  <2> QED BY <1>2, <2>3 DEF InClaim
<1>7. \/ new.state \in Routed \union {"RECOVERED"}
      \/ new.state = "NUDGED" /\ row[r].state = "NUDGED"
  BY <1>2, <1>3, <1>4 DEF Routed
<1>8. row[r].state \in Claimed
  BY <1>3 DEF Claimed
<1> QED BY <1>2, <1>3, <1>6, <1>7, <1>8, WriteIsAccount

LEMMA RescoreIsAccount ==
  ASSUME AgentInv, NEW p \in Pods, NEW r \in Records, RecordRescore(p, r)
  PROVE  Lifecycle!Account(r)
<1>1. GroundInv /\ TypeOK /\ EngineInv(r)
  BY DEF AgentInv, GroundInv
<1>2. PICK n \in Numbers, new \in Rows, plan \in Plans :
           /\ n = job[p][r].n /\ job[p][r].phase = "rescoring" /\ plan = job[p][r].plan
           /\ EX!Resolved(r, n) /\ slot[r][n].outcome = "FAILURE" /\ PlanForm(plan)
           /\ new.state = plan.state /\ new.action = plan.action /\ new.attempts = n
           /\ row' \in [Records -> Rows] /\ row'[r] = new
           /\ trail'[r] = trail[r] \o RescoringPath(job[p][r].from, plan)
           /\ trail' \in [Records -> Seq(Edges)] /\ OtherRows(r)
           /\ JobBecomes(p, r, IdleJob)
  BY <1>1, RecordRescoreDoes
<1>3. row[r].attempts + 1 = n /\ InClaim(r)
  <2>1. Live(p, r) /\ Owned(p, r)
    BY <1>1, <1>2 DEF Live, EngineInv
  <2> QED BY <1>2, <2>1 DEF Owned
<1>4. row[r].state \in Claimed
  BY <1>3 DEF InClaim, Claimed
<1>5. new.state \in Routed /\ InClaim(r)' = FALSE
  BY <1>2 DEF PlanForm, Routed, Waiting, InClaim
<1> QED BY <1>2, <1>3, <1>4, <1>5, WriteIsAccount

LEMMA ApplyIsAnswer ==
  ASSUME AgentInv, NEW c \in Callers, ResumeApply(c)
  PROVE  \E r \in Records : Lifecycle!Answer(r)
<1>1. GroundInv /\ TypeOK
  BY DEF AgentInv, GroundInv
<1>2. PICK x \in Resumes, r \in Records, n \in Numbers, plan \in Plans :
           /\ x = resume[c] /\ x.phase = "planned" /\ r = x.record /\ n = x.n
           /\ plan = x.plan /\ Respond(c)
           /\ \/ ~Awaits(r, n) /\ UNCHANGED <<row, trail>>
              \/ /\ Awaits(r, n) /\ OtherRows(r)
                 /\ row' \in [Records -> Rows] /\ trail' \in [Records -> Seq(Edges)]
                 /\ row'[r].state = plan.state /\ row'[r].attempts = n
                 /\ row'[r].action = plan.action
                 /\ x.outcome = "SUCCESS" =>
                      trail'[r] = trail[r] \o <<Edge("NUDGED", "RECOVERED")>>
                 /\ x.outcome # "SUCCESS" =>
                      trail'[r] = trail[r] \o RescoringPath("NUDGED", plan)
  BY <1>1, ResumeApplyDoes
<1>3. ResumeForm(c) /\ Foreseen(c, r)
  BY <1>1 DEF AgentInv, GroundInv, DeliveryInv
<1>4. /\ Rests(r) /\ row[r].attempts = n /\ Awaits(r, n) /\ row[r].state = "NUDGED"
      /\ x.outcome # "SUCCESS" => PlanForm(plan)
      /\ x.outcome = "SUCCESS" => plan.state = "RECOVERED"
  BY <1>2, <1>3 DEF Foreseen, Rests, Awaits, ResumeForm
<1>5. plan.state \in Routed \union {"RECOVERED"}
  BY <1>4 DEF PlanForm
<1>6. InClaim(r) = FALSE /\ InClaim(r)' = FALSE
  BY <1>2, <1>4, <1>5 DEF InClaim, Rests, Routed, Waiting
<1>7. /\ StateView' = [StateView EXCEPT ![r] = plan.state]
      /\ SpentView' = [SpentView EXCEPT ![r] = n]
      /\ FlightView' = [FlightView EXCEPT ![r] = FALSE]
      /\ StateView[r] = row[r].state /\ SpentView[r] = row[r].attempts
      /\ FlightView[r] = InClaim(r)
  BY <1>2, <1>4, <1>6, OneRowViewed, Viewed
<1>8. UNCHANGED <<SpentView, FlightView>>
  <2>1. SpentView = [SpentView EXCEPT ![r] = n]
    BY <1>4 DEF SpentView
  <2>2. FlightView = [FlightView EXCEPT ![r] = FALSE]
    BY <1>6 DEF FlightView
  <2> QED BY <1>7, <2>1, <2>2
<1>9. plan.state \in Lifecycle!Routed \union {"RECOVERED"}
  BY <1>5 DEF Routed, Waiting, Lifecycle!Routed, Lifecycle!Waiting
<1>10. StateView[r] = "NUDGED" /\ ~FlightView[r]
  BY <1>4, <1>6, <1>7
<1> QED BY <1>7, <1>8, <1>9, <1>10, ViewedSteps

LEMMA LifecycleStep ==
  ASSUME AgentInv, SpendingInv, [Next]_vars PROVE [Lifecycle!Next]_(Lifecycle!lifecycleVars)
<1>0. ASSUME UNCHANGED <<row, trail>> PROVE [Lifecycle!Next]_(Lifecycle!lifecycleVars)
  BY <1>0, QuietView
<1>1. CASE UNCHANGED vars
  BY <1>0, <1>1 DEF vars, engineVars
<1>2. CASE Tick \/ DowntimeEvent \/ \E r \in Records : Redeliver(r)
  BY <1>0, <1>2 DEF Tick, DowntimeEvent, Redeliver, engineVars
<1>3. CASE \E p \in Pods : Crash(p)
  BY <1>0, <1>3 DEF Crash, PodExit
<1>4. CASE \E p \in Pods : ClaimDue(p)
  BY <1>4, DueIsClaimed DEF Lifecycle!Next
<1>5. ASSUME NEW p \in Pods, NEW r \in Records, PodActs(p, r)
      PROVE  [Lifecycle!Next]_(Lifecycle!lifecycleVars)
  <2>1. CASE HandleSchedule(p, r)
    BY <2>1, ScheduleIsIntake DEF Lifecycle!Next
  <2>2. CASE RecordResult(p, r)
    BY <2>2, ResultIsAccount DEF Lifecycle!Next
  <2>3. CASE RecordRescore(p, r)
    BY <2>3, RescoreIsAccount DEF Lifecycle!Next
  <2>4. CASE ~HandleSchedule(p, r) /\ ~RecordResult(p, r) /\ ~RecordRescore(p, r)
    <3>1. UNCHANGED <<row, trail>>
      BY <1>5, <2>4 DEF PodActs, HandleStart, HandleConflict, PodExit, HandleDeadLetter,
         CallExecute, CallAnswered, CallFails, Rescore, ResultLost, engineVars
    <3> QED BY <1>0, <3>1
  <2> QED BY <2>1, <2>2, <2>3, <2>4
<1>6. ASSUME NEW r \in Records, NEW n \in Numbers, AttemptActs(r, n)
      PROVE  [Lifecycle!Next]_(Lifecycle!lifecycleVars)
  <2>1. UNCHANGED <<row, trail>>
    BY <1>6 DEF AttemptActs, PortActs, PortFails, OutcomeSaved, PollerTake, PollerCall,
       PollerTimesOut, PollerDies, engineVars
  <2> QED BY <1>0, <2>1
<1>7. ASSUME NEW c \in Callers, CallActs(c)
      PROVE  [Lifecycle!Next]_(Lifecycle!lifecycleVars)
  <2>1. CASE ResumeApply(c)
    BY <2>1, ApplyIsAnswer DEF Lifecycle!Next
  <2>2. CASE ~ResumeApply(c)
    <3>1. UNCHANGED <<row, trail>>
      BY <1>7, <2>2 DEF CallActs, ResumeDiscard, ResumePlan, ResumeFails, engineVars
    <3> QED BY <1>0, <3>1
  <2> QED BY <2>1, <2>2
<1> QED BY <1>1, <1>2, <1>3, <1>4, <1>5, <1>6, <1>7, StepSplit

\* Seen through the database the agent is the lifecycle: an intervention is claimed out of
\* a waiting state, within the number allowed, accounted for once and then answered.
THEOREM AgentImplementsLifecycle == ASSUME OneDelivery PROVE Spec => ImplementsLifecycle
<1>1. Init => Lifecycle!Init
  <2>1. ASSUME Init PROVE \A r \in Records : row[r].state = "NEW" /\ row[r].attempts = 0
    BY <2>1 DEF Init, NewRow
  <2>2. ASSUME Init PROVE \A r \in Records : InClaim(r) = FALSE
    BY <2>1, <2>2 DEF InClaim
  <2> QED BY <2>1, <2>2, Views DEF StateView, SpentView, FlightView
<1>2. AgentInv /\ SpendingInv /\ [Next]_vars => [Lifecycle!Next]_(Lifecycle!lifecycleVars)
  BY LifecycleStep
<1> QED BY <1>1, <1>2, AgentInvariance, SpendingInvariance, PTL DEF Spec, ImplementsLifecycle, Lifecycle!Spec
=============================================================================
