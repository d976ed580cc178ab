------------------------ MODULE RecoveryAgentProofs ------------------------
(***************************************************************************)
(* For any payments, pods, policies, faults and crashes: what the agent    *)
(* keeps is well formed, it uses the Executor as the Executor allows, what *)
(* it calls recovered was recovered, and the caps and the cooldown hold.   *)
(***************************************************************************)
EXTENDS RecoveryAgent, FiniteSetTheorems, TLAPS

EP == INSTANCE ExecutorProofs
        WITH Actions <- SpendingActions, PortMayFail <- "port" \in Faults

(***************************************************************************)
(* Tables.                                                                 *)
(***************************************************************************)
LEMMA TableUpdate ==
  ASSUME NEW A, NEW B, NEW T, NEW f \in [A -> [B -> T]],
         NEW a \in A, NEW b \in B, NEW v \in T, NEW g, g = [f EXCEPT ![a][b] = v]
  PROVE  /\ g \in [A -> [B -> T]]
         /\ g[a][b] = v
         /\ \A x \in A, y \in B : x # a \/ y # b => g[x][y] = f[x][y]
  OBVIOUS

(***************************************************************************)
(* The policy.                                                             *)
(***************************************************************************)
Routed == Waiting \union {"CLOSED_UNECONOMIC", "ESCALATED"}

\* What scoring may say: a resting state, and if it is one of waiting then for an
\* action no guardrail blocks.
LEMMA RouteIsPermitted ==
  ASSUME NEW bucket, NEW h, NEW held, NEW amount, NEW t, NEW route,
         route = ScoreAndRoute(bucket, h, held, amount, t)
  PROVE  /\ route.state \in Routed
         /\ route.action \in PendingActions
         /\ route.state \in Waiting =>
              /\ route.action \in SpendingActions
              /\ route.state = ScheduledState(route.action)
              /\ route.action \notin Blocked(h, t)
<1> DEFINE holds == HeldByDowntime(h, held, t)
           candidates == Permitted(h, held, t) \union (IF holds THEN {"RETRY"} ELSE {})
           Best(a) == IsBest(a, candidates, holds, bucket, h, amount)
<1>1. \A a \in candidates : a \in SpendingActions /\ a \notin Blocked(h, t)
  BY DEF Permitted, HeldByDowntime, SpendingActions
<1> HIDE DEF candidates
<1>2. \A a : Best(a) => a \in candidates
  BY DEF IsBest
<1>3. CASE candidates = {} \/ \A a \in candidates : ~Best(a)
  <2>1. route \in {[state |-> "ESCALATED", action |-> NoAction],
                   [state |-> "CLOSED_UNECONOMIC", action |-> NoAction]}
    BY <1>3 DEF ScoreAndRoute, candidates
  <2> QED BY <2>1 DEF Routed, Waiting, PendingActions
<1>4. CASE \E a \in candidates : Best(a)
  <2> DEFINE best == CHOOSE a \in candidates : Best(a)
  <2>1. best \in candidates
    BY <1>4
  <2>2. route = [state |-> ScheduledState(best), action |-> best]
    BY <1>4 DEF ScoreAndRoute, candidates
  <2> HIDE DEF best
  <2>3. ScheduledState(best) \in Routed
    BY DEF ScheduledState, Routed, Waiting
  <2> QED BY <1>1, <2>1, <2>2, <2>3 DEF PendingActions
<1> QED BY <1>3, <1>4

LEMMA HourInDay ==
  ASSUME NEW t \in Nat
  PROVE  Hour(t) \in 0..(DayLength - 1)
  BY PolicyAssumption DEF Hour

LEMMA DueIsTime ==
  ASSUME NEW state, NEW bucket, NEW t \in Nat
  PROVE  DueAt(state, bucket, t) \in Dues
<1>1. ContactHourWindow(t + NudgeDelay) \in Nat
  <2>1. t + NudgeDelay \in Nat
    BY PolicyAssumption
  <2>2. Hour(t + NudgeDelay) \in 0..(DayLength - 1)
    BY <2>1, HourInDay
  <2> QED BY <2>1, <2>2, PolicyAssumption DEF ContactHourWindow
<1>2. RetryDueAt(bucket, t) \in Dues
  BY PolicyAssumption DEF RetryDueAt, Dues
<1> QED BY <1>1, <1>2 DEF DueAt, Dues

\* A plan says what scoring said.
LEMMA PlanIsScored ==
  ASSUME NEW r \in Records, NEW bucket, TypeOK
  PROVE  /\ Plan(r, bucket) \in Plans
         /\ Plan(r, bucket).state \in Routed
         /\ Plan(r, bucket).state \in Waiting =>
              /\ Plan(r, bucket).action \in SpendingActions
              /\ Plan(r, bucket).state = ScheduledState(Plan(r, bucket).action)
              /\ Plan(r, bucket).action \notin Blocked(History(r), now)
<1> DEFINE route == ScoreAndRoute(bucket, History(r), down, Amount[r], now)
<1>1. /\ route.state \in Routed
      /\ route.action \in PendingActions
      /\ route.state \in Waiting =>
           /\ route.action \in SpendingActions
           /\ route.state = ScheduledState(route.action)
           /\ route.action \notin Blocked(History(r), now)
  BY RouteIsPermitted
<1>2. now \in Nat
  BY AgentAssumption DEF TypeOK
<1>3. DueAt(route.state, bucket, now) \in Dues
  BY <1>2, DueIsTime
<1>4. Plan(r, bucket) = [state |-> route.state, action |-> route.action,
                         due |-> DueAt(route.state, bucket, now)]
  BY DEF Plan
<1> HIDE DEF route
<1>5. route.state \in States
  BY <1>1 DEF Routed, States, Waiting, Terminal
<1> QED BY <1>1, <1>3, <1>4, <1>5 DEF Plans

-----------------------------------------------------------------------------
(***************************************************************************)
(* What holds whatever is lost, delayed or repeated.                       *)
(***************************************************************************)
\* Every row of the Executor is for an action it accepts, a call acts only for a
\* row that still has the marker, and only a nudge is answered later.
SlotForm(r, n) ==
  /\ EX!Exists(r, n) <=> slot[r][n].action \in SpendingActions
  /\ handler[r][n] # "none" => slot[r][n].outcome = EX!ClaimMarker
  /\ "PENDING" \in {slot[r][n].outcome, handler[r][n]} => IsNudge(slot[r][n].action)

\* A delayed answer exists only for an attempt that is pending, or was cut short
\* before it could be recorded as pending.
AnswerForm(r, n) ==
  /\ report[r][n].phase = "none" <=> report[r][n].outcome = "none"
  /\ report[r][n].outcome # "none" =>
       /\ EX!Exists(r, n)
       /\ handler[r][n] \in {"none", "PENDING"}
       /\ slot[r][n].outcome \in {EX!ClaimMarker, "PENDING"}

\* A state of waiting says what is waited for.
Scheduled(plan) == plan.state \in Waiting =>
  plan.action \in SpendingActions /\ plan.state = ScheduledState(plan.action)

\* The attempts a row counts have ended.
RowForm(r) ==
  /\ row[r].attempts # 0 => EX!Resolved(r, row[r].attempts)
  /\ Scheduled(row[r])

PlanForm(plan) == plan.state \in Routed /\ Scheduled(plan)

\* An answer in a pod's hands is the Executor's.
JobForm(p, r) == job[p][r].phase # "idle" =>
  /\ job[p][r].n \in Numbers /\ job[p][r].action \in SpendingActions
  /\ job[p][r].phase \in {"answered", "rescoring"} =>
       /\ EX!Resolved(r, job[p][r].n)
       /\ job[p][r].outcome = slot[r][job[p][r].n].outcome
  /\ job[p][r].phase = "rescoring" => job[p][r].outcome = "FAILURE" /\ PlanForm(job[p][r].plan)

\* An answer being applied is the customer's.
ResumeForm(c) == resume[c].phase # "idle" =>
  /\ resume[c].record \in Records /\ resume[c].n \in Numbers
  /\ resume[c].outcome # "none"
  /\ resume[c].outcome = report[resume[c].record][resume[c].n].outcome
  /\ resume[c].phase = "planned" =>
       IF resume[c].outcome = "SUCCESS" THEN resume[c].plan.state = "RECOVERED"
       ELSE PlanForm(resume[c].plan)

Earned(r) ==
  \E n \in Numbers :
    \/ slot[r][n].outcome = "SUCCESS"
    \/ slot[r][n].outcome = "PENDING" /\ report[r][n].outcome = "SUCCESS"

GroundInv ==
  /\ TypeOK
  /\ \A r \in Records : RowForm(r) /\ (row[r].state = "RECOVERED" => Earned(r))
  /\ \A r \in Records, n \in Numbers : SlotForm(r, n) /\ AnswerForm(r, n)
  /\ \A p \in Pods, r \in Records : JobForm(p, r)
  /\ \A c \in Callers : ResumeForm(c)

(***************************************************************************)
(* What no step undoes, and how little a step has to show for the rest.    *)
(***************************************************************************)
SlotsKept ==
  \A r \in Records, n \in Numbers : EX!Resolved(r, n) => slot'[r][n] = slot[r][n]

AnswersKept ==
  \A r \in Records, n \in Numbers :
    report[r][n].outcome # "none" => report'[r][n].outcome = report[r][n].outcome

SameSlot(r, n)   == slot'[r][n] = slot[r][n] /\ handler'[r][n] = handler[r][n]
SameAnswer(r, n) == /\ report'[r][n].outcome = report[r][n].outcome
                    /\ report'[r][n].phase = "none" <=> report[r][n].phase = "none"

LEMMA EarnedStays ==
  ASSUME NEW r \in Records, Earned(r), SlotsKept, AnswersKept
  PROVE  Earned(r)'
  BY DEF Earned, SlotsKept, AnswersKept, EX!Resolved, EX!Outcomes

RowsFit ==
  \A r \in Records :
    row'[r] # row[r] => RowForm(r)' /\ (row'[r].state = "RECOVERED" => Earned(r)')

SlotsFit ==
  \A r \in Records, n \in Numbers : SameSlot(r, n) \/ SlotForm(r, n)'

AnswersFit ==
  \A r \in Records, n \in Numbers :
    (SameSlot(r, n) /\ SameAnswer(r, n)) \/ AnswerForm(r, n)'

JobsFit ==
  \A p \in Pods, r \in Records : job'[p][r] \in {job[p][r], IdleJob} \/ JobForm(p, r)'

ResumesFit ==
  \A c \in Callers : resume'[c] \in {resume[c], IdleResume} \/ ResumeForm(c)'

\* What a step does not touch still fits.
LEMMA Untouched ==
  /\ UNCHANGED executorVars => SlotsKept /\ SlotsFit
  /\ UNCHANGED executorVars /\ UNCHANGED report => AnswersFit
  /\ UNCHANGED report => AnswersKept
  /\ UNCHANGED row => RowsFit
  /\ UNCHANGED job => JobsFit
  /\ UNCHANGED resume => ResumesFit
  BY DEF executorVars, SlotsKept, SlotsFit, AnswersFit, AnswersKept, RowsFit, JobsFit,
         ResumesFit, SameSlot, SameAnswer

LEMMA GroundKept ==
  ASSUME GroundInv, TypeOK', SlotsKept, AnswersKept,
         RowsFit, SlotsFit, AnswersFit, JobsFit, ResumesFit
  PROVE  GroundInv'
<1> USE DEF RowsFit, SlotsFit, AnswersFit, JobsFit, ResumesFit
<1>1. ASSUME NEW r \in Records
      PROVE  RowForm(r)' /\ (row'[r].state = "RECOVERED" => Earned(r)')
  <2>1. CASE row'[r] = row[r]
    <3>1. row[r].attempts # 0 => row[r].attempts \in Numbers
      BY AgentAssumption DEF GroundInv, TypeOK, Rows, Numbers
    <3> QED BY <2>1, <3>1, EarnedStays DEF GroundInv, RowForm, Scheduled, SlotsKept, EX!Resolved
  <2> QED BY <2>1
<1>2. ASSUME NEW r \in Records, NEW n \in Numbers
      PROVE  SlotForm(r, n)' /\ AnswerForm(r, n)'
  BY DEF GroundInv, SlotForm, AnswerForm, SameSlot, SameAnswer, EX!Exists
<1>3. ASSUME NEW p \in Pods, NEW r \in Records
      PROVE  JobForm(p, r)'
  <2>1. JobForm(p, r)
    BY DEF GroundInv
  <2>2. CASE job'[p][r] = job[p][r]
    BY <2>1, <2>2 DEF JobForm, SlotsKept, EX!Resolved, PlanForm, Scheduled
  <2>3. CASE job'[p][r] = IdleJob
    BY <2>3 DEF JobForm, IdleJob
  <2> QED BY <2>2, <2>3
<1>4. ASSUME NEW c \in Callers
      PROVE  ResumeForm(c)'
  <2>1. ResumeForm(c)
    BY DEF GroundInv
  <2>2. CASE resume'[c] = resume[c]
    BY <2>1, <2>2 DEF ResumeForm, AnswersKept, PlanForm, Scheduled
  <2>3. CASE resume'[c] = IdleResume
    BY <2>3 DEF ResumeForm, IdleResume
  <2> QED BY <2>2, <2>3
<1> QED BY <1>1, <1>2, <1>3, <1>4 DEF GroundInv, Numbers

-----------------------------------------------------------------------------
(***************************************************************************)
(* The Executor's operations, on the slot they are for and the others.     *)
(***************************************************************************)
OthersSame(r, n) ==
  \A q \in Records, k \in Numbers : q # r \/ k # n => SameSlot(q, k)

Marked(action, at) == [action |-> action, outcome |-> EX!ClaimMarker, at |-> at]

LEMMA SlotTypes ==
  ASSUME TypeOK
  PROVE  /\ slot \in [Records -> [Numbers -> EX!Slots]]
         /\ handler \in [Records -> [Numbers -> Outcomes \union {"none", "port"}]]
         /\ effects \in [Records -> [Numbers -> Nat]]
         /\ answered \in [Records -> [Numbers -> SUBSET Outcomes]]
  BY DEF TypeOK, EX!ExecutorTypeOK, EX!Numbers, Numbers, EX!Outcomes, Outcomes

LEMMA ClaimSlotDoes ==
  ASSUME GroundInv, NEW r \in Records, NEW n \in Numbers, NEW a \in SpendingActions,
         EX!ClaimSlot(r, n, a, now)
  PROVE  /\ ~EX!Exists(r, n)
         /\ slot'[r][n] = Marked(a, now) /\ handler'[r][n] = "port"
         /\ OthersSame(r, n) /\ SlotsKept
         /\ UNCHANGED effects /\ EX!ExecutorTypeOK'
<1>1. TypeOK /\ now \in 0..MaxTime
  BY DEF GroundInv, TypeOK
<1>2. Marked(a, now) \in EX!Slots
  BY <1>1 DEF Marked, EX!Slots, EX!ClaimMarker
<1>3. /\ slot' = [slot EXCEPT ![r][n] = Marked(a, now)]
      /\ handler' = [handler EXCEPT ![r][n] = "port"]
      /\ UNCHANGED <<effects, answered>> /\ ~EX!Exists(r, n)
  BY DEF EX!ClaimSlot, Marked
<1>4. /\ slot' \in [Records -> [Numbers -> EX!Slots]] /\ slot'[r][n] = Marked(a, now)
      /\ \A q \in Records, k \in Numbers : q # r \/ k # n => slot'[q][k] = slot[q][k]
  BY <1>1, <1>2, <1>3, SlotTypes, TableUpdate
<1>5. /\ handler' \in [Records -> [Numbers -> Outcomes \union {"none", "port"}]]
      /\ handler'[r][n] = "port"
      /\ \A q \in Records, k \in Numbers : q # r \/ k # n => handler'[q][k] = handler[q][k]
  BY <1>1, <1>3, SlotTypes
<1>6. SlotsKept
  BY <1>3, <1>4 DEF SlotsKept, EX!Exists, EX!Resolved, EX!Outcomes, EX!NoRow
<1>7. EX!ExecutorTypeOK'
  BY <1>1, <1>3, <1>4, <1>5, SlotTypes
     DEF EX!ExecutorTypeOK, EX!Numbers, Numbers, EX!Outcomes, Outcomes
<1> QED BY <1>3, <1>4, <1>5, <1>6, <1>7 DEF OthersSame, SameSlot

HandlerBecomes(r, n, h) ==
  /\ handler' = [handler EXCEPT ![r][n] = h]
  /\ slot' = slot /\ answered' = answered

\* The operations that only move the call: it acts, fails, or is gone.
LEMMA HandlerMoves ==
  ASSUME GroundInv, NEW r \in Records, NEW n \in Numbers,
         NEW h \in Outcomes \union {"none"},
         HandlerBecomes(r, n, h), effects' \in [Records -> [Numbers -> Nat]]
  PROVE  /\ handler'[r][n] = h /\ slot'[r][n] = slot[r][n]
         /\ OthersSame(r, n) /\ SlotsKept /\ EX!ExecutorTypeOK'
<1>1. TypeOK
  BY DEF GroundInv
<1>2. /\ handler' \in [Records -> [Numbers -> Outcomes \union {"none", "port"}]]
      /\ handler'[r][n] = h
      /\ \A q \in Records, k \in Numbers : q # r \/ k # n => handler'[q][k] = handler[q][k]
  BY <1>1, SlotTypes DEF HandlerBecomes
<1>3. EX!ExecutorTypeOK'
  BY <1>1, <1>2, SlotTypes DEF HandlerBecomes, EX!ExecutorTypeOK, EX!Numbers, Numbers, EX!Outcomes, Outcomes
<1> QED BY <1>2, <1>3 DEF HandlerBecomes, OthersSame, SameSlot, SlotsKept

LEMMA PerformDoes ==
  ASSUME GroundInv, NEW r \in Records, NEW n \in Numbers, NEW o \in Outcomes,
         EX!Perform(r, n, o)
  PROVE  /\ handler[r][n] = "port" /\ handler'[r][n] = o /\ slot'[r][n] = slot[r][n]
         /\ OthersSame(r, n) /\ SlotsKept /\ EX!ExecutorTypeOK'
         /\ \A q \in Records : q # r => effects'[q] = effects[q]
<1>1. effects' \in [Records -> [Numbers -> Nat]]
  BY SlotTypes DEF GroundInv, EX!Perform
<1>2. \A q \in Records : q # r => effects'[q] = effects[q]
  BY SlotTypes DEF GroundInv, EX!Perform
<1>3. handler[r][n] = "port" /\ HandlerBecomes(r, n, o)
  BY DEF EX!Perform, HandlerBecomes
<1>4. o \in Outcomes \union {"none"}
  OBVIOUS
<1>5. handler'[r][n] = o /\ slot'[r][n] = slot[r][n]
      /\ OthersSame(r, n) /\ SlotsKept /\ EX!ExecutorTypeOK'
  BY <1>1, <1>3, <1>4, HandlerMoves
<1> QED BY <1>2, <1>3, <1>5

LEMMA PerformFailsDoes ==
  ASSUME GroundInv, NEW r \in Records, NEW n \in Numbers, EX!PerformFails(r, n)
  PROVE  /\ handler[r][n] = "port" /\ handler'[r][n] = "none" /\ slot'[r][n] = slot[r][n]
         /\ OthersSame(r, n) /\ SlotsKept /\ EX!ExecutorTypeOK'
         /\ \A q \in Records : q # r => effects'[q] = effects[q]
<1>1. PICK reached \in 0..1 : effects' = [effects EXCEPT ![r][n] = @ + reached]
  BY DEF EX!PerformFails
<1>2. effects' \in [Records -> [Numbers -> Nat]]
  BY <1>1, SlotTypes DEF GroundInv
<1>3. \A q \in Records : q # r => effects'[q] = effects[q]
  BY <1>1, SlotTypes DEF GroundInv
<1>4. handler[r][n] = "port" /\ HandlerBecomes(r, n, "none")
  BY DEF EX!PerformFails, HandlerBecomes
<1>5. handler'[r][n] = "none" /\ slot'[r][n] = slot[r][n]
      /\ OthersSame(r, n) /\ SlotsKept /\ EX!ExecutorTypeOK'
  BY <1>2, <1>4, HandlerMoves
<1> QED BY <1>3, <1>4, <1>5

LEMMA RecordOutcomeFailsDoes ==
  ASSUME GroundInv, NEW r \in Records, NEW n \in Numbers, EX!RecordOutcomeFails(r, n)
  PROVE  /\ handler'[r][n] = "none" /\ slot'[r][n] = slot[r][n] /\ UNCHANGED effects
         /\ OthersSame(r, n) /\ SlotsKept /\ EX!ExecutorTypeOK'
<1>1. effects' \in [Records -> [Numbers -> Nat]]
  BY SlotTypes DEF GroundInv, EX!RecordOutcomeFails
<1>2. HandlerBecomes(r, n, "none") /\ UNCHANGED effects
  BY DEF EX!RecordOutcomeFails, HandlerBecomes
<1> QED BY <1>1, <1>2, HandlerMoves

Filled(s, o) == [s EXCEPT !.outcome = o]

LEMMA FilledSlot ==
  ASSUME NEW s \in EX!Slots, NEW o \in Outcomes
  PROVE  /\ Filled(s, o) \in EX!Slots /\ Filled(s, o).outcome = o
         /\ Filled(s, o).action = s.action /\ Filled(s, o).at = s.at
  BY DEF Filled, EX!Slots, Outcomes, EX!Outcomes

LEMMA RecordOutcomeDoes ==
  ASSUME GroundInv, NEW r \in Records, NEW n \in Numbers, EX!RecordOutcome(r, n)
  PROVE  /\ handler[r][n] \in Outcomes /\ ~EX!Resolved(r, n)
         /\ slot'[r][n] = Filled(slot[r][n], handler[r][n]) /\ handler'[r][n] = "none"
         /\ OthersSame(r, n) /\ SlotsKept
         /\ UNCHANGED effects /\ EX!ExecutorTypeOK'
<1>1. TypeOK
  BY DEF GroundInv
<1>2. handler[r][n] \in Outcomes /\ slot[r][n] \in EX!Slots
  BY <1>1, SlotTypes DEF EX!RecordOutcome, EX!Outcomes, Outcomes
<1>3. slot[r][n].outcome = EX!ClaimMarker
  BY <1>2 DEF GroundInv, SlotForm, Outcomes
<1>4. slot' = [slot EXCEPT ![r][n] = Filled(slot[r][n], handler[r][n])]
  BY <1>1, SlotTypes DEF EX!RecordOutcome, Filled
<1>5. Filled(slot[r][n], handler[r][n]) \in EX!Slots
  BY <1>2, FilledSlot
<1>6. /\ slot' \in [Records -> [Numbers -> EX!Slots]]
      /\ slot'[r][n] = Filled(slot[r][n], handler[r][n])
      /\ \A q \in Records, k \in Numbers : q # r \/ k # n => slot'[q][k] = slot[q][k]
  BY <1>1, <1>4, <1>5, SlotTypes, TableUpdate
<1>7. /\ handler' \in [Records -> [Numbers -> Outcomes \union {"none", "port"}]]
      /\ handler'[r][n] = "none"
      /\ \A q \in Records, k \in Numbers : q # r \/ k # n => handler'[q][k] = handler[q][k]
      /\ UNCHANGED <<effects, answered>>
  BY <1>1, SlotTypes DEF EX!RecordOutcome
<1>8. ~EX!Resolved(r, n)
  BY <1>3 DEF EX!Resolved, EX!Outcomes, EX!ClaimMarker
<1>9. SlotsKept
  BY <1>6, <1>8 DEF SlotsKept
<1>10. EX!ExecutorTypeOK'
  BY <1>1, <1>6, <1>7, SlotTypes
     DEF EX!ExecutorTypeOK, EX!Numbers, Numbers, EX!Outcomes, Outcomes
<1> QED BY <1>2, <1>6, <1>7, <1>8, <1>9, <1>10 DEF OthersSame, SameSlot

LEMMA ReplayDoes ==
  ASSUME GroundInv, NEW r \in Records, NEW n \in Numbers, EX!Replay(r, n)
  PROVE  /\ EX!Resolved(r, n) /\ UNCHANGED <<slot, handler, effects>>
         /\ SlotsKept /\ SlotsFit /\ EX!ExecutorTypeOK'
<1>1. TypeOK
  BY DEF GroundInv
<1>2. EX!Resolved(r, n) /\ slot' = slot /\ handler' = handler /\ effects' = effects
  BY DEF EX!Replay
<1>3. answered' = [answered EXCEPT ![r][n] = @ \union {slot[r][n].outcome}]
  BY DEF EX!Replay
<1>4. slot[r][n].outcome \in Outcomes
  BY <1>2 DEF EX!Resolved, EX!Outcomes, Outcomes
<1>5. answered' \in [Records -> [Numbers -> SUBSET Outcomes]]
  BY <1>1, <1>3, <1>4, SlotTypes
<1>6. EX!ExecutorTypeOK'
  BY <1>1, <1>2, <1>5, SlotTypes
     DEF EX!ExecutorTypeOK, EX!Numbers, Numbers, EX!Outcomes, Outcomes
<1> QED BY <1>2, <1>6 DEF SlotsKept, SlotsFit, SameSlot

\* A step that only changes one slot and the call that holds it.
LEMMA OneSlotFits ==
  ASSUME NEW r \in Records, NEW n \in Numbers, OthersSame(r, n), SlotForm(r, n)'
  PROVE  SlotsFit
  BY DEF OthersSame, SlotsFit

(***************************************************************************)
(* The other tables.                                                       *)
(***************************************************************************)
RowBecomes(r, new)  == row' = [row EXCEPT ![r] = new]
JobBecomes(p, r, j) == job' = [job EXCEPT ![p][r] = j]
ResumeBecomes(c, x) == resume' = [resume EXCEPT ![c] = x]
ReportBecomes(r, n, x) == report' = [report EXCEPT ![r][n] = x]

OtherRows(r)    == \A q \in Records \ {r} : row'[q] = row[q] /\ trail'[q] = trail[q]
OtherJobs(p, r) == \A q \in Pods, s \in Records : q # p \/ s # r => job'[q][s] = job[q][s]
OtherResumes(c) == \A d \in Callers \ {c} : resume'[d] = resume[d]
OtherReports(r, n) ==
  \A q \in Records, k \in Numbers : q # r \/ k # n => report'[q][k] = report[q][k]

LEMMA WriteRowDoes ==
  ASSUME TypeOK, NEW r \in Records, NEW new \in Rows, NEW edges \in Seq(Edges),
         WriteRow(r, new, edges)
  PROVE  /\ row' \in [Records -> Rows] /\ trail' \in [Records -> Seq(Edges)]
         /\ row'[r] = new /\ trail'[r] = trail[r] \o edges
         /\ OtherRows(r)
<1>1. row \in [Records -> Rows] /\ trail \in [Records -> Seq(Edges)]
  BY DEF TypeOK
<1>2. row' = [row EXCEPT ![r] = new] /\ trail' = [trail EXCEPT ![r] = @ \o edges]
  BY DEF WriteRow
<1>3. trail[r] \o edges \in Seq(Edges)
  BY <1>1
<1> QED BY <1>1, <1>2, <1>3 DEF OtherRows

LEMMA JobBecomesDoes ==
  ASSUME TypeOK, NEW p \in Pods, NEW r \in Records, NEW j \in Jobs, JobBecomes(p, r, j)
  PROVE  job' \in [Pods -> [Records -> Jobs]] /\ job'[p][r] = j /\ OtherJobs(p, r)
  BY DEF TypeOK, JobBecomes, OtherJobs

LEMMA ResumeBecomesDoes ==
  ASSUME TypeOK, NEW c \in Callers, NEW x \in Resumes, ResumeBecomes(c, x)
  PROVE  resume' \in [Callers -> Resumes] /\ resume'[c] = x /\ OtherResumes(c)
  BY DEF TypeOK, ResumeBecomes, OtherResumes

LEMMA ReportBecomesDoes ==
  ASSUME TypeOK, NEW r \in Records, NEW n \in Numbers, NEW x \in Reports,
         ReportBecomes(r, n, x)
  PROVE  report' \in [Records -> [Numbers -> Reports]] /\ report'[r][n] = x
         /\ OtherReports(r, n)
  BY DEF TypeOK, ReportBecomes, OtherReports

LEMMA IdleTypes == IdleJob \in Jobs /\ IdleResume \in Resumes /\ NoPlan \in Plans
                   /\ NewRow \in Rows /\ NoReport \in Reports
  BY AgentAssumption DEF IdleJob, Jobs, IdleResume, Resumes, NoPlan, Plans, NewRow, Rows,
     NoReport, Reports, States, Waiting, Claimed, Terminal, PendingActions, Dues, Answers,
     Outcomes

-----------------------------------------------------------------------------
(***************************************************************************)
(* Every step keeps GroundInv, whatever the faults and the bounds.         *)
(***************************************************************************)
LEMMA ExecutorTypesStay ==
  ASSUME EX!ExecutorTypeOK, UNCHANGED executorVars
  PROVE  EX!ExecutorTypeOK'
  BY DEF executorVars, EX!ExecutorTypeOK

LEMMA QuietGround ==
  ASSUME GroundInv, TypeOK', UNCHANGED row, UNCHANGED job, UNCHANGED reportVars,
         UNCHANGED executorVars
  PROVE  GroundInv'
  BY Untouched, GroundKept DEF reportVars

LEMMA TickGround == ASSUME GroundInv, Tick PROVE GroundInv'
<1>1. TypeOK'
  BY AgentAssumption, ExecutorTypesStay
     DEF GroundInv, TypeOK, Tick, intakeVars, engineVars, reportVars
<1> QED BY <1>1, QuietGround DEF Tick, engineVars

LEMMA DowntimeGround == ASSUME GroundInv, DowntimeEvent PROVE GroundInv'
<1>1. TypeOK'
  BY ExecutorTypesStay
     DEF GroundInv, TypeOK, DowntimeEvent, intakeVars, engineVars, reportVars
<1> QED BY <1>1, QuietGround DEF DowntimeEvent, engineVars

LEMMA RedeliverGround ==
  ASSUME GroundInv, NEW r \in Records, Redeliver(r) PROVE GroundInv'
<1>1. TypeOK'
  BY ExecutorTypesStay
     DEF GroundInv, TypeOK, Redeliver, worldVars, engineVars, reportVars
<1> QED BY <1>1, QuietGround DEF Redeliver, engineVars

LEMMA HandleStartGround ==
  ASSUME GroundInv, NEW p \in Pods, NEW r \in Records, HandleStart(p, r)
  PROVE  GroundInv'
<1>1. TypeOK'
  BY ExecutorTypesStay
     DEF GroundInv, TypeOK, HandleStart, worldVars, engineVars, reportVars
<1> QED BY <1>1, QuietGround DEF HandleStart, engineVars

LEMMA HandleDeadLetterGround ==
  ASSUME GroundInv, NEW p \in Pods, NEW r \in Records, HandleDeadLetter(p, r)
  PROVE  GroundInv'
<1>1. TypeOK'
  BY ExecutorTypesStay DEF GroundInv, TypeOK, HandleDeadLetter, worldVars, reportVars
<1> QED BY <1>1, QuietGround DEF HandleDeadLetter

LEMMA PodExitGround ==
  ASSUME GroundInv, NEW p \in Pods, PodExit(p), crashes' \in 0..MaxCrashes
  PROVE  GroundInv'
<1>1. /\ job' \in [Pods -> [Records -> Jobs]]
      /\ \A q \in Pods, r \in Records : job'[q][r] \in {job[q][r], IdleJob}
  BY IdleTypes DEF GroundInv, TypeOK, PodExit
<1>2. TypeOK'
  BY <1>1, ExecutorTypesStay DEF GroundInv, TypeOK, PodExit, reportVars
<1>3. JobsFit
  BY <1>1 DEF JobsFit
<1> QED BY <1>2, <1>3, Untouched, GroundKept DEF PodExit, reportVars

\* Writing what scoring said: the row that results, and the edges of the trail.
LEMMA RescoredDoes ==
  ASSUME NEW old \in Rows, NEW plan \in Plans, NEW n \in 0..MaxAttempts
  PROVE  /\ Rescored(old, plan, n) \in Rows
         /\ Rescored(old, plan, n).state = plan.state
         /\ Rescored(old, plan, n).attempts = n
         /\ Rescored(old, plan, n).action = plan.action
  BY DEF Rescored, Rows, Plans

LEMMA PathTypes ==
  ASSUME NEW from \in States, NEW plan \in Plans
  PROVE  RescoringPath(from, plan) \in Seq(Edges)
  BY DEF RescoringPath, ScoredEdge, Edge, Edges, Plans

LEMMA BucketedRow ==
  ASSUME NEW bucket \in Buckets
  PROVE  /\ [NewRow EXCEPT !.bucket = bucket] \in Rows
         /\ [NewRow EXCEPT !.state = "ESCALATED", !.bucket = bucket] \in Rows
  BY IdleTypes DEF Rows, States, Terminal

\* Intake inserts a row without attempts, escalated or as scoring said.
LEMMA HandleScheduleDoes ==
  ASSUME GroundInv, NEW p \in Pods, NEW r \in Records, HandleSchedule(p, r)
  PROVE  \E new \in Rows, edges \in Seq(Edges) :
           /\ WriteRow(r, new, edges) /\ new.attempts = 0
           /\ \/ new.state = "ESCALATED" /\ edges = <<Edge("NEW", "ESCALATED")>>
              \/ \E bucket \in Buckets :
                   /\ new.state = Plan(r, bucket).state
                   /\ new.action = Plan(r, bucket).action
                   /\ edges = RescoringPath("NEW", Plan(r, bucket))
<1>1. PICK bucket \in Buckets :
        \/ WriteRow(r, [NewRow EXCEPT !.state = "ESCALATED", !.bucket = bucket],
                    <<Edge("NEW", "ESCALATED")>>)
        \/ WriteRow(r, Rescored([NewRow EXCEPT !.bucket = bucket], Plan(r, bucket), 0),
                    RescoringPath("NEW", Plan(r, bucket)))
  BY DEF HandleSchedule
<1>2. "NEW" \in States /\ 0 \in 0..MaxAttempts
  BY AgentAssumption DEF States
<1>3. Plan(r, bucket) \in Plans
  BY PlanIsScored DEF GroundInv
<1>4. CASE WriteRow(r, [NewRow EXCEPT !.state = "ESCALATED", !.bucket = bucket],
                    <<Edge("NEW", "ESCALATED")>>)
  <2> DEFINE new == [NewRow EXCEPT !.state = "ESCALATED", !.bucket = bucket]
  <2>1. new \in Rows /\ new.attempts = 0 /\ new.state = "ESCALATED"
    BY BucketedRow DEF NewRow
  <2>2. <<Edge("NEW", "ESCALATED")>> \in Seq(Edges)
    BY DEF Edge, Edges, States, Terminal
  <2> QED BY <1>4, <2>1, <2>2
<1>5. CASE WriteRow(r, Rescored([NewRow EXCEPT !.bucket = bucket], Plan(r, bucket), 0),
                    RescoringPath("NEW", Plan(r, bucket)))
  <2> DEFINE old == [NewRow EXCEPT !.bucket = bucket]
             new == Rescored(old, Plan(r, bucket), 0)
  <2>1. old \in Rows
    BY BucketedRow
  <2> HIDE DEF old
  <2>2. /\ new \in Rows /\ new.attempts = 0 /\ new.state = Plan(r, bucket).state
        /\ new.action = Plan(r, bucket).action
    BY <1>2, <1>3, <2>1, RescoredDoes
  <2>3. RescoringPath("NEW", Plan(r, bucket)) \in Seq(Edges)
    BY <1>2, <1>3, PathTypes
  <2>4. WriteRow(r, new, RescoringPath("NEW", Plan(r, bucket)))
    BY <1>5 DEF old
  <2> QED BY <2>2, <2>3, <2>4
<1> QED BY <1>1, <1>4, <1>5

LEMMA HandleScheduleGround ==
  ASSUME GroundInv, NEW p \in Pods, NEW r \in Records, HandleSchedule(p, r)
  PROVE  GroundInv'
<1>1. PICK new \in Rows, edges \in Seq(Edges) :
        /\ WriteRow(r, new, edges) /\ new.attempts = 0
        /\ \/ new.state = "ESCALATED"
           \/ \E bucket \in Buckets : /\ new.state = Plan(r, bucket).state
                                      /\ new.action = Plan(r, bucket).action
  BY HandleScheduleDoes
<1>2. /\ row' \in [Records -> Rows] /\ trail' \in [Records -> Seq(Edges)]
      /\ row'[r] = new /\ OtherRows(r)
  BY <1>1, WriteRowDoes DEF GroundInv
<1>3. TypeOK'
  BY <1>2, ExecutorTypesStay DEF GroundInv, TypeOK, HandleSchedule, worldVars, reportVars
<1>4. new.state # "RECOVERED" /\ Scheduled(new)
  BY <1>1, PlanIsScored DEF GroundInv, Routed, Waiting, Scheduled
<1>5. RowsFit
  BY <1>1, <1>2, <1>4 DEF RowsFit, OtherRows, RowForm, Scheduled
<1> QED BY <1>3, <1>5, Untouched, GroundKept DEF HandleSchedule, reportVars

\* What claiming makes of a due row.
ClaimedJob(old) ==
  [IdleJob EXCEPT !.phase = "claimed", !.action = old.action,
                  !.from = ClaimedState(old.state), !.n = old.attempts + 1]

LEMMA ClaimedTypes ==
  ASSUME NEW old \in Rows, old.attempts < MaxAttempts
  PROVE  /\ ClaimedRow(old) \in Rows /\ ClaimedJob(old) \in Jobs
         /\ ClaimedRow(old).state = ClaimedState(old.state)
         /\ ClaimedRow(old).attempts = old.attempts /\ ClaimedRow(old).action = old.action
         /\ ClaimedJob(old).phase = "claimed" /\ ClaimedJob(old).tries = 0
         /\ ClaimedJob(old).action = old.action
         /\ ClaimedJob(old).from = ClaimedState(old.state)
         /\ ClaimedJob(old).n = old.attempts + 1 /\ old.attempts + 1 \in Numbers
         /\ ClaimedState(old.state) \in Claimed
<1>1. ClaimedState(old.state) \in Claimed
  BY DEF ClaimedState, Claimed
<1>2. old.attempts + 1 \in Numbers
  BY AgentAssumption DEF Rows, Numbers
<1>3. ClaimedRow(old) \in Rows
  BY <1>1 DEF ClaimedRow, Rows, States, Dues
<1>4. ClaimedJob(old) \in Jobs
  <2>1. /\ old.action \in PendingActions /\ old.attempts + 1 \in 0..MaxAttempts
        /\ ClaimedState(old.state) \in Claimed \union {"NEW"} /\ IdleJob \in Jobs
    BY <1>1, <1>2, IdleTypes, AgentAssumption DEF Rows, Numbers
  <2> QED BY <2>1 DEF ClaimedJob, Jobs
<1> QED BY <1>1, <1>2, <1>3, <1>4 DEF ClaimedRow, ClaimedJob, IdleJob, Rows

ClaimsRecord(p, r) ==
  /\ Due(r) /\ row[r].attempts < MaxAttempts
  /\ row'[r] = ClaimedRow(row[r])
  /\ trail'[r] = Append(trail[r], Edge(row[r].state, ClaimedState(row[r].state)))
  /\ job'[p][r] = ClaimedJob(row[r])

LEMMA ClaimDueDoes ==
  ASSUME GroundInv, NEW p \in Pods, ClaimDue(p)
  PROVE  /\ \A r \in Records : job[p][r] = IdleJob
         /\ \E batch \in SUBSET Records :
              /\ batch # {}
              /\ \A r \in batch : ClaimsRecord(p, r)
              /\ \A r \in Records \ batch :
                   row'[r] = row[r] /\ trail'[r] = trail[r] /\ job'[p][r] = job[p][r]
         /\ \A q \in Pods \ {p} : job'[q] = job[q]
         /\ row' \in [Records -> Rows] /\ trail' \in [Records -> Seq(Edges)]
         /\ job' \in [Pods -> [Records -> Jobs]]
<1>0. /\ row \in [Records -> Rows] /\ trail \in [Records -> Seq(Edges)]
      /\ job \in [Pods -> [Records -> Jobs]]
  BY DEF GroundInv, TypeOK
<1>1. \A r \in Records : job[p][r] = IdleJob
  BY DEF ClaimDue
<1>2. PICK batch \in SUBSET {r \in Records : Due(r)} :
       /\ batch # {}
       /\ \A r \in batch : row[r].attempts < MaxAttempts
       /\ row' = [r \in Records |->
                    IF r \in batch THEN ClaimedRow(row[r]) ELSE row[r]]
       /\ trail' = [r \in Records |->
                      IF r \in batch
                      THEN Append(trail[r], Edge(row[r].state, ClaimedState(row[r].state)))
                      ELSE trail[r]]
       /\ job' = [job EXCEPT ![p] = [r \in Records |->
                    IF r \in batch THEN ClaimedJob(row[r]) ELSE IdleJob]]
  BY DEF ClaimDue, ClaimedJob
<1>3. \A r \in batch : /\ ClaimedRow(row[r]) \in Rows /\ ClaimedJob(row[r]) \in Jobs
                       /\ ClaimedState(row[r].state) \in Claimed
  BY <1>0, <1>2, ClaimedTypes
<1>4. row' \in [Records -> Rows] /\ \A r \in Records :
        row'[r] = IF r \in batch THEN ClaimedRow(row[r]) ELSE row[r]
  BY <1>0, <1>2, <1>3
<1>5. \A r \in batch : Edge(row[r].state, ClaimedState(row[r].state)) \in Edges
  BY <1>0, <1>2, <1>3 DEF Edge, Edges, Rows, States
<1>6. \A r \in batch :
        Append(trail[r], Edge(row[r].state, ClaimedState(row[r].state))) \in Seq(Edges)
  BY <1>0, <1>2, <1>5
<1>7. trail' \in [Records -> Seq(Edges)] /\ \A r \in Records :
        trail'[r] = IF r \in batch
                    THEN Append(trail[r], Edge(row[r].state, ClaimedState(row[r].state)))
                    ELSE trail[r]
  BY <1>0, <1>2, <1>6
<1>8. /\ job' \in [Pods -> [Records -> Jobs]] /\ \A q \in Pods \ {p} : job'[q] = job[q]
      /\ \A r \in Records : job'[p][r] = IF r \in batch THEN ClaimedJob(row[r]) ELSE IdleJob
  BY <1>0, <1>2, <1>3, IdleTypes
<1>9. \A r \in batch : ClaimsRecord(p, r)
  BY <1>2, <1>4, <1>7, <1>8 DEF ClaimsRecord
<1> QED BY <1>1, <1>2, <1>4, <1>7, <1>8, <1>9

LEMMA ClaimDueGround == ASSUME GroundInv, NEW p \in Pods, ClaimDue(p) PROVE GroundInv'
<1>1. PICK batch \in SUBSET Records :
        /\ batch # {}
        /\ \A r \in batch : ClaimsRecord(p, r)
        /\ \A r \in Records \ batch :
             row'[r] = row[r] /\ trail'[r] = trail[r] /\ job'[p][r] = job[p][r]
  BY ClaimDueDoes
<1>2. TypeOK'
  BY ClaimDueDoes, ExecutorTypesStay
     DEF GroundInv, TypeOK, ClaimDue, worldVars, intakeVars, reportVars
<1>3. UNCHANGED executorVars /\ UNCHANGED report /\ UNCHANGED resume
  BY DEF ClaimDue, reportVars
<1>4. ASSUME NEW r \in batch
      PROVE  RowForm(r)' /\ row'[r].state # "RECOVERED" /\ JobForm(p, r)'
  <2>1. row[r] \in Rows /\ ClaimsRecord(p, r) /\ RowForm(r)
    BY <1>1 DEF GroundInv, TypeOK
  <2>2. /\ row'[r].state \in Claimed /\ row'[r].attempts = row[r].attempts
        /\ job'[p][r].phase = "claimed" /\ job'[p][r].n \in Numbers
        /\ job'[p][r].action = row[r].action
    BY <2>1, ClaimedTypes DEF ClaimsRecord
  <2>3. row[r].action \in SpendingActions
    BY <2>1 DEF ClaimsRecord, Due, RowForm, Scheduled
  <2>4. JobForm(p, r)'
    BY <2>2, <2>3 DEF JobForm
  <2> QED BY <1>3, <2>1, <2>2, <2>4
       DEF RowForm, Scheduled, Claimed, Waiting, EX!Resolved, executorVars
<1>5. RowsFit
  BY <1>1, <1>4 DEF RowsFit
<1>6. JobsFit
  <2>1. \A q \in Pods \ {p} : job'[q] = job[q]
    BY ClaimDueDoes
  <2> QED BY <1>1, <1>4, <2>1 DEF JobsFit
<1> QED BY <1>2, <1>3, <1>5, <1>6, Untouched, GroundKept

\* The stages of a claimed record in a pod's hands.
Called(j)          == [j EXCEPT !.phase = "calling"]
Answered(j, o)     == [j EXCEPT !.phase = "answered", !.outcome = o]
Retried(j)         == [j EXCEPT !.phase = "claimed", !.tries = @ + 1]
Rescoring(j, plan) == [j EXCEPT !.phase = "rescoring", !.plan = plan]

LEMMA JobStages ==
  ASSUME NEW j \in Jobs
  PROVE  /\ Called(j) \in Jobs /\ Called(j).phase = "calling"
         /\ Called(j).n = j.n /\ Called(j).action = j.action /\ Called(j).from = j.from
         /\ \A o \in Outcomes :
              /\ Answered(j, o) \in Jobs /\ Answered(j, o).phase = "answered"
              /\ Answered(j, o).outcome = o /\ Answered(j, o).n = j.n
              /\ Answered(j, o).action = j.action /\ Answered(j, o).from = j.from
         /\ j.tries + 1 < MaxExecuteAttempts =>
              /\ Retried(j) \in Jobs /\ Retried(j).phase = "claimed"
              /\ Retried(j).n = j.n /\ Retried(j).action = j.action
              /\ Retried(j).from = j.from
         /\ \A plan \in Plans :
              /\ Rescoring(j, plan) \in Jobs /\ Rescoring(j, plan).phase = "rescoring"
              /\ Rescoring(j, plan).plan = plan /\ Rescoring(j, plan).outcome = j.outcome
              /\ Rescoring(j, plan).n = j.n /\ Rescoring(j, plan).action = j.action
              /\ Rescoring(j, plan).from = j.from
<1> USE DEF Jobs
<1>1. /\ Called(j) \in Jobs /\ Called(j).phase = "calling"
      /\ Called(j).n = j.n /\ Called(j).action = j.action /\ Called(j).from = j.from
  BY DEF Called
<1>2. ASSUME NEW o \in Outcomes
      PROVE  /\ Answered(j, o) \in Jobs /\ Answered(j, o).phase = "answered"
             /\ Answered(j, o).outcome = o /\ Answered(j, o).n = j.n
             /\ Answered(j, o).action = j.action /\ Answered(j, o).from = j.from
  BY DEF Answered
<1>3. ASSUME j.tries + 1 < MaxExecuteAttempts
      PROVE  /\ Retried(j) \in Jobs /\ Retried(j).phase = "claimed"
             /\ Retried(j).n = j.n /\ Retried(j).action = j.action
             /\ Retried(j).from = j.from
  <2>1. j.tries + 1 \in 0..MaxExecuteAttempts
    BY <1>3, AgentAssumption
  <2>2. Retried(j) \in Jobs
    BY <2>1 DEF Retried
  <2> QED BY <2>2 DEF Retried
<1>4. ASSUME NEW plan \in Plans
      PROVE  /\ Rescoring(j, plan) \in Jobs /\ Rescoring(j, plan).phase = "rescoring"
             /\ Rescoring(j, plan).plan = plan /\ Rescoring(j, plan).outcome = j.outcome
             /\ Rescoring(j, plan).n = j.n /\ Rescoring(j, plan).action = j.action
             /\ Rescoring(j, plan).from = j.from
  BY DEF Rescoring
<1> QED BY <1>1, <1>2, <1>3, <1>4

LEMMA CallExecuteDoes ==
  ASSUME GroundInv, NEW p \in Pods, NEW r \in Records, CallExecute(p, r)
  PROVE  /\ job[p][r].phase = "claimed" /\ JobBecomes(p, r, Called(job[p][r]))
         /\ \/ EX!ClaimSlot(r, job[p][r].n, job[p][r].action, now)
            \/ EX!Exists(r, job[p][r].n) /\ UNCHANGED executorVars
  BY DEF GroundInv, TypeOK, CallExecute, JobBecomes, Called

LEMMA CallAnsweredDoes ==
  ASSUME GroundInv, NEW p \in Pods, NEW r \in Records, CallAnswered(p, r)
  PROVE  /\ job[p][r].phase = "calling" /\ EX!Replay(r, job[p][r].n)
         /\ JobBecomes(p, r, Answered(job[p][r], slot[r][job[p][r].n].outcome))
  BY DEF GroundInv, TypeOK, CallAnswered, JobBecomes, Answered

LEMMA CallFailsDoes ==
  ASSUME GroundInv, NEW p \in Pods, NEW r \in Records, CallFails(p, r)
  PROVE  /\ job[p][r].phase \in {"claimed", "calling"}
         /\ \/ job[p][r].tries + 1 < MaxExecuteAttempts
               /\ JobBecomes(p, r, Retried(job[p][r])) /\ UNCHANGED deadLetters
            \/ JobBecomes(p, r, IdleJob) /\ deadLetters' \in {deadLetters, deadLetters \union {r}}
  BY DEF GroundInv, TypeOK, CallFails, JobBecomes, Retried

LEMMA RescoreDoes ==
  ASSUME GroundInv, NEW p \in Pods, NEW r \in Records, Rescore(p, r)
  PROVE  /\ job[p][r].phase = "answered" /\ job[p][r].outcome = "FAILURE"
         /\ JobBecomes(p, r, Rescoring(job[p][r], Plan(r, row[r].bucket)))
  BY DEF GroundInv, TypeOK, Rescore, JobBecomes, Rescoring

LEMMA LiveJob ==
  ASSUME GroundInv, NEW p \in Pods, NEW r \in Records, job[p][r].phase # "idle"
  PROVE  /\ TypeOK /\ job[p][r] \in Jobs /\ JobForm(p, r)
         /\ job[p][r].n \in Numbers /\ job[p][r].action \in SpendingActions
  BY DEF GroundInv, TypeOK, JobForm

\* A step of one pod on one record of its batch.
LEMMA OneJobFits ==
  ASSUME NEW p \in Pods, NEW r \in Records, OtherJobs(p, r),
         job'[p][r] = IdleJob \/ JobForm(p, r)'
  PROVE  JobsFit
  BY DEF OtherJobs, JobsFit

LEMMA CallExecuteGround ==
  ASSUME GroundInv, NEW p \in Pods, NEW r \in Records, CallExecute(p, r)
  PROVE  GroundInv'
<1>1. job[p][r].phase = "claimed"
  BY CallExecuteDoes
<1>2. PICK j \in Jobs, n \in Numbers, a \in SpendingActions :
        TypeOK /\ j = job[p][r] /\ n = j.n /\ a = j.action
  BY <1>1, LiveJob
<1>3. /\ JobBecomes(p, r, Called(j))
      /\ EX!ClaimSlot(r, n, a, now) \/ UNCHANGED executorVars
  BY <1>2, CallExecuteDoes DEF JobBecomes, EX!ClaimSlot
<1>4. /\ Called(j) \in Jobs /\ Called(j).phase = "calling" /\ Called(j).n = n
      /\ Called(j).action = a
  BY <1>2, JobStages
<1>5. job' \in [Pods -> [Records -> Jobs]] /\ OtherJobs(p, r) /\ job'[p][r] = Called(j)
  BY <1>2, <1>3, <1>4, JobBecomesDoes
<1>6. JobForm(p, r)'
  BY <1>4, <1>5 DEF JobForm
<1>7. UNCHANGED <<report, resume, row>>
  BY DEF CallExecute, reportVars
<1>8. SlotsKept /\ SlotsFit /\ AnswersFit /\ EX!ExecutorTypeOK'
  <2>1. CASE UNCHANGED executorVars
    BY <1>2, <1>7, <2>1, Untouched, ExecutorTypesStay DEF TypeOK
  <2>2. CASE EX!ClaimSlot(r, n, a, now)
    <3>1. /\ ~EX!Exists(r, n) /\ slot'[r][n] = Marked(a, now) /\ handler'[r][n] = "port"
          /\ OthersSame(r, n) /\ SlotsKept /\ EX!ExecutorTypeOK'
      BY <2>2, ClaimSlotDoes
    <3>2. SlotForm(r, n)'
      <4>1. /\ slot'[r][n].action \in SpendingActions
            /\ slot'[r][n].outcome = "UNSPECIFIED" /\ handler'[r][n] = "port"
        BY <3>1 DEF Marked, EX!ClaimMarker
      <4> QED BY <4>1 DEF SlotForm, EX!Exists, EX!ClaimMarker, EX!NoRow
    <3>3. AnswerForm(r, n)'
      <4>1. AnswerForm(r, n)
        BY DEF GroundInv
      <4> QED BY <1>7, <3>1, <4>1 DEF AnswerForm
    <3>4. AnswersFit
      BY <1>7, <3>1, <3>3 DEF AnswersFit, OthersSame, SameAnswer
    <3> QED BY <3>1, <3>2, <3>4, OneSlotFits
  <2> QED BY <1>3, <2>1, <2>2
<1>9. TypeOK'
  BY <1>2, <1>5, <1>8 DEF TypeOK, CallExecute, worldVars, intakeVars, reportVars
<1> QED BY <1>5, <1>6, <1>7, <1>8, <1>9, OneJobFits, Untouched, GroundKept

LEMMA CallAnsweredGround ==
  ASSUME GroundInv, NEW p \in Pods, NEW r \in Records, CallAnswered(p, r)
  PROVE  GroundInv'
<1>1. job[p][r].phase = "calling"
  BY CallAnsweredDoes
<1>2. PICK j \in Jobs, n \in Numbers :
        TypeOK /\ j = job[p][r] /\ n = j.n /\ j.action \in SpendingActions
  BY <1>1, LiveJob
<1>3. EX!Replay(r, n) /\ JobBecomes(p, r, Answered(j, slot[r][n].outcome))
  BY <1>2, CallAnsweredDoes
<1>4. /\ EX!Resolved(r, n) /\ UNCHANGED <<slot, handler, effects>>
      /\ SlotsKept /\ SlotsFit /\ EX!ExecutorTypeOK'
  BY <1>3, ReplayDoes
<1>5. PICK o \in Outcomes : o = slot[r][n].outcome
  BY <1>4 DEF EX!Resolved, EX!Outcomes, Outcomes
<1>6. /\ Answered(j, o) \in Jobs /\ Answered(j, o).phase = "answered"
      /\ Answered(j, o).outcome = o /\ Answered(j, o).n = n
      /\ Answered(j, o).action = j.action
  BY <1>2, JobStages
<1>7. job' \in [Pods -> [Records -> Jobs]] /\ OtherJobs(p, r) /\ job'[p][r] = Answered(j, o)
  BY <1>2, <1>3, <1>5, <1>6, JobBecomesDoes
<1>8. JobForm(p, r)'
  BY <1>2, <1>4, <1>5, <1>6, <1>7 DEF JobForm, EX!Resolved
<1>9. UNCHANGED <<report, resume, row>>
  BY DEF CallAnswered, reportVars
<1>10. AnswersFit
  BY <1>4, <1>9 DEF AnswersFit, SameSlot, SameAnswer
<1>11. TypeOK'
  BY <1>2, <1>4, <1>7 DEF TypeOK, CallAnswered, worldVars, intakeVars, reportVars
<1> QED BY <1>4, <1>7, <1>8, <1>9, <1>10, <1>11, OneJobFits, Untouched, GroundKept

LEMMA CallFailsGround ==
  ASSUME GroundInv, NEW p \in Pods, NEW r \in Records, CallFails(p, r)
  PROVE  GroundInv'
<1>1. /\ job[p][r].phase \in {"claimed", "calling"}
      /\ \/ job[p][r].tries + 1 < MaxExecuteAttempts
            /\ JobBecomes(p, r, Retried(job[p][r])) /\ UNCHANGED deadLetters
         \/ JobBecomes(p, r, IdleJob) /\ deadLetters' \in {deadLetters, deadLetters \union {r}}
  BY CallFailsDoes
<1>2. /\ TypeOK /\ job[p][r] \in Jobs /\ job[p][r].n \in Numbers
      /\ job[p][r].action \in SpendingActions
  BY <1>1, LiveJob
<1>3. /\ job' \in [Pods -> [Records -> Jobs]] /\ OtherJobs(p, r)
      /\ job'[p][r] = IdleJob \/ JobForm(p, r)'
  <2>1. CASE JobBecomes(p, r, IdleJob)
    BY <1>2, <2>1, IdleTypes, JobBecomesDoes
  <2>2. CASE /\ JobBecomes(p, r, Retried(job[p][r]))
             /\ job[p][r].tries + 1 < MaxExecuteAttempts
    <3>1. /\ Retried(job[p][r]) \in Jobs /\ Retried(job[p][r]).phase = "claimed"
          /\ Retried(job[p][r]).n = job[p][r].n
          /\ Retried(job[p][r]).action = job[p][r].action
      BY <1>2, <2>2, JobStages
    <3>2. /\ job' \in [Pods -> [Records -> Jobs]] /\ OtherJobs(p, r)
          /\ job'[p][r] = Retried(job[p][r])
      BY <1>2, <2>2, <3>1, JobBecomesDoes
    <3> QED BY <1>2, <3>1, <3>2 DEF JobForm
  <2> QED BY <1>1, <2>1, <2>2
<1>4. TypeOK'
  BY <1>1, <1>2, <1>3, ExecutorTypesStay
     DEF TypeOK, CallFails, worldVars, intakeVars, reportVars
<1> QED BY <1>3, <1>4, OneJobFits, Untouched, GroundKept DEF CallFails, reportVars

LEMMA RescoreGround ==
  ASSUME GroundInv, NEW p \in Pods, NEW r \in Records, Rescore(p, r)
  PROVE  GroundInv'
<1>1. job[p][r].phase = "answered" /\ job[p][r].outcome = "FAILURE"
  BY RescoreDoes
<1>2. PICK j \in Jobs, n \in Numbers :
        /\ TypeOK /\ j = job[p][r] /\ n = j.n /\ j.action \in SpendingActions
        /\ EX!Resolved(r, n) /\ j.outcome = slot[r][n].outcome
  BY <1>1, LiveJob DEF JobForm
<1>3. PICK plan \in Plans : plan = Plan(r, row[r].bucket) /\ PlanForm(plan)
  BY <1>2, PlanIsScored DEF PlanForm, Scheduled
<1>4. JobBecomes(p, r, Rescoring(j, plan))
  BY <1>2, <1>3, RescoreDoes DEF JobBecomes
<1>5. /\ Rescoring(j, plan) \in Jobs /\ Rescoring(j, plan).phase = "rescoring"
      /\ Rescoring(j, plan).plan = plan /\ Rescoring(j, plan).outcome = j.outcome
      /\ Rescoring(j, plan).n = n /\ Rescoring(j, plan).action = j.action
  BY <1>2, JobStages
<1>6. job' \in [Pods -> [Records -> Jobs]] /\ OtherJobs(p, r)
      /\ job'[p][r] = Rescoring(j, plan)
  BY <1>2, <1>4, <1>5, JobBecomesDoes
<1>7. UNCHANGED <<report, resume, row>> /\ UNCHANGED executorVars
  BY DEF Rescore, reportVars
<1>8. JobForm(p, r)'
  BY <1>1, <1>2, <1>3, <1>5, <1>6, <1>7 DEF JobForm, EX!Resolved, executorVars
<1>9. TypeOK'
  BY <1>2, <1>6, ExecutorTypesStay
     DEF TypeOK, Rescore, worldVars, intakeVars, reportVars
<1> QED BY <1>6, <1>7, <1>8, <1>9, OneJobFits, Untouched, GroundKept

\* A step that puts a record down: nothing is left of it in the pod's hands.
LEMMA PutDown ==
  ASSUME GroundInv, NEW p \in Pods, NEW r \in Records, JobBecomes(p, r, IdleJob)
  PROVE  /\ job' \in [Pods -> [Records -> Jobs]] /\ OtherJobs(p, r)
         /\ job'[p][r] = IdleJob /\ JobsFit
  BY IdleTypes, JobBecomesDoes, OneJobFits DEF GroundInv

LEMMA ResultLostGround ==
  ASSUME GroundInv, NEW p \in Pods, NEW r \in Records, ResultLost(p, r)
  PROVE  GroundInv'
<1>1. job' \in [Pods -> [Records -> Jobs]] /\ JobsFit
  BY PutDown DEF ResultLost, JobBecomes
<1>2. TypeOK'
  BY <1>1, ExecutorTypesStay
     DEF GroundInv, TypeOK, ResultLost, worldVars, intakeVars, reportVars
<1> QED BY <1>1, <1>2, Untouched, GroundKept DEF ResultLost, reportVars

\* A result is written: the attempt counts, and it ended.
LEMMA RecordResultDoes ==
  ASSUME GroundInv, NEW p \in Pods, NEW r \in Records, RecordResult(p, r)
  PROVE  \E n \in Numbers, new \in Rows :
           /\ n = job[p][r].n /\ job[p][r].phase = "answered"
           /\ EX!Resolved(r, n) /\ job[p][r].outcome = slot[r][n].outcome
           /\ slot[r][n].outcome # "FAILURE"
           /\ new.state = DecideAfterExecute(job[p][r].action, job[p][r].outcome)
           /\ new.state \in {"RECOVERED", "NUDGED", "ESCALATED"}
           /\ new.attempts = n /\ row' \in [Records -> Rows] /\ row'[r] = new
           /\ trail'[r] = trail[r] \o <<Edge(job[p][r].from, new.state)>>
           /\ trail' \in [Records -> Seq(Edges)] /\ OtherRows(r)
           /\ JobBecomes(p, r, IdleJob)
<1> DEFINE to == DecideAfterExecute(job[p][r].action, job[p][r].outcome)
           new == [row[r] EXCEPT !.state = to, !.attempts = job[p][r].n]
           edges == <<Edge(job[p][r].from, to)>>
<1>1. job[p][r].phase = "answered" /\ job[p][r].outcome # "FAILURE"
  BY DEF RecordResult
<1>2. /\ TypeOK /\ job[p][r] \in Jobs /\ job[p][r].n \in Numbers
      /\ EX!Resolved(r, job[p][r].n) /\ job[p][r].outcome = slot[r][job[p][r].n].outcome
  BY <1>1, LiveJob DEF JobForm
<1>3. to \in {"RECOVERED", "NUDGED", "ESCALATED"}
  BY DEF DecideAfterExecute
<1>4. WriteRow(r, new, edges)
  BY DEF RecordResult
<1>5. row[r] \in Rows /\ job[p][r].n \in 0..MaxAttempts /\ job[p][r].from \in States
  BY <1>2, AgentAssumption DEF TypeOK, Numbers, Jobs, States
<1> HIDE DEF to
<1>6. new \in Rows /\ new.state = to /\ new.attempts = job[p][r].n
  BY <1>3, <1>5 DEF Rows, States, Claimed, Terminal
<1>7. edges \in Seq(Edges)
  BY <1>3, <1>5 DEF Edge, Edges, States, Claimed, Terminal
<1>8. /\ row' \in [Records -> Rows] /\ trail' \in [Records -> Seq(Edges)]
      /\ row'[r] = new /\ trail'[r] = trail[r] \o edges /\ OtherRows(r)
  BY <1>2, <1>4, <1>6, <1>7, WriteRowDoes
<1>9. JobBecomes(p, r, IdleJob)
  BY DEF RecordResult, JobBecomes
<1> QED BY <1>1, <1>2, <1>3, <1>6, <1>8, <1>9 DEF to

LEMMA RecordResultGround ==
  ASSUME GroundInv, NEW p \in Pods, NEW r \in Records, RecordResult(p, r)
  PROVE  GroundInv'
<1>1. PICK n \in Numbers, new \in Rows :
           /\ n = job[p][r].n /\ job[p][r].phase = "answered"
           /\ EX!Resolved(r, n) /\ job[p][r].outcome = slot[r][n].outcome
           /\ slot[r][n].outcome # "FAILURE"
           /\ new.state = DecideAfterExecute(job[p][r].action, job[p][r].outcome)
           /\ new.state \in {"RECOVERED", "NUDGED", "ESCALATED"}
           /\ new.attempts = n /\ row' \in [Records -> Rows] /\ row'[r] = new
           /\ trail'[r] = trail[r] \o <<Edge(job[p][r].from, new.state)>>
           /\ trail' \in [Records -> Seq(Edges)] /\ OtherRows(r)
           /\ JobBecomes(p, r, IdleJob)
  BY RecordResultDoes
<1>2. UNCHANGED <<report, resume>> /\ UNCHANGED executorVars
  BY DEF RecordResult, reportVars
<1>3. job' \in [Pods -> [Records -> Jobs]] /\ JobsFit
  BY <1>1, PutDown
<1>4. RowForm(r)'
  BY <1>1, <1>2 DEF RowForm, Scheduled, Waiting, EX!Resolved, executorVars
<1>5. new.state = "RECOVERED" => Earned(r)'
  BY <1>1, <1>2 DEF DecideAfterExecute, Earned, executorVars
<1>6. RowsFit
  BY <1>1, <1>4, <1>5 DEF RowsFit, OtherRows
<1>7. TypeOK'
  BY <1>1, <1>3, ExecutorTypesStay
     DEF GroundInv, TypeOK, RecordResult, worldVars, intakeVars, reportVars
<1> QED BY <1>2, <1>3, <1>6, <1>7, Untouched, GroundKept

LEMMA RecordRescoreDoes ==
  ASSUME GroundInv, NEW p \in Pods, NEW r \in Records, RecordRescore(p, r)
  PROVE  \E n \in Numbers, new \in Rows, plan \in Plans :
           /\ n = job[p][r].n /\ job[p][r].phase = "rescoring" /\ plan = job[p][r].plan
           /\ EX!Resolved(r, n) /\ slot[r][n].outcome = "FAILURE" /\ PlanForm(plan)
           /\ new.state = plan.state /\ new.action = plan.action /\ new.attempts = n
           /\ row' \in [Records -> Rows] /\ row'[r] = new
           /\ trail'[r] = trail[r] \o RescoringPath(job[p][r].from, plan)
           /\ trail' \in [Records -> Seq(Edges)] /\ OtherRows(r)
           /\ JobBecomes(p, r, IdleJob)
<1>1. job[p][r].phase = "rescoring"
  BY DEF RecordRescore
<1>2. /\ TypeOK /\ job[p][r] \in Jobs /\ JobForm(p, r)
      /\ job[p][r].n \in Numbers
  BY <1>1, LiveJob
<1>3. PICK n \in Numbers, plan \in Plans, from \in States, old \in Rows :
        /\ n = job[p][r].n /\ plan = job[p][r].plan /\ from = job[p][r].from
        /\ old = row[r]
  BY <1>2 DEF TypeOK, Jobs, States
<1>4. WriteRow(r, Rescored(old, plan, n), RescoringPath(from, plan))
  BY <1>3 DEF RecordRescore, WriteRow
<1>5. n \in 0..MaxAttempts
  BY AgentAssumption DEF Numbers
<1>6. PICK new \in Rows : new = Rescored(old, plan, n) /\ new.state = plan.state
                          /\ new.action = plan.action /\ new.attempts = n
  BY <1>5, RescoredDoes
<1>7. /\ row' \in [Records -> Rows] /\ trail' \in [Records -> Seq(Edges)]
      /\ row'[r] = new /\ trail'[r] = trail[r] \o RescoringPath(from, plan)
      /\ OtherRows(r)
  BY <1>2, <1>4, <1>6, PathTypes, WriteRowDoes
<1>8. JobBecomes(p, r, IdleJob)
  BY DEF RecordRescore, JobBecomes
<1> QED BY <1>1, <1>2, <1>3, <1>6, <1>7, <1>8 DEF JobForm

LEMMA RecordRescoreGround ==
  ASSUME GroundInv, NEW p \in Pods, NEW r \in Records, RecordRescore(p, r)
  PROVE  GroundInv'
<1>1. PICK n \in Numbers, new \in Rows, plan \in Plans :
           /\ n = job[p][r].n /\ job[p][r].phase = "rescoring" /\ plan = job[p][r].plan
           /\ EX!Resolved(r, n) /\ slot[r][n].outcome = "FAILURE" /\ PlanForm(plan)
           /\ new.state = plan.state /\ new.action = plan.action /\ new.attempts = n
           /\ row' \in [Records -> Rows] /\ row'[r] = new
           /\ trail'[r] = trail[r] \o RescoringPath(job[p][r].from, plan)
           /\ trail' \in [Records -> Seq(Edges)] /\ OtherRows(r)
           /\ JobBecomes(p, r, IdleJob)
  BY RecordRescoreDoes
<1>2. UNCHANGED <<report, resume>> /\ UNCHANGED executorVars
  BY DEF RecordRescore, reportVars
<1>3. job' \in [Pods -> [Records -> Jobs]] /\ JobsFit
  BY <1>1, PutDown
<1>4. RowForm(r)' /\ row'[r].state # "RECOVERED"
  BY <1>1, <1>2 DEF RowForm, Scheduled, PlanForm, Routed, Waiting, EX!Resolved, executorVars
<1>5. RowsFit
  BY <1>1, <1>4 DEF RowsFit, OtherRows
<1>6. TypeOK'
  BY <1>1, <1>3, ExecutorTypesStay
     DEF GroundInv, TypeOK, RecordRescore, worldVars, intakeVars, reportVars
<1> QED BY <1>2, <1>3, <1>5, <1>6, Untouched, GroundKept

-----------------------------------------------------------------------------
(***************************************************************************)
(* The port, and the answers behind it.                                    *)
(***************************************************************************)
Queued(answer) == [phase |-> "queued", outcome |-> answer, tries |-> 0]

\* The report queued, if any, is the first for its attempt.
LEMMA QueueAnswerDoes ==
  ASSUME GroundInv, NEW r \in Records, NEW n \in Numbers, QueueAnswer(r, n)
  PROVE  \E answer \in Answers :
           /\ report' \in [Records -> [Numbers -> Reports]]
           /\ report'[r][n] = Queued(answer) /\ OtherReports(r, n)
<1>1. PICK answer \in Answers : ReportBecomes(r, n, Queued(answer))
  BY DEF QueueAnswer, ReportBecomes, Queued
<1>2. Queued(answer) \in Reports
  BY AgentAssumption DEF Queued, Reports
<1> QED BY <1>1, <1>2, ReportBecomesDoes DEF GroundInv

\* A step of the Executor on one slot, which may queue an answer.
LEMMA OneAnswerFits ==
  ASSUME NEW r \in Records, NEW n \in Numbers, OthersSame(r, n),
         UNCHANGED report \/ OtherReports(r, n), AnswerForm(r, n)'
  PROVE  AnswersFit
  BY DEF OthersSame, OtherReports, AnswersFit, SameAnswer

LEMMA PortActsGround ==
  ASSUME GroundInv, NEW r \in Records, NEW n \in Numbers, PortActs(r, n)
  PROVE  GroundInv'
<1>1. PICK o \in Outcomes :
        /\ EX!Perform(r, n, o)
        /\ \/ o \in Answers /\ UNCHANGED report
           \/ o = "PENDING" /\ IsNudge(slot[r][n].action) /\ QueueAnswer(r, n)
  BY DEF PortActs, Outcomes, Answers
<1>2. /\ handler[r][n] = "port" /\ handler'[r][n] = o /\ slot'[r][n] = slot[r][n]
      /\ OthersSame(r, n) /\ SlotsKept /\ EX!ExecutorTypeOK'
  BY <1>1, PerformDoes
<1>3. TypeOK /\ SlotForm(r, n) /\ AnswerForm(r, n)
  BY DEF GroundInv
<1>4. slot[r][n].outcome = "UNSPECIFIED" /\ report[r][n].outcome = "none"
      /\ report[r][n].phase = "none"
  BY <1>2, <1>3 DEF SlotForm, AnswerForm, EX!ClaimMarker
<1>5. SlotForm(r, n)'
  BY <1>1, <1>2, <1>3, <1>4 DEF SlotForm, Answers, EX!Exists, EX!ClaimMarker
<1>6. /\ report' \in [Records -> [Numbers -> Reports]] /\ AnswersKept
      /\ UNCHANGED report \/ OtherReports(r, n)
      /\ AnswerForm(r, n)'
  <2>1. CASE UNCHANGED report
    BY <1>3, <1>4, <2>1 DEF TypeOK, AnswersKept, AnswerForm
  <2>2. CASE o = "PENDING" /\ QueueAnswer(r, n)
    <3>1. PICK answer \in Answers :
           /\ report' \in [Records -> [Numbers -> Reports]]
           /\ report'[r][n] = Queued(answer) /\ OtherReports(r, n)
      BY <2>2, QueueAnswerDoes
    <3>2. report'[r][n].phase = "queued" /\ report'[r][n].outcome = answer
      BY <3>1 DEF Queued
    <3>3. AnswerForm(r, n)'
      BY <1>2, <1>4, <2>2, <3>2
         DEF AnswerForm, Answers, EX!Exists, EX!ClaimMarker, EX!NoRow
    <3> QED BY <1>4, <3>1, <3>3 DEF AnswersKept, OtherReports
  <2> QED BY <1>1, <2>1, <2>2
<1>7. SlotsFit /\ AnswersFit
  BY <1>2, <1>5, <1>6, OneSlotFits, OneAnswerFits
<1>8. TypeOK'
  BY <1>2, <1>3, <1>6 DEF TypeOK, PortActs, worldVars, intakeVars, engineVars
<1> QED BY <1>2, <1>6, <1>7, <1>8, Untouched, GroundKept DEF PortActs, engineVars

LEMMA PortFailsGround ==
  ASSUME GroundInv, NEW r \in Records, NEW n \in Numbers, PortFails(r, n)
  PROVE  GroundInv'
<1>1. EX!PerformFails(r, n) /\ (UNCHANGED report \/ QueueAnswer(r, n))
  BY DEF PortFails
<1>2. /\ handler[r][n] = "port" /\ handler'[r][n] = "none" /\ slot'[r][n] = slot[r][n]
      /\ OthersSame(r, n) /\ SlotsKept /\ EX!ExecutorTypeOK'
  BY <1>1, PerformFailsDoes
<1>3. TypeOK /\ SlotForm(r, n) /\ AnswerForm(r, n)
  BY DEF GroundInv
<1>4. slot[r][n].outcome = "UNSPECIFIED" /\ report[r][n].outcome = "none"
      /\ report[r][n].phase = "none"
  BY <1>2, <1>3 DEF SlotForm, AnswerForm, EX!ClaimMarker
<1>5. SlotForm(r, n)'
  BY <1>2, <1>3, <1>4 DEF SlotForm, EX!Exists, EX!ClaimMarker
<1>6. /\ report' \in [Records -> [Numbers -> Reports]] /\ AnswersKept
      /\ UNCHANGED report \/ OtherReports(r, n)
      /\ AnswerForm(r, n)'
  <2>1. CASE UNCHANGED report
    BY <1>3, <1>4, <2>1 DEF TypeOK, AnswersKept, AnswerForm
  <2>2. CASE QueueAnswer(r, n)
    <3>1. PICK answer \in Answers :
           /\ report' \in [Records -> [Numbers -> Reports]]
           /\ report'[r][n] = Queued(answer) /\ OtherReports(r, n)
      BY <2>2, QueueAnswerDoes
    <3>2. report'[r][n].phase = "queued" /\ report'[r][n].outcome = answer
      BY <3>1 DEF Queued
    <3>3. AnswerForm(r, n)'
      BY <1>2, <1>4, <3>2 DEF AnswerForm, Answers, EX!Exists, EX!ClaimMarker, EX!NoRow
    <3> QED BY <1>4, <3>1, <3>3 DEF AnswersKept, OtherReports
  <2> QED BY <1>1, <2>1, <2>2
<1>7. SlotsFit /\ AnswersFit
  BY <1>2, <1>5, <1>6, OneSlotFits, OneAnswerFits
<1>8. TypeOK'
  BY <1>2, <1>3, <1>6 DEF TypeOK, PortFails, worldVars, intakeVars, engineVars
<1> QED BY <1>2, <1>6, <1>7, <1>8, Untouched, GroundKept DEF PortFails, engineVars

LEMMA OutcomeSavedGround ==
  ASSUME GroundInv, NEW r \in Records, NEW n \in Numbers, OutcomeSaved(r, n)
  PROVE  GroundInv'
<1>1. EX!RecordOutcome(r, n) \/ EX!RecordOutcomeFails(r, n)
  BY DEF OutcomeSaved
<1>2. TypeOK /\ SlotForm(r, n) /\ AnswerForm(r, n) /\ slot[r][n] \in EX!Slots
  BY SlotTypes DEF GroundInv
<1>3. UNCHANGED <<report, resume, row, job>>
  BY DEF OutcomeSaved, reportVars, engineVars
<1>4. OthersSame(r, n) /\ SlotsKept /\ EX!ExecutorTypeOK' /\ SlotForm(r, n)'
      /\ AnswerForm(r, n)'
  <2>1. CASE EX!RecordOutcome(r, n)
    <3>1. PICK o \in Outcomes : o = handler[r][n] /\ slot'[r][n] = Filled(slot[r][n], o)
      BY <2>1, RecordOutcomeDoes
    <3>2. handler'[r][n] = "none" /\ OthersSame(r, n) /\ SlotsKept /\ EX!ExecutorTypeOK'
      BY <2>1, RecordOutcomeDoes
    <3>3. slot'[r][n].outcome = o /\ slot'[r][n].action = slot[r][n].action
      BY <1>2, <3>1, FilledSlot
    <3>4. slot[r][n].outcome = "UNSPECIFIED"
      BY <1>2, <3>1 DEF SlotForm, Outcomes, EX!ClaimMarker
    <3>5. SlotForm(r, n)'
      BY <1>2, <3>1, <3>2, <3>3, <3>4
         DEF SlotForm, Outcomes, EX!Exists, EX!NoRow
    <3>6. AnswerForm(r, n)'
      BY <1>2, <1>3, <3>1, <3>2, <3>3, <3>4 DEF AnswerForm, Outcomes, EX!Exists, EX!NoRow
    <3> QED BY <3>2, <3>5, <3>6
  <2>2. CASE EX!RecordOutcomeFails(r, n)
    <3>1. /\ handler'[r][n] = "none" /\ slot'[r][n] = slot[r][n]
          /\ OthersSame(r, n) /\ SlotsKept /\ EX!ExecutorTypeOK'
      BY <2>2, RecordOutcomeFailsDoes
    <3> QED BY <1>2, <1>3, <3>1 DEF SlotForm, AnswerForm, EX!Exists
  <2> QED BY <1>1, <2>1, <2>2
<1>5. SlotsFit /\ AnswersFit
  BY <1>3, <1>4, OneSlotFits, OneAnswerFits
<1>6. TypeOK'
  BY <1>2, <1>4 DEF TypeOK, OutcomeSaved, worldVars, intakeVars, engineVars, reportVars
<1> QED BY <1>3, <1>4, <1>5, <1>6, Untouched, GroundKept

-----------------------------------------------------------------------------
(***************************************************************************)
(* The poller, and the report calls it makes.                              *)
(***************************************************************************)
Moved(x, phase) == [x EXCEPT !.phase = phase]
Sent(x)         == [x EXCEPT !.phase = "calling", !.tries = x.tries + 1]

LEMMA ReportStages ==
  ASSUME NEW x \in Reports
  PROVE  /\ \A phase \in {"delivering", "calling", "done"} :
              /\ Moved(x, phase) \in Reports /\ Moved(x, phase).phase = phase
              /\ Moved(x, phase).outcome = x.outcome /\ Moved(x, phase).tries = x.tries
         /\ x.tries < MaxDeliverAttempts =>
              /\ Sent(x) \in Reports /\ Sent(x).phase = "calling"
              /\ Sent(x).outcome = x.outcome /\ Sent(x).tries = x.tries + 1
<1> USE DEF Reports
<1>1. ASSUME NEW phase \in {"delivering", "calling", "done"}
      PROVE  /\ Moved(x, phase) \in Reports /\ Moved(x, phase).phase = phase
             /\ Moved(x, phase).outcome = x.outcome /\ Moved(x, phase).tries = x.tries
  BY DEF Moved
<1>2. ASSUME x.tries < MaxDeliverAttempts
      PROVE  /\ Sent(x) \in Reports /\ Sent(x).phase = "calling"
             /\ Sent(x).outcome = x.outcome /\ Sent(x).tries = x.tries + 1
  <2>1. x.tries + 1 \in 0..MaxDeliverAttempts
    BY <1>2, AgentAssumption
  <2>2. Sent(x) \in Reports
    BY <2>1 DEF Sent
  <2> QED BY <2>2 DEF Sent
<1> QED BY <1>1, <1>2

\* Delivering an answer never changes it.
LEMMA ReportMoves ==
  ASSUME GroundInv, NEW r \in Records, NEW n \in Numbers, NEW x \in Reports,
         ReportBecomes(r, n, x), UNCHANGED executorVars,
         report[r][n].phase # "none", x.phase # "none", x.outcome = report[r][n].outcome
  PROVE  /\ report' \in [Records -> [Numbers -> Reports]] /\ OtherReports(r, n)
         /\ report'[r][n] = x /\ AnswersFit /\ AnswersKept
<1>1. /\ report' \in [Records -> [Numbers -> Reports]] /\ OtherReports(r, n)
      /\ report'[r][n] = x
  BY ReportBecomesDoes DEF GroundInv
<1>2. \A q \in Records, k \in Numbers : SameAnswer(q, k)
  BY <1>1 DEF OtherReports, SameAnswer
<1>3. AnswersFit
  BY <1>2 DEF AnswersFit, SameSlot, executorVars
<1>4. AnswersKept
  BY <1>2 DEF AnswersKept, SameAnswer
<1> QED BY <1>1, <1>3, <1>4

\* What the poller does with an answer, other than calling.
LEMMA PollerMoves ==
  ASSUME NEW r \in Records, NEW n \in Numbers, GroundInv,
         PollerTake(r, n) \/ PollerTimesOut(r, n) \/ PollerDies(r, n)
  PROVE  \E phase \in {"delivering", "done"} :
           /\ ReportBecomes(r, n, Moved(report[r][n], phase))
           /\ report[r][n].phase \in {"queued", "delivering", "calling"}
           /\ phase = "delivering" =>
                \/ report[r][n].phase = "queued"
                \/ "report" \in Faults /\ report[r][n].tries < MaxDeliverAttempts
  BY DEF GroundInv, TypeOK, PollerTake, PollerTimesOut, PollerDies, ReportBecomes, Moved

LEMMA PollerMovesGround ==
  ASSUME NEW r \in Records, NEW n \in Numbers, GroundInv,
         PollerTake(r, n) \/ PollerTimesOut(r, n) \/ PollerDies(r, n)
  PROVE  GroundInv'
<1>1. PICK x \in Reports : TypeOK /\ x = report[r][n]
  BY DEF GroundInv, TypeOK
<1>2. PICK phase \in {"delivering", "done"} :
        ReportBecomes(r, n, Moved(x, phase)) /\ x.phase # "none"
  BY <1>1, PollerMoves DEF ReportBecomes
<1>3. Moved(x, phase) \in Reports /\ Moved(x, phase).phase = phase
      /\ Moved(x, phase).outcome = x.outcome
  BY ReportStages
<1>4. UNCHANGED <<row, job, resume>> /\ UNCHANGED executorVars
  BY DEF PollerTake, PollerTimesOut, PollerDies, engineVars
<1>5. report' \in [Records -> [Numbers -> Reports]] /\ AnswersFit /\ AnswersKept
  BY <1>1, <1>2, <1>3, <1>4, ReportMoves
<1>6. TypeOK'
  BY <1>1, <1>5, ExecutorTypesStay
     DEF TypeOK, PollerTake, PollerTimesOut, PollerDies, worldVars, intakeVars, engineVars
<1> QED BY <1>4, <1>5, <1>6, Untouched, GroundKept

\* A call just made.
Calling(r, n, outcome, try) ==
  [IdleResume EXCEPT !.phase = "called", !.record = r, !.n = n, !.outcome = outcome,
                     !.try = try]

LEMMA CallingTypes ==
  ASSUME NEW r \in Records, NEW n \in Numbers, NEW outcome \in Answers,
         NEW try \in 0..MaxDeliverAttempts
  PROVE  /\ Calling(r, n, outcome, try) \in Resumes
         /\ Calling(r, n, outcome, try).phase = "called"
         /\ Calling(r, n, outcome, try).record = r /\ Calling(r, n, outcome, try).n = n
         /\ Calling(r, n, outcome, try).outcome = outcome
         /\ Calling(r, n, outcome, try).try = try
<1>1. n \in 0..MaxAttempts /\ IdleResume \in Resumes
  BY IdleTypes, AgentAssumption DEF Numbers
<1>2. Calling(r, n, outcome, try) \in Resumes
  BY <1>1 DEF Calling, Resumes
<1> QED BY <1>2 DEF Calling, IdleResume

LEMMA PollerCallDoes ==
  ASSUME GroundInv, NEW r \in Records, NEW n \in Numbers, NEW c \in Callers,
         PollerCall(r, n, c)
  PROVE  \E x \in Reports, outcome \in Answers, try \in 1..MaxDeliverAttempts :
           /\ x = report[r][n] /\ outcome = x.outcome /\ try = x.tries + 1
           /\ x.phase = "delivering" /\ x.tries < MaxDeliverAttempts
           /\ resume[c] = IdleResume
           /\ ReportBecomes(r, n, Sent(x))
           /\ ResumeBecomes(c, Calling(r, n, outcome, try))
<1>1. TypeOK /\ report[r][n] \in Reports /\ AnswerForm(r, n)
  BY DEF GroundInv, TypeOK
<1>2. /\ report[r][n].phase = "delivering" /\ report[r][n].tries < MaxDeliverAttempts
      /\ resume[c] = IdleResume
  BY DEF PollerCall
<1>3. PICK outcome \in Answers, try \in 1..MaxDeliverAttempts :
        outcome = report[r][n].outcome /\ try = report[r][n].tries + 1
  <2>1. report[r][n].outcome \in Answers
    BY <1>1, <1>2 DEF AnswerForm, Reports
  <2>2. report[r][n].tries \in 0..MaxDeliverAttempts
    BY <1>1 DEF Reports
  <2>3. report[r][n].tries + 1 \in 1..MaxDeliverAttempts
    BY <1>2, <2>2, AgentAssumption
  <2> QED BY <2>1, <2>3
<1>4. ReportBecomes(r, n, Sent(report[r][n]))
  BY <1>1 DEF PollerCall, ReportBecomes, Sent, TypeOK
<1>5. ResumeBecomes(c, Calling(r, n, outcome, try))
  BY <1>3 DEF PollerCall, ResumeBecomes, Calling
<1> QED BY <1>1, <1>2, <1>3, <1>4, <1>5

LEMMA OneResumeFits ==
  ASSUME NEW c \in Callers, OtherResumes(c), resume'[c] = IdleResume \/ ResumeForm(c)'
  PROVE  ResumesFit
  BY DEF OtherResumes, ResumesFit

LEMMA PollerCallGround ==
  ASSUME GroundInv, NEW r \in Records, NEW n \in Numbers, NEW c \in Callers,
         PollerCall(r, n, c)
  PROVE  GroundInv'
<1>1. PICK x \in Reports, outcome \in Answers, try \in 1..MaxDeliverAttempts :
           /\ x = report[r][n] /\ outcome = x.outcome /\ try = x.tries + 1
           /\ x.phase = "delivering" /\ x.tries < MaxDeliverAttempts
           /\ resume[c] = IdleResume
           /\ ReportBecomes(r, n, Sent(x))
           /\ ResumeBecomes(c, Calling(r, n, outcome, try))
  BY PollerCallDoes
<1>2. Sent(x) \in Reports /\ Sent(x).phase = "calling" /\ Sent(x).outcome = x.outcome
  BY <1>1, ReportStages
<1>3. PICK y \in Resumes : /\ y = Calling(r, n, outcome, try) /\ y.phase = "called"
                           /\ y.record = r /\ y.n = n /\ y.outcome = outcome
  BY CallingTypes
<1>4. UNCHANGED <<row, job>> /\ UNCHANGED executorVars
  BY DEF PollerCall, engineVars
<1>5. /\ report' \in [Records -> [Numbers -> Reports]] /\ AnswersFit /\ AnswersKept
      /\ report'[r][n] = Sent(x)
  BY <1>1, <1>2, <1>4, ReportMoves
<1>6. resume' \in [Callers -> Resumes] /\ resume'[c] = y /\ OtherResumes(c)
  BY <1>1, <1>3, ResumeBecomesDoes DEF GroundInv
<1>7. ResumeForm(c)'
  BY <1>1, <1>2, <1>3, <1>5, <1>6 DEF ResumeForm, Answers
<1>8. TypeOK'
  BY <1>5, <1>6, ExecutorTypesStay
     DEF GroundInv, TypeOK, PollerCall, worldVars, intakeVars, engineVars
<1> QED BY <1>4, <1>5, <1>6, <1>7, <1>8, OneResumeFits, Untouched, GroundKept

LEMMA LiveResume ==
  ASSUME GroundInv, NEW c \in Callers, resume[c].phase # "idle"
  PROVE  \E x \in Resumes, r \in Records, n \in Numbers, answer \in Answers :
           /\ TypeOK /\ ResumeForm(c) /\ x = resume[c]
           /\ r = x.record /\ n = x.n /\ answer = x.outcome /\ answer = report[r][n].outcome
<1>1. TypeOK /\ ResumeForm(c) /\ resume[c] \in Resumes
  BY DEF GroundInv, TypeOK
<1> QED BY <1>1 DEF ResumeForm, Resumes

\* The handler returns: the call is gone, and its caller may be done.
LEMMA RespondDoes ==
  ASSUME GroundInv, NEW c \in Callers, resume[c].phase # "idle", Respond(c),
         UNCHANGED executorVars
  PROVE  /\ resume' \in [Callers -> Resumes] /\ resume'[c] = IdleResume /\ OtherResumes(c)
         /\ ResumesFit
         /\ report' \in [Records -> [Numbers -> Reports]] /\ AnswersFit /\ AnswersKept
         /\ \A r \in Records, n \in Numbers :
              \/ report'[r][n] = report[r][n]
              \/ /\ r = resume[c].record /\ n = resume[c].n
                 /\ report'[r][n] = Moved(report[r][n], "done")
<1>1. PICK x \in Resumes, r \in Records, n \in Numbers :
        TypeOK /\ x = resume[c] /\ r = x.record /\ n = x.n
  BY LiveResume
<1>2. ResumeBecomes(c, IdleResume)
  BY DEF Respond, ResumeBecomes
<1>3. resume' \in [Callers -> Resumes] /\ resume'[c] = IdleResume /\ OtherResumes(c)
  BY <1>1, <1>2, IdleTypes, ResumeBecomesDoes
<1>4. CASE UNCHANGED report
  BY <1>1, <1>3, <1>4, Untouched, OneResumeFits DEF TypeOK
<1>5. CASE ~UNCHANGED report
  <2>1. PICK y \in Reports : y = report[r][n]
    BY <1>1 DEF TypeOK
  <2>2. ReportBecomes(r, n, Moved(y, "done")) /\ y.phase = "calling"
    BY <1>1, <1>5, <2>1 DEF Respond, ReportBecomes, Moved, TypeOK
  <2>3. Moved(y, "done") \in Reports /\ Moved(y, "done").phase = "done"
        /\ Moved(y, "done").outcome = y.outcome
    BY ReportStages
  <2>4. /\ report' \in [Records -> [Numbers -> Reports]] /\ OtherReports(r, n)
        /\ report'[r][n] = Moved(y, "done") /\ AnswersFit /\ AnswersKept
    BY <2>1, <2>2, <2>3, ReportMoves
  <2> QED BY <1>1, <1>3, <2>1, <2>4, OneResumeFits DEF OtherReports
<1> QED BY <1>4, <1>5

LEMMA ResumeDiscardGround ==
  ASSUME GroundInv, NEW c \in Callers, ResumeDiscard(c) PROVE GroundInv'
<1>1. /\ resume[c].phase # "idle" /\ Respond(c) /\ UNCHANGED executorVars
      /\ UNCHANGED <<row, job>>
  BY DEF ResumeDiscard, engineVars
<1>2. /\ resume' \in [Callers -> Resumes] /\ ResumesFit
      /\ report' \in [Records -> [Numbers -> Reports]] /\ AnswersFit /\ AnswersKept
  BY <1>1, RespondDoes
<1>3. TypeOK'
  BY <1>2, ExecutorTypesStay
     DEF GroundInv, TypeOK, ResumeDiscard, worldVars, intakeVars, engineVars
<1> QED BY <1>1, <1>2, <1>3, Untouched, GroundKept

LEMMA ResumeFailsGround ==
  ASSUME GroundInv, NEW c \in Callers, ResumeFails(c) PROVE GroundInv'
<1>1. ResumeBecomes(c, IdleResume) /\ UNCHANGED report
  BY DEF ResumeFails, ResumeBecomes
<1>2. resume' \in [Callers -> Resumes] /\ resume'[c] = IdleResume /\ OtherResumes(c)
  BY <1>1, IdleTypes, ResumeBecomesDoes DEF GroundInv
<1>3. TypeOK'
  BY <1>2, ExecutorTypesStay
     DEF GroundInv, TypeOK, ResumeFails, worldVars, intakeVars, engineVars
<1> QED BY <1>1, <1>2, <1>3, OneResumeFits, Untouched, GroundKept
     DEF ResumeFails, engineVars

Planned(x, plan) == [x EXCEPT !.phase = "planned", !.plan = plan]

LEMMA PlannedTypes ==
  ASSUME NEW x \in Resumes, NEW plan \in Plans
  PROVE  /\ Planned(x, plan) \in Resumes /\ Planned(x, plan).phase = "planned"
         /\ Planned(x, plan).record = x.record /\ Planned(x, plan).n = x.n
         /\ Planned(x, plan).outcome = x.outcome /\ Planned(x, plan).plan = plan
         /\ Planned(x, plan).try = x.try
<1>1. Planned(x, plan) \in Resumes
  BY DEF Planned, Resumes
<1> QED BY <1>1 DEF Planned, Resumes

Recovery == [NoPlan EXCEPT !.state = "RECOVERED"]

LEMMA ResumePlanDoes ==
  ASSUME GroundInv, NEW c \in Callers, ResumePlan(c)
  PROVE  \E x \in Resumes, r \in Records, n \in Numbers, plan \in Plans :
           /\ x = resume[c] /\ x.phase = "called" /\ r = x.record /\ n = x.n
           /\ Awaits(r, n) /\ ResumeBecomes(c, Planned(x, plan))
           /\ x.outcome = "SUCCESS" => plan = Recovery
           /\ x.outcome # "SUCCESS" => plan = Plan(r, row[r].bucket)
<1>1. resume[c].phase = "called"
  BY DEF ResumePlan
<1>2. PICK x \in Resumes, r \in Records, n \in Numbers :
        TypeOK /\ x = resume[c] /\ r = x.record /\ n = x.n
  BY <1>1, LiveResume
<1>3. PICK plan : plan = IF x.outcome = "SUCCESS" THEN Recovery
                         ELSE Plan(r, row[r].bucket)
  OBVIOUS
<1>4. plan \in Plans
  <2>1. Recovery \in Plans
    BY IdleTypes DEF Recovery, Plans, States, Terminal
  <2> QED BY <1>2, <1>3, <2>1, PlanIsScored
<1>5. ResumeBecomes(c, Planned(x, plan)) /\ Awaits(r, n)
  BY <1>2, <1>3 DEF ResumePlan, ResumeBecomes, Planned, Recovery, TypeOK, Awaits
<1> QED BY <1>1, <1>2, <1>3, <1>4, <1>5

LEMMA ResumePlanGround ==
  ASSUME GroundInv, NEW c \in Callers, ResumePlan(c) PROVE GroundInv'
<1>1. PICK x \in Resumes, r \in Records, n \in Numbers, plan \in Plans :
           /\ x = resume[c] /\ x.phase = "called" /\ r = x.record /\ n = x.n
           /\ Awaits(r, n) /\ ResumeBecomes(c, Planned(x, plan))
           /\ x.outcome = "SUCCESS" => plan = Recovery
           /\ x.outcome # "SUCCESS" => plan = Plan(r, row[r].bucket)
  BY ResumePlanDoes
<1>2. TypeOK /\ ResumeForm(c)
  BY DEF GroundInv
<1>3. PICK y \in Resumes :
        /\ y = Planned(x, plan) /\ y.phase = "planned" /\ y.record = r /\ y.n = n
        /\ y.outcome = x.outcome /\ y.plan = plan
  BY <1>1, PlannedTypes
<1>4. resume' \in [Callers -> Resumes] /\ resume'[c] = y /\ OtherResumes(c)
  BY <1>1, <1>2, <1>3, ResumeBecomesDoes
<1>5. UNCHANGED <<row, job, report>> /\ UNCHANGED executorVars
  BY DEF ResumePlan, engineVars
<1>6. x.outcome # "SUCCESS" => PlanForm(plan)
  BY <1>1, <1>2, PlanIsScored DEF PlanForm, Scheduled
<1>7. x.outcome = "SUCCESS" => plan.state = "RECOVERED"
  BY <1>1 DEF Recovery, NoPlan
<1>8. ResumeForm(c)'
  BY <1>1, <1>2, <1>3, <1>4, <1>5, <1>6, <1>7 DEF ResumeForm, PlanForm, Scheduled
<1>9. TypeOK'
  BY <1>2, <1>4, <1>5, ExecutorTypesStay
     DEF TypeOK, ResumePlan, worldVars, intakeVars, engineVars
<1> QED BY <1>4, <1>5, <1>8, <1>9, OneResumeFits, Untouched, GroundKept

\* A planned answer that is still awaited is written; any other is dropped.
LEMMA ResumeApplyDoes ==
  ASSUME GroundInv, NEW c \in Callers, ResumeApply(c)
  PROVE  \E x \in Resumes, r \in Records, n \in Numbers, plan \in Plans :
           /\ x = resume[c] /\ x.phase = "planned" /\ r = x.record /\ n = x.n
           /\ plan = x.plan /\ Respond(c)
           /\ \/ ~Awaits(r, n) /\ UNCHANGED <<row, trail>>
              \/ /\ Awaits(r, n) /\ OtherRows(r)
                 /\ row' \in [Records -> Rows] /\ trail' \in [Records -> Seq(Edges)]
                 /\ row'[r].state = plan.state /\ row'[r].attempts = n
                 /\ row'[r].action = plan.action
                 /\ x.outcome = "SUCCESS" =>
                      trail'[r] = trail[r] \o <<Edge("NUDGED", "RECOVERED")>>
                 /\ x.outcome # "SUCCESS" =>
                      trail'[r] = trail[r] \o RescoringPath("NUDGED", plan)
<1>1. resume[c].phase = "planned" /\ Respond(c)
  BY DEF ResumeApply
<1>2. PICK x \in Resumes, r \in Records, n \in Numbers :
        TypeOK /\ x = resume[c] /\ r = x.record /\ n = x.n
  BY <1>1, LiveResume
<1>0. PICK edges : edges = ResumePath(c)
  OBVIOUS
<1>3. PICK plan \in Plans, old \in Rows : plan = x.plan /\ old = row[r] /\ edges = ResumePath(c)
  BY <1>0, <1>2 DEF TypeOK, Resumes
<1>4. CASE ~Awaits(r, n)
  BY <1>1, <1>2, <1>3, <1>4 DEF ResumeApply, Awaits
<1>5. CASE Awaits(r, n)
  <2>1. WriteRow(r, Rescored(old, plan, n), edges)
    BY <1>2, <1>3, <1>5 DEF ResumeApply, WriteRow, Awaits
  <2>2. n \in 0..MaxAttempts
    BY AgentAssumption DEF Numbers
  <2>3. PICK new \in Rows : new = Rescored(old, plan, n) /\ new.state = plan.state
                            /\ new.action = plan.action /\ new.attempts = n
    BY <2>2, RescoredDoes
  <2>4. /\ x.outcome = "SUCCESS" => edges = <<Edge("NUDGED", "RECOVERED")>>
        /\ x.outcome # "SUCCESS" => edges = RescoringPath("NUDGED", plan)
    BY <1>2, <1>3 DEF ResumePath
  <2>5. edges \in Seq(Edges)
    <3>1. "NUDGED" \in States /\ "RECOVERED" \in States
      BY DEF States, Claimed, Terminal
    <3>2. RescoringPath("NUDGED", plan) \in Seq(Edges)
      BY <3>1, PathTypes
    <3>3. <<Edge("NUDGED", "RECOVERED")>> \in Seq(Edges)
      BY <3>1 DEF Edge, Edges
    <3> QED BY <2>4, <3>2, <3>3
  <2>6. /\ row' \in [Records -> Rows] /\ trail' \in [Records -> Seq(Edges)]
        /\ row'[r] = new /\ trail'[r] = trail[r] \o edges /\ OtherRows(r)
    BY <1>2, <2>1, <2>3, <2>5, WriteRowDoes
  <2> QED BY <1>1, <1>2, <1>3, <1>5, <2>3, <2>4, <2>6
<1> QED BY <1>4, <1>5

LEMMA ResumeApplyGround ==
  ASSUME GroundInv, NEW c \in Callers, ResumeApply(c) PROVE GroundInv'
<1>1. PICK x \in Resumes, r \in Records, n \in Numbers, plan \in Plans :
           /\ x = resume[c] /\ x.phase = "planned" /\ r = x.record /\ n = x.n
           /\ plan = x.plan /\ Respond(c)
           /\ \/ ~Awaits(r, n) /\ UNCHANGED <<row, trail>>
              \/ /\ Awaits(r, n) /\ OtherRows(r)
                 /\ row' \in [Records -> Rows] /\ trail' \in [Records -> Seq(Edges)]
                 /\ row'[r].state = plan.state /\ row'[r].attempts = n
                 /\ row'[r].action = plan.action
                 /\ x.outcome = "SUCCESS" =>
                      trail'[r] = trail[r] \o <<Edge("NUDGED", "RECOVERED")>>
                 /\ x.outcome # "SUCCESS" =>
                      trail'[r] = trail[r] \o RescoringPath("NUDGED", plan)
  BY ResumeApplyDoes
<1>2. UNCHANGED executorVars /\ UNCHANGED job
  BY DEF ResumeApply
<1>3. /\ resume' \in [Callers -> Resumes] /\ ResumesFit
      /\ report' \in [Records -> [Numbers -> Reports]] /\ AnswersFit /\ AnswersKept
  BY <1>1, <1>2, RespondDoes
<1>4. TypeOK /\ ResumeForm(c) /\ RowForm(r) /\ AnswerForm(r, n)
  BY DEF GroundInv
<1>5. TypeOK'
  BY <1>1, <1>2, <1>3, <1>4, ExecutorTypesStay
     DEF TypeOK, ResumeApply, worldVars, intakeVars
<1>6. RowsFit
  <2>1. CASE UNCHANGED row
    BY <2>1, Untouched
  <2>2. CASE Awaits(r, n) /\ OtherRows(r)
    <3>1. EX!Resolved(r, n)
      BY <1>4, <2>2, AgentAssumption DEF Awaits, RowForm, Scheduled, Numbers
    <3>2. CASE x.outcome = "SUCCESS"
      <4>1. row'[r].state = "RECOVERED" /\ row'[r].attempts = n
        BY <1>1, <1>4, <2>2, <3>2 DEF ResumeForm
      <4>2. report[r][n].outcome = "SUCCESS"
        BY <1>1, <1>4, <3>2 DEF ResumeForm
      <4>3. slot[r][n].outcome = "PENDING"
        BY <1>4, <3>1, <4>2 DEF AnswerForm, EX!Resolved, EX!Outcomes, EX!ClaimMarker
      <4>4. Earned(r)'
        BY <1>2, <1>3, <4>2, <4>3 DEF Earned, AnswersKept, executorVars
      <4>5. RowForm(r)'
        BY <1>2, <3>1, <4>1 DEF RowForm, Scheduled, Waiting, EX!Resolved, executorVars
      <4> QED BY <2>2, <4>4, <4>5 DEF RowsFit, OtherRows
    <3>3. CASE x.outcome # "SUCCESS"
      <4>1. PlanForm(plan) /\ row'[r].state = plan.state /\ row'[r].attempts = n
            /\ row'[r].action = plan.action
        BY <1>1, <1>4, <2>2, <3>3 DEF ResumeForm
      <4>2. RowForm(r)' /\ row'[r].state # "RECOVERED"
        BY <1>2, <3>1, <4>1
           DEF RowForm, Scheduled, PlanForm, Routed, Waiting, EX!Resolved, executorVars
      <4> QED BY <2>2, <4>2 DEF RowsFit, OtherRows
    <3> QED BY <3>2, <3>3
  <2> QED BY <1>1, <2>1, <2>2
<1> QED BY <1>2, <1>3, <1>5, <1>6, Untouched, GroundKept

-----------------------------------------------------------------------------
LEMMA InitGround == ASSUME Init PROVE GroundInv
<1>1. /\ slot = [r \in Records |-> [n \in Numbers |-> EX!EmptySlot]]
      /\ handler = [r \in Records |-> [n \in Numbers |-> "none"]]
      /\ effects = [r \in Records |-> [n \in Numbers |-> 0]]
      /\ answered = [r \in Records |-> [n \in Numbers |-> {}]]
  BY DEF Init, EX!ExecutorInit, EX!Numbers, Numbers
<1>2. EX!ExecutorTypeOK
  <2>1. EX!EmptySlot \in EX!Slots
    BY AgentAssumption DEF EX!EmptySlot, EX!Slots
  <2> QED BY <1>1, <2>1 DEF EX!ExecutorTypeOK, EX!Numbers, Numbers
<1>3. TypeOK
  <2>1. now \in 0..MaxTime /\ crashes \in 0..MaxCrashes
    BY AgentAssumption DEF Init
  <2>2. row \in [Records -> Rows] /\ job \in [Pods -> [Records -> Jobs]]
    BY IdleTypes DEF Init
  <2>3. report \in [Records -> [Numbers -> Reports]] /\ resume \in [Callers -> Resumes]
    BY IdleTypes DEF Init
  <2>4. trail \in [Records -> Seq(Edges)]
    BY DEF Init
  <2> QED BY <1>2, <2>1, <2>2, <2>3, <2>4 DEF Init, TypeOK
<1>4. ASSUME NEW r \in Records PROVE RowForm(r) /\ row[r].state # "RECOVERED"
  BY DEF Init, RowForm, Scheduled, NewRow, Waiting
<1>5. ASSUME NEW r \in Records, NEW n \in Numbers PROVE SlotForm(r, n) /\ AnswerForm(r, n)
  <2>1. slot[r][n].outcome = "no row" /\ slot[r][n].action = "UNSPECIFIED"
        /\ handler[r][n] = "none"
    BY <1>1 DEF EX!EmptySlot, EX!NoRow
  <2>2. report[r][n].phase = "none" /\ report[r][n].outcome = "none"
    BY DEF Init, NoReport
  <2> QED BY <2>1, <2>2 DEF SlotForm, AnswerForm, EX!Exists, EX!NoRow, SpendingActions, Nudges
<1>6. ASSUME NEW p \in Pods, NEW r \in Records PROVE JobForm(p, r)
  BY DEF Init, JobForm, IdleJob
<1>7. ASSUME NEW c \in Callers PROVE ResumeForm(c)
  BY DEF Init, ResumeForm, IdleResume
<1> QED BY <1>3, <1>4, <1>5, <1>6, <1>7 DEF GroundInv

\* The steps of the agent, each on the record, pod or call it is for.
PodActs(p, r) ==
  \/ HandleStart(p, r) \/ HandleSchedule(p, r) \/ HandleConflict(p, r)
  \/ HandleDeadLetter(p, r)
  \/ CallExecute(p, r) \/ CallAnswered(p, r) \/ CallFails(p, r)
  \/ RecordResult(p, r) \/ Rescore(p, r) \/ RecordRescore(p, r) \/ ResultLost(p, r)
AttemptActs(r, n) ==
  \/ PortActs(r, n) \/ PortFails(r, n) \/ OutcomeSaved(r, n)
  \/ PollerTake(r, n) \/ PollerTimesOut(r, n) \/ PollerDies(r, n)
  \/ \E c \in Callers : PollerCall(r, n, c)
CallActs(c) == ResumeDiscard(c) \/ ResumePlan(c) \/ ResumeApply(c) \/ ResumeFails(c)

LEMMA StepSplit ==
  ASSUME Next
  PROVE  \/ Tick \/ DowntimeEvent
         \/ \E r \in Records : Redeliver(r)
         \/ \E p \in Pods : ClaimDue(p) \/ Crash(p)
         \/ \E p \in Pods, r \in Records : PodActs(p, r)
         \/ \E r \in Records, n \in Numbers : AttemptActs(r, n)
         \/ \E c \in Callers : CallActs(c)
  BY DEF Next, PodStep, ExecutorStep, PollerStep, ResumeStep, FaultStep, PodActs,
         AttemptActs, CallActs

LEMMA CrashGround == ASSUME GroundInv, NEW p \in Pods, Crash(p) PROVE GroundInv'
<1>1. crashes' \in 0..MaxCrashes /\ PodExit(p)
  BY AgentAssumption DEF GroundInv, TypeOK, Crash
<1> QED BY <1>1, PodExitGround

LEMMA HandleConflictGround ==
  ASSUME GroundInv, NEW p \in Pods, NEW r \in Records, HandleConflict(p, r)
  PROVE  GroundInv'
<1>1. crashes' \in 0..MaxCrashes /\ PodExit(p)
  BY DEF GroundInv, TypeOK, HandleConflict
<1> QED BY <1>1, PodExitGround

LEMMA StutterGround == ASSUME GroundInv, UNCHANGED vars PROVE GroundInv'
<1>1. TypeOK'
  BY ExecutorTypesStay
     DEF GroundInv, TypeOK, vars, worldVars, intakeVars, engineVars, reportVars
<1> QED BY <1>1, QuietGround DEF vars, engineVars

LEMMA GroundInvariance == Spec => []GroundInv
<1>1. Init => GroundInv
  BY InitGround
<1>2. GroundInv /\ [Next]_vars => GroundInv'
  <2> SUFFICES ASSUME GroundInv, [Next]_vars PROVE GroundInv'
    OBVIOUS
  <2>1. CASE UNCHANGED vars
    BY <2>1, StutterGround
  <2>2. CASE Tick \/ DowntimeEvent \/ \E r \in Records : Redeliver(r)
    BY <2>2, TickGround, DowntimeGround, RedeliverGround
  <2>3. CASE \E p \in Pods : ClaimDue(p) \/ Crash(p)
    BY <2>3, ClaimDueGround, CrashGround
  <2>4. CASE \E p \in Pods, r \in Records : PodActs(p, r)
    BY <2>4, HandleStartGround, HandleScheduleGround, HandleConflictGround,
       HandleDeadLetterGround, CallExecuteGround, CallAnsweredGround, CallFailsGround,
       RecordResultGround, RescoreGround, RecordRescoreGround, ResultLostGround
       DEF PodActs
  <2>5. CASE \E r \in Records, n \in Numbers : AttemptActs(r, n)
    BY <2>5, PortActsGround, PortFailsGround, OutcomeSavedGround, PollerMovesGround,
       PollerCallGround DEF AttemptActs
  <2>6. CASE \E c \in Callers : CallActs(c)
    BY <2>6, ResumeDiscardGround, ResumePlanGround, ResumeApplyGround, ResumeFailsGround
       DEF CallActs
  <2> QED BY <2>1, <2>2, <2>3, <2>4, <2>5, <2>6, StepSplit
<1> QED BY <1>1, <1>2, PTL DEF Spec

\* Everything the agent keeps in its tables, its queues and its pods' memories is
\* well formed, whatever fails and whoever crashes.
THEOREM AgentTypes == Spec => []TypeOK
<1>1. GroundInv => TypeOK
  BY DEF GroundInv
<1> QED BY <1>1, GroundInvariance, PTL

\* A record is called recovered only when an attempt on it brought the money in, at
\* once or by an answer the customer gave to a nudge that was recorded as sent.
THEOREM OnlyRealRecoveries == Spec => []RecoveredIsReal
<1>1. GroundInv => RecoveredIsReal
  BY DEF GroundInv, Earned, RecoveredIsReal
<1> QED BY <1>1, GroundInvariance, PTL

-----------------------------------------------------------------------------
(***************************************************************************)
(* The Executor inside the agent is the Executor: its theorems hold here.  *)
(***************************************************************************)
LEMMA ExecutorStepIsExecutors ==
  ASSUME GroundInv, [Next]_vars
  PROVE  [EX!ExecutorNext]_executorVars
<1> USE DEF EX!executorVars, executorVars
<1>1. CASE UNCHANGED vars
  BY <1>1 DEF vars
<1>2. CASE Tick \/ DowntimeEvent \/ \E r \in Records : Redeliver(r)
  BY <1>2 DEF Tick, DowntimeEvent, Redeliver
<1>3. CASE \E p \in Pods : ClaimDue(p) \/ Crash(p)
  BY <1>3 DEF ClaimDue, Crash, PodExit
<1>4. ASSUME NEW p \in Pods, NEW r \in Records, PodActs(p, r)
      PROVE  [EX!ExecutorNext]_executorVars
  <2>1. CASE CallExecute(p, r)
    <3>1. job[p][r].phase # "idle"
      BY <2>1 DEF CallExecute
    <3>2. /\ job[p][r].n \in EX!Numbers /\ job[p][r].action \in SpendingActions
          /\ now \in 0..MaxTime
      BY <3>1, LiveJob DEF TypeOK, EX!Numbers, Numbers
    <3> QED BY <2>1, <3>2 DEF CallExecute, EX!ExecutorNext
  <2>2. CASE CallAnswered(p, r)
    <3>1. job[p][r].phase # "idle"
      BY <2>2 DEF CallAnswered
    <3>2. job[p][r].n \in EX!Numbers
      BY <3>1, LiveJob DEF EX!Numbers, Numbers
    <3> QED BY <2>2, <3>2 DEF CallAnswered, EX!ExecutorNext
  <2>3. CASE ~CallExecute(p, r) /\ ~CallAnswered(p, r)
    <3>1. UNCHANGED executorVars
      BY <1>4, <2>3 DEF PodActs, HandleStart, HandleSchedule, HandleConflict, PodExit,
         HandleDeadLetter, CallFails, RecordResult, Rescore, RecordRescore, ResultLost
    <3> QED BY <3>1
  <2> QED BY <2>1, <2>2, <2>3
<1>5. ASSUME NEW r \in Records, NEW n \in Numbers, AttemptActs(r, n)
      PROVE  [EX!ExecutorNext]_executorVars
  <2>1. n \in EX!Numbers
    BY DEF EX!Numbers, Numbers
  <2>2. CASE PortActs(r, n)
    <3>1. PICK o \in EX!Outcomes : EX!Perform(r, n, o)
      BY <2>2 DEF PortActs, Answers, EX!Outcomes
    <3> QED BY <2>1, <3>1 DEF EX!ExecutorNext
  <2>3. CASE PortFails(r, n) \/ OutcomeSaved(r, n)
    BY <2>1, <2>3 DEF PortFails, OutcomeSaved, EX!ExecutorNext
  <2>4. CASE ~PortActs(r, n) /\ ~PortFails(r, n) /\ ~OutcomeSaved(r, n)
    BY <1>5, <2>4 DEF AttemptActs, PollerTake, PollerTimesOut, PollerDies, PollerCall
  <2> QED BY <2>2, <2>3, <2>4
<1>6. ASSUME NEW c \in Callers, CallActs(c)
      PROVE  [EX!ExecutorNext]_executorVars
  BY <1>6 DEF CallActs, ResumeDiscard, ResumePlan, ResumeApply, ResumeFails
<1> QED BY <1>1, <1>2, <1>3, <1>4, <1>5, <1>6, StepSplit

\* Whatever the engine, its retries and its crashes do, they use the Executor only as
\* its own specification allows.
THEOREM AgentRunsExecutor == Spec => EX!ExecutorSpec
<1>1. Init => EX!ExecutorInit
  BY DEF Init
<1>2. GroundInv /\ [Next]_vars => [EX!ExecutorNext]_EX!executorVars
  BY ExecutorStepIsExecutors DEF EX!executorVars, executorVars
<1> QED BY <1>1, <1>2, GroundInvariance, PTL DEF Spec, EX!ExecutorSpec

LEMMA ExecutorInvariance == Spec => []EP!ExecutorInv
<1>1. EX!ExecutorInit => EP!ExecutorInit
  BY DEF EX!ExecutorInit, EP!ExecutorInit, EX!Numbers, EP!Numbers,
         EX!EmptySlot, EP!EmptySlot, EX!NoRow, EP!NoRow
<1>2. [EX!ExecutorNext]_EX!executorVars => [EP!ExecutorNext]_EP!executorVars
  BY DEF EX!ExecutorNext, EP!ExecutorNext, EX!executorVars, EP!executorVars,
         EX!Numbers, EP!Numbers, EX!Outcomes, EP!Outcomes, EX!ClaimSlot, EP!ClaimSlot,
         EX!Perform, EP!Perform, EX!PerformFails, EP!PerformFails,
         EX!RecordOutcome, EP!RecordOutcome, EX!RecordOutcomeFails, EP!RecordOutcomeFails,
         EX!Replay, EP!Replay, EX!Exists, EP!Exists, EX!Resolved, EP!Resolved,
         EX!ClaimMarker, EP!ClaimMarker, EX!NoRow, EP!NoRow
<1>3. EP!ExecutorSpec => []EP!ExecutorInv
  BY EP!Invariance, AgentAssumption DEF EP!ExecutorAssumption
<1> QED BY <1>1, <1>2, <1>3, AgentRunsExecutor, PTL DEF EX!ExecutorSpec, EP!ExecutorSpec

\* However often the engine tries an attempt, and through whatever crash it forgets
\* that it did, the attempt reaches the customer or the bank at most once.
THEOREM AttemptsActOnce == Spec => []EX!AtMostOneEffect
<1>1. EP!ExecutorInv => EX!AtMostOneEffect
  BY DEF EP!ExecutorInv, EP!ExecutorTypeOK, EP!SlotInv, EP!InOrder, EX!AtMostOneEffect,
         EP!Numbers, EX!Numbers
<1> QED BY <1>1, ExecutorInvariance, PTL

-----------------------------------------------------------------------------
(***************************************************************************)
(* Spending: what the guardrails still allow, and what a step may change   *)
(* about it.                                                               *)
(***************************************************************************)
\* The guardrails would still let the action through, now and at any later time.
Affordable(r, action) ==
  IF action = "RETRY" THEN Cardinality(Retries(r)) < MaxRetries
  ELSE /\ Cardinality(Contacts(r)) < MaxContacts
       /\ \A m \in Contacts(r) : now - slot[r][m].at >= ContactCooldown

\* The caps and the cooldown hold, and the latest contact is known.
SpendingFits(r) ==
  /\ Cardinality(Retries(r)) <= MaxRetries /\ Cardinality(Contacts(r)) <= MaxContacts
  /\ \A n \in Numbers : slot[r][n].at <= now
  /\ Contacts(r) # {} =>
       \E m \in Contacts(r) : \A n \in Contacts(r) : slot[r][n].at <= slot[r][m].at
  /\ \A m, n \in Contacts(r) : m < n => slot[r][n].at - slot[r][m].at >= ContactCooldown

SpendingKept(r) ==
  \A n \in Numbers :
    /\ slot'[r][n].action = slot[r][n].action /\ slot'[r][n].at = slot[r][n].at
    /\ EX!Exists(r, n)' <=> EX!Exists(r, n)
    /\ slot'[r][n] = slot[r][n] \/ ~EX!Resolved(r, n)

ClockMoves == now' \in 0..MaxTime /\ now' >= now

LEMMA Times ==
  ASSUME TypeOK, NEW r \in Records, NEW n \in Numbers
  PROVE  now \in 0..MaxTime /\ slot[r][n].at \in 0..MaxTime /\ slot[r][n] \in EX!Slots
  BY SlotTypes DEF TypeOK, EX!Slots

LEMMA SpendingStays ==
  ASSUME TypeOK, NEW r \in Records, SpendingKept(r), ClockMoves
  PROVE  /\ Contacts(r)' = Contacts(r) /\ Retries(r)' = Retries(r)
         /\ \A a \in SpendingActions : Affordable(r, a) => Affordable(r, a)'
         /\ SpendingFits(r) => SpendingFits(r)'
<1>1. Contacts(r)' = Contacts(r) /\ Retries(r)' = Retries(r)
  BY DEF SpendingKept, Contacts, Retries
<1>2. \A n \in Numbers : /\ slot'[r][n].at = slot[r][n].at /\ slot[r][n].at \in Int
                         /\ now \in Int /\ now' \in Int /\ now' >= now
  BY Times, AgentAssumption DEF SpendingKept, ClockMoves
<1>3. Contacts(r) \subseteq Numbers
  BY DEF Contacts
<1>4. ASSUME NEW a \in SpendingActions, Affordable(r, a) PROVE Affordable(r, a)'
  BY <1>1, <1>2, <1>3, <1>4, PolicyAssumption DEF Affordable
<1>5. ASSUME SpendingFits(r) PROVE SpendingFits(r)'
  <2>1. \A n \in Numbers : slot'[r][n].at <= now'
    BY <1>2, <1>5 DEF SpendingFits
  <2> QED BY <1>1, <1>2, <1>3, <1>5, <2>1 DEF SpendingFits
<1> QED BY <1>1, <1>4, <1>5

LEMMA ClockStands == ASSUME GroundInv, UNCHANGED now PROVE ClockMoves
  BY AgentAssumption DEF GroundInv, TypeOK, ClockMoves

LEMMA SpentFinite ==
  ASSUME NEW r \in Records
  PROVE  /\ IsFiniteSet(Retries(r)) /\ IsFiniteSet(Contacts(r))
         /\ Cardinality(Retries(r)) \in Nat /\ Cardinality(Contacts(r)) \in Nat
<1>1. IsFiniteSet(Numbers)
  BY AgentAssumption, FS_Interval DEF Numbers
<1>2. Retries(r) \subseteq Numbers /\ Contacts(r) \subseteq Numbers
  BY DEF Retries, Contacts
<1> QED BY <1>1, <1>2, FS_Subset, FS_CardinalityType

LEMMA LatestContact ==
  ASSUME TypeOK, NEW r \in Records, SpendingFits(r), Contacts(r) # {}
  PROVE  /\ History(r).lastContact \in Nat
         /\ \A m \in Contacts(r) : slot[r][m].at <= History(r).lastContact
<1> DEFINE times == {slot[r][n].at : n \in Contacts(r)}
<1>1. \A n \in Contacts(r) : n \in Numbers /\ slot[r][n].at \in Nat
  BY Times, AgentAssumption DEF Contacts
<1>2. \E x \in times : \A y \in times : x >= y
  BY <1>1 DEF SpendingFits
<1>3. Max(times) \in times /\ \A y \in times : Max(times) >= y
  BY <1>2 DEF Max
<1>4. History(r).lastContact = Max(times)
  BY DEF History
<1> QED BY <1>1, <1>3, <1>4

LEMMA UnblockedIsAffordable ==
  ASSUME TypeOK, NEW r \in Records, SpendingFits(r), NEW a \in SpendingActions,
         a \notin Blocked(History(r), now)
  PROVE  Affordable(r, a)
<1>1. /\ History(r).retries = Cardinality(Retries(r))
      /\ History(r).contacts = Cardinality(Contacts(r))
  BY DEF History
<1>2. Cardinality(Retries(r)) \in Nat /\ Cardinality(Contacts(r)) \in Nat
  BY SpentFinite
<1>3. CASE a = "RETRY"
  BY <1>1, <1>2, <1>3, PolicyAssumption DEF Blocked, RetryBudgetSpent, Affordable
<1>4. CASE a # "RETRY"
  <2>1. a \in Nudges /\ ~ContactBlocked(History(r), now)
    BY <1>4 DEF Blocked, SpendingActions
  <2>2. Cardinality(Contacts(r)) < MaxContacts
    BY <1>1, <1>2, <2>1, PolicyAssumption DEF ContactBlocked
  <2>3. ASSUME NEW m \in Contacts(r) PROVE now - slot[r][m].at >= ContactCooldown
    <3>1. History(r).lastContact \in Nat /\ slot[r][m].at <= History(r).lastContact
      BY LatestContact
    <3>2. m \in Numbers
      BY DEF Contacts
    <3>3. now \in Nat /\ slot[r][m].at \in Nat
      BY <3>2, Times, AgentAssumption
    <3>4. now - History(r).lastContact >= ContactCooldown
      BY <2>1, <3>1, <3>3, PolicyAssumption DEF ContactBlocked, Null
    <3> QED BY <3>1, <3>3, <3>4, PolicyAssumption
  <2> QED BY <1>4, <2>2, <2>3 DEF Affordable
<1> QED BY <1>3, <1>4

\* Spending what may be spent keeps to the caps and the cooldown.
LEMMA SpendOne ==
  ASSUME TypeOK, NEW r \in Records, NEW n \in Numbers, NEW a \in SpendingActions,
         SpendingFits(r), Affordable(r, a), ~EX!Exists(r, n),
         \A m \in Numbers : EX!Exists(r, m) <=> slot[r][m].action \in SpendingActions,
         \A m \in Numbers : EX!Exists(r, m) => m < n, now' = now,
         slot'[r][n] = Marked(a, now),
         \A m \in Numbers \ {n} : slot'[r][m] = slot[r][m]
  PROVE  SpendingFits(r)'
<1>1. /\ \A m \in Numbers : slot[r][m].at \in Nat
      /\ now \in Nat /\ slot'[r][n].at = now /\ slot'[r][n].action = a
  BY Times, AgentAssumption DEF Marked
<1>2. slot[r][n].action \notin SpendingActions
  OBVIOUS
<1>3. n \in Nat
  BY AgentAssumption DEF Numbers
<1>4. \A m \in Contacts(r) : m \in Numbers /\ m \in Nat /\ m < n
  BY AgentAssumption DEF Contacts, SpendingActions, Numbers
<1>5. \A m \in Numbers : slot'[r][m].at <= now'
  BY <1>1 DEF SpendingFits
<1>6. CASE a = "RETRY"
  <2>1. Retries(r)' = Retries(r) \union {n} /\ n \notin Retries(r)
    BY <1>1, <1>2, <1>6 DEF Retries, SpendingActions
  <2>2. Contacts(r)' = Contacts(r) /\ n \notin Contacts(r)
    BY <1>1, <1>2, <1>6 DEF Contacts, SpendingActions, Nudges
  <2>3. Cardinality(Retries(r)') = Cardinality(Retries(r)) + 1
    BY <2>1, SpentFinite, FS_AddElement
  <2>4. Cardinality(Retries(r))' <= MaxRetries
    BY <1>6, <2>3, SpentFinite, PolicyAssumption DEF Affordable
  <2>5. \A m \in Contacts(r) : slot'[r][m] = slot[r][m]
    BY <1>4
  <2> QED BY <1>5, <2>2, <2>4, <2>5 DEF SpendingFits
<1>7. CASE a # "RETRY"
  <2>1. Retries(r)' = Retries(r)
    BY <1>1, <1>2, <1>7 DEF Retries, SpendingActions
  <2>2. Contacts(r)' = Contacts(r) \union {n} /\ n \notin Contacts(r)
    BY <1>1, <1>2, <1>7 DEF Contacts, SpendingActions
  <2>3. Cardinality(Contacts(r)') = Cardinality(Contacts(r)) + 1
    BY <2>2, SpentFinite, FS_AddElement
  <2>4. Cardinality(Contacts(r))' <= MaxContacts
    BY <1>7, <2>3, SpentFinite, PolicyAssumption DEF Affordable
  <2>5. \A m \in Contacts(r) : slot'[r][m] = slot[r][m]
    BY <1>4
  <2>6. \A m \in Contacts(r)' : slot'[r][m].at <= slot'[r][n].at
    <3>1. \A m \in Contacts(r) : slot[r][m].at <= now
      BY <1>4 DEF SpendingFits
    <3> QED BY <1>1, <2>2, <2>5, <3>1
  <2>7. \A m, k \in Contacts(r)' : m < k => slot'[r][k].at - slot'[r][m].at >= ContactCooldown
    <3> SUFFICES ASSUME NEW m \in Contacts(r)', NEW k \in Contacts(r)', m < k
                 PROVE slot'[r][k].at - slot'[r][m].at >= ContactCooldown
      OBVIOUS
    <3>1. m \in Contacts(r)
      BY <1>3, <1>4, <2>2
    <3>2. CASE k = n
      BY <1>1, <1>7, <2>5, <3>1, <3>2 DEF Affordable
    <3>3. CASE k # n
      BY <2>2, <2>5, <3>1, <3>3 DEF SpendingFits
    <3> QED BY <3>2, <3>3
  <2> QED BY <1>5, <2>1, <2>2, <2>4, <2>6, <2>7 DEF SpendingFits
<1> QED BY <1>6, <1>7

-----------------------------------------------------------------------------
(***************************************************************************)
(* What is planned may be spent, whoever plans it: a row that waits, a pod *)
(* at work, or an answer being applied that came too late.                 *)
(***************************************************************************)
Settled(r, n) == \A m \in Numbers : m <= n => EX!Resolved(r, m)

\* Attempts are started in order, each when those before it have ended.
InOrder(r) == \A n \in Numbers : EX!Exists(r, n) => Settled(r, n - 1)

\* The action is the attempt's already, or may become it.
MaySpend(r, n, action) ==
  /\ Settled(r, n - 1)
  /\ n \in Numbers /\ ~EX!Exists(r, n) => Affordable(r, action)

\* A row or a plan written after attempt n.
MayFollow(r, n, plan) ==
  /\ Settled(r, n)
  /\ plan.state \in Waiting => MaySpend(r, n + 1, plan.action)

JobMay(r, j) == j.phase # "idle" =>
  /\ MaySpend(r, j.n, j.action)
  /\ j.phase = "rescoring" => MayFollow(r, j.n, j.plan)

CallMay(call) == call.phase = "planned" /\ call.outcome # "SUCCESS" =>
  MayFollow(call.record, call.n, call.plan)

SpendingInv ==
  /\ GroundInv
  /\ \A r \in Records :
       /\ SpendingFits(r) /\ InOrder(r) /\ MayFollow(r, row[r].attempts, row[r])
       /\ \A p \in Pods : JobMay(r, job[p][r])
  /\ \A c \in Callers : CallMay(resume[c])

\* What a step may do to the slots: nothing that was settled or affordable before,
\* and is still to be spent, stops being so.
SpendingMoves(r) ==
  /\ SpendingFits(r)' /\ InOrder(r)'
  /\ \A k \in Int : Settled(r, k) => Settled(r, k)'
  /\ \A k \in Int, a \in SpendingActions : MaySpend(r, k, a) => MaySpend(r, k, a)'

LEMMA MovesKept ==
  ASSUME TypeOK, NEW r \in Records, SpendingFits(r), InOrder(r), SpendingKept(r), ClockMoves
  PROVE  SpendingMoves(r)
<1>1. \A m \in Numbers : EX!Resolved(r, m) => EX!Resolved(r, m)'
  BY DEF SpendingKept, EX!Resolved
<1>2. \A k \in Int : Settled(r, k) => Settled(r, k)'
  BY <1>1 DEF Settled
<1>3. \A n \in Numbers : n \in Int /\ n - 1 \in Int
  BY AgentAssumption DEF Numbers
<1>4. InOrder(r)'
  BY <1>2, <1>3 DEF SpendingKept, InOrder
<1>5. SpendingFits(r)'
  BY SpendingStays
<1>6. ASSUME NEW k \in Int, NEW a \in SpendingActions, MaySpend(r, k, a)
      PROVE  MaySpend(r, k, a)'
  <2>1. Settled(r, k - 1)'
    BY <1>2, <1>6 DEF MaySpend
  <2>2. ASSUME k \in Numbers, ~EX!Exists(r, k)' PROVE Affordable(r, a)'
    <3>1. Affordable(r, a)
      BY <1>6, <2>2 DEF MaySpend, SpendingKept
    <3> QED BY <3>1, SpendingStays
  <2> QED BY <2>1, <2>2 DEF MaySpend, Numbers
<1> QED BY <1>2, <1>4, <1>5, <1>6 DEF SpendingMoves

\* Spending an attempt whose turn it is: no other attempt could still be spent.
LEMMA MovesSpent ==
  ASSUME TypeOK, NEW r \in Records, NEW n \in Numbers, NEW a \in SpendingActions,
         SpendingFits(r), InOrder(r), MaySpend(r, n, a), ~EX!Exists(r, n),
         \A m \in Numbers : EX!Exists(r, m) <=> slot[r][m].action \in SpendingActions,
         now' = now, slot'[r][n] = Marked(a, now),
         \A m \in Numbers \ {n} : slot'[r][m] = slot[r][m]
  PROVE  SpendingMoves(r)
<1>1. n \in Int /\ ~EX!Resolved(r, n) /\ Settled(r, n - 1) /\ Affordable(r, a)
  <2>1. n \in Int
    BY AgentAssumption DEF Numbers
  <2>2. ~EX!Resolved(r, n)
    BY DEF EX!Exists, EX!Resolved, EX!Outcomes, EX!NoRow
  <2> QED BY <2>1, <2>2 DEF MaySpend
<1>2. \A m \in Numbers : m \in Int
  BY AgentAssumption DEF Numbers
<1>3. \A k \in Int : Settled(r, k) => k < n
  BY <1>1 DEF Settled
<1>4. \A m \in Numbers : EX!Exists(r, m) => m < n
  <2> SUFFICES ASSUME NEW m \in Numbers, EX!Exists(r, m) PROVE m < n
    OBVIOUS
  <2>1. m - 1 < n /\ m # n
    BY <1>2, <1>3 DEF InOrder
  <2> QED BY <1>1, <1>2, <2>1
<1>5. SpendingFits(r)'
  BY <1>1, <1>4, SpendOne
<1>6. ASSUME NEW m \in Numbers, m # n PROVE EX!Exists(r, m)' <=> EX!Exists(r, m)
  BY <1>6 DEF EX!Exists
<1>7. ASSUME NEW k \in Int, Settled(r, k) PROVE Settled(r, k)'
  <2>1. ASSUME NEW m \in Numbers, m <= k PROVE EX!Resolved(r, m)'
    <3>1. EX!Resolved(r, m)
      BY <1>7, <2>1 DEF Settled
    <3>2. m # n
      BY <1>1, <3>1
    <3> QED BY <3>1, <3>2 DEF EX!Resolved
  <2> QED BY <2>1 DEF Settled, Numbers
<1>8. InOrder(r)'
  <2>1. ASSUME NEW m \in Numbers, EX!Exists(r, m)' PROVE Settled(r, m - 1)
    <3>1. CASE m = n
      BY <1>1, <3>1
    <3>2. CASE m # n
      BY <1>6, <2>1, <3>2 DEF InOrder
    <3> QED BY <3>1, <3>2
  <2>2. ASSUME NEW m \in Numbers, EX!Exists(r, m)' PROVE Settled(r, m - 1)'
    BY <1>2, <1>7, <2>1, <2>2
  <2> QED BY <2>2 DEF InOrder, Numbers
<1>9. EX!Exists(r, n)'
  <2>1. slot'[r][n].outcome = "UNSPECIFIED"
    BY DEF Marked, EX!ClaimMarker
  <2> QED BY <2>1 DEF EX!Exists, EX!NoRow
<1>10. ASSUME NEW k \in Int, NEW b \in SpendingActions, MaySpend(r, k, b)
       PROVE  MaySpend(r, k, b)'
  <2>1. Settled(r, k - 1) /\ Settled(r, k - 1)'
    BY <1>7, <1>10 DEF MaySpend
  <2>2. ASSUME k \in Numbers, ~EX!Exists(r, k)' PROVE FALSE
    <3>1. k # n /\ ~EX!Exists(r, k)
      BY <1>6, <1>9, <2>2
    <3>2. k < n
      BY <1>1, <1>3, <2>1, <3>1
    <3>3. EX!Resolved(r, k)
      BY <1>1, <2>2, <3>2 DEF Settled
    <3> QED BY <3>1, <3>3 DEF EX!Resolved, EX!Exists, EX!Outcomes, EX!NoRow
  <2> QED BY <2>1, <2>2 DEF MaySpend, Numbers
<1> QED BY <1>5, <1>7, <1>8, <1>10 DEF SpendingMoves

LEMMA FollowMoves ==
  ASSUME NEW r \in Records, SpendingMoves(r), NEW n \in Nat, NEW plan,
         plan.state \in Waiting => plan.action \in SpendingActions, MayFollow(r, n, plan)
  PROVE  MayFollow(r, n, plan)'
<1>1. Settled(r, n)'
  BY DEF SpendingMoves, MayFollow
<1>2. ASSUME plan.state \in Waiting PROVE MaySpend(r, n + 1, plan.action)'
  <2>1. PICK k \in Int, a \in SpendingActions : k = n + 1 /\ a = plan.action
    BY <1>2
  <2>2. MaySpend(r, k, a)
    BY <1>2, <2>1 DEF MayFollow
  <2>3. MaySpend(r, k, a)'
    BY <2>2 DEF SpendingMoves
  <2> QED BY <2>1, <2>3
<1> QED BY <1>1, <1>2 DEF MayFollow

LEMMA JobMoves ==
  ASSUME NEW r \in Records, SpendingMoves(r), NEW j \in Jobs,
         j.phase # "idle" => j.n \in Numbers /\ j.action \in SpendingActions,
         j.phase = "rescoring" => PlanForm(j.plan), JobMay(r, j)
  PROVE  JobMay(r, j)'
<1> SUFFICES ASSUME j.phase # "idle"
             PROVE  /\ MaySpend(r, j.n, j.action)'
                    /\ j.phase = "rescoring" => MayFollow(r, j.n, j.plan)'
  BY DEF JobMay
<1>1. PICK n \in Nat, a \in SpendingActions, plan \in Plans :
        n = j.n /\ a = j.action /\ plan = j.plan
  BY AgentAssumption DEF Numbers, Jobs
<1>2. MaySpend(r, n, a)'
  BY <1>1 DEF JobMay, SpendingMoves
<1>3. ASSUME j.phase = "rescoring" PROVE MayFollow(r, n, plan)'
  <2>1. MayFollow(r, n, plan) /\ PlanForm(plan)
    BY <1>1, <1>3 DEF JobMay
  <2> QED BY <2>1, FollowMoves DEF PlanForm, Scheduled
<1> QED BY <1>1, <1>2, <1>3

LEMMA CallMoves ==
  ASSUME NEW call \in Resumes, SpendingMoves(call.record), call.record \in Records,
         call.n \in Numbers, call.outcome # "SUCCESS" => PlanForm(call.plan),
         call.phase = "planned", CallMay(call)
  PROVE  CallMay(call)'
<1> SUFFICES ASSUME call.outcome # "SUCCESS" PROVE MayFollow(call.record, call.n, call.plan)'
  BY DEF CallMay
<1>1. PICK r \in Records, n \in Nat, plan \in Plans :
        r = call.record /\ n = call.n /\ plan = call.plan
  BY AgentAssumption DEF Numbers, Resumes
<1>2. MayFollow(r, n, plan) /\ PlanForm(plan) /\ SpendingMoves(r)
  BY <1>1 DEF CallMay
<1>3. MayFollow(r, n, plan)'
  BY <1>2, FollowMoves DEF PlanForm, Scheduled
<1> QED BY <1>1, <1>3

\* What a step must show: what it writes was allowed before it.
RowsMay == \A r \in Records : MayFollow(r, row'[r].attempts, row'[r])
JobsMay == \A p \in Pods, r \in Records : JobMay(r, job'[p][r])
CallsMay == \A c \in Callers : CallMay(resume'[c])

LEMMA SpendingStep ==
  ASSUME GroundInv', \A r \in Records : SpendingMoves(r), RowsMay, JobsMay, CallsMay
  PROVE  SpendingInv'
<1>1. ASSUME NEW r \in Records PROVE MayFollow(r, row[r].attempts, row[r])'
  <2>1. PICK new \in Rows : new = row'[r]
    BY DEF GroundInv, TypeOK
  <2>2. new.attempts \in Nat /\ (new.state \in Waiting => new.action \in SpendingActions)
    BY <2>1, AgentAssumption DEF GroundInv, RowForm, Scheduled, Rows
  <2>3. PICK n \in Nat : n = new.attempts
    BY <2>2
  <2>4. MayFollow(r, n, new)'
    BY <2>1, <2>2, <2>3, FollowMoves DEF RowsMay
  <2> QED BY <2>1, <2>3, <2>4
<1>2. ASSUME NEW p \in Pods, NEW r \in Records PROVE JobMay(r, job[p][r])'
  <2>1. PICK j \in Jobs : j = job'[p][r]
    BY DEF GroundInv, TypeOK
  <2>2. /\ j.phase # "idle" => j.n \in Numbers /\ j.action \in SpendingActions
        /\ j.phase = "rescoring" => PlanForm(j.plan)
    BY <2>1 DEF GroundInv, JobForm
  <2>3. JobMay(r, j)'
    BY <2>1, <2>2, JobMoves DEF JobsMay
  <2> QED BY <2>1, <2>3
<1>3. ASSUME NEW c \in Callers PROVE CallMay(resume[c])'
  <2>1. PICK call \in Resumes : call = resume'[c]
    BY DEF GroundInv, TypeOK
  <2>2. CASE call.phase # "planned"
    BY <2>1, <2>2 DEF CallMay
  <2>3. CASE call.phase = "planned"
    <3>1. /\ call.record \in Records /\ call.n \in Numbers
          /\ call.outcome # "SUCCESS" => PlanForm(call.plan)
      BY <2>1, <2>3 DEF GroundInv, ResumeForm
    <3>2. SpendingMoves(call.record)
      BY <3>1
    <3>3. CallMay(call)'
      BY <2>1, <2>3, <3>1, <3>2, CallMoves DEF CallsMay
    <3> QED BY <2>1, <3>3
  <2> QED BY <2>2, <2>3
<1> QED BY <1>1, <1>2, <1>3 DEF SpendingInv, SpendingMoves

LEMMA SpendingFrame ==
  ASSUME SpendingInv
  PROVE  /\ ClockMoves /\ (\A r \in Records : SpendingKept(r)) =>
              \A r \in Records : SpendingMoves(r)
         /\ UNCHANGED row => RowsMay
         /\ UNCHANGED job => JobsMay
         /\ (\A p \in Pods, r \in Records : job'[p][r] \in {job[p][r], IdleJob}) => JobsMay
         /\ (\A c \in Callers : resume'[c] \in {resume[c], IdleResume}
                                  \/ resume'[c].phase # "planned") => CallsMay
<1>1. ClockMoves /\ (\A r \in Records : SpendingKept(r)) => \A r \in Records : SpendingMoves(r)
  BY MovesKept DEF SpendingInv, GroundInv
<1>2. UNCHANGED row => RowsMay
  BY DEF SpendingInv, RowsMay
<1>3. (\A p \in Pods, r \in Records : job'[p][r] \in {job[p][r], IdleJob}) => JobsMay
  BY DEF SpendingInv, JobsMay, JobMay, IdleJob
<1>4. (\A c \in Callers : resume'[c] \in {resume[c], IdleResume}
                            \/ resume'[c].phase # "planned") => CallsMay
  BY DEF SpendingInv, CallsMay, CallMay, IdleResume
<1> QED BY <1>1, <1>2, <1>3, <1>4

LEMMA SpendingFrameOne ==
  ASSUME SpendingInv
  PROVE  /\ \A r \in Records : OtherRows(r) /\ MayFollow(r, row'[r].attempts, row'[r]) => RowsMay
         /\ \A p \in Pods, r \in Records : OtherJobs(p, r) /\ JobMay(r, job'[p][r]) => JobsMay
         /\ \A c \in Callers : OtherResumes(c) /\ CallMay(resume'[c]) => CallsMay
<1>1. ASSUME NEW r \in Records, OtherRows(r), MayFollow(r, row'[r].attempts, row'[r])
      PROVE  RowsMay
  BY <1>1 DEF SpendingInv, RowsMay, OtherRows
<1>2. ASSUME NEW p \in Pods, NEW r \in Records, OtherJobs(p, r), JobMay(r, job'[p][r])
      PROVE  JobsMay
  BY <1>2 DEF SpendingInv, JobsMay, OtherJobs
<1>3. ASSUME NEW c \in Callers, OtherResumes(c), CallMay(resume'[c]) PROVE CallsMay
  BY <1>3 DEF SpendingInv, CallsMay, OtherResumes
<1> QED BY <1>1, <1>2, <1>3

\* A slot that stays, or only gets its outcome, spends nothing.
LEMMA SlotStands ==
  UNCHANGED slot => \A r \in Records : SpendingKept(r)
  BY DEF SpendingKept, EX!Exists

LEMMA OutcomeSpendsNothing ==
  ASSUME GroundInv, NEW r \in Records, NEW n \in Numbers, OutcomeSaved(r, n)
  PROVE  \A s \in Records : SpendingKept(s)
<1>1. CASE EX!RecordOutcome(r, n)
  <2>1. /\ handler[r][n] \in Outcomes /\ ~EX!Resolved(r, n)
        /\ slot'[r][n] = Filled(slot[r][n], handler[r][n]) /\ OthersSame(r, n)
    BY <1>1, RecordOutcomeDoes
  <2>2. slot[r][n] \in EX!Slots /\ SlotForm(r, n)
    BY SlotTypes DEF GroundInv
  <2>3. PICK x : x = Filled(slot[r][n], handler[r][n])
    OBVIOUS
  <2>4. /\ x.outcome \in Outcomes /\ x.action = slot[r][n].action /\ x.at = slot[r][n].at
    BY <2>1, <2>2, <2>3, FilledSlot
  <2>5. EX!Exists(r, n) /\ EX!Exists(r, n)'
    BY <2>1, <2>2, <2>3, <2>4 DEF SlotForm, EX!Exists, EX!NoRow, EX!ClaimMarker, Outcomes
  <2>6. SpendingKept(r)
    BY <2>1, <2>3, <2>4, <2>5 DEF SpendingKept, OthersSame, SameSlot, EX!Exists
  <2>7. \A s \in Records \ {r} : SpendingKept(s)
    BY <2>1 DEF SpendingKept, OthersSame, SameSlot, EX!Exists
  <2> QED BY <2>6, <2>7
<1>2. CASE EX!RecordOutcomeFails(r, n)
  BY <1>2, SlotStands DEF EX!RecordOutcomeFails
<1> QED BY <1>1, <1>2 DEF OutcomeSaved

\* What scoring plans after attempt n may follow it.
LEMMA PlanMayFollow ==
  ASSUME TypeOK, NEW r \in Records, SpendingFits(r), NEW n \in Nat, Settled(r, n),
         NEW bucket, NEW plan, plan = Plan(r, bucket)
  PROVE  MayFollow(r, n, plan)
<1>1. plan.state \in Waiting =>
        plan.action \in SpendingActions /\ plan.action \notin Blocked(History(r), now)
  BY PlanIsScored
<1>2. ASSUME plan.state \in Waiting PROVE Affordable(r, plan.action)
  BY <1>1, <1>2, UnblockedIsAffordable
<1>3. (n + 1) - 1 = n
  OBVIOUS
<1> QED BY <1>2, <1>3 DEF MayFollow, MaySpend

\* Steps that plan nothing and spend nothing.
LEMMA QuietSpending ==
  ASSUME SpendingInv,
         \/ Tick \/ DowntimeEvent \/ UNCHANGED vars
         \/ \E r \in Records : Redeliver(r)
         \/ \E p \in Pods : Crash(p)
         \/ \E p \in Pods, r \in Records :
              \/ HandleStart(p, r) \/ HandleDeadLetter(p, r) \/ HandleConflict(p, r)
              \/ ResultLost(p, r)
  PROVE  SpendingInv'
<1>1. GroundInv
  BY DEF SpendingInv
<1>2. GroundInv'
  BY <1>1, TickGround, DowntimeGround, StutterGround, RedeliverGround, CrashGround,
     HandleStartGround, HandleDeadLetterGround, HandleConflictGround, ResultLostGround
<1>3. /\ UNCHANGED <<row, resume, slot>> /\ now' \in {now, now + 1}
      /\ \/ UNCHANGED job \/ \E p \in Pods : PodExit(p)
         \/ \E p \in Pods, r \in Records : JobBecomes(p, r, IdleJob)
  BY DEF Tick, DowntimeEvent, vars, Redeliver, Crash, HandleStart, HandleDeadLetter,
         HandleConflict, ResultLost, PodExit, engineVars, worldVars, reportVars,
         executorVars, JobBecomes
<1>4. ClockMoves
  BY <1>1, <1>2, <1>3, AgentAssumption DEF GroundInv, TypeOK, ClockMoves
<1>5. \A p \in Pods, r \in Records : job'[p][r] \in {job[p][r], IdleJob}
  <2>1. ASSUME NEW p \in Pods, PodExit(p)
        PROVE  \A q \in Pods, r \in Records : job'[q][r] \in {job[q][r], IdleJob}
    <3>1. job \in [Pods -> [Records -> Jobs]]
      BY <1>1 DEF GroundInv, TypeOK
    <3> QED BY <2>1, <3>1 DEF PodExit
  <2>2. ASSUME NEW p \in Pods, NEW r \in Records, JobBecomes(p, r, IdleJob)
        PROVE  \A q \in Pods, s \in Records : job'[q][s] \in {job[q][s], IdleJob}
    BY <1>1, <2>2, PutDown DEF OtherJobs
  <2> QED BY <1>3, <2>1, <2>2
<1> QED BY <1>2, <1>3, <1>4, <1>5, SlotStands, SpendingFrame, SpendingStep

\* The ports, the outcomes and the poller.
LEMMA OutsideSpending ==
  ASSUME SpendingInv, NEW r \in Records, NEW n \in Numbers, AttemptActs(r, n)
  PROVE  SpendingInv'
<1>1. GroundInv
  BY DEF SpendingInv
<1>2. GroundInv'
  BY <1>1, PortActsGround, PortFailsGround, OutcomeSavedGround, PollerMovesGround,
     PollerCallGround DEF AttemptActs
<1>3. UNCHANGED <<now, row, job>>
  BY DEF AttemptActs, PortActs, PortFails, OutcomeSaved, PollerTake, PollerTimesOut,
         PollerDies, PollerCall, worldVars, engineVars
<1>4. ClockMoves
  BY <1>1, <1>3, ClockStands
<1>5. \A s \in Records : SpendingKept(s)
  <2>1. UNCHANGED slot \/ OutcomeSaved(r, n)
    BY DEF AttemptActs, PortActs, PortFails, PollerTake, PollerTimesOut, PollerDies,
           PollerCall, EX!Perform, EX!PerformFails, executorVars
  <2> QED BY <1>1, <2>1, SlotStands, OutcomeSpendsNothing
<1>6. \A c \in Callers : resume'[c] = resume[c] \/ resume'[c].phase # "planned"
  <2>1. UNCHANGED resume \/ \E c \in Callers : PollerCall(r, n, c)
    BY DEF AttemptActs, PortActs, PortFails, OutcomeSaved, PollerTake, PollerTimesOut,
           PollerDies, reportVars
  <2>2. ASSUME NEW c \in Callers, PollerCall(r, n, c)
        PROVE  \A d \in Callers : resume'[d] = resume[d] \/ resume'[d].phase # "planned"
    <3>1. PICK outcome \in Answers, try \in 1..MaxDeliverAttempts :
            ResumeBecomes(c, Calling(r, n, outcome, try))
      BY <1>1, <2>2, PollerCallDoes
    <3>2. PICK z \in Resumes : z = Calling(r, n, outcome, try) /\ z.phase = "called"
      BY CallingTypes
    <3>3. resume'[c] = z /\ OtherResumes(c)
      BY <1>1, <3>1, <3>2, ResumeBecomesDoes DEF GroundInv
    <3> QED BY <3>2, <3>3 DEF OtherResumes
  <2> QED BY <2>1, <2>2
<1> QED BY <1>2, <1>3, <1>4, <1>5, <1>6, SpendingFrame, SpendingStep

LEMMA SettleNext ==
  ASSUME NEW r \in Records, NEW n \in Numbers, Settled(r, n - 1), EX!Resolved(r, n)
  PROVE  Settled(r, n)
<1>1. n \in Int /\ \A m \in Numbers : m \in Int
  BY AgentAssumption DEF Numbers
<1>2. \A m \in Numbers : m <= n => m <= n - 1 \/ m = n
  BY <1>1
<1> QED BY <1>2 DEF Settled

LEMMA HeldJob ==
  ASSUME SpendingInv, NEW p \in Pods, NEW r \in Records, job[p][r].phase # "idle"
  PROVE  \E n \in Numbers, a \in SpendingActions, j \in Jobs :
           /\ GroundInv /\ TypeOK /\ j = job[p][r] /\ n = j.n /\ a = j.action
           /\ MaySpend(r, n, a)
           /\ j.phase = "rescoring" => MayFollow(r, n, j.plan)
<1>1. GroundInv /\ JobMay(r, job[p][r])
  BY DEF SpendingInv
<1> QED BY <1>1, LiveJob DEF JobMay

LEMMA CallExecuteSpending ==
  ASSUME SpendingInv, NEW p \in Pods, NEW r \in Records, CallExecute(p, r)
  PROVE  SpendingInv'
<1>1. GroundInv /\ GroundInv' /\ job[p][r].phase # "idle"
  BY CallExecuteDoes, CallExecuteGround DEF SpendingInv
<1>2. PICK n \in Numbers, a \in SpendingActions, old \in Jobs :
        TypeOK /\ old = job[p][r] /\ n = old.n /\ a = old.action /\ MaySpend(r, n, a)
  BY <1>1, HeldJob
<1>3. PICK j \in Jobs : j = Called(old) /\ j.phase = "calling" /\ j.n = n /\ j.action = a
  BY <1>2, JobStages
<1>4. /\ JobBecomes(p, r, j)
      /\ EX!ClaimSlot(r, n, a, now) \/ UNCHANGED executorVars
  BY <1>1, <1>2, <1>3, CallExecuteDoes
<1>5. JobsMay
  <2>1. job'[p][r] = j /\ OtherJobs(p, r)
    BY <1>2, <1>4, JobBecomesDoes
  <2>2. JobMay(r, job'[p][r])
    BY <1>2, <1>3, <2>1 DEF JobMay
  <2> QED BY <2>1, <2>2, SpendingFrameOne
<1>6. RowsMay /\ CallsMay /\ ClockMoves /\ now' = now
  <2>1. UNCHANGED <<now, row, resume>>
    BY DEF CallExecute, worldVars, reportVars
  <2> QED BY <1>1, <2>1, ClockStands, SpendingFrame
<1>7. CASE UNCHANGED executorVars
  <2>1. UNCHANGED slot
    BY <1>7 DEF executorVars
  <2> QED BY <1>1, <1>5, <1>6, <2>1, SlotStands, SpendingFrame, SpendingStep
<1>8. CASE EX!ClaimSlot(r, n, a, now)
  <2>1. ~EX!Exists(r, n) /\ slot'[r][n] = Marked(a, now) /\ OthersSame(r, n)
    BY <1>1, <1>8, ClaimSlotDoes
  <2>2. \A m \in Numbers : EX!Exists(r, m) <=> slot[r][m].action \in SpendingActions
    BY <1>1 DEF GroundInv, SlotForm
  <2>3. \A m \in Numbers \ {n} : slot'[r][m] = slot[r][m]
    BY <2>1 DEF OthersSame, SameSlot
  <2>4. SpendingMoves(r)
    BY <1>2, <1>6, <2>1, <2>2, <2>3, MovesSpent DEF SpendingInv
  <2>5. \A s \in Records \ {r} : SpendingKept(s)
    BY <2>1 DEF SpendingKept, OthersSame, SameSlot, EX!Exists
  <2>6. \A s \in Records \ {r} : SpendingMoves(s)
    BY <1>2, <1>6, <2>5, MovesKept DEF SpendingInv
  <2> QED BY <1>1, <1>5, <1>6, <2>4, <2>6, SpendingStep
<1> QED BY <1>4, <1>7, <1>8

\* A job is written, its plan, if it has one, made by scoring.
LEMMA JobWritten ==
  ASSUME SpendingInv, GroundInv', UNCHANGED <<now, row, resume, slot>>,
         NEW p \in Pods, NEW r \in Records, OtherJobs(p, r), JobMay(r, job'[p][r])
  PROVE  SpendingInv'
<1>1. ClockMoves
  BY ClockStands DEF SpendingInv
<1> QED BY <1>1, SlotStands, SpendingFrame, SpendingFrameOne, SpendingStep

LEMMA CallAnsweredSpending ==
  ASSUME SpendingInv, NEW p \in Pods, NEW r \in Records, CallAnswered(p, r)
  PROVE  SpendingInv'
<1>1. /\ GroundInv /\ GroundInv' /\ job[p][r].phase # "idle"
      /\ EX!Replay(r, job[p][r].n)
  BY CallAnsweredDoes, CallAnsweredGround DEF SpendingInv
<1>2. PICK n \in Numbers, a \in SpendingActions, old \in Jobs :
        TypeOK /\ old = job[p][r] /\ n = old.n /\ a = old.action /\ MaySpend(r, n, a)
  BY <1>1, HeldJob
<1>3. PICK o \in Outcomes : o = slot[r][n].outcome
  BY <1>1, <1>2 DEF EX!Replay, EX!Resolved, EX!Outcomes, Outcomes
<1>4. PICK j \in Jobs : j = Answered(old, o) /\ j.phase = "answered" /\ j.n = n /\ j.action = a
  BY <1>2, JobStages
<1>5. JobBecomes(p, r, j)
  BY <1>1, <1>2, <1>3, <1>4, CallAnsweredDoes
<1>6. job'[p][r] = j /\ OtherJobs(p, r)
  BY <1>2, <1>5, JobBecomesDoes
<1>7. JobMay(r, job'[p][r])
  BY <1>2, <1>4, <1>6 DEF JobMay
<1>8. UNCHANGED <<now, row, resume, slot>>
  BY DEF CallAnswered, worldVars, reportVars, EX!Replay
<1> QED BY <1>1, <1>6, <1>7, <1>8, JobWritten

LEMMA CallFailsSpending ==
  ASSUME SpendingInv, NEW p \in Pods, NEW r \in Records, CallFails(p, r)
  PROVE  SpendingInv'
<1>1. GroundInv /\ GroundInv' /\ job[p][r].phase # "idle"
  BY CallFailsDoes, CallFailsGround DEF SpendingInv
<1>2. PICK n \in Numbers, a \in SpendingActions, old \in Jobs :
        TypeOK /\ old = job[p][r] /\ n = old.n /\ a = old.action /\ MaySpend(r, n, a)
  BY <1>1, HeldJob
<1>3. UNCHANGED <<now, row, resume, slot>>
  BY DEF CallFails, worldVars, reportVars, executorVars
<1>4. CASE JobBecomes(p, r, IdleJob)
  <2>1. job'[p][r] = IdleJob /\ OtherJobs(p, r)
    BY <1>1, <1>4, PutDown
  <2>2. JobMay(r, job'[p][r])
    BY <2>1 DEF JobMay, IdleJob
  <2> QED BY <1>1, <1>3, <2>1, <2>2, JobWritten
<1>5. CASE old.tries + 1 < MaxExecuteAttempts /\ JobBecomes(p, r, Retried(old))
  <2>1. PICK j \in Jobs :
          j = Retried(old) /\ j.phase = "claimed" /\ j.n = n /\ j.action = a
    BY <1>2, <1>5, JobStages
  <2>2. job'[p][r] = j /\ OtherJobs(p, r)
    BY <1>2, <1>5, <2>1, JobBecomesDoes
  <2>3. JobMay(r, job'[p][r])
    BY <1>2, <2>1, <2>2 DEF JobMay
  <2> QED BY <1>1, <1>3, <2>2, <2>3, JobWritten
<1> QED BY <1>1, <1>2, <1>4, <1>5, CallFailsDoes

LEMMA RescoreSpending ==
  ASSUME SpendingInv, NEW p \in Pods, NEW r \in Records, Rescore(p, r)
  PROVE  SpendingInv'
<1>1. GroundInv /\ GroundInv' /\ job[p][r].phase = "answered"
  BY RescoreDoes, RescoreGround DEF SpendingInv
<1>2. PICK n \in Numbers, a \in SpendingActions, old \in Jobs :
        TypeOK /\ old = job[p][r] /\ n = old.n /\ a = old.action /\ MaySpend(r, n, a)
  BY <1>1, HeldJob
<1>3. PICK plan \in Plans : plan = Plan(r, row[r].bucket)
  BY <1>2, PlanIsScored
<1>4. PICK j \in Jobs : j = Rescoring(old, plan) /\ j.plan = plan /\ j.n = n /\ j.action = a
  BY <1>2, JobStages
<1>5. JobBecomes(p, r, j)
  BY <1>1, <1>2, <1>3, <1>4, RescoreDoes
<1>6. job'[p][r] = j /\ OtherJobs(p, r)
  BY <1>2, <1>5, JobBecomesDoes
<1>7. Settled(r, n)
  <2>1. EX!Resolved(r, n)
    BY <1>1, <1>2 DEF GroundInv, JobForm
  <2> QED BY <1>2, <2>1, SettleNext DEF MaySpend
<1>8. MayFollow(r, n, plan)
  <2>1. n \in Nat
    BY AgentAssumption DEF Numbers
  <2> QED BY <1>2, <1>3, <1>7, <2>1, PlanMayFollow DEF SpendingInv
<1>9. JobMay(r, job'[p][r])
  BY <1>2, <1>4, <1>6, <1>8 DEF JobMay
<1>10. UNCHANGED <<now, row, resume, slot>>
  BY DEF Rescore, worldVars, reportVars, executorVars
<1> QED BY <1>1, <1>6, <1>9, <1>10, JobWritten

\* A row is written, and nothing is spent.
LEMMA RowWritten ==
  ASSUME SpendingInv, GroundInv', UNCHANGED <<now, slot>>, JobsMay, CallsMay,
         NEW r \in Records, OtherRows(r), MayFollow(r, row'[r].attempts, row'[r])
  PROVE  SpendingInv'
<1>1. ClockMoves
  BY ClockStands DEF SpendingInv
<1> QED BY <1>1, SlotStands, SpendingFrame, SpendingFrameOne, SpendingStep

LEMMA HandleScheduleSpending ==
  ASSUME SpendingInv, NEW p \in Pods, NEW r \in Records, HandleSchedule(p, r)
  PROVE  SpendingInv'
<1>1. GroundInv /\ GroundInv' /\ TypeOK /\ SpendingFits(r)
  BY HandleScheduleGround DEF SpendingInv, GroundInv
<1>2. PICK new \in Rows, edges \in Seq(Edges) :
        /\ WriteRow(r, new, edges) /\ new.attempts = 0
        /\ \/ new.state = "ESCALATED"
           \/ \E bucket \in Buckets :
                /\ new.state = Plan(r, bucket).state
                /\ new.action = Plan(r, bucket).action
  BY <1>1, HandleScheduleDoes
<1>3. row'[r] = new /\ OtherRows(r)
  BY <1>1, <1>2, WriteRowDoes
<1>4. Settled(r, 0)
  BY AgentAssumption DEF Settled, Numbers
<1>5. MayFollow(r, 0, new)
  <2>1. ASSUME NEW bucket \in Buckets, new.state = Plan(r, bucket).state,
               new.action = Plan(r, bucket).action
        PROVE  MayFollow(r, 0, new)
    <3>1. PICK plan : plan = Plan(r, bucket)
      OBVIOUS
    <3>2. MayFollow(r, 0, plan)
      BY <1>1, <1>4, <3>1, PlanMayFollow
    <3> QED BY <2>1, <3>1, <3>2 DEF MayFollow
  <2>2. CASE new.state = "ESCALATED"
    BY <1>4, <2>2 DEF MayFollow, Waiting
  <2> QED BY <1>2, <2>1, <2>2
<1>6. JobsMay /\ CallsMay
  <2>1. UNCHANGED <<job, resume>>
    BY DEF HandleSchedule, reportVars
  <2> QED BY <2>1, SpendingFrame
<1>7. UNCHANGED <<now, slot>>
  BY DEF HandleSchedule, worldVars, executorVars
<1> QED BY <1>1, <1>2, <1>3, <1>5, <1>6, <1>7, RowWritten

\* What the pod recorded follows the attempt it records.
LEMMA RecordResultSpending ==
  ASSUME SpendingInv, NEW p \in Pods, NEW r \in Records, RecordResult(p, r)
  PROVE  SpendingInv'
<1>1. GroundInv /\ GroundInv' /\ job[p][r].phase = "answered"
  BY RecordResultDoes, RecordResultGround DEF SpendingInv
<1>2. PICK n \in Numbers, new \in Rows :
        /\ n = job[p][r].n /\ EX!Resolved(r, n)
        /\ new.state \in {"RECOVERED", "NUDGED", "ESCALATED"} /\ new.attempts = n
        /\ row'[r] = new /\ OtherRows(r) /\ JobBecomes(p, r, IdleJob)
  BY <1>1, RecordResultDoes
<1>3. Settled(r, n)
  BY <1>1, <1>2, HeldJob, SettleNext DEF MaySpend
<1>4. MayFollow(r, n, new)
  BY <1>2, <1>3 DEF MayFollow, Waiting
<1>5. JobsMay /\ CallsMay
  <2>1. OtherJobs(p, r) /\ job'[p][r] = IdleJob /\ UNCHANGED resume
    BY <1>1, <1>2, PutDown DEF RecordResult, reportVars
  <2> QED BY <2>1, SpendingFrame DEF OtherJobs
<1>6. UNCHANGED <<now, slot>>
  BY DEF RecordResult, worldVars, executorVars
<1> QED BY <1>1, <1>2, <1>4, <1>5, <1>6, RowWritten

LEMMA RecordRescoreSpending ==
  ASSUME SpendingInv, NEW p \in Pods, NEW r \in Records, RecordRescore(p, r)
  PROVE  SpendingInv'
<1>1. GroundInv /\ GroundInv' /\ job[p][r].phase = "rescoring"
  BY RecordRescoreDoes, RecordRescoreGround DEF SpendingInv
<1>2. PICK n \in Numbers, new \in Rows, plan \in Plans :
           /\ n = job[p][r].n /\ job[p][r].phase = "rescoring" /\ plan = job[p][r].plan
           /\ EX!Resolved(r, n) /\ slot[r][n].outcome = "FAILURE" /\ PlanForm(plan)
           /\ new.state = plan.state /\ new.action = plan.action /\ new.attempts = n
           /\ row' \in [Records -> Rows] /\ row'[r] = new
           /\ trail'[r] = trail[r] \o RescoringPath(job[p][r].from, plan)
           /\ trail' \in [Records -> Seq(Edges)] /\ OtherRows(r)
           /\ JobBecomes(p, r, IdleJob)
  BY <1>1, RecordRescoreDoes
<1>3. MayFollow(r, n, plan)
  <2>1. PICK j \in Jobs : j = job[p][r] /\ (j.phase = "rescoring" => MayFollow(r, j.n, j.plan))
    BY <1>1, HeldJob
  <2> QED BY <1>1, <1>2, <2>1
<1>4. MayFollow(r, n, new)
  BY <1>2, <1>3 DEF MayFollow
<1>5. JobsMay /\ CallsMay
  <2>1. OtherJobs(p, r) /\ job'[p][r] = IdleJob /\ UNCHANGED resume
    BY <1>1, <1>2, PutDown DEF RecordRescore, reportVars
  <2> QED BY <2>1, SpendingFrame DEF OtherJobs
<1>6. UNCHANGED <<now, slot>>
  BY DEF RecordRescore, worldVars, executorVars
<1> QED BY <1>1, <1>2, <1>4, <1>5, <1>6, RowWritten

LEMMA ClaimDueSpending ==
  ASSUME SpendingInv, NEW p \in Pods, ClaimDue(p)
  PROVE  SpendingInv'
<1>1. GroundInv /\ GroundInv' /\ TypeOK
  BY ClaimDueGround DEF SpendingInv, GroundInv
<1>2. PICK batch \in SUBSET Records :
        /\ batch # {}
        /\ \A r \in batch : ClaimsRecord(p, r)
        /\ \A r \in Records \ batch :
             row'[r] = row[r] /\ trail'[r] = trail[r] /\ job'[p][r] = job[p][r]
  BY <1>1, ClaimDueDoes
<1>3. \A q \in Pods \ {p} : job'[q] = job[q]
  <2>1. GroundInv
    BY <1>1
  <2> QED BY <2>1, ClaimDueDoes
<1>4. UNCHANGED <<now, slot, resume>>
  BY DEF ClaimDue, worldVars, executorVars, reportVars
<1>5. ASSUME NEW r \in batch
      PROVE  MayFollow(r, row'[r].attempts, row'[r]) /\ JobMay(r, job'[p][r])
  <2>1. PICK old \in Rows :
          /\ old = row[r] /\ old.state \in Waiting /\ old.attempts < MaxAttempts
          /\ row'[r] = ClaimedRow(old) /\ job'[p][r] = ClaimedJob(old)
    BY <1>1, <1>2 DEF ClaimsRecord, Due, TypeOK
  <2>2. PICK new \in Rows, j \in Jobs :
          /\ new = ClaimedRow(old) /\ j = ClaimedJob(old)
          /\ new.state \in Claimed /\ new.attempts = old.attempts
          /\ j.phase = "claimed" /\ j.action = old.action /\ j.n = old.attempts + 1
    BY <2>1, ClaimedTypes
  <2>3. MayFollow(r, old.attempts, old)
    BY <2>1 DEF SpendingInv
  <2>4. MayFollow(r, new.attempts, new)
    BY <2>2, <2>3 DEF MayFollow, Waiting, Claimed
  <2>5. JobMay(r, j)
    BY <2>1, <2>2, <2>3 DEF JobMay, MayFollow
  <2> QED BY <2>1, <2>2, <2>4, <2>5
<1>6. RowsMay
  BY <1>2, <1>5 DEF SpendingInv, RowsMay
<1>7. JobsMay
  BY <1>2, <1>3, <1>5 DEF SpendingInv, JobsMay
<1>8. CallsMay /\ ClockMoves
  BY <1>1, <1>4, SpendingFrame, ClockStands
<1> QED BY <1>1, <1>4, <1>6, <1>7, <1>8, SlotStands, SpendingFrame, SpendingStep

LEMMA CallEndsSpending ==
  ASSUME SpendingInv, NEW c \in Callers, ResumeDiscard(c) \/ ResumeFails(c)
  PROVE  SpendingInv'
<1>1. GroundInv /\ GroundInv' /\ TypeOK /\ resume[c].phase # "idle"
  BY ResumeDiscardGround, ResumeFailsGround
     DEF SpendingInv, GroundInv, ResumeDiscard, ResumeFails
<1>2. UNCHANGED <<now, row, job, slot>> /\ UNCHANGED executorVars
  BY DEF ResumeDiscard, ResumeFails, worldVars, engineVars, executorVars
<1>3. resume'[c] = IdleResume /\ OtherResumes(c)
  BY <1>1, <1>2, RespondDoes DEF ResumeDiscard, ResumeFails, OtherResumes, TypeOK
<1>4. \A d \in Callers : resume'[d] \in {resume[d], IdleResume}
  BY <1>3 DEF OtherResumes
<1> QED BY <1>1, <1>2, <1>4, ClockStands, SlotStands, SpendingFrame, SpendingStep

\* The record rests after the attempt that is answered: the attempts are settled.
LEMMA ResumePlanSpending ==
  ASSUME SpendingInv, NEW c \in Callers, ResumePlan(c)
  PROVE  SpendingInv'
<1>1. GroundInv /\ GroundInv' /\ TypeOK
  BY ResumePlanGround DEF SpendingInv, GroundInv
<1>2. PICK x \in Resumes, r \in Records, n \in Numbers, plan \in Plans :
           /\ x = resume[c] /\ x.phase = "called" /\ r = x.record /\ n = x.n
           /\ Awaits(r, n) /\ ResumeBecomes(c, Planned(x, plan))
           /\ x.outcome = "SUCCESS" => plan = Recovery
           /\ x.outcome # "SUCCESS" => plan = Plan(r, row[r].bucket)
  BY <1>1, ResumePlanDoes
<1>3. PICK y \in Resumes :
        /\ y.phase = "planned" /\ y.record = r /\ y.n = n /\ y.plan = plan
        /\ y.outcome = x.outcome /\ resume'[c] = y /\ OtherResumes(c)
  BY <1>1, <1>2, PlannedTypes, ResumeBecomesDoes
<1>4. n \in Nat /\ Settled(r, n)
  BY <1>2, AgentAssumption DEF SpendingInv, MayFollow, Awaits, Numbers
<1>5. x.outcome # "SUCCESS" => MayFollow(r, n, plan)
  BY <1>1, <1>2, <1>4, PlanMayFollow DEF SpendingInv
<1>6. CallsMay
  <2>1. CallMay(resume'[c])
    BY <1>3, <1>5 DEF CallMay
  <2> QED BY <1>3, <2>1, SpendingFrameOne
<1>7. UNCHANGED <<now, row, job, slot>>
  BY DEF ResumePlan, worldVars, engineVars, executorVars
<1> QED BY <1>1, <1>6, <1>7, ClockStands, SlotStands, SpendingFrame, SpendingStep

LEMMA ResumeApplySpending ==
  ASSUME SpendingInv, NEW c \in Callers, ResumeApply(c)
  PROVE  SpendingInv'
<1>1. GroundInv /\ GroundInv' /\ TypeOK
  BY ResumeApplyGround DEF SpendingInv, GroundInv
<1>2. PICK x \in Resumes, r \in Records, n \in Numbers, plan \in Plans :
           /\ x = resume[c] /\ x.phase = "planned" /\ r = x.record /\ n = x.n
           /\ plan = x.plan /\ Respond(c)
           /\ \/ ~Awaits(r, n) /\ UNCHANGED <<row, trail>>
              \/ /\ Awaits(r, n) /\ OtherRows(r)
                 /\ row' \in [Records -> Rows] /\ trail' \in [Records -> Seq(Edges)]
                 /\ row'[r].state = plan.state /\ row'[r].attempts = n
                 /\ row'[r].action = plan.action
                 /\ x.outcome = "SUCCESS" =>
                      trail'[r] = trail[r] \o <<Edge("NUDGED", "RECOVERED")>>
                 /\ x.outcome # "SUCCESS" =>
                      trail'[r] = trail[r] \o RescoringPath("NUDGED", plan)
  BY <1>1, ResumeApplyDoes
<1>3. UNCHANGED <<now, job, slot>> /\ UNCHANGED executorVars
  BY DEF ResumeApply, worldVars, executorVars
<1>4. resume'[c] = IdleResume /\ OtherResumes(c)
  BY <1>1, <1>2, <1>3, RespondDoes
<1>5. JobsMay /\ CallsMay
  BY <1>3, <1>4, SpendingFrame DEF OtherResumes
<1>6. CASE UNCHANGED <<row, trail>>
  BY <1>1, <1>3, <1>5, <1>6, ClockStands, SlotStands, SpendingFrame, SpendingStep
<1>7. CASE /\ Awaits(r, n) /\ OtherRows(r) /\ row'[r].state = plan.state
           /\ row'[r].attempts = n /\ row'[r].action = plan.action
  <2>1. Settled(r, n)
    BY <1>7 DEF SpendingInv, MayFollow, Awaits
  <2>2. CallMay(x) /\ ResumeForm(c)
    BY <1>1, <1>2 DEF SpendingInv, GroundInv
  <2>3. CASE x.outcome = "SUCCESS"
    <3>1. plan.state = "RECOVERED"
      BY <1>2, <2>2, <2>3 DEF ResumeForm
    <3> QED BY <1>1, <1>3, <1>5, <1>7, <2>1, <3>1, RowWritten DEF MayFollow, Waiting
  <2>4. CASE x.outcome # "SUCCESS"
    <3>1. MayFollow(r, n, plan)
      BY <1>2, <2>2, <2>4 DEF CallMay
    <3>2. MayFollow(r, row'[r].attempts, row'[r])
      BY <1>7, <3>1 DEF MayFollow
    <3> QED BY <1>1, <1>3, <1>5, <1>7, <3>2, RowWritten
  <2> QED BY <2>3, <2>4
<1> QED BY <1>2, <1>6, <1>7

LEMMA InitSpending == ASSUME Init PROVE SpendingInv
<1>1. GroundInv
  BY InitGround
<1>2. ASSUME NEW r \in Records, NEW n \in Numbers
      PROVE  slot[r][n].action = "UNSPECIFIED" /\ slot[r][n].outcome = "no row"
             /\ slot[r][n].at = 0
  BY DEF Init, EX!ExecutorInit, EX!EmptySlot, EX!NoRow, EX!Numbers, Numbers
<1>3. \A r \in Records : Contacts(r) = {} /\ Retries(r) = {}
  BY <1>2 DEF Contacts, Retries, Nudges
<1>4. ASSUME NEW r \in Records PROVE SpendingFits(r)
  <2>1. Cardinality({}) = 0 /\ 0 <= MaxRetries /\ 0 <= MaxContacts
    BY FS_EmptySet, PolicyAssumption
  <2>2. \A n \in Numbers : slot[r][n].at <= now
    <3>1. \A n \in Numbers : slot[r][n].at = 0
      BY <1>2
    <3>2. now = 0
      BY DEF Init
    <3> QED BY <3>1, <3>2
  <2> QED BY <1>3, <2>1, <2>2 DEF SpendingFits
<1>5. ASSUME NEW r \in Records
      PROVE  InOrder(r) /\ MayFollow(r, row[r].attempts, row[r])
  <2>1. \A n \in Numbers : ~EX!Exists(r, n) /\ ~(n <= 0)
    <3>1. \A n \in Numbers : slot[r][n].outcome = "no row"
      BY <1>2
    <3>2. \A n \in Numbers : ~(n <= 0)
      BY AgentAssumption DEF Numbers
    <3> QED BY <3>1, <3>2 DEF EX!Exists, EX!NoRow
  <2>2. row[r].state = "NEW" /\ row[r].attempts = 0
    BY DEF Init, NewRow
  <2> QED BY <2>1, <2>2 DEF InOrder, MayFollow, Settled, Waiting
<1>6. /\ \A p \in Pods, r \in Records : JobMay(r, job[p][r])
      /\ \A c \in Callers : CallMay(resume[c])
  BY DEF Init, IdleJob, IdleResume, JobMay, CallMay
<1> QED BY <1>1, <1>4, <1>5, <1>6 DEF SpendingInv

LEMMA SpendingInvariance == Spec => []SpendingInv
<1>1. Init => SpendingInv
  BY InitSpending
<1>2. SpendingInv /\ [Next]_vars => SpendingInv'
  <2> SUFFICES ASSUME SpendingInv, [Next]_vars PROVE SpendingInv'
    OBVIOUS
  <2>1. CASE \/ UNCHANGED vars \/ Tick \/ DowntimeEvent
             \/ \E r \in Records : Redeliver(r)
    BY <2>1, QuietSpending
  <2>2. CASE \E p \in Pods : ClaimDue(p) \/ Crash(p)
    BY <2>2, ClaimDueSpending, QuietSpending
  <2>3. CASE \E p \in Pods, r \in Records : PodActs(p, r)
    BY <2>3, QuietSpending, HandleScheduleSpending, CallExecuteSpending,
       CallAnsweredSpending, CallFailsSpending, RecordResultSpending, RescoreSpending,
       RecordRescoreSpending DEF PodActs
  <2>4. CASE \E r \in Records, n \in Numbers : AttemptActs(r, n)
    BY <2>4, OutsideSpending
  <2>5. CASE \E c \in Callers : CallActs(c)
    BY <2>5, CallEndsSpending, ResumePlanSpending, ResumeApplySpending DEF CallActs
  <2> QED BY <2>1, <2>2, <2>3, <2>4, <2>5, StepSplit
<1> QED BY <1>1, <1>2, PTL DEF Spec

\* No record is retried or contacted more often than the hard caps allow, however
\* often it is re-scored, claimed, retried after a crash or answered twice.
THEOREM HardCapsHold == Spec => []CapsRespected
<1>1. SpendingInv => CapsRespected
  BY DEF SpendingInv, SpendingFits, CapsRespected
<1> QED BY <1>1, SpendingInvariance, PTL

\* Two contacts of one customer are never closer than the cooldown, which only the
\* scoring checks and which nothing checks when the nudge is sent.
THEOREM ContactsKeepApart == Spec => []CooldownRespected
<1>1. SpendingInv => CooldownRespected
  BY DEF SpendingInv, SpendingFits, CooldownRespected
<1> QED BY <1>1, SpendingInvariance, PTL
=============================================================================
