--------------------------- MODULE ExecutorProofs ---------------------------
(***************************************************************************)
(* Executor's guarantees for any records, any number of attempts, any      *)
(* actions, and any failures.                                              *)
(***************************************************************************)
EXTENDS Executor, TLAPS

(***************************************************************************)
(* The state of one slot.  A slot is untouched, or its claimant is acting  *)
(* at the port, or has acted and has the outcome in hand, or is gone.      *)
(***************************************************************************)
InOrder(outcome, acting, count, given) ==
  /\ count = 0 \/ count = 1
  /\ outcome = NoRow => acting = "none" /\ count = 0
  /\ acting = "port" => outcome = ClaimMarker /\ count = 0
  /\ acting \in Outcomes => outcome = ClaimMarker /\ count = 1
  /\ outcome \in Outcomes => count = 1
  /\ given # {} => outcome \in Outcomes
  /\ given \subseteq {outcome}

SlotInv(r, n) ==
  InOrder(slot[r][n].outcome, handler[r][n], effects[r][n], answered[r][n])

ExecutorInv ==
  /\ ExecutorTypeOK
  /\ \A r \in Records, n \in Numbers : SlotInv(r, n)

\* A table after one of its entries is replaced.
LEMMA TableUpdate ==
  ASSUME NEW A, NEW B, NEW T, NEW f \in [A -> [B -> T]],
         NEW a \in A, NEW b \in B, NEW v \in T, NEW g, g = [f EXCEPT ![a][b] = v]
  PROVE  /\ g \in [A -> [B -> T]]
         /\ g[a][b] = v
         /\ \A x \in A, y \in B : x # a \/ y # b => g[x][y] = f[x][y]
  OBVIOUS

\* What writing an outcome does to a row.
Filled(row, o) == [row EXCEPT !.outcome = o]

LEMMA FilledRow ==
  ASSUME NEW row \in Slots, NEW o \in Outcomes
  PROVE  /\ Filled(row, o) \in Slots
         /\ Filled(row, o).outcome = o
         /\ Filled(row, o).action = row.action /\ Filled(row, o).at = row.at
  BY DEF Filled, Slots

LEMMA FillStep ==
  ASSUME NEW r \in Records, NEW n \in Numbers, RecordOutcome(r, n), ExecutorTypeOK
  PROVE  slot' = [slot EXCEPT ![r][n] = Filled(slot[r][n], handler[r][n])]
  BY DEF RecordOutcome, Filled, ExecutorTypeOK

\* The row a claim inserts.
Marked(a, t) == [action |-> a, outcome |-> ClaimMarker, at |-> t]

LEMMA MarkedRow ==
  ASSUME NEW a \in Actions, NEW t \in 0..MaxTime
  PROVE  Marked(a, t) \in Slots /\ Marked(a, t).outcome = ClaimMarker
  BY DEF Marked, Slots

(***************************************************************************)
(* What each operation does to the slot it is for.                         *)
(***************************************************************************)
LEMMA AfterClaim ==
  ASSUME ExecutorTypeOK, NEW r \in Records, NEW n \in Numbers,
         NEW a \in Actions, NEW t \in 0..MaxTime, ClaimSlot(r, n, a, t)
  PROVE  /\ slot' = [slot EXCEPT ![r][n] = Marked(a, t)]
         /\ slot'[r][n] = Marked(a, t)
         /\ handler'[r][n] = "port"
  BY DEF ExecutorTypeOK, ClaimSlot, Marked

LEMMA AfterPerform ==
  ASSUME ExecutorTypeOK, NEW r \in Records, NEW n \in Numbers,
         NEW o \in Outcomes, Perform(r, n, o)
  PROVE  handler'[r][n] = o /\ effects'[r][n] = effects[r][n] + 1
  BY DEF ExecutorTypeOK, Perform

LEMMA AfterPerformFails ==
  ASSUME ExecutorTypeOK, NEW r \in Records, NEW n \in Numbers, PerformFails(r, n)
  PROVE  /\ handler'[r][n] = "none"
         /\ effects'[r][n] = effects[r][n] \/ effects'[r][n] = effects[r][n] + 1
<1>1. handler'[r][n] = "none"
  BY DEF ExecutorTypeOK, PerformFails
<1>2. PICK reached \in 0..1 : effects' = [effects EXCEPT ![r][n] = @ + reached]
  BY DEF PerformFails
<1>3. effects'[r][n] = effects[r][n] + reached
  BY <1>2 DEF ExecutorTypeOK
<1> QED BY <1>1, <1>3 DEF ExecutorTypeOK

LEMMA AfterRecordOutcome ==
  ASSUME ExecutorTypeOK, NEW r \in Records, NEW n \in Numbers, RecordOutcome(r, n)
  PROVE  /\ slot'[r][n] = Filled(slot[r][n], handler[r][n])
         /\ slot'[r][n] \in Slots
         /\ slot'[r][n].outcome = handler[r][n]
         /\ slot'[r][n].action = slot[r][n].action /\ slot'[r][n].at = slot[r][n].at
         /\ handler'[r][n] = "none"
<1>1. handler[r][n] \in Outcomes /\ slot[r][n] \in Slots
  BY DEF RecordOutcome, ExecutorTypeOK
<1>2. slot \in [Records -> [Numbers -> Slots]]
  BY DEF ExecutorTypeOK
<1>3. Filled(slot[r][n], handler[r][n]) \in Slots
  BY <1>1, FilledRow
<1>4. slot'[r][n] = Filled(slot[r][n], handler[r][n])
  BY <1>2, <1>3, FillStep, TableUpdate
<1>5. handler'[r][n] = "none"
  BY DEF ExecutorTypeOK, RecordOutcome
<1> QED BY <1>1, <1>3, <1>4, <1>5, FilledRow

(***************************************************************************)
(* The stages a slot goes through, each still in order.                    *)
(***************************************************************************)
LEMMA Stages ==
  ASSUME NEW outcome, NEW acting, NEW count, NEW given,
         InOrder(outcome, acting, count, given)
  PROVE  /\ outcome = NoRow => InOrder(ClaimMarker, "port", count, given)
         /\ acting = "port" => \A o \in Outcomes : InOrder(outcome, o, 1, given)
         /\ acting = "port" => InOrder(outcome, "none", 0, given)
                               /\ InOrder(outcome, "none", 1, given)
         /\ acting \in Outcomes => InOrder(acting, "none", count, given)
                                   /\ InOrder(outcome, "none", count, given)
         /\ outcome \in Outcomes => InOrder(outcome, acting, count, {outcome})
  BY DEF InOrder, Outcomes, NoRow, ClaimMarker

\* The empty tables are in order.
LEMMA InitInv == ExecutorInit => ExecutorInv
<1> SUFFICES ASSUME ExecutorInit PROVE ExecutorInv
  OBVIOUS
<1>1. EmptySlot \in Slots
  BY ExecutorAssumption DEF EmptySlot, Slots, NoRow
<1>2. ExecutorTypeOK
  BY <1>1 DEF ExecutorInit, ExecutorTypeOK
<1>3. ASSUME NEW r \in Records, NEW n \in Numbers PROVE SlotInv(r, n)
  <2>1. slot[r][n].outcome = NoRow
    BY DEF ExecutorInit, EmptySlot, NoRow
  <2>2. handler[r][n] = "none" /\ effects[r][n] = 0 /\ answered[r][n] = {}
    BY DEF ExecutorInit
  <2> QED BY <2>1, <2>2 DEF SlotInv, InOrder, NoRow, ClaimMarker, Outcomes
<1> QED BY <1>2, <1>3 DEF ExecutorInv

\* A step is one operation on one slot.
Operation(r, n) ==
  \/ \E a \in Actions, t \in 0..MaxTime : ClaimSlot(r, n, a, t)
  \/ \E o \in Outcomes : Perform(r, n, o)
  \/ PerformFails(r, n)
  \/ RecordOutcome(r, n)
  \/ RecordOutcomeFails(r, n)
  \/ Replay(r, n)

\* Types are kept by every operation.
LEMMA TypeStep ==
  ASSUME ExecutorTypeOK, NEW r \in Records, NEW n \in Numbers, Operation(r, n)
  PROVE  ExecutorTypeOK'
<1>0. slot \in [Records -> [Numbers -> Slots]]
  BY DEF ExecutorTypeOK
<1>1. CASE \E a \in Actions, t \in 0..MaxTime : ClaimSlot(r, n, a, t)
  <2>1. PICK a \in Actions, t \in 0..MaxTime : ClaimSlot(r, n, a, t)
    BY <1>1
  <2>2. slot' = [slot EXCEPT ![r][n] = Marked(a, t)]
    BY <2>1, AfterClaim
  <2>3. Marked(a, t) \in Slots
    BY MarkedRow
  <2>4. slot' \in [Records -> [Numbers -> Slots]]
    BY <1>0, <2>2, <2>3
  <2> QED BY <2>1, <2>4 DEF ClaimSlot, ExecutorTypeOK
<1>2. CASE \E o \in Outcomes : Perform(r, n, o)
  BY <1>2 DEF Perform, ExecutorTypeOK
<1>3. CASE PerformFails(r, n)
  BY <1>3 DEF PerformFails, ExecutorTypeOK
<1>4. CASE RecordOutcome(r, n)
  <2>1. handler[r][n] \in Outcomes /\ slot[r][n] \in Slots
    BY <1>4, <1>0 DEF RecordOutcome
  <2>2. Filled(slot[r][n], handler[r][n]) \in Slots
    BY <2>1, FilledRow
  <2>3. slot' = [slot EXCEPT ![r][n] = Filled(slot[r][n], handler[r][n])]
    BY <1>4, FillStep
  <2>4. slot' \in [Records -> [Numbers -> Slots]]
    BY <1>0, <2>2, <2>3
  <2> QED BY <1>4, <2>4 DEF RecordOutcome, ExecutorTypeOK
<1>5. CASE RecordOutcomeFails(r, n)
  BY <1>5 DEF RecordOutcomeFails, ExecutorTypeOK
<1>6. CASE Replay(r, n)
  BY <1>6 DEF Replay, Resolved, ExecutorTypeOK
<1> QED BY <1>1, <1>2, <1>3, <1>4, <1>5, <1>6 DEF Operation

\* An operation leaves every other slot alone.
LEMMA OtherSlots ==
  ASSUME ExecutorTypeOK, NEW q \in Records, NEW k \in Numbers, Operation(q, k),
         NEW r \in Records, NEW n \in Numbers, r # q \/ n # k
  PROVE  /\ slot'[r][n] = slot[r][n] /\ handler'[r][n] = handler[r][n]
         /\ effects'[r][n] = effects[r][n] /\ answered'[r][n] = answered[r][n]
<1> USE DEF ExecutorTypeOK
<1>1. CASE RecordOutcome(q, k)
  BY <1>1, FillStep DEF RecordOutcome
<1>2. CASE ~RecordOutcome(q, k)
  BY <1>2 DEF Operation, ClaimSlot, Perform, PerformFails, RecordOutcomeFails, Replay
<1> QED BY <1>1, <1>2

\* An operation keeps its own slot in order.
LEMMA OwnSlot ==
  ASSUME ExecutorTypeOK, NEW r \in Records, NEW n \in Numbers, Operation(r, n),
         SlotInv(r, n)
  PROVE  SlotInv(r, n)'
<1> USE DEF SlotInv
<1>1. CASE \E a \in Actions, t \in 0..MaxTime : ClaimSlot(r, n, a, t)
  <2>1. PICK a \in Actions, t \in 0..MaxTime : ClaimSlot(r, n, a, t)
    BY <1>1
  <2>2. slot'[r][n].outcome = ClaimMarker /\ handler'[r][n] = "port"
    BY <2>1, AfterClaim, MarkedRow
  <2>3. slot[r][n].outcome = NoRow /\ UNCHANGED effects /\ UNCHANGED answered
    BY <2>1 DEF ClaimSlot, Exists
  <2>4. InOrder(ClaimMarker, "port", effects[r][n], answered[r][n])
    BY <2>3, Stages
  <2> QED BY <2>2, <2>3, <2>4
<1>2. CASE \E o \in Outcomes : Perform(r, n, o)
  <2>1. PICK o \in Outcomes : Perform(r, n, o)
    BY <1>2
  <2>2. handler'[r][n] = o /\ effects'[r][n] = effects[r][n] + 1
    BY <2>1, AfterPerform
  <2>3. handler[r][n] = "port" /\ UNCHANGED slot /\ UNCHANGED answered
    BY <2>1 DEF Perform
  <2>4. effects'[r][n] = 1
    BY <2>2, <2>3 DEF InOrder
  <2> QED BY <2>2, <2>3, <2>4, Stages
<1>3. CASE PerformFails(r, n)
  <2>1. /\ handler'[r][n] = "none"
        /\ effects'[r][n] = effects[r][n] \/ effects'[r][n] = effects[r][n] + 1
    BY <1>3, AfterPerformFails
  <2>2. handler[r][n] = "port" /\ UNCHANGED slot /\ UNCHANGED answered
    BY <1>3 DEF PerformFails
  <2>3. effects'[r][n] = 0 \/ effects'[r][n] = 1
    BY <2>1, <2>2 DEF InOrder
  <2> QED BY <2>1, <2>2, <2>3, Stages
<1>4. CASE RecordOutcome(r, n)
  <2>1. slot'[r][n].outcome = handler[r][n] /\ handler'[r][n] = "none"
    BY <1>4, AfterRecordOutcome
  <2>2. handler[r][n] \in Outcomes /\ UNCHANGED effects /\ UNCHANGED answered
    BY <1>4 DEF RecordOutcome
  <2>3. InOrder(handler[r][n], "none", effects[r][n], answered[r][n])
    BY <2>2, Stages
  <2> QED BY <2>1, <2>2, <2>3
<1>5. CASE RecordOutcomeFails(r, n)
  <2>1. handler'[r][n] = "none"
    BY <1>5 DEF RecordOutcomeFails, ExecutorTypeOK
  <2>2. /\ handler[r][n] \in Outcomes
        /\ UNCHANGED slot /\ UNCHANGED effects /\ UNCHANGED answered
    BY <1>5 DEF RecordOutcomeFails
  <2>3. InOrder(slot[r][n].outcome, "none", effects[r][n], answered[r][n])
    BY <2>2, Stages
  <2> QED BY <2>1, <2>2, <2>3
<1>6. CASE Replay(r, n)
  <2>1. answered'[r][n] = answered[r][n] \union {slot[r][n].outcome}
    BY <1>6 DEF Replay, ExecutorTypeOK
  <2>2. UNCHANGED slot /\ UNCHANGED handler /\ UNCHANGED effects
    BY <1>6 DEF Replay
  <2>3. slot[r][n].outcome \in Outcomes
    BY <1>6 DEF Replay, Resolved
  <2>4. answered[r][n] \subseteq {slot[r][n].outcome}
    BY DEF InOrder
  <2>5. answered'[r][n] = {slot[r][n].outcome}
    BY <2>1, <2>4
  <2> QED BY <2>2, <2>3, <2>5, Stages
<1> QED BY <1>1, <1>2, <1>3, <1>4, <1>5, <1>6 DEF Operation

\* The inductive invariant holds throughout.
LEMMA Invariance == ExecutorSpec => []ExecutorInv
<1>1. ExecutorInit => ExecutorInv
  BY InitInv
<1>2. ExecutorInv /\ [ExecutorNext]_executorVars => ExecutorInv'
  <2> SUFFICES ASSUME ExecutorInv, [ExecutorNext]_executorVars PROVE ExecutorInv'
    OBVIOUS
  <2>1. CASE UNCHANGED executorVars
    BY <2>1 DEF executorVars, ExecutorInv, ExecutorTypeOK, SlotInv, Numbers, Slots
  <2>2. CASE ExecutorNext
    <3>1. PICK q \in Records, k \in Numbers : Operation(q, k)
      BY <2>2 DEF ExecutorNext, Operation
    <3>2. ExecutorTypeOK'
      BY <3>1, TypeStep DEF ExecutorInv
    <3>3. ASSUME NEW r \in Records, NEW n \in Numbers PROVE SlotInv(r, n)'
      <4>1. CASE r = q /\ n = k
        BY <3>1, <4>1, OwnSlot DEF ExecutorInv
      <4>2. CASE r # q \/ n # k
        BY <3>1, <4>2, OtherSlots DEF ExecutorInv, SlotInv
      <4> QED BY <4>1, <4>2
    <3> QED BY <3>2, <3>3 DEF ExecutorInv, Numbers
  <2> QED BY <2>1, <2>2
<1> QED BY <1>1, <1>2, PTL DEF ExecutorSpec

\* The tables and the calls in flight are always well formed.
THEOREM ExecutorTypes == ExecutorSpec => []ExecutorTypeOK
<1>1. ExecutorInv => ExecutorTypeOK
  BY DEF ExecutorInv
<1> QED BY <1>1, Invariance, PTL

\* However often Execute is called for an attempt and whatever fails, the
\* attempt reaches the outside world at most once.
THEOREM AtMostOnce == ExecutorSpec => []AtMostOneEffect
<1>1. ExecutorInv => AtMostOneEffect
  BY DEF ExecutorInv, ExecutorTypeOK, SlotInv, InOrder, AtMostOneEffect
<1> QED BY <1>1, Invariance, PTL

\* Every caller of one attempt is given the same answer, and only after the
\* action has run.
THEOREM SameAnswer == ExecutorSpec => []AnswersAreRecorded
<1>1. ExecutorInv => AnswersAreRecorded
  BY DEF ExecutorInv, SlotInv, InOrder, AnswersAreRecorded
<1> QED BY <1>1, Invariance, PTL

\* A claim is never released and a recorded outcome never rewritten.
THEOREM OnlyForward == ExecutorSpec => SlotsOnlyMoveForward
<1> DEFINE Forward ==
      \A r \in Records, n \in Numbers :
        /\ Exists(r, n) => slot'[r][n].action = slot[r][n].action
                           /\ slot'[r][n].at = slot[r][n].at
                           /\ slot'[r][n].outcome # NoRow
        /\ Resolved(r, n) => slot'[r][n] = slot[r][n]
<1>1. ExecutorInv /\ [ExecutorNext]_executorVars => [Forward]_executorVars
  <2> SUFFICES ASSUME ExecutorInv, ExecutorNext,
                      NEW r \in Records, NEW n \in Numbers
               PROVE /\ Exists(r, n) => slot'[r][n].action = slot[r][n].action
                                        /\ slot'[r][n].at = slot[r][n].at
                                        /\ slot'[r][n].outcome # NoRow
                     /\ Resolved(r, n) => slot'[r][n] = slot[r][n]
    OBVIOUS
  <2>1. PICK q \in Records, k \in Numbers : Operation(q, k)
    BY DEF ExecutorNext, Operation
  <2> USE DEF Exists, Resolved, Outcomes, NoRow, ClaimMarker
  <2>2. CASE slot'[r][n] = slot[r][n]
    BY <2>2
  <2>3. CASE slot'[r][n] # slot[r][n]
    <3>1. r = q /\ n = k
      BY <2>1, <2>3, OtherSlots DEF ExecutorInv
    <3>2. ~UNCHANGED slot
      BY <2>3
    <3>3. CASE RecordOutcome(r, n)
      <4>1. ExecutorTypeOK /\ handler[r][n] \in Outcomes
        BY <3>3 DEF RecordOutcome, ExecutorInv
      <4>2. slot[r][n].outcome = ClaimMarker
        BY <4>1 DEF ExecutorInv, SlotInv, InOrder
      <4>3. /\ slot'[r][n].outcome = handler[r][n]
            /\ slot'[r][n].action = slot[r][n].action
            /\ slot'[r][n].at = slot[r][n].at
        BY <3>3, <4>1, AfterRecordOutcome
      <4> QED BY <4>1, <4>2, <4>3
    <3>4. CASE ~Exists(r, n)
      BY <3>4
    <3> QED
      BY <2>1, <3>1, <3>2, <3>3, <3>4
      DEF Operation, ClaimSlot, Perform, PerformFails, RecordOutcomeFails, Replay
  <2> QED BY <2>2, <2>3
<1> QED BY <1>1, Invariance, PTL DEF ExecutorSpec, SlotsOnlyMoveForward
=============================================================================
