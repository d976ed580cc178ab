------------------------------ MODULE Executor ------------------------------
(***************************************************************************)
(* The Executor: INTERVENTION_ATTEMPT, the table that makes an action      *)
(* idempotent, and the calls of Execute in flight against it.              *)
(*                                                                         *)
(* A call first inserts the row of (record, attempt number); the unique    *)
(* constraint lets one call in ever.  Only that call performs the action   *)
(* at the outside port and then writes its outcome over the claim marker.  *)
(* Every other call answers from the row.                                  *)
(***************************************************************************)
EXTENDS Integers, FiniteSets

CONSTANTS
  Records,      \* record ids that exist
  MaxAttempts,  \* bound: attempt numbers are 1..MaxAttempts
  Actions,      \* actions Execute accepts
  MaxTime,      \* bound on the clock readings stored in a row
  PortMayFail   \* TRUE when a port call may return an error, or the Executor
                \* may die or fail to write, between the claim and the outcome

ASSUME ExecutorAssumption ==
  MaxAttempts \in Nat /\ MaxTime \in Nat /\ PortMayFail \in BOOLEAN

VARIABLES
  slot,      \* [record -> [attempt number -> row]]
  handler,   \* the claiming call of each slot: "none", "port" or an outcome
  effects,   \* how often the action of each slot really reached a port
  answered   \* the outcomes Execute has returned for each slot
executorVars == <<slot, handler, effects, answered>>

Numbers  == 1..MaxAttempts
Outcomes == {"SUCCESS", "FAILURE", "PENDING"}
\* The outcome column while the action runs, and of a row that does not exist.
ClaimMarker == "UNSPECIFIED"
NoRow       == "no row"
EmptySlot   == [action |-> "UNSPECIFIED", outcome |-> NoRow, at |-> 0]

Slots ==
  [action : Actions \union {"UNSPECIFIED"},
   outcome : Outcomes \union {ClaimMarker, NoRow}, at : 0..MaxTime]

ExecutorTypeOK ==
  /\ slot \in [Records -> [Numbers -> Slots]]
  /\ handler \in [Records -> [Numbers -> Outcomes \union {"none", "port"}]]
  /\ effects \in [Records -> [Numbers -> Nat]]
  /\ answered \in [Records -> [Numbers -> SUBSET Outcomes]]

ExecutorInit ==
  /\ slot = [r \in Records |-> [n \in Numbers |-> EmptySlot]]
  /\ handler = [r \in Records |-> [n \in Numbers |-> "none"]]
  /\ effects = [r \in Records |-> [n \in Numbers |-> 0]]
  /\ answered = [r \in Records |-> [n \in Numbers |-> {}]]

Exists(r, n)   == slot[r][n].outcome # NoRow
Resolved(r, n) == slot[r][n].outcome \in Outcomes

-----------------------------------------------------------------------------
\* Mutant: a second call replaces the row instead of being refused.
ClaimAgain(r, n, action, now) ==
  /\ slot' = [slot EXCEPT ![r][n] =
                [action |-> action, outcome |-> ClaimMarker, at |-> now]]
  /\ handler' = [handler EXCEPT ![r][n] = "port"]
  /\ UNCHANGED <<effects, answered>>

\* The insert succeeds: this call, and no other, will perform the action.
ClaimSlot(r, n, action, now) ==
  /\ ~Exists(r, n)
  /\ slot' = [slot EXCEPT ![r][n] =
                [action |-> action, outcome |-> ClaimMarker, at |-> now]]
  /\ handler' = [handler EXCEPT ![r][n] = "port"]
  /\ UNCHANGED <<effects, answered>>

\* The port performs the action and answers o; the row still holds the marker.
Perform(r, n, o) ==
  /\ handler[r][n] = "port"
  /\ effects' = [effects EXCEPT ![r][n] = @ + 1]
  /\ handler' = [handler EXCEPT ![r][n] = o]
  /\ UNCHANGED <<slot, answered>>

\* Mutant: a port error is recorded as a failed attempt.
ErrorIsFailure(r, n) ==
  /\ PortMayFail
  /\ handler[r][n] = "port"
  /\ \E reached \in 0..1 : effects' = [effects EXCEPT ![r][n] = @ + reached]
  /\ handler' = [handler EXCEPT ![r][n] = "FAILURE"]
  /\ UNCHANGED <<slot, answered>>

\* The port call returns an error, the action having reached it or not.  The
\* slot stays claimed.
PerformFails(r, n) ==
  /\ PortMayFail
  /\ handler[r][n] = "port"
  /\ \E reached \in 0..1 : effects' = [effects EXCEPT ![r][n] = @ + reached]
  /\ handler' = [handler EXCEPT ![r][n] = "none"]
  /\ UNCHANGED <<slot, answered>>

RecordOutcome(r, n) ==
  /\ handler[r][n] \in Outcomes
  /\ slot' = [slot EXCEPT ![r][n].outcome = handler[r][n]]
  /\ handler' = [handler EXCEPT ![r][n] = "none"]
  /\ UNCHANGED <<effects, answered>>

\* The process dies, or the write fails, after the action ran.
RecordOutcomeFails(r, n) ==
  /\ PortMayFail
  /\ handler[r][n] \in Outcomes
  /\ handler' = [handler EXCEPT ![r][n] = "none"]
  /\ UNCHANGED <<slot, effects, answered>>

\* A call, the claimant or a duplicate, returns the recorded outcome.
Replay(r, n) ==
  /\ Resolved(r, n)
  /\ answered' = [answered EXCEPT ![r][n] = @ \union {slot[r][n].outcome}]
  /\ UNCHANGED <<slot, handler, effects>>

-----------------------------------------------------------------------------
\* Any caller may call with any number at any time and repeat itself.
ExecutorNext ==
  \E r \in Records, n \in Numbers :
     \/ \E a \in Actions, t \in 0..MaxTime : ClaimSlot(r, n, a, t)
     \/ \E o \in Outcomes : Perform(r, n, o)
     \/ PerformFails(r, n)
     \/ RecordOutcome(r, n)
     \/ RecordOutcomeFails(r, n)
     \/ Replay(r, n)

ExecutorSpec == ExecutorInit /\ [][ExecutorNext]_executorVars

-----------------------------------------------------------------------------
\* However often Execute is called, and whatever fails in between, one attempt
\* reaches the outside world at most once: no customer is debited or messaged
\* twice for it.
AtMostOneEffect == \A r \in Records, n \in Numbers : effects[r][n] <= 1

\* An answer is never invented: it is the one the port gave, the action ran
\* before it was given, and every later answer repeats it.
AnswersAreRecorded ==
  \A r \in Records, n \in Numbers :
     answered[r][n] # {} =>
        effects[r][n] = 1 /\ answered[r][n] = {slot[r][n].outcome}

\* A claimed slot is never released, not even when its action failed at the
\* port, and a recorded outcome is never rewritten.
SlotsOnlyMoveForward ==
  [][\A r \in Records, n \in Numbers :
       /\ Exists(r, n) => slot'[r][n].action = slot[r][n].action
                          /\ slot'[r][n].at = slot[r][n].at
                          /\ slot'[r][n].outcome # NoRow
       /\ Resolved(r, n) => slot'[r][n] = slot[r][n]]_executorVars
=============================================================================
