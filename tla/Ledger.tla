------------------------------- MODULE Ledger -------------------------------
(***************************************************************************)
(* What the readers of the system find in Postgres while payments are      *)
(* being recovered: the lifecycle of RecordLifecycle with the rows it      *)
(* leaves behind.  Each step of a record is one transaction that moves     *)
(* RECORD_STATE and appends to AUDIT_ENTRY; the Executor's rows of         *)
(* INTERVENTION_ATTEMPT are written by another service, before the         *)
(* transaction that accounts for them.                                     *)
(***************************************************************************)
EXTENDS RecordLifecycle, SequencesExt, FiniteSetsExt, Functions

CONSTANTS
  Amount,  \* [record -> amount_paise]
  Cost     \* what any intervention costs

ASSUME LedgerAssumption ==
  Cost \in Nat /\ Amount \in [Records -> Nat] /\ MaxSpent \in Nat /\ IsFiniteSet(Records)

VARIABLES
  trail,    \* AUDIT_ENTRY by record: sequences of [from, to]
  attempts  \* INTERVENTION_ATTEMPT by record: sequences of [outcome, cost]
ledgerVars == <<state, spent, inFlight, trail, attempts>>

Outcomes       == {"SUCCESS", "FAILURE", "PENDING"}
ClaimMarker    == "UNSPECIFIED"
LastOutcome(r) == Last(attempts[r]).outcome

LedgerInit ==
  /\ Init
  /\ trail = [r \in Records |-> <<>>]
  /\ attempts = [r \in Records |-> <<>>]

-----------------------------------------------------------------------------
\* The edges of one transaction.  A record that is scored passes through SCORING.
Path(from, to, scored) ==
  IF scored THEN <<[from |-> from, to |-> "SCORING"], [from |-> "SCORING", to |-> to]>>
  ELSE <<[from |-> from, to |-> to]>>

\* Mutant: the trail is written by a statement of its own, which may fail.
CommitStateOnly(r, scored) ==
  /\ \/ trail' = [trail EXCEPT ![r] = @ \o Path(state[r], state'[r], scored)]
     \/ UNCHANGED trail
  /\ UNCHANGED attempts

\* RECORD_STATE moves and AUDIT_ENTRY grows in the same transaction.
Commit(r, scored) ==
  /\ trail' = [trail EXCEPT ![r] = @ \o Path(state[r], state'[r], scored)]
  /\ UNCHANGED attempts

\* A payment is classified: escalated at once, or scored.
RecordIntake(r) ==
  /\ Intake(r)
  /\ \E scored \in BOOLEAN : (scored \/ state'[r] = "ESCALATED") /\ Commit(r, scored)

\* Readers tell no batch of claims from claims one after the other.
RecordClaim(r) == Claim({r}) /\ Commit(r, FALSE)

\* The customer's late answer: paid, or scored once more.
RecordAnswer(r) == Answer(r) /\ Commit(r, state'[r] # "RECOVERED")

\* What the outcome of an intervention makes of its record.
Decide(r) ==
  CASE LastOutcome(r) = "SUCCESS" -> state'[r] = "RECOVERED" /\ Commit(r, FALSE)
    [] LastOutcome(r) = "FAILURE" -> state'[r] \in Routed /\ Commit(r, TRUE)
    [] LastOutcome(r) = "PENDING" ->
         state'[r] = (IF state[r] = "NUDGED" THEN "NUDGED" ELSE "ESCALATED") /\ Commit(r, FALSE)

RecordAccount(r) ==
  /\ Len(attempts[r]) = spent[r] + 1 /\ LastOutcome(r) \in Outcomes
  /\ Account(r)
  /\ Decide(r)

\* The Executor claims a slot, at no cost yet, and then knows its outcome.
ClaimAttempt(r) ==
  /\ inFlight[r] /\ Len(attempts[r]) = spent[r]
  /\ attempts' = [attempts EXCEPT ![r] = Append(@, [outcome |-> ClaimMarker, cost |-> 0])]
  /\ UNCHANGED <<lifecycleVars, trail>>

RecordOutcome(r) ==
  /\ attempts[r] # <<>> /\ LastOutcome(r) = ClaimMarker
  /\ \E o \in Outcomes :
       attempts' = [attempts EXCEPT ![r][Len(attempts[r])] = [outcome |-> o, cost |-> Cost]]
  /\ UNCHANGED <<lifecycleVars, trail>>

Transact(r) == RecordIntake(r) \/ RecordClaim(r) \/ RecordAccount(r) \/ RecordAnswer(r)
LedgerStep(r) == Transact(r) \/ ClaimAttempt(r) \/ RecordOutcome(r)
LedgerNext == \E r \in Records : LedgerStep(r)

-----------------------------------------------------------------------------
\* COALESCE(SUM(amount_paise), 0) over a set of records.
AmountOf(S) == SumFunctionOnSet(Amount, S)
Recovered == {r \in Records : state[r] = "RECOVERED"}

\* All that has been spent on a record, and on a set of them.
SpentOn(r)  == SumFunction([i \in DOMAIN attempts[r] |-> attempts[r][i].cost])
Spending(S) == SumFunctionOnSet([r \in S |-> SpentOn(r)], S)
=============================================================================
