-------------------------- MODULE RecordLifecycle --------------------------
(***************************************************************************)
(* What the Decision Engine promises about one record's life, and what the *)
(* Audit service checks it against: the state machine of its transition    *)
(* table, with the number of interventions spent so far.                   *)
(*                                                                         *)
(* state[r]    the record's RECORD_STATE, "NEW" before it has one          *)
(* spent[r]    interventions that have run and been accounted for          *)
(* inFlight[r] an intervention has been claimed and not accounted for yet  *)
(***************************************************************************)
EXTENDS Integers, Sequences

CONSTANTS Records, MaxSpent

VARIABLES state, spent, inFlight
lifecycleVars == <<state, spent, inFlight>>

Waiting  == {"RETRY_SCHEDULED", "NUDGE_SCHEDULED"}
Claimed  == {"RETRYING", "NUDGED"}
Terminal == {"RECOVERED", "ESCALATED", "CLOSED_UNECONOMIC"}
RestStates == {"NEW"} \union Waiting \union Claimed \union Terminal

\* The edges the Audit service accepts in a record's trail.
AllowedTransitions ==
  ({"NEW"} \X {"SCORING", "ESCALATED"})
    \union ({"SCORING"} \X (Waiting \union {"CLOSED_UNECONOMIC", "ESCALATED"}))
    \union {<<"RETRY_SCHEDULED", "RETRYING">>, <<"NUDGE_SCHEDULED", "NUDGED">>}
    \union ({"RETRYING"} \X {"RECOVERED", "SCORING", "ESCALATED"})
    \union ({"NUDGED"} \X {"NUDGED", "RECOVERED", "SCORING", "ESCALATED"})

(***************************************************************************)
(* The Audit service's verdict on a record whose persisted state is        *)
(* current and whose trail is the sequence of entries [from, to, ...].     *)
(***************************************************************************)
IncompleteTrail(current, entries) ==
  \/ entries = <<>>
  \/ entries # <<>> /\ entries[Len(entries)].to # current

ImpossibleTransition(entries) ==
  \E i \in 1..Len(entries) :
     \/ i > 1 /\ entries[i].from # entries[i - 1].to
     \/ <<entries[i].from, entries[i].to>> \notin AllowedTransitions

TrailComplete(current, entries) ==
  current # "NEW" =>
    ~IncompleteTrail(current, entries) /\ ~ImpossibleTransition(entries)

-----------------------------------------------------------------------------
Init ==
  /\ state = [r \in Records |-> "NEW"]
  /\ spent = [r \in Records |-> 0]
  /\ inFlight = [r \in Records |-> FALSE]

\* Scoring is passed through within one step: a record never rests there.
Routed == Waiting \union {"CLOSED_UNECONOMIC", "ESCALATED"}

Intake(r) ==
  /\ state[r] = "NEW"
  /\ \E s \in Routed : state' = [state EXCEPT ![r] = s]
  /\ UNCHANGED <<spent, inFlight>>

\* The scheduler takes waiting records whose time has come, a batch of them in one
\* transaction.
Claim(batch) ==
  /\ batch # {}
  /\ \A r \in batch : state[r] \in Waiting /\ spent[r] < MaxSpent
  /\ state' = [r \in Records |->
                 IF r \notin batch THEN state[r]
                 ELSE IF state[r] = "RETRY_SCHEDULED" THEN "RETRYING" ELSE "NUDGED"]
  /\ inFlight' = [r \in Records |-> r \in batch \/ inFlight[r]]
  /\ UNCHANGED spent

\* The claimed intervention is accounted for, once: it recovered the record,
\* failed and was re-scored, or is a nudge the customer has yet to answer.
Account(r) ==
  /\ state[r] \in Claimed
  /\ inFlight[r]
  /\ \/ \E s \in Routed \union {"RECOVERED"} : state' = [state EXCEPT ![r] = s]
     \/ state[r] = "NUDGED" /\ UNCHANGED state
  /\ spent' = [spent EXCEPT ![r] = @ + 1]
  /\ inFlight' = [inFlight EXCEPT ![r] = FALSE]

\* The customer's answer to a nudge that was accounted for arrives.
Answer(r) ==
  /\ state[r] = "NUDGED"
  /\ ~inFlight[r]
  /\ \E s \in Routed \union {"RECOVERED"} : state' = [state EXCEPT ![r] = s]
  /\ UNCHANGED <<spent, inFlight>>

Next ==
  \/ \E r \in Records : Intake(r) \/ Account(r) \/ Answer(r)
  \/ \E batch \in SUBSET Records : Claim(batch)

Spec == Init /\ [][Next]_lifecycleVars
=============================================================================
