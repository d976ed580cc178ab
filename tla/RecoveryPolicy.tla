--------------------------- MODULE RecoveryPolicy ---------------------------
(***************************************************************************)
(* The pure policy of the Decision Engine: guardrails, the economics gate  *)
(* and the due times, as the code computes them from values it has already *)
(* loaded (engine/guardrails.go, engine/state.go, engine/schedule.go,      *)
(* economics/score.go).  Nothing here has state.                           *)
(*                                                                         *)
(* Time is a natural number of ticks since the records were created.  A    *)
(* day has DayLength ticks and tick t falls in hour t % DayLength of its   *)
(* day, so the contact window [OpenHour, CloseHour) is the code's          *)
(* [10, 21) on a shorter clock.  Money is an integer number of paise and   *)
(* an expected value is kept in paise times BpsPerUnit, so no division     *)
(* happens and the comparison with zero is exact.                          *)
(***************************************************************************)
EXTENDS Integers, Sequences, FiniteSets

CONSTANTS
  MaxRetries,       \* hard cap on debit re-attempts per record
  MaxContacts,      \* hard cap on customer contacts per record
  ContactCooldown,  \* minimum gap between two contacts
  RecoveryWindow,   \* no spending once a record is this old
  RetryDelay,       \* backoff of a retry whose bucket has no calendar rule
  NudgeDelay,       \* wait before a scheduled nudge is due
  DayLength,        \* ticks in a day
  OpenHour,         \* first hour of the day a customer may be contacted
  CloseHour,        \* first hour of the day a customer may not be contacted
  Priors,           \* [action -> [bucket -> row]], configs/recovery_priors.yaml
  Costs,            \* [action -> paise], configs/intervention_costs.yaml
  BeyondListed      \* lift of an attempt the table does not list

ASSUME PolicyAssumption ==
  /\ MaxRetries \in Nat \ {0} /\ MaxContacts \in Nat \ {0}
  /\ ContactCooldown \in Nat \ {0} /\ RecoveryWindow \in Nat \ {0}
  /\ RetryDelay \in Nat /\ NudgeDelay \in Nat
  /\ DayLength \in Nat \ {0} /\ OpenHour \in Nat /\ CloseHour \in Nat
  /\ OpenHour < CloseHour /\ CloseHour <= DayLength
  /\ BeyondListed \in Int

\* SQL NULL and Go's nil for a time.
Null == -1
BpsPerUnit == 10000

Nudges == {"NUDGE_METHOD_UPDATE", "NUDGE_REMINDER"}
SpendingActions == {"RETRY"} \union Nudges
\* pending_action of a record with nothing scheduled.
NoAction == "UNSPECIFIED"

IsNudge(action) == action \in Nudges

-----------------------------------------------------------------------------
(***************************************************************************)
(* Guardrails.  h is the attempt history: how many retries and contacts    *)
(* have a row in INTERVENTION_ATTEMPT, and when the last contact was       *)
(* claimed (Null when there was none).  Records are created at tick 0, so  *)
(* a record's age is the time.                                             *)
(***************************************************************************)
WindowClosed(now) == now >= RecoveryWindow

\* Mutant: the cap allows one retry too many.
RetryBudgetOffByOne(h) == h.retries > MaxRetries

RetryBudgetSpent(h) == h.retries >= MaxRetries

\* Mutant: contacts are counted, their spacing is not looked at.
ContactCapOnly(h, now) == h.contacts >= MaxContacts

ContactBlocked(h, now) ==
  \/ h.contacts >= MaxContacts
  \/ h.lastContact # Null /\ now - h.lastContact < ContactCooldown

Blocked(h, now) ==
  IF WindowClosed(now) THEN SpendingActions
  ELSE (IF RetryBudgetSpent(h) THEN {"RETRY"} ELSE {})
       \union (IF ContactBlocked(h, now) THEN Nudges ELSE {})

\* A downtime holds RETRY back only when nothing permanent already blocks it.
HeldByDowntime(h, downtime, now) == downtime /\ "RETRY" \notin Blocked(h, now)

Permitted(h, downtime, now) ==
  (SpendingActions \ Blocked(h, now))
    \ (IF HeldByDowntime(h, downtime, now) THEN {"RETRY"} ELSE {})

-----------------------------------------------------------------------------
(***************************************************************************)
(* Economics.                                                              *)
(***************************************************************************)
AttemptNumberFor(action, h) ==
  IF action = "RETRY" THEN h.retries + 1 ELSE h.contacts + 1

\* A prior row is [all |-> lift or Null, listed |-> lifts of attempts 1..3].
LiftBps(action, bucket, attemptNo) ==
  IF bucket \notin DOMAIN Priors[action] THEN BeyondListed
  ELSE LET prior == Priors[action][bucket]
       IN  IF prior.all # Null THEN prior.all
           ELSE IF attemptNo \in DOMAIN prior.listed THEN prior.listed[attemptNo]
           ELSE BeyondListed

ExpectedValue(action, bucket, h, amount) ==
  LiftBps(action, bucket, AttemptNumberFor(action, h)) * amount
    - Costs[action] * BpsPerUnit

(***************************************************************************)
(* The candidates are scored in a fixed order and an equal score keeps the *)
(* earlier one; a retry held by a downtime is appended last.               *)
(***************************************************************************)
Position(action, held) ==
  CASE action = "NUDGE_METHOD_UPDATE" -> 2
    [] action = "NUDGE_REMINDER" -> 3
    [] OTHER -> IF held THEN 4 ELSE 1

IsBest(action, candidates, held, bucket, h, amount) ==
  LET EV(a) == ExpectedValue(a, bucket, h, amount)
  IN  /\ action \in candidates
      /\ EV(action) > 0
      /\ \A other \in candidates :
            \/ EV(other) < EV(action)
            \/ /\ EV(other) = EV(action)
               /\ Position(action, held) <= Position(other, held)

ScheduledState(action) ==
  IF action = "RETRY" THEN "RETRY_SCHEDULED" ELSE "NUDGE_SCHEDULED"

(***************************************************************************)
(* Guardrails filter, then economics decides: the next state of a record   *)
(* in Scoring and the action it waits for.                                 *)
(***************************************************************************)
ScoreAndRoute(bucket, h, downtime, amount, now) ==
  LET held       == HeldByDowntime(h, downtime, now)
      candidates == Permitted(h, downtime, now) \union (IF held THEN {"RETRY"} ELSE {})
      Best(a)    == IsBest(a, candidates, held, bucket, h, amount)
  IN  IF candidates = {} THEN [state |-> "ESCALATED", action |-> NoAction]
      ELSE IF \A a \in candidates : ~Best(a)
           THEN [state |-> "CLOSED_UNECONOMIC", action |-> NoAction]
      ELSE LET best == CHOOSE a \in candidates : Best(a)
           IN  [state |-> ScheduledState(best), action |-> best]

-----------------------------------------------------------------------------
(***************************************************************************)
(* Due times.  A hard decline or a risk hold never gets one, and a nudge   *)
(* that would be due outside contact hours waits for the next opening.     *)
(***************************************************************************)
NeverRetried == {"HARD_DECLINE", "RISK_HOLD"}

RetryDueAt(bucket, now) ==
  IF bucket \in NeverRetried THEN Null ELSE now + RetryDelay

Hour(t) == t % DayLength

InContactWindow(t) == Hour(t) >= OpenHour /\ Hour(t) < CloseHour

ContactHourWindow(due) ==
  IF InContactWindow(due) THEN due
  ELSE IF Hour(due) < OpenHour THEN due + (OpenHour - Hour(due))
  ELSE due + (DayLength - Hour(due)) + OpenHour

\* Mutant: only a retry is given a due time.
DueAtForRetries(state, bucket, now) ==
  IF state = "RETRY_SCHEDULED" THEN RetryDueAt(bucket, now) ELSE Null

DueAt(state, bucket, now) ==
  CASE state = "RETRY_SCHEDULED" -> RetryDueAt(bucket, now)
    [] state = "NUDGE_SCHEDULED" -> ContactHourWindow(now + NudgeDelay)
    [] OTHER -> Null
=============================================================================
