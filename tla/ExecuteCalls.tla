---------------------------- MODULE ExecuteCalls ----------------------------
(***************************************************************************)
(* The Execute RPC statement by statement: any number of calls, each       *)
(* between two of its database or port operations, on any pod.  Executor   *)
(* is what they promise together: at most one of them holds a slot.        *)
(*                                                                         *)
(* A call inserts its row; if it wins it acts at the port and updates the  *)
(* row it inserted, if it loses it polls the row for a while and gives up  *)
(* with Aborted when nobody fills it in.                                   *)
(***************************************************************************)
EXTENDS Integers, FiniteSets

CONSTANTS
  Calls,        \* Execute calls
  Records, MaxAttempts, Actions, MaxTime,
  PollBudget,   \* reads of the row before a duplicate gives up
  Faulty        \* TRUE: database and port errors, and crashes

ASSUME CallsAssumption ==
  /\ MaxAttempts \in Nat /\ MaxTime \in Nat
  /\ PollBudget \in Nat \ {0} /\ Faulty \in BOOLEAN

VARIABLES call, slot, effects, answered
vars == <<call, slot, effects, answered>>

Numbers  == 1..MaxAttempts
Outcomes == {"SUCCESS", "FAILURE", "PENDING"}

\* What each slot's claimant is doing, which is all Executor knows of calls.
Claimants(r, n) ==
  {c \in Calls : call[c].record = r /\ call[c].number = n
                 /\ call[c].pc \in {"port", "save"}}
handler ==
  [r \in Records |-> [n \in Numbers |->
     IF Claimants(r, n) = {} THEN "none"
     ELSE LET c == CHOOSE c \in Claimants(r, n) : TRUE
          IN  IF call[c].pc = "port" THEN "port" ELSE call[c].outcome]]

Slots == INSTANCE Executor WITH PortMayFail <- Faulty

\* Before a call arrives: pc "new".  Afterwards: "claim" the slot, act at the
\* "port", "save" the outcome and "answer", or "await" it; then "returned" or
\* "error".
PCs == {"new", "claim", "port", "save", "answer", "await", "returned", "error"}

TypeOK ==
  /\ call \in [Calls -> [pc : PCs, record : Records, number : Numbers,
                         action : Actions, outcome : Outcomes \union {"none"},
                         polls : 0..PollBudget]]
  /\ Slots!ExecutorTypeOK

Init ==
  /\ call \in [Calls -> [pc : {"new"}, record : Records, number : Numbers,
                         action : Actions, outcome : {"none"}, polls : {0}]]
  /\ slot = [r \in Records |-> [n \in Numbers |-> Slots!EmptySlot]]
  /\ effects = [r \in Records |-> [n \in Numbers |-> 0]]
  /\ answered = [r \in Records |-> [n \in Numbers |-> {}]]

Goto(c, pc) == call' = [call EXCEPT ![c].pc = pc]

-----------------------------------------------------------------------------
Arrive(c) ==
  /\ call[c].pc = "new"
  /\ Goto(c, "claim")
  /\ UNCHANGED <<slot, effects, answered>>

\* The unique constraint on (record, attempt number) decides who goes on.
Claim(c) ==
  LET r == call[c].record
      n == call[c].number
  IN  /\ call[c].pc = "claim"
      /\ IF slot[r][n].outcome = Slots!NoRow
         THEN /\ \E at \in 0..MaxTime :
                   slot' = [slot EXCEPT ![r][n] =
                              [action |-> call[c].action,
                               outcome |-> Slots!ClaimMarker, at |-> at]]
              /\ Goto(c, "port")
         ELSE /\ Goto(c, "await")
              /\ UNCHANGED slot
      /\ UNCHANGED <<effects, answered>>

Perform(c) ==
  LET r == call[c].record
      n == call[c].number
  IN  /\ call[c].pc = "port"
      /\ effects' = [effects EXCEPT ![r][n] = @ + 1]
      /\ \E o \in Outcomes :
           call' = [call EXCEPT ![c].pc = "save", ![c].outcome = o]
      /\ UNCHANGED <<slot, answered>>

\* The update of the row by its id.
Save(c) ==
  LET r == call[c].record
      n == call[c].number
  IN  /\ call[c].pc = "save"
      /\ slot' = [slot EXCEPT ![r][n].outcome = call[c].outcome]
      /\ Goto(c, "answer")
      /\ UNCHANGED <<effects, answered>>

\* The claimant answers with what the port told it.
Answer(c) ==
  /\ call[c].pc = "answer"
  /\ answered' = [answered EXCEPT ![call[c].record][call[c].number] =
                    @ \union {call[c].outcome}]
  /\ Goto(c, "returned")
  /\ UNCHANGED <<slot, effects>>

\* Mutant: a duplicate never gives up.
AwaitForever(c) ==
  LET r == call[c].record
      n == call[c].number
  IN  /\ call[c].pc = "await"
      /\ Slots!Resolved(r, n)
      /\ answered' = [answered EXCEPT ![r][n] = @ \union {slot[r][n].outcome}]
      /\ call' = [call EXCEPT ![c].pc = "returned", ![c].outcome = slot[r][n].outcome]
      /\ UNCHANGED <<slot, effects>>

\* Mutant: a duplicate that has waited long enough answers for the claimant.
AwaitThenFailure(c) ==
  LET r == call[c].record
      n == call[c].number
  IN  /\ call[c].pc = "await"
      /\ call' = [call EXCEPT ![c].pc = "returned", ![c].outcome = "FAILURE"]
      /\ answered' = [answered EXCEPT ![r][n] = @ \union {"FAILURE"}]
      /\ UNCHANGED <<slot, effects>>

\* A duplicate reads the row until its outcome is there, or its time is up.
Await(c) ==
  LET r == call[c].record
      n == call[c].number
  IN  /\ call[c].pc = "await"
      /\ IF Slots!Resolved(r, n)
         THEN /\ answered' = [answered EXCEPT ![r][n] = @ \union {slot[r][n].outcome}]
              /\ call' = [call EXCEPT ![c].pc = "returned",
                                      ![c].outcome = slot[r][n].outcome]
         ELSE /\ call' = [call EXCEPT ![c].polls = @ + 1,
                            ![c].pc = IF call[c].polls + 1 < PollBudget
                                      THEN "await" ELSE "error"]
              /\ UNCHANGED answered
      /\ UNCHANGED <<slot, effects>>

\* A port error, a database error, or the end of the process: whatever the call
\* had claimed stays claimed, and the port may have been reached.
Fails(c) ==
  LET r == call[c].record
      n == call[c].number
  IN  /\ Faulty
      /\ call[c].pc \in {"claim", "port", "save", "answer", "await"}
      /\ \/ UNCHANGED effects
         \/ /\ call[c].pc = "port"
            /\ effects' = [effects EXCEPT ![r][n] = @ + 1]
      /\ Goto(c, "error")
      /\ UNCHANGED <<slot, answered>>

Serve(c) == Claim(c) \/ Perform(c) \/ Save(c) \/ Answer(c) \/ Await(c)
Next == \E c \in Calls : Arrive(c) \/ Serve(c) \/ Fails(c)

Spec == Init /\ [][Next]_vars

\* Each call is a goroutine of its own, and runs.
FairSpec == Spec /\ \A c \in Calls : WF_vars(Serve(c))

-----------------------------------------------------------------------------
\* The calls together are the Executor: one claimant per slot, one effect, and
\* every answer the recorded one.
ImplementsExecutor == Slots!ExecutorSpec

\* No call waits forever, not even on a claimant that died: it is answered or
\* told that the attempt was abandoned.
EveryCallEnds ==
  \A c \in Calls : call[c].pc = "claim" ~> call[c].pc \in {"returned", "error"}
=============================================================================
