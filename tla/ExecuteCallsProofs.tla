------------------------ MODULE ExecuteCallsProofs ------------------------
(***************************************************************************)
(* For any calls, records and attempts, any faults and any patience: the   *)
(* statements of Execute implement Executor.                               *)
(***************************************************************************)
EXTENDS ExecuteCalls, TLAPS

EP == INSTANCE ExecutorProofs WITH PortMayFail <- Faulty

(***************************************************************************)
(* The calls f that hold a slot, and what they are doing with it.          *)
(***************************************************************************)
HolderOf(f, r, n) ==
  {c \in Calls : f[c].record = r /\ f[c].number = n /\ f[c].pc \in {"port", "save"}}

ActingOf(f, r, n) ==
  IF HolderOf(f, r, n) = {} THEN "none"
  ELSE LET c == CHOOSE c \in HolderOf(f, r, n) : TRUE
       IN  IF f[c].pc = "port" THEN "port" ELSE f[c].outcome

LEMMA OneEntryReplaced ==
  ASSUME NEW A, NEW B, NEW x \in A, NEW y \in B, NEW v, NEW f, NEW g,
         f = [a \in A |-> [b \in B |-> f[a][b]]],
         g = [a \in A |-> [b \in B |-> g[a][b]]],
         \A a \in A, b \in B : g[a][b] = IF a = x /\ b = y THEN v ELSE f[a][b]
  PROVE  g = [f EXCEPT ![x][y] = v]
<1>1. g[x] = [f[x] EXCEPT ![y] = v]
  <2>1. f[x] = [b \in B |-> f[x][b]] /\ g[x] = [b \in B |-> g[x][b]]
    OBVIOUS
  <2>2. \A b \in B : g[x][b] = IF b = y THEN v ELSE f[x][b]
    OBVIOUS
  <2> QED BY <2>1, <2>2
<1>2. ASSUME NEW a \in A, a # x PROVE g[a] = f[a]
  <2>1. f[a] = [b \in B |-> f[a][b]] /\ g[a] = [b \in B |-> g[a][b]]
    OBVIOUS
  <2>2. \A b \in B : g[a][b] = f[a][b]
    BY <1>2
  <2> QED BY <2>1, <2>2
<1> QED BY <1>1, <1>2

LEMMA HandlerIs ==
  /\ handler = [r \in Records |-> [n \in Numbers |-> ActingOf(call, r, n)]]
  /\ handler' = [r \in Records |-> [n \in Numbers |-> ActingOf(call', r, n)]]
  BY DEF handler, ActingOf, HolderOf, Claimants

LEMMA OneActs ==
  ASSUME NEW f, NEW r, NEW n, NEW c, HolderOf(f, r, n) = {c}
  PROVE  ActingOf(f, r, n) = IF f[c].pc = "port" THEN "port" ELSE f[c].outcome
<1>1. (CHOOSE d \in HolderOf(f, r, n) : TRUE) = c
  OBVIOUS
<1> QED BY <1>1 DEF ActingOf

(***************************************************************************)
(* The invariant: a slot is held by one call, its row bears the marker     *)
(* until that call has saved, and who answers has what the row has.        *)
(***************************************************************************)
CallTypes ==
  call \in [Calls -> [pc : PCs, record : Records, number : Numbers, action : Actions,
                      outcome : Outcomes \union {"none"}, polls : 0..PollBudget]]

TableTypes ==
  /\ slot \in [Records -> [Numbers -> Slots!Slots]]
  /\ effects \in [Records -> [Numbers -> Nat]]

Holds(c) == call[c].pc \in {"port", "save"}
RowOf(c) == slot[call[c].record][call[c].number]

InPlace(c) ==
  /\ Holds(c) => RowOf(c).outcome = Slots!ClaimMarker
  /\ call[c].pc \in {"save", "answer"} => call[c].outcome \in Outcomes
  /\ call[c].pc = "answer" => RowOf(c).outcome = call[c].outcome
  /\ call[c].pc = "await" => call[c].polls < PollBudget
  /\ call[c].pc \in {"new", "claim"} => call[c].polls = 0

OneHolder ==
  \A c, d \in Calls :
     Holds(c) /\ Holds(d) /\ call[c].record = call[d].record
     /\ call[c].number = call[d].number => c = d

CallsInv ==
  /\ CallTypes /\ TableTypes
  /\ \A c \in Calls : InPlace(c)
  /\ OneHolder

LEMMA InitCalls == Init => CallsInv
<1> SUFFICES ASSUME Init PROVE CallsInv
  OBVIOUS
<1>1. Slots!EmptySlot \in Slots!Slots
  BY CallsAssumption DEF Slots!EmptySlot, Slots!Slots, Slots!NoRow
<1>2. TableTypes
  BY <1>1 DEF Init, TableTypes
<1>3. CallTypes /\ \A c \in Calls : call[c].pc = "new" /\ call[c].polls = 0
  BY CallsAssumption DEF Init, CallTypes, PCs
<1> QED BY <1>2, <1>3 DEF CallsInv, InPlace, OneHolder, Holds

(***************************************************************************)
(* A step moves one call.                                                  *)
(***************************************************************************)
\* The call moves on with its slot, and nothing else of it changes.
Moves(c, w) ==
  /\ call' = [call EXCEPT ![c] = w]
  /\ w \in [pc : PCs, record : Records, number : Numbers, action : Actions,
            outcome : Outcomes \union {"none"}, polls : 0..PollBudget]
  /\ w.record = call[c].record /\ w.number = call[c].number

LEMMA MovesDoes ==
  ASSUME CallTypes, NEW c \in Calls, NEW w, Moves(c, w)
  PROVE  /\ CallTypes' /\ call'[c] = w
         /\ \A d \in Calls \ {c} : call'[d] = call[d]
  BY DEF Moves, CallTypes

\* The handler of the call's slot is as told, that of every other slot as it was.
LEMMA HandlerMoves ==
  ASSUME CallTypes, NEW c \in Calls, NEW w, Moves(c, w),
         NEW a, ActingOf(call', w.record, w.number) = a
  PROVE  handler' = [handler EXCEPT ![w.record][w.number] = a]
<1>1. call'[c] = w /\ \A d \in Calls \ {c} : call'[d] = call[d]
  BY MovesDoes
<1>2. ASSUME NEW r \in Records, NEW n \in Numbers, r # w.record \/ n # w.number
      PROVE  ActingOf(call', r, n) = ActingOf(call, r, n)
  <2>1. \A d \in Calls : d \in HolderOf(call', r, n) <=> d \in HolderOf(call, r, n)
    BY <1>1, <1>2 DEF HolderOf, Moves
  <2>2. PICK S : S = HolderOf(call, r, n)
    OBVIOUS
  <2>3. HolderOf(call', r, n) = S /\ c \notin S /\ S \subseteq Calls
    BY <1>2, <2>1, <2>2 DEF HolderOf, Moves
  <2>4. \A d \in S : call'[d] = call[d]
    BY <1>1, <2>3
  <2>5. S # {} => (CHOOSE d \in S : TRUE) \in S
    OBVIOUS
  <2> QED BY <2>2, <2>3, <2>4, <2>5 DEF ActingOf
<1>3. w.record \in Records /\ w.number \in Numbers
  BY DEF Moves
<1>4. PICK f, g : /\ f = handler /\ g = handler'
                  /\ f = [r \in Records |-> [n \in Numbers |-> ActingOf(call, r, n)]]
                  /\ g = [r \in Records |-> [n \in Numbers |-> ActingOf(call', r, n)]]
  BY HandlerIs
<1>5. /\ f = [r \in Records |-> [n \in Numbers |-> f[r][n]]]
      /\ g = [r \in Records |-> [n \in Numbers |-> g[r][n]]]
  BY <1>4
<1>6. \A r \in Records, n \in Numbers :
        g[r][n] = IF r = w.record /\ n = w.number THEN a ELSE f[r][n]
  BY <1>2, <1>3, <1>4
<1>7. g = [f EXCEPT ![w.record][w.number] = a]
  <2>1. PICK R : R = Records
    OBVIOUS
  <2>2. PICK N : N = Numbers
    OBVIOUS
  <2>3. PICK x \in R, y \in N : x = w.record /\ y = w.number
    BY <1>3, <2>1, <2>2
  <2>4. \A r \in R, n \in N : g[r][n] = IF r = x /\ n = y THEN a ELSE f[r][n]
    BY <1>6, <2>1, <2>2, <2>3
  <2>5. /\ f = [r \in R |-> [n \in N |-> f[r][n]]]
        /\ g = [r \in R |-> [n \in N |-> g[r][n]]]
    BY <1>5, <2>1, <2>2
  <2>6. g = [f EXCEPT ![x][y] = a]
    BY <2>4, <2>5, OneEntryReplaced
  <2> QED BY <2>3, <2>6
<1> QED BY <1>4, <1>7

\* A call that does not hold its slot before or after the step changes no handler.
LEMMA HandlerStays ==
  ASSUME CallTypes, NEW c \in Calls, NEW w, Moves(c, w), ~Holds(c),
         w.pc \notin {"port", "save"}
  PROVE  handler' = handler
<1>1. call'[c] = w /\ \A d \in Calls \ {c} : call'[d] = call[d]
  BY MovesDoes
<1>2. ASSUME NEW r, NEW n PROVE ActingOf(call', r, n) = ActingOf(call, r, n)
  <2>1. PICK S : S = HolderOf(call, r, n)
    OBVIOUS
  <2>2. HolderOf(call', r, n) = S /\ c \notin S /\ S \subseteq Calls
    BY <1>1, <2>1 DEF HolderOf, Holds
  <2>3. \A d \in S : call'[d] = call[d]
    BY <1>1, <2>2
  <2>4. S # {} => (CHOOSE d \in S : TRUE) \in S
    OBVIOUS
  <2> QED BY <2>1, <2>2, <2>3, <2>4 DEF ActingOf
<1>3. PICK f, g : /\ f = handler /\ g = handler'
                  /\ f = [r \in Records |-> [n \in Numbers |-> ActingOf(call, r, n)]]
                  /\ g = [r \in Records |-> [n \in Numbers |-> ActingOf(call', r, n)]]
  BY HandlerIs
<1> QED BY <1>2, <1>3

\* What a holder is doing is what its slot's handler says.
LEMMA HolderActs ==
  ASSUME CallsInv, NEW c \in Calls, Holds(c)
  PROVE  handler[call[c].record][call[c].number]
           = IF call[c].pc = "port" THEN "port" ELSE call[c].outcome
<1>1. PICK r \in Records, n \in Numbers : r = call[c].record /\ n = call[c].number
  BY DEF CallsInv, CallTypes
<1>2. HolderOf(call, r, n) = {c}
  BY <1>1 DEF HolderOf, CallsInv, OneHolder, Holds
<1>3. handler[r][n] = ActingOf(call, r, n)
  BY HandlerIs
<1> QED BY <1>1, <1>2, <1>3, OneActs

(***************************************************************************)
(* The invariant survives a step that moves one call.                      *)
(***************************************************************************)
\* Nobody but c can be at work on c's slot, or answer from it.
Sole(c) == Holds(c) \/ RowOf(c).outcome = Slots!NoRow

LEMMA NobodyElse ==
  ASSUME CallsInv, NEW c \in Calls, Sole(c), NEW d \in Calls \ {c},
         call[d].record = call[c].record, call[d].number = call[c].number
  PROVE  ~Holds(d) /\ call[d].pc # "answer"
<1>1. RowOf(c) = RowOf(d)
  BY DEF RowOf
<1>2. RowOf(c).outcome \in {Slots!ClaimMarker, Slots!NoRow}
  BY DEF Sole, CallsInv, InPlace
<1>3. InPlace(c) /\ InPlace(d)
  BY DEF CallsInv
<1>4. call[d].pc # "answer"
  BY <1>1, <1>2, <1>3 DEF InPlace, Outcomes, Slots!ClaimMarker, Slots!NoRow
<1>5. ~Holds(d)
  BY <1>1, <1>3 DEF CallsInv, Sole, OneHolder, InPlace, Slots!ClaimMarker, Slots!NoRow
<1> QED BY <1>4, <1>5

\* What InPlace says of a call that is as w is, beside the rows s.
Fits(w, s) ==
  LET row == s[w.record][w.number]
  IN  /\ w.pc \in {"port", "save"} => row.outcome = Slots!ClaimMarker
      /\ w.pc \in {"save", "answer"} => w.outcome \in Outcomes
      /\ w.pc = "answer" => row.outcome = w.outcome
      /\ w.pc = "await" => w.polls < PollBudget
      /\ w.pc \in {"new", "claim"} => w.polls = 0

LEMMA MoveKeepsCalls ==
  ASSUME CallsInv, NEW c \in Calls, NEW w, Moves(c, w), TableTypes', Fits(w, slot'),
         \A r \in Records, n \in Numbers :
            r # w.record \/ n # w.number => slot'[r][n] = slot[r][n],
         slot' # slot \/ w.pc \in {"port", "save"} => Sole(c)
  PROVE  CallsInv'
<1>1. CallTypes' /\ call'[c] = w /\ \A d \in Calls \ {c} : call'[d] = call[d]
  BY MovesDoes DEF CallsInv
<1>2. w.record = call[c].record /\ w.number = call[c].number
  BY DEF Moves
<1>3. ASSUME NEW d \in Calls PROVE InPlace(d)'
  <2>1. CASE d = c
    BY <1>1, <2>1 DEF InPlace, Fits, Holds, RowOf
  <2>2. CASE d # c
    <3>1. call'[d] = call[d] /\ call[d].record \in Records /\ call[d].number \in Numbers
      BY <1>1, <2>2 DEF CallsInv, CallTypes
    <3>2. \/ slot'[call[d].record][call[d].number] = slot[call[d].record][call[d].number]
          \/ ~Holds(d) /\ call[d].pc # "answer"
      BY <1>2, <2>2, <3>1, NobodyElse
    <3>3. InPlace(d)
      BY DEF CallsInv
    <3> QED BY <3>1, <3>2, <3>3 DEF InPlace, Holds, RowOf
  <2> QED BY <2>1, <2>2
<1>4. OneHolder'
  <2> SUFFICES ASSUME NEW d \in Calls, NEW e \in Calls,
                      Holds(d)', Holds(e)', (call[d].record = call[e].record)',
                      (call[d].number = call[e].number)'
               PROVE  d = e
    BY DEF OneHolder
  <2>1. CASE d # c /\ e # c
    <3>1. call'[d] = call[d] /\ call'[e] = call[e]
      BY <1>1, <2>1
    <3> QED BY <3>1 DEF CallsInv, OneHolder, Holds
  <2>2. CASE d = c /\ e # c
    <3>1. call'[e] = call[e] /\ call'[d] = w
      BY <1>1, <2>2
    <3>2. Sole(c) /\ call[e].record = call[c].record /\ call[e].number = call[c].number
      BY <1>2, <3>1, <2>2 DEF Holds
    <3>3. ~Holds(e)
      BY <2>2, <3>2, NobodyElse
    <3> QED BY <3>1, <3>3 DEF Holds
  <2>3. CASE d # c /\ e = c
    <3>1. call'[d] = call[d] /\ call'[e] = w
      BY <1>1, <2>3
    <3>2. Sole(c) /\ call[d].record = call[c].record /\ call[d].number = call[c].number
      BY <1>2, <3>1, <2>3 DEF Holds
    <3>3. ~Holds(d)
      BY <2>3, <3>2, NobodyElse
    <3> QED BY <3>1, <3>3 DEF Holds
  <2> QED BY <2>1, <2>2, <2>3
<1> QED BY <1>1, <1>3, <1>4 DEF CallsInv

LEMMA GotoMoves ==
  ASSUME CallTypes, NEW c \in Calls, NEW pc \in PCs, Goto(c, pc)
  PROVE  \E w : /\ Moves(c, w) /\ w.pc = pc
                /\ w.outcome = call[c].outcome /\ w.polls = call[c].polls
<1>1. PICK w : w = [call[c] EXCEPT !.pc = pc]
  OBVIOUS
<1>2. call' = [call EXCEPT ![c] = w]
  BY <1>1 DEF Goto
<1>3. call[c] \in [pc : PCs, record : Records, number : Numbers, action : Actions,
                   outcome : Outcomes \union {"none"}, polls : 0..PollBudget]
  BY DEF CallTypes
<1>4. w \in [pc : PCs, record : Records, number : Numbers, action : Actions,
             outcome : Outcomes \union {"none"}, polls : 0..PollBudget]
  BY <1>1, <1>3
<1>5. /\ w.pc = pc /\ w.record = call[c].record /\ w.number = call[c].number
      /\ w.outcome = call[c].outcome /\ w.polls = call[c].polls
  BY <1>1, <1>3
<1> QED BY <1>2, <1>4, <1>5 DEF Moves

(***************************************************************************)
(* The rows and the effects keep their types, and what is at other slots.  *)
(***************************************************************************)
LEMMA EffectsChange ==
  ASSUME TableTypes, NEW r \in Records, NEW n \in Numbers,
         effects' = [effects EXCEPT ![r][n] = @ + 1], UNCHANGED slot
  PROVE  TableTypes'
  BY DEF TableTypes

LEMMA OwnSlot ==
  ASSUME CallsInv, NEW c \in Calls
  PROVE  /\ call[c].record \in Records /\ call[c].number \in Numbers
         /\ call[c].action \in Actions /\ RowOf(c) \in Slots!Slots
         /\ call[c].polls \in 0..PollBudget
<1>1. call[c].record \in Records /\ call[c].number \in Numbers /\ call[c].action \in Actions
      /\ call[c].polls \in 0..PollBudget
  BY DEF CallsInv, CallTypes
<1> QED BY <1>1 DEF CallsInv, TableTypes, RowOf

(***************************************************************************)
(* Every step keeps the invariant and is a step of Executor, or none.      *)
(***************************************************************************)
LEMMA SoleActs ==
  ASSUME CallsInv', NEW c \in Calls, NEW w, call'[c] = w, w.pc \in {"port", "save"}
  PROVE  ActingOf(call', w.record, w.number)
           = IF w.pc = "port" THEN "port" ELSE w.outcome
<1>1. PICK f : f = call'
  OBVIOUS
<1>2. HolderOf(f, w.record, w.number) = {c}
  BY <1>1 DEF HolderOf, CallsInv, OneHolder, Holds
<1> QED BY <1>1, <1>2, OneActs

LEMMA NobodyActs ==
  ASSUME CallsInv, NEW c \in Calls, NEW w, Moves(c, w), Sole(c),
         w.pc \notin {"port", "save"}
  PROVE  ActingOf(call', w.record, w.number) = "none"
<1>1. PICK f : f = call'
  OBVIOUS
<1>2. call'[c] = w /\ \A d \in Calls \ {c} : call'[d] = call[d]
  BY MovesDoes DEF CallsInv
<1>3. \A d \in Calls \ {c} :
        call[d].record = w.record /\ call[d].number = w.number => ~Holds(d)
  BY NobodyElse DEF Moves
<1>4. HolderOf(f, w.record, w.number) = {}
  BY <1>1, <1>2, <1>3 DEF HolderOf, Holds
<1> QED BY <1>1, <1>4 DEF ActingOf

LEMMA ArriveMaps ==
  ASSUME CallsInv, NEW c \in Calls, Arrive(c)
  PROVE  CallsInv' /\ UNCHANGED Slots!executorVars
<1>1. PICK w : Moves(c, w) /\ w.pc = "claim" /\ w.polls = 0
  <2>1. call[c].polls = 0
    BY DEF CallsInv, InPlace, Arrive
  <2> QED BY <2>1, GotoMoves DEF Arrive, PCs, CallsInv
<1>2. TableTypes' /\ UNCHANGED <<slot, effects, answered>>
  BY DEF CallsInv, TableTypes, Arrive
<1>3. CallsInv'
  BY <1>1, <1>2, MoveKeepsCalls DEF Fits
<1>4. handler' = handler
  BY <1>1, HandlerStays DEF CallsInv, Holds, Arrive
<1> QED BY <1>2, <1>3, <1>4 DEF Slots!executorVars

LEMMA ClaimMaps ==
  ASSUME CallsInv, NEW c \in Calls, Claim(c)
  PROVE  CallsInv' /\ [Slots!ExecutorNext]_Slots!executorVars
<1>1. call[c].pc = "claim" /\ call[c].polls = 0
  BY DEF Claim, CallsInv, InPlace
<1>2. PICK r \in Records, n \in Numbers, a \in Actions :
        r = call[c].record /\ n = call[c].number /\ a = call[c].action
  BY OwnSlot
<1>3. CASE slot[r][n].outcome = Slots!NoRow
  <2>1. PICK at \in 0..MaxTime :
          /\ slot' = [slot EXCEPT ![r][n] =
                        [action |-> a, outcome |-> Slots!ClaimMarker, at |-> at]]
          /\ Goto(c, "port") /\ UNCHANGED <<effects, answered>>
    BY <1>2, <1>3 DEF Claim
  <2>2. PICK w : Moves(c, w) /\ w.pc = "port"
    BY <2>1, GotoMoves DEF PCs, CallsInv
  <2>3. PICK row \in Slots!Slots :
          row = [action |-> a, outcome |-> Slots!ClaimMarker, at |-> at]
    BY DEF Slots!Slots, Slots!ClaimMarker
  <2>4. /\ TableTypes' /\ slot'[r][n] = row
        /\ \A s \in Records, m \in Numbers : s # r \/ m # n => slot'[s][m] = slot[s][m]
    <3>1. TableTypes /\ UNCHANGED effects /\ slot' = [slot EXCEPT ![r][n] = row]
      BY <2>1, <2>3 DEF CallsInv
    <3> QED BY <3>1 DEF TableTypes
  <2>5. w.record = r /\ w.number = n
    BY <1>2, <2>2 DEF Moves
  <2>6. Sole(c)
    BY <1>2, <1>3 DEF Sole, RowOf
  <2>7. Fits(w, slot')
    BY <2>2, <2>3, <2>4, <2>5 DEF Fits
  <2>8. CallsInv'
    BY <2>2, <2>4, <2>5, <2>6, <2>7, MoveKeepsCalls
  <2>9. call'[c] = w
    BY <2>2, MovesDoes DEF CallsInv
  <2>10. ActingOf(call', w.record, w.number) = "port"
    BY <2>2, <2>8, <2>9, SoleActs
  <2>11. handler' = [handler EXCEPT ![r][n] = "port"]
    BY <2>2, <2>5, <2>10, HandlerMoves DEF CallsInv
  <2>12. Slots!ClaimSlot(r, n, a, at)
    BY <1>3, <2>1, <2>11 DEF Slots!ClaimSlot, Slots!Exists
  <2> QED BY <2>8, <2>12 DEF Slots!ExecutorNext, Slots!Numbers, Numbers
<1>4. CASE slot[r][n].outcome # Slots!NoRow
  <2>1. Goto(c, "await") /\ UNCHANGED <<slot, effects, answered>>
    BY <1>2, <1>4 DEF Claim
  <2>2. PICK w : Moves(c, w) /\ w.pc = "await" /\ w.polls = 0
    BY <1>1, <2>1, GotoMoves DEF PCs, CallsInv
  <2>3. TableTypes' /\ Fits(w, slot')
    BY <2>1, <2>2, CallsAssumption DEF CallsInv, TableTypes, Fits
  <2>4. CallsInv'
    BY <2>1, <2>2, <2>3, MoveKeepsCalls
  <2>5. handler' = handler
    BY <1>1, <2>2, HandlerStays DEF CallsInv, Holds
  <2> QED BY <2>1, <2>4, <2>5 DEF Slots!executorVars
<1> QED BY <1>3, <1>4

LEMMA PerformMaps ==
  ASSUME CallsInv, NEW c \in Calls, Perform(c)
  PROVE  CallsInv' /\ Slots!ExecutorNext
<1>1. PICK r \in Records, n \in Numbers : r = call[c].record /\ n = call[c].number
  BY OwnSlot
<1>2. PICK o \in Outcomes :
        /\ call[c].pc = "port" /\ UNCHANGED <<slot, answered>>
        /\ effects' = [effects EXCEPT ![r][n] = @ + 1]
        /\ call' = [call EXCEPT ![c].pc = "save", ![c].outcome = o]
  BY <1>1 DEF Perform
<1>3. PICK w : w = [call[c] EXCEPT !.pc = "save", !.outcome = o]
  OBVIOUS
<1>4. call[c] \in [pc : PCs, record : Records, number : Numbers, action : Actions,
                   outcome : Outcomes \union {"none"}, polls : 0..PollBudget]
  BY DEF CallsInv, CallTypes
<1>5. /\ w \in [pc : PCs, record : Records, number : Numbers, action : Actions,
               outcome : Outcomes \union {"none"}, polls : 0..PollBudget]
      /\ w.pc = "save" /\ w.outcome = o /\ w.record = r /\ w.number = n
  BY <1>1, <1>3, <1>4 DEF PCs
<1>6. call' = [call EXCEPT ![c] = w]
  BY <1>2, <1>3
<1>7. Moves(c, w) /\ Holds(c) /\ Sole(c)
  BY <1>1, <1>2, <1>5, <1>6 DEF Moves, Holds, Sole
<1>8. TableTypes'
  BY <1>2, EffectsChange DEF CallsInv
<1>9. slot[r][n].outcome = Slots!ClaimMarker
  BY <1>1, <1>7 DEF CallsInv, InPlace, RowOf
<1>10. CallsInv'
  <2>1. Fits(w, slot')
    BY <1>2, <1>5, <1>9 DEF Fits
  <2> QED BY <1>2, <1>7, <1>8, <2>1, MoveKeepsCalls
<1>11. handler[r][n] = "port"
  BY <1>1, <1>2, <1>7, HolderActs
<1>12. handler' = [handler EXCEPT ![r][n] = o]
  <2>1. call'[c] = w
    BY <1>7, MovesDoes DEF CallsInv
  <2>2. ActingOf(call', w.record, w.number) = o
    BY <1>5, <1>10, <2>1, SoleActs
  <2> QED BY <1>5, <1>7, <2>2, HandlerMoves DEF CallsInv
<1>13. Slots!Perform(r, n, o)
  BY <1>2, <1>11, <1>12 DEF Slots!Perform
<1> QED BY <1>10, <1>13 DEF Slots!ExecutorNext, Slots!Numbers, Numbers, Slots!Outcomes,
           Outcomes

LEMMA SaveMaps ==
  ASSUME CallsInv, NEW c \in Calls, Save(c)
  PROVE  CallsInv' /\ Slots!ExecutorNext
<1>1. PICK r \in Records, n \in Numbers : r = call[c].record /\ n = call[c].number
  BY OwnSlot
<1>2. PICK o \in Outcomes : o = call[c].outcome
  BY DEF CallsInv, InPlace, Save
<1>3. /\ call[c].pc = "save" /\ UNCHANGED <<effects, answered>>
      /\ slot' = [slot EXCEPT ![r][n].outcome = o] /\ Goto(c, "answer")
  BY <1>1, <1>2 DEF Save
<1>4. PICK w : Moves(c, w) /\ w.pc = "answer" /\ w.outcome = o
  BY <1>2, <1>3, GotoMoves DEF PCs, CallsInv
<1>5. w.record = r /\ w.number = n
  BY <1>1, <1>4 DEF Moves
<1>6. PICK row : row = [slot[r][n] EXCEPT !.outcome = o]
  OBVIOUS
<1>7. slot' = [slot EXCEPT ![r][n] = row]
  BY <1>3, <1>6
<1>8. slot[r][n] \in Slots!Slots
  BY DEF CallsInv, TableTypes
<1>9. row \in Slots!Slots /\ row.outcome = o
  BY <1>6, <1>8 DEF Slots!Slots, Slots!Outcomes, Outcomes
<1>10. /\ TableTypes' /\ slot'[r][n] = row
       /\ \A s \in Records, m \in Numbers : s # r \/ m # n => slot'[s][m] = slot[s][m]
  <2>1. TableTypes /\ UNCHANGED effects /\ row \in Slots!Slots
    BY <1>3, <1>9 DEF CallsInv
  <2> QED BY <1>7, <2>1 DEF TableTypes
<1>11. Holds(c) /\ Sole(c)
  BY <1>3 DEF Holds, Sole
<1>12. CallsInv'
  <2>1. Fits(w, slot')
    BY <1>4, <1>5, <1>9, <1>10 DEF Fits
  <2> QED BY <1>4, <1>5, <1>10, <1>11, <2>1, MoveKeepsCalls
<1>13. handler[r][n] = o
  BY <1>1, <1>2, <1>3, <1>11, HolderActs
<1>14. handler' = [handler EXCEPT ![r][n] = "none"]
  <2>1. ActingOf(call', w.record, w.number) = "none"
    BY <1>4, <1>11, NobodyActs
  <2> QED BY <1>4, <1>5, <2>1, HandlerMoves DEF CallsInv
<1>15. Slots!RecordOutcome(r, n)
  BY <1>3, <1>13, <1>14 DEF Slots!RecordOutcome, Slots!Outcomes, Outcomes
<1> QED BY <1>12, <1>15 DEF Slots!ExecutorNext, Slots!Numbers, Numbers

LEMMA AnswerMaps ==
  ASSUME CallsInv, NEW c \in Calls, Answer(c)
  PROVE  CallsInv' /\ Slots!ExecutorNext
<1>1. PICK r \in Records, n \in Numbers : r = call[c].record /\ n = call[c].number
  BY OwnSlot
<1>2. /\ call[c].pc = "answer" /\ slot[r][n].outcome = call[c].outcome
      /\ call[c].outcome \in Outcomes
  BY <1>1 DEF CallsInv, InPlace, RowOf, Answer
<1>3. /\ Goto(c, "returned") /\ UNCHANGED <<slot, effects>>
      /\ answered' = [answered EXCEPT ![r][n] = @ \union {slot[r][n].outcome}]
  BY <1>1, <1>2 DEF Answer
<1>4. PICK w : Moves(c, w) /\ w.pc = "returned"
  BY <1>3, GotoMoves DEF PCs, CallsInv
<1>5. TableTypes' /\ Fits(w, slot')
  BY <1>3, <1>4 DEF CallsInv, TableTypes, Fits
<1>6. CallsInv'
  BY <1>3, <1>4, <1>5, MoveKeepsCalls
<1>7. handler' = handler
  BY <1>2, <1>4, HandlerStays DEF CallsInv, Holds
<1>8. Slots!Replay(r, n)
  BY <1>2, <1>3, <1>7 DEF Slots!Replay, Slots!Resolved, Slots!Outcomes, Outcomes
<1> QED BY <1>6, <1>8 DEF Slots!ExecutorNext, Slots!Numbers, Numbers

LEMMA AwaitMaps ==
  ASSUME CallsInv, NEW c \in Calls, Await(c)
  PROVE  CallsInv' /\ [Slots!ExecutorNext]_Slots!executorVars
<1>1. PICK r \in Records, n \in Numbers : r = call[c].record /\ n = call[c].number
  BY OwnSlot
<1>2. PICK v : v = call[c]
  OBVIOUS
<1>3. /\ v \in [pc : PCs, record : Records, number : Numbers, action : Actions,
               outcome : Outcomes \union {"none"}, polls : 0..PollBudget]
      /\ v.pc = "await" /\ v.polls < PollBudget /\ v.record = r /\ v.number = n
  BY <1>1, <1>2 DEF CallsInv, CallTypes, InPlace, Await
<1>4. UNCHANGED <<slot, effects>> /\ ~Holds(c)
  BY <1>2, <1>3 DEF Await, Holds
<1>5. TableTypes'
  BY <1>4 DEF CallsInv, TableTypes
<1>6. CASE Slots!Resolved(r, n)
  <2>1. PICK o \in Outcomes : o = slot[r][n].outcome
    BY <1>6 DEF Slots!Resolved, Slots!Outcomes, Outcomes
  <2>2. /\ answered' = [answered EXCEPT ![r][n] = @ \union {slot[r][n].outcome}]
        /\ call' = [call EXCEPT ![c].pc = "returned", ![c].outcome = o]
    BY <1>1, <1>6, <2>1 DEF Await
  <2>3. PICK w : w = [v EXCEPT !.pc = "returned", !.outcome = o]
    OBVIOUS
  <2>4. /\ w \in [pc : PCs, record : Records, number : Numbers, action : Actions,
                 outcome : Outcomes \union {"none"}, polls : 0..PollBudget]
        /\ w.pc = "returned" /\ w.record = r /\ w.number = n
    BY <1>3, <2>3 DEF PCs
  <2>5. call' = [call EXCEPT ![c] = w]
    BY <1>2, <2>2, <2>3
  <2>6. Moves(c, w)
    BY <1>1, <2>4, <2>5 DEF Moves
  <2>7. Fits(w, slot')
    BY <2>4 DEF Fits
  <2>8. CallsInv'
    BY <1>4, <1>5, <2>4, <2>6, <2>7, MoveKeepsCalls
  <2>9. handler' = handler
    BY <1>4, <2>4, <2>6, HandlerStays DEF CallsInv
  <2>10. Slots!Replay(r, n)
    BY <1>4, <1>6, <2>2, <2>9 DEF Slots!Replay
  <2> QED BY <2>8, <2>10 DEF Slots!ExecutorNext, Slots!Numbers, Numbers
<1>7. CASE ~Slots!Resolved(r, n)
  <2>1. PICK pc \in {"await", "error"} :
          /\ pc = "await" => v.polls + 1 < PollBudget
          /\ call' = [call EXCEPT ![c].polls = @ + 1, ![c].pc = pc]
          /\ UNCHANGED answered
    BY <1>1, <1>2, <1>7 DEF Await
  <2>2. PICK w : w = [v EXCEPT !.polls = @ + 1, !.pc = pc]
    OBVIOUS
  <2>3. /\ w \in [pc : PCs, record : Records, number : Numbers, action : Actions,
                 outcome : Outcomes \union {"none"}, polls : 0..PollBudget]
        /\ w.pc = pc /\ w.polls = v.polls + 1 /\ w.record = r /\ w.number = n
    <3>1. v.polls \in 0..PollBudget /\ v.polls + 1 \in 0..PollBudget
      BY <1>3, CallsAssumption
    <3>2. pc \in PCs
      BY DEF PCs
    <3>3. PICK polls \in 0..PollBudget : polls = v.polls + 1
      BY <3>1
    <3>4. w = [v EXCEPT !.polls = polls, !.pc = pc]
      BY <2>2, <3>3
    <3> QED BY <1>3, <3>2, <3>3, <3>4
  <2>4. call' = [call EXCEPT ![c] = w]
    BY <1>2, <2>1, <2>2
  <2>5. Moves(c, w)
    BY <1>1, <2>3, <2>4 DEF Moves
  <2>6. Fits(w, slot')
    BY <2>1, <2>3 DEF Fits
  <2>7. CallsInv'
    BY <1>4, <1>5, <2>1, <2>3, <2>5, <2>6, MoveKeepsCalls
  <2>8. handler' = handler
    BY <1>4, <2>1, <2>3, <2>5, HandlerStays DEF CallsInv
  <2> QED BY <1>4, <2>1, <2>7, <2>8 DEF Slots!executorVars
<1> QED BY <1>6, <1>7

\* A call that fails leaves its slot claimed; before its port answered it may
\* have reached it, and before it saved it loses what the port answered.
LEMMA FailsMaps ==
  ASSUME CallsInv, NEW c \in Calls, Fails(c)
  PROVE  CallsInv' /\ [Slots!ExecutorNext]_Slots!executorVars
<1>1. PICK r \in Records, n \in Numbers : r = call[c].record /\ n = call[c].number
  BY OwnSlot
<1>2. Faulty /\ Goto(c, "error") /\ UNCHANGED <<slot, answered>>
  BY DEF Fails
<1>3. PICK w : Moves(c, w) /\ w.pc = "error"
  BY <1>2, GotoMoves DEF PCs, CallsInv
<1>4. w.record = r /\ w.number = n
  BY <1>1, <1>3 DEF Moves
<1>5. \/ UNCHANGED effects
      \/ call[c].pc = "port" /\ effects' = [effects EXCEPT ![r][n] = @ + 1]
  BY <1>1 DEF Fails
<1>6. TableTypes'
  <2>1. TableTypes
    BY DEF CallsInv
  <2>2. CASE UNCHANGED effects
    BY <1>2, <2>1, <2>2 DEF TableTypes
  <2>3. CASE effects' = [effects EXCEPT ![r][n] = @ + 1]
    BY <1>2, <2>1, <2>3, EffectsChange
  <2> QED BY <1>5, <2>2, <2>3
<1>7. CallsInv'
  <2>1. Fits(w, slot')
    BY <1>3 DEF Fits
  <2> QED BY <1>2, <1>3, <1>6, <2>1, MoveKeepsCalls
<1>8. CASE Holds(c)
  <2>1. ActingOf(call', w.record, w.number) = "none"
    BY <1>3, <1>8, NobodyActs DEF Sole
  <2>2. handler' = [handler EXCEPT ![r][n] = "none"]
    BY <1>3, <1>4, <2>1, HandlerMoves DEF CallsInv
  <2>3. CASE call[c].pc = "port"
    <3>1. handler[r][n] = "port"
      BY <1>1, <1>8, <2>3, HolderActs
    <3>2. \E reached \in 0..1 : effects' = [effects EXCEPT ![r][n] = @ + reached]
      <4>1. effects \in [Records -> [Numbers -> Nat]]
        BY DEF CallsInv, TableTypes
      <4>2. CASE UNCHANGED effects
        <5>1. effects' = [effects EXCEPT ![r][n] = @ + 0]
          BY <4>1, <4>2
        <5> QED BY <5>1
      <4>3. CASE effects' = [effects EXCEPT ![r][n] = @ + 1]
        BY <4>3
      <4> QED BY <1>5, <4>2, <4>3
    <3>3. Slots!PerformFails(r, n)
      BY <1>2, <2>2, <3>1, <3>2 DEF Slots!PerformFails
    <3> QED BY <1>7, <3>3 DEF Slots!ExecutorNext, Slots!Numbers, Numbers
  <2>4. CASE call[c].pc = "save"
    <3>1. call[c].outcome \in Outcomes
      BY <2>4 DEF CallsInv, InPlace
    <3>2. handler[r][n] \in Slots!Outcomes
      BY <1>1, <1>8, <2>4, <3>1, HolderActs DEF Slots!Outcomes, Outcomes
    <3>3. UNCHANGED effects
      BY <1>5, <2>4
    <3>4. Slots!RecordOutcomeFails(r, n)
      BY <1>2, <2>2, <3>2, <3>3 DEF Slots!RecordOutcomeFails
    <3> QED BY <1>7, <3>4 DEF Slots!ExecutorNext, Slots!Numbers, Numbers
  <2> QED BY <1>8, <2>3, <2>4 DEF Holds
<1>9. CASE ~Holds(c)
  <2>1. UNCHANGED effects
    BY <1>5, <1>9 DEF Holds
  <2>2. handler' = handler
    BY <1>3, <1>9, HandlerStays DEF CallsInv
  <2> QED BY <1>2, <1>7, <2>1, <2>2 DEF Slots!executorVars
<1> QED BY <1>8, <1>9

LEMMA InitMaps == Init => CallsInv /\ Slots!ExecutorInit
<1> SUFFICES ASSUME Init PROVE Slots!ExecutorInit
  BY InitCalls
<1>1. \A c \in Calls : call[c].pc = "new"
  BY DEF Init
<1>2. \A r, n : Claimants(r, n) = {}
  BY <1>1 DEF Claimants
<1>3. handler = [r \in Records |-> [n \in Numbers |-> "none"]]
  BY <1>2 DEF handler
<1> QED BY <1>3 DEF Init, Slots!ExecutorInit, Slots!Numbers, Numbers

LEMMA NextMaps == CallsInv /\ [Next]_vars
                  => CallsInv' /\ [Slots!ExecutorNext]_Slots!executorVars
<1> SUFFICES ASSUME CallsInv, [Next]_vars
             PROVE  CallsInv' /\ [Slots!ExecutorNext]_Slots!executorVars
  OBVIOUS
<1>1. CASE UNCHANGED vars
  <2>1. UNCHANGED <<call, slot, effects, answered>>
    BY <1>1 DEF vars
  <2>2. handler' = handler
    BY <2>1 DEF handler, Claimants
  <2>3. CallsInv'
    BY <2>1 DEF CallsInv, CallTypes, TableTypes, InPlace, OneHolder, Holds, RowOf
  <2> QED BY <2>1, <2>2, <2>3 DEF Slots!executorVars
<1>2. ASSUME NEW c \in Calls, Arrive(c)
      PROVE  CallsInv' /\ [Slots!ExecutorNext]_Slots!executorVars
  BY <1>2, ArriveMaps
<1>3. ASSUME NEW c \in Calls, Serve(c)
      PROVE  CallsInv' /\ [Slots!ExecutorNext]_Slots!executorVars
  BY <1>3, ClaimMaps, PerformMaps, SaveMaps, AnswerMaps, AwaitMaps DEF Serve
<1>4. ASSUME NEW c \in Calls, Fails(c)
      PROVE  CallsInv' /\ [Slots!ExecutorNext]_Slots!executorVars
  BY <1>4, FailsMaps
<1> QED BY <1>1, <1>2, <1>3, <1>4 DEF Next

-----------------------------------------------------------------------------
(***************************************************************************)
(* The theorems.                                                           *)
(***************************************************************************)
\* The statements of Execute, in any interleaving of any number of calls and
\* with any failures, do nothing the atomic steps of Executor do not: the unique
\* constraint is all the mutual exclusion they need.
THEOREM CallsImplementExecutor == Spec => ImplementsExecutor
<1>1. Spec => Slots!ExecutorInit /\ []CallsInv
  BY InitMaps, NextMaps, PTL DEF Spec
<1> QED BY <1>1, NextMaps, PTL DEF Spec, ImplementsExecutor, Slots!ExecutorSpec

LEMMA SlotsInvariance == Spec => []EP!ExecutorInv
<1>1. Slots!ExecutorInit => EP!ExecutorInit
  BY DEF Slots!ExecutorInit, EP!ExecutorInit, Slots!Numbers, EP!Numbers,
         Slots!EmptySlot, EP!EmptySlot, Slots!NoRow, EP!NoRow
<1>2. [Slots!ExecutorNext]_Slots!executorVars => [EP!ExecutorNext]_EP!executorVars
  BY DEF Slots!ExecutorNext, EP!ExecutorNext, Slots!executorVars, EP!executorVars,
         Slots!Numbers, EP!Numbers, Slots!Outcomes, EP!Outcomes, Slots!ClaimSlot,
         EP!ClaimSlot, Slots!Perform, EP!Perform, Slots!PerformFails, EP!PerformFails,
         Slots!RecordOutcome, EP!RecordOutcome, Slots!RecordOutcomeFails,
         EP!RecordOutcomeFails, Slots!Replay, EP!Replay, Slots!Exists, EP!Exists,
         Slots!Resolved, EP!Resolved, Slots!ClaimMarker, EP!ClaimMarker, Slots!NoRow,
         EP!NoRow
<1>3. EP!ExecutorSpec => []EP!ExecutorInv
  BY EP!Invariance, CallsAssumption DEF EP!ExecutorAssumption
<1> QED BY <1>1, <1>2, <1>3, CallsImplementExecutor, PTL
        DEF ImplementsExecutor, Slots!ExecutorSpec, EP!ExecutorSpec

\* So the calls together keep what Executor keeps, for their statements as for
\* its atomic steps: one attempt reaches the outside world once.
THEOREM CallsActOnce == Spec => []Slots!AtMostOneEffect
<1>1. EP!ExecutorInv => Slots!AtMostOneEffect
  BY DEF EP!ExecutorInv, EP!ExecutorTypeOK, EP!SlotInv, EP!InOrder,
         Slots!AtMostOneEffect, EP!Numbers, Slots!Numbers
<1> QED BY <1>1, SlotsInvariance, PTL

\* And whoever called, the claimant or a duplicate, is told the one outcome the
\* port gave.
THEOREM CallsAgree == Spec => []Slots!AnswersAreRecorded
<1>1. EP!ExecutorInv => Slots!AnswersAreRecorded
  BY DEF EP!ExecutorInv, EP!ExecutorTypeOK, EP!SlotInv, EP!InOrder,
         Slots!AnswersAreRecorded, EP!Numbers, Slots!Numbers
<1> QED BY <1>1, SlotsInvariance, PTL
=============================================================================
