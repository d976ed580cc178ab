------------------------ MODULE ProviderChainProofs ------------------------
(***************************************************************************)
(* Theorems of ProviderChain, for any number of calls, live rungs and any  *)
(* interval.                                                               *)
(***************************************************************************)
EXTENDS ProviderChain, TLAPS

USE ChainAssumption DEF LiveRungs, RulesRung, AnyRung

-----------------------------------------------------------------------------
\* Facts about the operators

\* Lesser is the minimum.
LEMMA LesserFacts ==
  ASSUME NEW a \in Int, NEW b \in Int
  PROVE  /\ Lesser(a, b) \in Int
         /\ Lesser(a, b) <= a /\ Lesser(a, b) <= b
         /\ Lesser(a, b) = a \/ Lesser(a, b) = b
BY DEF Lesser

\* What record makes of a breaker is a breaker; only the result of the trial
\* takes the flag down, and a closed result is below the threshold.
LEMMA RecordFacts ==
  ASSUME NEW b \in Breakers, NEW trial \in BOOLEAN, NEW after,
         ~b.opened => b.consecutive < Threshold,
         \/ after = AfterSuccess(b, trial)
         \/ after = AfterFailure(b, trial)
         \/ \E asked \in RetryAfters : after = AfterRateLimit(b, asked, trial)
  PROVE  /\ after \in Breakers
         /\ after.trialInFlight = (b.trialInFlight /\ ~trial)
         /\ ~after.opened => after.consecutive < Threshold
<1>1. /\ Longer(b) \in 0..Threshold
      /\ ~(Longer(b) >= Threshold) => Longer(b) < Threshold
  BY LesserFacts DEF Breakers, Longer, Lesser
<1>2. CASE after = AfterSuccess(b, trial)
  BY <1>2 DEF AfterSuccess, Breakers
<1>3. CASE after = AfterFailure(b, trial)
  BY <1>1, <1>3 DEF AfterFailure, Opened, Breakers
<1>4. ASSUME NEW asked \in RetryAfters, after = AfterRateLimit(b, asked, trial)
      PROVE  /\ after \in Breakers
             /\ after.trialInFlight = (b.trialInFlight /\ ~trial)
             /\ ~after.opened => after.consecutive < Threshold
  BY <1>1, <1>4 DEF AfterRateLimit, Opened, Breakers
<1>5. QED BY <1>2, <1>3, <1>4

-----------------------------------------------------------------------------
\* What the invariant is made of

\* The inductive invariant: time spent on a rung comes off the caller's
\* deadline, so that it stays a number needs TimeForRules.
ChainInv == TypeOK /\ OneTrial /\ ClosedBelowThreshold /\ TimeForRules

\* A single walk of TimeForRules.
InTime(w) ==
  /\ w.phase # "idle" => w.left >= Lesser(Reserve, w.given)
  /\ w.phase = "calling" => w.left - w.patience >= Reserve

LEMMA TimeIsPerWalk == TimeForRules <=> \A c \in Calls : InTime(call[c])
BY DEF TimeForRules, InTime

\* Replacing one walk by a sound one keeps the others.
LEMMA WalkUpdate ==
  ASSUME TypeOK, TimeForRules, NEW c \in Calls, NEW w \in Walks, InTime(w),
         SetWalk(c, w)
  PROVE  /\ call' \in [Calls -> Walks]
         /\ \A d \in Calls : call'[d] = IF d = c THEN w ELSE call[d]
         /\ \A d \in Calls : InTime(call'[d])
<1>1. call' \in [Calls -> Walks] /\ \A d \in Calls : call'[d] = IF d = c THEN w ELSE call[d]
  BY DEF TypeOK, SetWalk
<1>2. QED BY <1>1, TimeIsPerWalk

\* Likewise for breakers.
LEMMA BreakerUpdate ==
  ASSUME TypeOK, ClosedBelowThreshold, NEW p \in LiveRungs, NEW b \in Breakers,
         ~b.opened => b.consecutive < Threshold, SetBreaker(p, b)
  PROVE  /\ breaker' \in [LiveRungs -> Breakers]
         /\ \A q \in LiveRungs : breaker'[q] = IF q = p THEN b ELSE breaker[q]
         /\ \A q \in LiveRungs :
              ~breaker'[q].opened => breaker'[q].consecutive < Threshold
<1>1. /\ breaker' \in [LiveRungs -> Breakers]
      /\ \A q \in LiveRungs : breaker'[q] = IF q = p THEN b ELSE breaker[q]
  BY DEF TypeOK, SetBreaker
<1>2. QED BY <1>1 DEF ClosedBelowThreshold

\* The walks that actions put in place are sound.
LEMMA WalkFacts ==
  ASSUME TypeOK, TimeForRules, NEW c \in Calls
  PROVE  /\ call[c].phase # "idle" =>
              \A p \in AnyRung :
                /\ AtRung(c, p) \in Walks /\ InTime(AtRung(c, p))
                /\ AnsweredBy(c, p) \in Walks /\ InTime(AnsweredBy(c, p))
         /\ Affordable(c) => Budget(c) \in Nat /\ Budget(c) <= call[c].left - Reserve
<1>1. call[c] \in Walks /\ InTime(call[c])
  BY TimeIsPerWalk DEF TypeOK
<1>2. ASSUME call[c].phase # "idle", NEW p \in AnyRung
      PROVE  /\ AtRung(c, p) \in Walks /\ InTime(AtRung(c, p))
             /\ AnsweredBy(c, p) \in Walks /\ InTime(AnsweredBy(c, p))
  BY <1>1, <1>2 DEF AtRung, AnsweredBy, Walks, InTime
<1>3. ASSUME Affordable(c)
      PROVE  Budget(c) \in Nat /\ Budget(c) <= call[c].left - Reserve
  BY <1>1, <1>3, LesserFacts DEF Affordable, Budget, Lesser, Walks
<1>4. QED BY <1>2, <1>3

\* A single walk of OneTrial.
OutOnTrial(w, p) == w.phase = "calling" /\ w.rung = p /\ w.trial

LEMMA TrialIsPerWalk ==
  OneTrial <=>
    \A p \in LiveRungs :
      /\ breaker[p].trialInFlight <=> \E c \in Calls : OutOnTrial(call[c], p)
      /\ \A c, d \in Calls :
           OutOnTrial(call[c], p) /\ OutOnTrial(call[d], p) => c = d
<1>1. \A p : \A c : c \in Trials(p) <=> c \in Calls /\ OutOnTrial(call[c], p)
  BY DEF Trials, Calling, OutOnTrial
<1>2. \A p : Trials(p) # {} <=> \E c \in Calls : OutOnTrial(call[c], p)
  BY <1>1
<1>3. QED BY <1>1, <1>2 DEF OneTrial

\* The same in the next state.
LEMMA TrialIsPerWalkNext ==
  ASSUME \A p \in LiveRungs :
           /\ breaker'[p].trialInFlight
                <=> \E c \in Calls : OutOnTrial(call'[c], p)
           /\ \A c, d \in Calls :
                OutOnTrial(call'[c], p) /\ OutOnTrial(call'[d], p) => c = d
  PROVE  OneTrial'
<1>1. \A p : \A c : c \in Trials(p)' <=> c \in Calls /\ OutOnTrial(call'[c], p)
  BY DEF Trials, Calling, OutOnTrial
<1>2. \A p : Trials(p)' # {} <=> \E c \in Calls : OutOnTrial(call'[c], p)
  BY <1>1
<1>3. QED BY <1>1, <1>2 DEF OneTrial

-----------------------------------------------------------------------------
\* The invariant, action by action

\* Actions that leave the breakers alone and put a walk that waits for nobody
\* in the place of another such walk.
LEMMA WalkStep ==
  ASSUME ChainInv, NEW c \in Calls, NEW w \in Walks, InTime(w),
         call[c].phase # "calling", w.phase # "calling",
         SetWalk(c, w), UNCHANGED breaker
  PROVE  ChainInv'
<1>1. /\ call' \in [Calls -> Walks]
      /\ \A d \in Calls : call'[d] = IF d = c THEN w ELSE call[d]
      /\ \A d \in Calls : InTime(call'[d])
  BY WalkUpdate DEF ChainInv
<1>2. TypeOK'
  BY <1>1 DEF ChainInv, TypeOK
<1>3. TimeForRules'
  BY <1>1 DEF TimeForRules, InTime
<1>4. ClosedBelowThreshold'
  BY DEF ChainInv, ClosedBelowThreshold
<1>5. \A d \in Calls, p \in LiveRungs :
        OutOnTrial(call'[d], p) <=> OutOnTrial(call[d], p)
  BY <1>1 DEF OutOnTrial
<1>6. OneTrial'
  <2>1. \A p \in LiveRungs :
          /\ breaker'[p].trialInFlight <=> \E d \in Calls : OutOnTrial(call'[d], p)
          /\ \A d, e \in Calls :
               OutOnTrial(call'[d], p) /\ OutOnTrial(call'[e], p) => d = e
    BY <1>5, TrialIsPerWalk DEF ChainInv
  <2>2. QED BY <2>1, TrialIsPerWalkNext
<1>7. QED BY <1>2, <1>3, <1>4, <1>6 DEF ChainInv

\* Asking a rung: the trial finds the flag down, so no other call is out on one.
LEMMA AskStep ==
  ASSUME ChainInv, NEW c \in Calls, NEW p \in LiveRungs, AskRung(c, p)
  PROVE  ChainInv'
<1> DEFINE b == breaker[p]
           trial == Admission(b) = "trial"
           asked == [consecutive |-> b.consecutive, opened |-> b.opened,
                     wait |-> b.wait,
                     trialInFlight |-> b.trialInFlight \/ trial]
           w == [phase |-> "calling", rung |-> p,
                 given |-> call[c].given, left |-> call[c].left,
                 patience |-> Budget(c), trial |-> trial]
<1>1. /\ SetBreaker(p, asked) /\ SetWalk(c, w)
      /\ Walking(c, p) /\ Affordable(c)
  BY DEF AskRung
<1>2. b \in Breakers /\ call[c] \in Walks /\ InTime(call[c])
  BY TimeIsPerWalk DEF ChainInv, TypeOK
<1>3. /\ trial => b.opened /\ ~b.trialInFlight
      /\ trial \in BOOLEAN
  BY <1>2 DEF Admission, Breakers
<1>4. asked \in Breakers /\ (~asked.opened => asked.consecutive < Threshold)
  BY <1>2, <1>3 DEF Breakers, ChainInv, ClosedBelowThreshold
<1>5. /\ breaker' \in [LiveRungs -> Breakers]
      /\ \A q \in LiveRungs : breaker'[q] = IF q = p THEN asked ELSE breaker[q]
      /\ \A q \in LiveRungs :
           ~breaker'[q].opened => breaker'[q].consecutive < Threshold
  <2> HIDE DEF asked
  <2>1. QED BY <1>1, <1>4, BreakerUpdate DEF ChainInv
<1>6. Budget(c) \in Nat /\ Budget(c) <= call[c].left - Reserve
  BY <1>1, WalkFacts DEF ChainInv
<1>7. w \in Walks /\ InTime(w)
  <2>1. w \in Walks
    BY <1>2, <1>3, <1>6 DEF Walks
  <2>2. InTime(w)
    BY <1>1, <1>2, <1>6 DEF InTime, Walking, Walks
  <2>3. QED BY <2>1, <2>2
<1>8. /\ call' \in [Calls -> Walks]
      /\ \A d \in Calls : call'[d] = IF d = c THEN w ELSE call[d]
      /\ \A d \in Calls : InTime(call'[d])
  <2> HIDE DEF w
  <2>1. QED BY <1>1, <1>7, WalkUpdate DEF ChainInv
<1>9. /\ OutOnTrial(w, p) <=> trial
      /\ \A q \in LiveRungs : q # p => ~OutOnTrial(w, q)
      /\ \A q \in LiveRungs : ~OutOnTrial(call[c], q)
  BY <1>1 DEF OutOnTrial, Walking
<1>10. \A q \in LiveRungs :
         /\ breaker'[q].trialInFlight <=> \E d \in Calls : OutOnTrial(call'[d], q)
         /\ \A d, e \in Calls :
              OutOnTrial(call'[d], q) /\ OutOnTrial(call'[e], q) => d = e
  <2>1. asked.trialInFlight <=> b.trialInFlight \/ trial
    OBVIOUS
  <2>2. \A q \in LiveRungs :
          /\ breaker[q].trialInFlight <=> \E d \in Calls : OutOnTrial(call[d], q)
          /\ \A d, e \in Calls :
               OutOnTrial(call[d], q) /\ OutOnTrial(call[e], q) => d = e
    BY TrialIsPerWalk DEF ChainInv
  <2> HIDE DEF asked, w, trial
  <2>3. CASE trial
    BY <1>3, <1>5, <1>8, <1>9, <2>1, <2>2, <2>3
  <2>4. CASE ~trial
    BY <1>5, <1>8, <1>9, <2>1, <2>2, <2>4
  <2>5. QED BY <2>3, <2>4
<1>11. OneTrial' BY <1>10, TrialIsPerWalkNext
<1>12. TypeOK' BY <1>5, <1>8 DEF TypeOK
<1>13. TimeForRules' BY <1>8 DEF TimeForRules, InTime
<1>14. ClosedBelowThreshold' BY <1>5 DEF ClosedBelowThreshold
<1>15. QED BY <1>11, <1>12, <1>13, <1>14 DEF ChainInv

\* A provider's result: only the trial's own takes the flag down, and the call
\* that returns it was the one call out on it.
LEMMA FinishStep ==
  ASSUME ChainInv, NEW c \in Calls, NEW p \in LiveRungs, Finish(c, p)
  PROVE  ChainInv'
<1> DEFINE b == breaker[p]
           trial == call[c].trial
<1>1. Calling(c, p)
  BY DEF Finish, RungAnswers, RungFails, RungThrottles
<1>2. b \in Breakers /\ call[c] \in Walks /\ trial \in BOOLEAN
      /\ (~b.opened => b.consecutive < Threshold)
  BY DEF ChainInv, TypeOK, Walks, ClosedBelowThreshold
<1>3. PICK after :
        /\ SetBreaker(p, after)
        /\ \/ after = AfterSuccess(b, trial)
           \/ after = AfterFailure(b, trial)
           \/ \E asked \in RetryAfters : after = AfterRateLimit(b, asked, trial)
  BY DEF Finish, RungAnswers, RungFails, RungThrottles
<1>4. /\ after \in Breakers
      /\ after.trialInFlight = (b.trialInFlight /\ ~trial)
      /\ ~after.opened => after.consecutive < Threshold
  BY <1>2, <1>3, RecordFacts
<1>5. /\ breaker' \in [LiveRungs -> Breakers]
      /\ \A q \in LiveRungs : breaker'[q] = IF q = p THEN after ELSE breaker[q]
      /\ \A q \in LiveRungs :
           ~breaker'[q].opened => breaker'[q].consecutive < Threshold
  BY <1>3, <1>4, BreakerUpdate DEF ChainInv
<1>6. PICK w \in Walks : InTime(w) /\ w.phase # "calling" /\ SetWalk(c, w)
  <2>1. p \in AnyRung /\ p + 1 \in AnyRung /\ call[c].phase # "idle"
    BY <1>1 DEF Calling
  <2>2. /\ AnsweredBy(c, p) \in Walks /\ InTime(AnsweredBy(c, p))
        /\ AtRung(c, p + 1) \in Walks /\ InTime(AtRung(c, p + 1))
    BY <2>1, WalkFacts DEF ChainInv
  <2>3. /\ AnsweredBy(c, p).phase # "calling"
        /\ AtRung(c, p + 1).phase # "calling"
    BY DEF AnsweredBy, AtRung
  <2>4. SetWalk(c, AnsweredBy(c, p)) \/ SetWalk(c, AtRung(c, p + 1))
    BY DEF Finish, RungAnswers, RungFails, RungThrottles
  <2>5. QED BY <2>2, <2>3, <2>4
<1>7. /\ call' \in [Calls -> Walks]
      /\ \A d \in Calls : call'[d] = IF d = c THEN w ELSE call[d]
      /\ \A d \in Calls : InTime(call'[d])
  BY <1>6, WalkUpdate DEF ChainInv
<1>8. /\ \A q \in LiveRungs : ~OutOnTrial(w, q)
      /\ \A q \in LiveRungs : q # p => ~OutOnTrial(call[c], q)
      /\ OutOnTrial(call[c], p) <=> trial
  BY <1>1, <1>6 DEF OutOnTrial, Calling
<1>9. \A q \in LiveRungs :
        /\ breaker'[q].trialInFlight <=> \E d \in Calls : OutOnTrial(call'[d], q)
        /\ \A d, e \in Calls :
             OutOnTrial(call'[d], q) /\ OutOnTrial(call'[e], q) => d = e
  <2>1. \A q \in LiveRungs :
          /\ breaker[q].trialInFlight <=> \E d \in Calls : OutOnTrial(call[d], q)
          /\ \A d, e \in Calls :
               OutOnTrial(call[d], q) /\ OutOnTrial(call[e], q) => d = e
    BY TrialIsPerWalk DEF ChainInv
  <2>2. after.trialInFlight <=> b.trialInFlight /\ ~trial
    BY <1>4
  <2> HIDE DEF trial
  <2>3. CASE trial
    BY <1>5, <1>7, <1>8, <2>1, <2>2, <2>3
  <2>4. CASE ~trial
    BY <1>5, <1>7, <1>8, <2>1, <2>2, <2>4
  <2>5. QED BY <2>3, <2>4
<1>10. OneTrial' BY <1>9, TrialIsPerWalkNext
<1>11. TypeOK' BY <1>5, <1>7 DEF TypeOK
<1>12. TimeForRules' BY <1>7 DEF TimeForRules, InTime
<1>13. ClosedBelowThreshold' BY <1>5 DEF ClosedBelowThreshold
<1>14. QED BY <1>10, <1>11, <1>12, <1>13 DEF ChainInv

\* A unit of time: it comes off the deadline and the context alike.
LEMMA TickStep ==
  ASSUME ChainInv, Tick
  PROVE  ChainInv'
<1>1. \A q \in LiveRungs :
        /\ breaker'[q] \in Breakers
        /\ breaker'[q].trialInFlight = breaker[q].trialInFlight
        /\ ~breaker'[q].opened => breaker'[q].consecutive < Threshold
  <2> SUFFICES ASSUME NEW q \in LiveRungs
               PROVE  /\ breaker'[q] \in Breakers
                      /\ breaker'[q].trialInFlight = breaker[q].trialInFlight
                      /\ ~breaker'[q].opened => breaker'[q].consecutive < Threshold
    OBVIOUS
  <2>1. breaker[q] \in Breakers
        /\ (~breaker[q].opened => breaker[q].consecutive < Threshold)
    BY DEF ChainInv, TypeOK, ClosedBelowThreshold
  <2>2. breaker'[q] =
          [consecutive |-> breaker[q].consecutive, opened |-> breaker[q].opened,
           wait |-> IF breaker[q].wait > 0 THEN breaker[q].wait - 1 ELSE 0,
           trialInFlight |-> breaker[q].trialInFlight]
    BY DEF Tick
  <2>3. QED BY <2>1, <2>2 DEF Breakers
<1>2. breaker' \in [LiveRungs -> Breakers]
  <2>1. breaker' = [q \in LiveRungs |-> breaker'[q]]
    BY DEF Tick
  <2>2. QED BY <1>1, <2>1
<1>3. \A d \in Calls :
        /\ call'[d] \in Walks /\ InTime(call'[d])
        /\ \A q \in LiveRungs : OutOnTrial(call'[d], q) <=> OutOnTrial(call[d], q)
  <2> SUFFICES ASSUME NEW d \in Calls
               PROVE  /\ call'[d] \in Walks /\ InTime(call'[d])
                      /\ \A q \in LiveRungs :
                           OutOnTrial(call'[d], q) <=> OutOnTrial(call[d], q)
    OBVIOUS
  <2>1. call[d] \in Walks /\ InTime(call[d])
    BY TimeIsPerWalk DEF ChainInv, TypeOK
  <2>2. CASE call[d].phase = "calling"
    <3>1. /\ call[d].patience > 0
          /\ call'[d] = [phase |-> "calling", rung |-> call[d].rung,
                         given |-> call[d].given, left |-> call[d].left - 1,
                         patience |-> call[d].patience - 1,
                         trial |-> call[d].trial]
      BY <2>2 DEF Tick
    <3>2. /\ call[d].left \in Nat /\ call[d].patience \in Nat
          /\ call[d].given \in Nat
          /\ call[d].left - call[d].patience >= Reserve
      BY <2>1, <2>2 DEF Walks, InTime
    <3>3. call'[d] \in Walks
      BY <2>1, <3>1, <3>2 DEF Walks
    <3>4. InTime(call'[d])
      <4>1. Lesser(Reserve, call[d].given) <= Reserve
        BY <3>2 DEF Lesser
      <4>2. Lesser(Reserve, call[d].given) \in Int
        BY <3>2 DEF Lesser
      <4>3. call[d].left - 1 >= Lesser(Reserve, call[d].given)
        BY <3>1, <3>2, <4>1, <4>2
      <4>4. (call[d].left - 1) - (call[d].patience - 1) >= Reserve
        BY <3>2
      <4>5. QED BY <3>1, <4>3, <4>4 DEF InTime
    <3>5. \A q \in LiveRungs : OutOnTrial(call'[d], q) <=> OutOnTrial(call[d], q)
      BY <2>2, <3>1 DEF OutOnTrial
    <3>6. QED BY <3>3, <3>4, <3>5
  <2>3. CASE call[d].phase # "calling"
    <3>1. call'[d] = call[d]
      BY <2>3 DEF Tick
    <3>2. QED BY <2>1, <3>1
  <2>4. QED BY <2>2, <2>3
<1>4. call' \in [Calls -> Walks]
  <2>1. call' = [d \in Calls |-> call'[d]]
    BY DEF Tick
  <2>2. QED BY <1>3, <2>1
<1>5. OneTrial'
  <2>1. \A q \in LiveRungs :
          /\ breaker'[q].trialInFlight <=> \E d \in Calls : OutOnTrial(call'[d], q)
          /\ \A d, e \in Calls :
               OutOnTrial(call'[d], q) /\ OutOnTrial(call'[e], q) => d = e
    BY <1>1, <1>3, TrialIsPerWalk DEF ChainInv
  <2>2. QED BY <2>1, TrialIsPerWalkNext
<1>6. TypeOK' BY <1>2, <1>4 DEF TypeOK
<1>7. TimeForRules' BY <1>3 DEF TimeForRules, InTime
<1>8. ClosedBelowThreshold' BY <1>1 DEF ClosedBelowThreshold
<1>9. QED BY <1>5, <1>6, <1>7, <1>8 DEF ChainInv

\* The first state of a walk.
LEMMA BeginStep ==
  ASSUME ChainInv, NEW c \in Calls, Begin(c)
  PROVE  ChainInv'
<1>1. PICK timeout \in CallTimeouts, forced \in BOOLEAN :
        SetWalk(c, [phase |-> "walking",
                    rung |-> IF forced THEN RulesRung ELSE 1,
                    given |-> timeout, left |-> timeout,
                    patience |-> 0, trial |-> FALSE])
  BY DEF Begin
<1> DEFINE w == [phase |-> "walking",
                 rung |-> IF forced THEN RulesRung ELSE 1,
                 given |-> timeout, left |-> timeout,
                 patience |-> 0, trial |-> FALSE]
<1>2. timeout \in Nat /\ Lesser(Reserve, timeout) <= timeout
  BY DEF Lesser
<1>3. w \in Walks
  BY <1>2 DEF Walks
<1>4. InTime(w)
  BY <1>2 DEF InTime
<1>5. w.phase # "calling" /\ call[c].phase # "calling"
  BY DEF Begin
<1>6. SetWalk(c, w) /\ UNCHANGED breaker
  BY <1>1 DEF Begin
<1> HIDE DEF w
<1>7. QED BY <1>3, <1>4, <1>5, <1>6, WalkStep

\* A rung that is skipped or refused, and the answer of the rules.
LEMMA PassStep ==
  ASSUME ChainInv, NEW c \in Calls,
         \/ RulesAnswer(c)
         \/ \E p \in LiveRungs : SkipRung(c, p) \/ RefuseRung(c, p)
  PROVE  ChainInv'
<1>1. CASE RulesAnswer(c)
  <2>1. /\ call[c].phase = "walking" /\ RulesRung \in AnyRung
        /\ SetWalk(c, AnsweredBy(c, RulesRung)) /\ UNCHANGED breaker
    BY <1>1 DEF RulesAnswer, Walking
  <2>2. AnsweredBy(c, RulesRung) \in Walks /\ InTime(AnsweredBy(c, RulesRung))
    BY <2>1, WalkFacts DEF ChainInv
  <2>3. AnsweredBy(c, RulesRung).phase # "calling"
    BY DEF AnsweredBy
  <2>4. QED BY <2>1, <2>2, <2>3, WalkStep
<1>2. ASSUME NEW p \in LiveRungs, SkipRung(c, p) \/ RefuseRung(c, p)
      PROVE  ChainInv'
  <2>1. /\ call[c].phase = "walking" /\ p + 1 \in AnyRung
        /\ SetWalk(c, AtRung(c, p + 1)) /\ UNCHANGED breaker
    BY <1>2 DEF SkipRung, RefuseRung, Walking
  <2>2. AtRung(c, p + 1) \in Walks /\ InTime(AtRung(c, p + 1))
    BY <2>1, WalkFacts DEF ChainInv
  <2>3. AtRung(c, p + 1).phase # "calling"
    BY DEF AtRung
  <2>4. QED BY <2>1, <2>2, <2>3, WalkStep
<1>3. QED BY <1>1, <1>2

-----------------------------------------------------------------------------
\* The theorems

LEMMA ChainInvInit == Init => ChainInv
<1> SUFFICES ASSUME Init PROVE ChainInv
  OBVIOUS
<1>1. /\ \A p \in LiveRungs : breaker[p] = NewBreaker
      /\ \A c \in Calls : call[c] = NoWalk
  BY DEF Init
<1>2. TypeOK
  <2>1. NewBreaker \in Breakers
    BY DEF NewBreaker, Breakers
  <2>2. NoWalk \in Walks
    BY DEF NoWalk, Walks
  <2>3. QED BY <2>1, <2>2 DEF Init, TypeOK
<1>3. TimeForRules
  <2>1. \A c \in Calls : call[c].phase = "idle"
    <3>1. NoWalk.phase = "idle"
      BY DEF NoWalk
    <3>2. QED BY <1>1, <3>1
  <2>2. QED BY <2>1 DEF TimeForRules
<1>4. ClosedBelowThreshold
  BY <1>1 DEF NewBreaker, ClosedBelowThreshold
<1>5. OneTrial
  <2>1. \A p \in LiveRungs : ~breaker[p].trialInFlight
    BY <1>1 DEF NewBreaker
  <2>2. \A c \in Calls, p \in LiveRungs : ~OutOnTrial(call[c], p)
    BY <1>1 DEF NoWalk, OutOnTrial
  <2>3. QED BY <2>1, <2>2, TrialIsPerWalk
<1>6. QED BY <1>2, <1>3, <1>4, <1>5 DEF ChainInv

LEMMA ChainInvStep == ChainInv /\ [Next]_vars => ChainInv'
<1> SUFFICES ASSUME ChainInv, [Next]_vars PROVE ChainInv'
  OBVIOUS
<1>1. CASE UNCHANGED vars
  BY <1>1 DEF vars, ChainInv, TypeOK, OneTrial, Trials, Calling,
              ClosedBelowThreshold, TimeForRules
<1>2. ASSUME NEW c \in Calls, Begin(c) PROVE ChainInv'
  BY <1>2, BeginStep
<1>3. ASSUME NEW c \in Calls, Advance(c) PROVE ChainInv'
  <2>1. CASE \E p \in LiveRungs : AskRung(c, p)
    BY <2>1, AskStep
  <2>2. CASE ~\E p \in LiveRungs : AskRung(c, p)
    BY <1>3, <2>2, PassStep DEF Advance
  <2>3. QED BY <2>1, <2>2
<1>4. ASSUME NEW c \in Calls, NEW p \in LiveRungs, Finish(c, p) PROVE ChainInv'
  BY <1>4, FinishStep
<1>5. CASE Tick
  BY <1>5, TickStep
<1>6. QED BY <1>1, <1>2, <1>3, <1>4, <1>5 DEF Next

\* The invariant holds throughout.
LEMMA ChainInvariant == Spec => []ChainInv
<1>1. QED BY ChainInvInit, ChainInvStep, PTL DEF Spec

\* Breakers and walks stay well formed: no interval below zero, no rung past
\* the rules.
THEOREM ChainTypes == Spec => []TypeOK
<1>1. ChainInv => TypeOK BY DEF ChainInv
<1>2. QED BY <1>1, ChainInvariant, PTL

\* admit and record let one trial out at a time, and the flag is down exactly
\* when none is out, whatever calls return late.
THEOREM OneTrialAtATime == Spec => []OneTrial
<1>1. ChainInv => OneTrial BY DEF ChainInv
<1>2. QED BY <1>1, ChainInvariant, PTL

\* A closed circuit has seen fewer failures in a row than its threshold.
THEOREM ClosedIsHealthy == Spec => []ClosedBelowThreshold
<1>1. ChainInv => ClosedBelowThreshold BY DEF ChainInv
<1>2. QED BY <1>1, ChainInvariant, PTL

\* The budget of Classify keeps the reserve for the rules, for a chain of any
\* length and any deadline.
THEOREM RulesHaveTime == Spec => []TimeForRules
<1>1. ChainInv => TimeForRules BY DEF ChainInv
<1>2. QED BY <1>1, ChainInvariant, PTL

\* A circuit that failures tripped is, after its trial, closed or open anew.
THEOREM TrippedReopens == Spec => TrippedTrialReopens
<1>1. ASSUME ChainInv, [Next]_vars, NEW p \in LiveRungs, TrialEnds(p),
             breaker[p].consecutive = Threshold
      PROVE  Reopened(p)
  <2>1. CASE UNCHANGED vars
    BY <1>1, <2>1 DEF TrialEnds, vars
  <2>2. CASE UNCHANGED breaker
    BY <1>1, <2>2 DEF TrialEnds
  <2>3. ASSUME NEW c \in Calls, NEW q \in LiveRungs, AskRung(c, q)
        PROVE  Reopened(p)
    <3>1. breaker'[p].trialInFlight
      BY <1>1, <2>3 DEF TrialEnds, AskRung, SetBreaker, ChainInv, TypeOK
    <3>2. QED BY <1>1, <3>1 DEF TrialEnds
  <2>4. ASSUME NEW c \in Calls, NEW q \in LiveRungs, Finish(c, q)
        PROVE  Reopened(p)
    <3>1. breaker \in [LiveRungs -> Breakers] /\ breaker[q] \in Breakers
      BY <1>1 DEF ChainInv, TypeOK
    <3>2. PICK after :
            /\ breaker' = [breaker EXCEPT ![q] = after]
            /\ \/ after = AfterSuccess(breaker[q], call[c].trial)
               \/ after = AfterFailure(breaker[q], call[c].trial)
               \/ \E asked \in RetryAfters :
                    after = AfterRateLimit(breaker[q], asked, call[c].trial)
      BY <2>4 DEF Finish, RungAnswers, RungFails, RungThrottles, SetBreaker
    <3>3. CASE q # p
      BY <1>1, <3>1, <3>2, <3>3 DEF TrialEnds
    <3>4. CASE q = p
      <4>1. breaker'[p] = after
        BY <3>1, <3>2, <3>4
      <4>2. Longer(breaker[p]) = Threshold
        BY <1>1 DEF Longer, Lesser
      <4>3. after.opened => after.wait > 0
        <5>1. CASE after = AfterSuccess(breaker[q], call[c].trial)
          BY <5>1 DEF AfterSuccess
        <5>2. CASE after = AfterFailure(breaker[q], call[c].trial)
          BY <3>4, <4>2, <5>2 DEF AfterFailure, Opened
        <5>3. CASE \E asked \in RetryAfters :
                     after = AfterRateLimit(breaker[q], asked, call[c].trial)
          BY <5>3 DEF AfterRateLimit, Opened
        <5>4. QED BY <3>2, <5>1, <5>2, <5>3
      <4>4. QED BY <4>1, <4>3 DEF Reopened
    <3>5. QED BY <3>3, <3>4
  <2>5. CASE Tick
    <3>1. breaker'[p].trialInFlight = breaker[p].trialInFlight
      BY <2>5 DEF Tick
    <3>2. QED BY <1>1, <3>1 DEF TrialEnds
  <2>6. Next => \/ UNCHANGED breaker
                \/ \E c \in Calls, q \in LiveRungs : AskRung(c, q)
                \/ \E c \in Calls, q \in LiveRungs : Finish(c, q)
                \/ Tick
    BY DEF Next, Begin, Advance, RulesAnswer, SkipRung, RefuseRung
  <2>7. QED BY <1>1, <2>1, <2>2, <2>3, <2>4, <2>5, <2>6
<1>2. ChainInv /\ [Next]_vars =>
        [\A p \in LiveRungs :
           TrialEnds(p) /\ breaker[p].consecutive = Threshold => Reopened(p)]_vars
  BY <1>1
<1>3. QED BY <1>2, ChainInvariant, PTL DEF Spec, TrippedTrialReopens
=============================================================================
