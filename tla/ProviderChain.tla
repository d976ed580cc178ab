--------------------------- MODULE ProviderChain ---------------------------
(***************************************************************************)
(* The Classifier: concurrent Classify calls walk one chain of providers,  *)
(* each live one behind its own circuit breaker, until a rung answers.     *)
(* The last rung is the rules engine, which cannot fail.  ComposeNudge     *)
(* walks a chain of the same shape with breakers of its own.               *)
(*                                                                         *)
(* Time is kept as what remains of each interval, so nothing counts up for *)
(* ever: `wait' until a circuit may be tried, `left' of a caller's         *)
(* deadline, `patience' of the context a rung runs under.                  *)
(***************************************************************************)
EXTENDS Integers

CONSTANTS
  Calls,         \* requests that may be in progress together
  Rungs,         \* live providers in the chain, numbered in its order
  Threshold,     \* consecutive failures that open a circuit
  Cooldown,      \* how long it then stays open
  RetryAfters,   \* what a 429 may ask for; 0 when it names no interval
  RungTimeout,   \* cap on one live rung
  Reserve,       \* held back from the caller's deadline for the rules rung
  CallTimeouts   \* deadlines callers set, at least 1

\* NewBreaker and validateConfig refuse anything else; a request without a
\* deadline is refused by an interceptor.
ASSUME ChainAssumption ==
  /\ Rungs \in Nat
  /\ Threshold \in Nat \ {0} /\ Cooldown \in Nat \ {0}
  /\ RungTimeout \in Nat \ {0} /\ Reserve \in Nat
  /\ RetryAfters \subseteq Nat /\ CallTimeouts \subseteq Nat \ {0}

VARIABLES
  breaker,   \* [live rung -> circuit breaker]
  call       \* [request -> where its walk stands]
vars == <<breaker, call>>

LiveRungs == 1..Rungs
RulesRung == Rungs + 1
AnyRung   == 1..RulesRung

\* `opened' is a non-zero openUntil; with no wait left it is half-open.
\* `consecutive' stops at Threshold: the code only asks whether it got there.
Breakers ==
  [consecutive : 0..Threshold, opened : BOOLEAN, wait : Nat,
   trialInFlight : BOOLEAN]

\* rung: the one at hand, or the one that answered.  given: the deadline set.
Walks ==
  [phase : {"idle", "walking", "calling", "answered"}, rung : AnyRung,
   given : Nat, left : Nat, patience : Nat, trial : BOOLEAN]

TypeOK ==
  /\ breaker \in [LiveRungs -> Breakers]
  /\ call \in [Calls -> Walks]

NewBreaker ==
  [consecutive |-> 0, opened |-> FALSE, wait |-> 0, trialInFlight |-> FALSE]

NoWalk ==
  [phase |-> "idle", rung |-> RulesRung, given |-> 0, left |-> 0,
   patience |-> 0, trial |-> FALSE]

Init ==
  /\ breaker = [p \in LiveRungs |-> NewBreaker]
  /\ call = [c \in Calls |-> NoWalk]

-----------------------------------------------------------------------------
\* The circuit breaker

Lesser(a, b) == IF a < b THEN a ELSE b

\* Mutant: half-open admits everyone.
AdmitsAll(b) == IF b.opened /\ b.wait = 0 THEN "trial"
                ELSE IF b.opened THEN "refuse" ELSE "pass"

\* admit: a closed circuit lets calls pass, one that waits refuses them, one
\* whose wait is over lets a single trial through.
Admission(b) ==
  CASE ~b.opened -> "pass"
    [] b.opened /\ b.wait = 0 /\ ~b.trialInFlight -> "trial"
    [] b.opened /\ (b.wait > 0 \/ b.trialInFlight) -> "refuse"

Opened(b, n, interval, trial) ==
  [consecutive |-> n, opened |-> TRUE, wait |-> interval,
   trialInFlight |-> b.trialInFlight /\ ~trial]

\* record, a valid answer: also one to a call that passed before the circuit
\* opened closes it.
AfterSuccess(b, trial) ==
  [consecutive |-> 0, opened |-> FALSE, wait |-> 0,
   trialInFlight |-> b.trialInFlight /\ ~trial]

Longer(b) == Lesser(b.consecutive + 1, Threshold)

\* Mutant: a failed trial leaves the flag of the trial set.
AfterFailureHeld(b, trial) ==
  IF Longer(b) >= Threshold
    THEN Opened(b, Longer(b), Cooldown, FALSE)
    ELSE [b EXCEPT !.consecutive = Longer(b)]

\* Mutant: a circuit that is open already is not opened again.
AfterFailureOnce(b, trial) ==
  IF Longer(b) >= Threshold /\ ~b.opened
    THEN Opened(b, Longer(b), Cooldown, trial)
    ELSE [b EXCEPT !.consecutive = Longer(b),
                   !.trialInFlight = @ /\ ~trial]

\* record, any failure but a 429: error, timeout, or an invalid answer.
AfterFailure(b, trial) ==
  IF Longer(b) >= Threshold
    THEN Opened(b, Longer(b), Cooldown, trial)
    ELSE [consecutive |-> Longer(b), opened |-> b.opened, wait |-> b.wait,
          trialInFlight |-> b.trialInFlight /\ ~trial]

\* record, a 429: open at once, for as long as the provider asked.
AfterRateLimit(b, asked, trial) ==
  Opened(b, Longer(b), IF asked = 0 THEN Cooldown ELSE asked, trial)

-----------------------------------------------------------------------------
\* The walk

Walking(c, p) == call[c].phase = "walking" /\ call[c].rung = p

SetWalk(c, w)    == call' = [call EXCEPT ![c] = w]
SetBreaker(p, b) == breaker' = [breaker EXCEPT ![p] = b]

AtRung(c, p) ==
  [phase |-> "walking", rung |-> p, given |-> call[c].given,
   left |-> call[c].left, patience |-> 0, trial |-> FALSE]

AnsweredBy(c, p) ==
  [phase |-> "answered", rung |-> p, given |-> call[c].given,
   left |-> call[c].left, patience |-> 0, trial |-> FALSE]

\* A request arrives; one the caller forces to rules sees no other rung.
Begin(c) ==
  /\ call[c].phase \in {"idle", "answered"}
  /\ \E timeout \in CallTimeouts, forced \in BOOLEAN :
       SetWalk(c, [phase |-> "walking",
                   rung |-> IF forced THEN RulesRung ELSE 1,
                   given |-> timeout, left |-> timeout,
                   patience |-> 0, trial |-> FALSE])
  /\ UNCHANGED breaker

\* rungCtx: what is left of the deadline after the reserve pays for a rung.
Affordable(c) == call[c].left > Reserve

\* Mutant: a rung gets its cap whatever the caller's deadline.
FullBudget(c) == RungTimeout

Budget(c) == Lesser(RungTimeout, call[c].left - Reserve)

\* deadline_exhausted: too little is left, the rung is not asked.
SkipRung(c, p) ==
  /\ Walking(c, p)
  /\ ~Affordable(c)
  /\ SetWalk(c, AtRung(c, p + 1))
  /\ UNCHANGED breaker

\* Mutant: a refused call stays at its rung until the circuit lets it through.
StayAtRung(c, p) ==
  /\ Walking(c, p)
  /\ Affordable(c)
  /\ Admission(breaker[p]) = "refuse"
  /\ UNCHANGED vars

\* circuit_open: the breaker refuses, the provider is not asked.
RefuseRung(c, p) ==
  /\ Walking(c, p)
  /\ Affordable(c)
  /\ Admission(breaker[p]) = "refuse"
  /\ SetWalk(c, AtRung(c, p + 1))
  /\ UNCHANGED breaker

\* The breaker lets the call through, perhaps as the trial.
AskRung(c, p) ==
  LET b == breaker[p]
      trial == Admission(b) = "trial"
  IN /\ Walking(c, p)
     /\ Affordable(c)
     /\ Admission(b) # "refuse"
     /\ SetBreaker(p, [consecutive |-> b.consecutive, opened |-> b.opened,
                       wait |-> b.wait,
                       trialInFlight |-> b.trialInFlight \/ trial])
     /\ SetWalk(c, [phase |-> "calling", rung |-> p,
                    given |-> call[c].given, left |-> call[c].left,
                    patience |-> Budget(c), trial |-> trial])

Calling(c, p) == call[c].phase = "calling" /\ call[c].rung = p

\* The provider answers and the answer is valid.
RungAnswers(c, p) ==
  /\ Calling(c, p)
  /\ SetBreaker(p, AfterSuccess(breaker[p], call[c].trial))
  /\ SetWalk(c, AnsweredBy(c, p))

\* The provider errs, answers outside the schema, or lets the context expire.
RungFails(c, p) ==
  /\ Calling(c, p)
  /\ SetBreaker(p, AfterFailure(breaker[p], call[c].trial))
  /\ SetWalk(c, AtRung(c, p + 1))

\* The provider answers 429.
RungThrottles(c, p) ==
  /\ Calling(c, p)
  /\ \E asked \in RetryAfters :
       SetBreaker(p, AfterRateLimit(breaker[p], asked, call[c].trial))
  /\ SetWalk(c, AtRung(c, p + 1))

\* The rules engine answers, whatever is left of the deadline.
RulesAnswer(c) ==
  /\ Walking(c, RulesRung)
  /\ SetWalk(c, AnsweredBy(c, RulesRung))
  /\ UNCHANGED breaker

\* One unit of time passes.  A walk does no I/O of its own and takes none; a
\* provider is never waited for beyond its context.
Tick ==
  /\ \A c \in Calls :
       /\ call[c].phase # "walking"
       /\ call[c].phase = "calling" => call[c].patience > 0
  /\ breaker' = [p \in LiveRungs |->
       [consecutive |-> breaker[p].consecutive, opened |-> breaker[p].opened,
        wait |-> IF breaker[p].wait > 0 THEN breaker[p].wait - 1 ELSE 0,
        trialInFlight |-> breaker[p].trialInFlight]]
  /\ call' = [c \in Calls |->
       IF call[c].phase = "calling"
         THEN [phase |-> "calling", rung |-> call[c].rung,
               given |-> call[c].given, left |-> call[c].left - 1,
               patience |-> call[c].patience - 1, trial |-> call[c].trial]
         ELSE call[c]]

Advance(c) ==
  \/ RulesAnswer(c)
  \/ \E p \in LiveRungs : SkipRung(c, p) \/ RefuseRung(c, p) \/ AskRung(c, p)

Finish(c, p) == RungAnswers(c, p) \/ RungFails(c, p) \/ RungThrottles(c, p)

Next ==
  \/ \E c \in Calls : Begin(c) \/ Advance(c) \/ \E p \in LiveRungs : Finish(c, p)
  \/ Tick

Spec == Init /\ [][Next]_vars

\* A walk goes on and a context ends every call.  That requests arrive, or that
\* a provider answers well, is not assumed.
FairSpec ==
  /\ Spec
  /\ \A c \in Calls :
       /\ WF_vars(Advance(c))
       /\ WF_vars(\E p \in LiveRungs : Finish(c, p))

-----------------------------------------------------------------------------
\* Properties

Trials(p) == {c \in Calls : Calling(c, p) /\ call[c].trial}

\* A circuit that may be tried again is tried by one call: the flag the
\* breaker keeps is set exactly while that call is out, however calls admitted
\* before the circuit opened return in between.
OneTrial ==
  \A p \in LiveRungs :
    /\ breaker[p].trialInFlight <=> Trials(p) # {}
    /\ \A c, d \in Trials(p) : c = d

\* A closed circuit is never one more failure past its threshold: the run of
\* failures and the state of the circuit cannot drift apart.
ClosedBelowThreshold ==
  \A p \in LiveRungs :
    ~breaker[p].opened => breaker[p].consecutive < Threshold

\* However the live rungs behave, a walk reaches the rules rung and its answer
\* with the reserve of its deadline unspent, or with all of a shorter deadline.
TimeForRules ==
  \A c \in Calls :
    /\ call[c].phase # "idle" => call[c].left >= Lesser(Reserve, call[c].given)
    /\ call[c].phase = "calling" => call[c].left - call[c].patience >= Reserve

TrialEnds(p) == breaker[p].trialInFlight /\ ~breaker[p].trialInFlight'
Reopened(p)  == breaker[p].opened' => breaker[p].wait' > 0

\* When the trial of a circuit that failures had tripped ends, the circuit is
\* closed or open for a whole cooldown; it is not left to be tried at once.
TrippedTrialReopens ==
  [][\A p \in LiveRungs :
       TrialEnds(p) /\ breaker[p].consecutive = Threshold => Reopened(p)]_vars

\* The same of every trial: "a failed trial reopens it and resets the
\* cooldown".  False when a single 429 had opened the circuit.
FailedTrialReopens ==
  [][\A p \in LiveRungs : TrialEnds(p) => Reopened(p)]_vars

\* Every request is answered.
EveryCallAnswered ==
  \A c \in Calls : (call[c].phase = "walking") ~> (call[c].phase = "answered")

Failing(p) == \E c \in Calls : RungFails(c, p) \/ RungThrottles(c, p)
Offered(p) == \E c \in Calls : RefuseRung(c, p) \/ AskRung(c, p)

\* A provider that works again is used again: if time goes on, requests go on
\* being offered to it and from some point it answers all those it gets well,
\* its circuit does not stay open.
ProviderRejoins ==
  \A p \in LiveRungs :
    ([]<><<Tick>>_vars /\ []<><<Offered(p)>>_vars /\ <>[][~Failing(p)]_vars)
      => []<>(~breaker[p].opened)
=============================================================================
