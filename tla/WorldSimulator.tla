--------------------------- MODULE WorldSimulator ---------------------------
(***************************************************************************)
(* The World Simulator: seeding batches of synthetic payments with a       *)
(* sealed profile, and playing the bank and the customer against it.       *)
(*                                                                         *)
(* A seed is meant to reproduce a whole run.  Random numbers are drawn     *)
(* from an oracle: what it says of a (seed, question) is decided the first *)
(* time it is asked and repeated ever after, like a hash.                  *)
(***************************************************************************)
EXTENDS Naturals, FiniteSets, Functions

CONSTANTS
  Batches,      \* calls of SeedBatch
  PerBatch,     \* records asked for in each
  Scenario,     \* [batch -> the preset its request names]
  Wanted,       \* seeds a request may name; 0 leaves the choice to the clock
  ClockSeed,    \* the seed the clock gives
  Kinds,        \* [right, delayed]: profiles the generator draws
  Tries,        \* attempt numbers
  WorldActions, \* actions the Executor sends
  Webhooks,     \* records that came through Ingestion and have no profile
  MaxAnswers,   \* bound: attempts answered
  MaxRestarts   \* bound: restarts of the process

ASSUME WorldAssumption ==
  PerBatch \in Nat \ {0} /\ 0 \notin {ClockSeed} /\ Tries \subseteq Nat
  /\ MaxAnswers \in Nat /\ MaxRestarts \in Nat

VARIABLES
  seed,      \* Server.seed: 0 until a batch is seeded, lost with the process
  oracle,    \* partial: what has been drawn from a seed
  seeding,   \* [batch -> [seed, next, step]]
  truths,    \* GROUND_TRUTH: [record -> [kind, rollKey]], those written
  synthetic, \* RECORD: ids of synthetic records
  rawEvents, \* raw.events published
  answers,   \* outcomes rolled: [record, attempt, action, under, outcome, later]
  restarts
worldVars == <<seed, oracle, seeding, truths, synthetic, rawEvents, answers, restarts>>

Ordinals == 0..(PerBatch - 1)
Seeded   == Batches \X Ordinals

WorldInit ==
  /\ seed = 0 /\ oracle = << >>
  /\ seeding = [b \in Batches |-> [seed |-> 0, next |-> 0, step |-> "not called"]]
  /\ truths = << >> /\ synthetic = Webhooks /\ rawEvents = {}
  /\ answers = {} /\ restarts = 0

\* One draw: the oracle's answer to a question, from a set of possible answers.
Drawn(question, S, v) ==
  /\ v \in S
  /\ question \in DOMAIN oracle => v = oracle[question]
  /\ oracle' = IF question \in DOMAIN oracle THEN oracle
               ELSE [q \in DOMAIN oracle \union {question} |->
                       IF q = question THEN v ELSE oracle[q]]

\* generateScenarioRecord: one generator per call, started from its seed, draws
\* one record after the other, as the preset has it.
ProfileQuestion(b, i) == <<"generate", seeding[b].seed, Scenario[b], i>>

\* GenerateRecord: the profile of the batch's next record.
Generated(b, kind) == Drawn(ProfileQuestion(b, seeding[b].next), Kinds, kind)

-----------------------------------------------------------------------------
\* SeedBatch, one effect at a time.  The seed is set for every later roll,
\* those of earlier batches too; BATCH says at once how many records there
\* will be.
SeedBatch(b) ==
  /\ seeding[b].step = "not called"
  /\ \E wanted \in Wanted :
       LET s == IF wanted = 0 THEN ClockSeed ELSE wanted
       IN  /\ seed' = s
           /\ seeding' = [seeding EXCEPT ![b] = [seed |-> s, next |-> 0, step |-> "record"]]
  /\ UNCHANGED <<oracle, truths, synthetic, rawEvents, answers, restarts>>

\* The two inserts of insertSeedRecord, of the record the generator draws next.
InsertSeedRecord(b) ==
  /\ seeding[b].step = "record"
  /\ synthetic' = synthetic \union {<<b, seeding[b].next>>}
  /\ seeding' = [seeding EXCEPT ![b].step = "truth"]
  /\ UNCHANGED <<seed, oracle, truths, rawEvents, answers, restarts>>

InsertGroundTruth(b) ==
  /\ seeding[b].step = "truth"
  /\ \E kind \in Kinds :
       /\ Generated(b, kind)
       /\ truths' = [r \in DOMAIN truths \union {<<b, seeding[b].next>>} |->
                       IF r = <<b, seeding[b].next>>
                       THEN [kind |-> kind, rollKey |-> seeding[b].next] ELSE truths[r]]
  /\ seeding' = [seeding EXCEPT ![b].step = "publish"]
  /\ UNCHANGED <<seed, synthetic, rawEvents, answers, restarts>>

\* Mutant: the event goes out between the two inserts.
PublishEarly(b) ==
  /\ seeding[b].step \in {"truth", "publish"}
  /\ rawEvents' = rawEvents \union {<<b, seeding[b].next>>}
  /\ seeding' = IF seeding[b].step = "truth" THEN seeding
                ELSE [seeding EXCEPT ![b].next = @ + 1,
                        ![b].step = IF seeding[b].next + 1 = PerBatch THEN "done" ELSE "record"]
  /\ UNCHANGED <<seed, oracle, truths, synthetic, answers, restarts>>

PublishSeeded(b) ==
  /\ seeding[b].step = "publish"
  /\ rawEvents' = rawEvents \union {<<b, seeding[b].next>>}
  /\ seeding' = [seeding EXCEPT ![b] =
       [seed |-> seeding[b].seed, next |-> seeding[b].next + 1,
        step |-> IF seeding[b].next + 1 = PerBatch THEN "done" ELSE "record"]]
  /\ UNCHANGED <<seed, oracle, truths, synthetic, answers, restarts>>

\* A failed insert or publish ends the call and undoes nothing.  A publish may
\* have got through all the same.
SeedBatchFails(b) ==
  /\ seeding[b].step \in {"record", "truth", "publish"}
  /\ seeding' = [seeding EXCEPT ![b].step = "failed"]
  /\ rawEvents' \in {rawEvents} \union (IF seeding[b].step = "publish"
                             THEN {rawEvents \union {<<b, seeding[b].next>>}} ELSE {})
  /\ UNCHANGED <<seed, oracle, truths, synthetic, answers, restarts>>

-----------------------------------------------------------------------------
\* unseededProfile: the same for every attempt on the record.
UnseededKind == CHOOSE kind \in Kinds : TRUE

\* The sealed profile, or for a record without one a derived profile.
ProfileOf(r) == IF r \in DOMAIN truths THEN truths[r].kind ELSE UnseededKind

\* Mutant: the roll is keyed by the record's own id.
KeyedById(r) == r

RollKey(r) == IF r \in DOMAIN truths THEN truths[r].rollKey ELSE r

\* rollOutcome: below the smaller probability, between the two, or above both.
Rolls == {"any action", "right action", "none"}
Recovers(roll, action, kind) ==
  roll = "any action" \/ (roll = "right action" /\ action = kind.right)

\* SimulateOutcome.  The Executor asks once for an attempt.  A nudge of a kind
\* with a delay is answered PENDING, and what was rolled now is queued to be
\* told later.
SimulateOutcome(r, n, action) ==
  /\ r \in rawEvents \union Webhooks /\ r \in synthetic
  /\ Cardinality(answers) < MaxAnswers
  /\ \A a \in answers : <<a.record, a.attempt>> # <<r, n>>
  /\ \E roll \in Rolls :
       LET kind == ProfileOf(r)
           told == [record |-> r, attempt |-> n, action |-> action, under |-> seed,
                      outcome |-> IF Recovers(roll, action, kind) THEN "SUCCESS" ELSE "FAILURE",
                      later |-> action # "RETRY" /\ kind.delayed]
       IN  /\ IF seed = 0 THEN UNCHANGED oracle
              ELSE Drawn(<<"roll", seed, RollKey(r), n>>, Rolls, roll)
           /\ answers' = answers \union {told}
  /\ UNCHANGED <<seed, seeding, truths, synthetic, rawEvents, restarts>>

\* Redis and Postgres survive; the seed and the calls in progress do not.
WorldRestart ==
  /\ restarts < MaxRestarts /\ restarts' = restarts + 1
  /\ seed' = 0
  /\ seeding' = [b \in Batches |->
       IF seeding[b].step \in {"not called", "done", "failed"} THEN seeding[b]
       ELSE [seeding[b] EXCEPT !.step = "failed"]]
  /\ UNCHANGED <<oracle, truths, synthetic, rawEvents, answers>>

WorldNext ==
  \/ \E b \in Batches :
       \/ SeedBatch(b) \/ InsertSeedRecord(b) \/ InsertGroundTruth(b)
       \/ PublishSeeded(b) \/ SeedBatchFails(b)
  \/ \E r \in Seeded \union Webhooks, n \in Tries, a \in WorldActions : SimulateOutcome(r, n, a)
  \/ WorldRestart

WorldSpec == WorldInit /\ [][WorldNext]_worldVars

-----------------------------------------------------------------------------
\* A seed reproduces a run: of two batches of one scenario and one seed, the
\* records at the same place have the same profile, and get the same answer to
\* the same attempt whatever else was asked in between, as long as both were
\* rolled under that seed.  (Not across a restart or a batch with another seed,
\* which replace the seed of payments still in flight.)
SameSeedSameRun ==
  \A a, b \in answers :
     LET SeedOf(x) == seeding[x.record[1]].seed
     IN  /\ a.record \notin Webhooks /\ b.record \notin Webhooks
         /\ a.record[2] = b.record[2] /\ a.attempt = b.attempt /\ a.action = b.action
         /\ SeedOf(a) = SeedOf(b) /\ Scenario[a.record[1]] = Scenario[b.record[1]]
         /\ a.under = SeedOf(a) /\ b.under = SeedOf(b)
         => a.outcome = b.outcome

\* No payment of a seeded batch reaches the Decision Engine before its row and
\* its sealed profile are there, whatever fails and whenever the process dies:
\* the agent would dead-letter it, and the world would play it by another
\* profile than the one accuracy is measured by.
PublishedAreSealed == rawEvents \subseteq (synthetic \intersect DOMAIN truths)
=============================================================================
