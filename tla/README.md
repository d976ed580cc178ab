# Momotaro in TLA+

Momotaro recovers failed payments. A failed payment is taken in, its root cause
is classified, an economics gate decides whether a retry of the debit or a
message to the customer is worth its price, and a scheduler carries the chosen
intervention out when it falls due, for as long as guardrails allow another one.
This directory holds TLA+ models of the parts of it where order, failure and
concurrency matter, the configurations that check them with TLC, and proofs
that TLAPS checks.

## The system

Services talk gRPC; Postgres holds all durable state; Kafka carries raw events.

    gateway -> Ingestion --raw.events--> Decision Engine -> Classifier
                                          |  ^        |
                                 Execute  v  |        v  RECORD_STATE, AUDIT_ENTRY
                                    Executor |        Postgres <- Audit (verification)
                                          |  | ReportDelayedOutcome
                                          v  |
                             World Simulator (debits, customers) ; Notification simulator

| part | state | operations | what is hard | what makes it correct |
|---|---|---|---|---|
| Decision Engine, intake (`engine.go`) | `RECORD_STATE`, `AUDIT_ENTRY`; the raw event in hand | `HandleMessage`, `classifyWithRetry`, dead letter | the same event at two pods; existence check and insert are two statements; dead letters | one row per record, its trail from NEW |
| Decision Engine, scheduler (`scheduler.go`, `store.go`) | the batch a pod has claimed, in memory only | `claimDue`, `process`, `executeWithRetry`, `recordOutcome`, `handleFailedAttempt`, `recordRescore` | several pods, crashes between claim and result, lost answers, failed transactions, writes by id without re-reading | one execution in flight, trail explains row, attempt numbers without gaps |
| Decision Engine, delayed outcomes (`ResumeNudge`, `applyResumedOutcome`) | calls being served | check, plan, check again under the row lock, write | repeated, late and early reports; report racing the scheduler | each answer applied once, to the attempt it answers |
| Decision Engine, policy (`guardrails.go`, `state.go`, `schedule.go`, `economics`) | none | guardrails, expected value, due times | checked at scheduling, used at execution | caps, cooldown, window, contact hours |
| Executor | `INTERVENTION_ATTEMPT` | `Execute`: claim, act, record; or wait and replay | retried calls, a claimant that dies, port errors after the effect | at most one effect per attempt, one answer |
| Keyed consumer (`kafkax/keyed.go`) | position, worker pool, commit tracker; the broker's offsets | fetch, dispatch by key, handle, complete, commit, stop | parallel workers over one log, crash, rebalance, full channel | no offset skipped, keys in order, nothing committed backwards |
| Audit | reads only | `VerifyInvariants`, watch loop | two statements without a common snapshot | no false alarm, no missed one |
| World Simulator | Redis queue of delayed answers | `SimulateOutcome`, poller's `due` and `deliver` | dequeue before delivery, bounded retries | at most the promised deliveries |
| Classifier | per-provider circuit breaker | `Classify` through a chain of rungs | late results of calls admitted earlier, one trial at a time | some rung always answers; an open breaker recovers |
| Diagnosis: rules (`rules/`), what is accepted of a model (`parse.go`, `validate_nudge.go`), routing and its budgets (`clients.go`, `llm_budget.go`) | two counters | `classify`, `decide`, `composeNudge`, `consider` | hundreds of codes against thresholds; the ratio at the edges; tables copied by hand | risky payments go to humans, answers stay in the vocabulary, calls never above the rate, copies agree |
| Ingestion | `RECORD`, `BATCH`, outgoing event | `SubmitEvent`, `SubmitBatch` | insert, publish and count are not atomic; concurrent same key; a shared batch | one record per key, totals not above what is on its way |
| Payment downtimes (`recordDowntimeEvent`, `downtimeBlocksRetry`) | `PAYMENT_DOWNTIME` | upsert per webhook, newest row read | webhooks lost, repeated, out of order | a known outage holds retries, none holds them for ever |
| World Simulator, seeding and rolls (`seed.go`, `rand.go`) | the seed, `GROUND_TRUTH` | `SeedBatch`, `SimulateOutcome` | several batches, calls in any order, failures half way, restarts | a seed reproduces a run; nothing is published unsealed |
| Reporting | nothing durable; a hub of channels | `GetBatchReport`, `ListBatchRecords`, `StreamBatchUpdates`, the consumer of `audit.events` | one statement per figure, paging a list that grows, slow or leaving viewers | figures do not flatter, no record missed, never sends on a closed channel, never blocks |
| Every process (`cmd/main.go`, `shutdown.go`) | stage, loops, open calls | start, signal, loops, drain, exit | what comes first; grace; streams without deadline | exit 0 means nothing was lost; a process told to stop ends |
| API gateway | none | checks, translation, statuses | order of refusals, shapes of webhooks | see Ingestion, downtimes |
| Notification simulator, platform libraries, dashboard, tools | none of their own | translation | | |

The hazards each part is exposed to are listed with their lines in
`PROJECT.json`, with the properties that cover them.

## Modules

- **RecoveryPolicy**: the pure policy. `Blocked`, `HeldByDowntime`, `Permitted`
  are `guardrails.go`; `ExpectedValue`, `Position`, `IsBest`, `ScoreAndRoute` are
  the economics gate and `state.go`; `DueAt` and `ContactHourWindow` are
  `schedule.go`. Money is integer paise times 10000 so no rounding occurs. Tables
  of priors and costs are constants; the MC module uses the shipped numbers.
- **RecordLifecycle**: the abstract specification. One record as the rest of the
  system is promised to see it: state, interventions spent, intervention in
  flight. It also holds the Audit service's own transition table and verdicts
  (`statemachine.go`, `verify.go`).
- **RecoveryAgent**: the Decision Engine with everything it interacts with.
  `HandleStart/Schedule/DeadLetter/Conflict` are the raw-event handler;
  `ClaimDue, CallExecute, CallAnswered, CallFails, RecordResult, Rescore,
  RecordRescore, ResultLost` the scheduler worker, one action per point at which
  it touches the database or another service; `ResumeDiscard, ResumePlan,
  ResumeApply, ResumeFails` one report call; `PollerTake/Call/TimesOut/Dies` the
  World Simulator's poller; `Crash` ends a pod and loses `job` and `intake`.
- **Executor**: `INTERVENTION_ATTEMPT` and the calls that act for it, with
  atomic operations. RecoveryAgent uses it by `INSTANCE`.
- **ExecuteCalls**: the same RPC statement by statement, several calls at once.
  It implements Executor (`ImplementsExecutor`).
- **KeyedConsumer**: the members of a consumer group around `ConsumeKeyed`, with
  the broker's assignment and committed offsets.
- **ProviderChain**: the Classifier. Concurrent `Classify` calls walk the rungs;
  `SkipRung` and `RefuseRung` are the `deadline_exhausted` and `circuit_open`
  hops, `AskRung` is `admit`, `RungAnswers`, `RungFails`, `RungThrottles` are the
  provider's result with `record`, `RulesAnswer` is the last rung. `ComposeNudge`
  has the same code with breakers of its own.
- **Ingestion**: `SubmitEvent` and `SubmitBatch` behind the Gateway's checks. One
  action per statement: `Lookup`, `RollingBatch`, `CreateBatch`, `InsertRecord`,
  `Publish`, `Count`. `Then` lets a statement take effect and still report an
  error; `Fails` ends a call without effect. `Arrive` repeats a request after an
  error and after an answer.
- **PaymentDowntime**: the provider's outages, its webhooks on the wire (`Deliver`
  takes any one ever sent, so they are lost, repeated and reordered), the upsert,
  the choice of the row (`Active`, `UpdatedLast`) and the limits of a hold (`Blocks`).
  The column `updated_at` is the order it gives rows: `newer`, a set of pairs.
- **WorldSimulator**: `SeedBatch` insert by insert, the rolls of `SimulateOutcome`,
  restarts. A pseudo-random generator is an oracle: what it says of a seed and a
  question is open the first time and the same ever after (`Drawn`).
- **Diagnosis**: `AskRules`, `Route`, `Judge`, `ComposeNudge` are the Engine's and
  the Scheduler's steps around the Classifier; the tables of codes, actions,
  confidences and prices are the shipped ones, every copy of them. `NudgeAccepted` looks
  at a text with the placeholder in it, `Substituted` writes the amount into it, and
  `text` is what comes out; an amount is how it is written (`RupeesLength`).
- **ServiceProcess**: one process of any of the nine services, each described by
  the steps of its start, the loops it waits for and what its drain waits for.
- **Ledger**: RecordLifecycle with the rows it leaves behind, which is what readers
  see: `RECORD_STATE`, `AUDIT_ENTRY`, `INTERVENTION_ATTEMPT`.
- **AuditScan, BatchReport, LiveUpdates**: readers over Ledger, one action per
  statement: the Audit service's scan, watcher and single inquiry; Reporting's
  figures, baseline policy and paged list; its consumer, hub and streams.
- **ReadSide** puts these three beside each other over one Ledger. **Periphery** puts
  Ingestion, PaymentDowntime, Executor, WorldSimulator, Diagnosis and ServiceProcess
  beside each other. The parts of each do not share state that they write, so a
  behaviour has one of them at work (`view`, `part`) while the others rest: their
  interleavings would add states and no behaviour.
- **RecoveryAgentProofs** and **AgentClaimProofs** (which extends it), **ExecutorProofs,
  ExecuteCallsProofs, KeyedConsumerProofs, ProviderChainProofs, ReadSideProofs,
  PeripheryProofs**: theorems. ReadSideProofs is about the readers and the ledger they
  read; PeripheryProofs about every part of Periphery but the Executor.
- **MCRecoveryAgent, MCExecuteCalls, MCKeyedConsumer, MCProviderChain, MCReadSide,
  MCIngestion, MCPeriphery**: instances.

What a definition stands for is in `PROJECT.json` under `map`.

### Points of the translation worth knowing

- `HandleSchedule` reads history and inserts in one step. A record without a row
  can only be touched by a second handler of the same event; that one is modelled
  by `HandleConflict`: the primary key refuses the insert, the error leaves the
  handler, `ConsumeKeyed` returns and the process exits, which is why it loses the
  pod's claimed records as well.
- `ClaimDue` claims any part of the due rows up to the batch size: `SKIP LOCKED`
  may skip what another pod holds.
- `ResumePlan` merges `loadNudged` with the reads that follow; what matters is the
  gap before `ResumeApply`, where everything may happen, and `ResumeApply` checks
  the row again as the code does under its row lock.
- `RecordResult` and `RecordRescore` write the row by its id without looking at
  it, as the code does.
- `PollerTake` takes one answer off the queue at a time where `due` takes all that
  are due; `PollerDies` loses what was taken.
- A graceful stop of the scheduler fails the calls in progress with the context's
  error and cannot publish dead letters: it is `Crash`.
- A fetch error of `ConsumeKeyed` has the same effect as `Cancel`. After a
  cancellation Go's `select` may still hand a record over; the handler then runs
  with a dead context and reports an error (`HandOver`, phase "cancelled").
- Left out of the policy: the salary-window calendar and the mandate lead-time
  floor, which only postpone a retry, and the six-hour limit on a downtime nobody
  resolves. Downtimes start and end at any time in the model.
- In ProviderChain intervals are kept as what is left of them, so a run has no end
  and liveness means something. `consecutive` stops at the threshold: the code only
  asks whether it got there. A walk takes no time, a provider takes up to its
  context's; the budget's arithmetic is exact in the model and short of scheduling
  delays in the program.
- `PENDING` comes back from a nudge only; the retry port never reports it.
- Ledger is more permissive than the engine: any outcome may be followed by any route
  the lifecycle allows. Readers must be right about all of them. Reports look at a
  ledger in which the Executor's rows come before the transaction that accounts for
  them, as they do.
- In AuditScan `moved` is ghost state: it records which trails grew between the two
  statements. So are `netThen`, `creditable`, `classified` and `known` in BatchReport,
  and `present` in a walk through the pages.
- In Diagnosis a payment is its code, source, step, type and amount, already normalised;
  texts are described by what `validateNudge` looks for. Failures of the calls themselves are
  ProviderChain's: `Route` takes any answer that a chain can give.
- `BookedCost`: a nudge is booked at what the Notification Simulator bills, a debit at the
  Executor's own price. The Executor's price list of channels is what its stub port
  answers with, and `CopiesAgree` compares it too.
- `Scenario` assigns each call of SeedBatch its preset, in any way; all calls ask for
  equally many records. What is drawn depends on seed, preset and place.
- `Fetch` of KeyedConsumer asks before each record whether the member runs and owns the
  partition. The code asks before each poll, and may hand the rest of a polled batch to
  its workers after a revocation or a cancel (`keyed.go:257-275`): those records are
  handled once more, as a record fetched just before is in the model.
- ServiceProcess leaves out goroutines that nothing waits for (metrics listener, lag
  exporter, invariant watcher).
- The clock of PaymentDowntime is shared by the provider and the engine, and no two
  webhooks are handled at the same instant of it.
- RecordLifecycle's `Claim` takes a set of records, as one `claimDue` claims a batch.
- A payment's code may be known to the demo's generator and unknown to the rules, or the
  reverse; where `Judge` can be reached by two of its conditions the first decides, as
  in the code.
- `Naive` multiplies failure odds up step by step as the code keeps its running product,
  in units of 1 / `Sides`^4.
- A viewer's `Total` is what it has added up and what waits in its channel, the most it
  can show without a further message.

## Checks

Every passing run explores its instance completely; the five violation runs stop at
their counterexample.

| run | instance | what it shows |
|---|---|---|
| AgentFaults | 1 payment, 2 pods, 1 report call, 1 pod crash, every fault | the trail explains the row (`TrailsComplete`), attempts do not overlap (`AttemptsInSequence`), a claimed record belongs to one pod or to a dead one (`ClaimSerialises`), RECOVERED means a debit or customer really succeeded (`RecoveredIsReal`), caps and cooldown hold, nothing is spent after the end (`NoSpendAfterEnd`), and RecordLifecycle is implemented |
| AgentSettles | 1 payment, fair pods, downtimes come and go | every payment ends |
| ExecuteCalls | 3 calls x 2 attempts, claimants that die | the RPC's statements implement Executor; no call waits for ever |
| Keyed | 2 members, 3 records, 2 failures, 1 rebalance | nothing skipped, keys in order, commits move forward, only work in flight holds them back unless the partition has moved (`UnmovedGapsAreInFlight`), a stop commits what it can, all is committed |
| ChainWalk | 2 calls, 2 live rungs, threshold 2 | one trial at a time, the reserve is kept, every call answered, a provider that works again rejoins |
| ReadSide | 2 records; 2 viewers, channels of 1; up to 4 rows in pages of 1 to 3 | an alarm only about a record that moved during the scan, and none that stays; a report whose net was earned, whose parts leave nothing out and whose baseline is the mean of all the ways it could go; no record missed by turning pages; streams in order, never more money than in the books, never a send on a closed channel, never in the consumer's way |
| Periphery | per part, see below | `OneRecordPerKey`, `NeverOvercounted` (Ingestion); `KnownOutageHolds` (downtimes); `AtMostOneEffect`, `AnswersAreRecorded` (Executor); `SameSeedSameRun`, `PublishedAreSealed` (World Simulator); `HeldForReview`, `AnswersAreUsable` (the limit on characters holds of the text that was accepted, and what writing the amount adds to it is bounded), `BudgetHolds` (a ratio of what was weighed), `CopiesAgree` (diagnosis); `CleanExit` (processes); and `PeripherySettles`: holds end, senders that repeat themselves get through, a process told to stop does |
| StaleReport, LostInCrash, KeyedRebalance, FailedTrial, LostEvent | | the findings below |

### Bounds, and why they are enough

*Agent.* One payment: records share no state but the Executor's table, which is keyed
by record, and a pod's batch. Two pods are what a claim, a conflict or a crash needs.
Two retries and two contacts with five attempts let every cap bind, including the
attempt after the last one; a day of three ticks with contact hours inside it, a
cooldown of two and a window of six to eight make each of those guardrails decide
something before `MaxTime`. AgentFaults reports each answer once; what a second
delivery can do is StaleReport's question. The shipped priors and costs are used for
the buckets chosen, so that retry, both nudges and giving up are each best somewhere.

*Executor.* A slot never looks at another; ExecuteCalls uses three calls so that a
claimant and two duplicates meet at every statement. `PollBudget` bounds `Await`'s
polls, which in the code end with its deadline.

*Keyed consumer.* Three records over keys and two workers: records wait behind their own
key, behind another key, and not at all. The channel of finished records holds `PoolSize`
= 2 so it fills. `MaxFailures` bounds crashes, stops, failed handlers and failed commits
together.

*Classifier.* The context of a rung outlasts a cooldown, so that calls admitted while
a circuit was closed return after it opened, after its trial began and after it ended.
Two deadlines: one that pays for both rungs and one that is shorter than the reserve
allows. Two live rungs make the time budget add up.

*Readers.* Two records with different amounts, so that no sum equals another by
chance, and one intervention each: a reader's error needs one transaction between two
of its statements. A channel of one message is full at once. Four rows and pages of one,
two (the default) and three (the maximum, asked for as nine) put rows added in front of,
on and behind the page. Probabilities are halves: with `Sides` = 2 every die of the
baseline falls either way, or cannot.

*Ingestion.* Two senders, three tries each and one failure: the loser of a race repeats,
fails and repeats again. Requests cover every path: with a key and without, a bad
signature, a refused record, batches with good and bad records, one of them named like
the shared batch. *Downtimes.* Two of one instrument, planned or open-ended, one update
each way, a clock of three. *World.* Two batches of two records, one
preset and one seed, named by the request or given by the clock and lost by a restart:
the case in which runs must agree. Two answers are compared. *Diagnosis.* Every known code with the most
misleading fields around it, an unknown one with every combination; thresholds at
both ends and the shipped one; four payments or nudges against a rate of one half let
the ratio be met, missed by one and met again; texts at the limit and one byte past it,
with the amounts "Rs 750" and "Rs 10000.01", which make a text shorter and longer: one
of 161 bytes is sent where 160 were allowed. *Processes.* All nine services, each
setting lacking in turn, two calls.

`CHECK_DEADLOCK FALSE` stands where the system rests: when each payment has ended and
each answer is in, when all calls have returned, when the whole log is committed, when
senders have used their tries or a process has exited. ProviderChain never rests and is
checked for deadlock.

### Fairness

- *Agent*: the clock ticks; each pod keeps polling (`Run`'s loop in `scheduler.go`), takes
  pending events and carries a claimed record through (one goroutine, no unbounded
  wait: every call has a deadline); the poller keeps polling; a report being served
  ends. Faults are never fair. AgentSettles also assumes that an answer does not arrive
  before the nudge that caused it is recorded (`EarlyReports = FALSE`): an early one is
  refused, and since the poller retries for a few seconds only, the record can stay in
  NUDGED.
- *ExecuteCalls*: each call in progress goes on; claimants may die.
- *Keyed consumer*: goroutines run, handlers return, the broker answers commits,
  members restart and partitions are assigned.
- *ProviderChain*: walks go on and contexts expire. `ProviderRejoins` states what it
  needs of the environment itself: time passes, the provider is offered requests again
  and again and from some point answers well.

- *ReadSide*: the watcher's ticker fires again and again even though callers and failing
  statements come between (strong fairness of `WatcherStarts`), statements end, and the
  consumer's loop runs. Viewers need not read, nor records move.
- *Periphery*: time passes; a call being served goes on, and a sender that was told of a
  failure sends again; goroutines of a process run, its loops return when cancelled, its
  grace timer fires and unary calls end by their deadline, which the interceptor demands
  of every one of them. Nothing is assumed of calls without deadline, of signals or of
  webhooks.

## Proofs

TLAPS checks these for every value of the constants the named assumptions allow
(`PolicyAssumption`, `AgentAssumption`, `ExecutorAssumption`, `CallsAssumption`,
`KeyedAssumption`, `ChainAssumption`, `IngestAssumption`, `DowntimeAssumption`,
`WorldAssumption`, `DiagnosisAssumption`, `LedgerAssumption`, `ReportAssumption`,
`LiveAssumption`): bounds, amounts, costs and times are numbers, limits and intervals are
positive, contact hours lie within the day, there are finitely many records, pods and
callers, keys map to workers, `Nobody` is not a member and `None` no record or bucket, zero
is no seed, a rate and a probability are fractions of at most one. Two theorems need more
and say so in their statement (`OneDelivery` and the shapes of webhooks, below).

Every safety invariant and every action property that a passing run checks is a theorem,
and so are the two refinements.

**The agent, whatever happens** (RecoveryAgentProofs: `AgentTypes`, `OnlyRealRecoveries`,
`AgentRunsExecutor`, `AttemptsActOnce`, `HardCapsHold`, `ContactsKeepApart`). None of these
needs a claim to be exclusive, and none depends on how often an answer is delivered.
`GroundInv` says of each row, slot, job, answer and call what form it has: a row waits
for a spending action and for nothing else, a job names an action the engine can have
chosen, an answer on its way is that of a pending nudge. That a record was really
recovered (`Earned`) follows, and so does that every use of the Executor is one its
specification allows; what is proved of the Executor then holds inside the agent.
Caps and cooldown are about slots, but the guardrails look at the history when a record
is scored, long before it is executed. `SpendingInv` bridges the two: attempts are in
order, those settled fit the caps and the cooldown (`SpendingFits`, `InOrder`), and
whatever is still to be spent, by the row, by a job in a pod's hands, and by a planned
answer, may follow what is settled (`MayFollow`, `JobMay`, `CallMay`). A crash or a stale
write can only bring back something that was allowed over the same history.

**The agent, one delivery of each answer** (AgentClaimProofs: `OneExecutionAtATime`,
`TrailsExplainStates`, `AttemptsFollowOneAnother`, `EndedIsLeftAlone`,
`AgentImplementsLifecycle`). These have the hypothesis `OneDelivery`: the poller tries a
report once, or no report call fails or times out. The code tries three times
(`poller.go:19`, `maxDeliverAttempts`), so for the program as it is configured they speak
of executions in which every report call is answered in time. They cannot hold without
it: StaleReport is a run in which a second delivery breaks `ClaimSerialises`, and
`TrailsComplete` fails with it. Everything else that can go wrong, crashes of pods, lost
calls, failed transactions, redelivered events, is allowed. `AgentInv` is `GroundInv`
and, for each record: a live job is the only one and matches its row (`Owned`); every
counted attempt has ended and at most one more is begun, under a claim (`InSequence`); a
record not taken in has no past (`Fresh`); the trail explains the row (`Explained`); an
answer is on its way to one handler at most (`DeliveredOnce`) and used up once the record
has moved on (`UsedUp`), so that a plan finds the record as it saw it (`Foreseen`). The last
three are why a report cannot overtake the scheduler. The refinement also needs
`SpendingInv`: that no intervention is claimed beyond the number allowed is the caps.

**Executor** (`ExecutorTypes`, `AtMostOnce`, `SameAnswer`, `OnlyForward`). "At most one
effect" is not inductive: that a call acts only once depends on where it stands.
`ExecutorInv` adds to the types, for each slot, the only order things happen in: no row
and nobody acting; marker and a claimant at the port with no effect yet; marker and a
claimant with an outcome and one effect; an outcome, one effect, and answers equal to
it (`InOrder`). Each action touches one slot; lemmas about one slot are lifted to the
table by `TableUpdate`.

**Execute, statement by statement** (`CallsImplementExecutor`, `CallsActOnce`, `CallsAgree`).
The refinement mapping takes the one call that holds a slot for the handler of Executor.
`CallsInv` makes it well defined: a slot has at most one holder, its row bears the marker
until the holder has saved, and whoever is about to answer has what the row has. Nothing
but the unique constraint is used. Initial states map to initial states and each statement
to a step of Executor or a stutter; `AtMostOneEffect` and `AnswersAreRecorded` are then
Executor's theorems, read through the mapping.

**Keyed consumer** (`KeyedTypes`, `NoRecordSkipped`). That everything below the committed
offset is handled depends on everything on the way there: a commit in flight
(`CommitBehind`), the tracker's start (`NextBehind`), offsets it holds as done
(`DoneSettled`), records in the finished channel and in the workers' hands
(`FinishedSettled`, `SendingSettled`) and, for a partition just assigned, the position
from which the tracker will start (`StartBehind`). `KeyedInv` is their conjunction; it is
also checked with TLC. Crashes and rebalances only discard what a member knows, so
they keep it.

`KeysStayInOrder`: `OrderInv` adds where the earlier records of the same key are while a
later one is fetched (`FetchedInTurn`: with the handlers or in hand), handed over
(`HandInTurn`: with the handlers) or handled (`HandlingInTurn`: resolved), which the map
from keys to workers turns into each other; a new assignment starts at an offset below
which everything is resolved. `GapsAreWorkedOn`, `CommitsOnlyForward`, `StopCommits`:
`UnmovedInv` adds, for as long as no partition has moved, that only its owner tracks a
partition, from the committed offset or from the one its commit in flight will make it
(`Owned`), and that each offset
fetched and not completed is somewhere in the member (`GapsAreInFlight`). KeyedRebalance
shows that the condition cannot be dropped from the gaps.

**Classifier** (`ChainTypes`, `OneTrialAtATime`, `ClosedIsHealthy`, `RulesHaveTime`,
`TrippedReopens`). `ChainInv` is the conjunction of the four invariants: that a deadline
stays a natural number as time passes needs the budget (`TimeForRules`), and that a
circuit stays below its threshold is needed to know what `record` returns. A call's
change is described once (`WalkStep`, `AskStep`, `FinishStep`, `TickStep`). Its action
property then follows from the types alone: with the run of failures at the threshold
every failure opens the circuit.

**Ingestion** (`KeyHasOneRecord`, `TotalsAreOnTheirWay`). That an answer names the one
record of its key needs to know what each call has done when it got as far as it did: `IngestInv` says of a call for
an event with a key that past the validation its record was valid, that at the publication
its own row is there, and from the count on that the record it will name is
(`Sound`), together with the uniqueness that the index gives. For totals `CountInv` counts:
a batch's total is at most the cardinality of a set of published records (`Counted`) from
which those of calls that have yet to count are left out, so that `Count` adds exactly
what enters the set.

**Downtimes** (`KnownOutagesHold`). Webhooks of a downtime are numbered as they are sent and
the last one tells how it is (`WireInv`), a row is what some webhook has told (`RowsInv`);
so a row with the last number is the outage. Hypothesis: every shape of a webhook lets
`downtimeInstrumentKey` find the instrument, which is a fact about shapes, not about steps,
and is checked for two of them.

**World Simulator** (`SeedReproduces`, `SealedBeforePublished`). `WorldInv` ties everything
drawn to the oracle: a sealed profile is what the oracle said of its batch's seed,
preset and place (`TruthsAreDrawn`), an outcome follows from what it said of the roll and of the
profile (`AnswersAreDrawn`). Since an oracle never takes back what it has said
(`Remembers`), two answers to the same question agree. `AnswersAreDrawn` needs that a
payment is played only after its profile is sealed, which is the second theorem.

**Diagnosis** (`HeldStaysWithHumans`, `OnlyUsableAnswers`, `BudgetIsKept`,
`TablesStayTogether`). `DiagnosisInv`
adds to the three properties what is in hand in each phase (`InHand`): until a model was
asked the answer is the rules', and for a held code that answer is RISK_HOLD with
confidence 100, which no threshold in 0..100 exceeds. Lemmas compute the rules' answer for
a held code, the effect of `Consider` on a budget and of `Substituted` on a text
(`SubstitutionFacts`: the length changes by amount less placeholder for each place, and
stays above zero since a placeholder takes its room in the text). That copies of tables agree is proved
for every payment, not only for those the run tries: the codes of two buckets are apart.

**Processes** (`ZeroIsClean`). `ProcessInv` says stage by stage what an error-free end will
need (`InStage`): loops have returned once the drain has begun, no call is cut before the
exit, and once the drain has ended without error only calls it does not wait for
are open.

**Readers** (ReadSideProofs, for any number of records, viewers and rows).
*Audit* (`AlarmsAreOfMovers`): a state moves only together with its trail, so two looks that
find a trail equally long have seen one state (`LedgerInv`, `InquiryInv`).
*Pages* (`PagesMissNobody`): a record that was there at the beginning is listed, on the page
in hand, or behind it in the list (`WalkInv`); an insertion in front pushes records
backwards only.
*Streams* (`StreamsAgreeWithBooks`): a channel holds positions after what its stream has
shown, in their order (`StreamInv`). What the topic's messages and those still to be
published say together is at most what is recovered in the books, and a viewer has added up
at most what the messages up to its last one say (`MoneyInv`): shown and waiting messages
are different ones.
*Reports* (`ReportsAreHonest`): a record has at most one successful attempt, its last, and
once that is there it is recovered or its accounting is in flight (`AttemptsInv`); money and
records taken up only grow; `ReportInv` carries each figure with what the later statements
will be compared with. The baseline is counted: for a given answer key the ways four dice
can fall are boxes, one set of faces per die, and a policy that stops at the first success
pays one price for each box it is still in (`SumCounts`), so the mean is the closed form.
Sums are the library's fold, which is defined by recursion over sets through an operator
argument. The lemmas from `Least` to `SumSame` derive what is needed of it (it does not
depend on the order, it adds, it is monotone) from well-founded induction with a set in
place of the property, which is first-order.

Model-checked only: all liveness (`EventuallySettled`, `EveryCallEnds`, `AllCommitted`,
`EveryCallAnswered`, `ProviderRejoins`, `ReadSideSettles`, `PeripherySettles`), which is out
of the prover's reach; and, by their nature, the five counterexamples.

## Findings

1. **FailedTrial.** A circuit opened by one 429 has `consecutive` = 1. If its trial fails
   with an ordinary error, `record` finds the threshold not reached and leaves
   `openUntil` in the past: the next request is another trial at once, and so on until
   the threshold is met. The Phase 3 document and a test comment promise a new
   cooldown. `TrippedTrialReopens` is the part that holds, and is proved.
2. **StaleReport.** A report call that timed out at the poller goes on running; its copy is
   applied while the scheduler has the record claimed for the next attempt.
3. **LostInCrash.** A pod that dies between claim and result leaves the record in RETRYING
   or NUDGED for good.
4. **KeyedRebalance.** A partition that leaves a member with a record unfinished and comes
   back at a later offset is never committed again by that member.

5. **LostEvent.** Ingestion inserts a record and fails to publish its event. The sender
   repeats the webhook, is recognised by its key and answered 202 with the record, which
   nothing will ever process. What holds is `OneRecordPerKey` and `NeverOvercounted`.

Observations without a run:

- A retry that scoring held back because of a bank downtime is claimed when its backoff
  ends although the downtime may still be on: `claimDue` looks at `due_at` and state only.
- A late ordinary failure at the threshold replaces a longer `Retry-After` by the default
  cooldown.
- `validate_nudge.go:29-35` says that substituting the amount "only ever shortens the
  string", so that a raw message within the budget guarantees the substituted one is too.
  "Rs 10000.01" is one character longer than the placeholder, and `server.go:126` looks at
  nothing again: Periphery reaches a message of 161 characters where 160 are allowed.
  `AnswersAreUsable` therefore claims the limit of the accepted text only, and bounds the
  excess of the one that is sent. And with `NUDGE_MAX_CHARS`
  below a template's length the last rung, which "cannot fail", does (phase "unsent").
- `llm_budget.go` calls its ceiling a fraction of every record; a classification that is
  retried is weighed each time, and the Scheduler's nudges have a budget of their own.
  `BudgetHolds` is a ratio of weighings and does not see that one record is weighed twice.
- `exhaustion.go` counts a record as short of quota when one provider was rate-limited
  and the next one answered.
- Of several unresolved downtimes of an instrument only the one updated last is looked
  at, so an announcement for later hides an outage of now; `KnownOutageHolds` is about
  the one last told of.
- Trails are put in order by a timestamp that pods write by their own clocks; transitions
  reach `audit.events` in the order pods publish them. The models assume clocks that
  agree, and show streams sound in the order of the topic.
- A list of records filtered by state skips a record when one before it leaves that
  state between two pages; `WalkMissesNobody` is about the unfiltered list.
- `SubmitBatch` has no idempotency key: repeated, it submits its records again.
- The World Simulator's seed is lost when it restarts and replaced by the next batch's;
  payments in flight are then rolled under something else, as its own comment says.
- A webhook record whose code the rules know and the generator does not is played by the
  world as if the customer had to act.
- An error that a loop returns after the signal is dropped: the process exits with 0. An
  open report stream makes Reporting's shutdown exceed its grace, which is an exit with 1.

## Not modelled, and the plan

Not modelled for good: the gateway's passing on of reads, the notification simulator's
answers beyond price and failure, logging, metrics and tracing, the dashboard, generators
and deployment files: they keep no state of the running system. Generated protobuf code is
represented by the messages the modules exchange. Of the policy, the salary-window
calendar and the mandate lead-time, which only postpone a retry; of the Classifier,
prompts and wording; of Reporting, breakdowns that only group what is read.

Worth doing next, in this order:

1. RecoveryAgent with PaymentDowntime's rows instead of its free `down`, and Ingestion's
   `published` as its inbox: the two compositions that are argued here and not checked.
2. The agent's theorems under a weaker hypothesis than `OneDelivery`: repeated deliveries
   are harmless unless a stale one overlaps a new claim, and what exactly must be excluded
   is not known. It asks for a run with two deliveries in which StaleReport's is excluded.
3. What liveness rests on: that the steps whose fairness is assumed are enabled where
   the arguments need them is seen by TLC and not stated as lemmas.
