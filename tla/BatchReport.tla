---------------------------- MODULE BatchReport ----------------------------
(***************************************************************************)
(* Reporting answers GetBatchReport with one statement per figure, in no   *)
(* transaction, while the batch is being worked on; and ListBatchRecords   *)
(* page by page, while records are added to the batch.                     *)
(***************************************************************************)
EXTENDS Ledger

CONSTANTS
  Rows,         \* ids of the records of the batch that is listed
  AskedSizes,   \* page sizes that callers ask for
  DefaultSize,  \* defaultPageSize
  MaxSize,      \* maxPageSize
  Sides,        \* probabilities are multiples of 1 / Sides
  Answers       \* [right, p, wrong]: the answer keys of payments

ASSUME ReportAssumption ==
  AskedSizes \subseteq Int /\ DefaultSize \in 1..MaxSize /\ MaxSize \in Nat
  /\ Sides \in Nat \ {0} /\ \A key \in Answers : {key.p, key.wrong} \subseteq 0..Sides

VARIABLES
  report,   \* the report being put together, with what was true at each statement
  listing,  \* the rows of the listed batch by (created_at, id)
  walk      \* a caller turning pages
reportVars == <<report, listing, walk>>

NoReport == [next |-> "headline", recovered |-> 0, open |-> 0, ended |-> 0, known |-> 0, spend |-> 0,
             netThen |-> 0, bucketed |-> 0, classified |-> 0, attributed |-> 0,
             creditable |-> 0, scored |-> 0, keys |-> <<>>, baseline |-> <<0, 0>>]

NoWalk == [next |-> "start", asked |-> 0, offset |-> 0, page |-> <<>>,
           present |-> {}, listed |-> {}]

ReportInit == report = NoReport /\ listing = <<>> /\ walk = NoWalk

-----------------------------------------------------------------------------
inFlightStates == {"SCORING"} \union Waiting \union Claimed

\* loadHeadline.  A record without a state is in neither count.
ReadHeadline ==
  /\ report.next = "headline"
  /\ report' = [NoReport EXCEPT
       !.next = "spend", !.recovered = AmountOf(Recovered),
       !.open = Cardinality({r \in Records : state[r] \in inFlightStates}),
       !.ended = Cardinality({r \in Records : state[r] \in Terminal}),
       !.known = Cardinality({r \in Records : state[r] # "NEW"})]
  /\ UNCHANGED <<ledgerVars, listing, walk>>

\* interventionSpend.
ReadSpend ==
  /\ report.next = "spend"
  /\ report' = [report EXCEPT !.next = "root causes", !.spend = Spending(Records),
                              !.netThen = AmountOf(Recovered) - Spending(Records)]
  /\ UNCHANGED <<ledgerVars, listing, walk>>

\* byRootCause: every record with a state has a bucket.
ReadRootCauses ==
  /\ report.next = "root causes"
  /\ report' = [report EXCEPT !.next = "interventions", !.bucketed = AmountOf(Recovered),
       !.classified = Cardinality({r \in Records : state[r] # "NEW"})]
  /\ UNCHANGED <<ledgerVars, listing, walk>>

\* byIntervention: what successful attempts have recovered.
ReadInterventions ==
  LET succeeded(r) == Cardinality({i \in DOMAIN attempts[r] : attempts[r][i].outcome = "SUCCESS"})
  IN  /\ report.next = "interventions"
      /\ report' = [report EXCEPT !.next = "accuracy",
           !.attributed = SumFunctionOnSet([r \in Records |-> succeeded(r) * Amount[r]], Records),
           !.creditable = AmountOf(Recovered \union {r \in Records : inFlight[r]})]
      /\ UNCHANGED <<ledgerVars, listing, walk>>

\* Mutant: the spend is read first.
SpendBeforeHeadline ==
  \/ /\ report.next = "headline"
     /\ report' = [NoReport EXCEPT !.next = "spend", !.spend = Spending(Records)]
     /\ UNCHANGED <<ledgerVars, listing, walk>>
  \/ /\ report.next = "spend"
     /\ report' = [report EXCEPT !.next = "root causes", !.recovered = AmountOf(Recovered),
                                 !.netThen = AmountOf(Recovered) - Spending(Records)]
     /\ UNCHANGED <<ledgerVars, listing, walk>>

ReadTotals == ReadHeadline \/ ReadSpend

\* confusionCounts: the records that have both an answer and a key.
ReadAccuracy ==
  /\ report.next = "accuracy"
  /\ report' = [report EXCEPT !.next = "done",
       !.scored = Cardinality({r \in Records : state[r] # "NEW"})]
  /\ UNCHANGED <<ledgerVars, listing, walk>>

\* Answered, or a statement failed: the next report starts anew.
EndReport ==
  /\ report.next # "headline"
  /\ report' = NoReport
  /\ UNCHANGED <<ledgerVars, listing, walk>>

NetRecovered == report.recovered - report.spend

-----------------------------------------------------------------------------
\* evaluateNaivePolicy: three retries and then a reminder, each an independent
\* roll, in closed form.  Money recovered and money spent, in units of
\* 1 / Sides^4 of a paisa.
naiveRetryCostPaise == 25
naiveNudgeCostPaise == 25

Naive(key, amount) ==
  LET failRetry == Sides - (IF key.right = "RETRY" THEN key.p ELSE key.wrong)
      failNudge == Sides - (IF key.right = "NUDGE_REMINDER" THEN key.p ELSE key.wrong)
      tries     == Sides * Sides * Sides + failRetry * Sides * Sides + failRetry * failRetry * Sides
      allFail   == failRetry * failRetry * failRetry
  IN  <<amount * (Sides * Sides * Sides * Sides - allFail * failNudge),
        Sides * (tries * naiveRetryCostPaise + allFail * naiveNudgeCostPaise)>>

\* Summed over the batch.
baselineComparison(keys) ==
  [i \in 1..2 |-> SumFunctionOnSet([r \in Records |-> Naive(keys[r], Amount[r])[i]], Records)]

\* groundTruthForBaseline: every record with a key, whatever has become of it.
ReadBaseline ==
  /\ report.next = "headline"
  /\ \E keys \in [Records -> Answers] :
       report' = [NoReport EXCEPT !.next = "baseline", !.keys = keys,
                                  !.baseline = baselineComparison(keys)]
  /\ UNCHANGED <<ledgerVars, listing, walk>>

\* The same policy played out, over every way four dice can fall.
Dice == [1..4 -> 0..(Sides - 1)]
Pays(key, action, die) == die < (IF key.right = action THEN key.p ELSE key.wrong)
Retried(key, dice) ==
  LET paid == {i \in 1..3 : Pays(key, "RETRY", dice[i])}
  IN  IF paid = {} THEN 3 ELSE CHOOSE i \in paid : \A j \in paid : i <= j
RetriesFail(key, dice) == \A i \in 1..3 : ~Pays(key, "RETRY", dice[i])
PlayedRecovered(key, amount) ==
  amount * Cardinality({dice \in Dice :
                          RetriesFail(key, dice) => Pays(key, "NUDGE_REMINDER", dice[4])})
PlayedSpend(key) ==
  SumFunctionOnSet([dice \in Dice |->
                      Retried(key, dice) * naiveRetryCostPaise
                      + (IF RetriesFail(key, dice) THEN naiveNudgeCostPaise ELSE 0)], Dice)

-----------------------------------------------------------------------------
\* A record arrives.  created_at may be backdated: it may land anywhere.
AddRow ==
  /\ \E id \in Rows \ Range(listing), i \in 1..(Len(listing) + 1) :
       listing' = InsertAt(listing, i, id)
  /\ UNCHANGED <<ledgerVars, report, walk>>

PageSize(asked) ==
  IF asked <= 0 THEN DefaultSize ELSE IF asked > MaxSize THEN MaxSize ELSE asked

\* Mutant: the next page starts where the page that was asked for would end.
NextAsAsked(asked, offset) == offset + (IF asked <= 0 THEN DefaultSize ELSE asked)

NextOffset(asked, offset) == offset + PageSize(asked)

StartWalk ==
  /\ walk.next = "start"
  /\ \E asked \in AskedSizes :
       walk' = [NoWalk EXCEPT !.next = "page", !.asked = asked, !.present = Range(listing)]
  /\ UNCHANGED <<ledgerVars, report, listing>>

\* listRecords, its first statement: LIMIT and OFFSET.
ReadPage ==
  /\ walk.next = "page"
  /\ walk' = [walk EXCEPT !.next = "count",
       !.page = SubSeq(listing, walk.offset + 1,
                       IF walk.offset + PageSize(walk.asked) < Len(listing)
                       THEN walk.offset + PageSize(walk.asked) ELSE Len(listing))]
  /\ UNCHANGED <<ledgerVars, report, listing>>

\* Its second statement, the total; then the page and the next token are handed out.
CountRows ==
  /\ walk.next = "count"
  /\ LET more == walk.offset + Len(walk.page) < Len(listing)
     IN  walk' = [walk EXCEPT
           !.next = IF more THEN "page" ELSE "done",
           !.offset = IF more THEN NextOffset(walk.asked, @) ELSE 0,
           !.page = <<>>, !.listed = @ \union Range(walk.page)]
  /\ UNCHANGED <<ledgerVars, report, listing>>

ReportNext ==
  \/ ReadTotals \/ ReadRootCauses \/ ReadInterventions \/ ReadAccuracy \/ EndReport
PageNext == AddRow \/ StartWalk \/ ReadPage \/ CountRows

-----------------------------------------------------------------------------
\* The policy the agent is compared with is scored as the world would score it:
\* the closed form is the mean over all the ways its attempts could go, each
\* attempt paid for, none made once the customer has paid.
BaselineIsFair ==
  report.next = "baseline" =>
     report.baseline =
       <<SumFunctionOnSet([r \in Records |-> PlayedRecovered(report.keys[r], Amount[r])], Records),
         SumFunctionOnSet([r \in Records |-> PlayedSpend(report.keys[r])], Records)>>

\* The net that is shown had been earned when the spend was read.
NetIsEarned ==
  report.next \in {"root causes", "interventions", "accuracy", "done"} =>
     NetRecovered <= report.netThen

\* Nothing is credited that is not recovered or about to be, and what is broken
\* down leaves out nothing that has been counted.
CreditIsDue ==
  report.next \in {"accuracy", "done"} =>
     report.attributed <= report.creditable /\ report.recovered <= report.bucketed

\* Every record that has been taken up is counted as open or as ended, and scored
\* once it was classified.
NobodyUncounted ==
  /\ report.next = "spend" => report.open + report.ended = report.known
  /\ report.next = "done" => report.scored >= report.classified

\* Though its figures are read one after the other while money moves, a report
\* never flatters, and the policy it compares itself with is not belittled.
ReportIsHonest == NetIsEarned /\ CreditIsDue /\ NobodyUncounted /\ BaselineIsFair

\* Whoever turns the pages of a batch to the end has seen every record that was
\* there at the beginning, whatever page size was asked for and whatever is added
\* in the meantime, in front of the page or behind it.
WalkMissesNobody == walk.next = "done" => walk.present \subseteq walk.listed
=============================================================================
