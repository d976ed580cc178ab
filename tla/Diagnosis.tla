----------------------------- MODULE Diagnosis -----------------------------
(***************************************************************************)
(* What a failed payment is taken for and what is said to its customer:    *)
(* the rules of the Classifier, the answers of a language model and what   *)
(* is accepted of them, and the Decision Engine's choice of which payments *)
(* a model may see and within which budget.                                *)
(*                                                                         *)
(* Failure codes, sources and steps stand for their normalised form.       *)
(* Confidences are percentages.  A text is described by its length, which  *)
(* is counted in bytes, and by what the validators look for in it; an      *)
(* amount of money by how it is written.                                   *)
(***************************************************************************)
EXTENDS Integers, FiniteSets

CONSTANTS
  Payments,       \* [code, source, step, type, amount] of the payments that come
  RouteBelow,     \* values of LLM_ROUTE_CONFIDENCE_THRESHOLD, in 0..100
  EscalateBelow,  \* values of CLASSIFY_CONFIDENCE_THRESHOLD, in 0..100
  Rate,           \* LLM_SAMPLE_RATE, <<numerator, denominator>>
  MaxChars,       \* NUDGE_MAX_CHARS
  ModelAnswers,   \* [bucket, action, confidence, reasoned] a model may write
  ModelTexts,     \* [length, amounts, digits, leaks] a model may write
  MaxConsidered   \* bound: payments or nudges weighed against a budget

\* Rupees of a 64-bit number of paise, by their digits, and whether paise are left.
Amounts == [digits : 1..17, paise : BOOLEAN]

\* What a text writes in place of the amount, "{{AMOUNT}}", takes its room in it.
PlaceholderLength == 10
Texts ==
  {t \in [length : Nat, amounts : Nat, digits : BOOLEAN, leaks : BOOLEAN] :
     t.length >= PlaceholderLength * t.amounts}

ASSUME DiagnosisAssumption ==
  /\ RouteBelow \union EscalateBelow \subseteq 0..100
  /\ Rate \in Nat \X (Nat \ {0}) /\ Rate[1] <= Rate[2]
  /\ MaxChars \in Nat /\ MaxConsidered \in Nat
  /\ \A p \in Payments : p.amount \in Amounts
  /\ ModelTexts \subseteq Texts

VARIABLES
  limits,    \* [route, escalate]: the two thresholds in force
  phase,     \* "idle", "ruled", "classified", "scored", "escalated", "sent", "unsent"
  payment,
  answer,    \* the classification: [bucket, action, confidence, source, reasoned]
  shown,     \* a model saw the payment
  hops,      \* results of the calls to a model, or of the refusal to make one
  text,      \* what was sent to the customer, the amount written out
  classifyBudget, nudgeBudget  \* [total, calls]: one per Engine, one per Scheduler
diagnosisVars ==
  <<limits, phase, payment, answer, shown, hops, text, classifyBudget, nudgeBudget>>

-----------------------------------------------------------------------------
\* failureCodeToBucket, without the indeterminate codes.
CodesOf == [
  TRANSIENT_BANK |->
    {"BANK_TIMEOUT", "RAIL_CONGESTION", "ISSUER_UNAVAILABLE", "BANK_NOT_AVAILABLE",
     "BANK_TECHNICAL_ERROR", "ISSUER_TECHNICAL_ERROR", "GATEWAY_TECHNICAL_ERROR",
     "PAYMENT_DECLINED_DUE_TO_HIGH_TRAFFIC", "PSP_NOT_AVAILABLE", "UPI_APP_TECHNICAL_ERROR"},
  INSUFFICIENT_FUNDS |->
    {"INSUFFICIENT_FUNDS", "LOW_BALANCE", "TRANSACTION_LIMIT_EXCEEDED",
     "TRANSACTION_DAILY_LIMIT_EXCEEDED", "CREDIT_LIMIT_EXCEEDED"},
  HARD_DECLINE |->
    {"HARD_DECLINE", "EXPIRED_INSTRUMENT", "EXPIRED_CARD", "BLOCKED_INSTRUMENT",
     "INVALID_INSTRUMENT", "CARD_INVALID", "DO_NOT_HONOUR", "CARD_EXPIRED", "CARD_DECLINED",
     "DEBIT_INSTRUMENT_BLOCKED", "CARD_NUMBER_INVALID", "BANK_ACCOUNT_INVALID", "INVALID_VPA"},
  RISK_HOLD |-> {"RISK_HOLD", "FRAUD_REVIEW", "SUSPECTED_FRAUD", "PAYMENT_RISK_CHECK_FAILED"},
  USER_ACTION_NEEDED |->
    {"AUTH_REQUIRED", "REAUTH_REQUIRED", "MANDATE_REVOKED", "MANDATE_PAUSED",
     "USER_ACTION_NEEDED", "AUTHENTICATION_FAILED", "INCORRECT_OTP", "OTP_EXPIRED",
     "OTP_ATTEMPTS_EXCEEDED", "MANDATE_CREATION_FAILED", "MANDATE_CREATION_DECLINED",
     "REQAUTH_MANDATE_NOT_ACKNOWLEDGED"},
  ABANDONMENT |->
    {"CHECKOUT_ABANDONED", "ABANDONED", "ABANDONMENT", "PAYMENT_CANCELLED",
     "PAYMENT_SESSION_EXPIRED"},
  OVERDUE |-> {"INVOICE_OVERDUE", "OVERDUE", "PAST_DUE"}]

\* Codes that do not say whether the customer was charged.
Indeterminate ==
  {"GATEWAY_TIMEOUT", "TIMEOUT", "PAYMENT_TIMED_OUT", "PAYMENT_PENDING",
   "VERIFICATION_FAILED", "INVALID_RESPONSE_FROM_GATEWAY"}

DiagnosisBuckets == DOMAIN CodesOf \union {"UNSPECIFIED"}

BucketsForCode(code) ==
  {b \in DOMAIN CodesOf : code \in CodesOf[b]}
    \union (IF code \in Indeterminate THEN {"RISK_HOLD"} ELSE {})

SystemicSources == {"BANK", "GATEWAY", "RAZORPAY", "NETWORK", "ISSUER"}

\* bucketForErrorTaxonomy: the step counts before the source.
BucketsForTaxonomy(source, step) ==
  IF step = "AUTHENTICATION" THEN {"USER_ACTION_NEEDED"}
  ELSE IF source = "CUSTOMER" THEN {"USER_ACTION_NEEDED"}
  ELSE IF source \in SystemicSources THEN {"TRANSIENT_BANK"} ELSE {}

FallbackBucket(type) ==
  CASE type = "CHECKOUT" -> "ABANDONMENT" [] type = "INVOICE" -> "OVERDUE"
    [] OTHER -> "UNSPECIFIED"

\* Mutant: the other fields overrule a known code.
TaxonomyFirst(p) ==
  LET found == IF BucketsForTaxonomy(p.source, p.step) # {}
               THEN BucketsForTaxonomy(p.source, p.step) ELSE BucketsForCode(p.code)
  IN  IF found # {} THEN CHOOSE b \in found : TRUE ELSE FallbackBucket(p.type)

\* A known code is never overruled by the other fields.
RulesBucket(p) ==
  LET found == IF BucketsForCode(p.code) # {} THEN BucketsForCode(p.code)
               ELSE BucketsForTaxonomy(p.source, p.step)
  IN  IF found # {} THEN CHOOSE b \in found : TRUE ELSE FallbackBucket(p.type)

ActionFor == [
  TRANSIENT_BANK |-> "RETRY", INSUFFICIENT_FUNDS |-> "RETRY",
  HARD_DECLINE |-> "NUDGE_METHOD_UPDATE", USER_ACTION_NEEDED |-> "NUDGE_METHOD_UPDATE",
  RISK_HOLD |-> "ESCALATE", UNSPECIFIED |-> "ESCALATE",
  ABANDONMENT |-> "NUDGE_REMINDER", OVERDUE |-> "NUDGE_REMINDER"]

\* Mutant: a held payment's confidence leaves room above it.
UncertainHold == [
  TRANSIENT_BANK |-> 90, INSUFFICIENT_FUNDS |-> 80, HARD_DECLINE |-> 85,
  USER_ACTION_NEEDED |-> 70, RISK_HOLD |-> 95, ABANDONMENT |-> 80, OVERDUE |-> 75,
  UNSPECIFIED |-> 0]

ConfidenceFor == [
  TRANSIENT_BANK |-> 90, INSUFFICIENT_FUNDS |-> 80, HARD_DECLINE |-> 85,
  USER_ACTION_NEEDED |-> 70, RISK_HOLD |-> 100, ABANDONMENT |-> 80, OVERDUE |-> 75,
  UNSPECIFIED |-> 0]

RulesAnswer(p) ==
  LET b == RulesBucket(p)
  IN  [bucket |-> b, action |-> ActionFor[b], confidence |-> ConfidenceFor[b],
       source |-> "RULES", reasoned |-> TRUE]

-----------------------------------------------------------------------------
\* The copies of these tables: the codes the generator and its scenarios draw,
\* the action the world rewards, the one reporting's baseline rewards; and what
\* an action costs in paise, as it is foreseen, booked, billed and compared.
GeneratedCodes == [
  TRANSIENT_BANK |->
    {"BANK_TIMEOUT", "RAIL_CONGESTION", "ISSUER_UNAVAILABLE", "BANK_NOT_AVAILABLE",
     "GATEWAY_TECHNICAL_ERROR", "UPI_APP_TECHNICAL_ERROR"},
  INSUFFICIENT_FUNDS |-> {"INSUFFICIENT_FUNDS", "LOW_BALANCE", "TRANSACTION_LIMIT_EXCEEDED"},
  HARD_DECLINE |->
    {"HARD_DECLINE", "EXPIRED_INSTRUMENT", "EXPIRED_CARD", "BLOCKED_INSTRUMENT",
     "DO_NOT_HONOUR", "CARD_DECLINED", "INVALID_VPA"},
  RISK_HOLD |-> {"GATEWAY_TIMEOUT", "RISK_HOLD", "FRAUD_REVIEW", "PAYMENT_RISK_CHECK_FAILED"},
  USER_ACTION_NEEDED |->
    {"AUTH_REQUIRED", "REAUTH_REQUIRED", "AUTHENTICATION_FAILED", "INCORRECT_OTP",
     "MANDATE_REVOKED", "MANDATE_PAUSED", "MANDATE_CREATION_FAILED"},
  ABANDONMENT |->
    {"CHECKOUT_ABANDONED", "ABANDONED", "PAYMENT_CANCELLED", "PAYMENT_SESSION_EXPIRED"},
  OVERDUE |-> {"INVOICE_OVERDUE", "PAST_DUE"}]

ForcedCodes == [
  TRANSIENT_BANK |-> {"BANK_NOT_AVAILABLE"}, INSUFFICIENT_FUNDS |-> {"INSUFFICIENT_FUNDS"},
  HARD_DECLINE |-> {"CARD_EXPIRED", "DEBIT_INSTRUMENT_BLOCKED"}]

WorldAction == [
  TRANSIENT_BANK |-> "RETRY", INSUFFICIENT_FUNDS |-> "RETRY",
  HARD_DECLINE |-> "NUDGE_METHOD_UPDATE", USER_ACTION_NEEDED |-> "NUDGE_METHOD_UPDATE",
  RISK_HOLD |-> "ESCALATE", ABANDONMENT |-> "NUDGE_REMINDER", OVERDUE |-> "NUDGE_REMINDER"]

BaselineAction == [
  TRANSIENT_BANK |-> "RETRY", INSUFFICIENT_FUNDS |-> "RETRY",
  HARD_DECLINE |-> "NUDGE_METHOD_UPDATE", USER_ACTION_NEEDED |-> "NUDGE_METHOD_UPDATE",
  RISK_HOLD |-> "ESCALATE", ABANDONMENT |-> "NUDGE_REMINDER", OVERDUE |-> "NUDGE_REMINDER"]

\* The direct costs of configs/intervention_costs.yaml.
PlannedCost == [RETRY |-> 25, NUDGE_METHOD_UPDATE |-> 14, NUDGE_REMINDER |-> 25]

\* The Executor's own prices of a message, which its stub port answers with.
ChannelFor(action) == IF action = "NUDGE_METHOD_UPDATE" THEN "WHATSAPP" ELSE "SMS"
ChannelCost == [SMS |-> 25, WHATSAPP |-> 14]

\* What the Notification Simulator bills for a message.
BilledCost == [SMS |-> 25, WHATSAPP |-> 14, EMAIL |-> 25]

\* What the Executor books: a debit by its own price, a message by the bill.
BookedCost(action) == IF action = "RETRY" THEN 25 ELSE BilledCost[ChannelFor(action)]

\* What the naive policy of the baseline, which retries and reminds, pays.
BaselineCost == [RETRY |-> 25, NUDGE_REMINDER |-> 25]

\* The buckets the demo means by a code.
Meant(code) ==
  {b \in DOMAIN GeneratedCodes : code \in GeneratedCodes[b]}
    \union {b \in DOMAIN ForcedCodes : code \in ForcedCodes[b]}

-----------------------------------------------------------------------------
\* llmBudget.consider.  Mutant: the ratio before the call is compared.
SpendWhileBelow(budget, eligible) ==
  LET total == budget.total + 1
  IN  [total |-> total,
       calls |-> IF eligible /\ Rate[1] > 0 /\ budget.calls * Rate[2] <= Rate[1] * total
                 THEN budget.calls + 1 ELSE budget.calls]

\* Everything is counted; a call is granted if the ratio holds with it.
Consider(budget, eligible) ==
  LET total == budget.total + 1
  IN  [total |-> total,
       calls |-> IF eligible /\ Rate[1] > 0 /\ (budget.calls + 1) * Rate[2] <= Rate[1] * total
                 THEN budget.calls + 1 ELSE budget.calls]

\* parseAnswer, validate: the vocabularies are closed, the menu withholds NONE,
\* and a reason is due.
Accepted(raw) ==
  /\ raw.bucket \in DiagnosisBuckets /\ raw.reasoned
  /\ raw.action \in {"RETRY", "NUDGE_METHOD_UPDATE", "NUDGE_REMINDER", "ESCALATE"}
  /\ raw.confidence \in 0..100

\* validateNudge looks at a text before the amount is written into it.  Mutant:
\* the placeholder may stand in it any number of times.
AmountsUncounted(t) == t.length \in 1..MaxChars /\ ~t.digits /\ ~t.leaks

NudgeAccepted(t) ==
  t.length \in 1..MaxChars /\ t.amounts <= 1 /\ ~t.digits /\ ~t.leaks

\* formatRupees: "Rs 750", or "Rs 750.05" if there are paise.
RupeesLength(amount) == 3 + amount.digits + IF amount.paise THEN 3 ELSE 0

\* substituteAmount: every placeholder gives way to the amount, which may be
\* shorter or longer, and nothing is looked at again.
Substituted(t, amount) ==
  [t EXCEPT !.length = @ + t.amounts * (RupeesLength(amount) - PlaceholderLength)]

\* The static text per bucket, always the last rung.
TemplateLength == [
  TRANSIENT_BANK |-> 124, INSUFFICIENT_FUNDS |-> 106, HARD_DECLINE |-> 120,
  USER_ACTION_NEEDED |-> 117, RISK_HOLD |-> 89, ABANDONMENT |-> 98, OVERDUE |-> 81,
  UNSPECIFIED |-> 78]
Template(b) ==
  [length |-> TemplateLength[b], digits |-> FALSE, leaks |-> FALSE,
   amounts |-> IF b \in {"RISK_HOLD", "UNSPECIFIED"} THEN 0 ELSE 1]

-----------------------------------------------------------------------------
\* Why a call to a model fails, and what Reporting counts as a lack of quota.
ModelFailures == {"error", "rate_limited", "circuit_open"}
QuotaExhausted == hops \intersect {"rate_limited", "circuit_open", "exhausted"} # {}

NoPayment == [code |-> "", source |-> "", step |-> "", type |-> "",
              amount |-> [digits |-> 1, paise |-> FALSE]]
NoAnswer == [bucket |-> "UNSPECIFIED", action |-> "UNSPECIFIED", confidence |-> 0,
             source |-> "UNSPECIFIED", reasoned |-> FALSE]
NoText   == [length |-> 0, amounts |-> 0, digits |-> FALSE, leaks |-> FALSE]

DiagnosisInit ==
  /\ limits \in [route : RouteBelow, escalate : EscalateBelow]
  /\ phase = "idle" /\ payment = NoPayment /\ answer = NoAnswer
  /\ shown = FALSE /\ hops = {} /\ text = NoText
  /\ classifyBudget = [total |-> 0, calls |-> 0]
  /\ nudgeBudget = [total |-> 0, calls |-> 0]

\* A payment comes, and the rules always answer first.
AskRules ==
  /\ phase = "idle" /\ phase' = "ruled"
  /\ payment' \in Payments /\ answer' = RulesAnswer(payment')
  /\ UNCHANGED <<limits, shown, hops, text, classifyBudget, nudgeBudget>>

\* clients.classify: a payment the rules are unsure of may be shown to a
\* model, whose answer is taken if it can be and else the rules' again.  One
\* that may not be for want of budget is marked.
Route ==
  /\ phase = "ruled" /\ classifyBudget.total < MaxConsidered
  /\ LET eligible == answer.confidence < limits.route
         granted  == Consider(classifyBudget, eligible).calls > classifyBudget.calls
     IN  /\ classifyBudget' = Consider(classifyBudget, eligible)
         /\ shown' = granted
         /\ \/ ~granted /\ hops' = IF eligible THEN {"exhausted"} ELSE {}
            \/ granted /\ hops' \in SUBSET ModelFailures
         /\ \/ answer' = answer
            \/ /\ granted
               /\ \E raw \in ModelAnswers :
                    /\ Accepted(raw)
                    /\ answer' = [bucket |-> raw.bucket, action |-> raw.action,
                                  confidence |-> raw.confidence, source |-> "MODEL",
                                  reasoned |-> raw.reasoned]
  /\ phase' = "classified"
  /\ UNCHANGED <<limits, payment, text, nudgeBudget>>

\* Engine.decide: two reasons to ask a human before anything is priced.
Judge ==
  /\ phase = "classified"
  /\ phase' = IF answer.confidence < limits.escalate \/ answer.action = "ESCALATE"
                THEN "escalated" ELSE "scored"
  /\ UNCHANGED <<limits, payment, answer, shown, hops, text, classifyBudget, nudgeBudget>>

\* The first text a chain's validation accepts goes out with the amount in it.
SendNudge(t) ==
  NudgeAccepted(t) /\ text' = Substituted(t, payment.amount) /\ phase' = "sent"

\* composeNudge, when the economics chose to contact the customer: every nudge
\* may be written by a model, within the Scheduler's own budget.
ComposeNudge ==
  /\ phase = "scored" /\ nudgeBudget.total < MaxConsidered
  /\ nudgeBudget' = Consider(nudgeBudget, TRUE)
  /\ \/ SendNudge(Template(answer.bucket))
     \/ /\ ~NudgeAccepted(Template(answer.bucket))
        /\ phase' = "unsent" /\ UNCHANGED text
     \/ /\ nudgeBudget'.calls > nudgeBudget.calls
        /\ \E t \in ModelTexts : SendNudge(t)
  /\ UNCHANGED <<limits, payment, answer, shown, hops, classifyBudget>>

EndDiagnosis ==
  /\ phase \in {"scored", "escalated", "sent", "unsent"}
  /\ phase' = "idle" /\ payment' = NoPayment
  /\ answer' = NoAnswer /\ shown' = FALSE /\ hops' = {} /\ text' = NoText
  /\ UNCHANGED <<limits, classifyBudget, nudgeBudget>>

DiagnosisNext == AskRules \/ Route \/ Judge \/ ComposeNudge \/ EndDiagnosis

DiagnosisSpec == DiagnosisInit /\ [][DiagnosisNext]_diagnosisVars

-----------------------------------------------------------------------------
\* A payment that may be fraud, or may have been charged after all, is never
\* shown to a model and always goes to a human, whatever the thresholds, the
\* budget and the fields around its code: a retry could charge it twice.
HeldForReview ==
  payment.code \in Indeterminate \union CodesOf.RISK_HOLD =>
     ~shown /\ phase \notin {"scored", "sent", "unsent"}

\* Whatever a model writes, what is decided upon and what the customer reads
\* stay inside what the rest of the system can stand behind: a known bucket, an
\* action from the menu and a stated reason; no figure but the payment's own
\* amount, that once at most, and none of our own vocabulary.  NUDGE_MAX_CHARS
\* holds of the text that was accepted, with the placeholder in it.  The text
\* that is sent is within it if it names no amount or one that is no longer than
\* the placeholder, and otherwise beyond it by no more than the difference.
AnswersAreUsable ==
  /\ phase \in {"classified", "scored", "escalated", "sent"} =>
       /\ answer.bucket \in DiagnosisBuckets /\ answer.reasoned
       /\ answer.action \notin {"NONE", "UNSPECIFIED"} /\ answer.confidence \in 0..100
  /\ phase = "sent" =>
       /\ ~text.digits /\ ~text.leaks /\ text.amounts <= 1 /\ text.length > 0
       /\ text.length
            <= MaxChars + text.amounts * (RupeesLength(payment.amount) - PlaceholderLength)

\* The calls granted to a model never exceed the sampled share of what was
\* weighed, at any moment and in either budget; and no payment the rules were
\* unsure of went without a model unseen: it is counted as a lack of quota.
BudgetHolds ==
  /\ \A budget \in {classifyBudget, nudgeBudget} :
       budget.calls * Rate[2] <= Rate[1] * budget.total
  /\ phase = "classified" /\ ~shown /\ answer.confidence < limits.route => QuotaExhausted

\* The tables that are kept in several places by hand agree: for every code
\* the demo generates, what the rules recommend is what the world and the
\* baseline reward in the bucket the code was drawn for; and what is spent on a
\* payment is booked at the price the decision to spend it was made with.
CopiesAgree ==
  /\ phase = "ruled" =>
       \A b \in Meant(payment.code) :
          answer.bucket = b /\ answer.action = WorldAction[b] /\ answer.action = BaselineAction[b]
  /\ phase = "scored" =>
       \A action \in DOMAIN PlannedCost :
          /\ BookedCost(action) = PlannedCost[action]
          /\ action # "RETRY" => ChannelCost[ChannelFor(action)] = PlannedCost[action]
          /\ action \in DOMAIN BaselineCost => BaselineCost[action] = PlannedCost[action]
=============================================================================
