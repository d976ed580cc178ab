-------------------------- MODULE PaymentDowntime --------------------------
(***************************************************************************)
(* Bank downtimes as the payment provider lives through them, as webhooks  *)
(* tell of them, and as the Decision Engine remembers them to hold retries *)
(* back.  Webhooks are lost, repeated and overtake each other; each one    *)
(* overwrites the whole row of its downtime.                               *)
(***************************************************************************)
EXTENDS Integers, Sequences, FiniteSets, SequencesExt

CONSTANTS
  Downtimes,   \* ids the provider gives to downtimes of one instrument
  Shapes,      \* [fields, schema]: ways a webhook describes that instrument
  Instrument,  \* its identity, the instrument_ref of the payments it affects
  Planned,     \* lengths of announced downtimes
  Hold,        \* DowntimeMaxUnresolvedHold
  MaxBegin,    \* bound: the latest begin of a downtime
  LastTime,     \* bound on the clock
  MaxUpdates,  \* bound: "updated" webhooks
  Unset        \* an end that is not known; no row

ASSUME DowntimeAssumption ==
  /\ Planned \subseteq Nat \ {0} /\ Hold \in Nat \ {0}
  /\ MaxBegin \in Nat /\ LastTime \in Nat /\ MaxUpdates \in Nat
  /\ \A n \in Planned \union {Hold} : MaxBegin + n <= LastTime

VARIABLES
  clock,      \* the time the provider and the Decision Engine share
  outage,     \* the provider's truth: [begin, end, over, shape], or Unset
  wire,       \* webhooks sent: each may arrive at any later time, or several, or never
  rows,       \* PAYMENT_DOWNTIME: [begin, end, resolved, key, event], or Unset
  newer,      \* pairs of ids with a row, that of the first updated after the other's
  updates     \* "updated" webhooks left
downtimeVars == <<clock, outage, wire, rows, newer, updates>>

-----------------------------------------------------------------------------
\* wellKnownInstrumentKeys.
WellKnown == <<"bank", "issuer", "network", "vpa_handle", "wallet">>

\* Mutant: nothing is tried when the schema is empty.
SchemaOnly(shape) ==
  IF shape.schema # <<>> THEN shape.fields[Head(shape.schema)] ELSE ""

\* The Gateway: which field of the instrument object identifies it.  Field
\* names other than the well-known ones are tried in alphabetical order; the
\* shapes here have at most one of them.
InstrumentKey(shape) ==
  LET has(f)    == f \in DOMAIN shape.fields /\ shape.fields[f] # ""
      first     == IF shape.schema = <<>> THEN <<>> ELSE <<Head(shape.schema)>>
      preferred == SelectSeq(first \o WellKnown, has)
      others    == DOMAIN shape.fields
  IN  IF preferred # <<>> THEN shape.fields[Head(preferred)]
      ELSE IF others # {} THEN shape.fields[CHOOSE f \in others : TRUE]
      ELSE ""

-----------------------------------------------------------------------------
DowntimeInit ==
  /\ clock = 0
  /\ outage = [d \in Downtimes |-> Unset]
  /\ wire = {}
  /\ rows = [d \in Downtimes |-> Unset] /\ newer = {}
  /\ updates = MaxUpdates

Sent(d) == Cardinality({e \in wire : e.id = d})

\* Every webhook carries the whole entity.
Send(d, status) ==
  wire' = wire \union {[id |-> d, event |-> Sent(d) + 1, status |-> status,
                        begin |-> outage'[d].begin, end |-> outage'[d].end,
                        shape |-> outage'[d].shape]}

\* A downtime is announced, or begins.
Begins(d) ==
  /\ outage[d] = Unset
  /\ \E begin \in clock..MaxBegin, length \in Planned \union {Unset},
     shape \in Shapes :
       /\ length = Unset => begin = clock
       /\ outage' = [outage EXCEPT ![d] =
            [begin |-> begin, over |-> FALSE, shape |-> shape,
             end |-> IF length = Unset THEN Unset ELSE begin + length]]
  /\ Send(d, "started")
  /\ UNCHANGED <<clock, rows, newer, updates>>

Updated(d) ==
  /\ outage[d] # Unset /\ ~outage[d].over /\ updates > 0
  /\ updates' = updates - 1
  /\ UNCHANGED outage
  /\ Send(d, "updated")
  /\ UNCHANGED <<clock, rows, newer>>

Resolves(d) ==
  /\ outage[d] # Unset /\ ~outage[d].over /\ clock >= outage[d].begin
  /\ outage' = [outage EXCEPT ![d].over = TRUE, ![d].end = clock]
  /\ Send(d, "resolved")
  /\ UNCHANGED <<clock, rows, newer, updates>>

\* submitDowntimeEvent: what the Gateway reports of a webhook.
Reported(e) ==
  [begin |-> e.begin, end |-> e.end, key |-> InstrumentKey(e.shape), event |-> e.event,
   resolved |-> e.status = "resolved"]

\* recordDowntimeEvent: the upsert, everything overwritten.
Upsert(e) ==
  /\ rows' = [rows EXCEPT ![e.id] = Reported(e)]
  /\ newer' = {pair \in newer : e.id \notin {pair[1], pair[2]}}
              \union {<<e.id, d>> : d \in {o \in Downtimes \ {e.id} : rows[o] # Unset}}

\* ReportDowntimeEvent, for any webhook ever sent.
Deliver(e) ==
  /\ Upsert(e)
  /\ UNCHANGED <<clock, outage, wire, updates>>

ClockTick ==
  /\ clock < LastTime
  /\ clock' = clock + 1
  /\ UNCHANGED <<outage, wire, rows, newer, updates>>

DowntimeNext ==
  \/ \E d \in Downtimes : Begins(d) \/ Updated(d) \/ Resolves(d)
  \/ \E e \in wire : Deliver(e)
  \/ ClockTick

DowntimeSpec == DowntimeInit /\ [][DowntimeNext]_downtimeVars
DowntimeFair == WF_downtimeVars(ClockTick)

-----------------------------------------------------------------------------
\* loadDowntimeStatus: the unresolved rows of the instrument, of which it takes
\* the one updated last.
Active == {d \in Downtimes : rows[d] # Unset /\ ~rows[d].resolved /\ rows[d].key = Instrument}
UpdatedLast(d) == \A other \in Active \ {d} : <<d, other>> \in newer

\* Mutant: an outage without an end holds until it is resolved.
BlocksUntilResolved(row) ==
  row.begin <= clock /\ (row.end = Unset \/ clock < row.end)

\* downtimeBlocksRetry: not before it begins, not after its published end, and
\* without one for a limited time.
Blocks(row) ==
  row.begin <= clock /\ clock < (IF row.end = Unset THEN row.begin + Hold ELSE row.end)

RetryHeld == \E d \in Active : UpdatedLast(d) /\ Blocks(rows[d])

-----------------------------------------------------------------------------
\* Whatever webhooks are lost, repeated or late, no downtime holds a payment
\* back for ever: the payment is not stranded by what the provider failed to say.
HoldsEnd == <>[]~RetryHeld

\* An outage of which the provider's last word is the one that is remembered, and
\* that no later word about another downtime of the instrument hides, holds
\* retries while it lasts.
KnownOutageHolds ==
  \A d \in Downtimes :
     /\ outage[d] # Unset /\ ~outage[d].over
     /\ rows[d] # Unset /\ rows[d].event = Sent(d) /\ UpdatedLast(d)
     /\ outage[d].begin <= clock
     /\ clock < (IF outage[d].end = Unset THEN outage[d].begin + Hold ELSE outage[d].end)
     => RetryHeld
=============================================================================
