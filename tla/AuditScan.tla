----------------------------- MODULE AuditScan -----------------------------
(***************************************************************************)
(* The Audit service reads what the Decision Engine writes and judges it:  *)
(* the watcher scans every record once per interval, a caller asks for one *)
(* record.  Both read the current state in one statement and the trail in  *)
(* another, in no transaction, while records move.                         *)
(***************************************************************************)
EXTENDS Ledger

CONSTANT MaxScanErrors  \* bound: failing statements

VARIABLES
  inquiry,   \* the one in progress: who asks, about which records, what it saw
  verdict,   \* its answer: the records complained of, and those that had moved
  gauges,    \* what the watcher last exported: [incomplete, impossible]
  scanErrors \* failures left
auditVars == <<inquiry, verdict, gauges, scanErrors>>

NoInquiry == [by |-> "nobody", seen |-> <<>>, length |-> <<>>]
NoVerdict == [incomplete |-> {}, impossible |-> {}, moved |-> {}]
Clean     == [incomplete |-> 0, impossible |-> 0]

AuditInit ==
  /\ inquiry = NoInquiry
  /\ verdict = NoVerdict
  /\ gauges = Clean
  /\ scanErrors = MaxScanErrors

-----------------------------------------------------------------------------
\* verifyInvariants on one snapshot: at most one complaint, incompleteness first.
Judge(current, entries) ==
  IF current = "NEW" THEN "untouched"
  ELSE IF IncompleteTrail(current, entries) THEN "incomplete"
  ELSE IF ImpossibleTransition(entries) THEN "impossible" ELSE "ok"

\* loadCurrentState and loadAuditEntries.
CurrentStates(scope) == Restrict(state, scope)
EntriesOf(r)         == trail[r]

\* The first statement: the current states.
ReadStates(by, scope) ==
  /\ inquiry = NoInquiry
  /\ inquiry' = [by |-> by, seen |-> CurrentStates(scope),
                 length |-> [r \in scope |-> Len(trail[r])]]
  /\ verdict' = NoVerdict
  /\ UNCHANGED <<ledgerVars, gauges, scanErrors>>

\* VerifyInvariants over everything, by itself or on request; GetRecordAudit.
WatcherStarts == ReadStates("watcher", Records)
CallerStarts  == \E r \in Records : ReadStates("caller", {r})

\* checkOnce sets every gauge from a scan that ended.
Export(found) ==
  IF inquiry.by # "watcher" THEN gauges
  ELSE [incomplete |-> Cardinality(found.incomplete), impossible |-> Cardinality(found.impossible)]

\* The second statement: the trails, and the verdict on both.
ReadTrails ==
  LET scope    == DOMAIN inquiry.seen
      moved(r) == inquiry.length[r] # Len(trail[r])
      judged(complaint) == {r \in scope : Judge(inquiry.seen[r], EntriesOf(r)) = complaint}
      found == [incomplete |-> judged("incomplete"), impossible |-> judged("impossible"),
                moved |-> {r \in judged("incomplete") : moved(r)}]
  IN  /\ inquiry # NoInquiry
      /\ verdict' = found
      /\ gauges' = Export(found)
      /\ inquiry' = NoInquiry
      /\ UNCHANGED <<ledgerVars, scanErrors>>

\* Either statement fails: the inquiry ends, and the watcher's gauges stay.
ScanFails ==
  /\ scanErrors > 0 /\ inquiry # NoInquiry
  /\ scanErrors' = scanErrors - 1
  /\ inquiry' = NoInquiry
  /\ UNCHANGED <<ledgerVars, verdict, gauges>>

AuditNext == WatcherStarts \/ CallerStarts \/ ReadTrails \/ ScanFails

-----------------------------------------------------------------------------
\* A record is complained of only if it moved between the two statements: at any
\* one time every state is explained by its trail, whoever reads it.
AlarmsOnlyOnMovers ==
  verdict.impossible = {} /\ verdict.incomplete \subseteq verdict.moved

\* A false alarm does not last: whatever the gauges showed while records moved,
\* and whatever scans failed, they end at zero when the records have come to rest.
AlarmClears == <>[](gauges = Clean)
=============================================================================
