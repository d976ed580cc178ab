------------------------------ MODULE ReadSide ------------------------------
(***************************************************************************)
(* The readers of the ledger beside each other: the Audit service's scan,  *)
(* Reporting's figures, the policy it compares them with, its list of      *)
(* records, and its live updates.  They write nothing and do not know of   *)
(* each other, so a behaviour has one of them at work, the one in view.    *)
(***************************************************************************)
EXTENDS AuditScan, BatchReport, LiveUpdates

VARIABLE view
readVars == <<ledgerVars, auditVars, reportVars, liveVars, view>>

Views == {"audit", "report", "baseline", "pages", "live"}

ReadInit ==
  /\ view \in Views
  /\ LedgerInit /\ AuditInit /\ ReportInit /\ LiveInit

Audits ==
  /\ view = "audit"
  /\ (LedgerNext /\ UNCHANGED auditVars) \/ AuditNext
  /\ UNCHANGED <<reportVars, liveVars, view>>

Reports ==
  /\ view = "report"
  /\ (LedgerNext /\ UNCHANGED reportVars) \/ ReportNext
  /\ UNCHANGED <<auditVars, liveVars, view>>

Compares ==
  /\ view = "baseline"
  /\ ReadBaseline \/ EndReport
  /\ UNCHANGED <<auditVars, liveVars, view>>

Lists ==
  /\ view = "pages"
  /\ PageNext
  /\ UNCHANGED <<auditVars, liveVars, view>>

Watches ==
  /\ view = "live"
  /\ LiveNext
  /\ UNCHANGED <<auditVars, reportVars, view>>

ReadNext == Audits \/ Reports \/ Compares \/ Lists \/ Watches

ReadSpec == ReadInit /\ [][ReadNext]_readVars

\* The watcher's loop and the consumer's loop run; statements end.
ReadFair ==
  /\ SF_readVars(view = "audit" /\ WatcherStarts /\ UNCHANGED <<reportVars, liveVars, view>>)
  /\ WF_readVars(view = "audit" /\ ReadTrails /\ UNCHANGED <<reportVars, liveVars, view>>)
  /\ WF_readVars(view = "live" /\ (Handle \/ CommitOffset)
                 /\ UNCHANGED <<auditVars, reportVars, view>>)

ReadFairSpec == ReadSpec /\ ReadFair

-----------------------------------------------------------------------------
\* Watching never gets stuck: the audit's false alarms clear, and the live view's
\* consumer reaches the end of its topic whatever its viewers do.
ReadSideSettles == AlarmClears /\ ConsumerKeepsUp
=============================================================================
