------------------------------ MODULE Periphery ------------------------------
(***************************************************************************)
(* The parts around the recovery agent that share no state with each       *)
(* other: the intake of payments, the memory of bank downtimes, the        *)
(* Executor's idempotency table, the World Simulator, the diagnosis of a   *)
(* payment, and the life of a process.  In each behaviour one of them is   *)
(* at work and the others rest, in a state where they have nothing to do.  *)
(***************************************************************************)
EXTENDS Ingestion, PaymentDowntime, Executor, WorldSimulator, Diagnosis, ServiceProcess

VARIABLE part   \* the part at work
peripheryVars == <<part, ingestVars, downtimeVars, executorVars, worldVars, diagnosisVars,
                   processVars>>

Parts == {"intake", "downtimes", "executor", "world", "diagnosis", "process"}

IntakeRests ==
  /\ records = {} /\ published = {} /\ batches = <<>> /\ failures = 0
  /\ request = [s \in Senders |-> CHOOSE q \in Requests : Refusal(q) # 0]
  /\ call = [s \in Senders |-> [Idle EXCEPT !.pc = "refused", !.try = MaxTries]]

DowntimesRest ==
  /\ clock = LastTime /\ wire = {} /\ newer = {} /\ updates = 0
  /\ outage = [d \in Downtimes |-> Unset] /\ rows = [d \in Downtimes |-> Unset]

DiagnosisRests ==
  /\ DiagnosisInit
  /\ limits = [route |-> CHOOSE n \in RouteBelow : TRUE, escalate |-> CHOOSE n \in EscalateBelow : TRUE]

ProcessRests ==
  /\ program = Gateway /\ lacking = Complete /\ opened = 1 /\ stage = "exited"
  /\ signalled = TRUE /\ cancelled = TRUE /\ runErr = FALSE /\ exit = 0
  /\ loops = << >> /\ serving = FALSE
  /\ calls = [c \in Callers |-> "idle"] /\ lasting = {} /\ held = {}

PeripheryInit ==
  /\ part \in Parts
  /\ IF part = "intake" THEN IngestInit ELSE IntakeRests
  /\ IF part = "downtimes" THEN DowntimeInit ELSE DowntimesRest
  /\ ExecutorInit
  /\ WorldInit
  /\ IF part = "diagnosis" THEN DiagnosisInit ELSE DiagnosisRests
  /\ IF part = "process" THEN ProcessInit ELSE ProcessRests

PeripheryNext ==
  \/ /\ part = "intake" /\ IngestNext
     /\ UNCHANGED <<part, downtimeVars, executorVars, worldVars, diagnosisVars, processVars>>
  \/ /\ part = "downtimes" /\ DowntimeNext
     /\ UNCHANGED <<part, ingestVars, executorVars, worldVars, diagnosisVars, processVars>>
  \/ /\ part = "executor" /\ ExecutorNext
     /\ UNCHANGED <<part, ingestVars, downtimeVars, worldVars, diagnosisVars, processVars>>
  \/ /\ part = "world" /\ WorldNext
     /\ UNCHANGED <<part, ingestVars, downtimeVars, executorVars, diagnosisVars, processVars>>
  \/ /\ part = "diagnosis" /\ DiagnosisNext
     /\ UNCHANGED <<part, ingestVars, downtimeVars, executorVars, worldVars, processVars>>
  \/ /\ part = "process" /\ ProcessNext
     /\ UNCHANGED <<part, ingestVars, downtimeVars, executorVars, worldVars, diagnosisVars>>

PeripherySpec ==
  /\ PeripheryInit /\ [][PeripheryNext]_peripheryVars
  /\ IngestFair /\ DowntimeFair /\ ProcessFair

-----------------------------------------------------------------------------
\* Each part comes to its end: downtimes stop holding payments back, senders
\* that repeat themselves get their payments in, and a process that is told to
\* stop does.
PeripherySettles == HoldsEnd /\ SendersGetThrough /\ SignalEndsProcess
=============================================================================
