--------------------------- MODULE ServiceProcess ---------------------------
(***************************************************************************)
(* One process of one of the nine services: how it reads its settings,     *)
(* opens what it depends on, serves, runs its loops, and leaves when it is *)
(* told to, when a loop ends or when it can serve no more.                 *)
(*                                                                         *)
(* Left out: the metrics listener, the lag exporter and the invariant      *)
(* watcher, which nothing waits for and whose end ends nothing.            *)
(***************************************************************************)
EXTENDS Naturals, Sequences

CONSTANTS
  Callers,   \* calls made to the process, each at most once
  Complete   \* an environment that lacks no setting

VARIABLES
  program,   \* which service this is
  lacking,   \* the setting that is missing or out of range, or Complete
  opened,    \* how many steps of the start have been taken
  stage,     \* "opening", "running", "waiting", "closing", "releasing", "exited"
  signalled, \* the root context is cancelled
  cancelled, \* the loops' context is cancelled
  loops,     \* [loop -> "running", "stopped" or "failed"], those started
  serving,   \* new calls are accepted
  calls,     \* [caller -> "idle", "open", "answered" or "cut"]
  lasting,   \* callers whose call has no deadline
  held,      \* callers whose call holds a database connection while the pool closes
  runErr,    \* run returns an error
  exit       \* exit status, 2 while the process lives
processVars == <<program, lacking, opened, stage, signalled, cancelled, loops, serving,
                 calls, lasting, held, runErr, exit>>
settings == <<program, lacking>>

-----------------------------------------------------------------------------
\* Settings without a default, and settings whose value is checked.
CommonNeeds ==
  {"POSTGRES_DSN", "REDIS_ADDR", "KAFKA_BROKERS", "LOG_LEVEL", "DEMO_TIME_SCALE",
   "GRPC_PORT", "METRICS_PORT"}
DecisionEngineNeeds ==
  {"CLASSIFIER_ADDR", "EXECUTOR_ADDR", "LLM_SAMPLE_RATE", "LLM_ROUTE_CONFIDENCE_THRESHOLD",
   "CLASSIFY_CONFIDENCE_THRESHOLD", "RETRY_MANDATE_LEAD_TIME"}
\* Zero would forbid everything, and is refused.
GuardrailNeeds == {"MAX_RETRIES", "MAX_CONTACTS", "CONTACT_COOLDOWN", "RECOVERY_WINDOW"}
GatewayNeeds ==
  {"INGESTION_ADDR", "REPORTING_ADDR", "AUDIT_ADDR", "DECISION_ENGINE_ADDR", "API_KEY",
   "WEBHOOK_SECRET", "HTTP_PORT", "RATE_LIMIT_RPS", "RATE_LIMIT_BURST",
   "WORLD_SIMULATOR_ADDR"}   \* the last one with the demo controls on
ExecutorNeeds       == {"WORLD_SIMULATOR_ADDR", "NOTIFICATION_SIMULATOR_ADDR"}
WorldSimulatorNeeds == {"DECISION_ENGINE_ADDR", "WORLDSIM_POLL_INTERVAL"}
ClassifierNeeds     == {"LLM_TIMEOUT", "CHAIN_RESERVE", "LLM_BREAKER_THRESHOLD",
                        "LLM_BREAKER_COOLDOWN"}
AuditNeeds          == {"INVARIANT_CHECK_INTERVAL"}
ReportingNeeds      == {}

\* Each of these tables can be read, names only actions and buckets that exist,
\* and is not empty.
EconomicsNeeds == {"intervention_costs", "recovery_priors"}
\* LLM_PROVIDER_CHAIN names the rules once and last, names nothing that is not
\* known, and has a key for each model it names.
ChainNeeds     == {"RULES_IN_CHAIN", "RULES_LAST", "RULES_ONCE", "KNOWN_PROVIDERS", "API_KEYS"}

\* starts: the steps of the start, each of which may fail; loops: those the
\* process waits for; patient: when serving fails it still ends its loops and
\* drains; lasting: calls that have no deadline; awaited: the drain waits for
\* those too.
DecisionEngine ==
  [starts |-> <<"config", "postgres", "kafka", "economics", "port", "kafka">>,
   loops |-> {"consumer", "scheduler"}, patient |-> TRUE, lasting |-> FALSE,
   awaited |-> TRUE, needs |-> CommonNeeds \union DecisionEngineNeeds \union GuardrailNeeds]
Reporting ==
  [starts |-> <<"config", "postgres", "port", "kafka">>,
   loops |-> {"consumer"}, patient |-> TRUE, lasting |-> TRUE,
   awaited |-> TRUE, needs |-> CommonNeeds \union ReportingNeeds]
WorldSimulatorService ==
  [starts |-> <<"config", "postgres", "redis", "kafka", "port">>,
   loops |-> {"poller"}, patient |-> TRUE, lasting |-> FALSE,
   awaited |-> TRUE, needs |-> CommonNeeds \union WorldSimulatorNeeds]
IngestionService ==
  [starts |-> <<"config", "postgres", "kafka", "port">>,
   loops |-> {}, patient |-> FALSE, lasting |-> FALSE,
   awaited |-> TRUE, needs |-> CommonNeeds]
AuditService ==
  [starts |-> <<"config", "postgres", "port">>,
   loops |-> {}, patient |-> FALSE, lasting |-> FALSE,
   awaited |-> TRUE, needs |-> CommonNeeds \union AuditNeeds]
ExecutorService ==
  [starts |-> <<"config", "postgres", "port">>,
   loops |-> {}, patient |-> FALSE, lasting |-> FALSE,
   awaited |-> TRUE, needs |-> CommonNeeds \union ExecutorNeeds]
Classifier ==
  [starts |-> <<"config", "chain", "port">>,
   loops |-> {}, patient |-> FALSE, lasting |-> FALSE,
   awaited |-> TRUE, needs |-> CommonNeeds \union ClassifierNeeds]
NotificationSimulator ==
  [starts |-> <<"config", "port">>,
   loops |-> {}, patient |-> FALSE, lasting |-> FALSE,
   awaited |-> TRUE, needs |-> CommonNeeds]
\* Its port is opened by the goroutine that serves, so that a failure to open
\* it is a failure to serve; its WebSockets are hijacked from the HTTP server.
Gateway ==
  [starts |-> <<"config">>,
   loops |-> {}, patient |-> FALSE, lasting |-> TRUE,
   awaited |-> FALSE, needs |-> CommonNeeds \union GatewayNeeds]

Programs == {DecisionEngine, Reporting, WorldSimulatorService, IngestionService, AuditService,
             ExecutorService, Classifier, NotificationSimulator, Gateway}

\* What a step of the start finds missing, and all that a process requires.
NeedsAt(p, step) ==
  CASE step = "config"    -> p.needs
    [] step = "economics" -> EconomicsNeeds
    [] step = "chain"     -> ChainNeeds
    [] OTHER              -> {}
Required(p) == UNION {NeedsAt(p, p.starts[i]) : i \in DOMAIN p.starts}

ProcessInit ==
  /\ program \in Programs
  /\ lacking \in Required(program) \union {Complete}
  /\ opened = 0 /\ stage = "opening"
  /\ signalled = FALSE /\ cancelled = FALSE /\ runErr = FALSE
  /\ loops = << >> /\ serving = FALSE
  /\ calls = [c \in Callers |-> "idle"] /\ lasting = {} /\ held = {}
  /\ exit = 2

-----------------------------------------------------------------------------
Step         == program.starts[opened + 1]
\* Steps that wait on the root context give up when it is cancelled; others
\* refuse a setting that is missing or cannot be meant.
Hopeless ==
  \/ signalled /\ Step \in {"postgres", "redis"}
  \/ lacking \in NeedsAt(program, Step)
HasPool      == \E i \in 1..opened : program.starts[i] = "postgres"
Open         == {c \in Callers : calls[c] = "open"}
StillRunning == {l \in DOMAIN loops : loops[l] = "running"}

\* run returns: its deferred closes run, of which only the pool's waits, for
\* the connections that calls still hold.
Return(err) ==
  /\ runErr' = err /\ cancelled' = TRUE /\ serving' = FALSE
  /\ stage' = "releasing"
  /\ held' \in IF HasPool THEN SUBSET (Open \ lasting) ELSE {{}}

OpenNext ==
  /\ stage = "opening" /\ ~Hopeless
  /\ opened' = opened + 1
  /\ serving' = (serving \/ Step = "port" \/ program = Gateway)
  /\ IF opened' = Len(program.starts)
       THEN stage' = "running" /\ loops' = [l \in program.loops |-> "running"]
       ELSE UNCHANGED <<stage, loops>>
  /\ UNCHANGED <<settings, signalled, cancelled, calls, lasting, held, runErr, exit>>

\* A step fails, and with it the process: what it already serves is cut off.
OpenFails ==
  /\ stage = "opening"
  /\ Step \in {"config", "economics", "chain"} => Hopeless
  /\ Return(TRUE)
  /\ UNCHANGED <<settings, opened, signalled, loops, calls, lasting, exit>>

\* SIGTERM or SIGINT.  The loops' context is a child of the root context.
Signal ==
  /\ ~signalled /\ stage # "exited"
  /\ signalled' = TRUE /\ cancelled' = TRUE
  /\ UNCHANGED <<settings, opened, stage, loops, serving, calls, lasting, held, runErr, exit>>

\* A unary call must carry a deadline; a stream and a socket need none.
Accept(c) ==
  /\ serving /\ stage # "exited" /\ calls[c] = "idle"
  /\ calls' = [calls EXCEPT ![c] = "open"]
  /\ lasting' \in {lasting} \union (IF program.lasting THEN {lasting \union {c}} ELSE {})
  /\ UNCHANGED <<settings, opened, stage, signalled, cancelled, loops, serving, held,
                 runErr, exit>>

Answer(c) ==
  /\ calls[c] = "open" /\ stage # "exited"
  /\ calls' = [calls EXCEPT ![c] = "answered"]
  /\ held' = held \ {c}
  /\ UNCHANGED <<settings, opened, stage, signalled, cancelled, loops, serving, lasting,
                 runErr, exit>>

LoopFails(l) ==
  /\ l \in StillRunning /\ stage # "exited"
  /\ loops' = [loops EXCEPT ![l] = "failed"]
  /\ UNCHANGED <<settings, opened, stage, signalled, cancelled, serving, calls, lasting,
                 held, runErr, exit>>

\* Every loop returns when its context is cancelled.
LoopStops(l) ==
  /\ l \in StillRunning /\ cancelled /\ stage # "exited"
  /\ loops' = [loops EXCEPT ![l] = "stopped"]
  /\ UNCHANGED <<settings, opened, stage, signalled, cancelled, serving, calls, lasting,
                 held, runErr, exit>>

-----------------------------------------------------------------------------
\* The loops are told to stop, and waited for.
Leave(err) ==
  /\ stage = "running"
  /\ stage' = "waiting" /\ runErr' = err /\ cancelled' = TRUE
  /\ UNCHANGED <<settings, opened, signalled, loops, calls, lasting, held, exit>>

\* The main goroutine takes whichever comes first, in any order when several
\* have come.
LeaveOnSignal == signalled /\ Leave(FALSE) /\ UNCHANGED serving
LeaveOnLoop   ==
  \E l \in DOMAIN loops :
     loops[l] # "running" /\ Leave(loops[l] = "failed") /\ UNCHANGED serving
ServeFails    ==
  /\ serving /\ stage = "running"
  /\ IF program.patient
       THEN Leave(TRUE) /\ serving' = FALSE
       ELSE /\ Return(TRUE)
            /\ UNCHANGED <<settings, opened, signalled, loops, calls, lasting, exit>>

\* Mutant: the drain starts while the loops still run.
CloseAtOnce ==
  /\ stage = "waiting"
  /\ stage' = "closing" /\ serving' = FALSE
  /\ UNCHANGED <<settings, opened, signalled, cancelled, loops, calls, lasting, held,
                 runErr, exit>>

\* All the loops have returned; stop taking calls and drain, for a limited time.
BeginClose ==
  /\ stage = "waiting" /\ StillRunning = {}
  /\ stage' = "closing" /\ serving' = FALSE
  /\ UNCHANGED <<settings, opened, signalled, cancelled, loops, calls, lasting, held,
                 runErr, exit>>

Drained ==
  /\ stage = "closing"
  /\ Open \ (IF program.awaited THEN {} ELSE lasting) = {}
  /\ Return(runErr)
  /\ UNCHANGED <<settings, opened, signalled, loops, calls, lasting, exit>>

\* The grace period ends first.
GraceOver ==
  /\ stage = "closing"
  /\ Return(TRUE)
  /\ UNCHANGED <<settings, opened, signalled, loops, calls, lasting, exit>>

Exit ==
  /\ stage = "releasing" /\ held = {}
  /\ stage' = "exited"
  /\ exit' = IF runErr THEN 1 ELSE 0
  /\ calls' = [c \in Callers |-> IF calls[c] = "open" THEN "cut" ELSE calls[c]]
  /\ UNCHANGED <<settings, opened, signalled, cancelled, loops, serving, lasting, held, runErr>>

ProcessNext ==
  \/ OpenNext \/ OpenFails \/ Signal
  \/ \E c \in Callers : Accept(c) \/ Answer(c)
  \/ \E l \in DOMAIN loops : LoopFails(l) \/ LoopStops(l)
  \/ LeaveOnSignal \/ LeaveOnLoop \/ ServeFails
  \/ BeginClose \/ Drained \/ GraceOver \/ Exit

ProcessSpec == ProcessInit /\ [][ProcessNext]_processVars

\* Goroutines run, the grace timer fires, and a unary call ends by its
\* deadline.  Nothing is assumed of calls without one, of signals or failures.
ProcessFair ==
  /\ WF_processVars(OpenNext) /\ WF_processVars(OpenFails /\ Hopeless)
  /\ WF_processVars(\E l \in DOMAIN loops : LoopStops(l))
  /\ WF_processVars(LeaveOnSignal) /\ WF_processVars(BeginClose)
  /\ WF_processVars(GraceOver) /\ WF_processVars(Exit)
  /\ \A c \in Callers : WF_processVars(c \notin lasting /\ Answer(c))

-----------------------------------------------------------------------------
\* The exit status tells the truth: 0 only when every loop the process waits
\* for has returned and every call it had accepted was answered, other than a
\* WebSocket.  A restarted pod has then lost no work in progress.
CleanExit ==
  exit = 0 =>
     /\ StillRunning = {}
     /\ \A c \in Callers : calls[c] = "cut" => ~program.awaited /\ c \in lasting

\* Once it is told to stop, or begins to leave for any other reason, the
\* process ends; no viewer that keeps a stream open and no loop stops it.
SignalEndsProcess ==
  (signalled \/ stage \in {"waiting", "closing", "releasing"}) ~> stage = "exited"
=============================================================================
