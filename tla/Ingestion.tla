----------------------------- MODULE Ingestion -----------------------------
(***************************************************************************)
(* The way of failed payments into the system: the Gateway's admission     *)
(* checks and Ingestion's SubmitEvent and SubmitBatch, statement by        *)
(* statement.  The insert of a record, the publication of its raw event    *)
(* and the count of its batch are three steps that no transaction binds;   *)
(* any of them may fail, take effect and then fail, or be the last one     *)
(* before the process ends.  Senders repeat a request as webhooks are      *)
(* repeated: after an error, and also after an answer.                     *)
(***************************************************************************)
EXTENDS Integers, Sequences, FiniteSets, SequencesExt

CONSTANTS
  Senders,      \* HTTP clients, each with one request to get through
  Requests,     \* [route, source, lacks, key, valid, invalid]: what may be asked
  RollingSource, \* the source that marks the batch events share
  NoKey,        \* the key of a request without idempotency key
  MaxTries,     \* bound: how often a sender sends its request
  MaxFailures   \* bound: failing statements, deadlines and process ends

ASSUME IngestAssumption == MaxTries \in Nat \ {0} /\ MaxFailures \in Nat

VARIABLES
  records,    \* rows of RECORD
  published,  \* ids of the records whose raw event is in Kafka
  batches,    \* rows of BATCH in the order of created_at
  request,    \* what each sender asks
  call,       \* the progress of its current try
  failures    \* failures left
ingestVars == <<records, published, batches, request, call, failures>>

-----------------------------------------------------------------------------
\* The Gateway.  A request passes its route's checks in this order; "lacks"
\* names those it does not meet.
Limited      == <<"rate">>
Keyed        == <<"api_key">>
SignedBody   == <<"size", "signature">>
BatchFields  == <<"json", "records">>
EventFields  == <<"json", "failure_code", "occurred_at">>

Checks(route) ==
  Limited \o Keyed \o (CASE route = "batches"        -> BatchFields
                         [] route = "payment-failed" -> SignedBody \o EventFields)

StatusOf(check) ==
  CASE check = "rate"                       -> 429
    [] check \in {"api_key", "signature"}   -> 401
    [] OTHER                                -> 400

\* 0 when every check is met.
Refusal(q) ==
  LET failed == SelectSeq(Checks(q.route), LAMBDA k : k \in q.lacks)
  IN  IF failed = <<>> THEN 0 ELSE StatusOf(Head(failed))

-----------------------------------------------------------------------------
Steps == {"lookup", "rolling", "create", "insert", "publish", "count"}
Ends  == {"idle", "refused", "accepted", "failed"}

Idle == [pc |-> "idle", try |-> 0, batch |-> 0, done |-> 0,
         record |-> <<>>]

IngestInit ==
  /\ records = {} /\ published = {} /\ batches = <<>>
  /\ request \in [Senders -> Requests]
  /\ call = [s \in Senders |-> Idle]
  /\ failures = MaxFailures

\* What the sender is told.
HttpStatus(s) ==
  CASE call[s].pc = "refused"  -> Refusal(request[s])
    [] call[s].pc = "accepted" -> IF request[s].route = "batches" THEN 200 ELSE 202
    [] call[s].pc = "failed"   -> 502
    [] OTHER                   -> 0

IsEvent(s)   == request[s].route = "payment-failed"
\* validateNewRecord has refused what was sent.
NoneValid(s) == request[s].valid = 0
RowId(s)     == <<s, call[s].try, call[s].done + 1>>
Holders(key) == {r \in records : key # NoKey /\ r.key = key}
Rolling      == {b \in DOMAIN batches : batches[b].source = RollingSource}

Goto(s, pc)   == call' = [call EXCEPT ![s].pc = pc]
\* The statement took effect; its caller may still be told that it failed.
Then(s, next) ==
  \/ call' = [call EXCEPT ![s] = next] /\ UNCHANGED failures
  \/ /\ failures > 0
     /\ failures' = failures - 1
     /\ Goto(s, "failed")

-----------------------------------------------------------------------------
Arrive(s) ==
  /\ call[s].pc \in Ends /\ call[s].try < MaxTries
  /\ call' = [call EXCEPT ![s] =
       [Idle EXCEPT !.try = call[s].try + 1,
          !.pc = IF Refusal(request[s]) # 0 THEN "refused"
                 ELSE IF IsEvent(s) THEN "lookup" ELSE "create"]]
  /\ UNCHANGED <<records, published, batches, request, failures>>

\* findByIdempotencyKey, then the validation of what is new.
Lookup(s) ==
  /\ call[s].pc = "lookup"
  /\ \/ \E r \in Holders(request[s].key) :
          call' = [call EXCEPT ![s] =
            [@ EXCEPT !.pc = "accepted", !.batch = r.batch, !.record = r.id]]
     \/ /\ Holders(request[s].key) = {}
        /\ Goto(s, IF NoneValid(s) THEN "failed" ELSE "rolling")
  /\ UNCHANGED <<records, published, batches, request, failures>>

\* The oldest rolling batch, if there is one yet.
RollingBatch(s) ==
  /\ call[s].pc = "rolling"
  /\ IF Rolling = {} THEN Goto(s, "create")
     ELSE call' = [call EXCEPT ![s] =
       [@ EXCEPT !.pc = "insert", !.batch = CHOOSE b \in Rolling : \A o \in Rolling : b <= o]]
  /\ UNCHANGED <<records, published, batches, request, failures>>

CreateBatch(s) ==
  /\ call[s].pc = "create"
  /\ batches' = Append(batches, [total |-> 0,
       source |-> IF IsEvent(s) THEN RollingSource ELSE request[s].source])
  /\ Then(s, [call[s] EXCEPT !.batch = Len(batches) + 1,
                !.pc = IF NoneValid(s) THEN "count" ELSE "insert"])
  /\ UNCHANGED <<records, published, request>>

\* Mutant: the index on the idempotency key is not unique.
InsertAnyway(s) ==
  /\ call[s].pc = "insert"
  /\ records' = records \union
       {[id |-> RowId(s), key |-> request[s].key, batch |-> call[s].batch]}
  /\ Then(s, [call[s] EXCEPT !.pc = "publish"])
  /\ UNCHANGED <<published, batches, request>>

\* The unique index refuses the second of two rows with one key.
InsertRecord(s) ==
  /\ call[s].pc = "insert"
  /\ IF Holders(request[s].key) # {}
     THEN Goto(s, "failed") /\ UNCHANGED <<records, failures>>
     ELSE /\ records' = records \union
               {[id |-> RowId(s), key |-> request[s].key, batch |-> call[s].batch]}
          /\ Then(s, [call[s] EXCEPT !.pc = "publish"])
  /\ UNCHANGED <<published, batches, request>>

\* Kafka has the event.  The next record of a batch, or on to the count.
Publish(s) ==
  /\ call[s].pc = "publish"
  /\ published' = published \union {RowId(s)}
  /\ Then(s, [call[s] EXCEPT !.done = @ + 1, !.record = RowId(s),
                !.pc = IF call[s].done + 1 < request[s].valid THEN "insert" ELSE "count"])
  /\ UNCHANGED <<records, batches, request>>

\* Mutant: every batch is taken for a shared one, and counted up from its last
\* total together with what was rejected.
CountRejected(s) ==
  /\ call[s].pc = "count"
  /\ batches' = [batches EXCEPT ![call[s].batch].total =
                   @ + request[s].valid + request[s].invalid]
  /\ Then(s, [call[s] EXCEPT !.pc = "accepted"])
  /\ UNCHANGED <<records, published, request>>

\* incrementBatchTotal for the shared batch, setBatchTotal for a submitted one.
Count(s) ==
  /\ call[s].pc = "count"
  /\ batches' = [batches EXCEPT ![call[s].batch].total =
                   IF IsEvent(s) THEN @ + 1 ELSE call[s].done]
  /\ Then(s, [call[s] EXCEPT !.pc = "accepted"])
  /\ UNCHANGED <<records, published, request>>

\* A statement fails without effect, the deadline passes, or the process ends.
Fails(s) ==
  /\ call[s].pc \in Steps /\ failures > 0
  /\ failures' = failures - 1
  /\ Goto(s, "failed")
  /\ UNCHANGED <<records, published, batches, request>>

Serve(s) == Lookup(s) \/ RollingBatch(s) \/ CreateBatch(s) \/ InsertRecord(s)
            \/ Publish(s) \/ Count(s)
IngestNext == \E s \in Senders : Arrive(s) \/ Serve(s) \/ Fails(s)

IngestSpec == IngestInit /\ [][IngestNext]_ingestVars

\* Calls are served; whoever was told of a failure, or nothing, sends again.
IngestFair ==
  \A s \in Senders : WF_ingestVars(Serve(s))
                     /\ WF_ingestVars(call[s].pc \in {"idle", "failed"} /\ Arrive(s))

-----------------------------------------------------------------------------
\* However submissions of one event overlap, fail and are repeated, it has one
\* record, and everyone who was told of a record for it was told of that one.
OneRecordPerKey ==
  /\ \A r, o \in records : r.key = o.key /\ r.key # NoKey => r = o
  /\ \A s \in Senders :
       IsEvent(s) /\ call[s].pc = "accepted" /\ request[s].key # NoKey =>
          \E r \in Holders(request[s].key) : r.id = call[s].record

\* The total a batch shows never promises records that are not on their way:
\* whatever fails or races for the shared batch, it counts published ones only.
NeverOvercounted ==
  \A b \in DOMAIN batches :
     batches[b].total <=
       Cardinality({r \in records : r.batch = b /\ r.id \in published})

\* What is claimed of the answer 202, and refuted: that the record it names was
\* accepted for processing.  A repeated event is answered with a row whose
\* publication had failed, and nothing publishes it any more.
AcceptedIsProcessed ==
  \A s \in Senders : HttpStatus(s) = 202 => call[s].record \in published

\* Failing statements and lost races only delay a sender that repeats itself.
SendersGetThrough ==
  \A s \in Senders :
     Refusal(request[s]) = 0 /\ request[s].valid > 0 => <>(call[s].pc = "accepted")
=============================================================================
