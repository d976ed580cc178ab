-------------------------- MODULE PeripheryProofs --------------------------
(***************************************************************************)
(* The parts around the recovery agent, each for any number of clients,    *)
(* batches, payments or calls, any repetitions, failures and restarts.     *)
(***************************************************************************)
EXTENDS Periphery, FiniteSetTheorems, TLAPS

-----------------------------------------------------------------------------
(***************************************************************************)
(* For any number of senders and requests, any repetitions and failures:   *)
(* one idempotency key, one record.                                        *)
(***************************************************************************)
\* The invariant.

KeyedEvent(s) == IsEvent(s) /\ request[s].key # NoKey
HasRow(s, id) == \E r \in records : r.key = request[s].key /\ r.id = id

\* What the call w of a sender has done when it has come as far as it has: past
\* the validation, past its insert, and with a record to name.
Shaped(w) == {"pc", "try", "batch", "done", "record"} \subseteq DOMAIN w
Sound(s, w) ==
  KeyedEvent(s) =>
    /\ w.pc \in {"rolling", "create", "insert", "publish"} => ~NoneValid(s)
    /\ w.pc = "publish" => HasRow(s, <<s, w.try, w.done + 1>>)
    /\ w.pc \in {"count", "accepted"} => HasRow(s, w.record)

KeysUnique == \A r, o \in records : r.key = o.key /\ r.key # NoKey => r = o

IngestInv ==
  /\ DOMAIN call = Senders
  /\ \A s \in Senders : Shaped(call[s]) /\ Sound(s, call[s])
  /\ KeysUnique

-----------------------------------------------------------------------------
\* A step that leaves the call of s as w, and of which the rows only grow.
NextSound(s, w) ==
  KeyedEvent(s) =>
    /\ w.pc \in {"rolling", "create", "insert", "publish"} => ~NoneValid(s)
    /\ w.pc = "publish" =>
         \E r \in records' : r.key = request[s].key /\ r.id = <<s, w.try, w.done + 1>>
    /\ w.pc \in {"count", "accepted"} =>
         \E r \in records' : r.key = request[s].key /\ r.id = w.record

LEMMA CallUpdate ==
  ASSUME IngestInv, NEW s \in Senders, NEW w, Shaped(w), NextSound(s, w),
         call' = [call EXCEPT ![s] = w],
         records \subseteq records', KeysUnique', UNCHANGED request
  PROVE  IngestInv'
<1>1. DOMAIN call' = Senders /\ call'[s] = w
      /\ \A d \in Senders : d # s => call'[d] = call[d]
  BY DEF IngestInv
<1>2. ASSUME NEW d \in Senders PROVE Shaped(call'[d]) /\ Sound(d, call[d])'
  <2>1. CASE d = s
    BY <1>1, <2>1 DEF Shaped, NextSound, Sound, KeyedEvent, IsEvent, NoneValid, HasRow
  <2>2. CASE d # s
    BY <1>1, <2>2 DEF IngestInv, Shaped, Sound, KeyedEvent, IsEvent, NoneValid, HasRow
  <2>3. QED BY <2>1, <2>2
<1>3. QED BY <1>1, <1>2 DEF IngestInv, Shaped

\* Likewise where only the point the call has reached changes.
LEMMA GotoUpdate ==
  ASSUME IngestInv, NEW s \in Senders, NEW pc, Goto(s, pc),
         NextSound(s, [call[s] EXCEPT !.pc = pc]),
         records \subseteq records', KeysUnique', UNCHANGED request
  PROVE  IngestInv'
<1>1. call' = [call EXCEPT ![s] = [call[s] EXCEPT !.pc = pc]]
  BY DEF Goto
<1>2. Shaped([call[s] EXCEPT !.pc = pc])
  BY DEF IngestInv, Shaped
<1>3. QED BY <1>1, <1>2, CallUpdate

\* A call that fails promises nothing.
LEMMA FailedUpdate ==
  ASSUME IngestInv, NEW s \in Senders, Goto(s, "failed"),
         records \subseteq records', KeysUnique', UNCHANGED request
  PROVE  IngestInv'
<1>1. [call[s] EXCEPT !.pc = "failed"].pc = "failed"
  BY DEF IngestInv, Shaped
<1>2. NextSound(s, [call[s] EXCEPT !.pc = "failed"])
  BY <1>1 DEF NextSound
<1>3. QED BY <1>2, GotoUpdate

LEMMA ThenUpdate ==
  ASSUME IngestInv, NEW s \in Senders, NEW w, Shaped(w), NextSound(s, w), Then(s, w),
         records \subseteq records', KeysUnique', UNCHANGED request
  PROVE  IngestInv'
<1>1. CASE call' = [call EXCEPT ![s] = w]
  BY <1>1, CallUpdate
<1>2. CASE Goto(s, "failed")
  BY <1>2, FailedUpdate
<1>3. QED BY <1>1, <1>2 DEF Then

LEMMA SameRows ==
  ASSUME IngestInv, UNCHANGED records PROVE records \subseteq records' /\ KeysUnique'
BY DEF IngestInv, KeysUnique

-----------------------------------------------------------------------------
\* The statements of a call.

LEMMA ArriveKeeps == ASSUME IngestInv, NEW s \in Senders, Arrive(s) PROVE IngestInv'
<1> DEFINE pc == IF Refusal(request[s]) # 0 THEN "refused"
                 ELSE IF IsEvent(s) THEN "lookup" ELSE "create"
           w  == [Idle EXCEPT !.try = call[s].try + 1, !.pc = pc]
<1>1. call' = [call EXCEPT ![s] = w] /\ UNCHANGED <<records, request>>
  BY DEF Arrive
<1>2. Shaped(w) /\ w.pc = pc
  BY DEF Shaped, Idle
<1>3. KeyedEvent(s) => pc \in {"refused", "lookup"}
  BY DEF KeyedEvent
<1> HIDE DEF w, pc
<1>4. NextSound(s, w)
  BY <1>2, <1>3 DEF NextSound
<1>5. QED BY <1>1, <1>2, <1>4, SameRows, CallUpdate

LEMMA LookupKeeps == ASSUME IngestInv, NEW s \in Senders, Lookup(s) PROVE IngestInv'
<1>1. UNCHANGED <<records, request>>
  BY DEF Lookup
<1>2. ASSUME NEW r \in Holders(request[s].key),
             call' = [call EXCEPT ![s] =
               [@ EXCEPT !.pc = "accepted", !.batch = r.batch, !.record = r.id]]
      PROVE  IngestInv'
  <2> DEFINE w == [call[s] EXCEPT !.pc = "accepted", !.batch = r.batch, !.record = r.id]
  <2>1. Shaped(w) /\ w.pc = "accepted" /\ w.record = r.id
    BY DEF IngestInv, Shaped
  <2>2. call' = [call EXCEPT ![s] = w]
    BY <1>2
  <2>3. r \in records' /\ r.key = request[s].key
    BY <1>1 DEF Holders
  <2> HIDE DEF w
  <2>4. NextSound(s, w)
    BY <2>1, <2>3 DEF NextSound
  <2>5. QED BY <1>1, <2>1, <2>2, <2>4, SameRows, CallUpdate
<1>3. CASE Goto(s, IF NoneValid(s) THEN "failed" ELSE "rolling")
  <2> DEFINE pc == IF NoneValid(s) THEN "failed" ELSE "rolling"
  <2>1. [call[s] EXCEPT !.pc = pc].pc = pc
    BY DEF IngestInv, Shaped
  <2>2. NextSound(s, [call[s] EXCEPT !.pc = pc])
    BY <2>1 DEF NextSound
  <2>3. QED BY <1>1, <1>3, <2>2, SameRows, GotoUpdate
<1>4. QED BY <1>2, <1>3 DEF Lookup

LEMMA RollingKeeps == ASSUME IngestInv, NEW s \in Senders, RollingBatch(s) PROVE IngestInv'
<1>1. UNCHANGED <<records, request>> /\ (KeyedEvent(s) => ~NoneValid(s))
  BY DEF RollingBatch, IngestInv, Sound
<1>2. CASE Goto(s, "create")
  <2>1. [call[s] EXCEPT !.pc = "create"].pc = "create"
    BY DEF IngestInv, Shaped
  <2>2. NextSound(s, [call[s] EXCEPT !.pc = "create"])
    BY <1>1, <2>1 DEF NextSound
  <2>3. QED BY <1>1, <1>2, <2>2, SameRows, GotoUpdate
<1>3. ASSUME NEW b, call' = [call EXCEPT ![s] = [@ EXCEPT !.pc = "insert", !.batch = b]]
      PROVE  IngestInv'
  <2> DEFINE w == [call[s] EXCEPT !.pc = "insert", !.batch = b]
  <2>1. Shaped(w) /\ w.pc = "insert"
    BY DEF IngestInv, Shaped
  <2>2. call' = [call EXCEPT ![s] = w]
    BY <1>3
  <2> HIDE DEF w
  <2>3. NextSound(s, w)
    BY <1>1, <2>1 DEF NextSound
  <2>4. QED BY <1>1, <2>1, <2>2, <2>3, SameRows, CallUpdate
<1>4. QED BY <1>2, <1>3 DEF RollingBatch

LEMMA CreateKeeps == ASSUME IngestInv, NEW s \in Senders, CreateBatch(s) PROVE IngestInv'
<1> DEFINE w == [call[s] EXCEPT !.batch = Len(batches) + 1,
                   !.pc = IF NoneValid(s) THEN "count" ELSE "insert"]
<1>1. Then(s, w) /\ UNCHANGED <<records, request>> /\ (KeyedEvent(s) => ~NoneValid(s))
  BY DEF CreateBatch, IngestInv, Sound
<1>2. Shaped(w) /\ w.pc = IF NoneValid(s) THEN "count" ELSE "insert"
  BY DEF IngestInv, Shaped
<1> HIDE DEF w
<1>3. NextSound(s, w)
  BY <1>1, <1>2 DEF NextSound
<1>4. QED BY <1>1, <1>2, <1>3, SameRows, ThenUpdate

\* The unique index: a row is added only where its key has none.
LEMMA InsertKeeps == ASSUME IngestInv, NEW s \in Senders, InsertRecord(s) PROVE IngestInv'
<1> DEFINE w   == [call[s] EXCEPT !.pc = "publish"]
           row == [id |-> RowId(s), key |-> request[s].key, batch |-> call[s].batch]
<1>1. UNCHANGED request /\ (KeyedEvent(s) => ~NoneValid(s))
  BY DEF InsertRecord, IngestInv, Sound
<1>2. CASE Goto(s, "failed") /\ UNCHANGED records
  BY <1>1, <1>2, SameRows, FailedUpdate
<1>3. CASE /\ Holders(request[s].key) = {}
           /\ records' = records \union {row} /\ Then(s, w)
  <2>1. Shaped(w) /\ w.pc = "publish" /\ w.try = call[s].try /\ w.done = call[s].done
    BY DEF IngestInv, Shaped
  <2>2. row \in records' /\ row.key = request[s].key
        /\ row.id = <<s, w.try, w.done + 1>>
    BY <1>3, <2>1 DEF RowId
  <2>3. \A r \in records : request[s].key # NoKey => r.key # request[s].key
    BY <1>3 DEF Holders
  <2> HIDE DEF w
  <2>4. NextSound(s, w)
    BY <1>1, <2>1, <2>2 DEF NextSound
  <2>5. KeysUnique'
    BY <1>3, <2>2, <2>3 DEF IngestInv, KeysUnique
  <2>6. QED BY <1>1, <1>3, <2>1, <2>4, <2>5, ThenUpdate
<1>4. QED BY <1>2, <1>3 DEF InsertRecord

LEMMA PublishKeeps == ASSUME IngestInv, NEW s \in Senders, Publish(s) PROVE IngestInv'
<1> DEFINE pc == IF call[s].done + 1 < request[s].valid THEN "insert" ELSE "count"
           w  == [call[s] EXCEPT !.done = @ + 1, !.record = RowId(s), !.pc = pc]
<1>1. call[s].pc = "publish" /\ Then(s, w) /\ UNCHANGED <<records, request>>
  BY DEF Publish
<1>2. KeyedEvent(s) => ~NoneValid(s) /\ HasRow(s, RowId(s))
  BY <1>1 DEF IngestInv, Sound, RowId
<1>3. Shaped(w) /\ w.pc = pc /\ w.record = RowId(s)
  BY DEF IngestInv, Shaped
<1> HIDE DEF w
<1>4. NextSound(s, w)
  BY <1>1, <1>2, <1>3 DEF NextSound, HasRow
<1>5. QED BY <1>1, <1>3, <1>4, SameRows, ThenUpdate

LEMMA CountKeeps == ASSUME IngestInv, NEW s \in Senders, Count(s) PROVE IngestInv'
<1> DEFINE w == [call[s] EXCEPT !.pc = "accepted"]
<1>1. call[s].pc = "count" /\ Then(s, w) /\ UNCHANGED <<records, request>>
  BY DEF Count
<1>2. KeyedEvent(s) => HasRow(s, call[s].record)
  BY <1>1 DEF IngestInv, Sound
<1>3. Shaped(w) /\ w.pc = "accepted" /\ w.record = call[s].record
  BY DEF IngestInv, Shaped
<1> HIDE DEF w
<1>4. NextSound(s, w)
  BY <1>1, <1>2, <1>3 DEF NextSound, HasRow
<1>5. QED BY <1>1, <1>3, <1>4, SameRows, ThenUpdate

-----------------------------------------------------------------------------
LEMMA IngestStarts == IngestInit => IngestInv
BY DEF IngestInit, IngestInv, Idle, Shaped, Sound, KeysUnique

LEMMA IngestStep == IngestInv /\ [IngestNext]_ingestVars => IngestInv'
<1> SUFFICES ASSUME IngestInv, [IngestNext]_ingestVars PROVE IngestInv'
  OBVIOUS
<1>1. ASSUME NEW s \in Senders, Arrive(s) PROVE IngestInv'
  BY <1>1, ArriveKeeps
<1>2. ASSUME NEW s \in Senders, Serve(s) PROVE IngestInv'
  BY <1>2, LookupKeeps, RollingKeeps, CreateKeeps, InsertKeeps, PublishKeeps, CountKeeps DEF Serve
<1>3. ASSUME NEW s \in Senders, Fails(s) PROVE IngestInv'
  BY <1>3, SameRows, FailedUpdate DEF Fails
<1>4. CASE UNCHANGED ingestVars
  BY <1>4 DEF ingestVars, IngestInv, Shaped, Sound, KeyedEvent, IsEvent, NoneValid, HasRow,
              KeysUnique
<1>5. QED BY <1>1, <1>2, <1>3, <1>4 DEF IngestNext

\* Whoever is told of a record is told of the one with his key.
LEMMA SoundAnswers == IngestInv => OneRecordPerKey
<1> SUFFICES ASSUME IngestInv PROVE OneRecordPerKey
  OBVIOUS
<1>1. ASSUME NEW s \in Senders, IsEvent(s), call[s].pc = "accepted", request[s].key # NoKey
      PROVE  \E r \in Holders(request[s].key) : r.id = call[s].record
  BY <1>1 DEF IngestInv, Sound, KeyedEvent, HasRow, Holders
<1>2. QED BY <1>1 DEF IngestInv, KeysUnique, OneRecordPerKey

\* However submissions of one event overlap, fail and are repeated, it has one
\* row, and SubmitEvent names no other: the unique index and the lookup in front
\* of it suffice without a transaction around them.
THEOREM KeyHasOneRecord == IngestSpec => []OneRecordPerKey
BY IngestStarts, IngestStep, SoundAnswers, PTL DEF IngestSpec

-----------------------------------------------------------------------------
(***************************************************************************)
(* The count of a batch.  The total of the shared batch leaves out events  *)
(* that are published and not yet counted; a submitter counts only what it *)
(* has itself published.                                                   *)
(***************************************************************************)
\* Of the rows R, those that s has published, P, in batch b.
Mine(R, P, s, b) == {r \in R : r.batch = b /\ r.id \in P /\ r.id[1] = s}

EventOf(q, s) == q[s].route = "payment-failed"

\* The events of the calls f that are published and about to be counted.
Uncounted(q, f) == {f[s].record : s \in {d \in Senders : EventOf(q, d) /\ f[d].pc = "count"}}
Counted(q, R, P, f, b) ==
  {r \in R : r.batch = b /\ r.id \in P /\ r.id \notin Uncounted(q, f)}

CallCounts(q, R, P, s, w) ==
  /\ Shaped(w) /\ w.try \in Nat /\ w.done \in Nat
  /\ w.pc \in {"lookup", "rolling", "create"} => w.done = 0
  /\ EventOf(q, s) /\ w.pc \in {"rolling", "create"} => q[s].valid # 0
  /\ \A id \in P : id[1] = s =>
       id[2] <= w.try /\ (w.pc \in Steps /\ id[2] = w.try => id[3] <= w.done)
  /\ w.pc = "publish" => \E r \in R : r.id = <<s, w.try, w.done + 1>> /\ r.batch = w.batch
  /\ EventOf(q, s) /\ w.pc = "count" =>
       /\ w.record[1] = s /\ w.record \in P
       /\ \E r \in R : r.id = w.record /\ r.batch = w.batch
  /\ ~EventOf(q, s) /\ w.pc \in {"insert", "publish", "count"} =>
       w.done <= Cardinality(Mine(R, P, s, w.batch))

Tables(R, P) ==
  /\ IsFiniteSet(R)
  /\ \A id \in P : id[2] \in Nat /\ id[3] \in Nat

BatchTable(q) ==
  Seq([total : Nat, source : {RollingSource} \union {q[s].source : s \in Senders}])

Totals(q, B, R, P, f) ==
  \A b \in DOMAIN B : B[b].total <= Cardinality(Counted(q, R, P, f, b))

CountInv ==
  /\ DOMAIN call = Senders
  /\ \A s \in Senders : CallCounts(request, records, published, s, call[s])
  /\ Tables(records, published)
  /\ batches \in BatchTable(request)
  /\ Totals(request, batches, records, published, call)

LEMMA Larger ==
  ASSUME NEW S, IsFiniteSet(S), NEW T, T \subseteq S
  PROVE  Cardinality(T) \in Nat /\ Cardinality(S) \in Nat
         /\ Cardinality(T) <= Cardinality(S)
<1>1. T \in SUBSET S
  OBVIOUS
<1> QED BY <1>1, FS_Subset, FS_CardinalityType

LEMMA OneLarger ==
  ASSUME NEW S, IsFiniteSet(S), NEW T, T \subseteq S, NEW x \in S, x \notin T
  PROVE  Cardinality(T) \in Nat /\ Cardinality(S) \in Nat
         /\ Cardinality(T) + 1 <= Cardinality(S)
<1>1. T \in SUBSET S /\ T \union {x} \in SUBSET S
  OBVIOUS
<1>2. IsFiniteSet(T)
  BY <1>1, FS_Subset
<1>3. Cardinality(T \union {x}) = Cardinality(T) + 1
  BY <1>2, FS_AddElement
<1>4. Cardinality(T \union {x}) <= Cardinality(S)
  BY <1>1, FS_Subset
<1> QED BY <1>2, <1>3, <1>4, FS_CardinalityType

\* Rows and published ids only grow, those of a call by ids of its own.
Grows(s) ==
  /\ records \subseteq records' /\ published \subseteq published'
  /\ \A id \in published' \ published : id[1] = s
  /\ Tables(records', published')
  /\ UNCHANGED request

LEMMA OthersCount ==
  ASSUME CountInv, NEW s \in Senders, Grows(s), NEW d \in Senders \ {s}
  PROVE  CallCounts(request, records', published', d, call[d])
<1> DEFINE w == call[d]
<1>1. CallCounts(request, records, published, d, w)
  BY DEF CountInv
<1>2. \A id \in published' : id[1] = d => id \in published
  BY DEF Grows
<1>3. /\ Mine(records, published, d, w.batch) \subseteq Mine(records', published', d, w.batch)
      /\ Mine(records', published', d, w.batch) \subseteq records'
  BY DEF Mine, Grows
<1>4. IsFiniteSet(records')
  BY DEF Grows, Tables
<1>5. IsFiniteSet(Mine(records', published', d, w.batch))
  BY <1>3, <1>4, FS_Subset
<1>6. PICK k, l : k = Cardinality(Mine(records, published, d, w.batch))
                  /\ l = Cardinality(Mine(records', published', d, w.batch))
  OBVIOUS
<1>7. k \in Nat /\ l \in Nat /\ k <= l
  BY <1>3, <1>5, <1>6, Larger
<1>8. w.done <= k => w.done <= l
  BY <1>1, <1>7 DEF CallCounts
<1> QED BY <1>1, <1>2, <1>6, <1>8 DEF CallCounts, Grows

\* A step of s that leaves its call as w.
LEMMA CallsCount ==
  ASSUME CountInv, NEW s \in Senders, NEW w, Grows(s),
         call' = [call EXCEPT ![s] = w], CallCounts(request, records', published', s, w)
  PROVE  /\ DOMAIN call' = Senders
         /\ \A d \in Senders : CallCounts(request', records', published', d, call'[d])
         /\ Tables(records', published')
<1>1. DOMAIN call' = Senders /\ call'[s] = w
      /\ \A d \in Senders \ {s} : call'[d] = call[d]
  BY DEF CountInv
<1>2. \A d \in Senders \ {s} : CallCounts(request, records', published', d, call[d])
  BY OthersCount
<1> QED BY <1>1, <1>2 DEF Grows

\* Nothing counted is uncounted again.
LEMMA CountedGrows ==
  ASSUME CountInv, NEW s \in Senders, NEW w, Grows(s), call' = [call EXCEPT ![s] = w],
         EventOf(request, s) /\ w.pc = "count" => w.record \notin published, NEW b
  PROVE  Counted(request, records, published, call, b) \subseteq Counted(request, records', published', call', b)
<1>1. call'[s] = w /\ \A d \in Senders \ {s} : call'[d] = call[d]
  BY DEF CountInv
<1>2. \A id \in published : id \in Uncounted(request, call') => id \in Uncounted(request, call)
  BY <1>1 DEF Uncounted, Grows
<1> QED BY <1>2 DEF Counted, Grows

LEMMA BatchType ==
  ASSUME batches \in BatchTable(request)
  PROVE  /\ DOMAIN batches = 1..Len(batches) /\ Len(batches) \in Nat
         /\ \A b \in DOMAIN batches : batches[b].total \in Nat
         /\ UNCHANGED request => BatchTable(request') = BatchTable(request)
<1>1. UNCHANGED request => BatchTable(request') = BatchTable(request)
  BY DEF BatchTable
<1>2. PICK Row : Row = [total : Nat, source : {RollingSource} \union {request[s].source : s \in Senders}]
  OBVIOUS
<1>3. batches \in Seq(Row)
  BY <1>2 DEF BatchTable
<1>4. DOMAIN batches = 1..Len(batches) /\ Len(batches) \in Nat
  BY <1>3
<1>5. \A b \in DOMAIN batches : batches[b] \in Row
  BY <1>3
<1>6. \A q \in Row : q.total \in Nat
  BY <1>2
<1> QED BY <1>1, <1>4, <1>5, <1>6

\* The totals hold where they did not move.
LEMMA TotalsKept ==
  ASSUME CountInv, NEW s \in Senders, NEW w, Grows(s), call' = [call EXCEPT ![s] = w],
         EventOf(request, s) /\ w.pc = "count" => w.record \notin published,
         NEW b \in DOMAIN batches
  PROVE  batches[b].total <= Cardinality(Counted(request, records', published', call', b))
<1>1. PICK S : S = Counted(request, records, published, call, b)
  OBVIOUS
<1>2. PICK T : T = Counted(request, records', published', call', b)
  OBVIOUS
<1>3. S \subseteq T
  BY <1>1, <1>2, CountedGrows
<1>4. IsFiniteSet(T)
  <2>1. T \subseteq records' /\ IsFiniteSet(records')
    BY <1>2 DEF Counted, Grows, Tables
  <2> QED BY <2>1, FS_Subset
<1>5. Cardinality(S) \in Nat /\ Cardinality(T) \in Nat /\ Cardinality(S) <= Cardinality(T)
  BY <1>3, <1>4, Larger
<1>6. batches[b].total \in Nat /\ batches[b].total <= Cardinality(S)
  BY <1>1, BatchType DEF CountInv, Totals
<1> QED BY <1>2, <1>5, <1>6

\* A step that touches no batch.
LEMMA CallMoves ==
  ASSUME CountInv, NEW s \in Senders, NEW w, Grows(s), call' = [call EXCEPT ![s] = w],
         CallCounts(request, records', published', s, w), UNCHANGED batches,
         EventOf(request, s) /\ w.pc = "count" => w.record \notin published
  PROVE  CountInv'
<1>1. batches' \in BatchTable(request')
  BY BatchType DEF CountInv, Grows
<1>2. Totals(request', batches', records', published', call')
  <2>1. \A b \in DOMAIN batches :
           batches[b].total <= Cardinality(Counted(request, records', published', call', b))
    BY TotalsKept
  <2>2. request' = request
    BY DEF Grows
  <2> QED BY <2>1, <2>2 DEF Totals
<1>3. /\ DOMAIN call' = Senders
      /\ \A d \in Senders : CallCounts(request', records', published', d, call'[d])
      /\ Tables(records', published')
  BY CallsCount
<1> QED BY <1>1, <1>2, <1>3 DEF CountInv

LEMMA CallFields ==
  ASSUME CountInv, NEW s \in Senders
  PROVE  Shaped(call[s]) /\ call[s].try \in Nat /\ call[s].done \in Nat
         /\ CallCounts(request, records, published, s, call[s])
  BY DEF CountInv, CallCounts

\* A call that fails promises nothing, not even where its statement took effect.
LEMMA FailedCounts ==
  ASSUME CountInv, NEW s \in Senders, Grows(s),
         \A id \in published' \ published : id[2] = call[s].try
  PROVE  CallCounts(request, records', published', s, [call[s] EXCEPT !.pc = "failed"])
<1>0. PICK w : w = [call[s] EXCEPT !.pc = "failed"]
  OBVIOUS
<1>1. Shaped(w) /\ w.pc = "failed" /\ w.try = call[s].try /\ w.done = call[s].done
  BY <1>0, CallFields DEF Shaped
<1>2. \A id \in published' : id[1] = s => id[2] <= call[s].try
  BY CallFields DEF CallCounts, Grows
<1>3. w.pc \notin Steps
  BY <1>1 DEF Steps
<1>4. w.try \in Nat /\ w.done \in Nat /\ Shaped(w)
  BY <1>1, CallFields
<1>5. w.pc \notin {"lookup", "rolling", "create", "insert", "publish", "count"}
  BY <1>1
<1>6. CallCounts(request, records', published', s, w)
  BY <1>1, <1>2, <1>3, <1>4, <1>5 DEF CallCounts
<1> QED BY <1>0, <1>6

LEMMA FailMoves ==
  ASSUME CountInv, NEW s \in Senders, Grows(s), Goto(s, "failed"), UNCHANGED batches,
         \A id \in published' \ published : id[2] = call[s].try
  PROVE  CountInv'
<1>1. PICK w : w = [call[s] EXCEPT !.pc = "failed"]
  OBVIOUS
<1>2. call' = [call EXCEPT ![s] = w] /\ w.pc = "failed"
  BY <1>1, CallFields DEF Goto, Shaped
<1> QED BY <1>1, <1>2, FailedCounts, CallMoves

\* A step that adds no row and publishes nothing.
LEMMA SameTables ==
  ASSUME CountInv, UNCHANGED <<records, published, request>>, NEW s \in Senders
  PROVE  Grows(s) /\ published' \ published = {}
  BY DEF CountInv, Grows

-----------------------------------------------------------------------------
\* How the progress of a call moves on: its own fields, and nothing below them.
LEMMA NextCall ==
  ASSUME CountInv, NEW s \in Senders, NEW pc
  PROVE  /\ Goto(s, pc) => call' = [call EXCEPT ![s] = [call[s] EXCEPT !.pc = pc]]
         /\ Shaped([call[s] EXCEPT !.pc = pc])
         /\ [call[s] EXCEPT !.pc = pc].pc = pc
         /\ [call[s] EXCEPT !.pc = pc].try = call[s].try
         /\ [call[s] EXCEPT !.pc = pc].done = call[s].done
         /\ [call[s] EXCEPT !.pc = pc].batch = call[s].batch
         /\ [call[s] EXCEPT !.pc = pc].record = call[s].record
  BY CallFields DEF Goto, Shaped

\* What a call has published of a batch can be counted.
LEMMA MineFinite ==
  ASSUME NEW s \in Senders, Grows(s), NEW b
  PROVE  /\ IsFiniteSet(Mine(records', published', s, b))
         /\ Cardinality(Mine(records', published', s, b)) \in Nat
<1>1. Mine(records', published', s, b) \subseteq records' /\ IsFiniteSet(records')
  BY DEF Mine, Grows, Tables
<1> QED BY <1>1, FS_Subset, FS_CardinalityType

LEMMA ArriveCounts == ASSUME CountInv, NEW s \in Senders, Arrive(s) PROVE CountInv'
<1>1. PICK w : w = [Idle EXCEPT !.try = call[s].try + 1,
          !.pc = IF Refusal(request[s]) # 0 THEN "refused"
                 ELSE IF IsEvent(s) THEN "lookup" ELSE "create"]
  OBVIOUS
<1>2. call' = [call EXCEPT ![s] = w] /\ UNCHANGED <<records, published, batches, request>>
  BY <1>1 DEF Arrive
<1>3. /\ Shaped(w) /\ w.try = call[s].try + 1 /\ w.done = 0
      /\ w.pc \in {"refused", "lookup", "create"}
      /\ EventOf(request, s) => w.pc # "create"
  BY <1>1 DEF Idle, Shaped, IsEvent, EventOf
<1>4. \A id \in published : id[1] = s => id[2] \in Nat /\ id[2] <= call[s].try
  BY CallFields DEF CallCounts, CountInv, Tables
<1>5. \A id \in published : id[1] = s => id[2] <= w.try /\ id[2] # w.try
  BY <1>3, <1>4, CallFields
<1>6. Grows(s)
  BY <1>2, SameTables
<1>7. w.try \in Nat /\ w.done \in Nat
  BY <1>3, CallFields
<1>8. CallCounts(request, records', published', s, w)
  BY <1>2, <1>3, <1>5, <1>7 DEF CallCounts
<1> QED BY <1>2, <1>3, <1>6, <1>8, CallMoves

LEMMA LookupCounts == ASSUME CountInv, NEW s \in Senders, Lookup(s) PROVE CountInv'
<1>1. Grows(s) /\ published' \ published = {} /\ UNCHANGED batches
      /\ UNCHANGED <<records, published, request>> /\ call[s].pc = "lookup"
  BY SameTables DEF Lookup
<1>2. CASE Goto(s, "failed")
  BY <1>1, <1>2, FailMoves
<1>3. CASE Goto(s, "rolling") /\ ~NoneValid(s)
  <2>1. PICK w : w = [call[s] EXCEPT !.pc = "rolling"]
    OBVIOUS
  <2>2. /\ call' = [call EXCEPT ![s] = w] /\ Shaped(w) /\ w.pc = "rolling"
        /\ w.try = call[s].try /\ w.done = call[s].done
    BY <1>3, <2>1, NextCall
  <2>3. CallCounts(request, records', published', s, w)
    BY <1>1, <1>3, <2>2, CallFields DEF CallCounts, NoneValid, Steps
  <2> QED BY <1>1, <2>2, <2>3, CallMoves
<1>4. CASE \E r \in Holders(request[s].key) : call' = [call EXCEPT ![s] =
              [@ EXCEPT !.pc = "accepted", !.batch = r.batch, !.record = r.id]]
  <2>1. PICK r : call' = [call EXCEPT ![s] =
              [@ EXCEPT !.pc = "accepted", !.batch = r.batch, !.record = r.id]]
    BY <1>4
  <2>2. PICK w : w = [call[s] EXCEPT !.pc = "accepted", !.batch = r.batch, !.record = r.id]
    OBVIOUS
  <2>3. /\ call' = [call EXCEPT ![s] = w] /\ Shaped(w) /\ w.pc = "accepted"
        /\ w.try = call[s].try /\ w.done = call[s].done
    BY <2>1, <2>2, CallFields DEF Shaped, CountInv
  <2>4. CallCounts(request, records', published', s, w)
    BY <1>1, <2>3, CallFields DEF CallCounts, Steps
  <2> QED BY <1>1, <2>3, <2>4, CallMoves
<1> QED BY <1>2, <1>3, <1>4 DEF Lookup

LEMMA RollingCounts == ASSUME CountInv, NEW s \in Senders, RollingBatch(s) PROVE CountInv'
<1>1. Grows(s) /\ UNCHANGED <<records, published, request, batches>> /\ call[s].pc = "rolling"
  BY SameTables DEF RollingBatch
<1>2. PICK w : call' = [call EXCEPT ![s] = w] /\ Shaped(w) /\ w.pc \in {"create", "insert"}
               /\ w.try = call[s].try /\ w.done = call[s].done
  <2>1. CASE Goto(s, "create")
    <3>1. PICK w : w = [call[s] EXCEPT !.pc = "create"]
      OBVIOUS
    <3>2. call' = [call EXCEPT ![s] = w] /\ Shaped(w) /\ w.pc = "create"
          /\ w.try = call[s].try /\ w.done = call[s].done
      BY <2>1, <3>1, NextCall
    <3> QED BY <3>2
  <2>2. CASE call' = [call EXCEPT ![s] =
         [@ EXCEPT !.pc = "insert", !.batch = CHOOSE b \in Rolling : \A o \in Rolling : b <= o]]
    <3>1. PICK k : k = CHOOSE b \in Rolling : \A o \in Rolling : b <= o
      OBVIOUS
    <3>2. PICK w : w = [call[s] EXCEPT !.pc = "insert", !.batch = k]
      OBVIOUS
    <3>3. call' = [call EXCEPT ![s] = w] /\ Shaped(w) /\ w.pc = "insert"
          /\ w.try = call[s].try /\ w.done = call[s].done
      BY <2>2, <3>1, <3>2, CallFields DEF Shaped, CountInv
    <3> QED BY <3>3
  <2> QED BY <2>1, <2>2 DEF RollingBatch
<1>3. w.done = 0
  BY <1>1, <1>2, CallFields DEF CallCounts
<1>4. \A b : Cardinality(Mine(records', published', s, b)) \in Nat
  BY <1>1, MineFinite
<1>5. CallCounts(request, records', published', s, w)
  BY <1>1, <1>2, <1>3, <1>4, CallFields DEF CallCounts, Steps
<1> QED BY <1>1, <1>2, <1>5, CallMoves

-----------------------------------------------------------------------------
\* A step on the tables: it answers, or fails after it took effect.
LEMMA ThenMoves ==
  ASSUME CountInv, NEW s \in Senders, NEW w, Grows(s), Then(s, w), UNCHANGED batches,
         CallCounts(request, records', published', s, w),
         EventOf(request, s) /\ w.pc = "count" => w.record \notin published,
         \A id \in published' \ published : id[2] = call[s].try
  PROVE  CountInv'
<1>1. CASE call' = [call EXCEPT ![s] = w]
  BY <1>1, CallMoves
<1>2. CASE Goto(s, "failed")
  BY <1>2, FailMoves
<1> QED BY <1>1, <1>2 DEF Then

LEMMA InsertCounts == ASSUME CountInv, NEW s \in Senders, InsertRecord(s) PROVE CountInv'
<1>1. UNCHANGED <<published, batches, request>> /\ call[s].pc = "insert"
  BY DEF InsertRecord
<1>2. CASE Goto(s, "failed") /\ UNCHANGED records
  BY <1>1, <1>2, SameTables, FailMoves
<1>3. CASE /\ records' = records \union
               {[id |-> RowId(s), key |-> request[s].key, batch |-> call[s].batch]}
           /\ Then(s, [call[s] EXCEPT !.pc = "publish"])
  <2>1. PICK q : q = [id |-> RowId(s), key |-> request[s].key, batch |-> call[s].batch]
    OBVIOUS
  <2>2. PICK w : w = [call[s] EXCEPT !.pc = "publish"]
    OBVIOUS
  <2>3. /\ Shaped(w) /\ w.pc = "publish" /\ w.try = call[s].try
        /\ w.done = call[s].done /\ w.batch = call[s].batch
    BY <2>2, NextCall
  <2>4. q.id = <<s, w.try, w.done + 1>> /\ q.batch = w.batch
    BY <2>1, <2>3 DEF RowId
  <2>5. records' = records \union {q} /\ Then(s, w)
    BY <1>3, <2>1, <2>2
  <2>6. Grows(s) /\ published' \ published = {}
    <3>1. IsFiniteSet(records')
      BY <2>5, FS_AddElement DEF CountInv, Tables
    <3> QED BY <1>1, <2>5, <3>1 DEF Grows, CountInv, Tables
  <2>7. ~EventOf(request, s) => w.done <= Cardinality(Mine(records', published', s, w.batch))
    <3>1. Mine(records, published, s, w.batch) \subseteq Mine(records', published', s, w.batch)
      BY <2>6 DEF Mine, Grows
    <3>2. Cardinality(Mine(records, published, s, w.batch)) \in Nat
          /\ Cardinality(Mine(records', published', s, w.batch)) \in Nat
          /\ Cardinality(Mine(records, published, s, w.batch))
               <= Cardinality(Mine(records', published', s, w.batch))
      BY <2>6, <3>1, MineFinite, Larger
    <3>3. ~EventOf(request, s) => w.done <= Cardinality(Mine(records, published, s, w.batch))
      BY <1>1, <2>3, CallFields DEF CallCounts
    <3>4. w.done \in Nat
      BY <2>3, CallFields
    <3> QED BY <3>2, <3>3, <3>4
  <2>8. CallCounts(request, records', published', s, w)
    <3>1. \A id \in published' : id[1] = s =>
             id[2] <= w.try /\ (w.pc \in Steps /\ id[2] = w.try => id[3] <= w.done)
      BY <1>1, <2>3, CallFields DEF CallCounts, Steps
    <3>2. \E r \in records' : r.id = <<s, w.try, w.done + 1>> /\ r.batch = w.batch
      BY <2>4, <2>5
    <3>3. w.try \in Nat /\ w.done \in Nat
      BY <2>3, CallFields
    <3> QED BY <2>3, <2>7, <3>1, <3>2, <3>3 DEF CallCounts
  <2> QED BY <1>1, <2>3, <2>5, <2>6, <2>8, ThenMoves
<1> QED BY <1>2, <1>3 DEF InsertRecord

\* Of a number of its own, a record that a call publishes is published by nobody yet.
LEMMA PublishIsNew ==
  ASSUME CountInv, NEW s \in Senders, call[s].pc = "publish"
  PROVE  /\ RowId(s) \notin published
         /\ RowId(s)[1] = s /\ RowId(s)[2] = call[s].try /\ RowId(s)[3] = call[s].done + 1
<1>1. RowId(s)[1] = s /\ RowId(s)[2] = call[s].try /\ RowId(s)[3] = call[s].done + 1
  BY DEF RowId
<1>2. \A id \in published : id[1] = s /\ id[2] = call[s].try =>
         id[3] \in Nat /\ id[3] <= call[s].done
  BY CallFields DEF CallCounts, CountInv, Tables, Steps
<1>3. ~(call[s].done + 1 <= call[s].done)
  BY CallFields
<1> QED BY <1>1, <1>2, <1>3

LEMMA PublishCounts == ASSUME CountInv, NEW s \in Senders, Publish(s) PROVE CountInv'
<1>1. UNCHANGED <<records, batches, request>> /\ call[s].pc = "publish"
  BY DEF Publish
<1>2. PICK q : q = RowId(s)
  OBVIOUS
<1>3. PICK w : w = [call[s] EXCEPT !.done = @ + 1, !.record = RowId(s),
                !.pc = IF call[s].done + 1 < request[s].valid THEN "insert" ELSE "count"]
  OBVIOUS
<1>4. /\ Shaped(w) /\ w.pc \in {"insert", "count"} /\ w.try = call[s].try
      /\ w.done = call[s].done + 1 /\ w.batch = call[s].batch /\ w.record = q
  BY <1>2, <1>3, CallFields DEF Shaped
<1>5. published' = published \union {q} /\ Then(s, w)
  BY <1>2, <1>3 DEF Publish
<1>6. q \notin published /\ q[1] = s /\ q[2] = call[s].try /\ q[3] = call[s].done + 1
  BY <1>1, <1>2, PublishIsNew
<1>7. w.try \in Nat /\ w.done \in Nat
  BY <1>4, CallFields
<1>8. Grows(s) /\ \A id \in published' \ published : id[2] = call[s].try
  BY <1>1, <1>4, <1>5, <1>6, <1>7 DEF Grows, CountInv, Tables
<1>9. PICK r \in records : r.id = q /\ r.batch = w.batch
  BY <1>1, <1>2, <1>4, CallFields DEF CallCounts, RowId
<1>10. ~EventOf(request, s) => w.done <= Cardinality(Mine(records', published', s, w.batch))
  <2>1. PICK S : S = Mine(records, published, s, w.batch)
    OBVIOUS
  <2>2. PICK T : T = Mine(records', published', s, w.batch)
    OBVIOUS
  <2>3. S \subseteq T /\ r \in T /\ r \notin S
    BY <1>1, <1>5, <1>6, <1>9, <2>1, <2>2 DEF Mine
  <2>4. IsFiniteSet(T)
    BY <1>8, <2>2, MineFinite
  <2>5. Cardinality(S) \in Nat /\ Cardinality(T) \in Nat /\ Cardinality(S) + 1 <= Cardinality(T)
    BY <2>3, <2>4, OneLarger
  <2>6. ~EventOf(request, s) => call[s].done <= Cardinality(S)
    BY <1>1, <1>4, <2>1, CallFields DEF CallCounts
  <2>7. call[s].done \in Nat
    BY CallFields
  <2> QED BY <1>4, <2>2, <2>5, <2>6, <2>7
<1>11. \A id \in published' : id[1] = s =>
          id[2] <= w.try /\ (w.pc \in Steps /\ id[2] = w.try => id[3] <= w.done)
  <2>1. \A id \in published : id[1] = s =>
           id[2] <= call[s].try /\ (id[2] = call[s].try => id[3] \in Nat /\ id[3] <= call[s].done)
    BY <1>1, CallFields DEF CallCounts, CountInv, Tables, Steps
  <2>2. \A n \in Nat : n <= call[s].done => n <= w.done
    BY <1>4, CallFields
  <2>3. \A id \in published : id[1] = s =>
           id[2] <= w.try /\ (id[2] = w.try => id[3] <= w.done)
    BY <1>4, <2>1, <2>2
  <2>4. q[2] <= w.try /\ q[3] <= w.done
    BY <1>4, <1>6, <1>7
  <2> QED BY <1>5, <2>3, <2>4
<1>12. EventOf(request, s) /\ w.pc = "count" =>
         /\ w.record[1] = s /\ w.record \in published'
         /\ \E o \in records' : o.id = w.record /\ o.batch = w.batch
  BY <1>1, <1>4, <1>5, <1>6, <1>9
<1>13. CallCounts(request, records', published', s, w)
  BY <1>4, <1>7, <1>10, <1>11, <1>12 DEF CallCounts
<1> QED BY <1>1, <1>4, <1>5, <1>6, <1>8, <1>13, ThenMoves

LEMMA CountedFinite ==
  ASSUME NEW s \in Senders, Grows(s), NEW b
  PROVE  /\ IsFiniteSet(Counted(request, records', published', call', b))
         /\ Cardinality(Counted(request, records', published', call', b)) \in Nat
<1>1. Counted(request, records', published', call', b) \subseteq records' /\ IsFiniteSet(records')
  BY DEF Counted, Grows, Tables
<1> QED BY <1>1, FS_Subset, FS_CardinalityType

\* A step of s on the batches, whatever it is told of its outcome.
LEMMA BatchMoves ==
  ASSUME CountInv, NEW s \in Senders, NEW w, Grows(s), call' = [call EXCEPT ![s] = w],
         CallCounts(request, records', published', s, w),
         batches' \in BatchTable(request),
         Totals(request, batches', records', published', call')
  PROVE  CountInv'
<1>1. /\ DOMAIN call' = Senders
      /\ \A d \in Senders : CallCounts(request', records', published', d, call'[d])
      /\ Tables(records', published')
  BY CallsCount
<1>2. request' = request
  BY DEF Grows
<1>3. batches' \in BatchTable(request') /\ Totals(request', batches', records', published', call')
  BY <1>2
<1> QED BY <1>1, <1>3 DEF CountInv

LEMMA CreateCounts == ASSUME CountInv, NEW s \in Senders, CreateBatch(s) PROVE CountInv'
<1>1. Grows(s) /\ UNCHANGED <<records, published, request>> /\ call[s].pc = "create"
  BY SameTables DEF CreateBatch
<1>2. call[s].done = 0 /\ (EventOf(request, s) => ~NoneValid(s))
  BY <1>1, CallFields DEF CallCounts, NoneValid
<1>3. PICK w : /\ call' = [call EXCEPT ![s] = w] /\ Shaped(w)
               /\ w.pc \in {"insert", "count", "failed"}
               /\ EventOf(request, s) => w.pc # "count"
               /\ w.try = call[s].try /\ w.done = 0
  <2>1. CASE Goto(s, "failed")
    <3>1. PICK w : w = [call[s] EXCEPT !.pc = "failed"]
      OBVIOUS
    <3>2. call' = [call EXCEPT ![s] = w] /\ Shaped(w) /\ w.pc = "failed"
          /\ w.try = call[s].try /\ w.done = 0
      BY <1>2, <2>1, <3>1, NextCall
    <3> QED BY <3>2
  <2>2. CASE call' = [call EXCEPT ![s] =
               [call[s] EXCEPT !.batch = Len(batches) + 1,
                  !.pc = IF NoneValid(s) THEN "count" ELSE "insert"]]
    <3>1. PICK w : w = [call[s] EXCEPT !.batch = Len(batches) + 1,
                          !.pc = IF NoneValid(s) THEN "count" ELSE "insert"]
      OBVIOUS
    <3>2. call' = [call EXCEPT ![s] = w]
      BY <2>2, <3>1
    <3>3. /\ Shaped(w) /\ w.pc \in {"insert", "count"}
          /\ EventOf(request, s) => w.pc # "count"
          /\ w.try = call[s].try /\ w.done = 0
      BY <1>2, <3>1, CallFields DEF Shaped
    <3> QED BY <3>2, <3>3
  <2> QED BY <2>1, <2>2 DEF CreateBatch, Then
<1>4. CallCounts(request, records', published', s, w)
  <2>1. \A id \in published' : id[1] = s =>
           id[2] <= w.try /\ (w.pc \in Steps /\ id[2] = w.try => id[3] <= w.done)
    BY <1>1, <1>2, <1>3, CallFields DEF CallCounts, Steps
  <2>2. 0 <= Cardinality(Mine(records', published', s, w.batch))
    BY <1>1, MineFinite
  <2>3. w.try \in Nat /\ w.done \in Nat
    BY <1>3, CallFields
  <2> QED BY <1>3, <2>1, <2>2, <2>3 DEF CallCounts
<1>5. PICK k : k = [total |-> 0, source |-> IF IsEvent(s) THEN RollingSource ELSE request[s].source]
  OBVIOUS
<1>6. batches' = Append(batches, k) /\ k.total = 0
  BY <1>5 DEF CreateBatch
<1>7. PICK Row : Row = [total : Nat, source : {RollingSource} \union {request[d].source : d \in Senders}]
  OBVIOUS
<1>8. batches \in Seq(Row) /\ k \in Row
  BY <1>5, <1>7 DEF CountInv, BatchTable
<1>9. batches' \in Seq(Row)
  BY <1>6, <1>8
<1>10. /\ DOMAIN batches' = DOMAIN batches \union {Len(batches) + 1}
       /\ batches'[Len(batches) + 1] = k
       /\ \A b \in DOMAIN batches : batches'[b] = batches[b]
  BY <1>6, <1>8
<1>11. \A b \in DOMAIN batches :
          batches[b].total <= Cardinality(Counted(request, records', published', call', b))
  BY <1>1, <1>3, TotalsKept
<1>12. \A b : 0 <= Cardinality(Counted(request, records', published', call', b))
  BY <1>1, CountedFinite
<1>13. Totals(request, batches', records', published', call')
  BY <1>6, <1>10, <1>11, <1>12 DEF Totals
<1>14. batches' \in BatchTable(request)
  BY <1>7, <1>9 DEF BatchTable
<1> QED BY <1>1, <1>3, <1>4, <1>13, <1>14, BatchMoves

\* The count of an event adds the event to what is counted.
LEMMA EventCounted ==
  ASSUME CountInv, NEW s \in Senders, NEW w, Grows(s), UNCHANGED <<records, published>>,
         call' = [call EXCEPT ![s] = w], w.pc # "count",
         call[s].pc = "count", EventOf(request, s), call[s].batch \in DOMAIN batches
  PROVE  batches[call[s].batch].total + 1
           <= Cardinality(Counted(request, records', published', call', call[s].batch))
<1>1. PICK b : b = call[s].batch
  OBVIOUS
<1>2. PICK S : S = Counted(request, records, published, call, b)
  OBVIOUS
<1>3. PICK T : T = Counted(request, records', published', call', b)
  OBVIOUS
<1>4. S \subseteq T
  BY <1>2, <1>3, CountedGrows
<1>5. PICK r \in records : r.id = call[s].record /\ r.batch = b
  BY <1>1, CallFields DEF CallCounts
<1>6. r.id[1] = s /\ r.id \in published
  BY <1>5, CallFields DEF CallCounts
<1>7. r \notin S
  BY <1>2, <1>5 DEF Counted, Uncounted
<1>8. call'[s] = w /\ \A d \in Senders \ {s} : call'[d] = call[d]
  BY DEF CountInv
<1>9. \A d \in Senders : EventOf(request, d) /\ call'[d].pc = "count" => call'[d].record # r.id
  BY <1>6, <1>8, CallFields DEF CallCounts
<1>10. r \in T
  BY <1>3, <1>5, <1>6, <1>9 DEF Counted, Uncounted
<1>11. IsFiniteSet(T)
  BY <1>3, CountedFinite
<1>12. Cardinality(S) \in Nat /\ Cardinality(T) \in Nat /\ Cardinality(S) + 1 <= Cardinality(T)
  BY <1>4, <1>7, <1>10, <1>11, OneLarger
<1>13. batches[b].total \in Nat /\ batches[b].total <= Cardinality(S)
  BY <1>1, <1>2, BatchType DEF CountInv, Totals
<1>14. \A m, k, l \in Nat : m <= k /\ k + 1 <= l => m + 1 <= l
  OBVIOUS
<1> QED BY <1>1, <1>3, <1>12, <1>13, <1>14

\* The count of a submission sets what the submission itself has published.
LEMMA SubmissionCounted ==
  ASSUME CountInv, NEW s \in Senders, NEW w, Grows(s), UNCHANGED <<records, published>>,
         call' = [call EXCEPT ![s] = w], call[s].pc = "count", ~EventOf(request, s)
  PROVE  call[s].done
           <= Cardinality(Counted(request, records', published', call', call[s].batch))
<1>1. PICK b : b = call[s].batch
  OBVIOUS
<1>2. PICK S : S = Mine(records, published, s, b)
  OBVIOUS
<1>3. PICK T : T = Counted(request, records', published', call', b)
  OBVIOUS
<1>4. \A d \in Senders : EventOf(request, d) /\ call'[d].pc = "count" => call'[d].record[1] # s
  BY CallFields DEF CallCounts, CountInv
<1>5. S \subseteq T
  BY <1>2, <1>3, <1>4 DEF Mine, Counted, Uncounted
<1>6. IsFiniteSet(T)
  BY <1>3, CountedFinite
<1>7. Cardinality(S) \in Nat /\ Cardinality(T) \in Nat /\ Cardinality(S) <= Cardinality(T)
  BY <1>5, <1>6, Larger
<1>8. call[s].done \in Nat /\ call[s].done <= Cardinality(S)
  BY <1>1, <1>2, CallFields DEF CallCounts
<1> QED BY <1>1, <1>3, <1>7, <1>8

LEMMA CountCounts == ASSUME CountInv, NEW s \in Senders, Count(s) PROVE CountInv'
<1>1. Grows(s) /\ UNCHANGED <<records, published, request>> /\ call[s].pc = "count"
  BY SameTables DEF Count
<1>2. PICK w : /\ call' = [call EXCEPT ![s] = w] /\ Shaped(w)
               /\ w.pc \in {"accepted", "failed"}
               /\ w.try = call[s].try /\ w.done = call[s].done
  <2>1. PICK pc \in {"accepted", "failed"} : Goto(s, pc)
    BY DEF Count, Then, Goto, CountInv
  <2>2. PICK w : w = [call[s] EXCEPT !.pc = pc]
    OBVIOUS
  <2>3. call' = [call EXCEPT ![s] = w] /\ Shaped(w) /\ w.pc = pc
        /\ w.try = call[s].try /\ w.done = call[s].done
    BY <2>1, <2>2, NextCall
  <2> QED BY <2>1, <2>3
<1>3. CallCounts(request, records', published', s, w)
  BY <1>1, <1>2, CallFields DEF CallCounts, Steps
<1>4. PICK b : b = call[s].batch
  OBVIOUS
<1>5. PICK n : n = IF IsEvent(s) THEN batches[b].total + 1 ELSE call[s].done
  OBVIOUS
<1>6. batches' = [batches EXCEPT ![b].total = n]
  BY <1>4, <1>5 DEF Count
<1>7. b \in DOMAIN batches =>
        /\ n \in Nat
        /\ n <= Cardinality(Counted(request, records', published', call', b))
  <2>1. b \in DOMAIN batches /\ EventOf(request, s) =>
          batches[b].total + 1 <= Cardinality(Counted(request, records', published', call', b))
    BY <1>1, <1>2, <1>4, EventCounted
  <2>2. ~EventOf(request, s) =>
          call[s].done <= Cardinality(Counted(request, records', published', call', b))
    BY <1>1, <1>2, <1>4, SubmissionCounted
  <2>3. b \in DOMAIN batches => batches[b].total \in Nat
    BY BatchType DEF CountInv
  <2>4. IsEvent(s) <=> EventOf(request, s)
    BY DEF IsEvent, EventOf
  <2>5. call[s].done \in Nat
    BY CallFields
  <2> QED BY <1>5, <2>1, <2>2, <2>3, <2>4, <2>5
<1>8. PICK Row : Row = [total : Nat, source : {RollingSource} \union {request[d].source : d \in Senders}]
  OBVIOUS
<1>9. batches \in Seq(Row)
  BY <1>8 DEF CountInv, BatchTable
<1>10. /\ DOMAIN batches' = DOMAIN batches
       /\ \A a \in DOMAIN batches \ {b} : batches'[a] = batches[a]
       /\ b \in DOMAIN batches => batches'[b] = [batches[b] EXCEPT !.total = n]
  BY <1>6
<1>11. b \in DOMAIN batches => batches'[b] \in Row /\ batches'[b].total = n
  <2>1. b \in DOMAIN batches => batches[b] \in Row
    BY <1>9
  <2> QED BY <1>7, <1>8, <1>10, <2>1
<1>12. batches' \in Seq(Row)
  <2>1. batches \in [1..Len(batches) -> Row] /\ Len(batches) \in Nat
    BY <1>9
  <2>2. batches' = [a \in 1..Len(batches) |-> batches'[a]]
    BY <1>6, <2>1
  <2>3. \A a \in 1..Len(batches) : batches'[a] \in Row
    BY <1>10, <1>11, <2>1
  <2>4. batches' \in [1..Len(batches) -> Row]
    BY <2>2, <2>3
  <2> QED BY <2>1, <2>4
<1>13. \A a \in DOMAIN batches :
          batches[a].total <= Cardinality(Counted(request, records', published', call', a))
  BY <1>1, <1>2, TotalsKept
<1>14. Totals(request, batches', records', published', call')
  BY <1>7, <1>10, <1>11, <1>13 DEF Totals
<1>15. batches' \in BatchTable(request)
  BY <1>8, <1>12 DEF BatchTable
<1> QED BY <1>1, <1>2, <1>3, <1>14, <1>15, BatchMoves

-----------------------------------------------------------------------------
LEMMA CountStarts == IngestInit => CountInv
<1> SUFFICES ASSUME IngestInit PROVE CountInv
  OBVIOUS
<1>1. \A s \in Senders : CallCounts(request, records, published, s, call[s])
  BY DEF IngestInit, Idle, CallCounts, Shaped, Steps
<1>2. Tables(records, published)
  BY FS_EmptySet DEF IngestInit, Tables
<1>3. batches \in BatchTable(request) /\ DOMAIN batches = {}
  BY DEF IngestInit, BatchTable
<1> QED BY <1>1, <1>2, <1>3 DEF CountInv, Totals, IngestInit

LEMMA CountStep == CountInv /\ [IngestNext]_ingestVars => CountInv'
<1> SUFFICES ASSUME CountInv, [IngestNext]_ingestVars PROVE CountInv'
  OBVIOUS
<1>1. CASE UNCHANGED ingestVars
  BY <1>1 DEF ingestVars, CountInv
<1>2. ASSUME NEW s \in Senders, Fails(s) PROVE CountInv'
  <2>1. UNCHANGED <<records, published, batches, request>> /\ Goto(s, "failed")
    BY <1>2 DEF Fails
  <2> QED BY <2>1, SameTables, FailMoves
<1>3. ASSUME NEW s \in Senders, Serve(s) PROVE CountInv'
  BY <1>3, LookupCounts, RollingCounts, CreateCounts, InsertCounts, PublishCounts,
     CountCounts DEF Serve
<1> QED BY <1>1, <1>2, <1>3, ArriveCounts DEF IngestNext

LEMMA CountedAreOnTheirWay == CountInv => NeverOvercounted
<1> SUFFICES ASSUME CountInv, NEW b \in DOMAIN batches
             PROVE  batches[b].total <= Cardinality({r \in records : r.batch = b /\ r.id \in published})
  BY DEF NeverOvercounted
<1>1. PICK S : S = Counted(request, records, published, call, b)
  OBVIOUS
<1>2. PICK T : T = {r \in records : r.batch = b /\ r.id \in published}
  OBVIOUS
<1>3. S \subseteq T /\ T \subseteq records
  BY <1>1, <1>2 DEF Counted
<1>4. IsFiniteSet(T)
  BY <1>3, FS_Subset DEF CountInv, Tables
<1>5. Cardinality(S) \in Nat /\ Cardinality(T) \in Nat /\ Cardinality(S) <= Cardinality(T)
  BY <1>3, <1>4, Larger
<1>6. batches[b].total \in Nat /\ batches[b].total <= Cardinality(S)
  BY <1>1, BatchType DEF CountInv, Totals
<1> QED BY <1>2, <1>5, <1>6

\* However many records, senders, failures and repetitions there are, the total
\* of a batch (batch_repository.go) never exceeds its published records.
THEOREM TotalsAreOnTheirWay == IngestSpec => []NeverOvercounted
BY CountStarts, CountStep, CountedAreOnTheirWay, PTL DEF IngestSpec

-----------------------------------------------------------------------------
(***************************************************************************)
(* For any number and size of batches, any profiles and any restarts: a    *)
(* seed reproduces a run, and what is published is sealed.                 *)
(***************************************************************************)
\* The invariant.

Seeds == (Wanted \ {0}) \union {ClockSeed}
InProgress == {"record", "truth", "publish"}

SeedingTypes ==
  seeding \in [Batches -> [seed : Seeds \union {0}, next : Nat,
                           step : InProgress \union {"not called", "done", "failed"}]]

\* The seed of the batch a record belongs to, and what is drawn for the record.
BatchSeed(r)     == seeding[r[1]].seed
ProfileDraw(r)   == <<"generate", BatchSeed(r), Scenario[r[1]], r[2]>>
RollDraw(a)      == <<"roll", a.under, a.record[2], a.attempt>>
Outcome(roll, action, kind) ==
  IF Recovers(roll, action, kind) THEN "SUCCESS" ELSE "FAILURE"

\* A call works on one record at a time: row, profile, event.
CallInOrder(b) ==
  /\ seeding[b].step = "not called" <=> seeding[b].seed = 0
  /\ seeding[b].step \in InProgress => seeding[b].next \in Ordinals
  /\ seeding[b].step \in {"truth", "publish"} => <<b, seeding[b].next>> \in synthetic
  /\ seeding[b].step = "publish" => <<b, seeding[b].next>> \in DOMAIN truths
InOrder == \A b \in Batches : CallInOrder(b)

\* A profile is what the oracle says of the batch's seed and the record's place.
TruthsAreDrawn ==
  \A r \in DOMAIN truths :
     /\ r \in Seeded /\ BatchSeed(r) # 0 /\ truths[r].rollKey = r[2]
     /\ ProfileDraw(r) \in DOMAIN oracle /\ truths[r].kind = oracle[ProfileDraw(r)]

\* And so is an answer under a seed, from that profile.
AnswersAreDrawn ==
  \A a \in answers :
     /\ a.record \in rawEvents \union Webhooks
     /\ a.record \notin Webhooks /\ a.under # 0 =>
          /\ RollDraw(a) \in DOMAIN oracle
          /\ a.outcome = Outcome(oracle[RollDraw(a)], a.action, oracle[ProfileDraw(a.record)])

WorldInv ==
  SeedingTypes /\ InOrder /\ PublishedAreSealed /\ TruthsAreDrawn /\ AnswersAreDrawn

-----------------------------------------------------------------------------
\* An oracle never takes back what it has said.
Remembers ==
  \A q \in DOMAIN oracle : q \in DOMAIN oracle' /\ oracle'[q] = oracle[q]

LEMMA DrawnFacts ==
  ASSUME NEW q, NEW S, NEW v, Drawn(q, S, v)
  PROVE  Remembers /\ q \in DOMAIN oracle' /\ oracle'[q] = v
BY DEF Drawn, Remembers

\* What was published and drawn before stays so.
LEMMA AnswersKept ==
  ASSUME WorldInv, Remembers, rawEvents \subseteq rawEvents', UNCHANGED answers,
         \A r \in DOMAIN truths : BatchSeed(r)' = BatchSeed(r)
  PROVE  AnswersAreDrawn'
<1> SUFFICES ASSUME NEW a \in answers
             PROVE  /\ a.record \in rawEvents' \union Webhooks
                    /\ a.record \notin Webhooks /\ a.under # 0 =>
                         /\ RollDraw(a) \in DOMAIN oracle'
                         /\ a.outcome = Outcome(oracle'[RollDraw(a)], a.action,
                                                oracle'[ProfileDraw(a.record)'])
  BY DEF AnswersAreDrawn, RollDraw, Outcome, Recovers
<1>1. a.record \in rawEvents' \union Webhooks
  BY DEF WorldInv, AnswersAreDrawn
<1> SUFFICES ASSUME a.record \notin Webhooks, a.under # 0
             PROVE  /\ RollDraw(a) \in DOMAIN oracle'
                    /\ a.outcome = Outcome(oracle'[RollDraw(a)], a.action,
                                           oracle'[ProfileDraw(a.record)'])
  BY <1>1
<1>2. /\ a.record \in rawEvents /\ RollDraw(a) \in DOMAIN oracle
      /\ a.outcome = Outcome(oracle[RollDraw(a)], a.action, oracle[ProfileDraw(a.record)])
  BY DEF WorldInv, AnswersAreDrawn
<1>3. a.record \in DOMAIN truths
  BY <1>2 DEF WorldInv, PublishedAreSealed
<1>4. ProfileDraw(a.record) \in DOMAIN oracle /\ ProfileDraw(a.record)' = ProfileDraw(a.record)
  BY <1>3 DEF WorldInv, TruthsAreDrawn, ProfileDraw
<1>5. oracle'[RollDraw(a)] = oracle[RollDraw(a)] /\ RollDraw(a) \in DOMAIN oracle'
      /\ oracle'[ProfileDraw(a.record)'] = oracle[ProfileDraw(a.record)]
  BY <1>2, <1>4 DEF Remembers
<1>6. QED BY <1>2, <1>5

\* A step that leaves the truths alone, and the seeds of the batches they
\* belong to.
LEMMA TruthsKept ==
  ASSUME WorldInv, Remembers, UNCHANGED truths,
         \A r \in DOMAIN truths : BatchSeed(r)' = BatchSeed(r)
  PROVE  TruthsAreDrawn'
<1> SUFFICES ASSUME NEW r \in DOMAIN truths
             PROVE  /\ r \in Seeded /\ BatchSeed(r)' # 0 /\ truths[r].rollKey = r[2]
                    /\ ProfileDraw(r)' \in DOMAIN oracle'
                    /\ truths[r].kind = oracle'[ProfileDraw(r)']
  BY DEF TruthsAreDrawn
<1>1. /\ r \in Seeded /\ BatchSeed(r) # 0 /\ truths[r].rollKey = r[2]
      /\ ProfileDraw(r) \in DOMAIN oracle /\ truths[r].kind = oracle[ProfileDraw(r)]
  BY DEF WorldInv, TruthsAreDrawn
<1>2. ProfileDraw(r)' = ProfileDraw(r) /\ BatchSeed(r)' = BatchSeed(r)
  BY DEF ProfileDraw
<1>3. QED BY <1>1, <1>2 DEF Remembers

LEMMA SameOracle == UNCHANGED oracle => Remembers
BY DEF Remembers

LEMMA WorldStarts == WorldInit => WorldInv
<1> SUFFICES ASSUME WorldInit PROVE WorldInv
  OBVIOUS
<1>1. seeding = [b \in Batches |-> [seed |-> 0, next |-> 0, step |-> "not called"]]
      /\ rawEvents = {} /\ answers = {} /\ truths = << >>
  BY DEF WorldInit
<1>2. DOMAIN truths = {}
  <2>1. DOMAIN << >> = {}
    OBVIOUS
  <2>2. QED BY <1>1, <2>1
<1>3. SeedingTypes /\ InOrder
  BY <1>1 DEF SeedingTypes, InOrder, CallInOrder, InProgress
<1>4. QED BY <1>1, <1>2, <1>3 DEF WorldInv, PublishedAreSealed, TruthsAreDrawn, AnswersAreDrawn

-----------------------------------------------------------------------------
\* The steps of SeedBatch.

LEMMA SeedKeeps ==
  ASSUME WorldAssumption, WorldInv, NEW b \in Batches, SeedBatch(b) PROVE WorldInv'
<1>1. PICK s \in Seeds :
        seeding' = [seeding EXCEPT ![b] = [seed |-> s, next |-> 0, step |-> "record"]]
  BY DEF SeedBatch, Seeds
<1>2. s # 0 /\ 0 \in Ordinals
  BY DEF Seeds, WorldAssumption, Ordinals
<1>3. seeding[b].step = "not called" /\ UNCHANGED <<oracle, truths, synthetic, rawEvents, answers>>
  BY DEF SeedBatch
<1>4. /\ seeding'[b] = [seed |-> s, next |-> 0, step |-> "record"]
      /\ \A c \in Batches : c # b => seeding'[c] = seeding[c]
  BY <1>1 DEF WorldInv, SeedingTypes
<1>5. SeedingTypes'
  BY <1>1 DEF WorldInv, SeedingTypes, InProgress
<1>6. InOrder'
  <2>1. CallInOrder(b)'
    BY <1>2, <1>4 DEF CallInOrder, InProgress, Ordinals
  <2>2. ASSUME NEW c \in Batches, c # b PROVE CallInOrder(c)'
    BY <1>3, <1>4, <2>2 DEF WorldInv, InOrder, CallInOrder, Ordinals
  <2>3. QED BY <2>1, <2>2 DEF InOrder
<1>7. \A r \in DOMAIN truths : r[1] \in Batches /\ r[1] # b
  BY <1>3 DEF WorldInv, InOrder, CallInOrder, TruthsAreDrawn, BatchSeed, Seeded
<1>8. \A r \in DOMAIN truths : BatchSeed(r)' = BatchSeed(r)
  BY <1>4, <1>7 DEF BatchSeed
<1>9. TruthsAreDrawn' /\ AnswersAreDrawn'
  BY <1>3, <1>8, SameOracle, TruthsKept, AnswersKept
<1>10. QED BY <1>3, <1>5, <1>6, <1>9 DEF WorldInv, PublishedAreSealed

\* Later steps of a call keep its seed.
LEMMA SeedsKept ==
  ASSUME WorldInv, \A c \in Batches : seeding'[c].seed = seeding[c].seed
  PROVE  /\ \A r \in DOMAIN truths : BatchSeed(r)' = BatchSeed(r)
         /\ \A r \in Seeded : BatchSeed(r)' = BatchSeed(r)
BY DEF WorldInv, TruthsAreDrawn, BatchSeed, Seeded

LEMMA RecordKeeps ==
  ASSUME WorldInv, NEW b \in Batches, InsertSeedRecord(b) PROVE WorldInv'
<1>1. /\ seeding[b].step = "record" /\ seeding' = [seeding EXCEPT ![b].step = "truth"]
      /\ synthetic' = synthetic \union {<<b, seeding[b].next>>}
      /\ UNCHANGED <<oracle, truths, rawEvents, answers>>
  BY DEF InsertSeedRecord
<1>2. /\ seeding'[b] = [seeding[b] EXCEPT !.step = "truth"]
      /\ \A c \in Batches : c # b => seeding'[c] = seeding[c]
      /\ \A c \in Batches : seeding'[c].seed = seeding[c].seed
  BY <1>1 DEF WorldInv, SeedingTypes
<1>3. SeedingTypes' /\ InOrder'
  BY <1>1, <1>2 DEF WorldInv, SeedingTypes, InOrder, CallInOrder, InProgress, Ordinals
<1>4. TruthsAreDrawn' /\ AnswersAreDrawn'
  BY <1>1, <1>2, SeedsKept, SameOracle, TruthsKept, AnswersKept
<1>5. QED BY <1>1, <1>3, <1>4 DEF WorldInv, PublishedAreSealed

LEMMA TruthKeeps ==
  ASSUME WorldInv, NEW b \in Batches, InsertGroundTruth(b) PROVE WorldInv'
<1> DEFINE new == <<b, seeding[b].next>>
<1>1. PICK kind \in Kinds :
        /\ Generated(b, kind)
        /\ truths' = [r \in DOMAIN truths \union {new} |->
                        IF r = new THEN [kind |-> kind, rollKey |-> seeding[b].next]
                        ELSE truths[r]]
  BY DEF InsertGroundTruth
<1>2. /\ seeding[b].step = "truth" /\ seeding' = [seeding EXCEPT ![b].step = "publish"]
      /\ UNCHANGED <<synthetic, rawEvents, answers>>
  BY DEF InsertGroundTruth
<1>3. /\ seeding'[b] = [seeding[b] EXCEPT !.step = "publish"]
      /\ \A c \in Batches : c # b => seeding'[c] = seeding[c]
      /\ \A c \in Batches : seeding'[c].seed = seeding[c].seed
  BY <1>2 DEF WorldInv, SeedingTypes
<1>4. /\ Remembers
      /\ <<"generate", seeding[b].seed, Scenario[b], seeding[b].next>> \in DOMAIN oracle'
      /\ oracle'[<<"generate", seeding[b].seed, Scenario[b], seeding[b].next>>] = kind
  BY <1>1, DrawnFacts DEF Generated, ProfileQuestion
<1>5. new \in Seeded /\ seeding[b].seed # 0
  BY <1>2 DEF WorldInv, InOrder, CallInOrder, InProgress, Seeded
<1>6. SeedingTypes' /\ InOrder'
  BY <1>1, <1>2, <1>3 DEF WorldInv, SeedingTypes, InOrder, CallInOrder, InProgress, Ordinals
<1>7. ASSUME NEW r \in DOMAIN truths'
      PROVE  /\ r \in Seeded /\ BatchSeed(r)' # 0 /\ truths'[r].rollKey = r[2]
             /\ ProfileDraw(r)' \in DOMAIN oracle'
             /\ truths'[r].kind = oracle'[ProfileDraw(r)']
  <2>1. CASE r = new
    <3>1. BatchSeed(r)' = seeding[b].seed /\ r[1] = b /\ r[2] = seeding[b].next
      BY <1>3, <2>1 DEF BatchSeed
    <3>2. truths'[r] = [kind |-> kind, rollKey |-> seeding[b].next]
      BY <1>1, <2>1
    <3>3. QED BY <1>4, <1>5, <2>1, <3>1, <3>2 DEF ProfileDraw
  <2>2. CASE r # new
    <3>1. r \in DOMAIN truths /\ truths'[r] = truths[r]
      BY <1>1, <2>2
    <3>2. /\ r \in Seeded /\ BatchSeed(r) # 0 /\ truths[r].rollKey = r[2]
          /\ ProfileDraw(r) \in DOMAIN oracle /\ truths[r].kind = oracle[ProfileDraw(r)]
      BY <3>1 DEF WorldInv, TruthsAreDrawn
    <3>3. BatchSeed(r)' = BatchSeed(r)
      BY <1>3, <3>1, SeedsKept
    <3>4. QED BY <1>4, <3>1, <3>2, <3>3 DEF ProfileDraw, Remembers
  <2>3. QED BY <2>1, <2>2
<1>8. TruthsAreDrawn'
  BY <1>7 DEF TruthsAreDrawn
<1>9. AnswersAreDrawn'
  BY <1>2, <1>3, <1>4, SeedsKept, AnswersKept
<1>10. DOMAIN truths \subseteq DOMAIN truths'
  BY <1>1
<1>11. PublishedAreSealed'
  BY <1>2, <1>10 DEF WorldInv, PublishedAreSealed
<1>12. QED BY <1>6, <1>8, <1>9, <1>11 DEF WorldInv

\* What a call in progress is.
LEMMA SeedingIsTyped ==
  ASSUME WorldInv, NEW b \in Batches
  PROVE  seeding[b] \in [seed : Seeds \union {0}, next : Nat,
                         step : InProgress \union {"not called", "done", "failed"}]
BY DEF WorldInv, SeedingTypes

LEMMA AnnounceKeeps ==
  ASSUME WorldAssumption, WorldInv, NEW b \in Batches, PublishSeeded(b) PROVE WorldInv'
<1> DEFINE moved == [seed |-> seeding[b].seed, next |-> seeding[b].next + 1,
                     step |-> IF seeding[b].next + 1 = PerBatch THEN "done" ELSE "record"]
<1>1. /\ seeding[b].step = "publish" /\ rawEvents' = rawEvents \union {<<b, seeding[b].next>>}
      /\ UNCHANGED <<oracle, truths, synthetic, answers>>
  BY DEF PublishSeeded
<1>2. seeding' = [seeding EXCEPT ![b] = moved]
  BY DEF PublishSeeded
<1>3. /\ seeding'[b] = moved
      /\ \A c \in Batches : c # b => seeding'[c] = seeding[c]
      /\ \A c \in Batches : seeding'[c].seed = seeding[c].seed
  BY <1>2 DEF WorldInv, SeedingTypes
<1>4. SeedingTypes'
  <2>1. seeding[b].next \in Nat
    BY SeedingIsTyped
  <2>2. seeding[b].next + 1 \in Nat
    BY <2>1
  <2>3. moved \in [seed : Seeds \union {0}, next : Nat,
                  step : InProgress \union {"not called", "done", "failed"}]
    BY SeedingIsTyped, <2>2 DEF InProgress
  <2>4. QED BY <1>2, <2>3 DEF WorldInv, SeedingTypes
<1>5. PerBatch \in Nat /\ seeding[b].next \in Ordinals /\ seeding[b].seed # 0
  BY <1>1 DEF WorldAssumption, WorldInv, InOrder, CallInOrder, InProgress
<1>6. InOrder'
  <2>1. seeding[b].next + 1 # PerBatch => seeding[b].next + 1 \in Ordinals
    BY <1>5 DEF Ordinals
  <2>2. CallInOrder(b)'
    BY <1>3, <1>5, <2>1 DEF CallInOrder, InProgress, Ordinals
  <2>3. ASSUME NEW c \in Batches, c # b PROVE CallInOrder(c)'
    BY <1>1, <1>3, <2>3 DEF WorldInv, InOrder, CallInOrder, Ordinals
  <2>4. QED BY <2>2, <2>3 DEF InOrder
<1>7. TruthsAreDrawn' /\ AnswersAreDrawn'
  BY <1>1, <1>3, SeedsKept, SameOracle, TruthsKept, AnswersKept
<1>8. PublishedAreSealed'
  BY <1>1 DEF WorldInv, InOrder, CallInOrder, PublishedAreSealed
<1>9. QED BY <1>4, <1>6, <1>7, <1>8 DEF WorldInv

LEMMA FailureKeeps ==
  ASSUME WorldInv, NEW b \in Batches, SeedBatchFails(b) PROVE WorldInv'
<1>1. /\ seeding[b].step \in InProgress /\ seeding' = [seeding EXCEPT ![b].step = "failed"]
      /\ UNCHANGED <<oracle, truths, synthetic, answers>>
  BY DEF SeedBatchFails, InProgress
<1>2. /\ rawEvents \subseteq rawEvents'
      /\ \A r \in rawEvents' : r \in rawEvents \/ (seeding[b].step = "publish"
                                                   /\ r = <<b, seeding[b].next>>)
  BY DEF SeedBatchFails
<1>3. /\ seeding'[b] = [seeding[b] EXCEPT !.step = "failed"]
      /\ \A c \in Batches : c # b => seeding'[c] = seeding[c]
      /\ \A c \in Batches : seeding'[c].seed = seeding[c].seed
  BY <1>1 DEF WorldInv, SeedingTypes
<1>4. SeedingTypes' /\ InOrder'
  BY <1>1, <1>3 DEF WorldInv, SeedingTypes, InOrder, CallInOrder, InProgress, Ordinals
<1>5. TruthsAreDrawn' /\ AnswersAreDrawn'
  BY <1>1, <1>2, <1>3, SeedsKept, SameOracle, TruthsKept, AnswersKept
<1>6. PublishedAreSealed'
  BY <1>1, <1>2 DEF WorldInv, InOrder, CallInOrder, PublishedAreSealed
<1>7. QED BY <1>4, <1>5, <1>6 DEF WorldInv

\* An answer is rolled.
LEMMA SimulateKeeps ==
  ASSUME WorldInv, NEW r, NEW n, NEW action, SimulateOutcome(r, n, action) PROVE WorldInv'
<1>1. /\ r \in rawEvents \union Webhooks
      /\ UNCHANGED <<seed, seeding, truths, synthetic, rawEvents>>
  BY DEF SimulateOutcome
<1>2. PICK roll \in Rolls :
        /\ IF seed = 0 THEN UNCHANGED oracle ELSE Drawn(<<"roll", seed, RollKey(r), n>>, Rolls, roll)
        /\ answers' = answers \union
             {[record |-> r, attempt |-> n, action |-> action, under |-> seed,
               outcome |-> Outcome(roll, action, ProfileOf(r)),
               later |-> action # "RETRY" /\ ProfileOf(r).delayed]}
  BY DEF SimulateOutcome, Outcome
<1> DEFINE told == [record |-> r, attempt |-> n, action |-> action, under |-> seed,
                    outcome |-> Outcome(roll, action, ProfileOf(r)),
                    later |-> action # "RETRY" /\ ProfileOf(r).delayed]
<1>3. Remembers
  BY <1>2, DrawnFacts, SameOracle
<1>4. \A x : BatchSeed(x)' = BatchSeed(x) /\ ProfileDraw(x)' = ProfileDraw(x)
  BY <1>1 DEF BatchSeed, ProfileDraw
<1>5. TruthsAreDrawn'
  BY <1>1, <1>3, <1>4, TruthsKept
<1>6. ASSUME NEW a \in answers
      PROVE  /\ a.record \in rawEvents' \union Webhooks
             /\ a.record \notin Webhooks /\ a.under # 0 =>
                  /\ RollDraw(a) \in DOMAIN oracle'
                  /\ a.outcome = Outcome(oracle'[RollDraw(a)], a.action,
                                         oracle'[ProfileDraw(a.record)])
  <2>1. /\ a.record \in rawEvents \union Webhooks
        /\ a.record \notin Webhooks /\ a.under # 0 =>
             /\ RollDraw(a) \in DOMAIN oracle
             /\ a.outcome = Outcome(oracle[RollDraw(a)], a.action, oracle[ProfileDraw(a.record)])
    BY DEF WorldInv, AnswersAreDrawn
  <2>2. a.record \notin Webhooks => ProfileDraw(a.record) \in DOMAIN oracle
    BY <2>1 DEF WorldInv, PublishedAreSealed, TruthsAreDrawn
  <2>3. QED BY <1>1, <1>3, <2>1, <2>2 DEF Remembers
<1>7. /\ told.record \in rawEvents' \union Webhooks
      /\ told.record \notin Webhooks /\ told.under # 0 =>
           /\ RollDraw(told) \in DOMAIN oracle'
           /\ told.outcome = Outcome(oracle'[RollDraw(told)], told.action,
                                     oracle'[ProfileDraw(told.record)])
  <2> SUFFICES ASSUME r \notin Webhooks, seed # 0
               PROVE  /\ RollDraw(told) \in DOMAIN oracle'
                      /\ told.outcome = Outcome(oracle'[RollDraw(told)], told.action,
                                                oracle'[ProfileDraw(told.record)])
    BY <1>1
  <2>1. r \in DOMAIN truths
    BY <1>1 DEF WorldInv, PublishedAreSealed
  <2>2. /\ truths[r].rollKey = r[2] /\ ProfileDraw(r) \in DOMAIN oracle
        /\ truths[r].kind = oracle[ProfileDraw(r)]
    BY <2>1 DEF WorldInv, TruthsAreDrawn
  <2>3. RollKey(r) = r[2] /\ ProfileOf(r) = oracle'[ProfileDraw(r)]
    BY <1>3, <2>1, <2>2 DEF RollKey, ProfileOf, Remembers
  <2>4. RollDraw(told) = <<"roll", seed, RollKey(r), n>>
    BY <2>3 DEF RollDraw
  <2>5. RollDraw(told) \in DOMAIN oracle' /\ oracle'[RollDraw(told)] = roll
    BY <1>2, <2>4, DrawnFacts
  <2>6. QED BY <2>3, <2>5
<1>8. AnswersAreDrawn'
  <2> SUFFICES ASSUME NEW a \in answers'
               PROVE  /\ a.record \in rawEvents' \union Webhooks
                      /\ a.record \notin Webhooks /\ a.under # 0 =>
                           /\ RollDraw(a) \in DOMAIN oracle'
                           /\ a.outcome = Outcome(oracle'[RollDraw(a)], a.action,
                                                  oracle'[ProfileDraw(a.record)'])
    BY DEF AnswersAreDrawn, RollDraw, Outcome, Recovers
  <2>1. a \in answers \/ a = told
    BY <1>2
  <2> HIDE DEF told
  <2>2. QED BY <1>4, <1>6, <1>7, <2>1
<1>9. SeedingTypes' /\ InOrder' /\ PublishedAreSealed'
  BY <1>1 DEF WorldInv, SeedingTypes, InOrder, CallInOrder, PublishedAreSealed
<1>10. QED BY <1>5, <1>8, <1>9 DEF WorldInv

LEMMA RestartKeeps ==
  ASSUME WorldInv, WorldRestart PROVE WorldInv'
<1>1. /\ seeding' = [b \in Batches |->
           IF seeding[b].step \in {"not called", "done", "failed"} THEN seeding[b]
           ELSE [seeding[b] EXCEPT !.step = "failed"]]
      /\ UNCHANGED <<oracle, truths, synthetic, rawEvents, answers>>
  BY DEF WorldRestart
<1>2. \A c \in Batches : seeding'[c].seed = seeding[c].seed
  BY <1>1 DEF WorldInv, SeedingTypes
<1>3. SeedingTypes' /\ InOrder'
  BY <1>1 DEF WorldInv, SeedingTypes, InOrder, CallInOrder, InProgress
<1>4. TruthsAreDrawn' /\ AnswersAreDrawn'
  BY <1>1, <1>2, SeedsKept, SameOracle, TruthsKept, AnswersKept
<1>5. QED BY <1>1, <1>3, <1>4 DEF WorldInv, PublishedAreSealed

-----------------------------------------------------------------------------
LEMMA WorldStep == WorldAssumption /\ WorldInv /\ [WorldNext]_worldVars => WorldInv'
<1> SUFFICES ASSUME WorldAssumption, WorldInv, [WorldNext]_worldVars PROVE WorldInv'
  OBVIOUS
<1>1. ASSUME NEW b \in Batches, SeedBatch(b) PROVE WorldInv'
  BY <1>1, SeedKeeps
<1>2. ASSUME NEW b \in Batches, InsertSeedRecord(b) PROVE WorldInv'
  BY <1>2, RecordKeeps
<1>3. ASSUME NEW b \in Batches, InsertGroundTruth(b) PROVE WorldInv'
  BY <1>3, TruthKeeps
<1>4. ASSUME NEW b \in Batches, PublishSeeded(b) PROVE WorldInv'
  BY <1>4, AnnounceKeeps
<1>5. ASSUME NEW b \in Batches, SeedBatchFails(b) PROVE WorldInv'
  BY <1>5, FailureKeeps
<1>6. ASSUME NEW r, NEW n, NEW a, SimulateOutcome(r, n, a) PROVE WorldInv'
  BY <1>6, SimulateKeeps
<1>7. CASE WorldRestart
  BY <1>7, RestartKeeps
<1>8. CASE UNCHANGED worldVars
  BY <1>8 DEF worldVars, WorldInv, SeedingTypes, InOrder, CallInOrder, PublishedAreSealed,
              TruthsAreDrawn, AnswersAreDrawn, BatchSeed, ProfileDraw, RollDraw, Outcome
<1>9. QED BY <1>1, <1>2, <1>3, <1>4, <1>5, <1>6, <1>7, <1>8 DEF WorldNext

\* Two answers drawn alike are alike.
LEMMA DrawnAlike == WorldInv => SameSeedSameRun
<1> SUFFICES ASSUME WorldInv, NEW a \in answers, NEW b \in answers,
                    a.record \notin Webhooks, b.record \notin Webhooks,
                    a.record[2] = b.record[2], a.attempt = b.attempt, a.action = b.action,
                    BatchSeed(a.record) = BatchSeed(b.record),
                    Scenario[a.record[1]] = Scenario[b.record[1]],
                    a.under = BatchSeed(a.record), b.under = BatchSeed(b.record)
             PROVE  a.outcome = b.outcome
  BY DEF SameSeedSameRun, BatchSeed
<1>1. BatchSeed(a.record) # 0
  BY DEF WorldInv, AnswersAreDrawn, PublishedAreSealed, TruthsAreDrawn
<1>2. RollDraw(a) = RollDraw(b) /\ ProfileDraw(a.record) = ProfileDraw(b.record)
  BY DEF RollDraw, ProfileDraw
<1>3. /\ a.outcome = Outcome(oracle[RollDraw(a)], a.action, oracle[ProfileDraw(a.record)])
      /\ b.outcome = Outcome(oracle[RollDraw(b)], b.action, oracle[ProfileDraw(b.record)])
  BY <1>1 DEF WorldInv, AnswersAreDrawn
<1>4. QED BY <1>2, <1>3

LEMMA WorldAlways == WorldSpec => []WorldInv
<1>1. WorldInit => WorldInv
  BY WorldStarts
<1>2. WorldInv /\ [WorldNext]_worldVars => WorldInv'
  BY WorldStep, WorldAssumption
<1>3. QED BY <1>1, <1>2, PTL DEF WorldSpec

\* A run is reproduced by its seed, whatever is asked in which order: rolls are
\* keyed by a record's place in its batch, not by its id.
THEOREM SeedReproduces == WorldSpec => []SameSeedSameRun
BY WorldAlways, DrawnAlike, PTL

\* SeedBatch publishes a payment only after its row and its profile are in.
THEOREM SealedBeforePublished == WorldSpec => []PublishedAreSealed
<1>1. WorldInv => PublishedAreSealed
  BY DEF WorldInv
<1>2. QED BY <1>1, WorldAlways, PTL

-----------------------------------------------------------------------------
(***************************************************************************)
(* For all payments, thresholds, sampling rates, lengths, and whatever     *)
(* models write: held payments stay with humans, answers and messages are  *)
(* usable, and budgets hold.                                               *)
(***************************************************************************)
\* What the rules answer.

HeldCodes == Indeterminate \union CodesOf.RISK_HOLD

\* The code tables are disjoint where it matters: a held code is in no other
\* bucket.
LEMMA HeldCodesAreApart ==
  ASSUME NEW code \in HeldCodes
  PROVE  BucketsForCode(code) = {"RISK_HOLD"}
<1>1. code \notin CodesOf.TRANSIENT_BANK
  BY DEF HeldCodes, Indeterminate, CodesOf
<1>2. code \notin CodesOf.INSUFFICIENT_FUNDS /\ code \notin CodesOf.ABANDONMENT
  BY DEF HeldCodes, Indeterminate, CodesOf
<1>3. code \notin CodesOf.HARD_DECLINE
  BY DEF HeldCodes, Indeterminate, CodesOf
<1>4. code \notin CodesOf.USER_ACTION_NEEDED /\ code \notin CodesOf.OVERDUE
  BY DEF HeldCodes, Indeterminate, CodesOf
<1>5. DOMAIN CodesOf = {"TRANSIENT_BANK", "INSUFFICIENT_FUNDS", "HARD_DECLINE", "RISK_HOLD",
                        "USER_ACTION_NEEDED", "ABANDONMENT", "OVERDUE"}
  BY DEF CodesOf
<1>6. \A b \in DOMAIN CodesOf : b # "RISK_HOLD" => code \notin CodesOf[b]
  BY <1>1, <1>2, <1>3, <1>4, <1>5
<1>7. code \in CodesOf["RISK_HOLD"] \/ code \in Indeterminate
  BY DEF HeldCodes
<1>8. QED BY <1>5, <1>6, <1>7 DEF BucketsForCode

\* Whatever a payment looks like, the rules name a bucket they have.
LEMMA RulesBucketIsKnown ==
  ASSUME NEW p
  PROVE  RulesBucket(p) \in DiagnosisBuckets
<1> DEFINE Found == IF BucketsForCode(p.code) # {} THEN BucketsForCode(p.code)
                    ELSE BucketsForTaxonomy(p.source, p.step)
<1>1. "RISK_HOLD" \in DOMAIN CodesOf /\ "USER_ACTION_NEEDED" \in DOMAIN CodesOf
      /\ "TRANSIENT_BANK" \in DOMAIN CodesOf /\ "ABANDONMENT" \in DOMAIN CodesOf
      /\ "OVERDUE" \in DOMAIN CodesOf
  BY DEF CodesOf
<1>2. BucketsForCode(p.code) \subseteq DOMAIN CodesOf
  BY <1>1 DEF BucketsForCode
<1>3. BucketsForTaxonomy(p.source, p.step) \subseteq DOMAIN CodesOf
  BY <1>1 DEF BucketsForTaxonomy
<1>4. Found \subseteq DOMAIN CodesOf
  BY <1>2, <1>3
<1>5. FallbackBucket(p.type) \in DiagnosisBuckets
  BY <1>1 DEF FallbackBucket, DiagnosisBuckets
<1>6. RulesBucket(p) = IF Found # {} THEN CHOOSE b \in Found : TRUE ELSE FallbackBucket(p.type)
  BY DEF RulesBucket
<1>7. QED BY <1>4, <1>5, <1>6 DEF DiagnosisBuckets

LEMMA HeldBucket ==
  ASSUME NEW p, p.code \in HeldCodes
  PROVE  RulesBucket(p) = "RISK_HOLD"
BY HeldCodesAreApart DEF RulesBucket

\* The rules' answer is usable; a held payment's leaves no doubt to settle.
Usable(a) ==
  /\ a.bucket \in DiagnosisBuckets /\ a.reasoned
  /\ a.action \notin {"NONE", "UNSPECIFIED"} /\ a.confidence \in 0..100

LEMMA RulesAnswerFacts ==
  ASSUME NEW p
  PROVE  /\ Usable(RulesAnswer(p))
         /\ p.code \in HeldCodes => /\ RulesAnswer(p).action = "ESCALATE"
                                    /\ RulesAnswer(p).confidence = 100
<1> DEFINE b == RulesBucket(p)
<1>1. b \in {"TRANSIENT_BANK", "INSUFFICIENT_FUNDS", "HARD_DECLINE", "RISK_HOLD",
             "USER_ACTION_NEEDED", "ABANDONMENT", "OVERDUE", "UNSPECIFIED"}
  BY RulesBucketIsKnown DEF DiagnosisBuckets, CodesOf
<1>2. /\ ActionFor[b] \notin {"NONE", "UNSPECIFIED"} /\ ConfidenceFor[b] \in 0..100
      /\ b = "RISK_HOLD" => ActionFor[b] = "ESCALATE" /\ ConfidenceFor[b] = 100
  BY <1>1 DEF ActionFor, ConfidenceFor
<1>3. RulesAnswer(p) = [bucket |-> b, action |-> ActionFor[b], confidence |-> ConfidenceFor[b],
                        source |-> "RULES", reasoned |-> TRUE]
  BY DEF RulesAnswer
<1> HIDE DEF b
<1>4. Usable(RulesAnswer(p))
  BY <1>2, <1>3, RulesBucketIsKnown DEF Usable, b
<1>5. QED BY <1>2, <1>3, <1>4, HeldBucket DEF b

-----------------------------------------------------------------------------
\* What is sent: as AnswersAreUsable says of it.
Presentable(s, amount) ==
  /\ ~s.digits /\ ~s.leaks /\ s.amounts <= 1 /\ s.length > 0
  /\ s.length <= MaxChars + s.amounts * (RupeesLength(amount) - PlaceholderLength)

\* An accepted text keeps what it was accepted for when the amount is written
\* into it, and grows by what the amount is longer than the placeholder.
LEMMA SubstitutionFacts ==
  ASSUME DiagnosisAssumption, NEW t \in Texts, NudgeAccepted(t), NEW amount \in Amounts
  PROVE  Presentable(Substituted(t, amount), amount)
<1> DEFINE growth == RupeesLength(amount) - PlaceholderLength
           s == Substituted(t, amount)
<1>1. growth \in Int /\ growth >= -6
  <2>1. amount.digits \in 1..17
    BY DEF Amounts
  <2>2. CASE amount.paise
    BY <2>1, <2>2 DEF RupeesLength, PlaceholderLength
  <2>3. CASE ~amount.paise
    BY <2>1, <2>3 DEF RupeesLength, PlaceholderLength
  <2>4. QED BY <2>2, <2>3
<1>2. /\ t.length \in Nat /\ t.amounts \in Nat /\ t.length >= 10 * t.amounts
      /\ t.length \in 1..MaxChars /\ t.amounts <= 1 /\ MaxChars \in Nat
  BY DEF Texts, PlaceholderLength, NudgeAccepted, DiagnosisAssumption
<1>3. s.length = t.length + t.amounts * growth /\ s.amounts = t.amounts
  BY DEF Substituted, Texts
<1>4. ~s.digits /\ ~s.leaks
  <2>1. s.digits = t.digits /\ s.leaks = t.leaks
    BY DEF Substituted, Texts
  <2>2. QED BY <2>1, Zenon DEF NudgeAccepted
<1> HIDE DEF growth, s
<1>5. s.length > 0 /\ s.length <= MaxChars + s.amounts * growth /\ s.amounts <= 1
  <2>1. CASE t.amounts = 0
    BY <1>1, <1>2, <1>3, <2>1
  <2>2. CASE t.amounts = 1
    BY <1>1, <1>2, <1>3, <2>2
  <2>3. QED BY <1>2, <2>1, <2>2
<1>6. QED BY <1>4, <1>5 DEF Presentable, growth, s

\* The templates are texts.
LEMMA TemplatesAreTexts ==
  ASSUME NEW b \in DiagnosisBuckets
  PROVE  Template(b) \in Texts
<1>1. b \in {"TRANSIENT_BANK", "INSUFFICIENT_FUNDS", "HARD_DECLINE", "RISK_HOLD",
             "USER_ACTION_NEEDED", "ABANDONMENT", "OVERDUE", "UNSPECIFIED"}
  BY DEF DiagnosisBuckets, CodesOf
<1>2. TemplateLength[b] \in Nat /\ TemplateLength[b] >= 10
  BY <1>1 DEF TemplateLength
<1>3. QED BY <1>2 DEF Template, Texts, PlaceholderLength

-----------------------------------------------------------------------------
\* What a budget grants.
Budgets == [total : Nat, calls : Nat]
WithinRate(budget) == budget.calls * Rate[2] <= Rate[1] * budget.total

\* Counting a call, granted or not, keeps the ratio; what is not eligible is not
\* granted.
LEMMA ConsiderFacts ==
  ASSUME DiagnosisAssumption, NEW budget \in Budgets, WithinRate(budget),
         NEW eligible \in BOOLEAN
  PROVE  /\ Consider(budget, eligible) \in Budgets
         /\ WithinRate(Consider(budget, eligible))
         /\ Consider(budget, eligible).calls > budget.calls => eligible
<1> DEFINE total == budget.total + 1
           asked == Consider(budget, eligible).calls
<1>1. Rate[1] \in Nat /\ Rate[2] \in Nat
  BY DEF DiagnosisAssumption
<1>2. Rate[1] * total = Rate[1] * budget.total + Rate[1]
  BY <1>1 DEF Budgets
<1>3. /\ Consider(budget, eligible).total = total
      /\ asked = IF eligible /\ Rate[1] > 0 /\ (budget.calls + 1) * Rate[2] <= Rate[1] * total
                 THEN budget.calls + 1 ELSE budget.calls
  BY DEF Consider
<1>4. Consider(budget, eligible) \in Budgets
  BY DEF Consider, Budgets
<1>5. asked * Rate[2] <= Rate[1] * total
  <2>1. CASE eligible /\ Rate[1] > 0 /\ (budget.calls + 1) * Rate[2] <= Rate[1] * total
    BY <1>3, <2>1
  <2>2. CASE ~(eligible /\ Rate[1] > 0 /\ (budget.calls + 1) * Rate[2] <= Rate[1] * total)
    <3>1. asked = budget.calls
      BY <1>3, <2>2
    <3>2. budget.calls * Rate[2] <= Rate[1] * budget.total
      BY DEF WithinRate
    <3>3. QED BY <1>1, <1>2, <3>1, <3>2 DEF Budgets
  <2>3. QED BY <2>1, <2>2
<1>6. asked > budget.calls => eligible
  BY <1>3 DEF Budgets
<1>7. QED BY <1>3, <1>4, <1>5, <1>6 DEF WithinRate

-----------------------------------------------------------------------------
\* The invariant: what each phase knows of the payment in hand.
InHand ==
  /\ phase = "idle" => payment.code = "" /\ ~shown
  /\ phase = "ruled" => ~shown /\ answer = RulesAnswer(payment)
  /\ phase = "classified" /\ payment.code \in HeldCodes => answer.action = "ESCALATE"

DiagnosisInv ==
  /\ limits \in [route : 0..100, escalate : 0..100]
  /\ classifyBudget \in Budgets /\ nudgeBudget \in Budgets
  /\ payment.amount \in Amounts
  /\ InHand /\ HeldForReview /\ AnswersAreUsable /\ BudgetHolds

\* The amount of no payment is one.
LEMMA NoAmount == NoPayment.amount \in Amounts
<1>1. NoPayment.amount = [digits |-> 1, paise |-> FALSE]
  BY DEF NoPayment
<1>2. 1 \in 1..17 /\ FALSE \in BOOLEAN
  OBVIOUS
<1>3. [digits |-> 1, paise |-> FALSE] \in [digits : 1..17, paise : BOOLEAN]
  BY <1>2, Zenon
<1>4. QED BY <1>1, <1>3, Zenon DEF Amounts

LEMMA DiagnosisStarts == DiagnosisAssumption /\ DiagnosisInit => DiagnosisInv
<1> SUFFICES ASSUME DiagnosisAssumption, DiagnosisInit PROVE DiagnosisInv
  OBVIOUS
<1>1. limits \in [route : 0..100, escalate : 0..100]
  BY DEF DiagnosisAssumption, DiagnosisInit
<1>2. "" \notin HeldCodes
  BY DEF HeldCodes, Indeterminate, CodesOf
<1>3. classifyBudget = [total |-> 0, calls |-> 0] /\ nudgeBudget = [total |-> 0, calls |-> 0]
      /\ phase = "idle" /\ payment.code = "" /\ shown = FALSE
  BY DEF DiagnosisInit, NoPayment
<1>4. classifyBudget.calls * Rate[2] <= Rate[1] * classifyBudget.total
      /\ nudgeBudget.calls * Rate[2] <= Rate[1] * nudgeBudget.total
  <2>1. Rate[1] \in Nat /\ Rate[2] \in Nat
    BY DEF DiagnosisAssumption
  <2>2. /\ classifyBudget.calls = 0 /\ classifyBudget.total = 0
        /\ nudgeBudget.calls = 0 /\ nudgeBudget.total = 0
    BY <1>3
  <2>3. QED BY <2>1, <2>2
<1>5. BudgetHolds
  BY <1>3, <1>4 DEF BudgetHolds
<1>6. InHand /\ HeldForReview /\ AnswersAreUsable
  BY <1>2, <1>3 DEF InHand, HeldForReview, AnswersAreUsable, HeldCodes
<1>7. payment.amount \in Amounts
  BY NoAmount DEF DiagnosisInit
<1>8. QED BY <1>1, <1>3, <1>5, <1>6, <1>7 DEF DiagnosisInv, Budgets

\* The payment is weighed against the budget of the Engine.
LEMMA RouteKeeps ==
  ASSUME DiagnosisAssumption, DiagnosisInv, Route PROVE DiagnosisInv'
<1> DEFINE eligible == answer.confidence < limits.route
           granted  == Consider(classifyBudget, eligible).calls > classifyBudget.calls
<1>1. /\ phase = "ruled" /\ answer = RulesAnswer(payment) /\ phase' = "classified"
      /\ classifyBudget' = Consider(classifyBudget, eligible) /\ shown' = granted
      /\ UNCHANGED <<limits, payment, text, nudgeBudget>>
  BY DEF DiagnosisInv, InHand, Route
<1>2. ~granted => hops' = IF eligible THEN {"exhausted"} ELSE {}
  BY DEF Route
<1>3. \/ answer' = answer
      \/ /\ granted
         /\ \E raw \in ModelAnswers :
              /\ Accepted(raw)
              /\ answer' = [bucket |-> raw.bucket, action |-> raw.action,
                            confidence |-> raw.confidence, source |-> "MODEL",
                            reasoned |-> raw.reasoned]
  BY DEF Route
<1>4. classifyBudget \in Budgets /\ WithinRate(classifyBudget) /\ WithinRate(nudgeBudget)
      /\ limits.route \in 0..100
  BY DEF DiagnosisInv, BudgetHolds, WithinRate
<1>5. /\ classifyBudget' \in Budgets /\ WithinRate(Consider(classifyBudget, eligible))
      /\ granted => eligible
  <2>1. answer.confidence \in Int /\ limits.route \in Int
    BY <1>1, <1>4, RulesAnswerFacts DEF Usable
  <2>2. eligible \in BOOLEAN
    BY <2>1
  <2> HIDE DEF eligible
  <2>3. QED BY <1>1, <1>4, <2>2, ConsiderFacts
<1>6. Usable(answer) /\ (payment.code \in HeldCodes => answer.action = "ESCALATE" /\ ~eligible)
  BY <1>1, <1>4, RulesAnswerFacts
<1> HIDE DEF eligible, granted
<1>7. Usable(answer')
  BY <1>3, <1>6 DEF Usable, Accepted
<1>8. payment.code \in HeldCodes => answer' = answer /\ ~shown'
  BY <1>1, <1>3, <1>5, <1>6
<1>9. ~shown' /\ answer'.confidence < limits'.route => QuotaExhausted'
  <2> SUFFICES ASSUME ~shown', answer'.confidence < limits'.route PROVE QuotaExhausted'
    OBVIOUS
  <2>1. ~granted /\ answer' = answer /\ limits' = limits
    BY <1>1, <1>3
  <2>2. eligible
    BY <2>1 DEF eligible
  <2>3. hops' = {"exhausted"}
    BY <1>2, <2>1, <2>2
  <2>4. QED BY <2>3 DEF QuotaExhausted
<1>10. BudgetHolds'
  BY <1>1, <1>4, <1>5, <1>9 DEF BudgetHolds, WithinRate
<1>11. AnswersAreUsable'
  BY <1>1, <1>7 DEF AnswersAreUsable, Usable
<1>12. InHand' /\ HeldForReview'
  BY <1>1, <1>6, <1>8 DEF InHand, HeldForReview, HeldCodes
<1>13. QED BY <1>1, <1>5, <1>10, <1>11, <1>12 DEF DiagnosisInv

\* A message is written, from a template or by a model, and weighed.
LEMMA ComposeKeeps ==
  ASSUME DiagnosisAssumption, DiagnosisInv, ComposeNudge PROVE DiagnosisInv'
<1>1. /\ phase = "scored" /\ phase' \in {"sent", "unsent"}
      /\ nudgeBudget' = Consider(nudgeBudget, TRUE)
      /\ UNCHANGED <<limits, payment, answer, shown, hops, classifyBudget>>
  BY DEF ComposeNudge, SendNudge
<1>2. phase' = "sent" => Presentable(text', payment.amount)
  <2> SUFFICES ASSUME phase' = "sent" PROVE Presentable(text', payment.amount)
    OBVIOUS
  <2>1. answer.bucket \in DiagnosisBuckets /\ payment.amount \in Amounts
    BY <1>1 DEF DiagnosisInv, AnswersAreUsable
  <2>2. PICK t \in ModelTexts \union {Template(answer.bucket)} : SendNudge(t)
    BY DEF ComposeNudge
  <2>3. t \in Texts
    BY <2>1, TemplatesAreTexts DEF DiagnosisAssumption
  <2>4. QED BY <2>1, <2>2, <2>3, SubstitutionFacts DEF SendNudge
<1>3. nudgeBudget' \in Budgets /\ WithinRate(nudgeBudget')
  BY <1>1, ConsiderFacts DEF DiagnosisInv, BudgetHolds, WithinRate
<1>4. BudgetHolds'
  BY <1>1, <1>3 DEF DiagnosisInv, BudgetHolds, WithinRate
<1>5. AnswersAreUsable'
  BY <1>1, <1>2 DEF DiagnosisInv, AnswersAreUsable, Presentable
<1>6. InHand' /\ HeldForReview'
  BY <1>1 DEF DiagnosisInv, InHand, HeldForReview
<1>7. QED BY <1>1, <1>3, <1>4, <1>5, <1>6 DEF DiagnosisInv

LEMMA DiagnosisStep ==
  DiagnosisAssumption /\ DiagnosisInv /\ [DiagnosisNext]_diagnosisVars => DiagnosisInv'
<1> SUFFICES ASSUME DiagnosisAssumption, DiagnosisInv, [DiagnosisNext]_diagnosisVars
             PROVE  DiagnosisInv'
  OBVIOUS
<1> DEFINE SameBudgets == classifyBudget' = classifyBudget /\ nudgeBudget' = nudgeBudget
<1>1. CASE AskRules
  <2>1. /\ phase' = "ruled" /\ phase = "idle" /\ answer' = RulesAnswer(payment')
        /\ UNCHANGED <<limits, shown, hops, text>> /\ SameBudgets
    BY <1>1 DEF AskRules
  <2>2. BudgetHolds'
    BY <2>1 DEF DiagnosisInv, BudgetHolds
  <2>3. InHand' /\ HeldForReview' /\ AnswersAreUsable'
    BY <2>1 DEF DiagnosisInv, InHand, HeldForReview, AnswersAreUsable
  <2>4. payment'.amount \in Amounts
    BY <1>1 DEF AskRules, DiagnosisAssumption
  <2>5. QED BY <2>1, <2>2, <2>3, <2>4 DEF DiagnosisInv
<1>2. CASE Route
  BY <1>2, RouteKeeps
<1>3. CASE Judge
  <2>1. /\ phase = "classified" /\ phase' \in {"scored", "escalated"}
        /\ answer.action = "ESCALATE" => phase' = "escalated"
        /\ UNCHANGED <<limits, payment, answer, shown, hops, text>> /\ SameBudgets
    BY <1>3 DEF Judge
  <2>2. BudgetHolds'
    BY <2>1 DEF DiagnosisInv, BudgetHolds
  <2>3. InHand' /\ HeldForReview' /\ AnswersAreUsable'
    BY <2>1 DEF DiagnosisInv, InHand, HeldForReview, AnswersAreUsable, HeldCodes
  <2>4. QED BY <2>1, <2>2, <2>3 DEF DiagnosisInv
<1>4. CASE ComposeNudge
  BY <1>4, ComposeKeeps
<1>5. CASE EndDiagnosis
  <2>1. /\ phase' = "idle" /\ payment'.code = "" /\ shown' = FALSE
        /\ UNCHANGED limits /\ SameBudgets
    BY <1>5 DEF EndDiagnosis, NoPayment
  <2>2. "" \notin HeldCodes
    BY DEF HeldCodes, Indeterminate, CodesOf
  <2>3. BudgetHolds'
    BY <2>1 DEF DiagnosisInv, BudgetHolds
  <2>4. InHand' /\ HeldForReview' /\ AnswersAreUsable'
    BY <2>1, <2>2 DEF InHand, HeldForReview, AnswersAreUsable, HeldCodes
  <2>5. payment'.amount \in Amounts
    BY <1>5, NoAmount DEF EndDiagnosis
  <2>6. QED BY <2>1, <2>3, <2>4, <2>5 DEF DiagnosisInv
<1>6. CASE UNCHANGED diagnosisVars
  BY <1>6 DEF diagnosisVars, DiagnosisInv, InHand, HeldForReview, AnswersAreUsable, BudgetHolds,
              QuotaExhausted
<1>7. QED BY <1>1, <1>2, <1>3, <1>4, <1>5, <1>6 DEF DiagnosisNext

\* The invariant holds of every behaviour.
LEMMA DiagnosisAlways == DiagnosisSpec => []DiagnosisInv
<1>1. DiagnosisInit => DiagnosisInv
  BY DiagnosisStarts, DiagnosisAssumption
<1>2. DiagnosisInv /\ [DiagnosisNext]_diagnosisVars => DiagnosisInv'
  BY DiagnosisStep, DiagnosisAssumption
<1>3. QED BY <1>1, <1>2, PTL DEF DiagnosisSpec

-----------------------------------------------------------------------------
\* Whatever the thresholds and budgets, a payment that may be fraud or may have
\* been charged is seen by no model and by no customer: bucketToAction's
\* confidence of 1 for a held payment is what keeps clients.classify from it.
THEOREM HeldStaysWithHumans == DiagnosisSpec => []HeldForReview
BY DiagnosisAlways, PTL DEF DiagnosisInv

\* Whatever models write, parseAnswer and validateNudge let pass only what the
\* engine and the customer can be given.
THEOREM OnlyUsableAnswers == DiagnosisSpec => []AnswersAreUsable
BY DiagnosisAlways, PTL DEF DiagnosisInv

\* For every sampling rate and however long the process runs, llmBudget grants
\* no more than its share, and every doubt that went unasked is on the books.
THEOREM BudgetIsKept == DiagnosisSpec => []BudgetHolds
BY DiagnosisAlways, PTL DEF DiagnosisInv

-----------------------------------------------------------------------------
\* The copies of the tables.

ActedOn == DOMAIN CodesOf
CodeIn(b) == CodesOf[b] \union (IF b = "RISK_HOLD" THEN Indeterminate ELSE {})

LEMMA ActedOnAre ==
  /\ ActedOn = {"TRANSIENT_BANK", "INSUFFICIENT_FUNDS", "HARD_DECLINE", "RISK_HOLD",
                "USER_ACTION_NEEDED", "ABANDONMENT", "OVERDUE"}
  /\ DOMAIN GeneratedCodes = ActedOn
  /\ DOMAIN ForcedCodes = {"TRANSIENT_BANK", "INSUFFICIENT_FUNDS", "HARD_DECLINE"}
BY DEF ActedOn, CodesOf, GeneratedCodes, ForcedCodes

\* No two buckets claim one code.
LEMMA CodesAreApart ==
  ASSUME NEW a \in ActedOn, NEW b \in ActedOn, a # b
  PROVE  CodesOf[a] \intersect CodesOf[b] = {}
<1> DEFINE Apart(c, d) == CodesOf[c] \intersect CodesOf[d] = {}
<1>1. /\ Apart("TRANSIENT_BANK", "INSUFFICIENT_FUNDS") /\ Apart("TRANSIENT_BANK", "HARD_DECLINE")
      /\ Apart("TRANSIENT_BANK", "RISK_HOLD") /\ Apart("TRANSIENT_BANK", "USER_ACTION_NEEDED")
      /\ Apart("TRANSIENT_BANK", "ABANDONMENT") /\ Apart("TRANSIENT_BANK", "OVERDUE")
  BY DEF CodesOf
<1>2. /\ Apart("INSUFFICIENT_FUNDS", "HARD_DECLINE") /\ Apart("INSUFFICIENT_FUNDS", "RISK_HOLD")
      /\ Apart("INSUFFICIENT_FUNDS", "USER_ACTION_NEEDED")
      /\ Apart("INSUFFICIENT_FUNDS", "ABANDONMENT") /\ Apart("INSUFFICIENT_FUNDS", "OVERDUE")
  BY DEF CodesOf
<1>3. /\ Apart("HARD_DECLINE", "RISK_HOLD") /\ Apart("HARD_DECLINE", "USER_ACTION_NEEDED")
      /\ Apart("HARD_DECLINE", "ABANDONMENT") /\ Apart("HARD_DECLINE", "OVERDUE")
  BY DEF CodesOf
<1>4. /\ Apart("RISK_HOLD", "USER_ACTION_NEEDED") /\ Apart("RISK_HOLD", "ABANDONMENT")
      /\ Apart("RISK_HOLD", "OVERDUE") /\ Apart("USER_ACTION_NEEDED", "ABANDONMENT")
      /\ Apart("USER_ACTION_NEEDED", "OVERDUE") /\ Apart("ABANDONMENT", "OVERDUE")
  BY DEF CodesOf
<1>5. \A c, d : Apart(c, d) => Apart(d, c)
  OBVIOUS
<1> HIDE DEF Apart
<1>6. Apart(a, b)
  BY <1>1, <1>2, <1>3, <1>4, <1>5, ActedOnAre
<1> QED BY <1>6 DEF Apart

\* The rules know every code by the one bucket that claims it.
LEMMA CodeNamesBucket ==
  ASSUME NEW b \in ActedOn, NEW code \in CodeIn(b)
  PROVE  BucketsForCode(code) = {b}
<1>1. CASE code \in HeldCodes
  <2>1. b = "RISK_HOLD"
    <3>1. CASE b # "RISK_HOLD"
      <4>1. code \in CodesOf[b]
        BY <3>1 DEF CodeIn
      <4>2. BucketsForCode(code) = {"RISK_HOLD"}
        BY <1>1, HeldCodesAreApart
      <4>3. b \in BucketsForCode(code)
        BY <4>1 DEF BucketsForCode, ActedOn
      <4> QED BY <3>1, <4>2, <4>3
    <3> QED BY <3>1
  <2> QED BY <1>1, <2>1, HeldCodesAreApart
<1>2. CASE code \notin HeldCodes
  <2>1. code \notin Indeterminate /\ code \in CodesOf[b]
    BY <1>2 DEF HeldCodes, CodeIn
  <2>2. \A a \in ActedOn : a # b => code \notin CodesOf[a]
    BY <2>1, CodesAreApart
  <2> QED BY <2>1, <2>2 DEF BucketsForCode, ActedOn
<1> QED BY <1>1, <1>2

\* Every code the demo draws for a bucket is one the rules know it by.
LEMMA DrawnCodesAreKnown ==
  ASSUME NEW code, NEW b \in Meant(code)
  PROVE  b \in ActedOn /\ code \in CodeIn(b)
<1>1. /\ GeneratedCodes["TRANSIENT_BANK"] \subseteq CodesOf["TRANSIENT_BANK"]
      /\ GeneratedCodes["INSUFFICIENT_FUNDS"] \subseteq CodesOf["INSUFFICIENT_FUNDS"]
      /\ GeneratedCodes["HARD_DECLINE"] \subseteq CodesOf["HARD_DECLINE"]
  BY DEF GeneratedCodes, CodesOf
<1>2. /\ GeneratedCodes["USER_ACTION_NEEDED"] \subseteq CodesOf["USER_ACTION_NEEDED"]
      /\ GeneratedCodes["ABANDONMENT"] \subseteq CodesOf["ABANDONMENT"]
      /\ GeneratedCodes["OVERDUE"] \subseteq CodesOf["OVERDUE"]
  BY DEF GeneratedCodes, CodesOf
<1>3. GeneratedCodes["RISK_HOLD"] \subseteq CodesOf["RISK_HOLD"] \union Indeterminate
  BY DEF GeneratedCodes, CodesOf, Indeterminate
<1>4. /\ ForcedCodes["TRANSIENT_BANK"] \subseteq CodesOf["TRANSIENT_BANK"]
      /\ ForcedCodes["INSUFFICIENT_FUNDS"] \subseteq CodesOf["INSUFFICIENT_FUNDS"]
      /\ ForcedCodes["HARD_DECLINE"] \subseteq CodesOf["HARD_DECLINE"]
  BY DEF ForcedCodes, CodesOf
<1>5. \A a \in DOMAIN GeneratedCodes : GeneratedCodes[a] \subseteq CodeIn(a)
  BY <1>1, <1>2, <1>3, ActedOnAre DEF CodeIn
<1>6. \A a \in DOMAIN ForcedCodes : ForcedCodes[a] \subseteq CodeIn(a)
  BY <1>4, ActedOnAre DEF CodeIn
<1> QED BY <1>5, <1>6, ActedOnAre DEF Meant

LEMMA TablesAgree ==
  ASSUME NEW p, NEW b \in Meant(p.code)
  PROVE  /\ RulesAnswer(p).bucket = b
         /\ RulesAnswer(p).action = WorldAction[b] /\ RulesAnswer(p).action = BaselineAction[b]
<1>1. b \in ActedOn /\ BucketsForCode(p.code) = {b}
  BY DrawnCodesAreKnown, CodeNamesBucket
<1>2. RulesBucket(p) = b
  BY <1>1 DEF RulesBucket
<1>3. RulesAnswer(p).bucket = b /\ RulesAnswer(p).action = ActionFor[b]
  BY <1>2 DEF RulesAnswer
<1>4. ActionFor[b] = WorldAction[b] /\ ActionFor[b] = BaselineAction[b]
  BY <1>1, ActedOnAre DEF ActionFor, WorldAction, BaselineAction
<1> QED BY <1>3, <1>4

LEMMA PricesAgree ==
  \A action \in DOMAIN PlannedCost :
     /\ BookedCost(action) = PlannedCost[action]
     /\ action # "RETRY" => ChannelCost[ChannelFor(action)] = PlannedCost[action]
     /\ action \in DOMAIN BaselineCost => BaselineCost[action] = PlannedCost[action]
BY DEF PlannedCost, BookedCost, ChannelFor, ChannelCost, BilledCost, BaselineCost

\* For every payment, known to the demo or not: the hand-kept copies of the
\* Classifier's tables and of the prices of interventions say the same.
THEOREM TablesStayTogether == DiagnosisSpec => []CopiesAgree
<1>1. ASSUME DiagnosisInv PROVE CopiesAgree
  <2>1. phase = "ruled" => answer = RulesAnswer(payment)
    BY <1>1 DEF DiagnosisInv, InHand
  <2>2. \A b \in Meant(payment.code) :
           /\ RulesAnswer(payment).bucket = b
           /\ RulesAnswer(payment).action = WorldAction[b]
           /\ RulesAnswer(payment).action = BaselineAction[b]
    BY TablesAgree
  <2>3. phase = "ruled" =>
          \A b \in Meant(payment.code) :
             answer.bucket = b /\ answer.action = WorldAction[b] /\ answer.action = BaselineAction[b]
    BY <2>1, <2>2
  <2> QED BY <2>3, PricesAgree DEF CopiesAgree
<1> QED BY <1>1, DiagnosisAlways, PTL

-----------------------------------------------------------------------------
(***************************************************************************)
(* For every service, any number of loops and calls, and every order of    *)
(* signals, failures and answers: exit status 0 means a clean exit.        *)
(***************************************************************************)
\* The invariant: what each stage has behind it.

\* Nothing is left behind but what the drain does not wait for.
LeftBehind(status) ==
  \A c \in Callers : calls[c] = status => ~program.awaited /\ c \in lasting

InStage ==
  /\ stage # "exited" => exit = 2 /\ \A c \in Callers : calls[c] # "cut"
  /\ stage \in {"closing", "releasing", "exited"} => ~serving
  /\ stage = "closing" => StillRunning = {}
  /\ stage \in {"releasing", "exited"} /\ ~runErr => StillRunning = {}
  /\ stage = "releasing" /\ ~runErr => LeftBehind("open")
  /\ stage = "exited" /\ ~runErr => LeftBehind("cut")
  /\ exit = 0 => ~runErr

ProcessInv == DOMAIN calls = Callers /\ InStage

LEMMA ProcessStarts == ProcessInit => ProcessInv
BY DEF ProcessInit, ProcessInv, InStage

-----------------------------------------------------------------------------
\* What a return with an error promises is nothing; without one, the drain must
\* have ended.
LEMMA ReturnKeeps ==
  ASSUME ProcessInv, NEW err, Return(err), stage # "exited",
         UNCHANGED <<program, loops, calls, lasting, exit>>,
         ~err => StillRunning = {} /\ LeftBehind("open")
  PROVE  ProcessInv'
<1>1. runErr' = err /\ stage' = "releasing" /\ serving' = FALSE
  BY DEF Return
<1>2. exit' = 2 /\ \A c \in Callers : calls'[c] # "cut"
  BY DEF ProcessInv, InStage
<1>3. ~runErr' => StillRunning' = {} /\ LeftBehind("open")'
  BY <1>1 DEF StillRunning, LeftBehind
<1>4. QED BY <1>1, <1>2, <1>3 DEF ProcessInv, InStage

\* A call is opened or answered, and no other one changes.
LEMMA AcceptKeeps ==
  ASSUME ProcessInv, NEW c \in Callers, Accept(c) PROVE ProcessInv'
<1>1. /\ stage # "exited" /\ serving
      /\ UNCHANGED <<program, stage, loops, serving, runErr, exit>>
      /\ calls' = [calls EXCEPT ![c] = "open"]
  BY DEF Accept, settings
<1>2. stage \notin {"closing", "releasing"}
  BY <1>1 DEF ProcessInv, InStage
<1>3. QED BY <1>1, <1>2 DEF ProcessInv, InStage

LEMMA AnswerKeeps ==
  ASSUME ProcessInv, NEW c \in Callers, Answer(c) PROVE ProcessInv'
<1>1. /\ stage # "exited"
      /\ UNCHANGED <<program, stage, loops, serving, lasting, runErr, exit>>
      /\ calls' = [calls EXCEPT ![c] = "answered"]
  BY DEF Answer, settings
<1>2. DOMAIN calls' = Callers /\ \A d \in Callers : calls'[d] \in {"open", "cut"} => calls'[d] = calls[d]
  BY <1>1 DEF ProcessInv
<1>3. LeftBehind("open") => LeftBehind("open")'
  BY <1>1, <1>2 DEF LeftBehind
<1>4. QED BY <1>1, <1>2, <1>3 DEF ProcessInv, InStage, StillRunning

\* A loop ends, by itself or because it is told to.
LEMMA LoopKeeps ==
  ASSUME ProcessInv, NEW l \in DOMAIN loops, LoopFails(l) \/ LoopStops(l) PROVE ProcessInv'
<1>1. /\ l \in StillRunning /\ stage # "exited"
      /\ UNCHANGED <<program, stage, serving, calls, lasting, runErr, exit>>
  BY DEF LoopFails, LoopStops, settings
<1>2. ~(stage = "closing") /\ (stage = "releasing" => runErr)
  BY <1>1 DEF ProcessInv, InStage
<1>3. QED BY <1>1, <1>2 DEF ProcessInv, InStage

LEMMA ExitKeeps == ASSUME ProcessInv, Exit PROVE ProcessInv'
<1>1. /\ stage = "releasing" /\ stage' = "exited" /\ exit' = IF runErr THEN 1 ELSE 0
      /\ UNCHANGED <<program, loops, serving, lasting, runErr>>
      /\ calls' = [c \in Callers |-> IF calls[c] = "open" THEN "cut" ELSE calls[c]]
  BY DEF Exit, settings
<1>2. \A c \in Callers : calls'[c] = "cut" => calls[c] = "open"
  BY <1>1 DEF ProcessInv, InStage
<1>3. ~runErr => LeftBehind("cut")'
  BY <1>1, <1>2 DEF ProcessInv, InStage, LeftBehind
<1>4. ~serving' /\ (~runErr => StillRunning' = {})
  BY <1>1 DEF ProcessInv, InStage, StillRunning
<1>5. exit' = 0 => ~runErr'
  BY <1>1
<1>6. QED BY <1>1, <1>3, <1>4, <1>5 DEF ProcessInv, InStage

-----------------------------------------------------------------------------
LEMMA ProcessStep == ProcessInv /\ [ProcessNext]_processVars => ProcessInv'
<1> SUFFICES ASSUME ProcessInv, [ProcessNext]_processVars PROVE ProcessInv'
  OBVIOUS
<1>1. CASE OpenNext
  <2>1. /\ stage = "opening" /\ stage' \in {"opening", "running"}
        /\ UNCHANGED <<program, calls, lasting, runErr, exit>>
    BY <1>1 DEF OpenNext, settings
  <2>2. QED BY <2>1 DEF ProcessInv, InStage
<1>2. CASE OpenFails
  BY <1>2, ReturnKeeps DEF OpenFails, settings
<1>3. CASE Signal
  BY <1>3 DEF Signal, settings, ProcessInv, InStage, StillRunning, LeftBehind
<1>4. ASSUME NEW c \in Callers, Accept(c) \/ Answer(c) PROVE ProcessInv'
  BY <1>4, AcceptKeeps, AnswerKeeps
<1>5. ASSUME NEW l \in DOMAIN loops, LoopFails(l) \/ LoopStops(l) PROVE ProcessInv'
  BY <1>5, LoopKeeps
<1>6. ASSUME NEW err, Leave(err) PROVE ProcessInv'
  <2>1. /\ stage = "running" /\ stage' = "waiting"
        /\ UNCHANGED <<program, calls, lasting, exit>>
    BY <1>6 DEF Leave, settings
  <2>2. exit' = 2 /\ \A c \in Callers : calls'[c] # "cut"
    BY <2>1 DEF ProcessInv, InStage
  <2>3. QED BY <2>1, <2>2 DEF ProcessInv, InStage
<1>7. CASE LeaveOnSignal
  BY <1>6, <1>7 DEF LeaveOnSignal
<1>8. CASE LeaveOnLoop
  BY <1>6, <1>8 DEF LeaveOnLoop
<1>9. CASE ServeFails
  <2>1. CASE program.patient
    BY <1>6, <1>9, <2>1 DEF ServeFails
  <2>2. CASE ~program.patient
    BY <1>9, <2>2, ReturnKeeps DEF ServeFails, settings
  <2>3. QED BY <2>1, <2>2
<1>10. CASE BeginClose
  <2>1. /\ stage = "waiting" /\ StillRunning = {} /\ stage' = "closing" /\ serving' = FALSE
        /\ UNCHANGED <<program, loops, calls, lasting, runErr, exit>>
    BY <1>10 DEF BeginClose, settings
  <2>2. StillRunning' = {}
    BY <2>1 DEF StillRunning
  <2>3. QED BY <2>1, <2>2 DEF ProcessInv, InStage
<1>11. CASE Drained
  <2>1. /\ stage = "closing" /\ Return(runErr)
        /\ UNCHANGED <<program, loops, calls, lasting, exit>>
        /\ Open \ (IF program.awaited THEN {} ELSE lasting) = {}
    BY <1>11 DEF Drained, settings
  <2>2. StillRunning = {} /\ LeftBehind("open")
    BY <2>1 DEF ProcessInv, InStage, LeftBehind, Open
  <2>3. QED BY <2>1, <2>2, ReturnKeeps
<1>12. CASE GraceOver
  BY <1>12, ReturnKeeps DEF GraceOver, settings
<1>13. CASE Exit
  BY <1>13, ExitKeeps
<1>14. CASE UNCHANGED processVars
  BY <1>14 DEF processVars, settings, ProcessInv, InStage, StillRunning, LeftBehind
<1>15. QED
  BY <1>1, <1>2, <1>3, <1>4, <1>5, <1>7, <1>8, <1>9, <1>10, <1>11, <1>12, <1>13, <1>14
     DEF ProcessNext

\* A pod that exits with 0 has lost no work in progress, whichever of a signal, a
\* loop's end and a failure to serve came first, and however late: run's order
\* of waiting for its loops, draining, and only then returning nil.
THEOREM ZeroIsClean == ProcessSpec => []CleanExit
<1>1. ProcessInv => CleanExit
  BY DEF ProcessInv, InStage, CleanExit, LeftBehind
<1>2. QED BY <1>1, ProcessStarts, ProcessStep, PTL DEF ProcessSpec

-----------------------------------------------------------------------------
(***************************************************************************)
(* Downtimes.  The webhooks of a downtime are numbered in the order they   *)
(* are sent, the last one tells how things are, and a row is what some     *)
(* webhook has told.                                                       *)
(***************************************************************************)
\* Webhook e tells how its outage o is.
Tells(e, o) ==
  /\ e.begin = o.begin /\ e.end = o.end /\ e.shape \in Shapes
  /\ e.status = "resolved" <=> o.over

\* An outage that has been told of.
Known(o) ==
  {"begin", "end", "over", "shape"} \subseteq DOMAIN o /\ o.shape \in Shapes /\ o.over \in BOOLEAN

WireInv ==
  /\ IsFiniteSet(wire) /\ DOMAIN outage = Downtimes
  /\ \A d \in Downtimes : outage[d] # Unset => Known(outage[d])
  /\ \A e \in wire : /\ e.id \in Downtimes /\ e.event \in Nat /\ e.event <= Sent(e.id)
                     /\ e.event = Sent(e.id) => Tells(e, outage[e.id])

RowsInv ==
  /\ DOMAIN rows = Downtimes
  /\ \A d \in Downtimes : rows[d] # Unset => \E e \in wire : e.id = d /\ rows[d] = Reported(e)

OutageInv == WireInv /\ RowsInv

\* One more webhook, the last of its downtime, tells how that is now; the others'
\* outages stay as they are.
LEMMA SendTells ==
  ASSUME WireInv, RowsInv, NEW d \in Downtimes, NEW status, Send(d, status),
         DOMAIN outage' = Downtimes, rows' = rows,
         Known(outage'[d]), status = "resolved" <=> outage'[d].over,
         \A other \in Downtimes \ {d} : outage'[other] = outage[other]
  PROVE  WireInv' /\ RowsInv'
<1>1. PICK n : n = Sent(d)
  OBVIOUS
<1>2. PICK e : e = [id |-> d, event |-> n + 1, status |-> status, begin |-> outage'[d].begin,
                    end |-> outage'[d].end, shape |-> outage'[d].shape]
  OBVIOUS
<1>3. wire' = wire \union {e}
  BY <1>1, <1>2 DEF Send
<1>4. /\ e.id = d /\ e.event = n + 1 /\ e.status = status /\ e.begin = outage'[d].begin
      /\ e.end = outage'[d].end /\ e.shape = outage'[d].shape
  BY <1>2
<1>5. PICK W : W = {x \in wire : x.id = d}
  OBVIOUS
<1>6. IsFiniteSet(W) /\ n = Cardinality(W) /\ n \in Nat
  <2>1. IsFiniteSet(wire) /\ W \in SUBSET wire
    BY <1>5 DEF WireInv
  <2>2. n = Cardinality(W)
    BY <1>1, <1>5 DEF Sent
  <2> QED BY <2>1, <2>2, FS_Subset, FS_CardinalityType
<1>7. e \notin W
  <2>1. \A x \in W : x.event \in Nat /\ x.event <= n
    BY <1>1, <1>5 DEF WireInv
  <2> QED BY <1>4, <1>6, <2>1
<1>8. Sent(d)' = n + 1
  <2>1. {x \in wire' : x.id = d} = W \union {e}
    BY <1>3, <1>4, <1>5
  <2>2. Sent(d)' = Cardinality(W \union {e})
    BY <2>1, Zenon DEF Sent
  <2> QED BY <1>6, <1>7, <2>2, FS_AddElement
<1>9. \A other \in Downtimes \ {d} : Sent(other)' = Sent(other)
  <2> SUFFICES ASSUME NEW other \in Downtimes \ {d} PROVE Sent(other)' = Sent(other)
    OBVIOUS
  <2>1. {x \in wire' : x.id = other} = {x \in wire : x.id = other}
    BY <1>3, <1>4
  <2> QED BY <2>1, Zenon DEF Sent
<1>10. IsFiniteSet(wire')
  BY <1>3, FS_AddElement DEF WireInv
<1>11. ASSUME NEW x \in wire'
       PROVE  /\ x.id \in Downtimes /\ x.event \in Nat /\ x.event <= Sent(x.id)'
              /\ x.event = Sent(x.id)' => Tells(x, outage'[x.id])
  <2>1. CASE x = e
    BY <1>4, <1>6, <1>8, <2>1 DEF Tells, Known
  <2>2. CASE x \in wire /\ x.id = d
    <3>1. x.event \in Nat /\ x.event <= n
      BY <1>1, <2>2 DEF WireInv
    <3> QED BY <1>6, <1>8, <2>2, <3>1
  <2>3. CASE x \in wire /\ x.id # d
    <3>1. /\ x.id \in Downtimes \ {d} /\ x.event \in Nat /\ x.event <= Sent(x.id)
          /\ x.event = Sent(x.id) => Tells(x, outage[x.id])
      BY <2>3 DEF WireInv
    <3>2. Sent(x.id)' = Sent(x.id) /\ outage'[x.id] = outage[x.id]
      BY <1>9, <3>1
    <3> QED BY <3>1, <3>2
  <2> QED BY <1>3, <2>1, <2>2, <2>3
<1>12. WireInv'
  <2>1. \A o \in Downtimes : outage'[o] # Unset => Known(outage'[o])
    BY DEF WireInv
  <2> QED BY <1>10, <1>11, <2>1 DEF WireInv
<1>13. RowsInv'
  BY <1>3 DEF RowsInv
<1> QED BY <1>12, <1>13

LEMMA DeliverTells ==
  ASSUME WireInv, RowsInv, NEW e \in wire, Deliver(e) PROVE WireInv' /\ RowsInv'
<1>1. UNCHANGED <<outage, wire>> /\ rows' = [rows EXCEPT ![e.id] = Reported(e)]
  BY DEF Deliver, Upsert
<1>2. WireInv'
  BY <1>1 DEF WireInv, Sent
<1>3. RowsInv'
  <2>1. DOMAIN rows' = Downtimes
    BY <1>1 DEF RowsInv
  <2>2. ASSUME NEW d \in Downtimes, rows'[d] # Unset
        PROVE  \E x \in wire : x.id = d /\ rows'[d] = Reported(x)
    <3>1. CASE d = e.id
      <4>1. rows'[d] = Reported(e)
        BY <1>1, <3>1 DEF RowsInv
      <4> QED BY <3>1, <4>1
    <3>2. CASE d # e.id
      <4>1. rows'[d] = rows[d]
        BY <1>1, <3>2 DEF RowsInv
      <4> QED BY <2>2, <4>1 DEF RowsInv
    <3> QED BY <3>1, <3>2
  <2> QED BY <1>1, <2>1, <2>2 DEF RowsInv
<1> QED BY <1>2, <1>3

LEMMA DowntimeStep == ASSUME WireInv, RowsInv, DowntimeNext PROVE WireInv' /\ RowsInv'
<1>1. ASSUME NEW d \in Downtimes, Begins(d) PROVE WireInv' /\ RowsInv'
  <2>1. PICK begin \in clock..MaxBegin, length \in Planned \union {Unset}, shape \in Shapes :
          outage' = [outage EXCEPT ![d] =
            [begin |-> begin, over |-> FALSE, shape |-> shape,
             end |-> IF length = Unset THEN Unset ELSE begin + length]]
    BY <1>1 DEF Begins
  <2>2. PICK o : o = [begin |-> begin, over |-> FALSE, shape |-> shape,
                      end |-> IF length = Unset THEN Unset ELSE begin + length]
    OBVIOUS
  <2>3. Send(d, "started") /\ rows' = rows
    BY <1>1 DEF Begins
  <2>4. Known(o) /\ o.over = FALSE
    BY <2>2 DEF Known
  <2>5. /\ DOMAIN outage' = Downtimes /\ outage'[d] = o
        /\ \A other \in Downtimes \ {d} : outage'[other] = outage[other]
    BY <2>1, <2>2 DEF WireInv
  <2> QED BY <2>3, <2>4, <2>5, SendTells
<1>2. ASSUME NEW d \in Downtimes, Updated(d) PROVE WireInv' /\ RowsInv'
  <2>1. Send(d, "updated") /\ rows' = rows /\ outage' = outage /\ outage[d] # Unset /\ ~outage[d].over
    BY <1>2 DEF Updated
  <2>2. Known(outage'[d]) /\ DOMAIN outage' = Downtimes
    BY <2>1 DEF WireInv
  <2> QED BY <2>1, <2>2, SendTells
<1>3. ASSUME NEW d \in Downtimes, Resolves(d) PROVE WireInv' /\ RowsInv'
  <2>1. PICK o : o = outage[d]
    OBVIOUS
  <2>2. PICK ended : ended = [o EXCEPT !.over = TRUE, !.end = clock]
    OBVIOUS
  <2>3. /\ Send(d, "resolved") /\ rows' = rows /\ o # Unset
        /\ outage' = [outage EXCEPT ![d].over = TRUE, ![d].end = clock]
    BY <1>3, <2>1 DEF Resolves
  <2>4. Known(o)
    BY <2>1, <2>3 DEF WireInv
  <2>5. Known(ended) /\ ended.over = TRUE
    BY <2>2, <2>4 DEF Known
  <2>6. /\ DOMAIN outage' = Downtimes /\ outage'[d] = ended
        /\ \A other \in Downtimes \ {d} : outage'[other] = outage[other]
    BY <2>1, <2>2, <2>3 DEF WireInv
  <2> QED BY <2>3, <2>5, <2>6, SendTells
<1>4. CASE ClockTick
  <2>1. UNCHANGED <<outage, wire, rows>>
    BY <1>4 DEF ClockTick
  <2> QED BY <2>1 DEF WireInv, RowsInv, Sent
<1> QED BY <1>1, <1>2, <1>3, <1>4, DeliverTells DEF DowntimeNext

LEMMA OutageStarts == DowntimeInit => OutageInv
<1> SUFFICES ASSUME DowntimeInit PROVE OutageInv
  OBVIOUS
<1>1. outage = [d \in Downtimes |-> Unset] /\ rows = [d \in Downtimes |-> Unset] /\ wire = {}
  BY DEF DowntimeInit
<1>2. IsFiniteSet({})
  BY FS_EmptySet
<1> QED BY <1>1, <1>2 DEF OutageInv, WireInv, RowsInv

LEMMA OutageStep == OutageInv /\ [DowntimeNext]_downtimeVars => OutageInv'
<1> SUFFICES ASSUME OutageInv, [DowntimeNext]_downtimeVars PROVE OutageInv'
  OBVIOUS
<1>1. CASE DowntimeNext
  BY <1>1, DowntimeStep DEF OutageInv
<1>2. CASE UNCHANGED downtimeVars
  BY <1>2 DEF downtimeVars, OutageInv, WireInv, RowsInv, Sent
<1> QED BY <1>1, <1>2

\* A row with the last word is the outage.
LEMMA OutageShows ==
  ASSUME OutageInv, \A shape \in Shapes : InstrumentKey(shape) = Instrument PROVE KnownOutageHolds
<1> SUFFICES ASSUME NEW d \in Downtimes, outage[d] # Unset, ~outage[d].over,
                    rows[d] # Unset, rows[d].event = Sent(d), UpdatedLast(d),
                    outage[d].begin <= clock,
                    clock < (IF outage[d].end = Unset THEN outage[d].begin + Hold ELSE outage[d].end)
             PROVE  RetryHeld
  BY DEF KnownOutageHolds
<1>1. WireInv /\ RowsInv
  BY DEF OutageInv
<1>2. PICK e \in wire : e.id = d /\ rows[d] = Reported(e)
  BY <1>1 DEF RowsInv
<1>3. /\ rows[d].begin = e.begin /\ rows[d].end = e.end /\ rows[d].event = e.event
      /\ rows[d].key = InstrumentKey(e.shape) /\ (rows[d].resolved <=> e.status = "resolved")
  <2>1. PICK k : k = InstrumentKey(e.shape)
    OBVIOUS
  <2>2. PICK b \in BOOLEAN : b <=> e.status = "resolved"
    OBVIOUS
  <2>3. Reported(e) = [begin |-> e.begin, end |-> e.end, key |-> k, event |-> e.event, resolved |-> b]
    BY <2>1, <2>2, Zenon DEF Reported
  <2> QED BY <1>2, <2>1, <2>2, <2>3
<1>4. Tells(e, outage[d])
  BY <1>1, <1>2, <1>3 DEF WireInv
<1>5. d \in Active
  BY <1>3, <1>4 DEF Active, Tells
<1>6. Blocks(rows[d])
  BY <1>3, <1>4 DEF Blocks, Tells
<1> QED BY <1>5, <1>6 DEF RetryHeld

\* For any number of downtimes and webhooks, lost, repeated or late, of shapes in
\* which downtimeInstrumentKey finds the instrument: while an outage lasts of which
\* the row has the provider's last word, downtimeBlocksRetry holds retries back.
THEOREM KnownOutagesHold ==
  ASSUME \A shape \in Shapes : InstrumentKey(shape) = Instrument
  PROVE  DowntimeSpec => []KnownOutageHolds
<1>1. OutageInv => KnownOutageHolds
  BY OutageShows
<1> QED BY <1>1, OutageStarts, OutageStep, PTL DEF DowntimeSpec
=============================================================================
