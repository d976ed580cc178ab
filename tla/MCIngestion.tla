----------------------------- MODULE MCIngestion -----------------------------
(***************************************************************************)
(* Ingestion for TLC: what senders ask.                                    *)
(***************************************************************************)
EXTENDS Ingestion

\* Requests: events with a key and without, with a bad signature, and with a
\* record Ingestion refuses; batches with good and bad records, one of which
\* calls itself what the shared batch is called.
LOCAL Event(key, lacks, valid) ==
  [route |-> "payment-failed", source |-> "", lacks |-> lacks, key |-> key,
   valid |-> valid, invalid |-> 1 - valid]
LOCAL Submitted(source, valid, invalid) ==
  [route |-> "batches", source |-> source, lacks |-> {}, key |-> NoKey,
   valid |-> valid, invalid |-> invalid]

MCRequests ==
  {Event("k", {}, 1), Event(NoKey, {}, 1), Event("k", {"signature"}, 1),
   Event(NoKey, {}, 0), Submitted("unknown", 2, 1), Submitted("webhook", 1, 1)}
=============================================================================
