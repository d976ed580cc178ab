-------------------------- MODULE MCKeyedConsumer --------------------------
(***************************************************************************)
(* Instances of KeyedConsumer for TLC.  Two workers and three keys, with   *)
(* keys "a" and "c" on the same worker, so that records wait behind others *)
(* of their own key, behind another key, and not at all.                   *)
(***************************************************************************)
EXTENDS KeyedConsumer, TLC

MCKeys == <<"a", "b", "b", "c">>
MCKey == [p \in Partitions |-> [o \in 0..(LogLength - 1) |-> MCKeys[o + 1]]]
MCWorkerFor == [a |-> 1, b |-> 2, c |-> 1]
MCSymmetry == Permutations(Members)
============================================================================
