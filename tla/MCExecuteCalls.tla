--------------------------- MODULE MCExecuteCalls ---------------------------
(***************************************************************************)
(* ExecuteCalls for TLC: three calls that may all be for the same attempt, *)
(* so that a claimant and two duplicates interleave at every statement.    *)
(***************************************************************************)
EXTENDS ExecuteCalls, TLC

MCSymmetry == Permutations(Calls)
=============================================================================
