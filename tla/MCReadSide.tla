----------------------------- MODULE MCReadSide -----------------------------
(***************************************************************************)
(* ReadSide for TLC: two records of different amounts with one             *)
(* intervention each, two viewers with a channel of one message, and a     *)
(* batch of up to four rows listed by pages of one to three.               *)
(***************************************************************************)
EXTENDS ReadSide, TLC

CONSTANTS r1, r2
MCAmount == r1 :> 3 @@ r2 :> 5
MCAnswers ==
  [right : {"RETRY", "NUDGE_REMINDER", "ESCALATE"}, p : 0..Sides, wrong : 0..Sides]
=============================================================================
