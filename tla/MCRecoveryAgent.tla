-------------------------- MODULE MCRecoveryAgent --------------------------
(***************************************************************************)
(* Instances of RecoveryAgent small enough for TLC.  Priors and costs are  *)
(* the shipped ones (configs/recovery_priors.yaml,                         *)
(* configs/intervention_costs.yaml) for the buckets used; the times are    *)
(* shrunk so that cooldown, contact hours and recovery window all bind     *)
(* within a dozen ticks.                                                   *)
(***************************************************************************)
EXTENDS RecoveryAgent, TLC

MCPriors ==
  [RETRY |-> [TRANSIENT_BANK |-> [all |-> Null, listed |-> <<3000, 1200, 500>>],
              INSUFFICIENT_FUNDS |-> [all |-> Null, listed |-> <<2000, 1000, 400>>],
              USER_ACTION_NEEDED |-> [all |-> 0, listed |-> <<>>]],
   NUDGE_METHOD_UPDATE |->
             [TRANSIENT_BANK |-> [all |-> 0, listed |-> <<>>],
              INSUFFICIENT_FUNDS |-> [all |-> Null, listed |-> <<500, 200, 100>>],
              USER_ACTION_NEEDED |-> [all |-> Null, listed |-> <<1600, 700, 250>>]],
   NUDGE_REMINDER |->
             [TRANSIENT_BANK |-> [all |-> Null, listed |-> <<400, 150, 50>>],
              INSUFFICIENT_FUNDS |-> [all |-> Null, listed |-> <<800, 350, 120>>],
              USER_ACTION_NEEDED |-> [all |-> Null, listed |-> <<500, 200, 60>>]]]

MCCosts == [RETRY |-> 625, NUDGE_METHOD_UPDATE |-> 29, NUDGE_REMINDER |-> 35]

\* Rs 499, so that after two failed retries a reminder is still worth its price.
MCAmount == [r \in Records |-> 49900]

MCSymmetry == Permutations(Pods) \union Permutations(Callers)
============================================================================
