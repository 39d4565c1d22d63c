------------------------------ MODULE MCConsensusRun ------------------------------
(***************************************************************************)
(* Values for the constants of ConsensusRun: a complete snapshot,          *)
(* and none.                                                               *)
(***************************************************************************)
EXTENDS ConsensusRun

FullUsage == [tokens |-> [f \in TokenFields |-> 1], cost_usd |-> None, is_complete |-> TRUE]

OneUsage == {FullUsage}
TwoUsages == {FullUsage, None}
================================================================================
