---------------------------- MODULE MCConsensusSession ----------------------------
(***************************************************************************)
(* Values for the constants of ConsensusSession, with two participants: a  *)
(* script that runs to the end, every way for the reviews and the gate to  *)
(* decide, every way for five of the replies to report their usage, every  *)
(* shorter script, and every script with two responses swapped.            *)
(***************************************************************************)
EXTENDS ConsensusSession

FullUsage == [tokens |-> [f \in TokenFields |-> 1], cost_usd |-> None, is_complete |-> TRUE]

PartialUsage ==
  [tokens |-> [f \in TokenFields |-> IF f = "total_tokens" THEN None ELSE 2],
   cost_usd |-> 1, is_complete |-> FALSE]

AllUsages == {FullUsage, PartialUsage, None}

Purposes == <<"task_framing", "initial_contribution", "initial_contribution",
              "candidate_synthesis", "candidate_review", "candidate_review", "release_gate">>

Answer(purpose, decision, usage) == [purpose |-> purpose, decision |-> decision, usage |-> usage]

HappyDecisions == <<"none", "none", "none", "none", "approve", "minor_revise", "pass">>

HappyScript == [k \in 1 .. 7 |-> Answer(Purposes[k], HappyDecisions[k], FullUsage)]

Shorter == {SubSeq(HappyScript, 1, k) : k \in 0 .. 6}

Decided ==
  {[HappyScript EXCEPT ![5].decision = d, ![6].decision = e, ![7].decision = g] :
     d \in ReviewDecisions, e \in ReviewDecisions, g \in GateDecisions}

Metered ==
  {[HappyScript EXCEPT ![1].usage = u[1], ![2].usage = u[2], ![3].usage = u[3],
                       ![6].usage = u[4], ![7].usage = u[5]] : u \in [1 .. 5 -> AllUsages]}

Swapped ==
  {[HappyScript EXCEPT ![j] = HappyScript[k], ![k] = HappyScript[j]] : j, k \in 1 .. 7}

AllScripts == Shorter \cup Decided \cup Metered \cup Swapped
================================================================================
