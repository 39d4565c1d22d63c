------------------------------ MODULE MCOpenRouterRun ------------------------------
(***************************************************************************)
(* Values for the constants of OpenRouterRun: an answer in JSON, one in    *)
(* prose that was cut off, and no choice at all.                           *)
(***************************************************************************)
EXTENDS OpenRouterRun

FullUsage == [tokens |-> [f \in TokenFields |-> 1], cost_usd |-> None, is_complete |-> TRUE]

SomeAnswers ==
  {[choices |-> TRUE, content |-> "json", finish_reason |-> "stop", usage |-> FullUsage.tokens],
   [choices |-> TRUE, content |-> "prose", finish_reason |-> "length", usage |-> None],
   [choices |-> FALSE, content |-> None, finish_reason |-> None, usage |-> None]}

SomeUsages == {FullUsage, None}
================================================================================
