---------------------------------- MODULE Usage ----------------------------------
(***************************************************************************)
(* Token and cost accounting of a run: what the orchestrator keeps of each *)
(* provider reply (_record_usage) and how it adds it up                    *)
(* (_aggregate_usage).  Costs are whole units: the properties only need to *)
(* tell an absent cost, a zero cost and a positive one apart.              *)
(***************************************************************************)
EXTENDS Integers, SequencesExt

CONSTANT None \* Python's None

ASSUME NoneAssumption == None \notin Int

TokenFields == {"prompt_tokens", "completion_tokens", "total_tokens"}

Optional == Nat \cup {None}

(* UsageSnapshot: any count may be absent, and the provider may flag it.   *)
UsageSnapshot == [tokens : [TokenFields -> Optional], cost_usd : Optional,
                  is_complete : BOOLEAN]

(* What the orchestrator stores for one invocation.  Completeness is       *)
(* "a snapshot came back": neither its own flag nor its fields count.      *)
RecordUsage(call, usage) ==
  IF usage = None
  THEN [call |-> call, tokens |-> [f \in TokenFields |-> None],
        cost_usd |-> None, is_complete |-> FALSE]
  ELSE [call |-> call, tokens |-> usage.tokens,
        cost_usd |-> usage.cost_usd, is_complete |-> TRUE]

InvocationUsage(Calls) ==
  [call : Calls, tokens : [TokenFields -> Optional], cost_usd : Optional,
   is_complete : BOOLEAN]

OrZero(n) == IF n = None THEN 0 ELSE n

(* The aggregation loop, one accumulator at a time.  An absent count adds  *)
(* nothing and clears is_complete; an absent cost only adds nothing, and   *)
(* the total cost is absent when every cost is.                            *)
Total(amounts) == FoldLeft(LAMBDA sum, n : sum + OrZero(n), 0, amounts)

(* Mutant of AggregateUsage: trusts the flag of the records.               *)
MutantAggregateUsage(usages) ==
  [tokens      |-> [f \in TokenFields |->
                      Total([i \in DOMAIN usages |-> usages[i].tokens[f]])],
   cost_usd    |-> IF \A i \in DOMAIN usages : usages[i].cost_usd = None THEN None
                   ELSE Total([i \in DOMAIN usages |-> usages[i].cost_usd]),
   is_complete |-> \A i \in DOMAIN usages : usages[i].is_complete]

AggregateUsage(usages) ==
  [tokens      |-> [f \in TokenFields |->
                      Total([i \in DOMAIN usages |-> usages[i].tokens[f]])],
   cost_usd    |-> IF \A i \in DOMAIN usages : usages[i].cost_usd = None THEN None
                   ELSE Total([i \in DOMAIN usages |-> usages[i].cost_usd]),
   is_complete |-> \A i \in DOMAIN usages, f \in TokenFields :
                     usages[i].tokens[f] # None]
================================================================================
