---------------------------- MODULE MCProviderStreams ----------------------------
(***************************************************************************)
(* Values for the constants of ProviderStreams: a role announcement, a     *)
(* text, a text that brings a usage, and a chunk that is only a usage.     *)
(***************************************************************************)
EXTENDS ProviderStreams, TLC

CONSTANTS s1, s2

TwoStreams == {s1, s2}
TwoTexts == {"a", "b"}

Counts(n) == [f \in TokenFields |-> n]

FourChunks ==
  {[choices |-> TRUE, content |-> "", usage |-> None],
   [choices |-> TRUE, content |-> "a", usage |-> None],
   [choices |-> TRUE, content |-> "b", usage |-> Counts(1)],
   [choices |-> FALSE, content |-> None, usage |-> Counts(2)]}

Delta(i, t) == [text |-> t, delta_index |-> i]

(* No script, one for two streams, and one for each.                       *)
SomeScripts ==
  {<<>>, <<<<Delta(0, "a"), Delta(1, "b")>>>>,
   <<<<Delta(0, "a"), Delta(1, "b")>>, <<Delta(0, "b")>>>>}

SomeUsages ==
  {None, [tokens |-> Counts(3), cost_usd |-> 1, is_complete |-> TRUE]}

Interchangeable == Permutations(TwoStreams)
================================================================================
