------------------------------- MODULE MCAuthCommand -------------------------------
(***************************************************************************)
(* Values for the constants of AuthCommand: a short key and a longer one,  *)
(* and interchangeable processes.                                          *)
(***************************************************************************)
EXTENDS AuthCommand, TLC

CONSTANTS p1, p2, p3, short, long

TwoProcs == {p1, p2}
ThreeProcs == {p1, p2, p3}
TwoKeys == {short, long}
TwoSizes == (short :> 1) @@ (long :> 2)
OneOverride == {short}
NoOverride == {}

Interchangeable == Permutations(Procs)
================================================================================
