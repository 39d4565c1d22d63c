------------------------------ MODULE ProviderStream ------------------------------
(***************************************************************************)
(* What a ProviderStream (providers/base.py) promises the task that pulls  *)
(* deltas out of it: the abstract specification that the streams of both   *)
(* providers are shown to implement.                                       *)
(*                                                                         *)
(* The promise is weak after a failure.  A stream that raised before it    *)
(* delivered anything may recover when it is pulled again; one that raised *)
(* later delivers nothing more, but may say that it is consumed, so that   *)
(* only the first exception tells a truncated text from a complete one.    *)
(***************************************************************************)
EXTENDS Naturals, Sequences

CONSTANTS
  Texts,     \* the non-empty texts a delta may carry
  Snapshots, \* the usage snapshots a stream may report
  NoSnapshot \* usage() returns None

VARIABLES
  deltas, \* the StreamDelta objects delivered so far
  usage,  \* what usage() returns once the stream is consumed
  status  \* "open"; "failed": the last pull raised; "consumed": it ended

streamVars == <<deltas, usage, status>>

StreamInit ==
  /\ deltas = <<>>
  /\ usage = NoSnapshot
  /\ status = "open"

(* Deltas are numbered from zero without a gap, and each has a text.       *)
Deliver ==
  /\ status = "open" \/ (status = "failed" /\ deltas = <<>>)
  /\ \E t \in Texts : deltas' = Append(deltas, [text |-> t, delta_index |-> Len(deltas)])
  /\ status' = "open"
  /\ UNCHANGED usage

Fail ==
  /\ status # "consumed"
  /\ status' = "failed"
  /\ UNCHANGED <<deltas, usage>>

(* The end is final: from here on nothing is delivered, nothing is raised, *)
(* and usage() always gives the same answer.                               *)
Finish ==
  /\ status # "consumed"
  /\ status' = "consumed"
  /\ usage' \in Snapshots \cup {NoSnapshot}
  /\ UNCHANGED deltas

StreamNext == Deliver \/ Fail \/ Finish

StreamSpec == StreamInit /\ [][StreamNext]_streamVars
================================================================================
