------------------------------- MODULE StreamClient -------------------------------
(***************************************************************************)
(* The task that consumes a provider stream: it awaits __anext__() again   *)
(* and again, and keeps what comes back.  Nothing stops it from pulling    *)
(* again after an exception or after the end.                              *)
(***************************************************************************)
EXTENDS Usage

CONSTANTS
  Streams, \* the streams consumed, by one task each
  Texts    \* the non-empty texts a delta may carry

VARIABLES
  deltas,  \* the deltas each task was given
  outcome, \* what its last finished pull came to
  raised   \* the last exception it was given

StreamDelta == [text : Texts, delta_index : Nat]

clientVars == <<deltas, outcome, raised>>

Outcomes == {"none", "delta", "end", "exception"}

ClientInit ==
  /\ deltas = [s \in Streams |-> <<>>]
  /\ outcome = [s \in Streams |-> "none"]
  /\ raised = [s \in Streams |-> "none"]

(* __anext__ returns a StreamDelta.                                        *)
Given(s, text, index) ==
  /\ deltas' = [deltas EXCEPT ![s] = Append(@, [text |-> text, delta_index |-> index])]
  /\ outcome' = [outcome EXCEPT ![s] = "delta"]
  /\ UNCHANGED raised

(* __anext__ raises StopAsyncIteration: `async for` is over.               *)
Ends(s) ==
  /\ outcome' = [outcome EXCEPT ![s] = "end"]
  /\ UNCHANGED <<deltas, raised>>

Raises(s, error) ==
  /\ outcome' = [outcome EXCEPT ![s] = "exception"]
  /\ raised' = [raised EXCEPT ![s] = error]
  /\ UNCHANGED deltas
================================================================================
