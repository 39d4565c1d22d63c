------------------------------ MODULE CommandStream ------------------------------
(***************************************************************************)
(* What the event stream of one command promises whoever follows it: the   *)
(* abstract specification that the two producers of streams in the code,   *)
(* run_consensus and AuthCommandExecution._execute, are shown to           *)
(* implement.  An element of the stream is only its kind: "received",      *)
(* "domain", "completed" or "failed".                                      *)
(*                                                                         *)
(* The promise is weaker than "every stream ends in a terminal event": an  *)
(* exception that leaves the producer abandons the stream where it stands. *)
(***************************************************************************)
EXTENDS Naturals, Sequences

VARIABLES
  stream, \* the kinds of the events emitted so far, in order
  status  \* "open", or how the producer ended

streamVars == <<stream, status>>

Terminal == {"completed", "failed"}

Kinds == {"received", "domain"} \cup Terminal

StreamTypeOK ==
  /\ stream \in Seq(Kinds)
  /\ status \in {"open", "abandoned"} \cup Terminal

(* The stream grew by zero or more events, all of kind k.                  *)
GrewBy(old, new, k) ==
  /\ Len(old) <= Len(new)
  /\ \A i \in 1 .. Len(old) : new[i] = old[i]
  /\ \A i \in Len(old) + 1 .. Len(new) : new[i] \in k

StreamInit ==
  /\ stream = <<>>
  /\ status = "open"

(* The command is acknowledged before anything else is said of it.         *)
Acknowledge ==
  /\ status = "open"
  /\ stream = <<>>
  /\ GrewBy(<<"received">>, stream', {"domain"})
  /\ UNCHANGED status

Progress ==
  /\ status = "open"
  /\ stream # <<>>
  /\ GrewBy(stream, stream', {"domain"})
  /\ UNCHANGED status

(* The one terminal event is the last event and names the outcome.         *)
Close ==
  /\ status = "open"
  /\ stream # <<>>
  /\ status' \in Terminal
  /\ GrewBy(stream, SubSeq(stream', 1, Len(stream') - 1), {"domain"})
  /\ stream'[Len(stream')] = status'

Abandon ==
  /\ status = "open"
  /\ stream # <<>>
  /\ status' = "abandoned"
  /\ GrewBy(stream, stream', {"domain"})

StreamNext == Acknowledge \/ Progress \/ Close \/ Abandon

StreamSpec == StreamInit /\ [][StreamNext]_streamVars
================================================================================
