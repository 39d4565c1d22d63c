------------------------------- MODULE EventEmitter -------------------------------
(***************************************************************************)
(* EventEmitter (core/events.py): the list of stamped events of a command, *)
(* and the consumers that iterate over it.  Iteration reads the list in    *)
(* place and can only begin once the emitter is closed; emit does not ask  *)
(* whether it is.                                                          *)
(***************************************************************************)
EXTENDS Naturals, Sequences

CONSTANT Followers \* the consumers of the event stream

VARIABLES
  sequence, \* _sequence
  events,   \* _events, each with its number
  closed,   \* _closed
  follower  \* each consumer's iteration, and how many events it was given

emitterVars == <<sequence, events, closed, follower>>

EmitterInit ==
  /\ sequence = 0
  /\ events = <<>>
  /\ closed = FALSE
  /\ follower = [f \in Followers |-> [state |-> "new", given |-> 0]]

(* Mutant of EmitAll: an event is stamped before the counter goes up.      *)
MutantEmitAll(batch) ==
  /\ sequence' = sequence + Len(batch)
  /\ events' = events \o [i \in DOMAIN batch |-> [sequence |-> sequence + i - 1, event |-> batch[i]]]
  /\ UNCHANGED <<closed, follower>>

(* One emit() per member of batch: the counter goes up before the event is *)
(* built, and the event is listed under the new number.                    *)
EmitAll(batch) ==
  /\ sequence' = sequence + Len(batch)
  /\ events' = events \o [i \in DOMAIN batch |-> [sequence |-> sequence + i, event |-> batch[i]]]
  /\ UNCHANGED <<closed, follower>>

Close ==
  /\ closed' = TRUE
  /\ UNCHANGED <<sequence, events, follower>>

(* Mutant of StartsIteration: the check of the closed flag is gone.        *)
MutantStartsIteration(f) ==
  /\ follower[f].state \in {"new", "refused"}
  /\ follower' = [follower EXCEPT ![f].state = "following"]
  /\ UNCHANGED <<sequence, events, closed>>

(* RuntimeError before close(); a consumer may try again.                  *)
StartsIteration(f) ==
  /\ follower[f].state \in {"new", "refused"}
  /\ follower' = [follower EXCEPT ![f].state = IF closed THEN "following" ELSE "refused"]
  /\ UNCHANGED <<sequence, events, closed>>

TakesEvent(f) ==
  /\ follower[f].state = "following"
  /\ follower[f].given < Len(events)
  /\ follower' = [follower EXCEPT ![f].given = @ + 1]
  /\ UNCHANGED <<sequence, events, closed>>

EndsIteration(f) ==
  /\ follower[f].state = "following"
  /\ follower[f].given = Len(events)
  /\ follower' = [follower EXCEPT ![f].state = "ended"]
  /\ UNCHANGED <<sequence, events, closed>>
================================================================================
