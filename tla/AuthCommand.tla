-------------------------------- MODULE AuthCommand --------------------------------
(***************************************************************************)
(* Nelson processes that share one key file.  Each runs one command:       *)
(*   auth set, auth status, auth clear: an AuthCommandExecution            *)
(*     (core/dispatcher.py) whose consumer pulls events from an async      *)
(*     generator; the handler runs during the second pull;                 *)
(*   run: resolve_credential (core/credentials.py), which only reads.      *)
(* A handler does its system calls one after the other, and those of       *)
(* different processes interleave.  Any process may stop at any point: it  *)
(* is killed, or its consumer pulls no more.                               *)
(***************************************************************************)
EXTENDS KeyStore, FiniteSetsExt

CONSTANT Overrides \* the keys a run may be given on its command line

ASSUME OverridesAssumption == Overrides \subseteq Keys /\ Absent \notin Keys

VARIABLES
  command,   \* the command of each process
  env,       \* whether each process has OPENROUTER_API_KEY set
  pc,        \* where each process stands
  events,    \* the events each execution has yielded
  result,    \* AuthCommandExecution._result, or what `run` resolved
  fault,     \* history: whether a system call of the process failed
  disturbed  \* history: whether another process changed the file after the
             \* process first did

commandVars == <<command, env, events, result>>
vars == <<key_file, content, fd, unlinked, command, env, pc, events, result, fault,
          disturbed>>

(* key: the key to save, or the one that overrides the others for a run.   *)
Commands == [type : {"set"}, key : Keys]
              \cup [type : {"status", "clear"}, key : {Absent}]
              \cup [type : {"run"}, key : Overrides \cup {Absent}]

NoResult == [type |-> "none"]

Final == {"completed", "failed", "raised", "resolved", "stopped"}

Init ==
  /\ StoreInit
  /\ command \in [Procs -> Commands]
  /\ env \in [Procs -> BOOLEAN]
  /\ \A p \in Procs : env[p] => command[p].type \in {"status", "run"}
  /\ pc = [p \in Procs |-> IF command[p].type = "run" THEN "resolving" ELSE "dispatched"]
  /\ events = [p \in Procs |-> <<>>]
  /\ result = [p \in Procs |-> NoResult]
  /\ fault = [p \in Procs |-> FALSE]
  /\ disturbed = [p \in Procs |-> FALSE]

Goto(p, l) == pc' = [pc EXCEPT ![p] = l]

Yield(p, e) == events' = [events EXCEPT ![p] = Append(@, e)]

Untouched == {"dispatched", "created", "received", "opening", "unlinking"}

(* Whoever had touched the file before sees it changed by p.               *)
Disturb(p) ==
  disturbed' = [q \in Procs |-> disturbed[q] \/ (q # p /\ pc[q] \notin Untouched)]

--------------------------------------------------------------------------------

(* The .events property: the first access makes the generator, later ones  *)
(* return the same.                                                        *)
MutantAccessEvents(p) ==
  /\ pc[p] \in {"dispatched", "received", "domain"}
  /\ Len(events[p]) < 6 \* bound: accesses that restart the execution
  /\ Goto(p, "created")
  /\ UNCHANGED <<storeVars, commandVars, fault, disturbed>>

AccessEvents(p) ==
  /\ pc[p] = "dispatched"
  /\ Goto(p, "created")
  /\ UNCHANGED <<storeVars, commandVars, fault, disturbed>>

(* First pull: the command is acknowledged, nothing else happens.          *)
PullReceived(p) ==
  /\ pc[p] = "created"
  /\ Goto(p, "received")
  /\ Yield(p, "command_received")
  /\ UNCHANGED <<storeVars, command, env, result, fault, disturbed>>

(* Second pull: the handler starts.                                        *)
StartHandler(p) ==
  /\ pc[p] = "received"
  /\ Goto(p, CASE command[p].type = "set"    -> "opening"
               [] command[p].type = "status" -> "read_opening"
               [] command[p].type = "clear"  -> "unlinking")
  /\ UNCHANGED <<storeVars, commandVars, fault, disturbed>>

(* The handler is through: the result is kept, then its event is yielded.  *)
YieldDomain(p, e, r) ==
  /\ Goto(p, "domain")
  /\ result' = [result EXCEPT ![p] = r]
  /\ Yield(p, e)
  /\ UNCHANGED <<command, env, fault>>

(* An OSError in the handler: command_failed in place of the domain event, *)
(* and no result.                                                          *)
FailCommand(p) ==
  /\ Goto(p, "failed")
  /\ fault' = [fault EXCEPT ![p] = TRUE]
  /\ Yield(p, "command_failed")
  /\ UNCHANGED <<command, env, result, disturbed>>

(* Third pull.                                                             *)
PullCompleted(p) ==
  /\ pc[p] = "domain"
  /\ Goto(p, "completed")
  /\ Yield(p, "command_completed")
  /\ UNCHANGED <<storeVars, command, env, result, fault, disturbed>>

--------------------------------------------------------------------------------

(* save_key: mkdir and open, write, close.                                 *)
SaveOpens(p) ==
  /\ pc[p] = "opening"
  /\ OpenTruncate(p)
  /\ Goto(p, "writing")
  /\ Disturb(p)
  /\ UNCHANGED <<commandVars, fault>>

SaveFailsToOpen(p) ==
  /\ pc[p] = "opening"
  /\ FailCommand(p)
  /\ UNCHANGED storeVars

SaveWrites(p) ==
  /\ pc[p] = "writing"
  /\ \E n \in 1 .. Size[command[p].key] : Write(p, command[p].key, n)
  /\ Goto(p, "closing")
  /\ Disturb(p)
  /\ UNCHANGED <<commandVars, fault>>

(* The write fails: the file is closed and stays truncated.                *)
SaveFailsToWrite(p) ==
  /\ pc[p] = "writing"
  /\ FailCommand(p)
  /\ CloseFile(p)

SaveCloses(p) ==
  /\ pc[p] = "closing"
  /\ CloseFile(p)
  /\ YieldDomain(p, "auth_key_saved", [type |-> "set"])
  /\ UNCHANGED disturbed

(* A deferred write error shows at close: the key may be there all the     *)
(* same.                                                                   *)
SaveFailsToClose(p) ==
  /\ pc[p] = "closing"
  /\ FailCommand(p)
  /\ CloseFile(p)

(* delete_key: one unlink, then the report; a process can be killed        *)
(* between the two.  (Where the last call of a handler changes nothing     *)
(* another process sees, a close, a read or an open that fails, call and   *)
(* report are one step: a kill between them leaves what a kill before the  *)
(* call leaves.)                                                           *)
MutantClearUnlinks(p) == \* exists() first: the file may go before the unlink
  /\ pc[p] \in {"unlinking", "exists"}
  /\ \/ /\ pc[p] = "unlinking" /\ key_file # Absent
        /\ Goto(p, "exists")
        /\ UNCHANGED <<storeVars, commandVars, fault, disturbed>>
     \/ /\ pc[p] = "exists" /\ key_file # Absent
        /\ Unlink(p)
        /\ Goto(p, "removed")
        /\ Disturb(p)
        /\ UNCHANGED <<commandVars, fault>>
     \/ /\ pc[p] = "exists" /\ key_file = Absent
        /\ Goto(p, "failed")
        /\ Yield(p, "command_failed")
        /\ UNCHANGED <<storeVars, command, env, result, fault, disturbed>>

MutantClearTruncates(p) == \* the file is emptied and stays
  /\ pc[p] = "unlinking"
  /\ key_file # Absent
  /\ content' = [content EXCEPT ![key_file] = <<>>]
  /\ Goto(p, "removed")
  /\ Disturb(p)
  /\ UNCHANGED <<key_file, fd, unlinked, commandVars, fault>>

ClearUnlinks(p) ==
  /\ pc[p] = "unlinking"
  /\ Unlink(p)
  /\ Goto(p, "removed")
  /\ Disturb(p)
  /\ UNCHANGED <<commandVars, fault>>

ReportsRemoval(p) ==
  /\ pc[p] = "removed"
  /\ YieldDomain(p, "auth_key_cleared", [type |-> "clear", removed |-> TRUE])
  /\ UNCHANGED <<storeVars, disturbed>>

(* Mutant of ClearFindsNothing: unlink(missing_ok=True), always "removed". *)
MutantClearFindsNothing(p) ==
  /\ pc[p] = "unlinking"
  /\ key_file = Absent
  /\ YieldDomain(p, "auth_key_cleared", [type |-> "clear", removed |-> TRUE])
  /\ UNCHANGED <<storeVars, disturbed>>

ClearFindsNothing(p) ==
  /\ pc[p] = "unlinking"
  /\ key_file = Absent
  /\ YieldDomain(p, "auth_key_cleared", [type |-> "clear", removed |-> FALSE])
  /\ UNCHANGED <<storeVars, disturbed>>

ClearFails(p) ==
  /\ pc[p] = "unlinking"
  /\ FailCommand(p)
  /\ UNCHANGED storeVars

--------------------------------------------------------------------------------

(* Mutant of EffectiveSource: the saved key first.                         *)
MutantEffectiveSource(env_present, saved_present) ==
  CASE saved_present                  -> "saved"
    [] ~ saved_present /\ env_present -> "env"
    [] OTHER                          -> "none"

(* What `auth status` says a run would use.                                *)
EffectiveSource(env_present, saved_present) ==
  CASE env_present                    -> "env"
    [] ~ env_present /\ saved_present -> "saved"
    [] OTHER                          -> "none"

(* resolve_credential: the override, then the environment; the file is     *)
(* read only when there is neither.                                        *)
ResolveWithoutFile(p) ==
  /\ pc[p] = "resolving"
  /\ command[p].key # Absent \/ env[p]
  /\ Goto(p, "resolved")
  /\ result' = [result EXCEPT ![p] =
                  [type |-> "run", text |-> Absent,
                   source |-> IF command[p].key # Absent THEN "cli" ELSE "env"]]
  /\ UNCHANGED <<storeVars, command, env, events, fault, disturbed>>

ResolveFromFile(p) ==
  /\ pc[p] = "resolving"
  /\ command[p].key = Absent /\ ~ env[p]
  /\ Goto(p, "read_opening")
  /\ UNCHANGED <<storeVars, commandVars, fault, disturbed>>

(* read_key is through: text is what it returned, Absent for None.         *)
ReportStatus(p, text) ==
  /\ command[p].type = "status"
  /\ YieldDomain(p, "auth_status_reported",
       [type |-> "status", source |-> EffectiveSource(env[p], text # Absent)])

(* Without a saved key the run ends in MissingCredentialError.             *)
Resolve(p, text) ==
  /\ command[p].type = "run"
  /\ Goto(p, IF text = Absent THEN "raised" ELSE "resolved")
  /\ result' = [result EXCEPT ![p] =
                  [type |-> "run", text |-> text,
                   source |-> IF text = Absent THEN "none" ELSE "saved"]]
  /\ UNCHANGED <<command, env, events, fault>>

Deliver(p, text) == ReportStatus(p, text) \/ Resolve(p, text)

ReadFindsNothing(p) ==
  /\ pc[p] = "read_opening"
  /\ key_file = Absent
  /\ Deliver(p, Absent)
  /\ UNCHANGED <<storeVars, disturbed>>

ReadOpens(p) ==
  /\ pc[p] = "read_opening"
  /\ key_file # Absent
  /\ OpenForReading(p)
  /\ Goto(p, "reading")
  /\ UNCHANGED <<commandVars, fault, disturbed>>

Reads(p) ==
  /\ pc[p] = "reading"
  /\ Decodes(content[fd[p]])
  /\ Deliver(p, content[fd[p]])
  /\ CloseFile(p)
  /\ UNCHANGED disturbed

(* UnicodeDecodeError is no OSError: it leaves the generator and the       *)
(* process, without an event.                                              *)
ReadFailsToDecode(p) ==
  /\ pc[p] = "reading"
  /\ ~ Decodes(content[fd[p]])
  /\ Goto(p, "raised")
  /\ CloseFile(p)
  /\ UNCHANGED <<commandVars, fault, disturbed>>

(* An OSError of open or read fails a status; nothing catches it in a run. *)
ReadFails(p) ==
  /\ pc[p] \in {"read_opening", "reading"}
  /\ CloseFile(p)
  /\ \/ /\ command[p].type = "status"
        /\ FailCommand(p)
     \/ /\ command[p].type = "run"
        /\ Goto(p, "raised")
        /\ fault' = [fault EXCEPT ![p] = TRUE]
        /\ UNCHANGED <<commandVars, disturbed>>

(* The process is killed, or its consumer pulls no more.                   *)
Stop(p) ==
  /\ pc[p] \notin Final
  /\ Goto(p, "stopped")
  /\ CloseFile(p)
  /\ UNCHANGED <<commandVars, fault, disturbed>>

Rest ==
  /\ \A p \in Procs : pc[p] \in Final
  /\ UNCHANGED vars

SaveStep(p) ==
  \/ SaveOpens(p) \/ SaveFailsToOpen(p)
  \/ SaveWrites(p) \/ SaveFailsToWrite(p)
  \/ SaveCloses(p) \/ SaveFailsToClose(p)

ClearStep(p) ==
  ClearUnlinks(p) \/ ReportsRemoval(p) \/ ClearFindsNothing(p) \/ ClearFails(p)

ReadStep(p) ==
  \/ ResolveWithoutFile(p) \/ ResolveFromFile(p)
  \/ ReadFindsNothing(p) \/ ReadOpens(p)
  \/ Reads(p) \/ ReadFailsToDecode(p) \/ ReadFails(p)

PullStep(p) ==
  AccessEvents(p) \/ PullReceived(p) \/ StartHandler(p) \/ PullCompleted(p)

Next ==
  \/ \E p \in Procs :
       PullStep(p) \/ SaveStep(p) \/ ClearStep(p) \/ ReadStep(p) \/ Stop(p)
  \/ Rest

Spec == Init /\ [][Next]_vars

--------------------------------------------------------------------------------

Locations == {"dispatched", "created", "received", "opening", "writing", "closing",
              "unlinking", "removed", "resolving", "read_opening", "reading", "domain"} \cup Final

AuthEventTypes == {"command_received", "auth_key_saved", "auth_key_cleared",
               "auth_status_reported", "command_completed", "command_failed"}

Results == {NoResult, [type |-> "set"]}
             \cup [type : {"clear"}, removed : BOOLEAN]
             \cup [type : {"status"}, source : {"env", "saved", "none"}]
             \cup [type : {"run"}, source : {"cli", "env", "saved", "none"},
                   text : {Absent} \cup Seq(Keys)]

(* Every variable has its type.                                            *)
TypeOK ==
  /\ StoreTypeOK
  /\ command \in [Procs -> Commands]
  /\ env \in [Procs -> BOOLEAN]
  /\ pc \in [Procs -> Locations]
  /\ events \in [Procs -> Seq(AuthEventTypes)]
  /\ result \in [Procs -> Results]
  /\ fault \in [Procs -> BOOLEAN]
  /\ disturbed \in [Procs -> BOOLEAN]

--------------------------------------------------------------------------------

(* The exit code of an auth command (cli/auth.py), which only looks at the *)
(* type of the result, and 1 for an exception nothing catches.             *)
ExitCode(p) ==
  CASE pc[p] = "raised"         -> 1
    [] pc[p] # "raised" /\ result[p] = NoResult -> 3
    [] pc[p] # "raised" /\ result[p] # NoResult /\ command[p].type = "status" ->
         IF result[p].source = "none" THEN 3 ELSE 0
    [] OTHER -> 0

Exited == {p \in Procs : pc[p] \in {"completed", "failed", "raised"} /\ command[p].type # "run"}

Holds(text, k) == \E n \in 1 .. Size[k] : text = [i \in 1 .. n |-> k]

(* Exit code 0 tells the truth, unless another process touched the file    *)
(* after this one first did: after `auth set` the file is there and holds  *)
(* this key and nothing of an older one (at least its start: a short write *)
(* goes unnoticed); after `auth clear` there is no file.  Either way no    *)
(* system call of the process failed.                                      *)
SuccessIsTrue ==
  \A p \in Exited : ExitCode(p) = 0 /\ ~ disturbed[p] =>
    /\ ~ fault[p]
    /\ CASE command[p].type = "set" ->
              key_file # Absent /\ Holds(content[key_file], command[p].key)
         [] command[p].type = "clear" -> key_file = Absent
         [] OTHER -> TRUE

(* No race between processes makes a command fail: `auth set` and `auth    *)
(* clear` exit with an error only when a system call of their own failed,  *)
(* and `auth status` also when no key is found or the file does not decode *)
(* (delete_key and read_key catch FileNotFoundError instead of asking      *)
(* exists() first).                                                        *)
FailsOnlyOnFault ==
  \A p \in Exited : ExitCode(p) # 0 =>
    \/ fault[p]
    \/ /\ command[p].type = "status"
       /\ pc[p] = "raised" \/ result[p] # NoResult

(* Of several `auth clear`, no two claim the same removal, and a file that *)
(* lost its name is claimed by the one that removed it, unless that one    *)
(* has not told yet or was stopped before it could.                        *)
RemovalAccounting ==
  LET claimed == {p \in Procs : result[p] = [type |-> "clear", removed |-> TRUE]}
      untold  == {p \in Procs : \/ pc[p] = "removed"
                                \/ /\ command[p].type = "clear"
                                   /\ pc[p] = "stopped" /\ result[p] = NoResult}
  IN /\ Cardinality(claimed) <= Cardinality(unlinked)
     /\ Cardinality(unlinked) <= Cardinality(claimed \cup untold)

(* `auth status` reports the source a run would take its key from: with    *)
(* the same environment and nobody writing the file, the two agree         *)
(* (CLI_SPEC section 4; the priority is coded twice).                      *)
StatusAgreesWithRun ==
  (\A p \in Procs : command[p].type \in {"status", "run"}) =>
    \A p, q \in Procs :
      /\ result[p].type = "status"
      /\ result[q].type = "run" /\ command[q].key = Absent
      /\ env[p] = env[q]
      => result[p].source = result[q].source

(* What a run reads in the file is one key's text, whole or in part,       *)
(* unless a save explains it: it is empty only if a save had opened the    *)
(* file, and mixes two keys only if two saves had (save_key truncates, so  *)
(* that one save alone leaves nothing of an older key).                    *)
ResolvedTextHasAnOrigin ==
  \A q \in Procs : result[q].type = "run" /\ result[q].source = "saved" =>
    LET text   == result[q].text
        Saving == {p \in Procs : command[p].type = "set" /\ pc[p] \notin Untouched}
    IN /\ text = <<>> => Saving # {}
       /\ Cardinality({text[i] : i \in 1 .. Len(text)}) > 1 => Cardinality(Saving) > 1

(* The events of each command implement the abstract command stream; a run *)
(* of resolve_credential, and a command nobody pulled, has none.           *)
Kind(e) == CASE e = "command_received"  -> "received"
             [] e = "command_completed" -> "completed"
             [] e = "command_failed"    -> "failed"
             [] OTHER                   -> "domain"

Stream(p) == INSTANCE CommandStream WITH
  stream <- [i \in 1 .. Len(events[p]) |-> Kind(events[p][i])],
  status <- CASE pc[p] \in {"completed", "failed"} -> pc[p]
              [] pc[p] \in {"raised", "stopped"} /\ events[p] # <<>> -> "abandoned"
              [] OTHER -> "open"

(* This is \A p : Stream(p)!StreamSpec, with the quantifier moved inwards. *)
ImplementsStream ==
  /\ \A p \in Procs : Stream(p)!StreamInit
  /\ [][\A p \in Procs : [Stream(p)!StreamNext]_(Stream(p)!streamVars)]_vars

--------------------------------------------------------------------------------

(* What the documents say of the commands and the code does not do.        *)

(* read_key returns the saved key: all of a key, and of one key.           *)
ReadKeyIsSavedKey ==
  \A q \in Procs : result[q].type = "run" /\ result[q].source = "saved" =>
    \E k \in Keys : result[q].text = Text(k)
================================================================================
