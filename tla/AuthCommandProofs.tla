----------------------------- MODULE AuthCommandProofs -----------------------------
(***************************************************************************)
(* Theorems about AuthCommand, for every set of processes, every set of    *)
(* keys of any length and every content found in the file at the start.    *)
(***************************************************************************)
EXTENDS AuthCommand, FiniteSetTheorems, SequenceTheorems, TLAPS

USE KeyStoreAssumption, OverridesAssumption
USE DEF commandVars, storeVars, Goto, Yield

(* What a step of process p may be.                                        *)
Step(p) == PullStep(p) \/ SaveStep(p) \/ ClearStep(p) \/ ReadStep(p) \/ Stop(p)

LEMMA NextIsStep ==
  ASSUME [Next]_vars
  PROVE  (\E p \in Procs : Step(p)) \/ UNCHANGED vars
  BY DEF Next, Step, Rest

(* Nobody's command or environment changes, and a step of p moves only p.  *)
Frame(p) ==
  /\ UNCHANGED <<command, env>>
  /\ \A q \in Procs \ {p} : /\ pc'[q] = pc[q] /\ fd'[q] = fd[q]
                            /\ events'[q] = events[q] /\ result'[q] = result[q]
                            /\ fault'[q] = fault[q]

LEMMA StepFrame ==
  ASSUME TypeOK, NEW p \in Procs, Step(p)
  PROVE  Frame(p)
  <1> USE DEF TypeOK, StoreTypeOK, Frame
  <1>1. CASE PullStep(p)
    BY <1>1 DEF PullStep, AccessEvents, PullReceived, StartHandler, PullCompleted
  <1>2. CASE SaveStep(p)
    BY <1>2 DEF SaveStep, SaveOpens, SaveFailsToOpen, SaveWrites, SaveFailsToWrite, SaveCloses,
       SaveFailsToClose, OpenTruncate, Write, CloseFile, FailCommand, YieldDomain
  <1>3. CASE ClearStep(p)
    BY <1>3 DEF ClearStep, ClearUnlinks, ReportsRemoval, ClearFindsNothing, ClearFails, Unlink,
       FailCommand, YieldDomain
  <1>4. CASE ReadStep(p)
    BY <1>4 DEF ReadStep, ResolveWithoutFile, ResolveFromFile, ReadFindsNothing, ReadOpens,
       Reads, ReadFailsToDecode, ReadFails, Deliver, ReportStatus, Resolve, OpenForReading,
       CloseFile, FailCommand, YieldDomain
  <1>5. CASE Stop(p)
    BY <1>5 DEF Stop, CloseFile
  <1> QED BY <1>1, <1>2, <1>3, <1>4, <1>5 DEF Step

--------------------------------------------------------------------------------

(* Where a process can be depends on its command; it has the file open     *)
(* exactly between its open and its close; a result is that of its command *)
(* and stands from the domain event on; only a failed call ends in failed. *)
PlaceInv(p) ==
  /\ pc[p] \in {"opening", "writing", "closing"} => command[p].type = "set"
  /\ pc[p] \in {"unlinking", "removed"} => command[p].type = "clear"
  /\ pc[p] \in {"read_opening", "reading", "raised"} => command[p].type \in {"status", "run"}
  /\ pc[p] \in {"resolving", "resolved"} => command[p].type = "run"
  /\ pc[p] \in {"dispatched", "created", "received", "domain", "completed", "failed"} =>
       command[p].type # "run"
  /\ fd[p] # Absent <=> pc[p] \in {"writing", "closing", "reading"}
  /\ result[p] # NoResult => /\ result[p].type = command[p].type
                             /\ pc[p] \in {"domain", "completed", "stopped", "resolved", "raised"}
                             /\ pc[p] = "raised" => command[p].type = "run"
  /\ pc[p] \in {"domain", "completed", "resolved"} => result[p] # NoResult
  /\ pc[p] = "failed" => fault[p]
  /\ fault[p] => pc[p] \in {"failed", "raised"}
  /\ fault[p] /\ pc[p] = "raised" => command[p].type = "run"

ControlInv == TypeOK /\ \A p \in Procs : PlaceInv(p)

LEMMA ResultsType ==
  /\ NoResult \in Results /\ [type |-> "set"] \in Results
  /\ \A b \in BOOLEAN : [type |-> "clear", removed |-> b] \in Results
  /\ \A w \in {"env", "saved", "none"} : [type |-> "status", source |-> w] \in Results
  /\ \A w \in {"cli", "env", "saved", "none"}, t \in {Absent} \cup Seq(Keys) :
       [type |-> "run", source |-> w, text |-> t] \in Results
  BY DEF Results

LEMMA CommandParts ==
  ASSUME NEW c \in Commands
  PROVE  /\ c.type \in {"set", "status", "clear", "run"}
         /\ c.type = "set" => c.key \in Keys
  BY DEF Commands

LEMMA DisturbType ==
  ASSUME TypeOK, NEW p \in Procs, Disturb(p)
  PROVE  disturbed' \in [Procs -> BOOLEAN]
  BY DEF TypeOK, Disturb

(* The pulls that run no part of a handler.                                *)
LEMMA PullControl ==
  ASSUME TypeOK, NEW p \in Procs, PlaceInv(p), PullStep(p)
  PROVE  TypeOK' /\ PlaceInv(p)'
  <1> USE DEF TypeOK, StoreTypeOK, PlaceInv, Locations, Final
  <1>1. CASE AccessEvents(p)
    BY <1>1 DEF AccessEvents
  <1>2. CASE PullReceived(p)
    BY <1>2, AppendProperties DEF PullReceived, AuthEventTypes
  <1>3. CASE StartHandler(p)
    <2>1. command[p].type \in {"set", "status", "clear"}
      BY <1>3, CommandParts DEF StartHandler
    <2>2. \/ command[p].type = "set" /\ pc' = [pc EXCEPT ![p] = "opening"]
          \/ command[p].type = "status" /\ pc' = [pc EXCEPT ![p] = "read_opening"]
          \/ command[p].type = "clear" /\ pc' = [pc EXCEPT ![p] = "unlinking"]
      BY <1>3, <2>1, Zenon DEF StartHandler
    <2> QED BY <1>3, <2>2 DEF StartHandler
  <1>4. CASE PullCompleted(p)
    BY <1>4, AppendProperties DEF PullCompleted, AuthEventTypes
  <1> QED BY <1>1, <1>2, <1>3, <1>4 DEF PullStep

(* What a handler leaves when it is through, and when a call of it fails.  *)
LEMMA YieldControl ==
  ASSUME TypeOK, NEW p \in Procs, PlaceInv(p), NEW e \in AuthEventTypes, NEW r \in Results,
         YieldDomain(p, e, r), r # NoResult, r.type = command[p].type,
         pc[p] \in {"closing", "unlinking", "removed", "read_opening", "reading"},
         r.type # "run", StoreTypeOK', fd'[p] = Absent, disturbed' \in [Procs -> BOOLEAN]
  PROVE  TypeOK' /\ PlaceInv(p)'
  <1>1. events' \in [Procs -> Seq(AuthEventTypes)]
    BY AppendProperties DEF YieldDomain, TypeOK
  <1> QED BY <1>1 DEF YieldDomain, TypeOK, PlaceInv, Locations, Final

LEMMA FailControl ==
  ASSUME TypeOK, NEW p \in Procs, PlaceInv(p), FailCommand(p), command[p].type # "run",
         pc[p] \in {"opening", "writing", "closing", "unlinking", "read_opening", "reading"},
         StoreTypeOK', fd'[p] = Absent
  PROVE  TypeOK' /\ PlaceInv(p)'
  <1>1. events' \in [Procs -> Seq(AuthEventTypes)]
    BY AppendProperties DEF FailCommand, AuthEventTypes, TypeOK
  <1> QED BY <1>1 DEF FailCommand, TypeOK, PlaceInv, Locations, Final

LEMMA CloseType ==
  ASSUME StoreTypeOK, NEW p \in Procs, CloseFile(p)
  PROVE  StoreTypeOK' /\ fd'[p] = Absent
  BY DEF CloseFile, StoreTypeOK

LEMMA OverlayType ==
  ASSUME NEW old \in Seq(Blocks), NEW k \in Keys, NEW n \in Nat
  PROVE  Overlay(old, k, n) \in Seq(Blocks)
  BY DEF Overlay, Blocks

LEMMA SaveControl ==
  ASSUME TypeOK, NEW p \in Procs, PlaceInv(p), SaveStep(p)
  PROVE  TypeOK' /\ PlaceInv(p)'
  <1>1. StoreTypeOK
    BY DEF TypeOK
  <1>2. CASE SaveOpens(p)
    <2>1. StoreTypeOK' /\ fd'[p] # Absent
      <3>1. <<>> \in Seq(Blocks)
        BY EmptySeq
      <3> QED BY <1>1, <1>2, <3>1 DEF SaveOpens, OpenTruncate, StoreTypeOK, Inodes
    <2>2. disturbed' \in [Procs -> BOOLEAN]
      BY <1>2, DisturbType DEF SaveOpens
    <2> QED BY <1>2, <2>1, <2>2 DEF SaveOpens, TypeOK, PlaceInv, Locations
  <1>3. CASE SaveWrites(p)
    <2>1. command[p].key \in Keys
      BY <1>3, CommandParts DEF SaveWrites, PlaceInv, TypeOK
    <2>2. PICK n \in 1 .. Size[command[p].key] : Write(p, command[p].key, n)
      BY <1>3 DEF SaveWrites
    <2>3. content' = [content EXCEPT ![fd[p]] = Overlay(@, command[p].key, n)]
          /\ UNCHANGED <<key_file, fd, unlinked>>
      BY <2>2 DEF Write
    <2>4. \A t \in Seq(Blocks) : Overlay(t, command[p].key, n) \in Seq(Blocks)
      <3>1. n \in Nat
        BY <2>1
      <3> QED BY <2>1, <3>1, OverlayType
    <2>5. StoreTypeOK'
      BY <1>1, <2>3, <2>4 DEF StoreTypeOK
    <2>6. disturbed' \in [Procs -> BOOLEAN]
      BY <1>3, DisturbType DEF SaveWrites
    <2> QED BY <1>3, <2>3, <2>5, <2>6 DEF SaveWrites, TypeOK, PlaceInv, Locations
  <1>4. CASE SaveCloses(p)
    <2>1. /\ StoreTypeOK' /\ fd'[p] = Absent /\ disturbed' = disturbed
          /\ YieldDomain(p, "auth_key_saved", [type |-> "set"])
          /\ command[p].type = "set" /\ pc[p] = "closing"
      BY <1>1, <1>4, CloseType DEF SaveCloses, PlaceInv
    <2>2. "auth_key_saved" \in AuthEventTypes /\ [type |-> "set"] # NoResult
      BY DEF AuthEventTypes, NoResult
    <2> QED BY <2>1, <2>2, ResultsType, YieldControl DEF TypeOK
  <1>5. CASE SaveFailsToOpen(p)
    <2>1. StoreTypeOK' /\ fd'[p] = Absent
      BY <1>1, <1>5 DEF SaveFailsToOpen, StoreTypeOK, PlaceInv
    <2> QED BY <1>5, <2>1, FailControl DEF SaveFailsToOpen, PlaceInv
  <1>6. CASE SaveFailsToWrite(p) \/ SaveFailsToClose(p)
    <2>1. StoreTypeOK' /\ fd'[p] = Absent
      BY <1>1, <1>6, CloseType DEF SaveFailsToWrite, SaveFailsToClose
    <2> QED BY <1>6, <2>1, FailControl DEF SaveFailsToWrite, SaveFailsToClose, PlaceInv
  <1> QED BY <1>2, <1>3, <1>4, <1>5, <1>6 DEF SaveStep

LEMMA ClearControl ==
  ASSUME TypeOK, NEW p \in Procs, PlaceInv(p), ClearStep(p)
  PROVE  TypeOK' /\ PlaceInv(p)'
  <1>1. command[p].type = "clear" /\ fd[p] = Absent
    BY DEF ClearStep, ClearUnlinks, ReportsRemoval, ClearFindsNothing, ClearFails, PlaceInv
  <1>2. "auth_key_cleared" \in AuthEventTypes
    BY DEF AuthEventTypes
  <1>3. CASE ClearUnlinks(p)
    <2>1. StoreTypeOK'
      BY <1>3 DEF ClearUnlinks, Unlink, TypeOK, StoreTypeOK
    <2>2. disturbed' \in [Procs -> BOOLEAN]
      BY <1>3, DisturbType DEF ClearUnlinks
    <2>3. /\ pc[p] = "unlinking" /\ pc' = [pc EXCEPT ![p] = "removed"]
          /\ UNCHANGED <<fd, command, env, events, result, fault>>
      BY <1>3 DEF ClearUnlinks, Unlink
    <2> QED BY <1>1, <2>1, <2>2, <2>3 DEF TypeOK, PlaceInv, Locations, Final
  <1>6. CASE ReportsRemoval(p)
    <2>1. /\ StoreTypeOK' /\ fd'[p] = Absent /\ disturbed' \in [Procs -> BOOLEAN]
          /\ pc[p] = "removed"
      BY <1>1, <1>6 DEF ReportsRemoval, TypeOK, StoreTypeOK
    <2> DEFINE r == [type |-> "clear", removed |-> TRUE]
    <2>3. r \in Results /\ r # NoResult /\ r.type = "clear"
      BY ResultsType DEF NoResult
    <2> HIDE DEF r
    <2>4. YieldDomain(p, "auth_key_cleared", r)
      BY <1>6 DEF ReportsRemoval, r
    <2> QED BY <1>1, <1>2, <2>1, <2>3, <2>4, YieldControl
  <1>4. CASE ClearFindsNothing(p)
    <2>1. /\ StoreTypeOK' /\ fd'[p] = Absent /\ disturbed' \in [Procs -> BOOLEAN]
          /\ pc[p] = "unlinking"
      BY <1>1, <1>4 DEF ClearFindsNothing, TypeOK, StoreTypeOK
    <2> DEFINE r == [type |-> "clear", removed |-> FALSE]
    <2>2. r \in Results /\ r # NoResult /\ r.type = "clear"
      BY ResultsType DEF NoResult
    <2> HIDE DEF r
    <2>3. YieldDomain(p, "auth_key_cleared", r)
      BY <1>4 DEF ClearFindsNothing, r
    <2> QED BY <1>1, <1>2, <2>1, <2>2, <2>3, YieldControl
  <1>5. CASE ClearFails(p)
    <2>1. StoreTypeOK' /\ fd'[p] = Absent /\ pc[p] = "unlinking"
      BY <1>1, <1>5 DEF ClearFails, TypeOK, StoreTypeOK
    <2> QED BY <1>1, <1>5, <2>1, FailControl DEF ClearFails
  <1> QED BY <1>3, <1>4, <1>5, <1>6 DEF ClearStep

(* What a handler makes of the text it read: a result of its own type.     *)
LEMMA DeliverControl ==
  ASSUME TypeOK, NEW p \in Procs, PlaceInv(p), NEW text \in {Absent} \cup Seq(Keys),
         Deliver(p, text), pc[p] \in {"read_opening", "reading"},
         StoreTypeOK', fd'[p] = Absent, disturbed' = disturbed
  PROVE  TypeOK' /\ PlaceInv(p)'
  <1>1. CASE ReportStatus(p, text)
    <2> DEFINE r == [type |-> "status", source |-> EffectiveSource(env[p], text # Absent)]
    <2>1. EffectiveSource(env[p], text # Absent) \in {"env", "saved", "none"}
      BY DEF EffectiveSource, TypeOK
    <2>2. r \in Results /\ r # NoResult /\ r.type = "status"
      BY <2>1, ResultsType DEF NoResult
    <2>3. YieldDomain(p, "auth_status_reported", r) /\ command[p].type = "status"
      BY <1>1 DEF ReportStatus
    <2>4. "auth_status_reported" \in AuthEventTypes /\ disturbed' \in [Procs -> BOOLEAN]
      BY DEF AuthEventTypes, TypeOK
    <2> HIDE DEF r
    <2> QED BY <2>2, <2>3, <2>4, YieldControl
  <1>2. CASE Resolve(p, text)
    <2> DEFINE r == [type |-> "run", text |-> text,
                     source |-> IF text = Absent THEN "none" ELSE "saved"]
               l == IF text = Absent THEN "raised" ELSE "resolved"
    <2>1. r \in Results /\ r # NoResult /\ r.type = "run"
      BY ResultsType DEF NoResult
    <2>2. /\ result' = [result EXCEPT ![p] = r] /\ pc' = [pc EXCEPT ![p] = l]
          /\ command[p].type = "run" /\ UNCHANGED <<command, env, events, fault>>
      BY <1>2 DEF Resolve
    <2>3. l \in {"raised", "resolved"}
      OBVIOUS
    <2> HIDE DEF r, l
    <2> QED BY <2>1, <2>2, <2>3 DEF TypeOK, PlaceInv, Locations, Final
  <1> QED BY <1>1, <1>2 DEF Deliver

(* A text that decodes is made of blocks of keys.                          *)
LEMMA DecodedType ==
  ASSUME NEW text \in Seq(Blocks), Decodes(text)
  PROVE  text \in Seq(Keys)
  BY DEF Blocks, Decodes

LEMMA ReadControl ==
  ASSUME TypeOK, NEW p \in Procs, PlaceInv(p), ReadStep(p)
  PROVE  TypeOK' /\ PlaceInv(p)'
  <1>1. StoreTypeOK
    BY DEF TypeOK
  <1>2. CASE ResolveWithoutFile(p)
    <2> DEFINE w == IF command[p].key # Absent THEN "cli" ELSE "env"
               r == [type |-> "run", text |-> Absent, source |-> w]
    <2>1. r \in Results /\ r # NoResult /\ r.type = "run"
      BY ResultsType DEF NoResult
    <2>2. result' = [result EXCEPT ![p] = r]
      BY <1>2 DEF ResolveWithoutFile
    <2> HIDE DEF r
    <2> QED BY <1>2, <2>1, <2>2
            DEF ResolveWithoutFile, TypeOK, StoreTypeOK, PlaceInv, Locations, Final
  <1>3. CASE ResolveFromFile(p)
    BY <1>3 DEF ResolveFromFile, TypeOK, StoreTypeOK, PlaceInv, Locations
  <1>4. CASE ReadFindsNothing(p)
    <2>1. StoreTypeOK' /\ fd'[p] = Absent
      BY <1>1, <1>4 DEF ReadFindsNothing, StoreTypeOK, PlaceInv
    <2> QED BY <1>4, <2>1, DeliverControl DEF ReadFindsNothing
  <1>5. CASE ReadOpens(p)
    <2>1. StoreTypeOK' /\ fd'[p] # Absent
      BY <1>1, <1>5 DEF ReadOpens, OpenForReading, StoreTypeOK
    <2> QED BY <1>5, <2>1 DEF ReadOpens, TypeOK, PlaceInv, Locations
  <1>6. CASE Reads(p)
    <2>1. StoreTypeOK' /\ fd'[p] = Absent
      BY <1>1, <1>6, CloseType DEF Reads
    <2>2. content[fd[p]] \in Seq(Keys)
      BY <1>1, <1>6, DecodedType DEF Reads, PlaceInv, StoreTypeOK
    <2> QED BY <1>6, <2>1, <2>2, DeliverControl DEF Reads
  <1>7. CASE ReadFailsToDecode(p)
    <2>1. StoreTypeOK' /\ fd'[p] = Absent
      BY <1>1, <1>7, CloseType DEF ReadFailsToDecode
    <2> QED BY <1>7, <2>1 DEF ReadFailsToDecode, TypeOK, PlaceInv, Locations, Final
  <1>8. CASE ReadFails(p)
    <2>1. StoreTypeOK' /\ fd'[p] = Absent /\ pc[p] \in {"read_opening", "reading"}
      BY <1>1, <1>8, CloseType DEF ReadFails
    <2>2. CASE command[p].type = "status"
      BY <1>8, <2>1, <2>2, FailControl DEF ReadFails
    <2>3. CASE command[p].type = "run"
      BY <1>8, <2>1, <2>3 DEF ReadFails, TypeOK, PlaceInv, Locations, Final
    <2> QED BY <1>8, <2>2, <2>3 DEF ReadFails
  <1> QED BY <1>2, <1>3, <1>4, <1>5, <1>6, <1>7, <1>8 DEF ReadStep

LEMMA StopControl ==
  ASSUME TypeOK, NEW p \in Procs, PlaceInv(p), Stop(p)
  PROVE  TypeOK' /\ PlaceInv(p)'
  <1>1. StoreTypeOK' /\ fd'[p] = Absent
    BY CloseType DEF Stop, TypeOK
  <1> QED BY <1>1 DEF Stop, TypeOK, PlaceInv, Locations, Final

LEMMA ControlStep ==
  ASSUME ControlInv, [Next]_vars
  PROVE  ControlInv'
  <1>1. ASSUME NEW p \in Procs, Step(p)
        PROVE  ControlInv'
    <2>1. TypeOK /\ PlaceInv(p)
      BY DEF ControlInv
    <2>2. TypeOK' /\ PlaceInv(p)'
      BY <1>1, <2>1, PullControl, SaveControl, ClearControl, ReadControl, StopControl, Zenon
      DEF Step
    <2>3. ASSUME NEW q \in Procs \ {p} PROVE PlaceInv(q)'
      BY <1>1, <2>1, StepFrame DEF Frame, ControlInv, PlaceInv
    <2> QED BY <2>2, <2>3 DEF ControlInv
  <1>2. CASE UNCHANGED vars
    BY <1>2 DEF vars, ControlInv, PlaceInv, TypeOK, StoreTypeOK
  <1> QED BY <1>1, <1>2, NextIsStep

LEMMA ControlInit == Init => ControlInv
  <1> SUFFICES ASSUME Init PROVE ControlInv
    OBVIOUS
  <1>1. StoreTypeOK
    <2>1. <<>> \in Seq(Blocks) /\ <<Junk>> \in Seq(Blocks) /\ \A k \in Keys : Text(k) \in Seq(Blocks)
      BY EmptySeq DEF Blocks, Text
    <2> DEFINE Texts == {<<>>} \cup {Text(k) : k \in Keys} \cup {<<Junk>>}
    <2>2. Texts \subseteq Seq(Blocks)
      BY <2>1
    <2>3. content \in [Inodes -> Texts]
      BY DEF Init, StoreInit
    <2> HIDE DEF Texts
    <2>4. content \in [Inodes -> Seq(Blocks)]
      BY <2>2, <2>3
    <2> QED BY <2>4 DEF Init, StoreInit, StoreTypeOK, Inodes
  <1>2. \A p \in Procs : pc[p] = IF command[p].type = "run" THEN "resolving" ELSE "dispatched"
    BY DEF Init
  <1>3. events \in [Procs -> Seq(AuthEventTypes)] /\ result \in [Procs -> Results]
    BY EmptySeq, ResultsType DEF Init
  <1>4. TypeOK
    BY <1>1, <1>3 DEF Init, TypeOK, Locations
  <1>5. \A p \in Procs : PlaceInv(p)
    BY <1>2 DEF Init, StoreInit, PlaceInv
  <1> QED BY <1>4, <1>5 DEF ControlInv

LEMMA ControlHolds == Spec => []ControlInv
  BY ControlInit, ControlStep, PTL DEF Spec

(* Every variable keeps its type, whatever the processes do to the file    *)
(* and wherever they stop (AuthCommandExecution, storage/auth.py).         *)
THEOREM AuthTypeCorrect == Spec => []TypeOK
  <1>1. ControlInv => TypeOK
    BY DEF ControlInv
  <1> QED BY <1>1, ControlHolds, PTL

(* No race between processes makes a command fail: each error is that of a *)
(* system call of its own, or a status that found no usable key.           *)
THEOREM FailsOnlyOnFaultHolds == Spec => []FailsOnlyOnFault
  <1>1. ControlInv => FailsOnlyOnFault
    <2> SUFFICES ASSUME ControlInv, NEW p \in Procs,
                        pc[p] \in {"completed", "failed", "raised"}, command[p].type # "run",
                        ExitCode(p) # 0
                 PROVE  \/ fault[p]
                        \/ /\ command[p].type = "status"
                           /\ pc[p] = "raised" \/ result[p] # NoResult
      BY DEF FailsOnlyOnFault, Exited
    <2>1. PlaceInv(p)
      BY DEF ControlInv
    <2>2. CASE pc[p] = "failed"
      BY <2>1, <2>2 DEF PlaceInv
    <2>3. CASE pc[p] = "raised"
      BY <2>1, <2>3 DEF PlaceInv
    <2>4. CASE pc[p] = "completed"
      BY <2>1, <2>4 DEF PlaceInv, ExitCode
    <2> QED BY <2>2, <2>3, <2>4
  <1> QED BY <1>1, ControlHolds, PTL

--------------------------------------------------------------------------------

(* What an undisturbed process knows of the file: a save has it open and   *)
(* empty, then holding its key; a clear that is through left none.         *)
KnowsFile(p) ==
  ~ disturbed[p] =>
    /\ pc[p] = "writing" => /\ fd[p] = key_file /\ key_file # Absent
                            /\ content[key_file] = <<>>
    /\ command[p].type = "set" /\ pc[p] \in {"closing", "domain", "completed"} =>
         key_file # Absent /\ Holds(content[key_file], command[p].key)
    /\ command[p].type = "clear" /\ pc[p] \in {"removed", "domain", "completed"} =>
         key_file = Absent

SuccessInv == ControlInv /\ \A p \in Procs : KnowsFile(p)

(* Whoever changes the file disturbs everyone that had touched it.         *)
LEMMA ChangesDisturb ==
  ASSUME TypeOK, NEW p \in Procs, Step(p)
  PROVE  \/ UNCHANGED <<key_file, content>> /\ \A q \in Procs \ {p} : disturbed'[q] = disturbed[q]
         \/ \A q \in Procs \ {p} : disturbed'[q] = (disturbed[q] \/ pc[q] \notin Untouched)
  <1>1. CASE PullStep(p)
    BY <1>1 DEF PullStep, AccessEvents, PullReceived, StartHandler, PullCompleted
  <1>2. CASE SaveStep(p)
    <2>1. CASE SaveOpens(p) \/ SaveWrites(p)
      BY <2>1 DEF SaveOpens, SaveWrites, Disturb
    <2>2. CASE SaveFailsToOpen(p) \/ SaveFailsToWrite(p) \/ SaveCloses(p) \/ SaveFailsToClose(p)
      BY <2>2 DEF SaveFailsToOpen, SaveFailsToWrite, SaveCloses, SaveFailsToClose, CloseFile,
         FailCommand
    <2> QED BY <1>2, <2>1, <2>2 DEF SaveStep
  <1>3. CASE ClearStep(p)
    <2>1. CASE ClearUnlinks(p)
      BY <2>1 DEF ClearUnlinks, Disturb
    <2>2. CASE ReportsRemoval(p) \/ ClearFindsNothing(p) \/ ClearFails(p)
      BY <2>2 DEF ReportsRemoval, ClearFindsNothing, ClearFails, FailCommand
    <2> QED BY <1>3, <2>1, <2>2 DEF ClearStep
  <1>4. CASE ReadStep(p)
    BY <1>4 DEF ReadStep, ResolveWithoutFile, ResolveFromFile, ReadFindsNothing, ReadOpens,
       Reads, ReadFailsToDecode, ReadFails, OpenForReading, CloseFile, FailCommand
  <1>5. CASE Stop(p)
    BY <1>5 DEF Stop, CloseFile
  <1> QED BY <1>1, <1>2, <1>3, <1>4, <1>5 DEF Step

(* The step of another process leaves KnowsFile true of q, or disturbs q.  *)
LEMMA OthersKnow ==
  ASSUME TypeOK, NEW p \in Procs, Step(p), NEW q \in Procs \ {p}, KnowsFile(q)
  PROVE  KnowsFile(q)'
  <1>1. Frame(p)
    BY StepFrame
  <1>2. pc'[q] = pc[q] /\ fd'[q] = fd[q] /\ command' = command
    BY <1>1 DEF Frame
  <1>3. CASE UNCHANGED <<key_file, content>> /\ disturbed'[q] = disturbed[q]
    BY <1>2, <1>3 DEF KnowsFile
  <1>4. CASE disturbed'[q] = (disturbed[q] \/ pc[q] \notin Untouched)
    BY <1>2, <1>4 DEF KnowsFile, Untouched
  <1> QED BY <1>3, <1>4, ChangesDisturb

LEMMA SaverKnows ==
  ASSUME TypeOK, NEW p \in Procs, PlaceInv(p), KnowsFile(p), SaveStep(p)
  PROVE  KnowsFile(p)'
  <1> USE DEF TypeOK, StoreTypeOK
  <1>1. CASE SaveOpens(p)
    BY <1>1 DEF SaveOpens, OpenTruncate, KnowsFile, Inodes
  <1>2. CASE SaveWrites(p)
    <2>1. PICK n \in 1 .. Size[command[p].key] : Write(p, command[p].key, n)
      BY <1>2 DEF SaveWrites
    <2>2. n \in Nat
      <3>1. command[p].key \in Keys
        BY <1>2, CommandParts DEF SaveWrites, PlaceInv
      <3> QED BY <3>1
    <2>3. /\ pc[p] = "writing" /\ pc'[p] = "closing" /\ UNCHANGED <<key_file, fd, command, env>>
          /\ content' = [content EXCEPT ![fd[p]] = Overlay(@, command[p].key, n)]
          /\ disturbed'[p] = disturbed[p]
      BY <1>2, <2>1 DEF SaveWrites, Write, Disturb
    <2>4. Overlay(<<>>, command[p].key, n) = [i \in 1 .. n |-> command[p].key]
      BY <2>2 DEF Overlay
    <2>5. ASSUME ~ disturbed[p]
          PROVE  key_file # Absent /\ Holds(content'[key_file], command[p].key)
      <3>1. fd[p] = key_file /\ key_file \in Inodes /\ content[key_file] = <<>>
        BY <2>3, <2>5 DEF KnowsFile
      <3>2. content'[key_file] = [i \in 1 .. n |-> command[p].key]
        BY <2>3, <2>4, <3>1
      <3>3. Holds(content'[key_file], command[p].key)
        BY <3>2, <2>1, Zenon DEF Holds
      <3> QED BY <3>1, <3>3 DEF Inodes
    <2> QED BY <1>2, <2>3, <2>5 DEF KnowsFile, PlaceInv
  <1>3. CASE SaveCloses(p)
    BY <1>3 DEF SaveCloses, CloseFile, YieldDomain, KnowsFile, PlaceInv
  <1>4. CASE SaveFailsToOpen(p) \/ SaveFailsToWrite(p) \/ SaveFailsToClose(p)
    BY <1>4 DEF SaveFailsToOpen, SaveFailsToWrite, SaveFailsToClose, FailCommand, KnowsFile
  <1> QED BY <1>1, <1>2, <1>3, <1>4 DEF SaveStep

LEMMA PullerKnows ==
  ASSUME TypeOK, NEW p \in Procs, PlaceInv(p), KnowsFile(p), PullStep(p)
  PROVE  KnowsFile(p)'
  <1>1. CASE AccessEvents(p) \/ PullReceived(p)
    BY <1>1 DEF AccessEvents, PullReceived, KnowsFile, TypeOK
  <1>2. CASE StartHandler(p)
    <2>1. command[p].type \in {"set", "status", "clear"}
      BY <1>2, CommandParts DEF StartHandler, PlaceInv, TypeOK
    <2>2. pc'[p] \in {"opening", "read_opening", "unlinking"}
      <3>1. \/ pc' = [pc EXCEPT ![p] = "opening"]
            \/ pc' = [pc EXCEPT ![p] = "read_opening"]
            \/ pc' = [pc EXCEPT ![p] = "unlinking"]
        BY <1>2, <2>1, Zenon DEF StartHandler
      <3> QED BY <3>1 DEF TypeOK
    <2> QED BY <2>2 DEF KnowsFile
  <1>3. CASE PullCompleted(p)
    BY <1>3 DEF PullCompleted, KnowsFile, TypeOK
  <1> QED BY <1>1, <1>2, <1>3 DEF PullStep

LEMMA ClearerKnows ==
  ASSUME TypeOK, NEW p \in Procs, PlaceInv(p), KnowsFile(p), ClearStep(p)
  PROVE  KnowsFile(p)'
  <1>1. command[p].type = "clear" /\ command' = command
    BY DEF ClearStep, ClearUnlinks, ReportsRemoval, ClearFindsNothing, ClearFails, PlaceInv,
       YieldDomain, FailCommand
  <1>2. CASE ClearUnlinks(p) \/ ClearFindsNothing(p)
    <2>1. key_file' = Absent /\ pc'[p] \in {"removed", "domain"}
      BY <1>2 DEF ClearUnlinks, ClearFindsNothing, Unlink, YieldDomain, TypeOK
    <2> QED BY <1>1, <2>1 DEF KnowsFile
  <1>3. CASE ReportsRemoval(p)
    <2>1. /\ key_file' = key_file /\ disturbed' = disturbed
          /\ pc[p] = "removed" /\ pc'[p] = "domain"
      BY <1>3 DEF ReportsRemoval, YieldDomain, TypeOK
    <2> QED BY <1>1, <2>1 DEF KnowsFile
  <1>4. CASE ClearFails(p)
    BY <1>4 DEF ClearFails, FailCommand, KnowsFile, TypeOK
  <1> QED BY <1>2, <1>3, <1>4 DEF ClearStep

(* Reading and stopping lead nowhere a process could know anything.        *)
LEMMA ReaderKnows ==
  ASSUME TypeOK, NEW p \in Procs, PlaceInv(p), KnowsFile(p), ReadStep(p) \/ Stop(p)
  PROVE  KnowsFile(p)'
  <1>1. CASE Stop(p)
    BY <1>1 DEF Stop, KnowsFile, TypeOK
  <1>2. CASE ReadStep(p)
    <2>1. command[p].type \in {"status", "run"}
      BY <1>2 DEF ReadStep, ResolveWithoutFile, ResolveFromFile, ReadFindsNothing, ReadOpens,
         Reads, ReadFailsToDecode, ReadFails, PlaceInv
    <2>2. pc'[p] # "writing" /\ command' = command
      BY <1>2 DEF ReadStep, ResolveWithoutFile, ResolveFromFile, ReadFindsNothing, ReadOpens,
         Reads, ReadFailsToDecode, ReadFails, Deliver, ReportStatus, Resolve, YieldDomain,
         FailCommand, TypeOK
    <2> QED BY <2>1, <2>2 DEF KnowsFile
  <1> QED BY <1>1, <1>2

LEMMA SuccessStep ==
  ASSUME SuccessInv, [Next]_vars
  PROVE  SuccessInv'
  <1>1. ControlInv'
    BY ControlStep DEF SuccessInv
  <1>2. ASSUME NEW p \in Procs, Step(p)
        PROVE  \A q \in Procs : KnowsFile(q)'
    <2>1. TypeOK /\ \A q \in Procs : PlaceInv(q) /\ KnowsFile(q)
      BY DEF SuccessInv, ControlInv
    <2>2. KnowsFile(p)'
      BY <1>2, <2>1, PullerKnows, SaverKnows, ClearerKnows, ReaderKnows, Zenon DEF Step
    <2>3. ASSUME NEW q \in Procs \ {p} PROVE KnowsFile(q)'
      BY <1>2, <2>1, OthersKnow
    <2> QED BY <2>2, <2>3
  <1>3. CASE UNCHANGED vars
    BY <1>1, <1>3 DEF vars, SuccessInv, KnowsFile
  <1> QED BY <1>1, <1>2, <1>3, NextIsStep DEF SuccessInv

(* Exit code 0 tells the truth, whatever the other processes do, unless    *)
(* one of them changed the file after this one first did.                  *)
THEOREM SuccessIsTrueHolds == Spec => []SuccessIsTrue
  <1>1. Init => SuccessInv
    BY ControlInit DEF Init, SuccessInv, KnowsFile
  <1>2. SuccessInv => SuccessIsTrue
    <2> SUFFICES ASSUME SuccessInv, NEW p \in Exited, ExitCode(p) = 0, ~ disturbed[p]
                 PROVE  /\ ~ fault[p]
                        /\ command[p].type = "set" =>
                             key_file # Absent /\ Holds(content[key_file], command[p].key)
                        /\ command[p].type = "clear" => key_file = Absent
      BY DEF SuccessIsTrue
    <2>1. PlaceInv(p) /\ KnowsFile(p) /\ pc[p] \in {"completed", "failed", "raised"}
      BY DEF SuccessInv, ControlInv, Exited
    <2>2. pc[p] = "completed"
      <3>1. pc[p] # "raised"
        BY DEF ExitCode
      <3>2. pc[p] # "failed"
        BY <2>1 DEF PlaceInv, ExitCode
      <3> QED BY <2>1, <3>1, <3>2
    <2> QED BY <2>1, <2>2 DEF PlaceInv, KnowsFile
  <1> QED BY <1>1, <1>2, SuccessStep, PTL DEF Spec

--------------------------------------------------------------------------------

Removed == [type |-> "clear", removed |-> TRUE]

(* Whose removal is told; whose is told or about to be; and who may have   *)
(* removed a file.                                                         *)
Claims(p) == result[p] = Removed
Removes(p) == Claims(p) \/ pc[p] = "removed"
MayHaveRemoved(p) ==
  Removes(p) \/ (command[p].type = "clear" /\ pc[p] = "stopped" /\ result[p] = NoResult)

Claimants == {p \in Procs : Claims(p)}
Removers == {p \in Procs : Removes(p)}
Suspects == {p \in Procs : MayHaveRemoved(p)}

(* Never fewer files lost than removals told or about to be, nor more than *)
(* processes that may have removed one; a file that lost its name was not  *)
(* created by a process still to come to its file, and the path names none *)
(* that lost its name before.                                              *)
RemovalInv ==
  /\ ControlInv
  /\ IsFiniteSet(unlinked) /\ IsFiniteSet(Suspects)
  /\ Cardinality(Removers) <= Cardinality(unlinked)
  /\ Cardinality(unlinked) <= Cardinality(Suspects)
  /\ key_file \notin unlinked
  /\ \A p \in Procs : p \in unlinked \cup {key_file} => pc[p] \notin Untouched

LEMMA TouchedForGood ==
  ASSUME TypeOK, NEW p \in Procs, PlaceInv(p), Step(p), NEW q \in Procs,
         pc[q] \notin Untouched
  PROVE  pc'[q] \notin Untouched
  <1>1. CASE q # p
    BY <1>1, StepFrame DEF Frame
  <1>2. CASE q = p
    <2>1. ~ AccessEvents(p) /\ ~ PullReceived(p) /\ ~ StartHandler(p)
      BY <1>2 DEF AccessEvents, PullReceived, StartHandler, Untouched
    <2>2. CASE PullCompleted(p)
      BY <1>2, <2>2 DEF PullCompleted, Untouched, TypeOK
    <2>3. CASE SaveStep(p)
      BY <1>2, <2>3 DEF SaveStep, SaveOpens, SaveFailsToOpen, SaveWrites, SaveFailsToWrite,
         SaveCloses, SaveFailsToClose, FailCommand, YieldDomain, Untouched, TypeOK
    <2>4. CASE ClearStep(p)
      BY <1>2, <2>4 DEF ClearStep, ClearUnlinks, ReportsRemoval, ClearFindsNothing, ClearFails,
         FailCommand, YieldDomain, Untouched, TypeOK
    <2>5. CASE ReadStep(p)
      BY <1>2, <2>5 DEF ReadStep, ResolveWithoutFile, ResolveFromFile, ReadFindsNothing,
         ReadOpens, Reads, ReadFailsToDecode, ReadFails, Deliver, ReportStatus, Resolve,
         YieldDomain, FailCommand, Untouched, TypeOK
    <2>6. CASE Stop(p)
      BY <1>2, <2>6 DEF Stop, Untouched, TypeOK
    <2> QED BY <2>1, <2>2, <2>3, <2>4, <2>5, <2>6 DEF Step, PullStep
  <1> QED BY <1>1, <1>2

(* A step that gives a process its result finds it without one.            *)
LEMMA ResultOnce ==
  ASSUME TypeOK, NEW p \in Procs, PlaceInv(p), Step(p)
  PROVE  \/ UNCHANGED result
         \/ result[p] = NoResult /\ result'[p] # Removed
         \/ result[p] = NoResult /\ ReportsRemoval(p)
  <1> USE DEF TypeOK, NoResult, Removed
  <1>1. CASE PullStep(p) \/ Stop(p)
    BY <1>1 DEF PullStep, AccessEvents, PullReceived, StartHandler, PullCompleted, Stop
  <1>2. CASE SaveStep(p)
    <2>1. CASE SaveCloses(p)
      BY <2>1 DEF SaveCloses, YieldDomain, PlaceInv
    <2>2. CASE ~ SaveCloses(p)
      BY <1>2, <2>2 DEF SaveStep, SaveOpens, SaveFailsToOpen, SaveWrites, SaveFailsToWrite,
         SaveFailsToClose, FailCommand
    <2> QED BY <2>1, <2>2
  <1>3. CASE ClearStep(p)
    <2>1. CASE ClearFindsNothing(p)
      BY <2>1 DEF ClearFindsNothing, YieldDomain, PlaceInv
    <2>2. CASE ClearUnlinks(p) \/ ClearFails(p)
      BY <2>2 DEF ClearUnlinks, ClearFails, FailCommand
    <2>3. CASE ReportsRemoval(p)
      BY <2>3 DEF ReportsRemoval, PlaceInv
    <2> QED BY <1>3, <2>1, <2>2, <2>3 DEF ClearStep
  <1>4. CASE ReadStep(p)
    <2>1. ASSUME NEW text, Deliver(p, text), pc[p] \in {"read_opening", "reading"}
          PROVE  result[p] = NoResult /\ result'[p] # Removed
      BY <2>1 DEF Deliver, ReportStatus, Resolve, YieldDomain, PlaceInv
    <2>2. CASE ResolveWithoutFile(p)
      BY <2>2 DEF ResolveWithoutFile, PlaceInv
    <2>3. CASE ReadFindsNothing(p) \/ Reads(p)
      BY <2>1, <2>3 DEF ReadFindsNothing, Reads
    <2>4. CASE ResolveFromFile(p) \/ ReadOpens(p) \/ ReadFailsToDecode(p) \/ ReadFails(p)
      BY <2>4 DEF ResolveFromFile, ReadOpens, ReadFailsToDecode, ReadFails, FailCommand
    <2> QED BY <1>4, <2>2, <2>3, <2>4 DEF ReadStep
  <1> QED BY <1>1, <1>2, <1>3, <1>4 DEF Step

(* The name of the file changes when a save creates it and when a clear    *)
(* takes it away.                                                          *)
LEMMA NameChanges ==
  ASSUME TypeOK, NEW p \in Procs, Step(p)
  PROVE  \/ UNCHANGED <<key_file, unlinked>>
         \/ SaveOpens(p)
         \/ ClearUnlinks(p)
  BY DEF Step, PullStep, AccessEvents, PullReceived, StartHandler, PullCompleted, SaveStep,
     SaveFailsToOpen, SaveWrites, SaveFailsToWrite, SaveCloses, SaveFailsToClose, Write,
     CloseFile, ClearStep, ReportsRemoval, ClearFindsNothing, ClearFails, ReadStep,
     ResolveWithoutFile, ResolveFromFile, ReadFindsNothing, ReadOpens, Reads, ReadFailsToDecode, ReadFails,
     OpenForReading, Stop

LEMMA Started ==
  ASSUME TypeOK, NEW p \in Procs, PlaceInv(p), StartHandler(p)
  PROVE  pc'[p] \in {"opening", "read_opening", "unlinking"}
  <1>1. command[p].type \in {"set", "status", "clear"}
    BY CommandParts DEF StartHandler, PlaceInv, TypeOK
  <1>2. \/ pc' = [pc EXCEPT ![p] = "opening"]
        \/ pc' = [pc EXCEPT ![p] = "read_opening"]
        \/ pc' = [pc EXCEPT ![p] = "unlinking"]
    BY <1>1, Zenon DEF StartHandler
  <1> QED BY <1>2 DEF TypeOK

(* After the unlink comes the report, or the end of the process; nobody    *)
(* gets there but by the unlink, and the stopped stay where they are.      *)
LEMMA AfterUnlink ==
  ASSUME TypeOK, NEW p \in Procs, PlaceInv(p), Step(p)
  PROVE  /\ pc[p] = "removed" => ReportsRemoval(p) \/ Stop(p)
         /\ pc[p] # "stopped"
         /\ pc'[p] = "removed" => ClearUnlinks(p)
  <1> USE DEF TypeOK, Final
  <1>1. CASE PullStep(p)
    <2>1. CASE StartHandler(p)
      <3>1. pc[p] = "received" /\ pc'[p] \in {"opening", "read_opening", "unlinking"}
        BY <2>1, Started DEF StartHandler
      <3> QED BY <3>1
    <2> QED BY <1>1, <2>1 DEF PullStep, AccessEvents, PullReceived, PullCompleted
  <1>2. CASE SaveStep(p)
    BY <1>2 DEF SaveStep, SaveOpens, SaveFailsToOpen, SaveWrites, SaveFailsToWrite, SaveCloses,
       SaveFailsToClose, FailCommand, YieldDomain
  <1>3. CASE ClearStep(p)
    BY <1>3 DEF ClearStep, ClearUnlinks, ReportsRemoval, ClearFindsNothing, ClearFails,
       FailCommand, YieldDomain
  <1>4. CASE ReadStep(p)
    BY <1>4 DEF ReadStep, ResolveWithoutFile, ResolveFromFile, ReadFindsNothing, ReadOpens,
       Reads, ReadFailsToDecode, ReadFails, Deliver, ReportStatus, Resolve, YieldDomain,
       FailCommand
  <1>5. CASE Stop(p)
    BY <1>5 DEF Stop
  <1> QED BY <1>1, <1>2, <1>3, <1>4, <1>5 DEF Step

(* What a step does to the accounts: an unlink opens one, nothing else     *)
(* does, and none is lost sight of.                                        *)
LEMMA Accounts ==
  ASSUME TypeOK, NEW p \in Procs, PlaceInv(p), Step(p)
  PROVE  /\ ClearUnlinks(p) => ~ MayHaveRemoved(p) /\ Removes(p)' /\ MayHaveRemoved(p)'
         /\ ~ ClearUnlinks(p) => /\ Removes(p)' => Removes(p)
                                 /\ MayHaveRemoved(p) => MayHaveRemoved(p)'
         /\ \A q \in Procs \ {p} : /\ Removes(q)' <=> Removes(q)
                                   /\ MayHaveRemoved(q)' <=> MayHaveRemoved(q)
  <1> USE DEF Claims, Removes, MayHaveRemoved
  <1>1. NoResult # Removed
    BY DEF NoResult, Removed
  <1>2. ASSUME ClearUnlinks(p)
        PROVE  ~ MayHaveRemoved(p) /\ Removes(p)' /\ MayHaveRemoved(p)'
    <2>1. pc[p] = "unlinking" /\ pc'[p] = "removed"
      BY <1>2 DEF ClearUnlinks, TypeOK
    <2>2. result[p] = NoResult
      BY <2>1 DEF PlaceInv
    <2> QED BY <1>1, <2>1, <2>2
  <1>3. ASSUME ~ ClearUnlinks(p)
        PROVE  /\ Removes(p)' => Removes(p)
               /\ MayHaveRemoved(p) => MayHaveRemoved(p)'
    <2>1. Removes(p)' => Removes(p)
      BY <1>1, <1>3, ResultOnce, AfterUnlink DEF ReportsRemoval
    <2>2. ASSUME pc[p] = "removed"
          PROVE  MayHaveRemoved(p)'
      <3>1. CASE ReportsRemoval(p)
        BY <3>1 DEF ReportsRemoval, YieldDomain, Removed, TypeOK
      <3>2. CASE Stop(p)
        <4>1. command[p].type = "clear" /\ result[p] = NoResult
          BY <2>2 DEF PlaceInv
        <4>2. pc'[p] = "stopped" /\ UNCHANGED <<command, result>>
          BY <3>2 DEF Stop, TypeOK
        <4> QED BY <4>1, <4>2
      <3> QED BY <2>2, <3>1, <3>2, AfterUnlink
    <2>3. ASSUME result[p] = Removed
          PROVE  result'[p] = Removed
      BY <1>1, <2>3, ResultOnce
    <2>4. pc[p] # "stopped"
      BY AfterUnlink
    <2> QED BY <1>3, <2>1, <2>2, <2>3, <2>4
  <1>4. \A q \in Procs \ {p} : /\ Removes(q)' <=> Removes(q)
                               /\ MayHaveRemoved(q)' <=> MayHaveRemoved(q)
    BY StepFrame DEF Frame
  <1> QED BY <1>2, <1>3, <1>4

LEMMA RemovalStep ==
  ASSUME RemovalInv, [Next]_vars
  PROVE  RemovalInv'
  <1>1. ControlInv' /\ ControlInv
    BY ControlStep DEF RemovalInv
  <1>2. IsFiniteSet(Suspects) /\ IsFiniteSet(Removers)
    <2>1. Removers \subseteq Suspects
      BY DEF Removers, Suspects, MayHaveRemoved
    <2> QED BY <2>1, FS_Subset DEF RemovalInv
  <1>3. ASSUME NEW p \in Procs, Step(p)
        PROVE  RemovalInv'
    <2>1. TypeOK /\ PlaceInv(p) /\ StoreTypeOK
      BY <1>1 DEF ControlInv, TypeOK
    <2>2. \A q \in Procs : pc[q] \notin Untouched => pc'[q] \notin Untouched
      BY <1>3, <2>1, TouchedForGood
    <2>3. /\ ClearUnlinks(p) => p \notin Suspects /\ p \in Removers' /\ p \in Suspects'
          /\ ~ ClearUnlinks(p) => /\ p \in Removers' => p \in Removers
                                  /\ p \in Suspects => p \in Suspects'
          /\ \A q \in Procs \ {p} : /\ q \in Removers' <=> q \in Removers
                                    /\ q \in Suspects' <=> q \in Suspects
      BY <1>3, <2>1, Accounts DEF Removers, Suspects, MayHaveRemoved, Removes, Claims
    <2>4. /\ Removers \subseteq Procs /\ Removers' \subseteq Procs
          /\ Suspects \subseteq Procs /\ Suspects' \subseteq Procs
          /\ Removers \subseteq Suspects
      BY DEF Removers, Suspects, MayHaveRemoved
    <2>5. CASE ClearUnlinks(p)
      <3>1. /\ key_file \in Inodes /\ key_file' = Absent /\ unlinked' = unlinked \cup {key_file}
            /\ pc[p] = "unlinking"
        BY <2>1, <2>5 DEF ClearUnlinks, Unlink, StoreTypeOK
      <3>2. /\ Removers' = Removers \cup {p} /\ p \notin Removers
            /\ Suspects' = Suspects \cup {p} /\ p \notin Suspects
        BY <2>3, <2>4, <2>5
      <3>3. /\ IsFiniteSet(Suspects)' /\ IsFiniteSet(unlinked)'
            /\ Cardinality(Removers') = Cardinality(Removers) + 1
            /\ Cardinality(Suspects') = Cardinality(Suspects) + 1
            /\ Cardinality(unlinked') = Cardinality(unlinked) + 1
        BY <1>2, <3>1, <3>2, FS_AddElement DEF RemovalInv
      <3>4. /\ Cardinality(Removers) \in Nat /\ Cardinality(Suspects) \in Nat
            /\ Cardinality(unlinked) \in Nat
        BY <1>2, FS_CardinalityType DEF RemovalInv
      <3>5. /\ Cardinality(Removers') <= Cardinality(unlinked')
            /\ Cardinality(unlinked') <= Cardinality(Suspects')
        BY <3>3, <3>4 DEF RemovalInv
      <3>6. Absent \notin unlinked'
        BY <2>1, <3>1 DEF StoreTypeOK, Inodes
      <3>7. \A q \in Procs : q \in unlinked' \cup {Absent} => pc'[q] \notin Untouched
        BY <2>2, <3>1 DEF RemovalInv
      <3> QED BY <1>1, <3>1, <3>3, <3>5, <3>6, <3>7 DEF RemovalInv
    <2>6. CASE ~ ClearUnlinks(p)
      <3>1. /\ Removers' \subseteq Removers
            /\ Suspects \subseteq Suspects' /\ Suspects' \subseteq Suspects \cup {p}
        BY <2>3, <2>4, <2>6
      <3>2. unlinked' = unlinked /\ (SaveOpens(p) \/ key_file' = key_file)
        BY <1>3, <2>1, <2>6, NameChanges DEF SaveOpens, OpenTruncate
      <3>3. IsFiniteSet(Suspects')
        BY <1>2, <3>1, FS_AddElement, FS_Subset
      <3>4. /\ Cardinality(Removers') <= Cardinality(Removers)
            /\ Cardinality(Suspects) <= Cardinality(Suspects')
            /\ IsFiniteSet(Removers')
        BY <1>2, <3>1, <3>3, FS_Subset
      <3>5. /\ Cardinality(Removers) \in Nat /\ Cardinality(Suspects) \in Nat
            /\ Cardinality(unlinked) \in Nat /\ Cardinality(Removers') \in Nat
            /\ Cardinality(Suspects') \in Nat
        BY <1>2, <3>3, <3>4, FS_CardinalityType DEF RemovalInv
      <3>6. /\ Cardinality(Removers') <= Cardinality(unlinked')
            /\ Cardinality(unlinked') <= Cardinality(Suspects')
            /\ IsFiniteSet(unlinked')
        BY <3>2, <3>4, <3>5 DEF RemovalInv
      <3>7. /\ key_file' \notin unlinked'
            /\ \A q \in Procs : q \in unlinked' \cup {key_file'} => pc'[q] \notin Untouched
        <4>1. CASE SaveOpens(p)
          <5>1. key_file' \in {key_file, p} /\ pc[p] = "opening" /\ pc'[p] = "writing"
            BY <2>1, <4>1 DEF SaveOpens, OpenTruncate, TypeOK
          <5>2. p \notin unlinked
            BY <5>1 DEF RemovalInv, Untouched
          <5>3. pc'[p] \notin Untouched
            BY <5>1 DEF Untouched
          <5> QED BY <2>2, <3>2, <5>1, <5>2, <5>3 DEF RemovalInv
        <4>2. CASE key_file' = key_file
          BY <2>2, <3>2, <4>2 DEF RemovalInv
        <4> QED BY <3>2, <4>1, <4>2
      <3> QED BY <1>1, <3>3, <3>6, <3>7 DEF RemovalInv
    <2> QED BY <2>5, <2>6
  <1>4. CASE UNCHANGED vars
    BY <1>1, <1>4 DEF vars, RemovalInv, Removers, Suspects, Removes, MayHaveRemoved, Claims
  <1> QED BY <1>3, <1>4, NextIsStep

(* No removal is claimed twice, and every file lost is claimed unless its  *)
(* clear has not told yet or was stopped before it could, however saves    *)
(* and clears interleave (delete_key, _handle_auth_clear).                 *)
THEOREM RemovalAccountingHolds == Spec => []RemovalAccounting
  <1>1. Init => RemovalInv
    <2> SUFFICES ASSUME Init PROVE RemovalInv
      OBVIOUS
    <2>1. /\ unlinked = {} /\ key_file \in {Old, Absent}
          /\ \A p \in Procs : result[p] = NoResult /\ pc[p] \notin {"removed", "stopped"}
      BY DEF Init, StoreInit
    <2>2. Removers = {} /\ Suspects = {}
      BY <2>1 DEF Removers, Suspects, MayHaveRemoved, Removes, Claims, NoResult, Removed
    <2>3. \A p \in Procs : p # key_file
      BY <2>1
    <2> QED BY <2>1, <2>2, <2>3, ControlInit, FS_EmptySet DEF RemovalInv
  <1>2. RemovalInv => RemovalAccounting
    <2> SUFFICES ASSUME RemovalInv PROVE RemovalAccounting
      OBVIOUS
    <2> DEFINE untold == {p \in Procs : \/ pc[p] = "removed"
                                        \/ /\ command[p].type = "clear"
                                           /\ pc[p] = "stopped" /\ result[p] = NoResult}
    <2>1. /\ Claimants \subseteq Removers /\ Removers \subseteq Suspects
          /\ Suspects = Claimants \cup untold
      BY DEF Claimants, Removers, Suspects, MayHaveRemoved, Removes
    <2>2. /\ IsFiniteSet(Removers) /\ IsFiniteSet(Claimants)
          /\ Cardinality(Claimants) <= Cardinality(Removers)
      BY <2>1, FS_Subset DEF RemovalInv
    <2>3. /\ Cardinality(Claimants) \in Nat /\ Cardinality(Removers) \in Nat
          /\ Cardinality(unlinked) \in Nat
      BY <2>2, FS_CardinalityType DEF RemovalInv
    <2>4. Cardinality(Claimants) <= Cardinality(unlinked)
      BY <2>2, <2>3 DEF RemovalInv
    <2>5. Cardinality(unlinked) <= Cardinality(Claimants \cup untold)
      BY <2>1 DEF RemovalInv
    <2> QED BY <2>4, <2>5 DEF RemovalAccounting, Claimants, Claims, Removed
  <1> QED BY <1>1, <1>2, RemovalStep, PTL DEF Spec

--------------------------------------------------------------------------------

(* While nobody saves or clears, a status and a run see the same file.     *)
OnlyReaders == \A p \in Procs : command[p].type \in {"status", "run"}

Chosen(p) == IF env[p] THEN "env" ELSE IF key_file # Absent THEN "saved" ELSE "none"

SeesFile(p) ==
  /\ pc[p] = "reading" => key_file # Absent
  /\ pc[p] \in {"read_opening", "reading"} /\ command[p].type = "run" => ~ env[p]
  /\ result[p] # NoResult /\ command[p].key = Absent => result[p].source = Chosen(p)

ReadersInv == ControlInv /\ (OnlyReaders => \A p \in Procs : SeesFile(p))

LEMMA ReaderSees ==
  ASSUME TypeOK, NEW p \in Procs, PlaceInv(p), SeesFile(p), Step(p),
         command[p].type \in {"status", "run"}
  PROVE  key_file' = key_file /\ SeesFile(p)'
  <1> USE DEF TypeOK
  <1>1. ~ SaveStep(p) /\ ~ ClearStep(p)
    BY DEF PlaceInv, SaveStep, SaveOpens, SaveFailsToOpen, SaveWrites, SaveFailsToWrite,
       SaveCloses, SaveFailsToClose, ClearStep, ClearUnlinks, ReportsRemoval, ClearFindsNothing, ClearFails
  <1>2. UNCHANGED <<key_file, command, env>>
    <2>1. key_file' = key_file
      BY <1>1, NameChanges DEF SaveStep, ClearStep
    <2> QED BY <2>1, StepFrame DEF Frame
  <1>3. ASSUME NEW text \in {Absent} \cup Seq(Keys), Deliver(p, text),
               pc[p] \in {"read_opening", "reading"},
               text = Absent <=> key_file = Absent
        PROVE  SeesFile(p)'
    <2>1. CASE ReportStatus(p, text)
      <3>1. pc'[p] = "domain" /\ result'[p].source = EffectiveSource(env[p], text # Absent)
        BY <2>1 DEF ReportStatus, YieldDomain
      <3>2. EffectiveSource(env[p], text # Absent) = Chosen(p)
        BY <1>3 DEF EffectiveSource, Chosen
      <3> QED BY <1>2, <3>1, <3>2 DEF SeesFile, Chosen
    <2>2. CASE Resolve(p, text)
      <3>1. /\ pc'[p] \in {"raised", "resolved"} /\ ~ env[p]
            /\ result'[p].source = IF text = Absent THEN "none" ELSE "saved"
        BY <1>3, <2>2 DEF Resolve, SeesFile
      <3> QED BY <1>2, <1>3, <3>1 DEF SeesFile, Chosen
    <2> QED BY <1>3, <2>1, <2>2 DEF Deliver
  <1>4. CASE PullStep(p) \/ Stop(p)
    <2>1. UNCHANGED result
      BY <1>4 DEF PullStep, AccessEvents, PullReceived, StartHandler, PullCompleted, Stop
    <2>2. pc'[p] # "reading" /\ (command[p].type = "run" => pc'[p] # "read_opening")
      <3>1. CASE StartHandler(p)
        <4>1. command[p].type = "status"
          BY <3>1 DEF StartHandler, PlaceInv
        <4>2. pc' = [pc EXCEPT ![p] = "read_opening"]
          BY <3>1, <4>1, Zenon DEF StartHandler
        <4> QED BY <4>1, <4>2
      <3>2. CASE AccessEvents(p) \/ PullReceived(p) \/ PullCompleted(p) \/ Stop(p)
        BY <3>2 DEF AccessEvents, PullReceived, PullCompleted, Stop
      <3> QED BY <1>4, <3>1, <3>2 DEF PullStep
    <2> QED BY <1>2, <2>1, <2>2 DEF SeesFile, Chosen
  <1>5. CASE ReadStep(p)
    <2>1. CASE ResolveWithoutFile(p)
      <3>1. /\ pc'[p] = "resolved"
            /\ command[p].key # Absent \/ env[p]
            /\ result'[p].source = IF command[p].key # Absent THEN "cli" ELSE "env"
        BY <2>1 DEF ResolveWithoutFile
      <3> QED BY <1>2, <3>1 DEF SeesFile, Chosen
    <2>2. CASE ResolveFromFile(p)
      BY <1>2, <2>2 DEF ResolveFromFile, SeesFile, Chosen
    <2>3. CASE ReadFindsNothing(p)
      BY <1>3, <2>3 DEF ReadFindsNothing
    <2>4. CASE ReadOpens(p)
      BY <1>2, <2>4 DEF ReadOpens, SeesFile, Chosen
    <2>5. CASE Reads(p)
      <3> DEFINE text == content[fd[p]]
      <3>1. /\ text \in Seq(Keys) /\ text # Absent
            /\ pc[p] = "reading" /\ Deliver(p, text)
        BY <2>5, DecodedType DEF Reads, PlaceInv, StoreTypeOK, Blocks
      <3>2. key_file # Absent
        BY <3>1 DEF SeesFile
      <3> HIDE DEF text
      <3> QED BY <1>2, <1>3, <3>1, <3>2
    <2>6. CASE ReadFailsToDecode(p) \/ ReadFails(p)
      BY <1>2, <2>6 DEF ReadFailsToDecode, ReadFails, FailCommand, SeesFile, Chosen
    <2> QED BY <1>5, <2>1, <2>2, <2>3, <2>4, <2>5, <2>6 DEF ReadStep
  <1> QED BY <1>1, <1>4, <1>5 DEF Step

LEMMA ReadersStep ==
  ASSUME ReadersInv, [Next]_vars
  PROVE  ReadersInv'
  <1>1. ControlInv' /\ ControlInv
    BY ControlStep DEF ReadersInv
  <1>2. ASSUME NEW p \in Procs, Step(p)
        PROVE  OnlyReaders' => \A q \in Procs : SeesFile(q)'
    <2>1. TypeOK /\ PlaceInv(p) /\ Frame(p)
      BY <1>1, <1>2, StepFrame DEF ControlInv
    <2> SUFFICES ASSUME OnlyReaders' PROVE \A q \in Procs : SeesFile(q)'
      OBVIOUS
    <2>2. \A q \in Procs : SeesFile(q) /\ command[q].type \in {"status", "run"}
      BY <2>1 DEF ReadersInv, OnlyReaders, Frame
    <2>3. key_file' = key_file /\ SeesFile(p)'
      BY <1>2, <2>1, <2>2, ReaderSees
    <2>4. ASSUME NEW q \in Procs \ {p} PROVE SeesFile(q)'
      BY <2>1, <2>2, <2>3 DEF Frame, SeesFile, Chosen
    <2> QED BY <2>3, <2>4
  <1>3. CASE UNCHANGED vars
    BY <1>1, <1>3 DEF vars, ReadersInv, OnlyReaders, SeesFile, Chosen
  <1> QED BY <1>1, <1>2, <1>3, NextIsStep DEF ReadersInv

(* A status names the source a run would take its key from, though the     *)
(* priority is coded twice (_auth_status and resolve_credential).          *)
THEOREM StatusAgreesWithRunHolds == Spec => []StatusAgreesWithRun
  <1>1. Init => ReadersInv
    BY ControlInit DEF Init, ReadersInv, SeesFile
  <1>2. ReadersInv => StatusAgreesWithRun
    <2> SUFFICES ASSUME ReadersInv, OnlyReaders, NEW p \in Procs, NEW q \in Procs,
                        result[p].type = "status", result[q].type = "run",
                        command[q].key = Absent, env[p] = env[q]
                 PROVE  result[p].source = result[q].source
      BY DEF StatusAgreesWithRun, OnlyReaders
    <2>1. result[p] # NoResult /\ result[q] # NoResult
      BY DEF NoResult
    <2>2. command[p].key = Absent
      BY <2>1 DEF ReadersInv, ControlInv, PlaceInv, TypeOK, Commands
    <2>3. SeesFile(p) /\ SeesFile(q)
      BY DEF ReadersInv
    <2> QED BY <2>1, <2>2, <2>3 DEF SeesFile, Chosen
  <1> QED BY <1>1, <1>2, ReadersStep, PTL DEF Spec

--------------------------------------------------------------------------------

(* The processes that have started to save.                                *)
Savers == {p \in Procs : command[p].type = "set" /\ pc[p] \notin Untouched}

Mixed(text) == \E i, j \in 1 .. Len(text) : text[i] # text[j]

(* A file that can be reached is empty only after a save opened it, and    *)
(* holds two different blocks only after two had; the only saver there is  *)
(* writes to an empty file.                                                *)
OriginOfFiles ==
  /\ IsFiniteSet(Savers)
  /\ \A i \in Inodes : content[i] = <<>> /\ (key_file = i \/ \E p \in Procs : fd[p] = i)
       => Savers # {}
  /\ \A i \in Inodes : Mixed(content[i]) => Cardinality(Savers) > 1
  /\ \A p \in Procs : pc[p] = "writing" /\ Cardinality(Savers) <= 1 => content[fd[p]] = <<>>

LEMMA TwoMembers ==
  ASSUME NEW S, IsFiniteSet(S), NEW x \in S, NEW y \in S, x # y
  PROVE  Cardinality(S) > 1
  <1> DEFINE T == S \ {x}
  <1>1. y \in T
    OBVIOUS
  <1>2. IsFiniteSet(T) /\ Cardinality(T) = Cardinality(S) - 1
    BY FS_RemoveElement
  <1> HIDE DEF T
  <1>3. Cardinality(T) # 0 /\ Cardinality(T) \in Nat /\ Cardinality(S) \in Nat
    BY <1>1, <1>2, FS_EmptySet, FS_CardinalityType
  <1> QED BY <1>2, <1>3

(* A text without two different blocks is made of at most one.             *)
LEMMA UniformText ==
  ASSUME NEW text \in Seq(Blocks), ~ Mixed(text)
  PROVE  ~ (Cardinality({text[i] : i \in 1 .. Len(text)}) > 1)
  <1> DEFINE R == {text[i] : i \in 1 .. Len(text)}
  <1>1. R = {} \/ \E x : R = {x}
    <2> SUFFICES ASSUME NEW i \in 1 .. Len(text) PROVE R = {text[i]}
      BY Zenon
    <2> QED BY DEF Mixed
  <1> HIDE DEF R
  <1>2. Cardinality(R) = 0 \/ Cardinality(R) = 1
    BY <1>1, FS_EmptySet, FS_Singleton, Zenon
  <1>3. ~ (Cardinality(R) > 1)
    BY <1>2
  <1> QED BY <1>3 DEF R

(* A block-by-block write over an empty text is uniform and not empty.     *)
LEMMA FirstWrite ==
  ASSUME NEW k, NEW n \in Nat \ {0}
  PROVE  ~ Mixed(Overlay(<<>>, k, n))
  <1>1. Overlay(<<>>, k, n) = [i \in 1 .. n |-> k]
    BY DEF Overlay
  <1>2. Len([i \in 1 .. n |-> k]) = n
    OBVIOUS
  <1> QED BY <1>1, <1>2 DEF Mixed

LEMMA SaversGrow ==
  ASSUME TypeOK, NEW p \in Procs, PlaceInv(p), Step(p), IsFiniteSet(Savers)
  PROVE  /\ Savers \subseteq Savers'
         /\ IsFiniteSet(Savers')
         /\ Cardinality(Savers) <= Cardinality(Savers')
         /\ Cardinality(Savers) \in Nat /\ Cardinality(Savers') \in Nat
         /\ SaveOpens(p) \/ SaveWrites(p) => p \in Savers'
  <1>1. Frame(p)
    BY StepFrame
  <1>2. \A q \in Procs : pc[q] \notin Untouched => pc'[q] \notin Untouched
    BY TouchedForGood
  <1>3. Savers \subseteq Savers' /\ Savers' \subseteq Savers \cup {p}
    BY <1>1, <1>2 DEF Savers, Frame
  <1>4. IsFiniteSet(Savers \cup {p})
    BY FS_AddElement
  <1>5. IsFiniteSet(Savers')
    BY <1>3, <1>4, FS_Subset
  <1>6. Cardinality(Savers) <= Cardinality(Savers')
    BY <1>3, <1>5, FS_Subset
  <1>7. ASSUME SaveOpens(p) \/ SaveWrites(p)
        PROVE  p \in Savers'
    <2>1. command[p].type = "set" /\ command' = command
      BY <1>1, <1>7 DEF SaveOpens, SaveWrites, PlaceInv, Frame
    <2>2. pc'[p] \in {"writing", "closing"}
      BY <1>7 DEF SaveOpens, SaveWrites, TypeOK
    <2> QED BY <2>1, <2>2 DEF Savers, Untouched
  <1> QED BY <1>3, <1>5, <1>6, <1>7, FS_CardinalityType

(* What files hold changes when a save opens or writes one, and a file is  *)
(* opened by its name.                                                     *)
LEMMA FileChanges ==
  ASSUME TypeOK, NEW p \in Procs, PlaceInv(p), Step(p)
  PROVE  \/ SaveOpens(p)
         \/ SaveWrites(p)
         \/ UNCHANGED content /\ fd'[p] \in {fd[p], Absent, key_file} /\ pc'[p] # "writing"
  <1> USE DEF TypeOK, StoreTypeOK
  <1>1. CASE PullStep(p)
    <2>1. CASE StartHandler(p)
      BY <2>1, Started DEF StartHandler
    <2>2. CASE ~ StartHandler(p)
      BY <1>1, <2>2 DEF PullStep, AccessEvents, PullReceived, PullCompleted
    <2> QED BY <2>1, <2>2
  <1>2. CASE SaveStep(p)
    BY <1>2 DEF SaveStep, SaveFailsToOpen, SaveFailsToWrite, SaveCloses, SaveFailsToClose,
       CloseFile, FailCommand, YieldDomain
  <1>3. CASE ClearStep(p)
    BY <1>3 DEF ClearStep, ClearUnlinks, ReportsRemoval, ClearFindsNothing, ClearFails, Unlink,
       FailCommand, YieldDomain
  <1>4. CASE ReadStep(p)
    BY <1>4 DEF ReadStep, ResolveWithoutFile, ResolveFromFile, ReadFindsNothing, ReadOpens,
       Reads, ReadFailsToDecode, ReadFails, Deliver, ReportStatus, Resolve, OpenForReading,
       CloseFile, FailCommand, YieldDomain
  <1>5. CASE Stop(p)
    BY <1>5 DEF Stop, CloseFile
  <1> QED BY <1>1, <1>2, <1>3, <1>4, <1>5 DEF Step

(* A run that reports a saved key has just read it in the file it opened.  *)
LEMMA SavedIsRead ==
  ASSUME TypeOK, NEW p \in Procs, PlaceInv(p), Step(p),
         result'[p].type = "run", result'[p].source = "saved"
  PROVE  \/ result'[p] = result[p]
         \/ fd[p] \in Inodes /\ result'[p].text = content[fd[p]]
  <1> USE DEF TypeOK, StoreTypeOK
  <1>1. CASE PullStep(p) \/ Stop(p)
    BY <1>1 DEF PullStep, AccessEvents, PullReceived, StartHandler, PullCompleted, Stop
  <1>2. CASE SaveStep(p) \/ ClearStep(p)
    <2>1. command[p].type \in {"set", "clear"} /\ command' = command
      <3>1. command' = command
        BY StepFrame DEF Frame
      <3> QED BY <1>2, <3>1
           DEF PlaceInv, SaveStep, SaveOpens, SaveFailsToOpen, SaveWrites, SaveFailsToWrite,
               SaveCloses, SaveFailsToClose, ClearStep, ClearUnlinks, ReportsRemoval, ClearFindsNothing,
               ClearFails
    <2>2. PlaceInv(p)'
      BY <1>2, SaveControl, ClearControl
    <2>3. result'[p] # NoResult
      BY DEF NoResult
    <2> QED BY <2>1, <2>2, <2>3 DEF PlaceInv
  <1>3. CASE ReadStep(p)
    <2>1. CASE Reads(p)
      <3>1. fd[p] \in Inodes
        BY <2>1 DEF Reads, PlaceInv
      <3>2. Resolve(p, content[fd[p]])
        BY <2>1 DEF Reads, Deliver, ReportStatus, YieldDomain
      <3> QED BY <3>1, <3>2 DEF Resolve
    <2>2. CASE ReadFindsNothing(p)
      BY <2>2 DEF ReadFindsNothing, Deliver, ReportStatus, Resolve, YieldDomain
    <2>3. CASE ResolveWithoutFile(p)
      BY <2>3 DEF ResolveWithoutFile
    <2>4. CASE ResolveFromFile(p) \/ ReadOpens(p) \/ ReadFailsToDecode(p) \/ ReadFails(p)
      BY <2>4 DEF ResolveFromFile, ReadOpens, ReadFailsToDecode, ReadFails, FailCommand
    <2> QED BY <1>3, <2>1, <2>2, <2>3, <2>4 DEF ReadStep
  <1> QED BY <1>1, <1>2, <1>3 DEF Step

(* Two processes that write are two savers.                                *)
LEMMA TwoWriters ==
  ASSUME ControlInv, IsFiniteSet(Savers'), NEW p \in Procs, Step(p), SaveOpens(p) \/ SaveWrites(p),
         Savers \subseteq Savers', p \in Savers',
         NEW q \in Procs \ {p}, pc[q] = "writing"
  PROVE  Cardinality(Savers') > 1
  <1>1. q \in Savers
    BY DEF Savers, ControlInv, PlaceInv, Untouched
  <1> QED BY <1>1, TwoMembers

LEMMA OriginOpens ==
  ASSUME ControlInv, OriginOfFiles, NEW p \in Procs, Step(p), SaveOpens(p)
  PROVE  OriginOfFiles'
  <1>1. TypeOK /\ StoreTypeOK /\ PlaceInv(p) /\ Frame(p)
    BY StepFrame DEF ControlInv, TypeOK
  <1>2. /\ Savers \subseteq Savers' /\ IsFiniteSet(Savers')
        /\ Cardinality(Savers) <= Cardinality(Savers')
        /\ Cardinality(Savers) \in Nat /\ Cardinality(Savers') \in Nat
        /\ p \in Savers'
    BY <1>1, SaversGrow DEF OriginOfFiles
  <1> DEFINE i == IF key_file = Absent THEN p ELSE key_file
  <1>3. /\ i \in Inodes /\ content' = [content EXCEPT ![i] = <<>>] /\ fd'[p] = i
    BY <1>1 DEF SaveOpens, OpenTruncate, StoreTypeOK, Inodes
  <1> HIDE DEF i
  <1>4. ASSUME NEW j \in Inodes, Mixed(content'[j])
        PROVE  Cardinality(Savers') > 1
    <2>1. content'[j] = content[j]
      BY <1>1, <1>3, <1>4 DEF Mixed, StoreTypeOK
    <2>2. Mixed(content[j])
      BY <1>4, <2>1 DEF Mixed
    <2> QED BY <1>2, <2>2 DEF OriginOfFiles
  <1>5. ASSUME NEW q \in Procs, pc'[q] = "writing", Cardinality(Savers') <= 1
        PROVE  content'[fd'[q]] = <<>>
    <2>1. CASE q = p
      BY <1>1, <1>3, <2>1 DEF StoreTypeOK
    <2>2. CASE q # p
      <3>1. pc[q] = "writing"
        BY <1>1, <1>5, <2>2 DEF Frame
      <3> QED BY <1>2, <1>5, <2>2, <3>1, TwoWriters
    <2> QED BY <2>1, <2>2
  <1> QED BY <1>2, <1>4, <1>5 DEF OriginOfFiles

LEMMA OriginWrites ==
  ASSUME ControlInv, OriginOfFiles, NEW p \in Procs, Step(p), SaveWrites(p)
  PROVE  OriginOfFiles'
  <1>1. TypeOK /\ StoreTypeOK /\ PlaceInv(p) /\ Frame(p)
    BY StepFrame DEF ControlInv, TypeOK
  <1>2. /\ Savers \subseteq Savers' /\ IsFiniteSet(Savers')
        /\ Cardinality(Savers) <= Cardinality(Savers')
        /\ Cardinality(Savers) \in Nat /\ Cardinality(Savers') \in Nat
        /\ p \in Savers'
    BY <1>1, SaversGrow DEF OriginOfFiles
  <1>3. command[p].key \in Keys
    BY <1>1, CommandParts DEF SaveWrites, PlaceInv, TypeOK
  <1>4. PICK n \in 1 .. Size[command[p].key] : Write(p, command[p].key, n)
    BY DEF SaveWrites
  <1>5. n \in Nat \ {0}
    BY <1>3
  <1>6. /\ pc[p] = "writing" /\ pc'[p] = "closing" /\ fd' = fd
        /\ fd[p] \in Inodes
        /\ content' = [content EXCEPT ![fd[p]] = Overlay(@, command[p].key, n)]
    <2>1. content' = [content EXCEPT ![fd[p]] = Overlay(@, command[p].key, n)] /\ fd' = fd
      BY <1>4 DEF Write
    <2>2. pc[p] = "writing" /\ pc'[p] = "closing"
      BY <1>1 DEF SaveWrites, TypeOK
    <2> QED BY <1>1, <2>1, <2>2 DEF PlaceInv, StoreTypeOK
  <1>7. ASSUME NEW j \in Inodes, Mixed(content'[j])
        PROVE  Cardinality(Savers') > 1
    <2>1. CASE j = fd[p]
      <3>1. ~ (Cardinality(Savers) <= 1)
        <4> SUFFICES ASSUME content[fd[p]] = <<>> PROVE FALSE
          BY <1>6 DEF OriginOfFiles
        <4>1. content'[j] = Overlay(<<>>, command[p].key, n)
          BY <1>1, <1>6, <2>1 DEF StoreTypeOK
        <4>2. ~ Mixed(content'[j])
          <5>1. ~ Mixed(Overlay(<<>>, command[p].key, n))
            BY <1>5, FirstWrite
          <5> QED BY <4>1, <5>1 DEF Mixed
        <4> QED BY <1>7, <4>2
      <3> QED BY <1>2, <3>1
    <2>2. CASE j # fd[p]
      <3>1. content'[j] = content[j]
        BY <1>1, <1>6, <2>2 DEF StoreTypeOK
      <3>2. Mixed(content[j])
        BY <1>7, <3>1 DEF Mixed
      <3> QED BY <1>2, <3>2 DEF OriginOfFiles
    <2> QED BY <2>1, <2>2
  <1>8. ASSUME NEW q \in Procs, pc'[q] = "writing", Cardinality(Savers') <= 1
        PROVE  FALSE
    <2>1. q # p
      BY <1>6, <1>8
    <2>2. pc[q] = "writing"
      BY <1>1, <1>8, <2>1 DEF Frame
    <2> QED BY <1>2, <1>8, <2>1, <2>2, TwoWriters
  <1> QED BY <1>2, <1>7, <1>8 DEF OriginOfFiles

LEMMA OriginKept ==
  ASSUME ControlInv, OriginOfFiles, NEW p \in Procs, Step(p), ~ SaveOpens(p), ~ SaveWrites(p)
  PROVE  OriginOfFiles'
  <1>1. TypeOK /\ StoreTypeOK /\ PlaceInv(p) /\ Frame(p)
    BY StepFrame DEF ControlInv, TypeOK
  <1>2. /\ Savers \subseteq Savers' /\ IsFiniteSet(Savers')
        /\ Cardinality(Savers) <= Cardinality(Savers')
        /\ Cardinality(Savers) \in Nat /\ Cardinality(Savers') \in Nat
    BY <1>1, SaversGrow DEF OriginOfFiles
  <1>3. content' = content /\ fd'[p] \in {fd[p], Absent, key_file} /\ pc'[p] # "writing"
    BY <1>1, FileChanges
  <1>4. key_file' \in {key_file, Absent}
    BY <1>1, NameChanges DEF ClearUnlinks, Unlink
  <1>5. ASSUME NEW i \in Inodes, content'[i] = <<>>,
               key_file' = i \/ \E q \in Procs : fd'[q] = i
        PROVE  Savers' # {}
    <2>1. i # Absent
      BY DEF Inodes
    <2>2. key_file = i \/ \E q \in Procs : fd[q] = i
      BY <1>1, <1>3, <1>4, <1>5, <2>1 DEF Frame
    <2> QED BY <1>2, <1>3, <1>5, <2>2 DEF OriginOfFiles
  <1>6. \A i \in Inodes : Mixed(content'[i]) => Cardinality(Savers') > 1
    BY <1>2, <1>3 DEF OriginOfFiles
  <1>7. ASSUME NEW q \in Procs, pc'[q] = "writing", Cardinality(Savers') <= 1
        PROVE  content'[fd'[q]] = <<>>
    <2>1. q # p
      BY <1>3, <1>7
    <2> QED BY <1>1, <1>2, <1>3, <1>7, <2>1 DEF OriginOfFiles, Frame
  <1> QED BY <1>2, <1>5, <1>6, <1>7 DEF OriginOfFiles

(* What a run has resolved keeps its origin: savers only come in.          *)
LEMMA ResolvedStep ==
  ASSUME ControlInv, OriginOfFiles, ResolvedTextHasAnOrigin, NEW p \in Procs, Step(p)
  PROVE  ResolvedTextHasAnOrigin'
  <1>1. TypeOK /\ StoreTypeOK /\ PlaceInv(p) /\ Frame(p)
    BY StepFrame DEF ControlInv, TypeOK
  <1>2. /\ Savers \subseteq Savers'
        /\ Cardinality(Savers) <= Cardinality(Savers')
        /\ Cardinality(Savers) \in Nat /\ Cardinality(Savers') \in Nat
    BY <1>1, SaversGrow DEF OriginOfFiles
  <1> DEFINE Explained(text, S) ==
               /\ text = <<>> => S # {}
               /\ Cardinality({text[i] : i \in 1 .. Len(text)}) > 1 => Cardinality(S) > 1
  <1>3. ASSUME NEW text, Explained(text, Savers)
        PROVE  Explained(text, Savers')
    <2> DEFINE n == Cardinality({text[i] : i \in 1 .. Len(text)})
    <2>1. n > 1 => Cardinality(Savers) > 1
      BY <1>3
    <2> HIDE DEF n
    <2>2. n > 1 => Cardinality(Savers') > 1
      BY <1>2, <2>1
    <2> QED BY <1>2, <1>3, <2>2 DEF n
  <1>4. ASSUME NEW q \in Procs, result[q].type = "run", result[q].source = "saved"
        PROVE  Explained(result[q].text, Savers)
    BY <1>4 DEF ResolvedTextHasAnOrigin, Savers
  <1>5. ASSUME NEW q \in Procs, result'[q].type = "run", result'[q].source = "saved"
        PROVE  Explained(result'[q].text, Savers')
    <2>1. CASE result'[q] = result[q]
      BY <1>3, <1>4, <1>5, <2>1
    <2>2. CASE result'[q] # result[q]
      <3>1. q = p
        BY <1>1, <2>2 DEF Frame
      <3>2. fd[p] \in Inodes /\ result'[q].text = content[fd[p]]
        BY <1>1, <1>5, <2>2, <3>1, SavedIsRead
      <3>3. content[fd[p]] = <<>> => Savers # {}
        BY <3>2 DEF OriginOfFiles
      <3>4. content[fd[p]] \in Seq(Blocks)
        BY <1>1, <3>2 DEF StoreTypeOK
      <3>5. Explained(content[fd[p]], Savers)
        BY <3>2, <3>3, <3>4, UniformText DEF OriginOfFiles
      <3> QED BY <1>3, <3>2, <3>5
    <2> QED BY <2>1, <2>2
  <1> QED BY <1>5 DEF ResolvedTextHasAnOrigin, Savers

LEMMA OriginInit == Init => OriginOfFiles /\ ResolvedTextHasAnOrigin
  <1> SUFFICES ASSUME Init PROVE OriginOfFiles /\ ResolvedTextHasAnOrigin
    OBVIOUS
  <1>1. Savers = {}
    BY DEF Init, Savers, Untouched
  <1>2. \A p \in Procs : pc[p] # "writing" /\ fd[p] = Absent /\ result[p] = NoResult
    BY DEF Init, StoreInit
  <1>3. \A i \in Inodes : ~ Mixed(content[i])
    <2> SUFFICES ASSUME NEW i \in Inodes PROVE ~ Mixed(content[i])
      OBVIOUS
    <2>1. content[i] = <<>> \/ content[i] = <<Junk>> \/ \E k \in Keys : content[i] = Text(k)
      BY DEF Init, StoreInit
    <2>2. ASSUME NEW k \in Keys PROVE ~ Mixed(Text(k))
      <3>1. Len(Text(k)) = Size[k]
        BY DEF Text
      <3> QED BY <3>1 DEF Mixed, Text
    <2>3. ~ Mixed(<<>>) /\ ~ Mixed(<<Junk>>)
      BY DEF Mixed
    <2> QED BY <2>1, <2>2, <2>3, Zenon
  <1>4. \A i \in Inodes : content[i] = <<>> => key_file # i
    BY DEF Init, StoreInit
  <1>5. \A i \in Inodes : i # Absent
    BY DEF Inodes
  <1>6. OriginOfFiles
    BY <1>1, <1>2, <1>3, <1>4, <1>5, FS_EmptySet DEF OriginOfFiles
  <1>7. ResolvedTextHasAnOrigin
    BY <1>2 DEF ResolvedTextHasAnOrigin, NoResult
  <1> QED BY <1>6, <1>7

(* What a run reads is empty only if a save had emptied the file, and of   *)
(* two keys only if two saves overlap (save_key, read_key).                *)
THEOREM ResolvedTextHasAnOriginHolds == Spec => []ResolvedTextHasAnOrigin
  <1>1. ControlInv /\ OriginOfFiles /\ ResolvedTextHasAnOrigin /\ [Next]_vars
          => OriginOfFiles' /\ ResolvedTextHasAnOrigin'
    <2> SUFFICES ASSUME ControlInv, OriginOfFiles, ResolvedTextHasAnOrigin, [Next]_vars
                 PROVE  OriginOfFiles' /\ ResolvedTextHasAnOrigin'
      OBVIOUS
    <2>1. CASE UNCHANGED vars
      BY <2>1 DEF vars, OriginOfFiles, ResolvedTextHasAnOrigin, Savers, Mixed
    <2>2. ASSUME NEW p \in Procs, Step(p)
          PROVE  OriginOfFiles' /\ ResolvedTextHasAnOrigin'
      BY <2>2, OriginOpens, OriginWrites, OriginKept, ResolvedStep
    <2> QED BY <2>1, <2>2, NextIsStep
  <1>2. ControlInv /\ [Next]_vars => ControlInv'
    BY ControlStep
  <1> QED BY <1>1, <1>2, ControlInit, OriginInit, PTL DEF Spec

--------------------------------------------------------------------------------

(* What a step does to the events of the process that takes it.            *)
Says(p, e) == events'[p] = Append(events[p], e)

LEMMA StepSays ==
  ASSUME TypeOK, NEW p \in Procs, PlaceInv(p), Step(p)
  PROVE  \/ /\ events'[p] = events[p]
            /\ pc'[p] \notin {"received", "domain", "completed", "failed"}
            /\ pc[p] = "dispatched" => pc'[p] \in {"created", "stopped"}
            /\ pc[p] = "created" => pc'[p] = "stopped"
            /\ pc'[p] = "created" => pc[p] = "dispatched"
            /\ pc'[p] # "dispatched"
            /\ pc[p] \notin {"completed", "failed", "raised", "stopped"}
         \/ /\ pc[p] = "created" /\ pc'[p] = "received" /\ Says(p, "command_received")
         \/ /\ pc[p] \in {"closing", "unlinking", "removed", "read_opening", "reading"}
            /\ command[p].type # "run" /\ pc'[p] = "domain"
            /\ \E e \in AuthEventTypes : Kind(e) = "domain" /\ Says(p, e)
         \/ /\ pc[p] \in {"opening", "writing", "closing", "unlinking", "read_opening", "reading"}
            /\ command[p].type # "run" /\ pc'[p] = "failed" /\ Says(p, "command_failed")
         \/ /\ pc[p] = "domain" /\ pc'[p] = "completed" /\ Says(p, "command_completed")
  <1> USE DEF TypeOK, Says
  <1>1. CASE PullStep(p)
    <2>1. CASE StartHandler(p)
      BY <2>1, Started DEF StartHandler
    <2>2. CASE AccessEvents(p)
      BY <2>2 DEF AccessEvents
    <2>3. CASE PullReceived(p)
      BY <2>3 DEF PullReceived
    <2>4. CASE PullCompleted(p)
      BY <2>4 DEF PullCompleted
    <2> QED BY <1>1, <2>1, <2>2, <2>3, <2>4 DEF PullStep
  <1>2. ASSUME NEW e \in AuthEventTypes, NEW r, YieldDomain(p, e, r)
        PROVE  pc'[p] = "domain" /\ Says(p, e)
    BY <1>2 DEF YieldDomain
  <1>3. ASSUME FailCommand(p)
        PROVE  pc'[p] = "failed" /\ Says(p, "command_failed")
    BY <1>3 DEF FailCommand
  <1>4. /\ \A e \in {"auth_key_saved", "auth_key_cleared", "auth_status_reported"} :
             e \in AuthEventTypes /\ Kind(e) = "domain"
    BY DEF AuthEventTypes, Kind
  <1>5. CASE SaveStep(p)
    <2>1. CASE SaveOpens(p) \/ SaveWrites(p)
      BY <2>1 DEF SaveOpens, SaveWrites
    <2>2. CASE SaveCloses(p)
      <3>1. pc[p] = "closing" /\ YieldDomain(p, "auth_key_saved", [type |-> "set"])
        BY <2>2 DEF SaveCloses
      <3> QED BY <1>2, <1>4, <3>1 DEF PlaceInv
    <2>3. CASE SaveFailsToOpen(p) \/ SaveFailsToWrite(p) \/ SaveFailsToClose(p)
      BY <1>3, <2>3 DEF SaveFailsToOpen, SaveFailsToWrite, SaveFailsToClose, PlaceInv
    <2> QED BY <1>5, <2>1, <2>2, <2>3 DEF SaveStep
  <1>6. CASE ClearStep(p)
    <2>4. CASE ClearUnlinks(p)
      BY <2>4 DEF ClearUnlinks
    <2>1. CASE ReportsRemoval(p)
      <3>1. /\ pc[p] = "removed"
            /\ YieldDomain(p, "auth_key_cleared", [type |-> "clear", removed |-> TRUE])
        BY <2>1 DEF ReportsRemoval
      <3> QED BY <1>2, <1>4, <3>1 DEF PlaceInv
    <2>2. CASE ClearFindsNothing(p)
      <3>1. /\ pc[p] = "unlinking"
            /\ YieldDomain(p, "auth_key_cleared", [type |-> "clear", removed |-> FALSE])
        BY <2>2 DEF ClearFindsNothing
      <3> QED BY <1>2, <1>4, <3>1 DEF PlaceInv
    <2>3. CASE ClearFails(p)
      BY <1>3, <2>3 DEF ClearFails, PlaceInv
    <2> QED BY <1>6, <2>1, <2>2, <2>3, <2>4 DEF ClearStep
  <1>7. CASE ReadStep(p)
    <2>1. ASSUME NEW text, Deliver(p, text), pc[p] \in {"read_opening", "reading"}
          PROVE  \/ /\ events'[p] = events[p] /\ pc'[p] \in {"raised", "resolved"}
                 \/ /\ command[p].type # "run" /\ pc'[p] = "domain"
                    /\ Says(p, "auth_status_reported")
      <3>1. CASE ReportStatus(p, text)
        BY <1>2, <1>4, <3>1 DEF ReportStatus
      <3>2. CASE Resolve(p, text)
        BY <3>2 DEF Resolve
      <3> QED BY <2>1, <3>1, <3>2 DEF Deliver
    <2>2. CASE ReadFindsNothing(p)
      BY <1>4, <2>1, <2>2 DEF ReadFindsNothing
    <2>3. CASE Reads(p)
      <3>1. pc[p] = "reading" /\ Deliver(p, content[fd[p]])
        BY <2>3 DEF Reads
      <3> QED BY <1>4, <2>1, <3>1
    <2>4. CASE ReadFails(p)
      BY <1>3, <2>4 DEF ReadFails
    <2>5. CASE ResolveWithoutFile(p) \/ ResolveFromFile(p) \/ ReadOpens(p) \/ ReadFailsToDecode(p)
      BY <2>5 DEF ResolveWithoutFile, ResolveFromFile, ReadOpens, ReadFailsToDecode
    <2> QED BY <1>7, <2>2, <2>3, <2>4, <2>5 DEF ReadStep
  <1>8. CASE Stop(p)
    BY <1>8 DEF Stop, Final
  <1> QED BY <1>1, <1>5, <1>6, <1>7, <1>8 DEF Step

(* A command says something first when it is pulled first, and a run never.*)
SaidInv(p) ==
  /\ pc[p] \in {"dispatched", "created"} \/ command[p].type = "run" => events[p] = <<>>
  /\ pc[p] \notin {"dispatched", "created", "stopped"} /\ command[p].type # "run"
       => events[p] # <<>>

LEMMA SaidStep ==
  ASSUME TypeOK, NEW p \in Procs, PlaceInv(p), SaidInv(p), Step(p)
  PROVE  SaidInv(p)'
  <1>1. command' = command
    BY StepFrame DEF Frame
  <1>2. \A e \in AuthEventTypes : Append(events[p], e) # <<>>
    BY AppendProperties DEF TypeOK
  <1>3. {"command_received", "command_failed", "command_completed"} \subseteq AuthEventTypes
    BY DEF AuthEventTypes
  <1>4. pc[p] \in {"created", "domain"} => command[p].type # "run"
    BY DEF PlaceInv
  <1> QED BY <1>1, <1>2, <1>3, <1>4, StepSays DEF SaidInv, Says

(* An event more is an element more of the abstract stream.                *)
LEMMA StreamGrows ==
  ASSUME TypeOK, NEW p \in Procs, NEW e \in AuthEventTypes, Says(p, e)
  PROVE  LET old == [i \in 1 .. Len(events[p]) |-> Kind(events[p][i])]
             new == [i \in 1 .. Len(events'[p]) |-> Kind(events'[p][i])]
         IN /\ Len(old) = Len(events[p]) /\ Len(new) = Len(old) + 1
            /\ \A i \in 1 .. Len(old) : new[i] = old[i]
            /\ new[Len(new)] = Kind(e)
            /\ SubSeq(new, 1, Len(new) - 1) = old
  <1> DEFINE ev == events[p]
             n == Len(ev)
             old == [i \in 1 .. n |-> Kind(ev[i])]
             new == [i \in 1 .. Len(events'[p]) |-> Kind(events'[p][i])]
  <1>1. /\ n \in Nat /\ Len(events'[p]) = n + 1
        /\ events'[p][n + 1] = e /\ \A i \in 1 .. n : events'[p][i] = ev[i]
    BY AppendProperties DEF Says, TypeOK
  <1>2. Len(old) = n /\ Len(new) = n + 1
    BY <1>1
  <1>3. new[n + 1] = Kind(e) /\ \A i \in 1 .. n : new[i] = old[i]
    BY <1>1
  <1>4. SubSeq(new, 1, n) = old
    BY <1>1, <1>2, <1>3
  <1> QED BY <1>1, <1>2, <1>3, <1>4

LEMMA SameStream ==
  ASSUME NEW p \in Procs, events'[p] = events[p],
         \/ pc'[p] = pc[p]
         \/ events[p] = <<>> /\ {pc[p], pc'[p]} \cap {"completed", "failed"} = {}
         \/ {pc[p], pc'[p]} \cap {"completed", "failed", "raised", "stopped"} = {}
  PROVE  UNCHANGED Stream(p)!streamVars
  BY DEF Stream!streamVars

Ends == {"completed", "failed", "raised", "stopped"}

LEMMA ProgressStep ==
  ASSUME TypeOK, NEW p \in Procs, NEW e \in AuthEventTypes, Says(p, e), Kind(e) = "domain",
         events[p] # <<>>, pc[p] \notin Ends, pc'[p] \notin Ends
  PROVE  Stream(p)!Progress
  <1> DEFINE old == [i \in 1 .. Len(events[p]) |-> Kind(events[p][i])]
             new == [i \in 1 .. Len(events'[p]) |-> Kind(events'[p][i])]
  <1>1. /\ Len(old) = Len(events[p]) /\ Len(new) = Len(old) + 1
        /\ \A i \in 1 .. Len(old) : new[i] = old[i]
        /\ new[Len(new)] = "domain"
    BY StreamGrows
  <1>2. Len(events[p]) \in Nat \ {0}
    BY EmptySeq DEF TypeOK
  <1>3. old # <<>>
    BY <1>1, <1>2
  <1>4. Stream(p)!GrewBy(old, new, {"domain"})
    <2> HIDE DEF old, new
    <2> QED BY <1>1, <1>2 DEF Stream!GrewBy
  <1> HIDE DEF old, new
  <1> QED BY <1>3, <1>4 DEF Stream!Progress, Ends, old, new

LEMMA CloseStep ==
  ASSUME TypeOK, NEW p \in Procs, NEW end \in {"completed", "failed"},
         NEW e \in AuthEventTypes, Says(p, e), Kind(e) = end,
         events[p] # <<>>, pc[p] \notin Ends, pc'[p] = end
  PROVE  Stream(p)!Close
  <1> DEFINE old == [i \in 1 .. Len(events[p]) |-> Kind(events[p][i])]
             new == [i \in 1 .. Len(events'[p]) |-> Kind(events'[p][i])]
  <1>1. /\ Len(old) = Len(events[p])
        /\ new[Len(new)] = end /\ SubSeq(new, 1, Len(new) - 1) = old
    BY StreamGrows
  <1>2. Len(events[p]) \in Nat \ {0}
    BY EmptySeq DEF TypeOK
  <1>3. old # <<>>
    BY <1>1, <1>2
  <1>4. Stream(p)!GrewBy(old, SubSeq(new, 1, Len(new) - 1), {"domain"})
    <2> HIDE DEF old, new
    <2> QED BY <1>1, <1>2 DEF Stream!GrewBy
  <1> HIDE DEF old, new
  <1> QED BY <1>1, <1>3, <1>4 DEF Stream!Close, Stream!Terminal, Ends, old, new

LEMMA AcknowledgeStep ==
  ASSUME TypeOK, NEW p \in Procs, Says(p, "command_received"),
         events[p] = <<>>, pc[p] \notin Ends, pc'[p] \notin Ends
  PROVE  Stream(p)!Acknowledge
  <1> DEFINE new == [i \in 1 .. Len(events'[p]) |-> Kind(events'[p][i])]
  <1>1. events'[p] = <<"command_received">>
    BY DEF Says
  <1>2. new = <<"received">>
    BY <1>1 DEF Kind
  <1>3. Stream(p)!GrewBy(<<"received">>, new, {"domain"})
    BY <1>2 DEF Stream!GrewBy
  <1> HIDE DEF new
  <1> QED BY <1>3 DEF Stream!Acknowledge, Ends, new

LEMMA AbandonStep ==
  ASSUME TypeOK, NEW p \in Procs, events'[p] = events[p], events[p] # <<>>,
         pc[p] \notin Ends, pc'[p] \in {"raised", "stopped"}
  PROVE  Stream(p)!Abandon
  <1> DEFINE old == [i \in 1 .. Len(events[p]) |-> Kind(events[p][i])]
             new == [i \in 1 .. Len(events'[p]) |-> Kind(events'[p][i])]
  <1>1. new = old
    OBVIOUS
  <1>2. Len(events[p]) \in Nat \ {0}
    BY EmptySeq DEF TypeOK
  <1>3. Len(old) = Len(events[p])
    BY <1>2
  <1>4. old # <<>>
    BY <1>2, <1>3
  <1>5. Stream(p)!GrewBy(old, new, {"domain"})
    <2> HIDE DEF old, new
    <2> QED BY <1>1, <1>2, <1>3 DEF Stream!GrewBy
  <1> HIDE DEF old, new
  <1> QED BY <1>4, <1>5 DEF Stream!Abandon, Ends, old, new

LEMMA StreamStep ==
  ASSUME TypeOK, NEW p \in Procs, PlaceInv(p), SaidInv(p), Step(p)
  PROVE  [Stream(p)!StreamNext]_(Stream(p)!streamVars)
  <1>1. CASE events'[p] = events[p] /\ pc[p] \notin Ends
             /\ pc'[p] \notin {"completed", "failed"}
    <2>1. CASE events[p] # <<>> /\ pc'[p] \in Ends
      BY <1>1, <2>1, AbandonStep DEF Ends, Stream!StreamNext
    <2>2. CASE events[p] = <<>> \/ pc'[p] \notin Ends
      BY <1>1, <2>2, SameStream DEF Ends
    <2> QED BY <2>1, <2>2
  <1>2. CASE pc[p] = "created" /\ pc'[p] = "received" /\ Says(p, "command_received")
    BY <1>2, AcknowledgeStep DEF SaidInv, Ends, Stream!StreamNext
  <1>3. ASSUME NEW e \in AuthEventTypes, Kind(e) = "domain", Says(p, e),
               pc[p] \in {"closing", "unlinking", "removed", "read_opening", "reading"},
               command[p].type # "run", pc'[p] = "domain"
        PROVE  Stream(p)!StreamNext
    BY <1>3, ProgressStep DEF SaidInv, Ends, Stream!StreamNext
  <1>4. CASE /\ pc[p] \in {"opening", "writing", "closing", "unlinking", "read_opening", "reading"}
             /\ command[p].type # "run" /\ pc'[p] = "failed" /\ Says(p, "command_failed")
    <2>1. "command_failed" \in AuthEventTypes /\ Kind("command_failed") = "failed"
      BY DEF AuthEventTypes, Kind
    <2> QED BY <1>4, <2>1, CloseStep DEF SaidInv, Ends, Stream!StreamNext
  <1>5. CASE pc[p] = "domain" /\ pc'[p] = "completed" /\ Says(p, "command_completed")
    <2>1. "command_completed" \in AuthEventTypes /\ Kind("command_completed") = "completed"
      BY DEF AuthEventTypes, Kind
    <2>2. command[p].type # "run"
      BY <1>5 DEF PlaceInv
    <2> QED BY <1>5, <2>1, <2>2, CloseStep DEF SaidInv, Ends, Stream!StreamNext
  <1> QED BY <1>1, <1>2, <1>3, <1>4, <1>5, StepSays DEF Ends

LEMMA StreamsStep ==
  ASSUME ControlInv, \A p \in Procs : SaidInv(p), [Next]_vars
  PROVE  /\ \A p \in Procs : SaidInv(p)'
         /\ \A p \in Procs : [Stream(p)!StreamNext]_(Stream(p)!streamVars)
  <1>1. ASSUME NEW p \in Procs, Step(p), NEW q \in Procs
        PROVE  SaidInv(q)' /\ [Stream(q)!StreamNext]_(Stream(q)!streamVars)
    <2>1. TypeOK /\ PlaceInv(p)
      BY DEF ControlInv
    <2>2. CASE q = p
      BY <1>1, <2>1, <2>2, SaidStep, StreamStep
    <2>3. CASE q # p
      <3>1. events'[q] = events[q] /\ pc'[q] = pc[q] /\ command' = command
        BY <1>1, <2>1, <2>3, StepFrame DEF Frame
      <3> QED BY <3>1, SameStream DEF SaidInv
    <2> QED BY <2>2, <2>3
  <1>2. CASE UNCHANGED vars
    BY <1>2, SameStream DEF vars, SaidInv
  <1> QED BY <1>1, <1>2, NextIsStep

(* The events of every command implement the abstract command stream,      *)
(* whichever call fails and wherever the process or its consumer stops     *)
(* (AuthCommandExecution._execute).                                        *)
THEOREM AuthImplementsStream == Spec => ImplementsStream
  <1> DEFINE Said == \A p \in Procs : SaidInv(p)
             Kept == \A p \in Procs : [Stream(p)!StreamNext]_(Stream(p)!streamVars)
  <1>1. Init => \A p \in Procs : Stream(p)!StreamInit
    <2> SUFFICES ASSUME Init, NEW p \in Procs PROVE Stream(p)!StreamInit
      OBVIOUS
    <2>1. events[p] = <<>> /\ pc[p] \notin {"completed", "failed"}
      BY DEF Init
    <2> QED BY <2>1 DEF Stream!StreamInit
  <1>2. Init => Said
    BY DEF Init, SaidInv
  <1>3. ControlInv /\ Said /\ [Next]_vars => Said' /\ [Kept]_vars
    BY StreamsStep
  <1> QED BY <1>1, <1>2, <1>3, ControlInit, ControlHolds, PTL DEF Spec, ImplementsStream
================================================================================
