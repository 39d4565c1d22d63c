--------------------------- MODULE OpenRouterRunProofs ---------------------------
(***************************************************************************)
(* Theorems about a consensus run against OpenRouterProvider, for every    *)
(* number of participants and every set of completions the server may      *)
(* send: it is a run of the orchestrator, and one that cannot succeed.     *)
(***************************************************************************)
EXTENDS OpenRouterRun, ConsensusStreamProofs

USE ConsensusAssumption, NoneAssumption

(* A run against OpenRouterProvider is a run of the orchestrator: what is  *)
(* proved of every run holds for it, among the rest the shape of its       *)
(* stream and that a call outlives it only when a sibling failed.  (Its    *)
(* actions are the orchestrator's with the server's part added.)           *)
LEMMA OpenRouterRunIsARun == RunSpec => Spec
  <1>1. RunInit => Init
    BY DEF RunInit
  <1>2. [RunNext]_runVars => [Next]_vars
    BY DEF RunNext, ServerAnswers, Next, Settle, runVars
  <1> QED BY <1>1, <1>2, PTL DEF RunSpec, Spec

COROLLARY OpenRouterRunImplementsStream == RunSpec => ImplementsStream
  BY OpenRouterRunIsARun, ConsensusImplementsStream, PTL

--------------------------------------------------------------------------------

(* run_consensus passes no schema, so invoke parses nothing, and a payload *)
(* of None validates at no stage.                                          *)
NeverValid ==
  /\ DOMAIN response = CallIds
  /\ \A c \in CallIds : call[c] = "returned" => ~ reply[c].valid
  /\ pc = "new" => log = <<>>
  /\ EndsAtFraming

LEMMA NothingParsed ==
  ASSUME NEW sent
  PROVE  InvokeStructured(sent).parsed = None
  BY DEF InvokeStructured, InvokeResult

(* Every stage has a first caller, whose reply is not valid.               *)
LEMMA FirstIsInvalid ==
  ASSUME NeverValid, NEW s \in Stages, AllReturned(s)
  PROVE  1 \in Callers(s) /\ ~ Gather(s)[1].valid
  <1>1. 1 \in Callers(s) /\ <<s, 1>> \in CallIds /\ <<s, 1>> \in CallsOf(s)
    BY CallersAreCalls DEF Callers, Width, CallsOf
  <1> QED BY <1>1 DEF AllReturned, Gather, NeverValid

LEMMA NothingAccepted ==
  ASSUME NeverValid, NEW s \in Stages, NEW extra
  PROVE  ~ Accept(s, extra)
  BY FirstIsInvalid DEF Accept

LEMMA BeginsFraming ==
  ASSUME TypeOK, NeverValid, BeginRun, UNCHANGED response
  PROVE  NeverValid'
  <1>1. /\ pc' = "task_framing" /\ call' = Issued("task_framing")
        /\ UNCHANGED <<reply, usages, result>>
        /\ log' = <<Say("command_received"), Say("run_started")>> \o Opening("task_framing")
    BY DEF BeginRun, Await
  <1>2. \A c \in CallIds : call'[c] = "returned" => call[c] = "returned"
    BY <1>1 DEF Issued
  <1> DEFINE received == Say("command_received")
             started == Say("run_started")
             framing == Event("task_framing_started", <<"task_framing", 1>>, NoVotes)
             kinds == {"command_received", "run_started", "task_framing_started"}
  <1>3. Opening("task_framing") = <<framing>>
    BY DEF Opening, Callers, Width, Gathered, StartedType
  <1>4. /\ log' = <<received, started>> \o <<framing>>
        /\ received.type \in kinds /\ started.type \in kinds /\ framing.type \in kinds
    BY <1>1, <1>3 DEF Say, Event
  <1> HIDE DEF received, started, framing
  <1> DEFINE said == {received, started, framing}
  <1>5. log' \in Seq(said)
    <2>1. <<received, started>> \in Seq(said) /\ <<framing>> \in Seq(said)
      OBVIOUS
    <2> HIDE DEF said
    <2> QED BY <1>4, <2>1, ConcatProperties
  <1>6. \A i \in DOMAIN log' : log'[i].type \in kinds
    BY <1>4, <1>5
  <1> QED BY <1>1, <1>2, <1>6 DEF NeverValid, EndsAtFraming

LEMMA RaisesInvalid ==
  ASSUME TypeOK, NeverValid, NEW s \in Stages, RaiseInvalidReply(s), UNCHANGED response
  PROVE  NeverValid'
  <1>1. AllReturned(s)
    BY DEF RaiseInvalidReply
  <1>2. PICK i \in Callers(s) :
          /\ \A j \in 1 .. i - 1 : Gather(s)[j].valid
          /\ usages' = usages \o RecordedUsages(s, i - 1)
          /\ log' = log \o CompletedEvents(s, i - 1)
          /\ Raise("validation", <<s, i>>)
    BY DEF RaiseInvalidReply
  <1>3. i = 1
    <2>1. i \in Nat /\ i >= 1
      BY CallersAreCalls DEF Callers
    <2>2. i # 1 => 1 \in 1 .. i - 1
      BY <2>1
    <2> QED BY <1>1, <1>2, <2>2, FirstIsInvalid
  <1>4. RecordedUsages(s, i - 1) = <<>> /\ CompletedEvents(s, i - 1) = <<>>
    BY <1>3 DEF RecordedUsages, CompletedEvents
  <1>5. usages' = usages /\ log' = log
    BY <1>2, <1>4, ConcatEmptySeq DEF TypeOK
  <1>6. pc' = "raised" /\ UNCHANGED <<call, reply, result>>
    BY <1>2 DEF Raise, RaiseInvalidReply
  <1> QED BY <1>5, <1>6 DEF NeverValid, EndsAtFraming

LEMMA NeverValidStep ==
  TypeOK /\ NeverValid /\ [RunNext]_runVars => NeverValid'
  <1> SUFFICES ASSUME TypeOK, NeverValid, [RunNext]_runVars PROVE NeverValid'
    OBVIOUS
  <1>1. ASSUME NEW c \in CallIds, NEW sent \in Answers, ServerAnswers(c, sent)
        PROVE  NeverValid'
    <2>1. DOMAIN response' = CallIds /\ response'[c].parsed = None
      BY <1>1, NothingParsed DEF ServerAnswers, NeverValid
    <2>2. ~ reply'[c].valid
      BY <1>1, <2>1 DEF ServerAnswers
    <2>3. /\ \A d \in CallIds : d # c => call'[d] = call[d] /\ reply'[d] = reply[d]
          /\ UNCHANGED <<pc, log, usages, result>>
      BY <1>1 DEF ServerAnswers, CallReturns, TypeOK
    <2> QED BY <2>1, <2>2, <2>3 DEF NeverValid, EndsAtFraming
  <1>2. CASE BeginRun /\ UNCHANGED response
    BY <1>2, BeginsFraming
  <1>3. CASE FrameTask \/ CollectContributions \/ OpenReviews \/ FinishUngated \/ OpenGate
               \/ FinishGated
    BY <1>3, NothingAccepted DEF FrameTask, CollectContributions, OpenReviews, FinishUngated,
                                 OpenGate, FinishGated, Stages
  <1>4. ASSUME NEW s \in Stages, RaiseInvalidReply(s), UNCHANGED response
        PROVE  NeverValid'
    BY <1>4, RaisesInvalid
  <1>5. ASSUME NEW s \in Stages, RaiseProviderError(s) \/ Cancel(s), UNCHANGED response
        PROVE  NeverValid'
    <2>1. /\ pc' = "raised" /\ UNCHANGED <<reply, log, usages, result>>
          /\ \A c \in CallIds : call'[c] = "returned" => call[c] = "returned"
      BY <1>5 DEF RaiseProviderError, Cancel, Raise
    <2> QED BY <1>5, <2>1 DEF NeverValid, EndsAtFraming
  <1>6. ASSUME NEW c \in CallIds, CallFails(c), UNCHANGED response
        PROVE  NeverValid'
    <2>1. /\ UNCHANGED <<pc, reply, log, usages, result>>
          /\ \A d \in CallIds : call'[d] = "returned" => call[d] = "returned"
      BY <1>6 DEF CallFails, TypeOK
    <2> QED BY <1>6, <2>1 DEF NeverValid, EndsAtFraming
  <1>7. CASE (Rest /\ UNCHANGED response) \/ UNCHANGED runVars
    <2>1. UNCHANGED <<vars, response>>
      BY <1>7 DEF Rest, runVars
    <2> QED BY <2>1 DEF NeverValid, EndsAtFraming, vars
  <1> QED BY <1>1, <1>2, <1>3, <1>4, <1>5, <1>6, <1>7 DEF RunNext, Resume

(* Whatever the server answers, a run against OpenRouterProvider ends at   *)
(* its first call, without a usage record or a result, for any number of   *)
(* participants: nothing passes the provider the schema without which it   *)
(* parses nothing.                                                         *)
THEOREM EndsAtFramingHolds == RunSpec => []EndsAtFraming
  <1>1. RunInit => NeverValid
    BY DEF RunInit, Init, NeverValid, EndsAtFraming
  <1>2. NeverValid => EndsAtFraming
    BY DEF NeverValid
  <1> QED BY <1>1, <1>2, NeverValidStep, OpenRouterRunIsARun, TypeCorrect, PTL DEF RunSpec
================================================================================
