---------------------------- MODULE ConsensusRunProofs ----------------------------
(***************************************************************************)
(* Theorems about ConsensusRun, for every number of participants, every    *)
(* set of usage snapshots and every set of gate modes.                     *)
(***************************************************************************)
EXTENDS ConsensusRun, SequenceTheorems, FiniteSetTheorems, TLAPS

USE ConsensusAssumption, NoneAssumption

LEMMA FunctionIsSeq ==
  ASSUME NEW S, NEW n \in Nat, NEW f \in [1 .. n -> S]
  PROVE  f \in Seq(S) /\ Len(f) = n
  BY SMT

(* A stage's calls are call ids, and participants index them.              *)
LEMMA CallersAreCalls ==
  ASSUME NEW s \in Stages
  PROVE  /\ Width(s) \in Nat \ {0}
         /\ Callers(s) \subseteq Participants
         /\ \A i \in Callers(s) : <<s, i>> \in CallIds
         /\ CallsOf(s) \subseteq CallIds
         /\ NoCall \notin CallIds
  <1>1. Width(s) \in Nat \ {0} /\ Callers(s) \subseteq Participants
    BY DEF Width, Callers, Participants
  <1>2. \A i \in Callers(s) : <<s, i>> \in CallIds
    BY <1>1 DEF CallIds
  <1>3. CallsOf(s) \subseteq CallIds
    BY <1>2 DEF CallsOf
  <1>4. NoCall \notin CallIds
    BY DEF NoCall, CallIds, Participants
  <1> QED BY <1>1, <1>2, <1>3, <1>4

(* Every reply a call can hold carries a snapshot or None.                 *)
LEMMA ReplyUsageType ==
  ASSUME NEW r \in AnyReply
  PROVE  r.usage \in UsageSnapshot \cup {None}
  <1>1. NoReply.usage = None
    BY DEF NoReply
  <1>2. \A s \in Stages : \A q \in Replies(s) : q.usage \in Usages
    BY DEF Replies
  <1> QED BY <1>1, <1>2 DEF AnyReply

(* What the orchestrator records of a call is a RunInvocationUsage.        *)
LEMMA RecordUsageType ==
  ASSUME NEW c \in CallIds, NEW u \in UsageSnapshot \cup {None}
  PROVE  RecordUsage(c, u) \in InvocationUsage(CallIds)
  <1>1. CASE u = None
    BY <1>1 DEF RecordUsage, InvocationUsage, Optional
  <1>2. CASE u # None
    BY <1>2 DEF RecordUsage, InvocationUsage, Optional, UsageSnapshot
  <1> QED BY <1>1, <1>2

(* The events a stage emits, before and after its calls, are events.       *)
LEMMA EventTypesOK ==
  ASSUME NEW s \in Stages
  PROVE  /\ \A i \in Callers(s) : Event(StartedType(s), <<s, i>>, NoVotes) \in Events
         /\ \A i \in Callers(s) : Event(CompletedType(s), <<s, i>>, NoVotes) \in Events
         /\ Opening(s) \in Seq(Events)
  <1>1. NoVotes \in VoteCounts
    BY DEF NoVotes, VoteCounts
  <1>2. StartedType(s) \in EventTypes /\ CompletedType(s) \in EventTypes
    BY DEF StartedType, CompletedType, EventTypes
  <1>3. \A t \in EventTypes, i \in Callers(s) : Event(t, <<s, i>>, NoVotes) \in Events
    BY <1>1, CallersAreCalls DEF Event, Events
  <1>4. Opening(s) \in [1 .. Width(s) -> Events]
    BY <1>2, <1>3, Zenon DEF Opening, Callers
  <1>5. Opening(s) \in Seq(Events)
    BY <1>4, CallersAreCalls, FunctionIsSeq, Zenon
  <1> QED BY <1>2, <1>3, <1>5

LEMMA SayType ==
  ASSUME NEW t \in EventTypes
  PROVE  Say(t) \in Events
  BY DEF Say, Event, Events, NoVotes, VoteCounts

(* The loop over a stage's replies appends events and usage records.       *)
LEMMA RecordedType ==
  ASSUME TypeOK, NEW s \in Stages, NEW k \in 0 .. Width(s)
  PROVE  /\ CompletedEvents(s, k) \in Seq(Events)
         /\ RecordedUsages(s, k) \in Seq(InvocationUsage(CallIds))
  <1>1. k \in Nat /\ 1 .. k \subseteq Callers(s)
    BY CallersAreCalls DEF Callers
  <1>2. CompletedEvents(s, k) \in Seq(Events)
    BY <1>1, EventTypesOK DEF CompletedEvents
  <1>3. ASSUME NEW i \in 1 .. k
        PROVE  RecordUsage(<<s, i>>, Gather(s)[i].usage) \in InvocationUsage(CallIds)
    <2>1. i \in Callers(s) /\ <<s, i>> \in CallIds
      BY <1>1, CallersAreCalls
    <2>2. Gather(s)[i] \in AnyReply
      BY <2>1 DEF Gather, TypeOK
    <2> QED BY <2>1, <2>2, ReplyUsageType, RecordUsageType
  <1>4. RecordedUsages(s, k) \in Seq(InvocationUsage(CallIds))
    BY <1>1, <1>3 DEF RecordedUsages
  <1> QED BY <1>2, <1>4
(* No more votes than participants.                                        *)
LEMMA VotesAreBounded ==
  ASSUME NEW T \in SUBSET Participants
  PROVE  Cardinality(T) \in 0 .. N
  <1>1. IsFiniteSet(Participants) /\ Cardinality(Participants) = N
    BY FS_Interval DEF Participants
  <1> QED BY <1>1, FS_Subset, FS_CardinalityType

(* The batches of events between two awaits.                               *)
LEMMA BatchTypes ==
  /\ Verdict \in Seq(Events)
  /\ Closing \in Seq(Events)
  /\ Verdict \o Closing \in Seq(Events)
  /\ Verdict \o Opening("release_gate") \in Seq(Events)
  /\ <<Say("command_received"), Say("run_started")>> \o Opening("task_framing") \in Seq(Events)
  /\ <<Say("candidate_created"), Say("round_started"), Say("review_started")>>
       \o Opening("candidate_review") \in Seq(Events)
  <1>1. Votes \in VoteCounts
    <2> DEFINE In(d) == {i \in Participants : Gather("candidate_review")[i].decision = d}
    <2>1. Cardinality(In("approve")) \in 0 .. N /\ Cardinality(In("minor_revise")) \in 0 .. N
      BY VotesAreBounded
    <2> QED BY <2>1 DEF Votes, VoteCounts
  <1>2. Verdict \in Seq(Events)
    BY <1>1 DEF Verdict, Event, Events, EventTypes
  <1>3. Closing \in Seq(Events)
    BY SayType DEF Closing, EventTypes
  <1>4. Opening("release_gate") \in Seq(Events) /\ Opening("task_framing") \in Seq(Events)
        /\ Opening("candidate_review") \in Seq(Events)
    BY EventTypesOK DEF Stages
  <1>5. /\ <<Say("command_received"), Say("run_started")>> \in Seq(Events)
        /\ <<Say("candidate_created"), Say("round_started"), Say("review_started")>>
             \in Seq(Events)
    BY SayType DEF EventTypes
  <1> QED BY <1>2, <1>3, <1>4, <1>5, ConcatProperties
LEMMA StagesAreNotEnds ==
  ASSUME NEW s \in Stages
  PROVE  s \notin {"new", "returned", "raised"}
  BY DEF Stages

(* The two halves of an action that ends an await: what it takes from the  *)
(* replies, and the await it begins.                                       *)
LEMMA AcceptType ==
  ASSUME TypeOK, NEW s \in Stages, NEW extra \in Seq(Events), Accept(s, extra)
  PROVE  /\ pc = s
         /\ log' \in Seq(Events)
         /\ usages' \in Seq(InvocationUsage(CallIds))
  BY RecordedType, CallersAreCalls, ConcatProperties DEF Accept, TypeOK

LEMMA AwaitType ==
  ASSUME TypeOK, NEW s \in Stages, Await(s), pc # "returned",
         log' \in Seq(Events), usages' \in Seq(InvocationUsage(CallIds))
  PROVE  TypeOK'
  <1>1. call' \in [CallIds -> CallStates]
    BY DEF Await, Issued, CallStates, TypeOK
  <1> QED BY <1>1, StagesAreNotEnds DEF Await, TypeOK

LEMMA RaiseType ==
  ASSUME TypeOK, NEW kind \in {"provider", "validation", "cancelled"},
         NEW c \in CallIds \cup {NoCall}, Raise(kind, c), pc # "returned",
         call' \in [CallIds -> CallStates],
         log' \in Seq(Events), usages' \in Seq(InvocationUsage(CallIds))
  PROVE  TypeOK'
  BY DEF Raise, Errors, Ended, TypeOK

LEMMA DeliverType ==
  ASSUME TypeOK, NEW c \in CallIds, NEW executed, NEW decision,
         Deliver(c, executed, decision),
         log' \in Seq(Events), usages' \in Seq(InvocationUsage(CallIds))
  PROVE  TypeOK'
  BY DEF Deliver, Ended, TypeOK

(* The type invariant is inductive by itself.                              *)
LEMMA TypeStep == TypeOK /\ [Next]_vars => TypeOK'
  <1> SUFFICES ASSUME TypeOK, [Next]_vars
               PROVE  TypeOK'
    OBVIOUS
  <1>1. CASE BeginRun
    <2>1. log' \in Seq(Events) /\ usages' \in Seq(InvocationUsage(CallIds))
      BY <1>1, BatchTypes DEF BeginRun, TypeOK
    <2> QED BY <1>1, <2>1, AwaitType DEF BeginRun, Stages
  <1>2. CASE FrameTask
    <2>1. Opening("initial_contribution") \in Seq(Events)
      BY EventTypesOK DEF Stages
    <2> QED BY <1>2, <2>1, AcceptType, AwaitType DEF FrameTask, Stages
  <1>3. CASE CollectContributions
    <2>1. Opening("candidate_synthesis") \in Seq(Events)
      BY EventTypesOK DEF Stages
    <2> QED BY <1>3, <2>1, AcceptType, AwaitType DEF CollectContributions, Stages
  <1>4. CASE OpenReviews
    BY <1>4, BatchTypes, AcceptType, AwaitType DEF OpenReviews, Stages
  <1>5. CASE FinishUngated
    <2>1. <<"candidate_synthesis", 1>> \in CallIds
      BY CallersAreCalls DEF Stages, Callers
    <2> QED BY <1>5, <2>1, BatchTypes, AcceptType, DeliverType DEF FinishUngated, Stages
  <1>6. CASE OpenGate
    BY <1>6, BatchTypes, AcceptType, AwaitType DEF OpenGate, Stages
  <1>7. CASE FinishGated
    <2>1. <<"release_gate", 1>> \in CallIds
      BY CallersAreCalls DEF Stages, Callers
    <2> QED BY <1>7, <2>1, BatchTypes, AcceptType, DeliverType DEF FinishGated, Stages
  <1>8. ASSUME NEW s \in Stages, RaiseProviderError(s)
        PROVE  TypeOK'
    <2>1. failure[s] \in CallIds \cup {NoCall}
      BY DEF TypeOK
    <2> QED BY <1>8, <2>1, RaiseType, StagesAreNotEnds DEF RaiseProviderError, TypeOK
  <1>9. ASSUME NEW s \in Stages, RaiseInvalidReply(s)
        PROVE  TypeOK'
    <2>1. PICK i \in Callers(s) :
            /\ usages' = usages \o RecordedUsages(s, i - 1)
            /\ log' = log \o CompletedEvents(s, i - 1)
            /\ Raise("validation", <<s, i>>)
      BY <1>9 DEF RaiseInvalidReply
    <2>2. i - 1 \in 0 .. Width(s) /\ <<s, i>> \in CallIds
      BY CallersAreCalls DEF Callers
    <2>3. log' \in Seq(Events) /\ usages' \in Seq(InvocationUsage(CallIds))
      BY <2>1, <2>2, RecordedType, ConcatProperties DEF TypeOK
    <2> QED BY <1>9, <2>1, <2>2, <2>3, RaiseType, StagesAreNotEnds
            DEF RaiseInvalidReply, TypeOK
  <1>10. ASSUME NEW s \in Stages, Cancel(s)
         PROVE  TypeOK'
    <2>1. call' \in [CallIds -> CallStates]
      BY <1>10 DEF Cancel, CallStates, TypeOK
    <2> QED BY <1>10, <2>1, RaiseType, StagesAreNotEnds DEF Cancel, TypeOK
  <1>11. ASSUME NEW c \in CallIds, CallReturns(c)
         PROVE  TypeOK'
    <2>1. c[1] \in Stages
      BY DEF CallIds
    <2>2. reply' \in [CallIds -> AnyReply]
      BY <1>11, <2>1 DEF CallReturns, AnyReply, TypeOK
    <2>3. call' \in [CallIds -> CallStates] /\ settled' \in Seq(CallIds)
      BY <1>11, AppendProperties DEF CallReturns, CallStates, TypeOK
    <2> QED BY <1>11, <2>2, <2>3 DEF CallReturns, TypeOK
  <1>12. ASSUME NEW c \in CallIds, CallFails(c)
         PROVE  TypeOK'
    <2>1. c[1] \in Stages
      BY DEF CallIds
    <2>2. call' \in [CallIds -> CallStates] /\ settled' \in Seq(CallIds)
      BY <1>12, AppendProperties DEF CallFails, CallStates, TypeOK
    <2>3. failure' \in [Stages -> CallIds \cup {NoCall}]
      BY <1>12, <2>1 DEF CallFails, TypeOK
    <2> QED BY <1>12, <2>2, <2>3 DEF CallFails, TypeOK
  <1>13. CASE UNCHANGED vars
    BY <1>13 DEF vars, TypeOK
  <1> QED
    BY <1>1, <1>2, <1>3, <1>4, <1>5, <1>6, <1>7, <1>8, <1>9, <1>10, <1>11, <1>12, <1>13
    DEF Next, Resume, Settle, Rest

LEMMA TypeInit == Init => TypeOK
  <1> SUFFICES ASSUME Init PROVE TypeOK
    OBVIOUS
  <1>1. NoError \in Errors /\ NoReply \in AnyReply /\ "idle" \in CallStates
    BY DEF NoError, Errors, AnyReply, CallStates
  <1>2. /\ <<>> \in Seq(CallIds) /\ <<>> \in Seq(Events)
        /\ <<>> \in Seq(InvocationUsage(CallIds))
    BY EmptySeq
  <1> QED BY <1>1, <1>2 DEF Init, TypeOK

(* Type correctness of the orchestrator.                                   *)
THEOREM TypeCorrect == Spec => []TypeOK
  BY TypeInit, TypeStep, PTL DEF Spec
--------------------------------------------------------------------------------

(* The run has opened the stages up to s, and no further: what came before *)
(* returned valid replies, what comes after has not been asked.            *)
Frontier(s) ==
  \A c \in CallIds :
    /\ StageNumber[c[1]] < StageNumber[s] => call[c] = "returned" /\ reply[c].valid
    /\ StageNumber[c[1]] > StageNumber[s] => call[c] = "idle"

FrontierInv ==
  /\ pc = "new" => \A c \in CallIds : call[c] = "idle"
  /\ pc \in Stages => Frontier(pc)
  /\ pc \in Ended => \E s \in Stages : Frontier(s)

(* An await's future holds an exception exactly when one of its calls      *)
(* ended with one.                                                         *)
FailureInv ==
  \A s \in Stages :
    /\ failure[s] # NoCall => failure[s] \in CallsOf(s) /\ call[failure[s]] = "failed"
    /\ failure[s] = NoCall => \A c \in CallsOf(s) : call[c] # "failed"

(* StageBarrier says nothing of where the run stands, and the orphans      *)
(* nothing of why there are none in other cases: both need the frontier.   *)
ControlInv ==
  /\ TypeOK
  /\ FrontierInv
  /\ FailureInv
  /\ OrphansOnlyAfterSiblingFailure

LEMMA StageNumbers ==
  /\ \A s \in Stages : StageNumber[s] \in 1 .. 5
  /\ \A s, t \in Stages : StageNumber[s] = StageNumber[t] => s = t
  BY DEF StageNumber, Stages

(* While a call is in flight, the frontier is its stage.                   *)
LEMMA InflightAtFrontier ==
  ASSUME NEW s \in Stages, Frontier(s), NEW c \in CallIds, call[c] = "inflight"
  PROVE  c[1] = s /\ c \in CallsOf(s)
  <1>1. c[1] \in Stages /\ c = <<c[1], c[2]>> /\ c[2] \in Callers(c[1])
    BY DEF CallIds
  <1>2. c[1] = s
    BY <1>1, StageNumbers DEF Frontier
  <1> QED BY <1>1, <1>2 DEF CallsOf

(* A call that ends leaves the frontier where it is.                       *)
LEMMA SettleKeepsFrontier ==
  ASSUME TypeOK, NEW c \in CallIds, Settle(c), NEW s \in Stages, Frontier(s)
  PROVE  Frontier(s)'
  <1>1. call[c] = "inflight" /\ c[1] = s
    BY InflightAtFrontier DEF Settle, CallReturns, CallFails
  <1>2. \A d \in CallIds : d # c => call'[d] = call[d] /\ reply'[d] = reply[d]
    BY DEF Settle, CallReturns, CallFails, TypeOK
  <1>3. ~ (StageNumber[c[1]] < StageNumber[s]) /\ ~ (StageNumber[c[1]] > StageNumber[s])
    BY <1>1, StageNumbers
  <1> QED BY <1>2, <1>3 DEF Frontier

LEMMA CallParts ==
  ASSUME NEW c \in CallIds
  PROVE  c[1] \in Stages /\ c \in CallsOf(c[1])
  BY DEF CallIds, CallsOf

(* Accepting a stage and awaiting the next one moves the frontier to it.   *)
LEMMA AwaitNextStage ==
  ASSUME ControlInv, NEW s \in Stages, NEW t \in Stages,
         StageNumber[t] = StageNumber[s] + 1,
         pc = s, AllReturned(s), \A i \in Callers(s) : Gather(s)[i].valid, Await(t)
  PROVE  FrontierInv' /\ FailureInv' /\ OrphansOnlyAfterSiblingFailure'
  <1>1. /\ pc' = t /\ t \notin Ended \cup {"new"} /\ failure' = failure /\ reply' = reply
        /\ \A c \in CallIds : call'[c] = IF c[1] = t THEN "inflight" ELSE call[c]
    BY StagesAreNotEnds DEF Await, Issued, Ended
  <1>2. Frontier(s)
    BY DEF ControlInv, FrontierInv
  <1>3. \A c \in CallIds : c[1] = s => call[c] = "returned" /\ reply[c].valid
    BY CallersAreCalls DEF AllReturned, CallIds, CallsOf, Gather
  <1>4. \A c \in CallIds : c[1] = t => call[c] = "idle"
    BY <1>2, StageNumbers DEF Frontier
  <1>5. Frontier(t)'
    <2> SUFFICES ASSUME NEW c \in CallIds
                 PROVE  /\ StageNumber[c[1]] < StageNumber[t]
                             => call'[c] = "returned" /\ reply'[c].valid
                        /\ StageNumber[c[1]] > StageNumber[t] => call'[c] = "idle"
      BY DEF Frontier
    <2>1. c[1] \in Stages
      BY CallParts
    <2>2. CASE StageNumber[c[1]] < StageNumber[s]
      BY <2>1, <2>2, <1>1, <1>2, StageNumbers DEF Frontier
    <2>3. CASE StageNumber[c[1]] = StageNumber[s]
      BY <2>1, <2>3, <1>1, <1>3, StageNumbers
    <2>4. CASE StageNumber[c[1]] > StageNumber[s]
      BY <2>1, <2>4, <1>1, <1>2, StageNumbers DEF Frontier
    <2> QED BY <2>1, <2>2, <2>3, <2>4, StageNumbers
  <1>6. FailureInv'
    <2> SUFFICES ASSUME NEW u \in Stages
                 PROVE  /\ failure[u] # NoCall
                             => failure[u] \in CallsOf(u) /\ call'[failure[u]] = "failed"
                        /\ failure[u] = NoCall => \A c \in CallsOf(u) : call'[c] # "failed"
      BY <1>1 DEF FailureInv
    <2>1. \A c \in CallsOf(u) : c \in CallIds /\ c[1] = u
      BY CallersAreCalls DEF CallsOf
    <2>2. FailureInv
      BY DEF ControlInv
    <2>3. CASE u = t
      BY <2>1, <2>2, <2>3, <1>1, <1>4 DEF FailureInv
    <2>4. CASE u # t
      BY <2>1, <2>2, <2>4, <1>1 DEF FailureInv
    <2> QED BY <2>3, <2>4
  <1> QED BY <1>1, <1>5, <1>6 DEF FrontierInv, OrphansOnlyAfterSiblingFailure

(* A run that accepts its last stage leaves no call behind.                *)
LEMMA DeliverControl ==
  ASSUME ControlInv, NEW s \in Stages, pc = s, AllReturned(s),
         NEW c \in CallIds, NEW executed, NEW decision, Deliver(c, executed, decision)
  PROVE  FrontierInv' /\ FailureInv' /\ OrphansOnlyAfterSiblingFailure'
  <1>1. /\ pc' = "returned"
        /\ UNCHANGED <<call, reply, failure, error>>
    BY DEF Deliver
  <1>2. Frontier(s)
    BY DEF ControlInv, FrontierInv
  <1>3. \A d \in CallIds : call[d] # "inflight"
    BY <1>2, InflightAtFrontier DEF AllReturned
  <1>4. Frontier(s)' /\ FailureInv'
    BY <1>1, <1>2 DEF ControlInv, Frontier, FailureInv
  <1> QED BY <1>1, <1>3, <1>4, StagesAreNotEnds
          DEF FrontierInv, OrphansOnlyAfterSiblingFailure, Ended

(* A run that raises leaves calls behind only if a sibling of theirs       *)
(* failed, and never when every call of the stage had returned.            *)
LEMMA RaiseControl ==
  ASSUME ControlInv, NEW s \in Stages, pc = s,
         NEW kind, NEW c, Raise(kind, c),
         \/ call' = call /\ failure[s] # NoCall /\ kind # "validation"
         \/ call' = call /\ AllReturned(s)
         \/ /\ failure[s] = NoCall
            /\ call' = [d \in CallIds |-> IF call[d] = "inflight" THEN "cancelled"
                                          ELSE call[d]]
  PROVE  FrontierInv' /\ FailureInv' /\ OrphansOnlyAfterSiblingFailure'
  <1>1. pc' = "raised" /\ error'.kind = kind /\ reply' = reply /\ failure' = failure
    BY DEF Raise
  <1>2. Frontier(s) /\ FailureInv
    BY DEF ControlInv, FrontierInv
  <1>3. \A d \in CallIds : call'[d] = call[d] \/ (call[d] = "inflight" /\ call'[d] = "cancelled")
    BY DEF ControlInv, TypeOK
  <1>4. Frontier(s)'
    <2>1. \A d \in CallIds : call[d] = "inflight" => StageNumber[d[1]] = StageNumber[s]
      BY <1>2, InflightAtFrontier
    <2> QED BY <1>1, <1>2, <1>3, <2>1, StageNumbers, CallParts DEF Frontier
  <1>5. FailureInv'
    <2> SUFFICES ASSUME NEW u \in Stages
                 PROVE  /\ failure[u] # NoCall
                             => failure[u] \in CallsOf(u) /\ call'[failure[u]] = "failed"
                        /\ failure[u] = NoCall => \A d \in CallsOf(u) : call'[d] # "failed"
      BY <1>1 DEF FailureInv
    <2> QED BY <1>2, <1>3, CallersAreCalls DEF FailureInv
  <1>6. OrphansOnlyAfterSiblingFailure'
    <2> SUFFICES ASSUME NEW d \in CallIds, call'[d] = "inflight"
                 PROVE  /\ kind # "validation"
                        /\ d[1] \in Gathered
                        /\ \E e \in CallsOf(d[1]) : call'[e] = "failed"
                        /\ \A e \in CallIds : StageNumber[e[1]] > StageNumber[d[1]]
                                                => call'[e] = "idle"
      BY <1>1 DEF OrphansOnlyAfterSiblingFailure
    <2>1. call[d] = "inflight" /\ d[1] = s /\ d \in CallsOf(s)
      BY <1>2, <1>3, InflightAtFrontier
    <2>2. call' = call /\ failure[s] # NoCall /\ kind # "validation"
      BY <2>1 DEF AllReturned
    <2>3. failure[s] \in CallsOf(s) /\ call[failure[s]] = "failed"
      BY <1>2, <2>2 DEF FailureInv
    <2>4. s \in Gathered
      <3> SUFFICES ASSUME s \notin Gathered PROVE FALSE
        OBVIOUS
      <3>1. CallsOf(s) = {<<s, 1>>}
        BY DEF CallsOf, Callers, Width
      <3> QED BY <3>1, <2>1, <2>3
    <2> QED BY <1>4, <2>1, <2>2, <2>3, <2>4 DEF Frontier
  <1> QED BY <1>1, <1>4, <1>5, <1>6, StagesAreNotEnds DEF FrontierInv, Ended

(* A call that ends, while the run waits or after it has raised, changes   *)
(* neither the frontier nor the reason for its being left behind.          *)
LEMMA SettleControl ==
  ASSUME ControlInv, NEW c \in CallIds, Settle(c)
  PROVE  FrontierInv' /\ FailureInv' /\ OrphansOnlyAfterSiblingFailure'
  <1>1. /\ TypeOK /\ call[c] = "inflight" /\ pc' = pc /\ error' = error
        /\ \A d \in CallIds : d # c => call'[d] = call[d]
        /\ call'[c] \in {"returned", "failed"}
    BY DEF ControlInv, TypeOK, Settle, CallReturns, CallFails
  <1>2. FrontierInv'
    <2>1. pc # "new"
      BY <1>1 DEF ControlInv, FrontierInv
    <2>2. pc \in Stages => Frontier(pc)'
      BY <1>1, SettleKeepsFrontier DEF ControlInv, FrontierInv
    <2>3. pc \in Ended => \E s \in Stages : Frontier(s)'
      BY <1>1, SettleKeepsFrontier DEF ControlInv, FrontierInv
    <2> QED BY <1>1, <2>1, <2>2, <2>3 DEF FrontierInv
  <1>3. FailureInv'
    <2> SUFFICES ASSUME NEW s \in Stages
                 PROVE  /\ failure'[s] # NoCall
                             => failure'[s] \in CallsOf(s) /\ call'[failure'[s]] = "failed"
                        /\ failure'[s] = NoCall => \A d \in CallsOf(s) : call'[d] # "failed"
      BY DEF FailureInv
    <2>1. /\ failure[s] # NoCall => failure[s] \in CallsOf(s) /\ call[failure[s]] = "failed"
          /\ failure[s] = NoCall => \A d \in CallsOf(s) : call[d] # "failed"
      BY DEF ControlInv, FailureInv
    <2>2. CallsOf(s) \subseteq CallIds /\ NoCall \notin CallIds
      BY CallersAreCalls
    <2>3. c \in CallsOf(s) <=> c[1] = s
      BY CallParts DEF CallsOf
    <2>4. CASE CallReturns(c)
      BY <1>1, <2>1, <2>2, <2>4 DEF CallReturns, TypeOK
    <2>5. CASE CallFails(c)
      <3>1. /\ call'[c] = "failed"
            /\ failure'[s] = IF c[1] = s /\ failure[s] = NoCall THEN c ELSE failure[s]
        BY <1>1, <2>5 DEF CallFails, TypeOK
      <3> QED BY <1>1, <2>1, <2>2, <2>3, <3>1
    <2> QED BY <2>4, <2>5 DEF Settle
  <1>4. OrphansOnlyAfterSiblingFailure'
    <2> SUFFICES ASSUME NEW d \in CallIds, pc \in Ended, call'[d] = "inflight"
                 PROVE  /\ pc = "raised" /\ error.kind # "validation"
                        /\ d[1] \in Gathered
                        /\ \E e \in CallsOf(d[1]) : call'[e] = "failed"
                        /\ \A e \in CallIds : StageNumber[e[1]] > StageNumber[d[1]]
                                                => call'[e] = "idle"
      BY <1>1 DEF OrphansOnlyAfterSiblingFailure
    <2>1. call[d] = "inflight"
      BY <1>1
    <2>2. /\ pc = "raised" /\ error.kind # "validation"
          /\ d[1] \in Gathered
          /\ \E e \in CallsOf(d[1]) : call[e] = "failed"
          /\ \A e \in CallIds : StageNumber[e[1]] > StageNumber[d[1]] => call[e] = "idle"
      BY <2>1 DEF ControlInv, OrphansOnlyAfterSiblingFailure
    <2> QED BY <1>1, <2>2, CallParts, CallersAreCalls
  <1> QED BY <1>2, <1>3, <1>4

(* The control invariant is inductive.                                     *)
LEMMA ControlStep == ControlInv /\ [Next]_vars => ControlInv'
  <1> SUFFICES ASSUME ControlInv, [Next]_vars
               PROVE  FrontierInv' /\ FailureInv' /\ OrphansOnlyAfterSiblingFailure'
    BY TypeStep DEF ControlInv
  <1>1. CASE BeginRun
    <2>1. /\ pc' = "task_framing" /\ UNCHANGED <<reply, failure>>
          /\ \A c \in CallIds : call[c] = "idle"
          /\ \A c \in CallIds : call'[c] = IF c[1] = "task_framing" THEN "inflight"
                                           ELSE call[c]
      BY <1>1 DEF BeginRun, Await, Issued, ControlInv, FrontierInv
    <2>2. FrontierInv'
      BY <2>1, StageNumbers, CallParts DEF FrontierInv, Frontier, Stages, StageNumber, Ended
    <2>3. FailureInv'
      BY <2>1, CallersAreCalls DEF FailureInv, ControlInv
    <2> QED BY <2>1, <2>2, <2>3 DEF OrphansOnlyAfterSiblingFailure, Ended
  <1>2. CASE FrameTask
    BY <1>2, AwaitNextStage DEF FrameTask, Accept, Stages, StageNumber
  <1>3. CASE CollectContributions
    BY <1>3, AwaitNextStage DEF CollectContributions, Accept, Stages, StageNumber
  <1>4. CASE OpenReviews
    BY <1>4, AwaitNextStage DEF OpenReviews, Accept, Stages, StageNumber
  <1>5. CASE FinishUngated
    <2>1. <<"candidate_synthesis", 1>> \in CallIds /\ "candidate_review" \in Stages
      BY CallersAreCalls DEF Stages, Callers
    <2> QED BY <1>5, <2>1, DeliverControl DEF FinishUngated, Accept
  <1>6. CASE OpenGate
    BY <1>6, AwaitNextStage DEF OpenGate, Accept, Stages, StageNumber
  <1>7. CASE FinishGated
    <2>1. <<"release_gate", 1>> \in CallIds /\ "release_gate" \in Stages
      BY CallersAreCalls DEF Stages, Callers
    <2> QED BY <1>7, <2>1, DeliverControl DEF FinishGated, Accept
  <1>8. ASSUME NEW s \in Stages, RaiseProviderError(s)
        PROVE  FrontierInv' /\ FailureInv' /\ OrphansOnlyAfterSiblingFailure'
    BY <1>8, RaiseControl DEF RaiseProviderError
  <1>9. ASSUME NEW s \in Stages, RaiseInvalidReply(s)
        PROVE  FrontierInv' /\ FailureInv' /\ OrphansOnlyAfterSiblingFailure'
    BY <1>9, RaiseControl DEF RaiseInvalidReply
  <1>10. ASSUME NEW s \in Stages, Cancel(s)
         PROVE  FrontierInv' /\ FailureInv' /\ OrphansOnlyAfterSiblingFailure'
    BY <1>10, RaiseControl DEF Cancel
  <1>11. ASSUME NEW c \in CallIds, Settle(c)
         PROVE  FrontierInv' /\ FailureInv' /\ OrphansOnlyAfterSiblingFailure'
    BY <1>11, SettleControl
  <1>12. CASE UNCHANGED vars
    BY <1>12 DEF vars, ControlInv, FrontierInv, Frontier, FailureInv,
                 OrphansOnlyAfterSiblingFailure
  <1> QED
    BY <1>1, <1>2, <1>3, <1>4, <1>5, <1>6, <1>7, <1>8, <1>9, <1>10, <1>11, <1>12
    DEF Next, Resume, Rest

LEMMA ControlInvHolds == Spec => []ControlInv
  <1>1. Init => ControlInv
    BY TypeInit, CallersAreCalls DEF Init, ControlInv, FrontierInv, FailureInv, Ended,
       Stages, OrphansOnlyAfterSiblingFailure
  <1> QED BY <1>1, ControlStep, PTL DEF Spec

(* No stage is ever opened on part of the stage before it: a call of a     *)
(* later stage exists only once every earlier call returned a valid reply. *)
THEOREM StageBarrierHolds == Spec => []StageBarrier
  <1>1. ControlInv => StageBarrier
    <2> SUFFICES ASSUME ControlInv, NEW c \in CallIds, NEW d \in CallIds,
                        StageNumber[c[1]] < StageNumber[d[1]], call[d] # "idle"
                 PROVE  call[c] = "returned" /\ reply[c].valid
      BY DEF StageBarrier
    <2>1. PICK s \in Stages : Frontier(s)
      BY DEF ControlInv, FrontierInv, TypeOK
    <2>2. StageNumber[c[1]] < StageNumber[s]
      BY <2>1, StageNumbers, CallParts DEF Frontier
    <2> QED BY <2>1, <2>2 DEF Frontier
  <1> QED BY <1>1, ControlInvHolds, PTL

(* A provider call outlives its run only when a sibling of the same        *)
(* gather() failed, whatever the interleaving of replies, failures and     *)
(* cancellation.                                                           *)
THEOREM OrphansHold == Spec => []OrphansOnlyAfterSiblingFailure
  <1>1. ControlInv => OrphansOnlyAfterSiblingFailure
    BY DEF ControlInv
  <1> QED BY <1>1, ControlInvHolds, PTL
================================================================================
