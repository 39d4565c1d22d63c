------------------------- MODULE ConsensusSessionProofs -------------------------
(***************************************************************************)
(* Theorems about a consensus run in its event loop, with its emitter, its *)
(* prompts and its scripted provider, for every number of participants,    *)
(* every set of scripts and every set of consumers.  The composition takes *)
(* only steps that the orchestrator's specification allows, so that what   *)
(* is proved of a run there holds here as well.  What the loop's queue     *)
(* holds at each point of a run then tells that the coroutine is always    *)
(* woken, that every turn takes the run further, that the k-th response    *)
(* goes to the k-th call and that no call outlives the run.                *)
(***************************************************************************)
EXTENDS ConsensusSession, ConsensusUsageProofs

USE ConsensusAssumption, NoneAssumption

LEMMA SessionStep == [SessionNext]_sessionVars => [Next]_vars
  <1> SUFFICES ASSUME [SessionNext]_sessionVars PROVE [Next]_vars
    OBVIOUS
  <1>1. ASSUME NEW c \in CallIds, Invokes(c)
        PROVE  Next
    BY <1>1 DEF Invokes, Next, Settle
  <1>2. CASE RunsOn
    BY <1>2 DEF RunsOn, Next
  <1>3. CASE AsksModerator
    <2>1. <<pc, 1>> \in CallIds
      BY <1>3, CallersAreCalls DEF AsksModerator, Callers
    <2> QED BY <1>1, <1>3, <2>1 DEF AsksModerator
  <1>4. ASSUME NEW c \in CallIds, TaskRuns(c) \/ Notifies(c)
        PROVE  [Next]_vars
    BY <1>1, <1>4 DEF TaskRuns, Notifies
  <1>5. CASE Closes \/ (\E f \in Followers : Follows(f)) \/ Idle \/ UNCHANGED sessionVars
    BY <1>5 DEF Closes, Follows, Idle, sessionVars
  <1> QED BY <1>2, <1>3, <1>4, <1>5 DEF SessionNext, LoopTurn

(* A run in the event loop, against the scripted provider, is a run of the *)
(* orchestrator: the loop and FakeProvider only choose among the orders    *)
(* and outcomes that ConsensusRun allows.                                  *)
THEOREM SessionIsARun == SessionSpec => Spec
  <1>1. SessionInit => Init
    BY DEF SessionInit
  <1> QED BY <1>1, SessionStep, PTL DEF SessionSpec, Spec

(* So a scripted run that returns a result has accounted for every call it *)
(* made, and its events are those of a command stream, for every script.   *)
COROLLARY SessionAccountsHolds == SessionSpec => []SuccessAccountsForEveryCall
  BY SessionIsARun, SuccessAccountsHolds, PTL

COROLLARY SessionImplementsStream == SessionSpec => ImplementsStream
  BY SessionIsARun, ConsensusImplementsStream, PTL

--------------------------------------------------------------------------------

(* Every call was made with the messages its place asks for.               *)
PromptsInv ==
  \A c \in CallIds : prompts[c] = IF call[c] = "idle" THEN NoMessages ELSE MessagesOf(c)

LEMMA NeverIdleAgain ==
  ASSUME Resume, NEW c \in CallIds, call'[c] = "idle"
  PROVE  call[c] = "idle"
  <1>1. ASSUME NEW s \in Stages, Await(s)
        PROVE  call[c] = "idle"
    BY <1>1 DEF Await, Issued
  <1>2. CASE BeginRun \/ FrameTask \/ CollectContributions \/ OpenReviews \/ OpenGate
    BY <1>1, <1>2 DEF BeginRun, FrameTask, CollectContributions, OpenReviews, OpenGate, Stages
  <1>3. CASE FinishUngated \/ FinishGated
    BY <1>3 DEF FinishUngated, FinishGated, Deliver
  <1>4. ASSUME NEW s \in Stages, RaiseProviderError(s) \/ RaiseInvalidReply(s)
        PROVE  call[c] = "idle"
    BY <1>4 DEF RaiseProviderError, RaiseInvalidReply
  <1> QED BY <1>2, <1>3, <1>4 DEF Resume

LEMMA PromptsStep == TypeOK /\ PromptsInv /\ [SessionNext]_sessionVars => PromptsInv'
  <1> SUFFICES ASSUME TypeOK, PromptsInv, [SessionNext]_sessionVars, NEW c \in CallIds
               PROVE  prompts'[c] = IF call'[c] = "idle" THEN NoMessages ELSE MessagesOf(c)
    BY DEF PromptsInv, MessagesOf, NoMessages
  <1>1. CASE RunsOn
    BY <1>1, NeverIdleAgain DEF RunsOn, PromptsInv
  <1>2. ASSUME NEW d \in CallIds, Invokes(d)
        PROVE  call'[c] = "idle" <=> call[c] = "idle"
    BY <1>2 DEF Invokes, CallReturns, CallFails, TypeOK
  <1>3. CASE AsksModerator
    <2>1. <<pc, 1>> \in CallIds
      BY <1>3, CallersAreCalls DEF AsksModerator, Callers
    <2> QED BY <1>2, <1>3, <2>1 DEF AsksModerator, PromptsInv
  <1>4. ASSUME NEW d \in CallIds, TaskRuns(d)
        PROVE  prompts'[c] = IF call'[c] = "idle" THEN NoMessages ELSE MessagesOf(c)
    BY <1>2, <1>4 DEF TaskRuns, PromptsInv
  <1>5. CASE UNCHANGED <<call, prompts>>
    BY <1>5 DEF PromptsInv
  <1>6. ASSUME NEW d \in CallIds, Notifies(d)
        PROVE  UNCHANGED <<call, prompts>>
    BY <1>6 DEF Notifies, vars
  <1>7. CASE Closes \/ (\E f \in Followers : Follows(f)) \/ Idle \/ UNCHANGED sessionVars
    BY <1>5, <1>7 DEF Closes, Follows, Idle, sessionVars, vars
  <1> QED BY <1>1, <1>3, <1>4, <1>5, <1>6, <1>7 DEF SessionNext, LoopTurn

(* The texts a prompt may quote, by the stage of its call.                 *)
LEMMA QuotedTexts ==
  ASSUME NEW c \in CallIds
  PROVE  /\ \A d \in {MessagesOf(c).framing, MessagesOf(c).candidate}
                       \cup {e.of : e \in MessagesOf(c).excerpts} :
              d # Nothing => /\ d \in CallIds
                             /\ StageNumber[d[1]] < StageNumber[c[1]]
         /\ c[1] = "initial_contribution" => MessagesOf(c).excerpts = {}
         /\ \A e \in MessagesOf(c).excerpts :
              \E i \in Participants : /\ e.label = Label(i)
                                     /\ e.of = <<"initial_contribution", i>>
  <1> DEFINE framing == <<"task_framing", 1>>
             contributions == [i \in Participants |-> <<"initial_contribution", i>>]
             candidate == <<"candidate_synthesis", 1>>
  <1>1. /\ framing \in CallIds /\ candidate \in CallIds
        /\ \A i \in Participants : contributions[i] \in CallIds
    <2>1. Callers("initial_contribution") = Participants
      BY DEF Callers, Width, Gathered, Participants
    <2> QED BY <2>1, CallersAreCalls DEF Callers, Stages
  <1>2. label_contributions(contributions) =
          {[label |-> Label(i), of |-> <<"initial_contribution", i>>] : i \in Participants}
    BY DEF label_contributions
  <1>3. c[1] \in Stages
    BY CallNames
  <1>4. CASE c[1] = "task_framing"
    <2>1. MessagesOf(c) = Messages(TRUE, Nothing, {}, Nothing)
      BY <1>4 DEF MessagesOf, build_framing_messages
    <2> QED BY <2>1, <1>4 DEF Messages
  <1>5. CASE c[1] = "initial_contribution"
    <2>1. MessagesOf(c) = Messages(TRUE, framing, {}, Nothing)
      BY <1>5 DEF MessagesOf, build_contribution_messages
    <2> QED BY <2>1, <1>1, <1>5 DEF Messages, StageNumber
  <1>6. CASE c[1] = "candidate_synthesis"
    <2>1. MessagesOf(c) = Messages(TRUE, framing, label_contributions(contributions), Nothing)
      BY <1>6 DEF MessagesOf, build_synthesis_messages
    <2> HIDE DEF contributions
    <2> QED BY <2>1, <1>1, <1>2, <1>6 DEF Messages, StageNumber, contributions
  <1>7. CASE c[1] = "candidate_review"
    <2>1. MessagesOf(c) = Messages(FALSE, framing, label_contributions(contributions), candidate)
      BY <1>7 DEF MessagesOf, build_review_messages
    <2> HIDE DEF contributions
    <2> QED BY <2>1, <1>1, <1>2, <1>7 DEF Messages, StageNumber, contributions
  <1>8. CASE c[1] = "release_gate"
    <2>1. MessagesOf(c) = Messages(FALSE, framing, {}, candidate)
      BY <1>8 DEF MessagesOf, build_release_gate_messages
    <2> QED BY <2>1, <1>1, <1>8 DEF Messages, StageNumber
  <1> QED BY <1>3, <1>4, <1>5, <1>6, <1>7, <1>8 DEF Stages

(* Every text a prompt quotes was in and valid when the prompt was built,  *)
(* and a label means the same contribution throughout a run, for any       *)
(* number of participants.                                                 *)
THEOREM PromptProvenanceHolds == SessionSpec => []PromptProvenance
  <1>1. SessionInit => PromptsInv
    BY DEF SessionInit, Init, PromptsInv
  <1>2. PromptsInv /\ StageBarrier => PromptProvenance
    <2> SUFFICES ASSUME PromptsInv, StageBarrier PROVE PromptProvenance
      OBVIOUS
    <2> DEFINE made == {c \in CallIds : call[c] # "idle"}
               Quoted(c) == {prompts[c].framing, prompts[c].candidate}
                              \cup {e.of : e \in prompts[c].excerpts}
    <2>1. \A c \in made : c \in CallIds /\ prompts[c] = MessagesOf(c)
      BY DEF PromptsInv
    <2>2. ASSUME NEW c \in made, NEW d \in Quoted(c) \ {Nothing}
          PROVE  /\ call[d] = "returned" /\ reply[d].valid
                 /\ StageNumber[d[1]] < StageNumber[c[1]]
      <3>1. d \in CallIds /\ StageNumber[d[1]] < StageNumber[c[1]]
        BY <2>1, QuotedTexts
      <3> QED BY <3>1 DEF StageBarrier
    <2>3. ASSUME NEW c \in CallsOf("initial_contribution")
          PROVE  prompts[c].excerpts = {}
      <3>1. c \in CallIds /\ c[1] = "initial_contribution"
        BY CallersAreCalls DEF CallsOf, Stages
      <3>2. NoMessages.excerpts = {}
        BY DEF NoMessages, Messages
      <3> QED BY <3>1, <3>2, QuotedTexts DEF PromptsInv
    <2>4. \A c, d \in made : \A e \in prompts[c].excerpts, g \in prompts[d].excerpts :
            e.label = g.label <=> e.of = g.of
      <3>1. \A i, j \in Participants : Label(i) = Label(j) => i = j
        BY DEF Label, Participants
      <3> QED BY <2>1, <3>1, QuotedTexts
    <2> QED BY <2>1, <2>2, <2>3, <2>4, QuotedTexts DEF PromptProvenance
  <1> QED BY <1>1, <1>2, PromptsStep, SessionIsARun, TypeCorrect, StageBarrierHolds,
            PTL DEF SessionSpec

--------------------------------------------------------------------------------

(* The log only grows, and only while the run has not returned.            *)
LEMMA LogGrows ==
  ASSUME ControlInv, ControlInv', EventsInv, Resume
  PROVE  /\ Len(log) \in Nat /\ Len(log') \in Nat /\ Len(log) <= Len(log')
         /\ \A j \in 1 .. Len(log) : log'[j] = log[j]
         /\ pc # "returned"
  <1>1. TypeOK /\ log \in Seq(Events) /\ Len(log) \in Nat /\ Len(log') \in Nat
    BY LenProperties DEF ControlInv, TypeOK
  <1> DEFINE Goal == /\ Len(log) <= Len(log')
                     /\ \A j \in 1 .. Len(log) : log'[j] = log[j]
                     /\ pc # "returned"
  <1>2. ASSUME NEW s \in Stages, NEW k \in 0 .. Width(s), NEW batch \in Seq(Events),
               Extends(s, k, batch), pc = s
        PROVE  Goal
    <2>1. /\ k \in Nat /\ Len(batch) \in Nat
          /\ Len(log') = Len(log) + k + Len(batch)
          /\ \A j \in 1 .. Len(log) : log'[j] = log[j]
      BY <1>1, <1>2, ExtendedLog
    <2>2. Len(log) <= Len(log')
      BY <1>1, <2>1
    <2>3. pc # "returned"
      BY <1>2, StagesAreNotEnds
    <2> QED BY <2>1, <2>2, <2>3
  <1>3. ASSUME NEW s \in Stages, NEW batch \in Seq(Events), Accept(s, batch)
        PROVE  Goal
    <2>1. Width(s) \in 0 .. Width(s) /\ Extends(s, Width(s), batch) /\ pc = s
      BY <1>3, CallersAreCalls DEF Accept, Extends
    <2> QED BY <1>2, <2>1
  <1> SUFFICES Goal
    BY <1>1
  <1> HIDE DEF Goal
  <1>4. CASE BeginRun
    <2>1. log = <<>> /\ pc = "new"
      BY <1>4 DEF BeginRun, EventsInv, NotYetCompleted
    <2>2. Len(log) = 0
      BY <2>1
    <2> QED BY <1>1, <2>1, <2>2 DEF Goal
  <1>5. CASE FrameTask
    BY <1>3, <1>5, OpeningShape DEF FrameTask, Stages
  <1>6. CASE CollectContributions
    BY <1>3, <1>6, OpeningShape DEF CollectContributions, Stages
  <1>7. CASE OpenReviews \/ OpenGate \/ FinishUngated \/ FinishGated
    <2> DEFINE review == <<Say("candidate_created"), Say("round_started"), Say("review_started")>>
                           \o Opening("candidate_review")
               gate == Verdict \o Opening("release_gate")
               last == Verdict \o Closing
    <2>1. review \in Seq(Events) /\ gate \in Seq(Events) /\ last \in Seq(Events)
      BY BatchTypes
    <2>2. /\ OpenReviews => Accept("candidate_synthesis", review)
          /\ OpenGate => Accept("candidate_review", gate)
          /\ FinishUngated => Accept("candidate_review", last)
          /\ FinishGated => Accept("release_gate", Closing)
      BY DEF OpenReviews, OpenGate, FinishUngated, FinishGated
    <2> HIDE DEF review, gate, last
    <2>3. CASE OpenReviews
      BY <1>3, <2>1, <2>2, <2>3 DEF Stages
    <2>4. CASE OpenGate
      BY <1>3, <2>1, <2>2, <2>4 DEF Stages
    <2>5. CASE FinishUngated
      BY <1>3, <2>1, <2>2, <2>5 DEF Stages
    <2>6. CASE FinishGated
      BY <1>3, BatchTypes, <2>2, <2>6 DEF Stages
    <2> QED BY <1>7, <2>3, <2>4, <2>5, <2>6
  <1>8. ASSUME NEW s \in Stages, RaiseProviderError(s)
        PROVE  Goal
    <2>1. log' = log /\ pc = s
      BY <1>8 DEF RaiseProviderError
    <2> QED BY <1>1, <2>1, StagesAreNotEnds DEF Goal
  <1>9. ASSUME NEW s \in Stages, RaiseInvalidReply(s)
        PROVE  Goal
    <2>1. PICK i \in Callers(s) : log' = log \o CompletedEvents(s, i - 1)
      BY <1>9 DEF RaiseInvalidReply
    <2>2. Width(s) \in Nat /\ i - 1 \in 0 .. Width(s) /\ pc = s
      BY <1>9, CallersAreCalls DEF Callers, RaiseInvalidReply
    <2>3. <<>> \in Seq(Events) /\ Extends(s, i - 1, <<>>)
      <3>1. log \in Seq(Events) /\ CompletedEvents(s, i - 1) \in Seq(Events)
        BY <1>1, <2>2, RecordedType
      <3>2. log \o CompletedEvents(s, i - 1) \in Seq(Events)
        BY <3>1, ConcatProperties
      <3> QED BY <2>1, <3>2, ConcatEmptySeq, EmptySeq DEF Extends
    <2> QED BY <1>2, <2>2, <2>3
  <1> QED BY <1>4, <1>5, <1>6, <1>7, <1>8, <1>9 DEF Resume

Stamped(list) == [i \in 1 .. Len(list) |-> [sequence |-> i, event |-> list[i]]]

(* The emitter holds the log, numbered from 1.                             *)
EmitterInv ==
  /\ sequence = Len(log)
  /\ events = Stamped(log)

LEMMA StampedProperties ==
  ASSUME NEW list \in Seq(Events)
  PROVE  /\ Stamped(list) \in Seq([sequence : Nat, event : Events])
         /\ Len(Stamped(list)) = Len(list) /\ Len(list) \in Nat
         /\ \A i \in 1 .. Len(list) : Stamped(list)[i] = [sequence |-> i, event |-> list[i]]
  <1>1. Len(list) \in Nat
    BY LenProperties
  <1>2. Stamped(list) \in [1 .. Len(list) -> [sequence : Nat, event : Events]]
    BY <1>1 DEF Stamped
  <1> QED BY <1>1, <1>2, FunctionIsSeq DEF Stamped

LEMMA EmittedBatch ==
  ASSUME ControlInv, ControlInv', EventsInv, EmitterInv, Resume,
         EmitAll(SubSeq(log', Len(log) + 1, Len(log')))
  PROVE  EmitterInv'
  <1> DEFINE n == Len(log)
             m == Len(log') - n
             batch == SubSeq(log', n + 1, Len(log'))
             stamps == [i \in DOMAIN batch |-> [sequence |-> sequence + i, event |-> batch[i]]]
             Stamps == [sequence : Nat, event : Events]
  <1>1. /\ n \in Nat /\ Len(log') \in Nat /\ n <= Len(log')
        /\ \A j \in 1 .. n : log'[j] = log[j]
        /\ log \in Seq(Events) /\ log' \in Seq(Events)
    BY LogGrows DEF ControlInv, TypeOK
  <1>2. m \in Nat /\ Len(log') = n + m
    BY <1>1
  <1>3. batch \in Seq(Events) /\ Len(batch) = m /\ \A i \in 1 .. m : batch[i] = log'[n + i]
    BY <1>1, <1>2, SubSeqProperties
  <1>4. sequence = n /\ events = Stamped(log)
    BY DEF EmitterInv
  <1>5. DOMAIN batch = 1 .. m
    BY <1>3, LenProperties
  <1> HIDE DEF batch
  <1>6. /\ stamps \in [1 .. m -> Stamps]
        /\ \A i \in 1 .. m : stamps[i] = [sequence |-> n + i, event |-> batch[i]]
    BY <1>1, <1>2, <1>3, <1>4, <1>5
  <1> HIDE DEF n, m, stamps, Stamps
  <1>7. stamps \in Seq(Stamps) /\ Len(stamps) = m
    BY <1>2, <1>6, FunctionIsSeq
  <1>8. events \in Seq(Stamps) /\ Len(events) = n
        /\ \A i \in 1 .. n : events[i] = [sequence |-> i, event |-> log[i]]
    BY <1>1, <1>4, StampedProperties DEF n, Stamps
  <1>9. /\ events' = events \o stamps /\ sequence' = sequence + Len(batch)
    BY DEF EmitAll, stamps, batch, n
  <1>10. /\ Len(events') = n + m /\ events' \in Seq(Stamps)
         /\ \A i \in 1 .. n + m : events'[i] = IF i <= n THEN events[i] ELSE stamps[i - n]
    <2>1. events \in Seq(Stamps) /\ stamps \in Seq(Stamps)
      BY <1>7, <1>8
    <2>2. /\ events \o stamps \in Seq(Stamps)
          /\ Len(events \o stamps) = Len(events) + Len(stamps)
          /\ \A i \in 1 .. Len(events) + Len(stamps) :
               (events \o stamps)[i] = IF i <= Len(events) THEN events[i]
                                       ELSE stamps[i - Len(events)]
      BY <2>1, ConcatProperties
    <2>3. Len(events) = n /\ Len(stamps) = m
      BY <1>7, <1>8
    <2> QED BY <2>2, <2>3, <1>9
  <1>11. \A i \in 1 .. n + m : events'[i] = [sequence |-> i, event |-> log'[i]]
    <2> SUFFICES ASSUME NEW i \in 1 .. n + m
                 PROVE  events'[i] = [sequence |-> i, event |-> log'[i]]
      OBVIOUS
    <2>1. CASE i <= n
      BY <2>1, <1>1, <1>2, <1>8, <1>10
    <2>2. CASE i > n
      <3>1. i - n \in 1 .. m /\ n + (i - n) = i /\ ~ (i <= n)
        BY <2>2, <1>1, <1>2
      <3> QED BY <3>1, <1>3, <1>6, <1>10
    <2> QED BY <2>1, <2>2, <1>1, <1>2
  <1>12. events' = Stamped(log')
    <2>1. Stamped(log') = [i \in 1 .. n + m |-> [sequence |-> i, event |-> log'[i]]]
      BY <1>2 DEF Stamped
    <2>2. DOMAIN events' = 1 .. n + m
      BY <1>10, LenProperties
    <2>3. events' = [i \in 1 .. n + m |-> events'[i]]
      BY <2>2, <1>10, LenProperties
    <2> QED BY <2>1, <2>3, <1>11
  <1>13. sequence' = Len(log')
    BY <1>2, <1>3, <1>4, <1>9
  <1> QED BY <1>12, <1>13 DEF EmitterInv

LEMMA TurnKeepsLog ==
  ASSUME AsksModerator \/ \E c \in CallIds : TaskRuns(c) \/ Notifies(c)
  PROVE  UNCHANGED <<pc, log, sequence, events, closed, follower>>
  <1>1. ASSUME NEW c, Invokes(c)
        PROVE  UNCHANGED <<pc, log>>
    BY <1>1 DEF Invokes, CallReturns, CallFails
  <1> QED BY <1>1 DEF AsksModerator, TaskRuns, Notifies, vars, emitterVars

LEMMA EmitterStep ==
  ControlInv /\ ControlInv' /\ EventsInv /\ EmitterInv /\ [SessionNext]_sessionVars
    => EmitterInv'
  <1> SUFFICES ASSUME ControlInv, ControlInv', EventsInv, EmitterInv, [SessionNext]_sessionVars
               PROVE  EmitterInv'
    OBVIOUS
  <1>1. CASE RunsOn
    BY <1>1, EmittedBatch DEF RunsOn
  <1>2. CASE UNCHANGED <<log, sequence, events>>
    BY <1>2 DEF EmitterInv, Stamped
  <1>3. CASE AsksModerator \/ \E c \in CallIds : TaskRuns(c) \/ Notifies(c)
    BY <1>2, <1>3, TurnKeepsLog
  <1>4. ASSUME NEW f \in Followers, Follows(f)
        PROVE  UNCHANGED <<log, sequence, events>>
    BY <1>4 DEF Follows, StartsIteration, TakesEvent, EndsIteration, vars
  <1>5. CASE Closes \/ Idle \/ UNCHANGED sessionVars
    BY <1>2, <1>5 DEF Closes, Close, Idle, sessionVars, vars, emitterVars
  <1> QED BY <1>1, <1>2, <1>3, <1>4, <1>5 DEF SessionNext, LoopTurn

(* A consumer is given events only once the emitter is closed, and the     *)
(* emitter is closed only once the run has returned.                       *)
FollowInv ==
  /\ closed \in BOOLEAN
  /\ closed = TRUE => pc = "returned"
  /\ follower \in [Followers -> [state : {"new", "refused", "following", "ended"}, given : Nat]]
  /\ \A f \in Followers :
       /\ follower[f].state \in {"new", "refused"} => follower[f].given = 0
       /\ follower[f].state \in {"following", "ended"} => closed = TRUE
       /\ follower[f].given <= Len(log)
       /\ follower[f].state = "ended" => follower[f].given = Len(log)

LEMMA FollowStep ==
  ControlInv /\ ControlInv' /\ EventsInv /\ EmitterInv /\ FollowInv /\ [SessionNext]_sessionVars
    => FollowInv'
  <1> SUFFICES ASSUME ControlInv, ControlInv', EventsInv, EmitterInv, FollowInv,
                      [SessionNext]_sessionVars
               PROVE  FollowInv'
    OBVIOUS
  <1>0. /\ log \in Seq(Events) /\ Len(log) \in Nat /\ Len(events) = Len(log)
    <2>1. log \in Seq(Events)
      BY DEF ControlInv, TypeOK
    <2> QED BY <2>1, StampedProperties DEF EmitterInv
  <1>1. CASE RunsOn
    <2>1. /\ Len(log') \in Nat /\ pc # "returned"
      BY <1>1, LogGrows DEF RunsOn
    <2>2. closed' = closed /\ follower' = follower
      BY <1>1 DEF RunsOn, EmitAll
    <2>3. \A f \in Followers : follower[f].state \in {"new", "refused"} /\ follower[f].given = 0
      BY <2>1 DEF FollowInv
    <2> QED BY <2>1, <2>2, <2>3 DEF FollowInv
  <1>2. CASE UNCHANGED <<pc, log, closed, follower>>
    BY <1>2 DEF FollowInv
  <1>3. CASE AsksModerator \/ \E c \in CallIds : TaskRuns(c) \/ Notifies(c)
    BY <1>2, <1>3, TurnKeepsLog
  <1>4. CASE Closes
    <2>1. pc = "returned" /\ closed' = TRUE /\ UNCHANGED <<pc, log, follower>>
      BY <1>4 DEF Closes, Close, vars
    <2> QED BY <2>1 DEF FollowInv
  <1>5. ASSUME NEW f \in Followers, Follows(f)
        PROVE  FollowInv'
    <2>1. UNCHANGED <<pc, log, closed>>
      BY <1>5 DEF Follows, StartsIteration, TakesEvent, EndsIteration, vars
    <2>2. /\ follower[f].given \in Nat
          /\ follower[f].state \in {"new", "refused", "following", "ended"}
      BY DEF FollowInv
    <2>3. CASE StartsIteration(f)
      BY <2>1, <2>2, <2>3 DEF FollowInv, StartsIteration
    <2>4. CASE TakesEvent(f)
      BY <1>0, <2>1, <2>2, <2>4 DEF FollowInv, TakesEvent
    <2>5. CASE EndsIteration(f)
      BY <1>0, <2>1, <2>2, <2>5 DEF FollowInv, EndsIteration
    <2> QED BY <1>5, <2>3, <2>4, <2>5 DEF Follows
  <1>6. CASE Idle \/ UNCHANGED sessionVars
    BY <1>2, <1>6 DEF Idle, sessionVars, vars, emitterVars
  <1> QED BY <1>1, <1>3, <1>4, <1>5, <1>6 DEF SessionNext, LoopTurn

LEMMA FollowHolds == SessionSpec => [](EmitterInv /\ FollowInv)
  <1>1. SessionInit => EmitterInv /\ FollowInv
    <2> SUFFICES ASSUME SessionInit PROVE EmitterInv /\ FollowInv
      OBVIOUS
    <2>1. /\ log = <<>> /\ events = <<>> /\ sequence = 0 /\ closed = FALSE
          /\ follower = [f \in Followers |-> [state |-> "new", given |-> 0]]
      BY DEF SessionInit, Init, EmitterInit
    <2>2. Len(log) = 0 /\ Stamped(log) = <<>>
      BY <2>1 DEF Stamped
    <2>3. EmitterInv
      BY <2>1, <2>2 DEF EmitterInv
    <2>4. \A f \in Followers : follower[f].state = "new" /\ follower[f].given = 0
      BY <2>1
    <2>5. follower \in [Followers -> [state : {"new", "refused", "following", "ended"}, given : Nat]]
      BY <2>1
    <2>6. closed \in BOOLEAN /\ closed # TRUE /\ Len(log) = 0
      BY <2>1, <2>2, FALSE \in BOOLEAN, FALSE # TRUE
    <2>7. FollowInv
      <3>1. \A f \in Followers :
              /\ follower[f].state \in {"new", "refused"} => follower[f].given = 0
              /\ follower[f].state \in {"following", "ended"} => closed = TRUE
              /\ follower[f].given <= Len(log)
              /\ follower[f].state = "ended" => follower[f].given = Len(log)
        BY <2>4, <2>6
      <3> QED BY <3>1, <2>5, <2>6 DEF FollowInv
    <2> QED BY <2>3, <2>7
  <1> QED BY <1>1, EmitterStep, FollowStep, SessionIsARun, ControlInvHolds, EventsHold,
            PTL DEF SessionSpec

(* Whatever consumers there are and whenever they begin, one is given      *)
(* events only of a run that returned, and at the end of its iteration has *)
(* had the whole stream, up to the terminal event.                         *)
THEOREM FollowerSeesWholeRunHolds == SessionSpec => []FollowerSeesWholeRun
  <1>1. FollowInv /\ ResultMatchesStream => FollowerSeesWholeRun
    <2> SUFFICES ASSUME FollowInv, ResultMatchesStream, NEW f \in Followers
                 PROVE  /\ follower[f].given > 0 => pc = "returned"
                        /\ follower[f].state = "ended" =>
                             /\ log # <<>> /\ follower[f].given = Len(log)
                             /\ Last(log).type = "command_completed"
      BY DEF FollowerSeesWholeRun
    <2>1. pc = "returned" => log # <<>> /\ Last(log).type = "command_completed"
      BY DEF ResultMatchesStream
    <2>2. /\ follower[f].given \in Nat
          /\ follower[f].state \in {"new", "refused", "following", "ended"}
      BY DEF FollowInv
    <2> QED BY <2>1, <2>2 DEF FollowInv
  <1> QED BY <1>1, FollowHolds, SessionIsARun, ResultMatchesStreamHolds, PTL

--------------------------------------------------------------------------------

(* The queue holds handles, and a script is not read past its end.         *)
LoopInv ==
  /\ ready \in Seq(Handles)
  /\ responses \in Seq(Response)
  /\ invoke_count \in 0 .. Len(responses)

LEMMA InvokeKeepsScript ==
  ASSUME LoopInv, NEW c, Invokes(c)
  PROVE  responses' = responses /\ invoke_count' \in 0 .. Len(responses')
  <1>1. Len(responses) \in Nat /\ invoke_count \in 0 .. Len(responses)
    BY LenProperties DEF LoopInv
  <1>2. ASSUME NEW r, InvokeReturns(r)
        PROVE  invoke_count' \in 0 .. Len(responses') /\ responses' = responses
    BY <1>1, <1>2 DEF InvokeReturns
  <1>3. ASSUME NEW exc, InvokeRaises(exc)
        PROVE  invoke_count' \in 0 .. Len(responses') /\ responses' = responses
    BY <1>1, <1>3 DEF InvokeRaises, fakeProviderVars
  <1> QED BY <1>2, <1>3 DEF Invokes, LoopInv

LEMMA SpawnType ==
  ASSUME NEW s \in Stages
  PROVE  Spawn(s) \in Seq(Handles)
  <1>1. Width(s) \in Nat /\ \A i \in 1 .. Width(s) : <<s, i>> \in CallIds
    BY CallersAreCalls DEF Callers
  <1>2. Spawn(s) \in [1 .. Width(s) -> Handles]
    BY <1>1 DEF Spawn, Callers, Handles
  <1> QED BY <1>1, <1>2, FunctionIsSeq

LEMMA LoopStep == LoopInv /\ [SessionNext]_sessionVars => LoopInv'
  <1> SUFFICES ASSUME LoopInv, [SessionNext]_sessionVars
               PROVE  LoopInv'
    OBVIOUS
  <1>1. CASE RunsOn
    <2>1. Tail(ready) \in Seq(Handles)
      BY <1>1, HeadTailProperties DEF RunsOn, Running, LoopInv
    <2>2. pc' \in Gathered => Spawn(pc') \in Seq(Handles)
      BY SpawnType DEF Gathered, Stages
    <2>3. pc' \in Gathered => Tail(ready) \o Spawn(pc') \in Seq(Handles)
      BY <2>1, <2>2, ConcatProperties
    <2>4. \/ pc' \in Gathered /\ ready' = Tail(ready) \o Spawn(pc')
          \/ ready' = Tail(ready)
          \/ ready' = ready
      BY <1>1 DEF RunsOn, Gathered, Ended
    <2>5. UNCHANGED <<responses, invoke_count>>
      BY <1>1 DEF RunsOn, fakeProviderVars
    <2> QED BY <2>1, <2>3, <2>4, <2>5 DEF LoopInv
  <1>2. CASE AsksModerator
    BY <1>2, InvokeKeepsScript DEF AsksModerator, LoopInv
  <1>3. ASSUME NEW c \in CallIds, TaskRuns(c)
        PROVE  LoopInv'
    <2>1. Tail(ready) \in Seq(Handles) /\ Callback(c) \in Handles
      BY <1>3, HeadTailProperties DEF TaskRuns, Running, LoopInv, Handles
    <2>2. ready' \in Seq(Handles)
      BY <1>3, <2>1, AppendProperties DEF TaskRuns
    <2> QED BY <1>3, <2>2, InvokeKeepsScript DEF TaskRuns, LoopInv
  <1>4. ASSUME NEW c \in CallIds, Notifies(c)
        PROVE  LoopInv'
    <2>1. Tail(ready) \in Seq(Handles) /\ Main \in Handles
      BY <1>4, HeadTailProperties DEF Notifies, Running, LoopInv, Handles
    <2>2. Append(Tail(ready), Main) \in Seq(Handles)
      BY <2>1, AppendProperties
    <2>3. ready' \in {Tail(ready), Append(Tail(ready), Main)}
      BY <1>4 DEF Notifies
    <2>4. UNCHANGED <<responses, invoke_count>>
      BY <1>4 DEF Notifies, fakeProviderVars
    <2> QED BY <2>1, <2>2, <2>3, <2>4 DEF LoopInv
  <1>5. CASE UNCHANGED <<ready, responses, invoke_count>>
    BY <1>5 DEF LoopInv
  <1>6. CASE Closes \/ (\E f \in Followers : Follows(f)) \/ Idle \/ UNCHANGED sessionVars
    BY <1>5, <1>6 DEF Closes, Follows, Idle, sessionVars, fakeProviderVars
  <1> QED BY <1>1, <1>2, <1>3, <1>4, <1>6 DEF SessionNext, LoopTurn

LEMMA LoopHolds == SessionSpec => []LoopInv
  <1>1. SessionInit => LoopInv
    <2> SUFFICES ASSUME SessionInit PROVE LoopInv
      OBVIOUS
    <2>1. responses \in Seq(Response) /\ invoke_count = 0
      BY SessionAssumption DEF SessionInit, FakeProviderInit
    <2>2. ready = <<Main>> /\ Main \in Handles
      BY DEF SessionInit, Handles
    <2>3. Len(responses) \in Nat
      BY <2>1, LenProperties
    <2> QED BY <2>1, <2>2, <2>3 DEF LoopInv
  <1> QED BY <1>1, LoopStep, PTL DEF SessionSpec

(* The loop's queue, the script, the emitter and its consumers have their  *)
(* types, and the stamped list is the log, numbered from 1 without a gap.  *)
THEOREM SessionTypeCorrect == SessionSpec => []SessionTypeOK
  <1>1. TypeOK /\ LoopInv /\ EmitterInv /\ FollowInv => SessionTypeOK
    <2> SUFFICES ASSUME TypeOK, LoopInv, EmitterInv, FollowInv PROVE SessionTypeOK
      OBVIOUS
    <2>1. Len(events) = Len(log)
      BY StampedProperties DEF EmitterInv, TypeOK
    <2>2. \A f \in Followers : follower[f].state \in {"new", "refused", "following", "ended"}
      BY DEF FollowInv
    <2> QED BY <2>1, <2>2 DEF SessionTypeOK, LoopInv, EmitterInv, Stamped
  <1> QED BY <1>1, LoopHolds, FollowHolds, SessionIsARun, TypeCorrect, PTL

--------------------------------------------------------------------------------

(* A gather() of stage s puts 2 * N handles through the queue, its tasks   *)
(* first and then, as each task is done, their callbacks.                  *)
Turn(s, q) == IF q <= N THEN Step(<<s, q>>) ELSE Callback(<<s, q - N>>)

(* After p of them the coroutine is in the queue: the callback of the call *)
(* whose exception the await holds has run, or else every callback has.    *)
Woken(s, p) == IF failure[s] = NoCall THEN p = 2 * N ELSE N + failure[s][2] <= p

(* How many of a gather's own handles the queue holds after p of them.     *)
Pending(p) == IF p <= N THEN N ELSE 2 * N - p

Agenda(s, p) ==
  /\ \A i \in 1 .. N : /\ i <= p => call[<<s, i>>] \in {"returned", "failed"}
                       /\ i > p => call[<<s, i>>] = "inflight"
  /\ \A i \in 1 .. Pending(p) : ready[i] = Turn(s, p + i)
  /\ ~ Woken(s, p) => Len(ready) = Pending(p)
  /\ Woken(s, p) => Len(ready) = Pending(p) + 1 /\ ready[Pending(p) + 1] = Main

(* Outside a gather() the coroutine is alone in the queue, until it ends.  *)
QueueInv ==
  /\ pc \in Ended => ready = <<>> /\ \A c \in CallIds : call[c] # "inflight"
  /\ pc \in Gathered => \E p \in 0 .. 2 * N : Agenda(pc, p)
  /\ pc \notin Gathered \cup Ended => ready = <<Main>>

(* The script has been handed out in the order of the ranks, up to here.   *)
ScriptInv ==
  configured_error = "none" =>
    /\ \A c \in CallIds :
         /\ call[c] = "returned" => /\ Rank(c) <= invoke_count
                                    /\ reply[c] = AsReply(responses[Rank(c)], c[1])
         /\ Rank(c) <= invoke_count => call[c] = "returned"
         /\ call[c] = "failed" => invoke_count = Len(responses)
    /\ \A s \in Stages : failure[s] # NoCall => Rank(failure[s]) = Len(responses) + 1
    /\ error.kind = "provider" => Rank(error.call) = Len(responses) + 1

LEMMA TurnProperties ==
  ASSUME NEW s, NEW q \in Nat
  PROVE  /\ Turn(s, q) # Main
         /\ \A c : Turn(s, q) = Step(c) => q <= N /\ c = <<s, q>>
         /\ \A c : Turn(s, q) = Callback(c) => q > N /\ c = <<s, q - N>>
         /\ q > N => Turn(s, q) = Callback(<<s, q - N>>)
         /\ \A c : Step(c) # Main /\ Callback(c) # Main
  BY DEF Turn, Step, Callback, Main

LEMMA HeadIsFirst ==
  ASSUME LoopInv, NEW handle, Running(handle)
  PROVE  /\ ready \in Seq(Handles) /\ Len(ready) \in Nat \ {0} /\ ready[1] = handle
         /\ Tail(ready) \in Seq(Handles) /\ Len(Tail(ready)) = Len(ready) - 1
         /\ \A i \in 1 .. Len(ready) - 1 : Tail(ready)[i] = ready[i + 1]
  BY HeadTailProperties, LenProperties DEF LoopInv, Running

LEMMA PendingProperties ==
  ASSUME NEW p \in 0 .. 2 * N
  PROVE  /\ Pending(p) \in 0 .. N
         /\ Pending(p) = 0 <=> p = 2 * N
         /\ p < N => Pending(p) = N /\ Pending(p + 1) = N
         /\ p >= N => Pending(p) = 2 * N - p
  BY DEF Pending

(* The coroutine runs on only when it is alone in the queue.               *)
LEMMA MainIsAlone ==
  ASSUME LoopInv, QueueInv, Running(Main)
  PROVE  /\ ready = <<Main>> /\ pc \notin Ended
         /\ pc \in Gathered => \A i \in 1 .. N : call[<<pc, i>>] # "inflight"
  <1>1. /\ ready \in Seq(Handles) /\ Len(ready) \in Nat \ {0} /\ ready[1] = Main
    BY HeadIsFirst
  <1>2. pc \notin Ended
    <2>1. Len(<<>>) = 0
      OBVIOUS
    <2> QED BY <1>1, <2>1 DEF QueueInv
  <1>3. ASSUME pc \in Gathered
        PROVE  Len(ready) = 1 /\ \A i \in 1 .. N : call[<<pc, i>>] # "inflight"
    <2>1. PICK p \in 0 .. 2 * N : Agenda(pc, p)
      BY <1>3 DEF QueueInv
    <2>2. Pending(p) \in 0 .. N /\ N \in Nat
      BY PendingProperties
    <2>3. Pending(p) = 0
      <3>1. Pending(p) # 0 => ready[1] = Turn(pc, p + 1)
        BY <2>1, <2>2 DEF Agenda
      <3>2. Turn(pc, p + 1) # Main
        <4>1. p + 1 \in Nat
          BY <2>2
        <4> QED BY ONLY <4>1, TurnProperties, ConsensusAssumption
      <3> QED BY <1>1, <3>1, <3>2
    <2>4. p = 2 * N
      BY <2>3, PendingProperties
    <2>5. Len(ready) = 1
      BY <1>1, <2>1, <2>3 DEF Agenda
    <2> QED BY <2>1, <2>2, <2>4, <2>5 DEF Agenda
  <1>4. ready = <<Main>>
    <2>1. CASE pc \in Gathered
      BY <1>1, <1>3, <2>1
    <2> QED BY <1>2, <2>1 DEF QueueInv
  <1> QED BY <1>2, <1>3, <1>4

LEMMA RunsOnQueue ==
  ASSUME LoopInv, ControlInv, ControlInv', QueueInv, RunsOn
  PROVE  QueueInv'
  <1>1. /\ ready = <<Main>> /\ pc \notin Ended
        /\ pc \in Gathered => \A i \in 1 .. N : call[<<pc, i>>] # "inflight"
        /\ Tail(ready) = <<>>
    <2>1. Tail(<<Main>>) = <<>>
      OBVIOUS
    <2> QED BY <2>1, MainIsAlone DEF RunsOn
  <1>2. CASE pc' \in Stages /\ call' = Issued(pc')
    <2>1. pc' \notin Ended
      BY <1>2, StagesAreNotEnds DEF Ended
    <2>2. CASE pc' \in Gathered
      <3> DEFINE s == pc'
      <3>1. Width(s) = N /\ \A i \in 1 .. N : <<s, i>> \in CallIds
        BY <1>2, <2>2, CallersAreCalls DEF Width, Callers
      <3>2. \A i \in 1 .. N : call'[<<s, i>>] = "inflight"
        BY <1>2, <3>1 DEF Issued
      <3>3. failure'[s] = NoCall
        <4>1. failure'[s] # NoCall => failure'[s] \in CallsOf(s) /\ call'[failure'[s]] = "failed"
          BY <1>2 DEF ControlInv, FailureInv
        <4> QED BY <4>1, <3>1, <3>2 DEF CallsOf, Callers
      <3>4. ready' = Spawn(s)
        <4>1. Spawn(s) \in Seq(Handles)
          BY <1>2, SpawnType
        <4>2. ready' = <<>> \o Spawn(s)
          BY <1>1, <2>1, <2>2 DEF RunsOn
        <4> QED BY <4>1, <4>2, ConcatEmptySeq
      <3>5. Len(ready') = N /\ \A i \in 1 .. N : ready'[i] = Step(<<s, i>>)
        <4>1. Spawn(s) \in [1 .. N -> Handles]
          BY <3>1 DEF Spawn, Callers, Handles
        <4>2. Len(Spawn(s)) = N
          BY <4>1, FunctionIsSeq
        <4> QED BY <3>1, <3>4, <4>2 DEF Spawn, Callers
      <3>6. Pending(0) = N
        BY DEF Pending
      <3> HIDE DEF s
      <3>7. Agenda(pc, 0)'
        BY <3>2, <3>3, <3>5, <3>6 DEF Agenda, Woken, Turn, s
      <3> QED BY <2>1, <2>2, <3>7 DEF QueueInv
    <2>3. CASE pc' \notin Gathered
      BY <1>1, <2>1, <2>3 DEF RunsOn, QueueInv
    <2> QED BY <2>2, <2>3
  <1>3. CASE /\ pc \in Stages /\ pc' \in Ended /\ call' = call
             /\ AllReturned(pc) \/ failure[pc] # NoCall
    <2>1. pc' \notin Gathered
      BY <1>3 DEF Ended, Gathered
    <2>2. ready' = <<>>
      BY <1>1, <1>3, <2>1 DEF RunsOn
    <2>3. ASSUME NEW c \in CallIds
          PROVE  call[c] # "inflight"
      <3>1. Frontier(pc)
        BY <1>3 DEF ControlInv, FrontierInv
      <3>2. CASE c[1] # pc
        BY <1>3, <3>1, <3>2, StageNumbers, CallNames DEF Frontier
      <3>3. CASE c[1] = pc
        <4>1. c \in CallsOf(pc) /\ c = <<pc, c[2]>>
          BY <3>3, CallParts, CallNames
        <4>2. CASE AllReturned(pc)
          BY <4>1, <4>2 DEF AllReturned
        <4>3. CASE pc \in Gathered
          BY <1>1, <4>1, <4>3 DEF CallsOf, Callers, Width
        <4>4. CASE failure[pc] # NoCall /\ pc \notin Gathered
          <5>1. failure[pc] \in CallsOf(pc) /\ call[failure[pc]] = "failed"
            BY <1>3, <4>4 DEF ControlInv, FailureInv
          <5>2. c = failure[pc]
            BY <4>1, <4>4, <5>1 DEF CallsOf, Callers, Width
          <5> QED BY <5>1, <5>2
        <4> QED BY <1>3, <4>2, <4>3, <4>4
      <3> QED BY <3>2, <3>3
    <2> QED BY <1>3, <2>1, <2>2, <2>3 DEF QueueInv
  <1> QED BY <1>2, <1>3, ResumeShape DEF RunsOn

(* Inside a gather() the head of the queue tells how far it has come.      *)
LEMMA HeadOfAgenda ==
  ASSUME LoopInv, QueueInv, NEW c, Running(Step(c)) \/ Running(Callback(c))
  PROVE  /\ pc \in Gathered
         /\ \E p \in 0 .. 2 * N : /\ Agenda(pc, p) /\ Pending(p) # 0
                                  /\ ready[1] = Turn(pc, p + 1)
  <1>1. /\ Len(ready) \in Nat \ {0} /\ ready[1] \in {Step(c), Callback(c)}
    BY HeadIsFirst
  <1>2. ready[1] # Main
    BY <1>1 DEF Step, Callback, Main
  <1>3. pc \in Gathered
    <2>1. ready # <<>> /\ ready # <<Main>>
      BY <1>1, <1>2
    <2> QED BY <2>1 DEF QueueInv
  <1>4. PICK p \in 0 .. 2 * N : Agenda(pc, p)
    BY <1>3 DEF QueueInv
  <1>5. Pending(p) \in 0 .. N
    BY PendingProperties
  <1>6. Pending(p) # 0
    BY <1>1, <1>2, <1>4, <1>5 DEF Agenda
  <1>7. ready[1] = Turn(pc, p + 1)
    BY <1>4, <1>5, <1>6 DEF Agenda
  <1> QED BY <1>3, <1>4, <1>6, <1>7

(* One more of the gather's handles is behind the run.                     *)
GatherTurns == /\ pc \in Gathered /\ pc' = pc
               /\ \E p \in 0 .. 2 * N - 1 : Agenda(pc, p) /\ Agenda(pc, p + 1)'

LEMMA TaskTurns ==
  ASSUME LoopInv, ControlInv, ControlInv', QueueInv, NEW c \in CallIds, TaskRuns(c)
  PROVE  GatherTurns
  <1>1. PICK p \in 0 .. 2 * N : /\ Agenda(pc, p) /\ Pending(p) # 0
                                /\ ready[1] = Turn(pc, p + 1)
    BY HeadOfAgenda DEF TaskRuns
  <1>2. /\ pc \in Gathered /\ pc \in Stages /\ p \in Nat /\ N \in Nat
    BY HeadOfAgenda DEF TaskRuns, Gathered, Stages
  <1>3. /\ ready \in Seq(Handles) /\ Len(ready) \in Nat \ {0} /\ ready[1] = Step(c)
        /\ Tail(ready) \in Seq(Handles) /\ Len(Tail(ready)) = Len(ready) - 1
        /\ \A i \in 1 .. Len(ready) - 1 : Tail(ready)[i] = ready[i + 1]
    BY HeadIsFirst DEF TaskRuns
  <1>4. p < N /\ c = <<pc, p + 1>>
    <2>1. p + 1 \in Nat /\ Turn(pc, p + 1) = Step(c)
      BY <1>1, <1>2, <1>3
    <2>2. p + 1 <= N /\ c = <<pc, p + 1>>
      BY <2>1, TurnProperties
    <2> QED BY <1>2, <2>2
  <1>5. /\ pc' = pc /\ call'[c] \in {"returned", "failed"}
        /\ \A d \in CallIds : d # c => call'[d] = call[d]
    BY DEF TaskRuns, Invokes, CallReturns, CallFails, ControlInv, TypeOK
  <1>6. Pending(p) = N /\ Pending(p + 1) = N
    BY <1>4, PendingProperties
  <1>7. /\ ~ Woken(pc, p)
        /\ ~ Woken(pc, p + 1)'
    <2>1. /\ failure[pc] # NoCall => failure[pc] \in CallsOf(pc)
          /\ failure'[pc] # NoCall => failure'[pc] \in CallsOf(pc)
      BY <1>2, <1>5 DEF ControlInv, FailureInv
    <2>2. \A d \in CallsOf(pc) : d[2] \in 1 .. N
      BY <1>2 DEF CallsOf, Callers, Width
    <2>3. failure'[pc] # NoCall => failure'[pc][2] \in 1 .. N
      BY <2>1, <2>2
    <2>4. failure[pc] # NoCall => failure[pc][2] \in 1 .. N
      BY <2>1, <2>2
    <2> QED BY <1>2, <1>4, <1>5, <2>3, <2>4 DEF Woken
  <1>8. Len(ready) = N /\ \A i \in 1 .. N : ready[i] = Turn(pc, p + i)
    BY <1>1, <1>6, <1>7 DEF Agenda
  <1>9. /\ ready' = Append(Tail(ready), Callback(c)) /\ Callback(c) \in Handles
    BY DEF TaskRuns, Handles
  <1>10. /\ Len(ready') = N
         /\ \A i \in 1 .. N - 1 : ready'[i] = ready[i + 1]
         /\ ready'[N] = Callback(c)
    <2>1. Len(Tail(ready)) = N - 1
      BY <1>3, <1>8
    <2>2. /\ Len(Append(Tail(ready), Callback(c))) = Len(Tail(ready)) + 1
          /\ \A i \in 1 .. Len(Tail(ready)) :
               Append(Tail(ready), Callback(c))[i] = Tail(ready)[i]
          /\ Append(Tail(ready), Callback(c))[Len(Tail(ready)) + 1] = Callback(c)
      BY <1>3, <1>9, AppendProperties
    <2>3. (N - 1) + 1 = N
      BY <1>2
    <2> QED BY <1>3, <1>8, <1>9, <2>1, <2>2, <2>3
  <1>11. \A i \in 1 .. N : ready'[i] = Turn(pc, (p + 1) + i)
    <2> SUFFICES ASSUME NEW i \in 1 .. N PROVE ready'[i] = Turn(pc, (p + 1) + i)
      OBVIOUS
    <2>1. CASE i # N
      <3>1. i + 1 \in 1 .. N /\ i \in 1 .. N - 1 /\ p + (i + 1) = (p + 1) + i
        BY <1>2, <2>1
      <3>2. ready'[i] = ready[i + 1] /\ ready[i + 1] = Turn(pc, p + (i + 1))
        BY <1>8, <1>10, <3>1
      <3> QED BY <3>1, <3>2
    <2>2. CASE i = N
      <3>1. (p + 1) + N > N /\ ((p + 1) + N) - N = p + 1
        BY <1>2
      <3>2. Turn(pc, (p + 1) + N) = Callback(<<pc, p + 1>>)
        BY <3>1 DEF Turn
      <3> QED BY <1>4, <1>10, <2>2, <3>2
    <2> QED BY <2>1, <2>2
  <1>12. \A i \in 1 .. N : /\ i <= p + 1 => call'[<<pc, i>>] \in {"returned", "failed"}
                           /\ i > p + 1 => call'[<<pc, i>>] = "inflight"
    <2> SUFFICES ASSUME NEW i \in 1 .. N
                 PROVE  /\ i <= p + 1 => call'[<<pc, i>>] \in {"returned", "failed"}
                        /\ i > p + 1 => call'[<<pc, i>>] = "inflight"
      OBVIOUS
    <2>1. <<pc, i>> \in CallIds
      BY <1>2, CallersAreCalls DEF Callers, Width
    <2>2. /\ i <= p => call[<<pc, i>>] \in {"returned", "failed"}
          /\ i > p => call[<<pc, i>>] = "inflight"
      BY <1>1 DEF Agenda
    <2>3. CASE i = p + 1
      BY <1>2, <1>4, <1>5, <2>3
    <2>4. CASE i # p + 1
      <3>1. call'[<<pc, i>>] = call[<<pc, i>>]
        BY <1>4, <1>5, <2>1, <2>4
      <3>2. (i <= p + 1 => i <= p) /\ (i > p + 1 => i > p)
        BY <1>2, <2>4
      <3> QED BY <2>2, <3>1, <3>2
    <2> QED BY <2>3, <2>4
  <1>13. Agenda(pc, p + 1)'
    <2>1. /\ \A i \in 1 .. Pending(p + 1) : ready'[i] = Turn(pc', (p + 1) + i)
          /\ Len(ready') = Pending(p + 1)
      BY <1>5, <1>6, <1>10, <1>11
    <2>2. \A i \in 1 .. N : /\ i <= p + 1 => call'[<<pc', i>>] \in {"returned", "failed"}
                            /\ i > p + 1 => call'[<<pc', i>>] = "inflight"
      BY <1>5, <1>12
    <2> QED BY <2>1, <2>2, <1>7 DEF Agenda
  <1>14. p \in 0 .. 2 * N - 1
    BY <1>2, <1>4
  <1> QED BY <1>1, <1>2, <1>5, <1>13, <1>14 DEF GatherTurns

LEMMA CallbackTurns ==
  ASSUME LoopInv, ControlInv, QueueInv, NEW c \in CallIds, Notifies(c)
  PROVE  GatherTurns
  <1>1. PICK p \in 0 .. 2 * N : /\ Agenda(pc, p) /\ Pending(p) # 0
                                /\ ready[1] = Turn(pc, p + 1)
    BY HeadOfAgenda DEF Notifies
  <1>2. /\ pc \in Gathered /\ pc \in Stages /\ p \in Nat /\ N \in Nat
    BY HeadOfAgenda DEF Notifies, Gathered, Stages
  <1> DEFINE rest == Tail(ready)
             k == Pending(p) - 1
  <1>3. /\ ready \in Seq(Handles) /\ Len(ready) \in Nat \ {0} /\ ready[1] = Callback(c)
        /\ rest \in Seq(Handles) /\ Len(rest) = Len(ready) - 1
        /\ \A i \in 1 .. Len(ready) - 1 : rest[i] = ready[i + 1]
    BY HeadIsFirst DEF Notifies
  <1>4. p >= N /\ p < 2 * N /\ c = <<pc, (p + 1) - N>>
    <2>1. p + 1 \in Nat /\ Turn(pc, p + 1) = Callback(c)
      BY <1>1, <1>2, <1>3
    <2>2. p + 1 > N /\ c = <<pc, (p + 1) - N>>
      BY <2>1, TurnProperties
    <2>3. p # 2 * N
      BY <1>1, PendingProperties
    <2> QED BY <1>2, <2>2, <2>3
  <1>5. Pending(p) = 2 * N - p /\ k = 2 * N - (p + 1) /\ k \in Nat /\ Pending(p + 1) = k
    BY <1>2, <1>4 DEF Pending
  <1>6. UNCHANGED vars
    BY DEF Notifies
  <1>7. /\ \A i \in 1 .. k : rest[i] = Turn(pc, (p + 1) + i)
        /\ ~ Woken(pc, p) => Len(rest) = k
        /\ Woken(pc, p) => Len(rest) = k + 1 /\ rest[k + 1] = Main
    <2>1. /\ ~ Woken(pc, p) => Len(ready) = k + 1
          /\ Woken(pc, p) => Len(ready) = k + 2 /\ ready[k + 2] = Main
          /\ \A i \in 1 .. k + 1 : ready[i] = Turn(pc, p + i)
      BY <1>1, <1>5 DEF Agenda
    <2>2. ASSUME NEW i \in 1 .. k
          PROVE  rest[i] = Turn(pc, (p + 1) + i)
      <3>1. i + 1 \in 1 .. k + 1 /\ p + (i + 1) = (p + 1) + i /\ i \in 1 .. Len(ready) - 1
        BY <1>2, <1>5, <2>1
      <3>2. ready[i + 1] = Turn(pc, p + (i + 1)) /\ rest[i] = ready[i + 1]
        BY <1>3, <2>1, <3>1
      <3> QED BY <3>1, <3>2
    <2>3. CASE Woken(pc, p)
      BY <1>3, <1>5, <2>1, <2>2, <2>3
    <2>4. CASE ~ Woken(pc, p)
      BY <1>3, <1>5, <2>1, <2>2, <2>4
    <2> QED BY <2>3, <2>4
  <1> HIDE DEF rest, k
  <1>8. failure[pc] # NoCall => failure[pc] \in CallsOf(pc)
    BY <1>2 DEF ControlInv, FailureInv
  <1>9. \A d \in CallsOf(pc) : d = <<pc, d[2]>> /\ d[2] \in 1 .. N
    BY <1>2 DEF CallsOf, Callers, Width
  <1>10. \A d \in CallsOf(pc) : call[d] # "inflight"
    <2>1. \A i \in 1 .. N : call[<<pc, i>>] \in {"returned", "failed"}
      BY <1>1, <1>2, <1>4 DEF Agenda
    <2> QED BY <1>9, <2>1
  <1> DEFINE over == /\ failure[pc] = NoCall
                     /\ \A d \in CallsOf(pc) : call[d] # "inflight" /\ ~ Contains(rest, Callback(d))
  <1>11. ready' = IF failure[pc] = c \/ over THEN Append(rest, Main) ELSE rest
    <2>1. c[1] = pc
      BY <1>4
    <2> QED BY <2>1 DEF Notifies, rest
  <1>12. ASSUME /\ \A i \in 1 .. k : ready'[i] = rest[i]
                /\ ~ Woken(pc, p + 1) => Len(ready') = k
                /\ Woken(pc, p + 1) => Len(ready') = k + 1 /\ ready'[k + 1] = Main
         PROVE  GatherTurns
    <2>1. /\ pc' = pc /\ call' = call /\ failure' = failure
      BY <1>6 DEF vars
    <2>2. /\ Woken(pc, p + 1)' => Woken(pc, p + 1)
          /\ Woken(pc, p + 1) => Woken(pc, p + 1)'
      BY <2>1 DEF Woken
    <2>3. \A i \in 1 .. N : /\ i <= p + 1 => call'[<<pc', i>>] \in {"returned", "failed"}
                            /\ i > p + 1 => call'[<<pc', i>>] = "inflight"
      BY <1>1, <1>2, <1>4, <2>1 DEF Agenda
    <2>4. \A i \in 1 .. Pending(p + 1) : ready'[i] = Turn(pc', (p + 1) + i)
      BY <1>5, <1>7, <1>12, <2>1
    <2>5. Agenda(pc, p + 1)'
      BY <1>5, <1>12, <2>2, <2>3, <2>4 DEF Agenda
    <2>6. p \in 0 .. 2 * N - 1
      BY <1>2, <1>4
    <2> QED BY <1>1, <1>2, <2>1, <2>5, <2>6 DEF GatherTurns
  <1>13. CASE Woken(pc, p)
    <2>1. failure[pc] # NoCall /\ N + failure[pc][2] <= p
      BY <1>4, <1>13 DEF Woken
    <2>2. failure[pc] # c
      BY <1>2, <1>4, <2>1
    <2>3. ready' = rest
      BY <1>11, <2>1, <2>2
    <2>4. Woken(pc, p + 1)
      BY <1>2, <1>8, <1>9, <2>1 DEF Woken
    <2> QED BY <1>7, <1>13, <1>12, <2>3, <2>4
  <1>14. CASE ~ Woken(pc, p)
    <2>1. failure[pc] = c \/ over <=> Woken(pc, p + 1)
      <3>1. CASE failure[pc] = NoCall
        <4>1. failure[pc] # c
          BY <3>1, CallNames
        <4>2. Woken(pc, p + 1) <=> k = 0
          BY <1>2, <1>5, <3>1 DEF Woken
        <4>3. ASSUME k = 0
              PROVE  over
          <5>1. Len(rest) = 0
            BY <1>7, <1>14, <4>3
          <5> QED BY <1>10, <3>1, <5>1 DEF Contains
        <4>4. ASSUME k # 0
              PROVE  ~ over
          <5> DEFINE d == <<pc, ((p + 1) + 1) - N>>
          <5>1. d \in CallsOf(pc)
            BY <1>2, <1>4, <1>5, <4>4 DEF CallsOf, Callers, Width
          <5>2. Turn(pc, (p + 1) + 1) = Callback(d)
            <6>1. (p + 1) + 1 \in Nat /\ (p + 1) + 1 > N
              BY <1>2, <1>4
            <6> QED BY <6>1, TurnProperties
          <5> HIDE DEF d
          <5>3. 1 \in 1 .. k /\ 1 \in 1 .. Len(rest)
            BY <1>5, <1>7, <1>14, <4>4
          <5>4. Contains(rest, Callback(d))
            BY <1>7, <5>2, <5>3 DEF Contains
          <5> QED BY <5>1, <5>4
        <4> QED BY <4>1, <4>2, <4>3, <4>4
      <3>2. CASE failure[pc] # NoCall
        <4>1. failure[pc] = <<pc, failure[pc][2]>> /\ failure[pc][2] \in 1 .. N
          BY <1>8, <1>9, <3>2
        <4>2. N + failure[pc][2] > p
          BY <1>2, <1>14, <3>2, <4>1 DEF Woken
        <4>3. Woken(pc, p + 1) <=> failure[pc][2] = (p + 1) - N
          BY <1>2, <3>2, <4>1, <4>2 DEF Woken
        <4>4. failure[pc] = c <=> failure[pc][2] = (p + 1) - N
          BY <1>4, <4>1
        <4> QED BY <3>2, <4>3, <4>4
      <3> QED BY <3>1, <3>2
    <2> HIDE DEF over
    <2>2. CASE Woken(pc, p + 1)
      <3>1. ready' = Append(rest, Main) /\ Main \in Handles
        BY <1>11, <2>1, <2>2 DEF Handles
      <3>2. /\ Len(ready') = k + 1 /\ ready'[k + 1] = Main
            /\ \A i \in 1 .. k : ready'[i] = rest[i]
        BY <1>3, <1>7, <1>14, <3>1, AppendProperties
      <3> QED BY <1>12, <2>2, <3>2
    <2>3. CASE ~ Woken(pc, p + 1)
      <3>1. ready' = rest
        BY <1>11, <2>1, <2>3
      <3> QED BY <1>7, <1>14, <1>12, <2>3, <3>1
    <2> QED BY <2>2, <2>3
  <1> QED BY <1>13, <1>14

LEMMA TurnsKeepQueue ==
  ASSUME GatherTurns
  PROVE  QueueInv'
  <1>1. PICK p \in 0 .. 2 * N - 1 : Agenda(pc, p + 1)'
    BY DEF GatherTurns
  <1>2. p + 1 \in 0 .. 2 * N /\ pc' \in Gathered /\ pc' \notin Ended
    BY DEF GatherTurns, Gathered, Ended
  <1> QED BY <1>1, <1>2 DEF QueueInv

LEMMA QueueStep ==
  LoopInv /\ ControlInv /\ ControlInv' /\ QueueInv /\ [SessionNext]_sessionVars => QueueInv'
  <1> SUFFICES ASSUME LoopInv, ControlInv, ControlInv', QueueInv, [SessionNext]_sessionVars
               PROVE  QueueInv'
    OBVIOUS
  <1>1. CASE AsksModerator
    <2>1. pc' = pc /\ ready' = ready /\ pc \in Stages \ Gathered
      BY <1>1 DEF AsksModerator, Invokes, CallReturns, CallFails
    <2> QED BY <2>1, StagesAreNotEnds DEF QueueInv, Ended
  <1>2. CASE UNCHANGED <<vars, ready>>
    BY <1>2 DEF QueueInv, Agenda, Woken, vars
  <1>3. CASE Closes \/ (\E f \in Followers : Follows(f)) \/ Idle \/ UNCHANGED sessionVars
    BY <1>2, <1>3 DEF Closes, Follows, Idle, sessionVars
  <1> QED BY <1>1, <1>3, RunsOnQueue, TaskTurns, CallbackTurns, TurnsKeepQueue DEF SessionNext, LoopTurn

LEMMA QueueHolds == SessionSpec => []QueueInv
  <1>1. SessionInit => QueueInv
    BY DEF SessionInit, Init, QueueInv, Gathered, Ended
  <1> QED BY <1>1, QueueStep, LoopHolds, SessionIsARun, ControlInvHolds, PTL DEF SessionSpec

(* A run against the fake provider ends with no call in flight and nothing *)
(* in the queue, whatever its script, for any number of participants.      *)
THEOREM NothingOutlivesHolds == SessionSpec => []NothingOutlivesFakeRun
  <1>1. QueueInv => NothingOutlivesFakeRun
    <2> SUFFICES ASSUME QueueInv, pc \in Ended
                 PROVE  /\ \A c \in CallIds : call[c] # "inflight"
                        /\ \A i \in DOMAIN ready : ready[i].run = "callback"
      BY DEF NothingOutlivesFakeRun
    <2>1. ready = <<>> /\ \A c \in CallIds : call[c] # "inflight"
      BY DEF QueueInv
    <2> QED BY <2>1
  <1> QED BY <1>1, QueueHolds, PTL

(* When every callback of a gather() has run, the coroutine is awake.      *)
LEMMA AllTurnsWake ==
  ASSUME ControlInv, pc \in Gathered
  PROVE  Woken(pc, 2 * N)
  <1>1. failure[pc] # NoCall => failure[pc] \in CallsOf(pc)
    BY DEF ControlInv, FailureInv, Gathered, Stages
  <1>2. \A d \in CallsOf(pc) : d[2] \in 1 .. N
    BY DEF CallsOf, Callers, Width
  <1>3. failure[pc] # NoCall => N + failure[pc][2] <= 2 * N
    BY <1>1, <1>2
  <1> QED BY <1>3 DEF Woken

(* The coroutine is never forgotten and never woken twice, for any number  *)
(* of participants: the first exception of a gather(), or else its last    *)
(* callback, puts it into the queue, and nothing else does.                *)
THEOREM WokenOnceHolds == SessionSpec => []WokenOnce
  <1>1. LoopInv /\ ControlInv /\ QueueInv => WokenOnce
    <2> SUFFICES ASSUME LoopInv, ControlInv, QueueInv PROVE WokenOnce
      OBVIOUS
    <2>1. CASE pc \in Ended
      <3>1. ready = <<>>
        BY <2>1 DEF QueueInv
      <3> QED BY <2>1, <3>1 DEF WokenOnce
    <2>2. CASE pc \notin Gathered \cup Ended
      <3>1. ready = <<Main>>
        BY <2>2 DEF QueueInv
      <3> QED BY <3>1 DEF WokenOnce
    <2>3. CASE pc \in Gathered
      <3>1. PICK p \in 0 .. 2 * N : Agenda(pc, p)
        BY <2>3 DEF QueueInv
      <3>2. Pending(p) \in 0 .. N /\ (Pending(p) = 0 => p = 2 * N)
        BY PendingProperties
      <3>3. Len(ready) # 0
        <4>1. Pending(p) = 0 => Woken(pc, p)
          BY <2>3, <3>2, AllTurnsWake
        <4> QED BY <3>1, <3>2, <4>1 DEF Agenda
      <3>4. ready \in Seq(Handles) /\ DOMAIN ready = 1 .. Len(ready)
        BY LenProperties DEF LoopInv
      <3>5. \A i \in 1 .. Pending(p) : ready[i] # Main
        <4>1. \A i \in 1 .. Pending(p) : ready[i] = Turn(pc, p + i)
          BY <3>1 DEF Agenda
        <4>2. \A i \in 1 .. Pending(p) : p + i \in Nat
          BY <3>2
        <4> QED BY <4>1, <4>2, TurnProperties
      <3>6. \A i \in DOMAIN ready : i \in 1 .. Pending(p) \/ i = Pending(p) + 1
        BY <3>1, <3>2, <3>4 DEF Agenda
      <3>7. ready # <<>>
        BY <3>3
      <3> QED BY <3>5, <3>6, <3>7 DEF WokenOnce
    <2> QED BY <2>1, <2>2, <2>3
  <1> QED BY <1>1, QueueHolds, LoopHolds, SessionIsARun, ControlInvHolds, PTL

(* The head of the queue counts the gather's handles that have been run.   *)
LEMMA TurnedInGather ==
  ASSUME LoopInv, ControlInv, pc \in Gathered, NEW p \in 0 .. 2 * N, Agenda(pc, p)
  PROVE  Turned = p
  <1>1. Pending(p) \in 0 .. N /\ (Pending(p) = 0 <=> p = 2 * N) /\ p \in Nat /\ N \in Nat
    BY PendingProperties
  <1>2. Len(ready) # 0 /\ ready \in Seq(Handles) /\ ready # <<>>
    <2>1. Pending(p) = 0 => Woken(pc, p)
      BY <1>1, AllTurnsWake
    <2> QED BY <1>1, <2>1 DEF Agenda, LoopInv
  <1>3. Head(ready) = ready[1]
    BY <1>2
  <1>4. CASE Pending(p) = 0
    <2>1. Head(ready) = Main
      BY <1>1, <1>3, <1>4, AllTurnsWake DEF Agenda
    <2> QED BY <1>1, <1>4, <2>1 DEF Turned, Main
  <1>5. CASE Pending(p) # 0 /\ p < N
    <2>1. Head(ready) = Turn(pc, p + 1)
      BY <1>1, <1>3, <1>5 DEF Agenda
    <2>2. Head(ready) = Step(<<pc, p + 1>>)
      BY <1>1, <1>5, <2>1 DEF Turn
    <2> QED BY <1>1, <2>2 DEF Turned, Step
  <1>6. CASE Pending(p) # 0 /\ ~ (p < N)
    <2>1. Head(ready) = Turn(pc, p + 1)
      BY <1>1, <1>3, <1>6 DEF Agenda
    <2>2. Head(ready) = Callback(<<pc, (p + 1) - N>>)
      BY <1>1, <1>6, <2>1 DEF Turn
    <2> QED BY <1>1, <2>2 DEF Turned, Callback
  <1> QED BY <1>4, <1>5, <1>6

LEMMA TurnedType ==
  ASSUME LoopInv, ControlInv, QueueInv
  PROVE  Turned \in 0 .. 2 * N
  <1>1. CASE pc \in Gathered
    BY <1>1, TurnedInGather DEF QueueInv
  <1>2. CASE pc \notin Gathered
    BY <1>2 DEF Turned
  <1> QED BY <1>1, <1>2

(* A stage counts for more than all the turns within one.                  *)
Span == 2 * N + 1

LEMMA ProgressParts ==
  /\ Progress = StagesPast * Span + Turned
  /\ StagesPast \in 0 .. 6
  /\ pc \in Ended => Turned = 0
  BY StageNumbers, StagesAreNotEnds DEF Progress, StagesPast, Turned, Ended, Gathered, Span

LEMMA ProgressOrder ==
  ASSUME NEW a \in 0 .. 6, NEW b \in 0 .. 6, NEW k \in Nat \ {0},
         NEW t \in 0 .. k - 1, NEW u \in 0 .. k - 1
  PROVE  /\ a < b \/ (a = b /\ t < u) => a * k + t < b * k + u
         /\ a * k + t \in Nat
         /\ a < 6 => a * k + t <= 6 * k
  <1>1. a * k \in Nat /\ b * k \in Nat
    OBVIOUS
  <1>2. ASSUME NEW c \in 0 .. 6, a < c
        PROVE  a * k + k <= c * k
    <2>1. PICK d \in 0 .. 5 : c = a + 1 + d
      <3>1. c - a - 1 \in 0 .. 5 /\ c = a + 1 + (c - a - 1)
        BY <1>2
      <3> QED BY <3>1
    <2>2. c * k = a * k + k + d * k /\ d * k >= 0 /\ d * k \in Int
      BY <2>1
    <2> QED BY <1>1, <2>2
  <1>3. a < b => a * k + t < b * k + u
    BY <1>1, <1>2
  <1>4. a < 6 => a * k + t <= 6 * k
    BY <1>1, <1>2
  <1> QED BY <1>1, <1>3, <1>4

(* What the queue of a state tells of its progress.                        *)
ProgressInv ==
  /\ Turned \in 0 .. 2 * N /\ StagesPast \in 0 .. 6
  /\ Progress = StagesPast * Span + Turned
  /\ pc \in Ended => Turned = 0
  /\ \A p \in 0 .. 2 * N : pc \in Gathered /\ Agenda(pc, p) => Turned = p

LEMMA QueueTellsProgress == LoopInv /\ ControlInv /\ QueueInv => ProgressInv
  BY TurnedType, TurnedInGather, ProgressParts DEF ProgressInv

LEMMA TurnAdvances ==
  ASSUME LoopInv, ControlInv, ControlInv', QueueInv, ProgressInv, ProgressInv',
         [SessionNext]_sessionVars
  PROVE  [Progress < Progress']_<<vars, ready>>
  <1>0. StagesPast < StagesPast' \/ (StagesPast = StagesPast' /\ Turned < Turned')
          => Progress < Progress'
    <2>1. Span \in Nat \ {0} /\ \A t \in 0 .. 2 * N : t \in 0 .. Span - 1
      BY DEF Span
    <2>2. /\ Turned \in 0 .. Span - 1 /\ Turned' \in 0 .. Span - 1
          /\ StagesPast \in 0 .. 6 /\ StagesPast' \in 0 .. 6
          /\ Progress = StagesPast * Span + Turned
          /\ Progress' = StagesPast' * Span + Turned'
      <3>1. Span' = Span
        BY DEF Span
      <3> QED BY <2>1, <3>1 DEF ProgressInv
    <2> QED BY <2>1, <2>2, ProgressOrder
  <1>1. pc' = pc => StagesPast' = StagesPast
    BY DEF StagesPast
  <1>2. CASE RunsOn
    BY <1>0, <1>2, ResumeAdvances DEF RunsOn
  <1>3. CASE AsksModerator
    <2>1. pc \in Stages \ Gathered /\ <<pc, 1>> \in CallIds
      BY <1>3, CallersAreCalls DEF AsksModerator, Callers
    <2> DEFINE c == <<pc, 1>>
    <2>3. CallReturns(c) \/ CallFails(c)
      BY <1>3 DEF AsksModerator, Invokes
    <2> HIDE DEF c
    <2>4. pc' = pc /\ call[c] = "inflight" /\ call'[c] # "inflight"
      BY <2>1, <2>3 DEF CallReturns, CallFails, ControlInv, TypeOK, c
    <2>2. Turned = 0 /\ Turned' = 1
      BY <2>1, <2>4 DEF Turned, c
    <2> QED BY <1>0, <1>1, <2>2, <2>4
  <1>4. CASE GatherTurns
    <2>1. PICK p \in 0 .. 2 * N - 1 : Agenda(pc, p) /\ Agenda(pc, p + 1)'
      BY <1>4 DEF GatherTurns
    <2>2. pc \in Gathered /\ pc' = pc /\ p \in 0 .. 2 * N /\ p + 1 \in 0 .. 2 * N
      BY <1>4 DEF GatherTurns
    <2>3. Turned = p /\ Turned' = p + 1
      BY <2>1, <2>2 DEF ProgressInv
    <2> QED BY <1>0, <1>1, <2>2, <2>3
  <1>5. CASE Closes \/ (\E f \in Followers : Follows(f)) \/ Idle \/ UNCHANGED sessionVars
    BY <1>5 DEF Closes, Follows, Idle, sessionVars
  <1> QED BY <1>2, <1>3, <1>4, <1>5, TaskTurns, CallbackTurns DEF SessionNext, LoopTurn

(* Every turn of the loop takes the run further towards a bound that only  *)
(* the number of participants sets: no script, failure or order of the     *)
(* callbacks makes a run go round.  What is left for a run to end is that  *)
(* the loop goes on (SessionEnds).                                         *)
THEOREM TurnsAdvanceHolds ==
  SessionSpec => TurnsAdvance /\ [](Progress \in 0 .. 6 * (2 * N + 1))
  <1>1. ProgressInv => Progress \in 0 .. 6 * (2 * N + 1)
    <2> SUFFICES ASSUME ProgressInv PROVE Progress \in 0 .. 6 * (2 * N + 1)
      OBVIOUS
    <2>1. Span = 2 * N + 1 /\ Span \in Nat \ {0} /\ Turned \in 0 .. Span - 1
      BY DEF ProgressInv, Span
    <2>2. Progress = StagesPast * Span + Turned /\ StagesPast \in 0 .. 6
      BY DEF ProgressInv
    <2>3. CASE StagesPast = 6
      <3>1. pc \in Ended
        BY <2>3, StageNumbers DEF StagesPast
      <3>2. Progress = 6 * Span
        BY <2>1, <2>2, <2>3, <3>1 DEF ProgressInv
      <3> QED BY <2>1, <3>2
    <2>4. CASE StagesPast # 6
      <3>1. StagesPast < 6
        BY <2>2, <2>4
      <3>2. Progress \in Nat /\ Progress <= 6 * Span
        BY <2>1, <2>2, <3>1, ProgressOrder
      <3> QED BY <2>1, <3>2
    <2> QED BY <2>3, <2>4
  <1>2. LoopInv /\ ControlInv /\ ControlInv' /\ QueueInv /\ ProgressInv /\ ProgressInv'
          /\ [SessionNext]_sessionVars
        => [Progress < Progress']_<<vars, ready>>
    BY TurnAdvances
  <1> QED BY <1>1, <1>2, QueueTellsProgress, QueueHolds, LoopHolds, SessionIsARun,
            ControlInvHolds, PTL DEF SessionSpec, TurnsAdvance

--------------------------------------------------------------------------------

(* The ranks number the calls from 1, without a gap, stage after stage.    *)
LEMMA RankOfStage ==
  ASSUME NEW c \in CallIds
  PROVE  /\ c[2] \in 1 .. N /\ c[1] \in Stages
         /\ c[1] \notin Gathered => c[2] = 1
         /\ c[1] = "task_framing" => Rank(c) = 1
         /\ c[1] = "initial_contribution" => Rank(c) = 1 + c[2]
         /\ c[1] = "candidate_synthesis" => Rank(c) = N + 2
         /\ c[1] = "candidate_review" => Rank(c) = N + 2 + c[2]
         /\ c[1] = "release_gate" => Rank(c) = 2 * N + 3
  <1>1. c[1] \in Stages /\ c[2] \in Callers(c[1])
    BY CallNames
  <1>2. c[2] \in 1 .. N /\ (c[1] \notin Gathered => c[2] = 1)
    BY <1>1 DEF Callers, Width
  <1> QED BY <1>1, <1>2 DEF Rank

LEMMA RankType ==
  ASSUME NEW c \in CallIds
  PROVE  Rank(c) \in 1 .. 2 * N + 3
  BY RankOfStage DEF Stages

LEMMA RankOrder ==
  ASSUME NEW c \in CallIds, NEW d \in CallIds, Rank(d) < Rank(c)
  PROVE  \/ StageNumber[d[1]] < StageNumber[c[1]]
         \/ d[1] = c[1] /\ d[2] < c[2]
  BY RankOfStage DEF Stages, StageNumber, Gathered

LEMMA RankIsOneToOne ==
  ASSUME NEW c \in CallIds, NEW d \in CallIds, Rank(d) = Rank(c)
  PROVE  d = c
  <1>1. d[1] = c[1] /\ d[2] = c[2]
    BY RankOfStage DEF Stages, Gathered
  <1> QED BY <1>1, CallNames

LEMMA RankHasNoGap ==
  ASSUME NEW c \in CallIds, Rank(c) # 1
  PROVE  \E d \in CallIds : Rank(d) = Rank(c) - 1
  <1>1. \A s \in Stages : \A i \in 1 .. N : (s \in Gathered \/ i = 1) => <<s, i>> \in CallIds
    BY CallersAreCalls DEF Callers, Width
  <1>2. \A s \in Stages, i \in 1 .. N :
          /\ s = "task_framing" => Rank(<<s, i>>) = 1
          /\ s = "initial_contribution" => Rank(<<s, i>>) = 1 + i
          /\ s = "candidate_synthesis" => Rank(<<s, i>>) = N + 2
          /\ s = "candidate_review" => Rank(<<s, i>>) = N + 2 + i
    BY DEF Rank
  <1>3. 1 \in 1 .. N /\ N \in 1 .. N
    OBVIOUS
  <1>4. CASE c[1] = "initial_contribution"
    <2>0. Rank(c) = 1 + c[2] /\ c[2] \in 1 .. N
      BY <1>4, RankOfStage
    <2>1. CASE c[2] = 1
      <3>1. <<"task_framing", 1>> \in CallIds /\ Rank(<<"task_framing", 1>>) = 1
        BY <1>1, <1>2, <1>3 DEF Stages
      <3>2. Rank(c) - 1 = 1
        BY <2>0, <2>1
      <3> QED BY <3>1, <3>2
    <2>2. CASE c[2] # 1
      <3> DEFINE i == c[2] - 1
      <3>1. i \in 1 .. N /\ Rank(c) - 1 = 1 + i
        BY <2>0, <2>2
      <3> HIDE DEF i
      <3>2. <<"initial_contribution", i>> \in CallIds /\ Rank(<<"initial_contribution", i>>) = 1 + i
        BY <1>1, <1>2, <3>1 DEF Stages, Gathered
      <3> QED BY <3>1, <3>2
    <2> QED BY <2>1, <2>2
  <1>5. CASE c[1] = "candidate_synthesis"
    <2>1. Rank(<<"initial_contribution", N>>) = 1 + N
      BY <1>2, <1>3 DEF Stages
    <2> QED BY <1>1, <1>3, <1>5, <2>1, RankOfStage DEF Stages, Gathered
  <1>6. CASE c[1] = "candidate_review"
    <2>0. Rank(c) = N + 2 + c[2] /\ c[2] \in 1 .. N
      BY <1>6, RankOfStage
    <2>1. CASE c[2] = 1
      <3>1. <<"candidate_synthesis", 1>> \in CallIds /\ Rank(<<"candidate_synthesis", 1>>) = N + 2
        BY <1>1, <1>2, <1>3 DEF Stages
      <3>2. Rank(c) - 1 = N + 2
        BY <2>0, <2>1
      <3> QED BY <3>1, <3>2
    <2>2. CASE c[2] # 1
      <3> DEFINE i == c[2] - 1
      <3>1. i \in 1 .. N /\ Rank(c) - 1 = N + 2 + i
        BY <2>0, <2>2
      <3> HIDE DEF i
      <3>2. <<"candidate_review", i>> \in CallIds /\ Rank(<<"candidate_review", i>>) = N + 2 + i
        BY <1>1, <1>2, <3>1 DEF Stages, Gathered
      <3> QED BY <3>1, <3>2
    <2> QED BY <2>1, <2>2
  <1>7. CASE c[1] = "release_gate"
    <2>1. Rank(<<"candidate_review", N>>) = 2 * N + 2
      BY <1>2, <1>3 DEF Stages
    <2> QED BY <1>1, <1>3, <1>7, <2>1, RankOfStage DEF Stages, Gathered
  <1> QED BY <1>4, <1>5, <1>6, <1>7, RankOfStage DEF Stages

(* A call is made when every call of a lower rank is over, with an answer  *)
(* unless it is of the same stage.                                         *)
InTurn(c) ==
  /\ c \in CallIds /\ pc \in Stages /\ c[1] = pc
  /\ \A d \in CallIds : Rank(d) < Rank(c) =>
       \/ call[d] = "returned"
       \/ d[1] = pc /\ call[d] = "failed"

LEMMA InvokedInTurn ==
  ASSUME LoopInv, ControlInv, QueueInv
  PROVE  /\ AsksModerator => InTurn(<<pc, 1>>)
         /\ \A c \in CallIds : TaskRuns(c) => InTurn(c)
  <1>1. ASSUME pc \in Stages, NEW c \in CallIds, c[1] = pc, NEW d \in CallIds, Rank(d) < Rank(c)
        PROVE  call[d] = "returned" \/ (d[1] = pc /\ d[2] < c[2])
    BY <1>1, RankOrder DEF ControlInv, FrontierInv, Frontier
  <1>2. ASSUME AsksModerator
        PROVE  InTurn(<<pc, 1>>)
    <2> DEFINE c == <<pc, 1>>
    <2>1. pc \in Stages /\ pc \notin Gathered /\ c \in CallIds /\ c[1] = pc /\ c[2] = 1
      BY <1>2, CallersAreCalls DEF AsksModerator, Callers
    <2>2. \A d \in CallIds : ~ (d[2] < 1)
      BY RankOfStage
    <2> HIDE DEF c
    <2>3. InTurn(c)
      BY <1>1, <2>1, <2>2 DEF InTurn
    <2> QED BY <2>3 DEF c
  <1>3. ASSUME NEW c \in CallIds, TaskRuns(c)
        PROVE  InTurn(c)
    <2>1. PICK p \in 0 .. 2 * N : /\ Agenda(pc, p) /\ Pending(p) # 0
                                  /\ ready[1] = Turn(pc, p + 1)
      BY <1>3, HeadOfAgenda DEF TaskRuns
    <2>2. pc \in Gathered /\ pc \in Stages /\ p \in Nat /\ N \in Nat
      BY <1>3, HeadOfAgenda DEF TaskRuns, Gathered, Stages
    <2>3. ready[1] = Step(c)
      BY <1>3, HeadIsFirst DEF TaskRuns
    <2>4. p + 1 \in Nat /\ Turn(pc, p + 1) = Step(c)
      BY <2>1, <2>2, <2>3
    <2>5. c = <<pc, p + 1>>
      BY <2>4, TurnProperties
    <2>6. ASSUME NEW d \in CallIds, d[1] = pc, d[2] < c[2]
          PROVE  call[d] \in {"returned", "failed"}
      <3>1. d[2] \in 1 .. N /\ d[2] <= p /\ d = <<pc, d[2]>>
        BY <2>2, <2>5, <2>6, RankOfStage, CallNames
      <3> QED BY <2>1, <3>1 DEF Agenda
    <2>7. c[1] = pc
      BY <2>5
    <2> QED BY <1>1, <2>2, <2>6, <2>7 DEF InTurn
  <1> QED BY <1>2, <1>3

(* Unless a call of its stage found the script at its end, the next call   *)
(* takes the next response.                                                *)
LEMMA NextInScript ==
  ASSUME LoopInv, ControlInv, ScriptInv, configured_error = "none",
         NEW c, InTurn(c), call[c] = "inflight"
  PROVE  /\ invoke_count \in Nat /\ Len(responses) \in Nat /\ invoke_count <= Len(responses)
         /\ Rank(c) \in Nat /\ Rank(c) > invoke_count
         /\ \/ Rank(c) = invoke_count + 1
            \/ invoke_count = Len(responses) /\ failure[pc] # NoCall
         /\ failure[pc] = NoCall => Rank(c) = invoke_count + 1
  <1>1. invoke_count \in Nat /\ Len(responses) \in Nat /\ invoke_count <= Len(responses)
    BY LenProperties DEF LoopInv
  <1>2. Rank(c) \in 1 .. 2 * N + 3 /\ c \in CallIds /\ pc \in Stages
    BY RankType DEF InTurn
  <1>3. Rank(c) > invoke_count
    BY <1>1, <1>2 DEF ScriptInv
  <1>4. CASE \E d \in CallIds : d[1] = pc /\ call[d] = "failed"
    <2>1. invoke_count = Len(responses)
      BY <1>4 DEF ScriptInv
    <2>2. failure[pc] # NoCall
      BY <1>2, <1>4, CallParts DEF ControlInv, FailureInv
    <2> QED BY <1>1, <1>2, <1>3, <2>1, <2>2
  <1>5. CASE ~ \E d \in CallIds : d[1] = pc /\ call[d] = "failed"
    <2>1. \A d \in CallIds : Rank(d) < Rank(c) => Rank(d) <= invoke_count
      BY <1>5 DEF InTurn, ScriptInv
    <2>2. CASE Rank(c) = 1
      BY <1>1, <1>3, <2>2
    <2>3. CASE Rank(c) # 1
      <3>1. PICK d \in CallIds : Rank(d) = Rank(c) - 1
        BY <1>2, <2>3, RankHasNoGap
      <3> QED BY <1>1, <1>2, <1>3, <2>1, <3>1
    <2> QED BY <1>1, <1>2, <1>3, <2>2, <2>3
  <1> QED BY <1>4, <1>5

LEMMA InvokesScript ==
  ASSUME LoopInv, ControlInv, ScriptInv, NEW c, InTurn(c), Invokes(c)
  PROVE  ScriptInv'
  <1> SUFFICES ASSUME configured_error' = "none"
               PROVE  ScriptInv'
    BY DEF ScriptInv
  <1>1. /\ c \in CallIds /\ call[c] = "inflight" /\ error' = error /\ c[1] = pc
        /\ responses' = responses /\ configured_error' = configured_error
        /\ \A d \in CallIds : d # c => call'[d] = call[d] /\ reply'[d] = reply[d]
    BY DEF Invokes, InTurn, CallReturns, CallFails, InvokeReturns, InvokeRaises,
           fakeProviderVars, ControlInv, TypeOK
  <1>2. configured_error = "none"
    BY <1>1
  <1>3. /\ invoke_count \in Nat /\ Len(responses) \in Nat /\ invoke_count <= Len(responses)
        /\ Rank(c) \in Nat /\ Rank(c) > invoke_count
        /\ \/ Rank(c) = invoke_count + 1
           \/ invoke_count = Len(responses) /\ failure[pc] # NoCall
        /\ failure[pc] = NoCall => Rank(c) = invoke_count + 1
    BY <1>1, <1>2, NextInScript
  <1>4. /\ \A d \in CallIds :
             /\ call[d] = "returned" => /\ Rank(d) <= invoke_count
                                        /\ reply[d] = AsReply(responses[Rank(d)], d[1])
             /\ Rank(d) <= invoke_count => call[d] = "returned"
             /\ call[d] = "failed" => invoke_count = Len(responses)
        /\ \A s \in Stages : failure[s] # NoCall => Rank(failure[s]) = Len(responses) + 1
        /\ error.kind = "provider" => Rank(error.call) = Len(responses) + 1
    BY <1>2 DEF ScriptInv
  <1>5. ASSUME NEW k \in DOMAIN responses, InvokeReturns(responses[k]), CallReturns(c),
               reply'[c] = AsReply(responses[k], c[1])
        PROVE  ScriptInv'
    <2>1. /\ invoke_count < Len(responses) /\ responses[k] = responses[invoke_count + 1]
          /\ invoke_count' = invoke_count + 1
          /\ call'[c] = "returned" /\ failure' = failure
      BY <1>1, <1>5 DEF InvokeReturns, CallReturns, ControlInv, TypeOK
    <2>2. Rank(c) = invoke_count + 1
      BY <1>3, <2>1
    <2>3. ASSUME NEW d \in CallIds
          PROVE  /\ call'[d] = "returned" => /\ Rank(d) <= invoke_count'
                                             /\ reply'[d] = AsReply(responses[Rank(d)], d[1])
                 /\ Rank(d) <= invoke_count' => call'[d] = "returned"
                 /\ call'[d] = "failed" => invoke_count' = Len(responses)
      <3>1. CASE d = c
        BY <1>3, <1>5, <2>1, <2>2, <3>1
      <3>2. CASE d # c
        <4>1. Rank(d) # Rank(c) /\ Rank(d) \in Nat
          BY <1>1, <3>2, RankIsOneToOne, RankType
        <4> QED BY <1>1, <1>3, <1>4, <2>1, <2>2, <3>2, <4>1
      <3> QED BY <3>1, <3>2
    <2> QED BY <1>1, <1>4, <2>1, <2>3 DEF ScriptInv
  <1>6. ASSUME NEW exc, InvokeRaises(exc), CallFails(c)
        PROVE  ScriptInv'
    <2>1. /\ invoke_count = Len(responses) /\ invoke_count' = invoke_count
          /\ call'[c] = "failed" /\ reply' = reply
          /\ \A s \in Stages : failure'[s] = failure[s] \/ (failure[s] = NoCall /\ s = pc
                                                            /\ failure'[s] = c)
      BY <1>1, <1>2, <1>3, <1>6 DEF InvokeRaises, fakeProviderVars, CallFails, ControlInv, TypeOK
    <2>2. \A s \in Stages : failure'[s] # NoCall => Rank(failure'[s]) = Len(responses) + 1
      BY <1>3, <1>4, <2>1
    <2>3. ASSUME NEW d \in CallIds
          PROVE  /\ call'[d] = "returned" => /\ Rank(d) <= invoke_count
                                             /\ reply'[d] = AsReply(responses[Rank(d)], d[1])
                 /\ Rank(d) <= invoke_count => call'[d] = "returned"
                 /\ call'[d] = "failed" => invoke_count = Len(responses)
      BY <1>1, <1>3, <1>4, <2>1
    <2> QED BY <1>1, <1>4, <2>1, <2>2, <2>3 DEF ScriptInv
  <1> QED BY <1>5, <1>6 DEF Invokes

LEMMA ScriptStep ==
  LoopInv /\ ControlInv /\ QueueInv /\ ScriptInv /\ [SessionNext]_sessionVars => ScriptInv'
  <1> SUFFICES ASSUME LoopInv, ControlInv, QueueInv, ScriptInv, [SessionNext]_sessionVars
               PROVE  ScriptInv'
    OBVIOUS
  <1>1. CASE RunsOn
    <2> SUFFICES ASSUME configured_error' = "none"
                 PROVE  ScriptInv'
      BY DEF ScriptInv
    <2>1. /\ UNCHANGED <<responses, configured_error, invoke_count>>
          /\ reply' = reply /\ failure' = failure
      BY <1>1, ResumeShape DEF RunsOn, fakeProviderVars
    <2>2. ASSUME NEW c \in CallIds
          PROVE  /\ call'[c] = "returned" <=> call[c] = "returned"
                 /\ call'[c] = "failed" <=> call[c] = "failed"
      BY <1>1, ResumeShape DEF RunsOn, Issued
    <2>3. error'.kind = "provider" => Rank(error'.call) = Len(responses) + 1
      BY <1>1, <2>1, ResumeShape DEF RunsOn, ScriptInv
    <2> QED BY <2>1, <2>2, <2>3 DEF ScriptInv
  <1>2. CASE AsksModerator
    BY <1>2, InvokedInTurn, InvokesScript DEF AsksModerator
  <1>3. ASSUME NEW c \in CallIds, TaskRuns(c)
        PROVE  ScriptInv'
    BY <1>3, InvokedInTurn, InvokesScript DEF TaskRuns
  <1>4. CASE UNCHANGED <<vars, fakeProviderVars>>
    BY <1>4 DEF ScriptInv, vars, fakeProviderVars
  <1>5. CASE (\E c \in CallIds : Notifies(c)) \/ Closes \/ (\E f \in Followers : Follows(f))
               \/ Idle \/ UNCHANGED sessionVars
    BY <1>4, <1>5 DEF Notifies, Closes, Follows, Idle, sessionVars
  <1> QED BY <1>1, <1>2, <1>3, <1>5 DEF SessionNext, LoopTurn

(* Gathered or not, the k-th response of a script goes to the k-th call of *)
(* the documented order, and a short script fails the call after the last  *)
(* response, for any number of participants and any script.                *)
THEOREM ScriptInOrderHolds == SessionSpec => []ScriptInOrder
  <1>1. SessionInit => ScriptInv
    <2> SUFFICES ASSUME SessionInit PROVE ScriptInv
      OBVIOUS
    <2>1. /\ invoke_count = 0 /\ error = NoError
          /\ \A c \in CallIds : call[c] = "idle"
          /\ \A s \in Stages : failure[s] = NoCall
      BY DEF SessionInit, Init, FakeProviderInit
    <2>2. \A c \in CallIds : Rank(c) \in Nat /\ ~ (Rank(c) <= 0)
      BY RankType
    <2> QED BY <2>1, <2>2 DEF ScriptInv, NoError
  <1>2. LoopInv /\ ScriptInv => ScriptInOrder
    <2> SUFFICES ASSUME LoopInv, ScriptInv PROVE ScriptInOrder
      OBVIOUS
    <2>1. invoke_count \in Nat /\ Len(responses) \in Nat /\ invoke_count <= Len(responses)
      BY LenProperties DEF LoopInv
    <2>2. \A c \in CallIds : Rank(c) \in Nat
      BY RankType
    <2> QED BY <2>1, <2>2 DEF ScriptInv, ScriptInOrder
  <1> QED BY <1>1, <1>2, ScriptStep, QueueHolds, LoopHolds, SessionIsARun, ControlInvHolds,
            PTL DEF SessionSpec
================================================================================
