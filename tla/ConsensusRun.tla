------------------------------- MODULE ConsensusRun -------------------------------
(***************************************************************************)
(* run_consensus: the coroutine that drives one consensus run, the         *)
(* provider calls it has in flight, and the events, usage records and      *)
(* result it produces.                                                     *)
(*                                                                         *)
(* asyncio runs the coroutine without interruption between two awaits, so  *)
(* each stretch between awaits is one action.  A stage is one await: a     *)
(* single moderator call, or a gather() of one call per participant.       *)
(* A call is named <<stage, i>>, i being the position in the participant   *)
(* list (1 for the moderator); it stands for the invocation id, which the  *)
(* code draws fresh for each call.                                         *)
(***************************************************************************)
EXTENDS Usage, FiniteSetsExt

CONSTANTS
  N,            \* number of participants
  GateModes,    \* the values of release_gate_mode considered
  Usages,       \* the usage snapshots a provider may attach to a reply
  FinishReasons \* why the provider may say a model stopped

ASSUME ConsensusAssumption ==
  /\ N \in Nat \ {0}
  /\ GateModes \subseteq {"off", "auto", "on"}
  /\ Usages \subseteq UsageSnapshot \cup {None}

Participants == 1 .. N

Stages == {"task_framing", "initial_contribution", "candidate_synthesis",
           "candidate_review", "release_gate"}

StageNumber == [task_framing |-> 1, initial_contribution |-> 2,
                candidate_synthesis |-> 3, candidate_review |-> 4, release_gate |-> 5]

Gathered == {"initial_contribution", "candidate_review"}

Width(s) == IF s \in Gathered THEN N ELSE 1

Callers(s) == 1 .. Width(s)

CallIds == {c \in Stages \X Participants : c[2] \in Callers(c[1])}

CallsOf(s) == {s} \X Callers(s)

ReviewDecisions == {"approve", "minor_revise", "major_revise", "reject"}

GateDecisions == {"skipped", "pass", "pass_with_minor_fixes", "fail"}

Decisions(s) == CASE s = "candidate_review" -> ReviewDecisions
                  [] s = "release_gate"     -> GateDecisions
                  [] OTHER                  -> {"none"}

(* A reply is told apart by whether its parsed payload satisfies the       *)
(* stage's model, by the decision it carries, its usage and finish reason. *)
Replies(s) ==
  [valid : {TRUE}, decision : Decisions(s), usage : Usages, finish : FinishReasons]
    \cup
  [valid : {FALSE}, decision : {"none"}, usage : Usages, finish : FinishReasons]

NoReply == [valid |-> FALSE, decision |-> "none", usage |-> None, finish |-> "none"]

AnyReply == {NoReply} \cup UNION {Replies(s) : s \in Stages}

NoCall == <<"none", 0>>
NoResult == [final_answer |-> NoCall]
NoError == [kind |-> "none", call |-> NoCall]
NoVotes == [approve |-> 0, minor_revise |-> 0]

VARIABLES
  release_gate_mode, \* the argument of the run
  pc,        \* the stage awaited, or "new", "returned", "raised"
  call,      \* state of each provider call
  reply,     \* what each call returned
  failure,   \* the call whose exception each await's future holds
  settled,   \* history: the calls that returned or failed, in that order
  log,       \* EventEmitter._events: events emitted so far
  usages,    \* invocation_usages
  result,    \* the RunResult handed to the caller
  error      \* the exception that left the coroutine, by origin

vars == <<release_gate_mode, pc, call, reply, failure, settled, log, usages, result,
          error>>

Ended == {"returned", "raised"}

Event(t, c, votes) == [type |-> t, call |-> c, votes |-> votes,
                       finish |-> IF t = "model_completed" THEN "stop" ELSE "none"]

Say(t) == Event(t, NoCall, NoVotes)

StartedType(s) == CASE s = "task_framing" -> "task_framing_started"
                    [] s = "release_gate" -> "release_gate_started"
                    [] OTHER              -> "model_started"

CompletedType(s) == CASE s = "task_framing" -> "task_framing_completed"
                      [] s = "release_gate" -> "release_gate_completed"
                      [] OTHER              -> "model_completed"

(* Every started event of a stage is emitted, in participant order, before *)
(* the stage's calls are awaited.                                          *)
Opening(s) == [i \in Callers(s) |-> Event(StartedType(s), <<s, i>>, NoVotes)]

Issued(s) == [c \in CallIds |-> IF c[1] = s THEN "inflight" ELSE call[c]]

(* Mutant definitions (prefix Mutant) say what a plausible bug in the code  *)
(* would do; no action uses them.                                          *)
Arrived(s) == SelectSeq(settled, LAMBDA c : c[1] = s /\ call[c] = "returned")

(* Mutant of Gather: asyncio.as_completed() in place of gather().          *)
MutantGather(s) == [i \in Callers(s) |-> reply[Arrived(s)[i]]]

(* gather() hands the replies back in argument order, whatever the order   *)
(* in which the calls settled.                                             *)
Gather(s) == [i \in Callers(s) |-> reply[<<s, i>>]]

AllReturned(s) == \A c \in CallsOf(s) : call[c] = "returned"

(* Mutant of CompletedEvents: completions emitted as the calls arrive.     *)
MutantCompletedEvents(s, k) ==
  [i \in 1 .. k |-> Event(CompletedType(s), Arrived(s)[i], NoVotes)]

(* What the loop over the first k replies emits and records.               *)
CompletedEvents(s, k) ==
  [i \in 1 .. k |-> Event(CompletedType(s), <<s, i>>, NoVotes)]

RecordedUsages(s, k) ==
  [i \in 1 .. k |-> RecordUsage(<<s, i>>, Gather(s)[i].usage)]

(* Mutant of Accept: the replies are used without model_validate.          *)
MutantAccept(s, extra) ==
  /\ pc = s
  /\ AllReturned(s)
  /\ usages' = usages \o RecordedUsages(s, Width(s))
  /\ log' = log \o CompletedEvents(s, Width(s)) \o extra

(* The replies of stage s are in and all valid: the loop runs to its end.  *)
Accept(s, extra) ==
  /\ pc = s
  /\ AllReturned(s)
  /\ \A i \in Callers(s) : Gather(s)[i].valid
  /\ usages' = usages \o RecordedUsages(s, Width(s))
  /\ log' = log \o CompletedEvents(s, Width(s)) \o extra

(* The coroutine goes on to await stage s.                                 *)
Await(s) ==
  /\ pc' = s
  /\ call' = Issued(s)
  /\ UNCHANGED <<release_gate_mode, reply, failure, settled, result, error>>

--------------------------------------------------------------------------------

Init ==
  /\ release_gate_mode \in GateModes
  /\ pc = "new"
  /\ call = [c \in CallIds |-> "idle"]
  /\ reply = [c \in CallIds |-> NoReply]
  /\ failure = [s \in Stages |-> NoCall]
  /\ settled = <<>>
  /\ log = <<>>
  /\ usages = <<>>
  /\ result = NoResult
  /\ error = NoError

BeginRun ==
  /\ pc = "new"
  /\ log' = <<Say("command_received"), Say("run_started")>> \o Opening("task_framing")
  /\ Await("task_framing")
  /\ UNCHANGED usages

FrameTask ==
  /\ Accept("task_framing", Opening("initial_contribution"))
  /\ Await("initial_contribution")

CollectContributions ==
  /\ Accept("initial_contribution", Opening("candidate_synthesis"))
  /\ Await("candidate_synthesis")

OpenReviews ==
  /\ Accept("candidate_synthesis",
            <<Say("candidate_created"), Say("round_started"), Say("review_started")>>
              \o Opening("candidate_review"))
  /\ Await("candidate_review")

(* Mutant of Votes: whatever is not a minor_revise counts as an approval.  *)
MutantVotes ==
  LET minor == Cardinality({i \in Participants :
                 Gather("candidate_review")[i].decision = "minor_revise"})
  IN [approve |-> N - minor, minor_revise |-> minor]

(* Only approve and minor_revise are counted; the other two decisions are  *)
(* reported as zero.                                                       *)
Votes ==
  LET Count(d) == Cardinality({i \in Participants :
                                 Gather("candidate_review")[i].decision = d})
  IN [approve |-> Count("approve"), minor_revise |-> Count("minor_revise")]

(* Consensus is announced whatever the votes are.                          *)
Verdict == <<Event("review_completed", NoCall, Votes),
             Event("consensus_reached", NoCall, Votes),
             Event("round_completed", NoCall, Votes)>>

(* Mutant of Closing: usage reported after the terminal event.             *)
MutantClosing == <<Say("run_completed"), Say("command_completed"), Say("usage_reported")>>

Closing == <<Say("usage_reported"), Say("run_completed"), Say("command_completed")>>

(* Mutant of Deliver: totals taken before the last records are added.      *)
MutantDeliver(answer, executed, decision) ==
  /\ pc' = "returned"
  /\ result' = [final_answer |-> answer, gate_executed |-> executed,
                gate_decision |-> decision, per_invocation |-> usages',
                total |-> AggregateUsage(usages)]
  /\ UNCHANGED <<release_gate_mode, call, reply, failure, settled, error>>

(* Finalization: totals, the closing events and the RunResult, whose       *)
(* answer is the text of call `answer`.                                    *)
Deliver(answer, executed, decision) ==
  /\ pc' = "returned"
  /\ result' = [final_answer |-> answer, gate_executed |-> executed,
                gate_decision |-> decision, per_invocation |-> usages',
                total |-> AggregateUsage(usages')]
  /\ UNCHANGED <<release_gate_mode, call, reply, failure, settled, error>>

FinishUngated ==
  /\ release_gate_mode = "off"
  /\ Accept("candidate_review", Verdict \o Closing)
  /\ Deliver(<<"candidate_synthesis", 1>>, FALSE, "skipped")

OpenGate ==
  /\ release_gate_mode # "off"
  /\ Accept("candidate_review", Verdict \o Opening("release_gate"))
  /\ Await("release_gate")

(* The gate's decision is reported, and never stops the run.               *)
FinishGated ==
  /\ Accept("release_gate", Closing)
  /\ Deliver(<<"release_gate", 1>>, TRUE, Gather("release_gate")[1].decision)

--------------------------------------------------------------------------------

(* Nothing catches what leaves an await or a model_validate: the coroutine *)
(* ends without a further event and without a result.                      *)
Raise(kind, c) ==
  /\ pc' = "raised"
  /\ error' = [kind |-> kind, call |-> c]
  /\ UNCHANGED <<release_gate_mode, reply, failure, settled, result>>

(* Mutant of RaiseProviderError: only a stage without any reply fails.     *)
MutantRaiseProviderError(s) ==
  /\ pc = s
  /\ \A c \in CallsOf(s) : call[c] = "failed"
  /\ Raise("provider", failure[s])
  /\ UNCHANGED <<call, log, usages>>

(* Mutant of RaiseProviderError: failed calls are retried without a limit. *)
MutantRetryForever(s) ==
  /\ pc = s
  /\ failure[s] # NoCall
  /\ call' = [c \in CallIds |-> IF call[c] = "failed" THEN "inflight" ELSE call[c]]
  /\ failure' = [failure EXCEPT ![s] = NoCall]
  /\ settled' = SelectSeq(settled, LAMBDA c : call[c] # "failed")
  /\ UNCHANGED <<release_gate_mode, pc, reply, log, usages, result, error>>

(* gather() raises the first exception one of its calls ends with, at once,*)
(* and leaves the other calls running.                                     *)
RaiseProviderError(s) ==
  /\ pc = s
  /\ failure[s] # NoCall
  /\ Raise("provider", failure[s])
  /\ UNCHANGED <<call, log, usages>>

(* Mutants of RaiseInvalidReply: the event of a reply goes out before the  *)
(* reply is validated; the exception names the position counted from zero. *)
MutantRaiseInvalidReply(s) ==
  /\ pc = s
  /\ AllReturned(s)
  /\ \E i \in Callers(s) :
       /\ \A j \in 1 .. i - 1 : Gather(s)[j].valid
       /\ ~ Gather(s)[i].valid
       /\ usages' = usages \o RecordedUsages(s, i - 1)
       /\ log' = log \o CompletedEvents(s, i)
       /\ Raise("validation", <<s, i>>)
  /\ UNCHANGED call

MutantRaiseFromZero(s) ==
  /\ pc = s
  /\ AllReturned(s)
  /\ \E i \in Callers(s) :
       /\ \A j \in 1 .. i - 1 : Gather(s)[j].valid
       /\ ~ Gather(s)[i].valid
       /\ usages' = usages \o RecordedUsages(s, i - 1)
       /\ log' = log \o CompletedEvents(s, i - 1)
       /\ Raise("validation", <<s, i - 1>>)
  /\ UNCHANGED call

(* Mutant of RaiseInvalidReply: a reply is validated as soon as it arrives,*)
(* without waiting for its siblings.                                       *)
MutantRaiseAtOnce(s) ==
  /\ pc = s
  /\ \E i \in Callers(s) :
       /\ call[<<s, i>>] = "returned" /\ ~ reply[<<s, i>>].valid
       /\ Raise("validation", <<s, i>>)
  /\ UNCHANGED <<call, log, usages>>

(* The first invalid reply in participant order raises; the events and     *)
(* usages of the replies before it stay.                                   *)
RaiseInvalidReply(s) ==
  /\ pc = s
  /\ AllReturned(s)
  /\ \E i \in Callers(s) :
       /\ \A j \in 1 .. i - 1 : Gather(s)[j].valid
       /\ ~ Gather(s)[i].valid
       /\ usages' = usages \o RecordedUsages(s, i - 1)
       /\ log' = log \o CompletedEvents(s, i - 1)
       /\ Raise("validation", <<s, i>>)
  /\ UNCHANGED call

(* The task running the coroutine is cancelled at an await.  Cancelling a  *)
(* gather() cancels its calls, unless it already holds an exception.       *)
Cancel(s) ==
  /\ pc = s
  /\ call' = IF failure[s] # NoCall THEN call
             ELSE [c \in CallIds |-> IF call[c] = "inflight" THEN "cancelled"
                                     ELSE call[c]]
  /\ Raise("cancelled", NoCall)
  /\ UNCHANGED <<log, usages>>

(* The provider answers a call, or fails it (timeout, transport, refused   *)
(* credential).  Both may happen after the run has ended.                  *)
CallReturns(c) ==
  /\ call[c] = "inflight"
  /\ \E r \in Replies(c[1]) : reply' = [reply EXCEPT ![c] = r]
  /\ call' = [call EXCEPT ![c] = "returned"]
  /\ settled' = Append(settled, c)
  /\ UNCHANGED <<release_gate_mode, pc, failure, log, usages, result, error>>

(* Mutant of CallFails: the last exception wins.                           *)
MutantCallFails(c) ==
  /\ call[c] = "inflight"
  /\ call' = [call EXCEPT ![c] = "failed"]
  /\ failure' = [failure EXCEPT ![c[1]] = c]
  /\ settled' = Append(settled, c)
  /\ UNCHANGED <<release_gate_mode, pc, reply, log, usages, result, error>>

CallFails(c) ==
  /\ call[c] = "inflight"
  /\ call' = [call EXCEPT ![c] = "failed"]
  /\ failure' = [failure EXCEPT ![c[1]] = IF @ = NoCall THEN c ELSE @]
  /\ settled' = Append(settled, c)
  /\ UNCHANGED <<release_gate_mode, pc, reply, log, usages, result, error>>

(* The run is over and no call is left: nothing more happens.              *)
Rest ==
  /\ pc \in Ended
  /\ \A c \in CallIds : call[c] # "inflight"
  /\ UNCHANGED vars

--------------------------------------------------------------------------------

Resume ==
  \/ BeginRun
  \/ FrameTask
  \/ CollectContributions
  \/ OpenReviews
  \/ FinishUngated
  \/ OpenGate
  \/ FinishGated
  \/ \E s \in Stages : RaiseProviderError(s) \/ RaiseInvalidReply(s)

Settle(c) == CallReturns(c) \/ CallFails(c)

Next ==
  \/ Resume
  \/ \E s \in Stages : Cancel(s)
  \/ \E c \in CallIds : Settle(c)
  \/ Rest

Spec == Init /\ [][Next]_vars

(* The event loop resumes a coroutine whose await is over, and every call  *)
(* ends, because a provider gives up after timeout_seconds.                *)
Fairness == WF_vars(Resume) /\ \A c \in CallIds : WF_vars(Settle(c))

FairSpec == Spec /\ Fairness
--------------------------------------------------------------------------------

EventTypes == {"command_received", "run_started", "task_framing_started",
               "task_framing_completed", "model_started", "model_completed",
               "candidate_created", "round_started", "review_started",
               "review_completed", "consensus_reached", "round_completed",
               "release_gate_started", "release_gate_completed",
               "usage_reported", "run_completed", "command_completed"}

VoteCounts == [approve : 0 .. N, minor_revise : 0 .. N]

Events == [type : EventTypes, call : CallIds \cup {NoCall}, votes : VoteCounts,
           finish : {"stop", "none"}]

CallStates == {"idle", "inflight", "returned", "failed", "cancelled"}

Errors == [kind : {"none", "provider", "validation", "cancelled"},
           call : CallIds \cup {NoCall}]

(* Every variable has its type.                                            *)
TypeOK ==
  /\ release_gate_mode \in GateModes
  /\ pc \in {"new"} \cup Stages \cup Ended
  /\ call \in [CallIds -> CallStates]
  /\ reply \in [CallIds -> AnyReply]
  /\ failure \in [Stages -> CallIds \cup {NoCall}]
  /\ settled \in Seq(CallIds)
  /\ log \in Seq(Events)
  /\ usages \in Seq(InvocationUsage(CallIds))
  /\ error \in Errors
  /\ pc # "returned" => result = NoResult

--------------------------------------------------------------------------------

Starts(c) == {j \in 1 .. Len(log) : log[j].call = c /\ log[j].type = StartedType(c[1])}

Completions(c) ==
  {j \in 1 .. Len(log) : log[j].call = c /\ log[j].type = CompletedType(c[1])}

(* The event stream brackets every provider call: a call is announced      *)
(* exactly when it is issued, once; it is reported complete at most once,  *)
(* only after its announcement, and only if it returned a payload that     *)
(* passed validation (the emits around each await of run_consensus).       *)
EventsBracketCalls ==
  \A c \in CallIds :
    /\ Cardinality(Starts(c)) = (IF call[c] = "idle" THEN 0 ELSE 1)
    /\ Cardinality(Completions(c)) <= 1
    /\ \A j \in Completions(c) :
         /\ call[c] = "returned" /\ reply[c].valid
         /\ \E i \in Starts(c) : i < j

(* Whatever the order in which gathered calls settle, a stage's stream is  *)
(* the same: all announcements, then completions in participant order      *)
(* without a gap (the comment above the first gather of run_consensus).    *)
ParticipantOrder ==
  \A c, d \in CallIds : c[1] = d[1] =>
    /\ \A i \in Starts(c), j \in Completions(d) : i < j
    /\ c[2] < d[2] => \A j \in Completions(d) : \E i \in Completions(c) : i < j

(* The usage records are those of the completed calls, in the order of     *)
(* their completion events, and each holds what that very call returned:   *)
(* gather() and zip() may not attribute one participant's reply to another.*)
UsageFollowsCompletions ==
  LET recorded == 1 .. Len(usages)
      Of(i) == usages[i].call
  IN /\ \A i \in recorded : /\ Completions(Of(i)) # {}
                            /\ usages[i] = RecordUsage(Of(i), reply[Of(i)].usage)
     /\ \A c \in CallIds : Completions(c) # {} => \E i \in recorded : Of(i) = c
     /\ \A i, k \in recorded : i < k =>
          \A a \in Completions(Of(i)), b \in Completions(Of(k)) : a < b

(* A run that returns accounts for every provider call it made: one record *)
(* per call, totals that add up what all of them reported, a cost unless   *)
(* none of them reported one, complete only if all reported every count.   *)
SuccessAccountsForEveryCall ==
  pc = "returned" =>
    LET made == {c \in CallIds : call[c] # "idle"}
        Count(c, f) == IF reply[c].usage = None THEN None ELSE reply[c].usage.tokens[f]
        Cost(c) == IF reply[c].usage = None THEN None ELSE reply[c].usage.cost_usd
    IN /\ {usages[i].call : i \in 1 .. Len(usages)} = made
       /\ Len(usages) = Cardinality(made)
       /\ \A f \in TokenFields :
            result.total.tokens[f] = SumFunction([c \in made |-> OrZero(Count(c, f))])
       /\ result.total.cost_usd = IF \A c \in made : Cost(c) = None THEN None
                                  ELSE SumFunction([c \in made |-> OrZero(Cost(c))])
       /\ result.total.is_complete <=>
            \A c \in made, f \in TokenFields : Count(c, f) # None

(* A stage is opened only on the whole of the one before: no call of a     *)
(* later stage is ever issued unless every call of every earlier stage     *)
(* came back with a valid payload (the moderator synthesises from all the  *)
(* contributions, the gate judges after all the reviews).                  *)
StageBarrier ==
  \A c, d \in CallIds :
    /\ StageNumber[c[1]] < StageNumber[d[1]]
    /\ call[d] # "idle"
    => call[c] = "returned" /\ reply[c].valid

(* A provider call outlives the run only when a sibling of the same        *)
(* gather() failed: never after a result, an invalid reply or the failure  *)
(* of a moderator call, and no later stage was opened.                     *)
OrphansOnlyAfterSiblingFailure ==
  \A c \in CallIds :
    /\ pc \in Ended
    /\ call[c] = "inflight"
    => /\ pc = "raised" /\ error.kind # "validation"
       /\ c[1] \in Gathered
       /\ \E d \in CallsOf(c[1]) : call[d] = "failed"
       /\ \A d \in CallIds : StageNumber[d[1]] > StageNumber[c[1]] => call[d] = "idle"

(* The exception a caller sees names the failure that happened first: a    *)
(* provider error is the earliest one of its stage, and an invalid reply   *)
(* is the first of its stage in participant order, all calls having        *)
(* returned, with only the replies before it recorded.                     *)
SurfacedError ==
  /\ error.kind = "provider" =>
       \E i \in 1 .. Len(settled) :
         /\ settled[i] = error.call /\ call[error.call] = "failed"
         /\ \A j \in 1 .. i - 1 : settled[j][1] = error.call[1] => call[settled[j]] # "failed"
  /\ error.kind = "validation" =>
       /\ AllReturned(error.call[1]) /\ ~ reply[error.call].valid
       /\ \A c \in CallsOf(error.call[1]) : Completions(c) # {} <=> c[2] < error.call[2]

(* The result agrees with the stream that was published and with the votes *)
(* behind it: there is one exactly when the stream ends in                 *)
(* command_completed, its gate fields match a release_gate_completed event *)
(* or its absence, its answer is the gate's text or the candidate, and the *)
(* three vote summaries count the reviews that agreed.                     *)
ResultMatchesStream ==
  LET Said(t) == \E j \in 1 .. Len(log) : log[j].type = t
      Agreeing(d) == Cardinality({c \in CallsOf("candidate_review") : reply[c].decision = d})
  IN /\ pc = "returned" <=> (log # <<>> /\ Last(log).type = "command_completed")
     /\ pc = "returned" =>
          /\ result.gate_executed <=> Said("release_gate_completed")
          /\ result.gate_executed <=> release_gate_mode # "off"
          /\ result.final_answer =
               IF result.gate_executed THEN <<"release_gate", 1>> ELSE <<"candidate_synthesis", 1>>
          /\ result.gate_decision =
               IF result.gate_executed THEN reply[<<"release_gate", 1>>].decision ELSE "skipped"
          /\ result.per_invocation = usages
     /\ \A j \in 1 .. Len(log) :
          log[j].type \in {"review_completed", "consensus_reached", "round_completed"} =>
            log[j].votes = [approve |-> Agreeing("approve"),
                            minor_revise |-> Agreeing("minor_revise")]

--------------------------------------------------------------------------------

(* A run that has begun ends, with a result or an exception, provided the  *)
(* provider ends every call.                                               *)
RunEnds == pc = "task_framing" ~> pc \in Ended

(* After the run has ended, the calls it abandoned die out: in the end     *)
(* nothing of the run is left in the event loop.                           *)
Quiescence == <>[](\A c \in CallIds : call[c] # "inflight")

(* Each step takes a run past a stage or settles a call for good: nothing  *)
(* is retried and no stage comes back, so that a run has taken at most     *)
(* Cardinality(CallIds) + 6 steps, whatever fails and in whatever order.   *)
StagesPast == CASE pc \in Stages -> StageNumber[pc]
                [] pc \in Ended  -> 6
                [] OTHER         -> 0

StepsTaken == StagesPast + Len(settled)

StepsAdvance == [][StepsTaken < StepsTaken']_vars

(* The stream of a run implements the abstract command stream.             *)
Kind(e) == CASE e.type = "command_received"  -> "received"
             [] e.type = "command_completed" -> "completed"
             [] OTHER                        -> "domain"

Stream == INSTANCE CommandStream WITH
  stream <- [i \in 1 .. Len(log) |-> Kind(log[i])],
  status <- CASE pc = "returned" -> "completed"
              [] pc = "raised"   -> "abandoned"
              [] OTHER           -> "open"

ImplementsStream == Stream!StreamSpec

--------------------------------------------------------------------------------

(* What the documents say of a run and the code does not do.               *)

(* A run that fails ends its stream with command_failed.                   *)
FailureIsReported ==
  pc = "raised" => log[Len(log)].type \in {"command_completed", "command_failed"}

(* Consensus is reached only without major_revise and reject.              *)
ConsensusWithoutObjection ==
  \A j \in 1 .. Len(log) : log[j].type = "consensus_reached" =>
    \A c \in CallsOf("candidate_review") : reply[c].decision \in {"approve", "minor_revise"}

(* A run that completes as a success (run_completed has no other status)   *)
(* does not hand out an answer its release gate rejected.                  *)
SuccessPassedGate ==
  \A j \in 1 .. Len(log) : log[j].type = "run_completed" =>
    reply[<<"release_gate", 1>>].decision # "fail"

(* No task a run started is left running when the run is over.             *)
NoCallOutlivesRun ==
  pc \in Ended => \A c \in CallIds : call[c] # "inflight"
================================================================================
