----------------------------- MODULE ConsensusSession -----------------------------
(***************************************************************************)
(* A consensus run as the test suite makes it: run_consensus in an asyncio *)
(* event loop, against a FakeProvider, with an EventEmitter that the       *)
(* caller closes after the run and whose events it then iterates over      *)
(* (run_happy_path in tests/test_consensus/conftest.py).                   *)
(*                                                                         *)
(* The event loop runs the handles of a queue, first in, first out, each   *)
(* to its next suspension.  FakeProvider never suspends, so the call of a  *)
(* moderator stage is over within the step of the coroutine that makes it, *)
(* and a gathered call within the first step of its task.                  *)
(***************************************************************************)
EXTENDS ConsensusRun, FakeProvider, EventEmitter, Prompts

CONSTANTS
  Scripts,   \* the lists of responses considered
  FakeErrors \* the errors the provider may be configured with

(* A response holds the parsed payload of one purpose; a payload meant for *)
(* another purpose does not validate.                                      *)
Response == [purpose : Stages, decision : ReviewDecisions \cup GateDecisions \cup {"none"},
             usage : Usages]

ASSUME SessionAssumption ==
  /\ Scripts \subseteq Seq(Response)
  /\ "none" \notin FakeErrors
  /\ FinishReasons = {"stop"}

VARIABLES
  ready,  \* the handles of the event loop, in order
  prompts \* the messages each call was made with

sessionVars == <<vars, fakeProviderVars, emitterVars, ready, prompts>>

Main == [run |-> "main", call |-> NoCall]     \* a step of run_consensus
Step(c) == [run |-> "step", call |-> c]       \* a step of the task of call c
Callback(c) == [run |-> "callback", call |-> c] \* gather's callback on that task

Handles == {Main} \cup {Step(c) : c \in CallIds} \cup {Callback(c) : c \in CallIds}

NoMessages == Messages(FALSE, NoCall, {}, NoCall)

SessionInit ==
  /\ Init
  /\ FakeProviderInit(Scripts, FakeErrors)
  /\ EmitterInit
  /\ ready = <<Main>>
  /\ prompts = [c \in CallIds |-> NoMessages]

Running(handle) == ready # <<>> /\ Head(ready) = handle

AsReply(response, s) ==
  LET fits == response.purpose = s
  IN [valid |-> fits, decision |-> IF fits THEN response.decision ELSE "none",
      usage |-> response.usage, finish |-> "stop"]

(* provider.invoke() runs, from its beginning to its end.                  *)
Invokes(c) ==
  \/ \E k \in DOMAIN responses : /\ InvokeReturns(responses[k])
                                 /\ CallReturns(c)
                                 /\ reply'[c] = AsReply(responses[k], c[1])
  \/ \E exc \in FakeErrors \cup {"IndexError"} : InvokeRaises(exc) /\ CallFails(c)

(* What the coroutine puts into the messages of each call.                 *)
MessagesOf(c) ==
  LET framing == <<"task_framing", 1>>
      contributions == [i \in Participants |-> <<"initial_contribution", i>>]
      candidate == <<"candidate_synthesis", 1>>
  IN CASE c[1] = "task_framing"         -> build_framing_messages
       [] c[1] = "initial_contribution" -> build_contribution_messages(framing)
       [] c[1] = "candidate_synthesis"  -> build_synthesis_messages(framing, contributions)
       [] c[1] = "candidate_review" ->
            build_review_messages(framing, candidate, contributions, contributions[c[2]])
       [] c[1] = "release_gate"         -> build_release_gate_messages(framing, candidate)

(* Mutant of Spawn: one task at a time is allowed to run.                  *)
MutantSpawn(s) == <<Step(<<s, 1>>)>>

(* gather() makes a task of each call, in participant order; each runs at  *)
(* the next turn of the loop.                                              *)
Spawn(s) == [i \in Callers(s) |-> Step(<<s, i>>)]

--------------------------------------------------------------------------------

(* run_consensus runs on, to its next await or its end.                    *)
RunsOn ==
  /\ Running(Main)
  /\ Resume
  /\ EmitAll(SubSeq(log', Len(log) + 1, Len(log')))
  /\ prompts' = [c \in CallIds |-> IF call[c] = "idle" /\ call'[c] # "idle"
                                   THEN MessagesOf(c) ELSE prompts[c]]
  /\ ready' = CASE pc' \in Gathered -> Tail(ready) \o Spawn(pc')
                [] pc' \in Ended    -> Tail(ready)
                [] OTHER            -> ready
  /\ UNCHANGED fakeProviderVars

(* The await of a moderator's call: the coroutine keeps the loop.          *)
AsksModerator ==
  /\ Running(Main)
  /\ pc \in Stages \ Gathered
  /\ Invokes(<<pc, 1>>)
  /\ UNCHANGED <<emitterVars, ready, prompts>>

TaskRuns(c) ==
  /\ Running(Step(c))
  /\ Invokes(c)
  /\ ready' = Append(Tail(ready), Callback(c))
  /\ UNCHANGED <<emitterVars, prompts>>

(* Mutant of Notifies: only a gather() that has all its results wakes the  *)
(* coroutine.                                                              *)
MutantNotifies(c) ==
  /\ Running(Callback(c))
  /\ ready' = LET rest == Tail(ready)
              IN IF AllReturned(c[1]) /\ ~ \E d \in CallsOf(c[1]) : Contains(rest, Callback(d))
                 THEN Append(rest, Main) ELSE rest
  /\ UNCHANGED <<vars, fakeProviderVars, emitterVars, prompts>>

(* The task of c is done.  gather() wakes the coroutine at the first       *)
(* exception, or when every task is done; a later callback finds it woken. *)
Notifies(c) ==
  /\ Running(Callback(c))
  /\ ready' = LET rest == Tail(ready)
                  over == /\ failure[c[1]] = NoCall
                          /\ \A d \in CallsOf(c[1]) : /\ call[d] # "inflight"
                                                      /\ ~ Contains(rest, Callback(d))
              IN IF failure[c[1]] = c \/ over THEN Append(rest, Main) ELSE rest
  /\ UNCHANGED <<vars, fakeProviderVars, emitterVars, prompts>>

(* The caller closes the emitter after the run has returned.  An exception *)
(* of the run takes it past that line.                                     *)
Closes ==
  /\ pc = "returned" /\ ~ closed
  /\ Close
  /\ UNCHANGED <<vars, fakeProviderVars, ready, prompts>>

Follows(f) ==
  /\ StartsIteration(f) \/ TakesEvent(f) \/ EndsIteration(f)
  /\ UNCHANGED <<vars, fakeProviderVars, ready, prompts>>

(* The loop is idle and the caller is done.                                *)
Idle ==
  /\ ready = <<>>
  /\ pc = "returned" => closed
  /\ \A f \in Followers : follower[f].state \in {"refused", "ended"}
  /\ UNCHANGED sessionVars

LoopTurn == \/ RunsOn
            \/ AsksModerator
            \/ \E c \in CallIds : TaskRuns(c) \/ Notifies(c)

SessionNext ==
  \/ LoopTurn
  \/ Closes
  \/ \E f \in Followers : Follows(f)
  \/ Idle

(* The event loop runs what is ready, and the caller goes on after the run.*)
SessionSpec == SessionInit /\ [][SessionNext]_sessionVars
                 /\ WF_sessionVars(LoopTurn) /\ WF_sessionVars(Closes)

--------------------------------------------------------------------------------

(* Type invariant.  The stamped list is the log, numbered from 1.          *)
SessionTypeOK ==
  /\ TypeOK
  /\ ready \in Seq(Handles)
  /\ invoke_count \in 0 .. Len(responses)
  /\ sequence = Len(events)
  /\ events = [i \in 1 .. Len(log) |-> [sequence |-> i, event |-> log[i]]]
  /\ \A f \in Followers : follower[f].state \in {"new", "refused", "following", "ended"}

(* The rank of a call in the order in which the tests list the responses:  *)
(* framing, contributions, synthesis, reviews, release gate.               *)
Rank(c) == CASE c[1] = "task_framing"         -> 1
             [] c[1] = "initial_contribution" -> 1 + c[2]
             [] c[1] = "candidate_synthesis"  -> N + 2
             [] c[1] = "candidate_review"     -> N + 2 + c[2]
             [] c[1] = "release_gate"         -> 2 * N + 3

(* A scripted run is deterministic: although contributions and reviews are *)
(* gathered, the k-th response goes to the k-th call of the documented     *)
(* order, and the run is short of responses at exactly the call after the  *)
(* last one (FakeProvider hands out responses in the order of the calls).  *)
ScriptInOrder ==
  configured_error = "none" =>
    \A c \in CallIds :
      /\ call[c] = "returned" => /\ Rank(c) <= Len(responses)
                                 /\ reply[c] = AsReply(responses[Rank(c)], c[1])
      /\ error.kind = "provider" /\ error.call = c => Rank(c) = Len(responses) + 1

(* Against the fake provider no call outlives its run, whatever fails: all *)
(* tasks of a gather() run before the callback that wakes the coroutine.   *)
(* What run_consensus leaves behind with a real provider (see              *)
(* NoCallOutlivesRun) cannot show in a test of this kind.                  *)
NothingOutlivesFakeRun ==
  pc \in Ended => /\ \A c \in CallIds : call[c] # "inflight"
                  /\ \A i \in DOMAIN ready : ready[i].run = "callback"

(* A consumer is given events only of a run that returned, and when its    *)
(* iteration ends it has had all of them, the terminal event included,     *)
(* however early it first tried (the closed flag of EventEmitter).         *)
FollowerSeesWholeRun ==
  \A f \in Followers :
    /\ follower[f].given > 0 => pc = "returned"
    /\ follower[f].state = "ended" =>
         /\ log # <<>> /\ follower[f].given = Len(log)
         /\ Last(log).type = "command_completed"

(* Every text a prompt quotes comes from a reply that was in and valid     *)
(* when the prompt was built, no contributor is shown a contribution, and  *)
(* a label stands for the same contribution in every prompt of the run: an *)
(* objection to response_b means one answer (label_contributions is called *)
(* afresh for each prompt).                                                *)
PromptProvenance ==
  LET made == {c \in CallIds : call[c] # "idle"}
      Quoted(c) == {prompts[c].framing, prompts[c].candidate}
                     \cup {e.of : e \in prompts[c].excerpts}
      labelled == UNION {prompts[c].excerpts : c \in made}
  IN /\ \A c \in made : \A d \in Quoted(c) \ {Nothing} :
          /\ call[d] = "returned" /\ reply[d].valid
          /\ StageNumber[d[1]] < StageNumber[c[1]]
     /\ \A c \in CallsOf("initial_contribution") : prompts[c].excerpts = {}
     /\ \A e, g \in labelled : e.label = g.label <=> e.of = g.of

(* The coroutine is neither forgotten nor woken twice: until it has ended  *)
(* there is something for the loop to run, and it is in the queue once at  *)
(* most, whichever calls of a gather() fail and whichever callback comes   *)
(* last.                                                                   *)
WokenOnce ==
  /\ ready = <<>> => pc \in Ended
  /\ \A i, j \in DOMAIN ready : ready[i] = Main /\ ready[j] = Main => i = j

(* How far a run has come: the stage awaited and, within it, how many of   *)
(* the 2 * N handles of a gather(), or of the two turns a moderator's call *)
(* takes, are behind it.                                                   *)
Turned ==
  LET handle == Head(ready)
  IN IF pc \notin Gathered
     THEN IF pc \in Stages /\ call[<<pc, 1>>] # "inflight" THEN 1 ELSE 0
     ELSE CASE handle.run = "step"     -> handle.call[2] - 1
            [] handle.run = "callback" -> N + handle.call[2] - 1
            [] handle.run = "main"     -> 2 * N

Progress == StagesPast * (2 * N + 1) + Turned

(* Nothing is done twice: every turn of the loop takes the run further, so *)
(* that a run is over after 6 * (2 * N + 1) turns at most, whatever fails  *)
(* (there is no retry in run_consensus, and a task is run once).           *)
TurnsAdvance == [][Progress < Progress']_<<vars, ready>>

(* Every run ends, whatever its script: no shortage or error leaves the    *)
(* coroutine waiting for a call that will not come back.                   *)
SessionEnds == <>(pc \in Ended /\ ready = <<>>)
================================================================================
