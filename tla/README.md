# A verification project for nelson

nelson asks several language models the same question, lets a moderator merge
their answers into a candidate, has the candidate reviewed, and returns one
answer. This directory holds TLA+ modules that model its control, TLC
configurations that check them on small instances, and proofs that hold for
every instance. `PROJECT.json` lists the components, runs, mutants, theorems,
hazards and findings, and maps every definition to the lines it models.

    tlc -config ConsensusRun.cfg MCConsensusRun.tla     # a run
    tlapm ConsensusRunProofs.tla                        # the proofs of a module

## 1. The system

| component | state | operations |
|---|---|---|
| orchestrator, `consensus/orchestrator.py` | one coroutine per run: its place, the calls it awaits, the invocation usages, the events emitted | `run_consensus`, `_invoke_structured`, `_record_usage`, `_aggregate_usage` |
| provider protocol, `providers/base.py` | none; a call is in flight until it answers or raises | `invoke`, `stream` |
| OpenRouter provider, `providers/openrouter.py` | per stream: connection, delta index, last usage | `invoke`, `stream`, `__anext__`, `usage` |
| fake provider, `providers/fake.py` | counters of the responses and streams handed out | same |
| event emitter, `core/events.py` | sequence, list of events, closed flag | `emit`, `close`, iteration |
| auth dispatcher, `core/dispatcher.py` | one generator per command: its place, the result | `events`, `result`, three handlers |
| key storage, `storage/auth.py` | the file `~/.nelson/openrouter_api_key` | `save_key`, `read_key`, `delete_key` |
| credential resolution, `core/credentials.py` | none | `resolve_credential` |
| CLI, `cli/auth.py`, `cli/run.py`, `cli/exit_codes.py` | none | `auth set`, `auth status`, `auth clear`, `run` |
| renderers, prompts, protocol models, ids, clock | none | formatting, text assembly, validation |

How they interact. A caller of `run_consensus` hands it a provider and an
emitter. The coroutine runs undisturbed between two awaits; at an await it has
one moderator call or a `gather()` of one call per participant in flight, and
the event loop lets those calls settle in any order. Each await is followed by
a loop that validates, records and announces the replies. The auth commands do
not share memory with anything: each is a process that pulls events from an
async generator, and what processes share is the key file, which a run reads
too. The streams of a provider are independent objects, each pulled by a task of
its own; the streams of a fake provider draw on one list of scripts, its calls
on one list of responses.

What is hard here:

- several calls in flight at once, answering or failing in any order, and one
  of them failing while its siblings still run;
- a failure between two events, after which the stream just stops;
- replies, usage records and events kept in three lists that have to stay
  aligned;
- a file truncated, written, read and removed by unrelated processes that may
  be killed between two system calls;
- a stream that is pulled again after it failed, or cancelled while it connects;
- tests that run against a provider that never suspends, whose schedule is one
  of many that a real provider allows;
- facts coded more than once: the priority of the key sources, the vote counts.

What makes each component correct:

- orchestrator: a stage opens only on all of the stage before; events bracket
  calls; records, events and result tell the same story; a run ends; nothing
  of it survives it;
- usage accounting: nothing counted twice or left out, "complete" is true;
- event stream: acknowledged first, one terminal event, last;
- auth commands and storage: exit code 0 tells the truth about the file, no
  race makes a command fail, a key read is a key saved, status and run agree;
- provider streams: contiguous delta indices, a text that is whole when the
  stream says it is over, usage of this stream only, every failure told, and told
  as what it is;
- fake provider: a scripted run is the same run every time;
- emitter: contiguous numbering; a consumer gets a whole stream or none;
- prompts: a label means one contribution in every prompt of a run.

The full list of hazards, each at its line, is under "hazards" in
`PROJECT.json`.

## 2. Modules

| module | models | uses |
|---|---|---|
| `CommandStream` | abstract: what the event stream of one command promises | |
| `ProviderStream` | abstract: what a stream of deltas promises the task that pulls it | |
| `Usage` | usage records and totals, as functions | |
| `ConsensusRun` | the orchestrator and its calls, provider unknown | `Usage`, `CommandStream` (refinement) |
| `EventEmitter` | the list of stamped events and its consumers | |
| `Prompts` | what the messages of each call are made of | |
| `FakeProvider` | `invoke` over configured responses | `Usage` |
| `ConsensusSession` | a run in an asyncio loop with the fake provider, an emitter and consumers | `ConsensusRun`, `FakeProvider`, `EventEmitter`, `Prompts` |
| `StreamClient` | the task that pulls a stream | `Usage` |
| `OpenRouter` | translation of SDK exceptions, `invoke`, usage extraction | `Usage` |
| `OpenRouterStream` | `_OpenRouterStream`, one action per suspension | `OpenRouter`, `StreamClient` |
| `FakeStreams` | `FakeStream`, over configured deltas | `FakeProvider`, `StreamClient` |
| `ProviderStreams` | the streams of one provider, either of the two | `OpenRouterStream`, `FakeStreams`, `ProviderStream` (refinement) |
| `OpenRouterRun` | a run whose calls return what OpenRouter's `invoke` makes of a completion | `ConsensusRun`, `OpenRouter` |
| `KeyStore` | the key file, one operator per system call | |
| `AuthCommand` | processes with an auth command or a credential lookup | `KeyStore`, `CommandStream` (refinement) |
| `MCConsensusRun`, `MCConsensusSession`, `MCProviderStreams`, `MCOpenRouterRun`, `MCAuthCommand` | values for the constants | |
| `FoldLemmas` | lemmas on folds, sums and maxima of any sequence or set, by induction | |
| `ConsensusRunProofs`, `ConsensusStreamProofs`, `ConsensusUsageProofs`, `ConsensusSessionProofs`, `OpenRouterRunProofs`, `ProviderStreamsProofs`, `AuthCommandProofs` | theorems | `FoldLemmas` |

Definitions named `Mutant...` state what a plausible bug would do in place of
the definition that follows them. No action uses them; they show that each
property can fail.

### ConsensusRun

One action is one stretch of the coroutine between two awaits:

| action | code (`orchestrator.py`) |
|---|---|
| `BeginRun` | 115-166, up to the framing call |
| `FrameTask` | 167-224, up to the gathered contributions |
| `CollectContributions` | 226-273, up to the synthesis call |
| `OpenReviews` | 274-369, up to the gathered reviews |
| `FinishUngated` | 371-478 and 534-633, no release gate |
| `OpenGate`, `FinishGated` | 371-504, then 505-633 |
| `RaiseProviderError`, `RaiseInvalidReply` | the exceptions that leave an await or a `model_validate` |
| `Cancel` | the task running the coroutine is cancelled at an await |
| `CallReturns`, `CallFails` | a provider call settles, in time or after the run has ended |

`pc` is the stage awaited. A call is named by its stage and its position in the
participant list; it stands for the random invocation id. A reply is abstracted
to whether it validates, its decision, its usage and its finish reason. `log`
is the emitter's list, with each event reduced to its type, its call, its votes
and its finish reason. `failure` is the exception the awaited future holds,
`settled` a history of the order in which calls ended. `gather()` is modelled
as asyncio has it: results in argument order, the first exception raised at
once, the other calls left running; cancelling it cancels its calls unless it
already holds an exception.

The result keeps the answer (as the call it comes from), the gate fields, the
usage records and the totals. Texts, times and ids are left out.

### ConsensusSession

`ConsensusRun` lets calls settle in any order. `ConsensusSession` puts the same
actions under the schedule of an asyncio event loop and the provider the test
suite uses (`run_happy_path` in `tests/test_consensus/conftest.py`, 161-189).
`ready` is the loop's queue of handles: the coroutine, the first step of a
gathered call's task, or `gather()`'s callback on a task that is done.

| action | code |
|---|---|
| `RunsOn` | the coroutine to its next await: one action of `ConsensusRun`, its events emitted, its prompts built, its tasks queued |
| `AsksModerator` | the await of a moderator's call, which with this provider keeps the loop |
| `TaskRuns` | the first and only step of a gathered call |
| `Notifies` | `gather()`'s callback: the first exception or the last task wakes the coroutine |
| `Closes` | the caller closes the emitter after a run that returned |
| `Follows` | a consumer begins to iterate (refused while the emitter is open), takes an event, ends |
| `Idle` | nothing is left to do |

`FakeProvider.invoke` hands out its responses by a counter, or raises the
configured error, or `IndexError` when it has no response left. `Emit` of the
emitter increments the sequence and stamps; the stamped list and the run's
`log` are kept apart, and `SessionTypeOK` says that one is the other, numbered.
`Prompts` names a text by the call whose reply it is and a label by the code
point of its letter.

### The streams

`Pull`, `Connects`, `FailsToConnect`, `SkipsChunk`, `DeliversChunk`, `EndsPull`,
`Breaks` and `CancelsPull` split `_OpenRouterStream.__anext__` (and `_connect`)
at its awaits. The SDK is external: a connection attempt succeeds or ends with
one of the SDK's exceptions; an open connection yields chunks, ends, or raises,
the HTTP library's own errors included, which the code does not translate. The
SDK's stream is an async generator, so that after an exception a further pull
finds its end. `OpensStream`, `PullRaises`, `PullDelivers` and `PullEnds` are
`FakeProvider.stream` and `FakeStream.__anext__`, which suspend nowhere.
`StreamClient` keeps what the consumer was given. It may pull again after
an exception or after the end: nothing in the code stops it. `OneConnection`
counts the connections a server accepted; a connect that timed out may have been
answered all the same, and the next pull sends the request again.

`OpenRouterRun` composes `ConsensusRun` with OpenRouter's `invoke`: `ServerAnswers`
replaces `CallReturns`, and a payload may validate only if `invoke` parsed it.
`EndsAtFraming` is what the missing schema makes of every such run.

### KeyStore and AuthCommand

A file is an inode, so that an unlinked file stays alive for whoever has it
open. Content is a sequence of blocks named by the key they belong to; a write
may be short, as `os.write` may be. `SaveOpens`, `SaveWrites` and `SaveCloses`
are the three system calls of `save_key`, each with an action in which it
fails; `ClearUnlinks`, `ClearFindsNothing`, `ClearFails` are `delete_key`, and
`ReportsRemoval` is what the handler makes of a file it removed, a step of its
own because a process killed between the two has removed a key and said nothing;
`ReadOpens`, `Reads`, `ReadFindsNothing`, `ReadFailsToDecode`, `ReadFails` are
`read_key`, for `auth status` and for `resolve_credential` alike.
`AccessEvents`, `PullReceived`, `StartHandler`, `PullCompleted` and the yields
within the handlers are the pulls of `AuthCommandExecution.events`. `Stop` is a
killed process, or a consumer that stops pulling. `fault` and `disturbed` are
histories the properties need: a system call of the process failed; another
process touched the file after this one first did. `ExitCode` is what
`cli/auth.py` makes of the result.

The other last calls of a handler (the close of a save, a read, a call that
fails or finds nothing) are one step with the result and the event that follow
them: they leave the file's name and content as they were, so that being killed
between such a call and its report looks, to every other process, like being
killed before the call.

### CommandStream and ProviderStream

The promise both command producers keep is weaker than the documents': acknowledged
first, domain events, at most one terminal event, and that one last and equal
to the outcome; but an exception may abandon the stream. The refinement maps
are at the end of `ConsensusRun` and `AuthCommand` (`ImplementsStream`).

`ProviderStream` is as weak after a failure: a stream that raised before its
first delta may recover, one that raised later delivers nothing more but may
then claim to be consumed. Only the first exception tells a truncated text from
a whole one. `ImplementsProviderStream` maps both kinds of stream to it.

## 3. Runs

| run | instance | shows |
|---|---|---|
| `consensus_run` | 2 participants, gate off and on, usage present or absent | types, bracketing of calls by events, usage records follow completions, totals, stage barrier, result matches stream, refinement of `CommandStream` |
| `consensus_run_live` | 3 participants, gate auto, fairness | order of the stream, orphaned calls, which exception surfaces, no step is taken back, termination, quiescence |
| `consensus_session` | 2 participants; every script of the set below; a provider error; one consumer; fairness | a scripted run is deterministic, nothing outlives it, totals for every mix of usages, a consumer gets the whole stream or none, provenance of prompts, the coroutine is woken once and every turn of the loop counts, termination |
| `provider_streams` | 2 streams; OpenRouter with up to 2 chunks per connection, or the fake provider with 3 configurations | text whole unless a failure was told, one connection, usage as last reported, the SDK's failures and cancellations told as what they are and none as nothing, refinement of `ProviderStream` |
| `auth_commands` | 3 processes, keys of 1 and 2 blocks, every mix of commands | truth of exit code 0, no failure by race, no removal claimed twice or lost except to a stopped process, status agrees with run, origin of what is read, refinement of `CommandStream` |

Seven more check a statement of the documents or comments that the code does
not keep; TLC gives the counterexample, and `PROJECT.json` quotes the text:

| run | statement | what the code does |
|---|---|---|
| `failure_reported` | a failed run ends its stream with `command_failed` | the stream just stops |
| `consensus_objection` | consensus only without `major_revise` and `reject` | announces it whatever the votes |
| `call_outlives_run` | no task without an owner | `gather()` leaves the siblings of a failed call running |
| `saved_key_read` | a read gives the saved key or None | an empty or partial text between truncation and write |
| `parsed_if_json` | `parsed` holds the content if it is JSON | only with a schema, and the orchestrator passes none, so a run against OpenRouter fails at its first reply |
| `gate_failed` | a failed release gate leads to another round or marks the result | the run completes as a success |
| `untranslated_failure` | a network error is a `ProviderTransportError` | an error of the HTTP library leaves `__anext__` as it is |

More disagreements were met that need no run, since each shows in one line of
the code; the models do what the code does, and the properties excuse it:

| where | the documents | the code |
|---|---|---|
| `orchestrator.py`, 243 | `finish_reason` is why the model stopped | always `stop` |
| `dispatcher.py`, 129 | a result only after the terminal state | it is there one event early |
| `dispatcher.py`, 136 | a failed command ends its stream with `command_failed` | an exception that is no `OSError` leaves the stream; `FailsOnlyOnFault` confines such exceptions to `auth status` |
| `storage/auth.py`, 38 | `saved`: the key was saved | a short write is taken for a whole one; `SuccessIsTrue` asks for a beginning of the key only |
| `prompts/labels.py`, 14 | contributions are `response_a`, `response_b`, ... | the 27th is `response_{` |
| `prompts/participant.py`, 40 | a review shows the question and the other participants' excerpts | it shows the reviewer's own too, and not the question |
| `cli/run.py`, 46 | exit code 2 for an empty model id or an unreadable prompt file | both are accepted |

Bounds. Two participants are enough for two replies to differ, arrive out of
order, be swapped, or be one valid and one not. Three are needed for two calls
to fail and a third to stay in flight; the run that has them gives replies one
usage value, since its properties do not look at usage. Gate modes `auto` and
`on` take the same path, so one stands for both in `consensus_run_live`.

The scripts of `consensus_session` are: one that runs to the end; every shorter
one, so that the provider is short of a response at every call; every pair of
review decisions with every gate decision; a full, a partial and an absent
snapshot in every combination over five of the seven replies; and every pair of
responses swapped, so that every stage meets a payload of another one. A
consumer may begin at any moment; two consumers do not share any state.

Two chunks per connection let a delta come before or after a role announcement,
a usage ride on a delta or come alone, a second usage replace the first, and a
connection break before, between and after its deltas; every further pull and
every new connection starts again from one of these situations. Two streams
let one fake script run out under the other, and two connections overlap.

Three processes let two saves overlap with a reader or a remover, two clears
compete for a file, and a reader hold a file that is removed and made anew; two
key lengths let a long key show behind a short one. Streams and processes are
interchangeable, and their runs use that symmetry: they have only safety
properties. Nothing in these modules counts without a bound; the only bound
that is not the code's own is `MaxChunks`.

Deadlock is checked in every run; `Rest` and `Idle` are the steps of a system
that is done.

Fairness. `Fairness` of `ConsensusRun` has two parts. Weak fairness of `Resume`:
the event loop resumes a coroutine whose await is over. Weak fairness of each
call's settling: `invoke` takes `timeout_seconds` and raises when it is exceeded
(`providers/base.py`, 80 and 92-95). No fairness is asked of `Cancel`.
`SessionSpec` needs nothing of the provider, which never suspends: it asks that
the event loop runs what is ready and that the caller goes on after the run; no
consumer has to follow. Streams and auth commands have no liveness property:
whoever pulls may stop at any time.

## 4. Proofs

All theorems hold for every value of the constants, from the named assumptions of
the modules only: `NoneAssumption`, `ConsensusAssumption`, `SessionAssumption`,
`ChunkAssumption`, `ScriptAssumption`, `KeyStoreAssumption`, `OverridesAssumption`.

| module | theorems |
|---|---|
| `ConsensusRunProofs` | `TypeCorrect`, `StageBarrierHolds`, `OrphansHold` |
| `ConsensusStreamProofs` | `EventsBracketCallsHolds`, `ParticipantOrderHolds`, `SurfacedErrorHolds`, `StepsAdvanceHolds`, `ResultMatchesStreamHolds`, `ConsensusImplementsStream` |
| `ConsensusUsageProofs` | `UsageFollowsCompletionsHolds`, `SuccessAccountsHolds` |
| `ConsensusSessionProofs` | `SessionIsARun`, `SessionAccountsHolds`, `SessionImplementsStream`, `SessionTypeCorrect`, `PromptProvenanceHolds`, `FollowerSeesWholeRunHolds`, `NothingOutlivesHolds`, `WokenOnceHolds`, `TurnsAdvanceHolds`, `ScriptInOrderHolds` |
| `OpenRouterRunProofs` | `OpenRouterRunImplementsStream`, `EndsAtFramingHolds` |
| `ProviderStreamsProofs` | `StreamsTypeCorrect`, `OneConnectionHolds`, `FailuresAreToldHolds`, `UsageIsLastReportedHolds`, `TextIsWholeHolds`, `StreamsImplement` |
| `AuthCommandProofs` | `AuthTypeCorrect`, `FailsOnlyOnFaultHolds`, `SuccessIsTrueHolds`, `RemovalAccountingHolds`, `StatusAgreesWithRunHolds`, `ResolvedTextHasAnOriginHolds`, `AuthImplementsStream` |

With them every invariant and every action property of the passing runs, and
both refinements of the event stream and the one of the provider's streams, are
proved.

**The orchestrator.** Hardly any property is inductive. `ControlInv` ties the
program counter to the calls. The frontier: while stage s is awaited, every
call of an earlier stage returned a valid reply and no call of a later stage
was issued; once the run has ended, some stage is the last it reached in this
sense. And the failures: a stage's future holds an exception exactly when a call
of that stage failed, and then that of a failed call. `Accept` carries most of
the proof, since it is the one guard that moves the frontier.

`EventsInv` makes the log a function of the frontier: what was issued was
announced once, what was completed was so once and later, what is not yet
validated was not. An action appends one batch of events whose calls and types
are known (`Extends`), and that is all the rest needs to know of it. `SettledInv`
and `ErrorInv` add the history of settled calls, for `SurfacedError`;
`ResultInv` counts the votes a run has told so far, for `ResultMatchesStream`.
The refinement needs one fact beyond these, that a run which has begun has
spoken.

The part of termination that needs no fairness is `StepsAdvanceHolds`: each step
takes a run past a stage or settles a call, and no call settles twice
(`SettledOnce`), so a run has a bounded number of steps; and until it has ended
its await is over or waits for a call in flight (`NeverStuck`, from
`AwaitedInv`). What `RunEnds` adds is that calls end and the loop goes on.

**The totals.** `ConsensusUsageProofs` shows that records and completions grow
together. `AccountInv` then says what is accounted for when a stage is awaited:
every call of the stages before it has been reported complete, hence recorded,
once; and the totals of a result are `AggregateUsage` of the records, which folds
over the list of records; the property sums over the set of calls. Between
them stand `TotalIsSum`, which follows the fold record by record, and
`SumUnderBijection`, since the records name the calls one to one.

**Induction over data.** The library states its induction theorems for a
predicate that is a parameter, which the installed provers cannot instantiate.
`FoldLemmas` goes around this with sets: the indices at which a claim fails
form a set of naturals; if there are any, it has a least member, by `WFMin` and
`NatLessThanWellFounded`. `NatSetInduction`, `SubsetInduction` and
`SeqSetInduction` are that argument for an arbitrary set of naturals, finite
subsets or sequences; the lemmas on sums and on folds instantiate them with the
set of those for which the claim holds.

**The session.** `SessionIsARun` shows that every step of the loop is a step of
`ConsensusRun` or changes nothing of it, which carries all theorems above over
to sessions. `PromptsInv`, `EmitterInv` and `FollowInv` are short. The hard part
is that a scripted run is deterministic: `LoopInv` and `QueueInv` say what the
queue holds after p of the 2N handles of a `gather()`: the tasks that have not
run, in participant order, then the callbacks of those that have, and the
coroutine behind them once something woke it. From it follow that all tasks
run before the first callback (`NothingOutlivesFakeRun`), that after the last
callback the coroutine is in the queue, and once (`WokenOnce`), and, with
`ScriptInv`, that the k-th response goes to the k-th call of the documented
order (`ScriptInOrder`). `ProgressInv` reads p off the head of the queue: each
turn of the loop adds one to it or moves on to another stage (`TurnsAdvance`), so
that 6 * (2N + 1) turns end a run.

**A run against OpenRouter.** The lemma `OpenRouterRunIsARun` carries the
orchestrator's theorems over to it: its steps are those of `ConsensusRun` with
conjuncts added. `EndsAtFramingHolds` draws the consequence of the finding
of `parsed_if_json` for every number of participants and every answer: as no
schema is passed, nothing is parsed, no reply validates (`NeverValid`), and the run
raises at its first call.

**The streams.** `ConnectionInv`: a stream without a connection has made none and
read nothing, any other has made exactly one. That the SDK's failures are told as
what they are (`FailuresAreToldHolds`) rests on a lemma that the `except` clauses,
in the order they are written, give each exception its most specific error; an
error of the HTTP library passes untranslated, which the theorem leaves open and
`untranslated_failure` shows. For the refinement, `DeliveryInv` says how far a
stream has come: its index is the number of deltas delivered, and one that ended,
or raised after its first delta, is not one that can deliver (`RealInv` for
OpenRouter, `FakeInv` for the fake provider). `TextInv` relates what a
consumer was given to what there is to give: for OpenRouter it is the texts of
the chunks read that have one (`RealText`), and a connection that broke has been
told; for the fake provider it is the beginning of the script the stream holds
(`FakeText`), and the streams hold the scripts in the order they were opened
(`ScriptsDealt`). That the texts only grow at their end is a lemma on folds,
`WordedGrows`; a stream that ends untruncated has nothing left to read.

**The auth commands.** `PlaceInv` says for each process what its place in the
command implies of its file and its events. `SuccessInv` adds what an
undisturbed process knows of the file (`KnowsFile`). `RemovalInv` counts: the
removals told or about to be told are no more than the files that lost their
name, and these no more than the processes that told of a removal, are about
to, or were stopped and may have removed one. `ReadersInv` relates two readers of one undisturbed file (`SeesFile`),
`OriginOfFiles` says that each block of each file was written by a save, or was
there before. The refinement uses `SaidInv`.

Stays with TLC: liveness (`RunEnds`, `Quiescence`, `SessionEnds`), which needs
ENABLED, and the runs that expect a violation.

## 5. Plan

Done: the orchestrator, the auth commands and the key file, the provider
streams, the fake provider, the emitter, the prompts, their compositions, and
the proofs of every safety property of the passing runs.

Left:

1. `Usage` against a reference definition, all totals included, if the code
   grows more counters.
2. When `run_consensus` gains its failure path (`command_failed`), strengthen
   `CommandStream`: exactly one terminal event. `failure_reported` then turns
   into a passing run, and the refinement proofs extend.
3. When the orchestrator passes a schema, a run of `OpenRouterRun` that returns:
   `EndsAtFraming` then no longer holds, and `OpenRouterRunIsARun` still does.
4. When the gate's decision is acted on, or `__anext__` translates what the HTTP
   library raises, the runs `gate_failed` and `untranslated_failure` turn into passing
   ones, their properties into theorems.
5. `run` of the CLI, once it reaches the orchestrator.

## 6. Not modelled

Rendering, ids, time stamps, the error classes beyond their code and the loading of
prompt templates: no control depends on them. pydantic's validation is one
Boolean per reply (in a session: whether the payload is meant for the
stage); events are built from typed values, and their validation is left out.
Costs are summed as the counts are; the text of a prompt is reduced to what it
quotes, and a label to the code point of its letter. The SDK is external, and known only by the
exceptions and chunks the code handles. `run` stops after its validations in
this version of the code, each of which is a comparison on its own, and no command
ties the CLI to the orchestrator; `resolve_credential` is modelled as the reader
it will be, called by nothing else. File permissions and the creation of the
directory are part of "open may fail". Two threads in one process do not occur.
