----------------------------- MODULE ProviderStreams -----------------------------
(***************************************************************************)
(* The streams of one provider, OpenRouter or the fake one, with the tasks *)
(* that consume them; and the abstract ProviderStream they implement.      *)
(***************************************************************************)
EXTENDS OpenRouterStream, FakeStreams

CONSTANTS
  Scripts,    \* the configurations of stream_deltas considered
  FakeUsages, \* the configurations of stream_usage considered
  FakeErrors  \* the errors a fake provider may be configured with

(* Scripted deltas are numbered from zero, as those of the tests are.      *)
ASSUME ScriptAssumption ==
  /\ Scripts \subseteq Seq(Seq(StreamDelta))
  /\ \A scripts \in Scripts : \A k \in DOMAIN scripts : \A i \in DOMAIN scripts[k] :
       scripts[k][i].delta_index = i - 1
  /\ FakeUsages \subseteq UsageSnapshot \cup {None}
  /\ "none" \notin FakeErrors

VARIABLE provider \* which implementation of Provider the streams belong to

vars == <<provider, clientVars, openRouterVars, fakeStreamsVars>>

Init ==
  /\ ClientInit
  /\ OpenRouterInit
  /\ \/ provider = "openrouter" /\ FakeStreamsInit({<<>>}, {None}, {})
     \/ provider = "fake" /\ FakeStreamsInit(Scripts, FakeUsages, FakeErrors)

Next ==
  \/ /\ provider = "openrouter"
     /\ OpenRouterNext
     /\ UNCHANGED <<provider, fakeStreamsVars>>
  \/ /\ provider = "fake"
     /\ FakeStreamsNext
     /\ UNCHANGED <<provider, openRouterVars>>

Spec == Init /\ [][Next]_vars

--------------------------------------------------------------------------------

Faults == SdkExceptions \cup {"CancelledError"}

FakeStreamObject == [deltas : Seq(StreamDelta), usage : UsageSnapshot \cup {None},
                     error : FakeErrors \cup {"none"}, index : Nat]

(* Type invariant.  A stream is connected exactly when it has its iterator,*)
(* and a pull reads only from a connected stream.                          *)
TypeOK ==
  /\ provider \in {"openrouter", "fake"}
  /\ deltas \in [Streams -> Seq(StreamDelta)]
  /\ outcome \in [Streams -> Outcomes]
  /\ raised \in [Streams -> ProviderErrors \cup Faults \cup FakeErrors \cup {"none"}]
  /\ inner \in [Streams -> {"none", "open", "exhausted", "broken"}]
  /\ snapshot \in [Streams -> UsageSnapshot \cup {None}]
  /\ delta_index \in [Streams -> Nat]
  /\ pull \in [Streams -> {"idle", "connecting", "reading"}]
  /\ sent \in [Streams -> Seq(Chunks)]
  /\ connections \in [Streams -> Nat]
  /\ cause \in [Streams -> Faults \cup {"none"}]
  /\ \A s \in Streams : /\ pull[s] = "connecting" => inner[s] = "none"
                        /\ pull[s] = "reading" => inner[s] # "none"
  /\ responses = <<>> /\ invoke_count = 0
  /\ configured_error \in FakeErrors \cup {"none"}
  /\ stream_deltas \in Scripts \cup {<<>>}
  /\ stream_usage \in UsageSnapshot \cup {None}
  /\ stream_count \in 0 .. Len(stream_deltas)
  /\ fake \in [Streams -> FakeStreamObject \cup {Unopened}]
  /\ opened \in Seq(Streams)

TextsOf(seq) == [i \in DOMAIN seq |-> seq[i].text]

(* The texts of the chunks that have one, in their order.                  *)
Worded(chunks) ==
  FoldLeft(LAMBDA texts, chunk : IF HasText(chunk) THEN Append(texts, chunk.content) ELSE texts,
           <<>>, chunks)

(* The text behind a stream: what the server has sent, or the script due   *)
(* to the stream by the order of the stream() calls.                       *)
Promised(s) ==
  IF provider = "openrouter"
  THEN Worded(sent[s])
  ELSE LET due == {k \in DOMAIN opened \cap DOMAIN stream_deltas : opened[k] = s}
       IN IF due = {} THEN <<>> ELSE TextsOf(stream_deltas[CHOOSE k \in due : TRUE])

(* No text is lost, repeated or reordered on its way to the consumer, and  *)
(* one that saw no exception and was told the end has the whole of it: a   *)
(* truncated answer never passes for a complete one (the two __anext__).   *)
TextIsWhole ==
  \A s \in Streams :
    /\ IsPrefix(TextsOf(deltas[s]), Promised(s))
    /\ outcome[s] = "end" /\ raised[s] = "none" =>
         /\ TextsOf(deltas[s]) = Promised(s)
         /\ provider = "openrouter" => inner[s] = "exhausted"

(* However often a stream is pulled again after a failure, its text comes  *)
(* from one connection, so that an answer is never begun again in the      *)
(* middle (_OpenRouterStream._inner is never reset).  Requests that failed *)
(* before they gave a connection are not counted: one that timed out may   *)
(* have been answered, and the next pull sends it again.                   *)
OneConnection ==
  \A s \in Streams :
    /\ connections[s] <= 1
    /\ sent[s] # <<>> => connections[s] = 1

(* u is the usage of the last of the chunks that told any.                 *)
LastReport(chunks, u) ==
  LET told == {k \in DOMAIN chunks : chunks[k].usage # None}
  IN \/ told = {} /\ u = None
     \/ \E k \in told : /\ \A j \in told : j <= k
                       /\ u = [tokens |-> chunks[k].usage, cost_usd |-> None, is_complete |-> TRUE]

(* usage() is that of the last chunk that told any, wherever it stood among*)
(* the chunks and whatever was skipped or failed after it.                 *)
UsageIsLastReported == \A s \in Streams : LastReport(sent[s], snapshot[s])

(* The last failure below a stream is the last exception the consumer saw. *)
(* One of the SDK's own is told as the domain error its kind calls for: a  *)
(* timeout is not a lost connection, a rejected key is not a server error  *)
(* (the comment on the order of the tests in _translate_error); and no     *)
(* failure, a cancellation included, is told as nothing.  What an error of *)
(* the HTTP library becomes is left to FailuresAreDomainErrors.            *)
FailuresAreTold ==
  \A s \in Streams :
    LET Told(exceptions, error) == cause[s] \in exceptions => raised[s] = error
    IN /\ Told({"APITimeoutError"}, Timeout)
       /\ Told({"AuthenticationError", "PermissionDeniedError"}, Refused)
       /\ Told({"APIConnectionError", "RateLimitError"}, Transport)
       /\ Told({"CancelledError"}, "CancelledError")
       /\ cause[s] # "none" => raised[s] # "none"

Promise(s) == INSTANCE ProviderStream WITH
  deltas <- deltas[s],
  usage <- IF outcome[s] # "end" THEN None
           ELSE IF provider = "openrouter" THEN snapshot[s] ELSE fake[s].usage,
  status <- CASE outcome[s] = "end"       -> "consumed"
              [] outcome[s] = "exception" -> "failed"
              [] OTHER                    -> "open",
  Snapshots <- UsageSnapshot,
  NoSnapshot <- None

(* Every stream of either provider implements ProviderStream: the engine   *)
(* can take the one for the other (the docstring of Provider).             *)
ImplementsProviderStream ==
  /\ \A s \in Streams : Promise(s)!StreamInit
  /\ [][\A s \in Streams : [Promise(s)!StreamNext]_(Promise(s)!streamVars)]_vars

--------------------------------------------------------------------------------

(* What the documents say of the streams and the code does not do.         *)

(* A failure of the network reaches the consumer as a domain error: what   *)
(* is raised is one of the provider's errors or a cancellation, never an   *)
(* exception of the library below.                                         *)
FailuresAreDomainErrors ==
  \A s \in Streams :
    raised[s] \in ProviderErrors \cup FakeErrors \cup {"CancelledError", "none"}
================================================================================
