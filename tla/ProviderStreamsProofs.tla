--------------------------- MODULE ProviderStreamsProofs ---------------------------
(***************************************************************************)
(* Theorems about ProviderStreams, for every set of streams, every set of  *)
(* chunks, every configuration of the fake provider and any number of      *)
(* pulls.                                                                  *)
(***************************************************************************)
EXTENDS ProviderStreams, FoldLemmas, SequenceTheorems, TLAPS

USE NoneAssumption, ChunkAssumption, ScriptAssumption

(* What the SDK counts is what the engine keeps: a snapshot.               *)
LEMMA ExtractedType ==
  ASSUME NEW u \in CompletionUsage \cup {None}
  PROVE  ExtractUsage(u) \in UsageSnapshot \cup {None}
  BY DEF ExtractUsage, CompletionUsage, UsageSnapshot, Optional

LEMMA TranslatedType ==
  ASSUME NEW exc \in SdkExceptions
  PROVE  RaisedFor(exc) \in ProviderErrors \cup Faults
  BY DEF RaisedFor, TranslateError, ProviderErrors, Faults, Timeout, Transport, Refused

(* A chunk with a text has one that a delta may carry.                     *)
LEMMA WordedChunk ==
  ASSUME NEW chunk \in Chunks, HasText(chunk), NEW n \in Nat
  PROVE  chunk.content \in Texts /\ [text |-> chunk.content, delta_index |-> n] \in StreamDelta
  BY DEF HasText, Chunk, StreamDelta

(* A fake stream moves on by one delta.                                    *)
LEMMA AdvancedType ==
  ASSUME NEW f \in FakeStreamObject
  PROVE  [f EXCEPT !.index = @ + 1] \in FakeStreamObject
  <1>1. f = [deltas |-> f.deltas, usage |-> f.usage, error |-> f.error, index |-> f.index]
    BY DEF FakeStreamObject
  <1>2. [f EXCEPT !.index = @ + 1] =
          [deltas |-> f.deltas, usage |-> f.usage, error |-> f.error, index |-> f.index + 1]
    BY <1>1
  <1> QED BY <1>2 DEF FakeStreamObject

--------------------------------------------------------------------------------

USE DEF vars, clientVars, openRouterVars, streamStateVars, historyVars, fakeStreamsVars,
        fakeProviderVars

LEMMA TypeInit == Init => TypeOK
  <1> SUFFICES ASSUME Init PROVE TypeOK
    OBVIOUS
  <1> USE DEF Init, ClientInit, OpenRouterInit, FakeStreamsInit, FakeProviderInit
  <1>1. /\ deltas \in [Streams -> Seq(StreamDelta)]
        /\ sent \in [Streams -> Seq(Chunks)]
        /\ opened \in Seq(Streams)
    <2>1. \A S : <<>> \in Seq(S)
      BY EmptySeq
    <2> QED BY <2>1, Zenon
  <1>2. fake \in [Streams -> FakeStreamObject \cup {Unopened}]
    BY Zenon
  <1>3. stream_usage \in UsageSnapshot \cup {None} /\ stream_deltas \in Scripts \cup {<<>>}
    OBVIOUS
  <1>4. stream_count \in 0 .. Len(stream_deltas)
    OBVIOUS
  <1> QED BY <1>1, <1>2, <1>3, <1>4 DEF TypeOK, Outcomes

(* Every action keeps the types of the variables it changes.               *)
LEMMA TypePullStep ==
  ASSUME TypeOK, NEW s \in Streams, UNCHANGED <<provider, fakeStreamsVars>>,
         Pull(s) \/ Connects(s) \/ EndsPull(s) \/ CancelsPull(s)
  PROVE  TypeOK'
  <1> USE DEF TypeOK
  <1>1. CASE Pull(s)
    BY <1>1 DEF Pull, Await
  <1>2. CASE Connects(s)
    BY <1>2 DEF Connects, Await
  <1>3. CASE EndsPull(s)
    BY <1>3 DEF EndsPull, Ends, Await, Outcomes
  <1>4. CASE CancelsPull(s)
    BY <1>4 DEF CancelsPull, Raises, Await, Outcomes, Faults
  <1> QED BY <1>1, <1>2, <1>3, <1>4

LEMMA TypeChunkStep ==
  ASSUME TypeOK, NEW s \in Streams, UNCHANGED <<provider, fakeStreamsVars>>,
         NEW chunk \in Chunks, SkipsChunk(s, chunk) \/ DeliversChunk(s, chunk)
  PROVE  TypeOK'
  <1> USE DEF TypeOK
  <1>1. ExtractUsage(chunk.usage) \in UsageSnapshot \cup {None}
    BY ExtractedType DEF Chunk
  <1>2. ASSUME ReadsChunk(s, chunk)
        PROVE  /\ sent' \in [Streams -> Seq(Chunks)]
               /\ snapshot' \in [Streams -> UsageSnapshot \cup {None}]
    <2>1. Append(sent[s], chunk) \in Seq(Chunks)
      BY AppendProperties
    <2> QED BY <1>1, <1>2, <2>1 DEF ReadsChunk
  <1>3. CASE SkipsChunk(s, chunk)
    BY <1>2, <1>3 DEF SkipsChunk, ReadsChunk
  <1>4. CASE DeliversChunk(s, chunk)
    <2>1. [text |-> chunk.content, delta_index |-> delta_index[s]] \in StreamDelta
      BY <1>4, WordedChunk DEF DeliversChunk
    <2>2. deltas' \in [Streams -> Seq(StreamDelta)]
      BY <1>4, <2>1, AppendProperties DEF DeliversChunk, Given
    <2> QED BY <1>2, <1>4, <2>2, SMTT(20) DEF DeliversChunk, ReadsChunk, Given, Await, Outcomes
  <1> QED BY <1>3, <1>4

LEMMA TypeFaultStep ==
  ASSUME TypeOK, NEW s \in Streams, UNCHANGED <<provider, fakeStreamsVars>>,
         NEW exc \in SdkExceptions, FailsToConnect(s, exc) \/ Breaks(s, exc)
  PROVE  TypeOK'
  <1> USE DEF TypeOK
  <1>1. RaisedFor(exc) \in ProviderErrors \cup Faults /\ exc \in Faults
    BY TranslatedType DEF Faults
  <1>2. CASE FailsToConnect(s, exc)
    BY <1>1, <1>2 DEF FailsToConnect, Raises, Await, Outcomes
  <1>3. CASE Breaks(s, exc)
    BY <1>1, <1>3 DEF Breaks, Raises, Await, Outcomes
  <1> QED BY <1>2, <1>3

LEMMA TypeFakeStep ==
  ASSUME TypeOK, UNCHANGED <<provider, openRouterVars>>, NEW s \in Streams,
         OpensStream(s) \/ PullRaises(s) \/ PullDelivers(s) \/ PullEnds(s)
  PROVE  TypeOK'
  <1> USE DEF TypeOK
  <1>1. CASE OpensStream(s)
    <2>1. stream_deltas \in Seq(Seq(StreamDelta))
      <3>1. <<>> \in Seq(Seq(StreamDelta))
        BY EmptySeq
      <3> QED BY <3>1, Zenon
    <2> DEFINE scripted == configured_error = "none" /\ stream_count < Len(stream_deltas)
               made == CASE configured_error # "none" -> FakeStream(<<>>, None, configured_error)
                         [] scripted -> FakeStream(stream_deltas[stream_count + 1], stream_usage, "none")
                         [] OTHER    -> FakeStream(<<>>, stream_usage, "none")
    <2>2. scripted => stream_deltas[stream_count + 1] \in Seq(StreamDelta)
      BY <2>1
    <2>3. made \in FakeStreamObject
      BY <2>2, EmptySeq DEF FakeStream, FakeStreamObject
    <2>4. fake' = [fake EXCEPT ![s] = made]
      BY <1>1 DEF OpensStream
    <2>5. fake' \in [Streams -> FakeStreamObject \cup {Unopened}]
      BY <2>3, <2>4
    <2>6. opened' \in Seq(Streams) /\ stream_count' \in 0 .. Len(stream_deltas')
      BY <1>1, <2>1, AppendProperties DEF OpensStream
    <2> HIDE DEF made
    <2> QED BY <1>1, <2>5, <2>6 DEF OpensStream
  <1>2. CASE PullRaises(s)
    BY <1>2 DEF PullRaises, Raises, Outcomes, FakeStreamObject, Unopened
  <1>3. CASE PullDelivers(s)
    <2>1. /\ fake[s] \in FakeStreamObject /\ fake[s] # Unopened
          /\ fake[s].error = "none" /\ fake[s].index < Len(fake[s].deltas)
      BY <1>3 DEF PullDelivers, Unread
    <2>2. fake[s].index \in Nat
      BY <2>1 DEF FakeStreamObject
    <2>3. fake[s].deltas[fake[s].index + 1] \in StreamDelta
      BY <2>1, <2>2 DEF FakeStreamObject
    <2> DEFINE delta == fake[s].deltas[fake[s].index + 1]
               given == [text |-> delta.text, delta_index |-> delta.delta_index]
    <2>4. deltas' \in [Streams -> Seq(StreamDelta)]
      <3>1. given \in StreamDelta
        BY <2>3 DEF StreamDelta
      <3>2. Append(deltas[s], given) \in Seq(StreamDelta)
        BY <3>1, AppendProperties
      <3>3. deltas' = [deltas EXCEPT ![s] = Append(deltas[s], given)]
        BY <1>3 DEF PullDelivers, Given
      <3> QED BY <3>2, <3>3
    <2>5. fake' \in [Streams -> FakeStreamObject \cup {Unopened}]
      <3> DEFINE advanced == [fake[s] EXCEPT !.index = @ + 1]
      <3>1. advanced \in FakeStreamObject
        BY <2>1, AdvancedType
      <3>2. fake' = [fake EXCEPT ![s] = advanced]
        BY <1>3 DEF PullDelivers
      <3> HIDE DEF advanced
      <3> QED BY <3>1, <3>2
    <2> QED BY <1>3, <2>4, <2>5 DEF PullDelivers, Given, Outcomes
  <1>4. CASE PullEnds(s)
    BY <1>4 DEF PullEnds, Ends, Outcomes
  <1> QED BY <1>1, <1>2, <1>3, <1>4

LEMMA TypeStep == TypeOK /\ [Next]_vars => TypeOK'
  <1> SUFFICES ASSUME TypeOK, [Next]_vars PROVE TypeOK'
    OBVIOUS
  <1>1. CASE OpenRouterNext /\ UNCHANGED <<provider, fakeStreamsVars>>
    <2>1. RequestErrors \subseteq SdkExceptions
      BY DEF RequestErrors
    <2> QED BY <1>1, <2>1, TypePullStep, TypeChunkStep, TypeFaultStep, Zenon DEF OpenRouterNext
  <1>2. CASE FakeStreamsNext /\ UNCHANGED <<provider, openRouterVars>>
    BY <1>2, TypeFakeStep, Zenon DEF FakeStreamsNext
  <1>3. CASE UNCHANGED vars
    BY <1>3 DEF TypeOK
  <1> QED BY <1>1, <1>2, <1>3, Zenon DEF Next

(* Every variable of the streams keeps its type, whatever the server sends *)
(* and whenever a pull fails or is given up (_OpenRouterStream, FakeStream)*)
THEOREM StreamsTypeCorrect == Spec => []TypeOK
  BY TypeInit, TypeStep, PTL DEF Spec

--------------------------------------------------------------------------------

(* A stream that never connected has read nothing; one that has is         *)
(* connected for good.                                                     *)
ConnectionInv ==
  \A s \in Streams :
    IF inner[s] = "none" THEN connections[s] = 0 /\ sent[s] = <<>> ELSE connections[s] = 1

LEMMA ConnectionInit == Init => ConnectionInv
  BY DEF Init, OpenRouterInit, ConnectionInv

LEMMA ConnectionStep == TypeOK /\ ConnectionInv /\ [Next]_vars => ConnectionInv'
  <1> SUFFICES ASSUME TypeOK, ConnectionInv, [Next]_vars PROVE ConnectionInv'
    OBVIOUS
  <1> USE DEF TypeOK, ConnectionInv
  <1>1. ASSUME NEW s \in Streams, Pull(s) \/ Connects(s) \/ EndsPull(s) \/ CancelsPull(s)
        PROVE  ConnectionInv'
    <2>1. CASE Pull(s)
      BY <2>1 DEF Pull
    <2>2. CASE Connects(s)
      <3>1. /\ inner' = [inner EXCEPT ![s] = "open"]
            /\ connections' = [connections EXCEPT ![s] = @ + 1]
            /\ sent' = sent /\ inner[s] = "none"
        BY <2>2 DEF Connects
      <3>2. inner'[s] = "open" /\ connections'[s] = 1
        BY <3>1
      <3>3. \A r \in Streams \ {s} : inner'[r] = inner[r] /\ connections'[r] = connections[r]
        BY <3>1
      <3> QED BY <3>1, <3>2, <3>3
    <2>3. CASE EndsPull(s)
      BY <2>3 DEF EndsPull
    <2>4. CASE CancelsPull(s)
      BY <2>4 DEF CancelsPull
    <2> QED BY <1>1, <2>1, <2>2, <2>3, <2>4
  <1>2. ASSUME NEW s \in Streams, NEW chunk \in Chunks,
               SkipsChunk(s, chunk) \/ DeliversChunk(s, chunk)
        PROVE  ConnectionInv'
    <2>1. CASE SkipsChunk(s, chunk)
      BY <2>1 DEF SkipsChunk, ReadsChunk
    <2>2. CASE DeliversChunk(s, chunk)
      BY <2>2 DEF DeliversChunk, ReadsChunk
    <2> QED BY <1>2, <2>1, <2>2
  <1>3. ASSUME NEW s \in Streams, NEW exc \in SdkExceptions,
               FailsToConnect(s, exc) \/ Breaks(s, exc)
        PROVE  ConnectionInv'
    <2>1. CASE FailsToConnect(s, exc)
      BY <2>1 DEF FailsToConnect
    <2>2. CASE Breaks(s, exc)
      BY <2>2 DEF Breaks
    <2> QED BY <1>3, <2>1, <2>2
  <1>4. CASE OpenRouterNext
    BY <1>1, <1>2, <1>3, <1>4, Zenon DEF OpenRouterNext, RequestErrors
  <1>5. CASE UNCHANGED openRouterVars
    BY <1>5
  <1> QED BY <1>4, <1>5 DEF Next

(* A stream makes one connection at most, however often it is pulled again *)
(* after a failure (_OpenRouterStream._inner).                             *)
THEOREM OneConnectionHolds == Spec => []OneConnection
  <1>1. TypeOK /\ ConnectionInv => OneConnection
    BY DEF TypeOK, ConnectionInv, OneConnection
  <1> QED BY <1>1, TypeInit, TypeStep, ConnectionInit, ConnectionStep, PTL DEF Spec

--------------------------------------------------------------------------------

LEMMA ToldInit == Init => FailuresAreTold
  BY DEF Init, OpenRouterInit, FailuresAreTold

(* What the translation makes of each exception of the SDK is what it calls*)
(* for; one of the library below passes through as it is.                  *)
LEMMA TranslationIsRight ==
  ASSUME NEW exc \in SdkExceptions
  PROVE  RaisedFor(exc) =
           CASE exc = "APITimeoutError" -> Timeout
             [] exc \in {"AuthenticationError", "PermissionDeniedError"} -> Refused
             [] exc \in {"APIConnectionError", "RateLimitError"} -> Transport
             [] OTHER -> exc
  <1>1. exc \in {"APITimeoutError", "APIConnectionError", "AuthenticationError",
                 "PermissionDeniedError", "RateLimitError", "HTTPError"}
    BY DEF SdkExceptions, Classes
  <1>2. CASE exc = "APITimeoutError"
    BY <1>2 DEF RaisedFor, TranslateError, Classes, Timeout, Transport, Refused
  <1>3. CASE exc = "APIConnectionError"
    BY <1>3 DEF RaisedFor, TranslateError, Classes, Timeout, Transport, Refused
  <1>4. CASE exc = "AuthenticationError"
    BY <1>4 DEF RaisedFor, TranslateError, Classes, Timeout, Transport, Refused
  <1>5. CASE exc = "PermissionDeniedError"
    BY <1>5 DEF RaisedFor, TranslateError, Classes, Timeout, Transport, Refused
  <1>6. CASE exc = "RateLimitError"
    BY <1>6 DEF RaisedFor, TranslateError, Classes, Timeout, Transport, Refused
  <1>7. CASE exc = "HTTPError"
    BY <1>7 DEF RaisedFor, TranslateError, Classes, Timeout, Transport, Refused
  <1> QED BY <1>1, <1>2, <1>3, <1>4, <1>5, <1>6, <1>7

LEMMA ToldStep == TypeOK /\ FailuresAreTold /\ provider = "openrouter" /\ OpenRouterNext
                    => FailuresAreTold'
  <1> SUFFICES ASSUME TypeOK, FailuresAreTold, OpenRouterNext PROVE FailuresAreTold'
    OBVIOUS
  <1> USE DEF TypeOK, FailuresAreTold
  <1>1. ASSUME NEW s \in Streams, Pull(s) \/ Connects(s) \/ EndsPull(s)
        PROVE  FailuresAreTold'
    BY <1>1 DEF Pull, Connects, EndsPull, Ends
  <1>2. ASSUME NEW s \in Streams, CancelsPull(s)
        PROVE  FailuresAreTold'
    BY <1>2 DEF CancelsPull, Raises
  <1>3. ASSUME NEW s \in Streams, NEW chunk \in Chunks,
               SkipsChunk(s, chunk) \/ DeliversChunk(s, chunk)
        PROVE  FailuresAreTold'
    BY <1>3 DEF SkipsChunk, DeliversChunk, ReadsChunk, Given
  <1>4. ASSUME NEW s \in Streams, NEW exc \in SdkExceptions,
               FailsToConnect(s, exc) \/ Breaks(s, exc)
        PROVE  FailuresAreTold'
    <2>1. raised' = [raised EXCEPT ![s] = RaisedFor(exc)] /\ cause' = [cause EXCEPT ![s] = exc]
      BY <1>4 DEF FailsToConnect, Breaks, Raises
    <2>2. exc \in {"APITimeoutError", "APIConnectionError", "AuthenticationError",
                   "PermissionDeniedError", "RateLimitError", "HTTPError"}
      BY DEF SdkExceptions, Classes
    <2> DEFINE to == RaisedFor(exc)
    <2>3. /\ exc = "APITimeoutError" => to = Timeout
          /\ exc \in {"AuthenticationError", "PermissionDeniedError"} => to = Refused
          /\ exc \in {"APIConnectionError", "RateLimitError"} => to = Transport
          /\ exc # "CancelledError" /\ to # "none"
      BY <2>2, TranslationIsRight DEF Timeout, Transport, Refused
    <2> HIDE DEF to
    <2> QED BY <2>1, <2>3 DEF to
  <1> QED BY <1>1, <1>2, <1>3, <1>4, Zenon DEF OpenRouterNext, RequestErrors

(* The streams of a fake provider have no cause to tell.                   *)
CauseInv == provider = "fake" => \A s \in Streams : cause[s] = "none"

LEMMA CauseStep == CauseInv /\ [Next]_vars => CauseInv'
  BY DEF CauseInv, Next

LEMMA ToldFakeStep ==
  CauseInv /\ provider = "fake" /\ UNCHANGED openRouterVars => FailuresAreTold'
  BY DEF CauseInv, FailuresAreTold

(* The last exception a consumer saw is the domain error its last failure  *)
(* calls for, if that was one of the SDK's own or a cancellation, and no   *)
(* failure passes unseen (_translate_error, _connect and __anext__).       *)
THEOREM FailuresAreToldHolds == Spec => []FailuresAreTold
  <1>1. Init => CauseInv
    BY DEF Init, OpenRouterInit, CauseInv
  <1>2. TypeOK /\ CauseInv /\ FailuresAreTold /\ [Next]_vars => FailuresAreTold'
    <2>1. FailuresAreTold /\ UNCHANGED vars => FailuresAreTold'
      BY DEF FailuresAreTold
    <2> QED BY <2>1, ToldStep, ToldFakeStep, Zenon DEF Next
  <1> QED BY <1>1, <1>2, TypeInit, TypeStep, ToldInit, CauseStep, PTL DEF Spec

--------------------------------------------------------------------------------

LEMMA UsageInit == Init => UsageIsLastReported
  BY DEF Init, OpenRouterInit, UsageIsLastReported, LastReport

LEMMA NextReport ==
  ASSUME NEW chunks \in Seq(Chunks), NEW u, LastReport(chunks, u), NEW chunk \in Chunks
  PROVE  LastReport(Append(chunks, chunk),
                    IF chunk.usage # None THEN ExtractUsage(chunk.usage) ELSE u)
  <1> DEFINE n == Len(chunks)
             longer == Append(chunks, chunk)
             told == {k \in DOMAIN longer : longer[k].usage # None}
  <1>1. /\ n \in Nat /\ DOMAIN longer = 1 .. n + 1 /\ DOMAIN chunks = 1 .. n
        /\ longer[n + 1] = chunk
        /\ \A k \in 1 .. n : longer[k] = chunks[k]
    BY AppendProperties
  <1> HIDE DEF n, longer
  <1>2. CASE chunk.usage # None
    <2>1. n + 1 \in told /\ \A j \in told : j <= n + 1
      BY <1>1, <1>2
    <2>2. ExtractUsage(chunk.usage) =
            [tokens |-> longer[n + 1].usage, cost_usd |-> None, is_complete |-> TRUE]
      BY <1>1, <1>2 DEF ExtractUsage
    <2>3. LastReport(longer, ExtractUsage(chunk.usage))
      BY <2>1, <2>2, Zenon DEF LastReport
    <2> QED BY <1>2, <2>3 DEF longer
  <1>3. CASE chunk.usage = None
    <2>1. told = {k \in DOMAIN chunks : chunks[k].usage # None}
      BY <1>1, <1>3
    <2>2. \A k \in told : longer[k] = chunks[k]
      BY <1>1, <2>1
    <2>3. LastReport(longer, u)
      BY <2>1, <2>2 DEF LastReport
    <2> QED BY <1>3, <2>3 DEF longer
  <1> QED BY <1>2, <1>3

LEMMA UsageStep == TypeOK /\ UsageIsLastReported /\ [Next]_vars => UsageIsLastReported'
  <1> SUFFICES ASSUME TypeOK, UsageIsLastReported, [Next]_vars PROVE UsageIsLastReported'
    OBVIOUS
  <1>1. ASSUME NEW s \in Streams, NEW chunk \in Chunks, ReadsChunk(s, chunk)
        PROVE  UsageIsLastReported'
    <2> SUFFICES ASSUME NEW t \in Streams PROVE LastReport(sent'[t], snapshot'[t])
      BY DEF UsageIsLastReported
    <2>1. LastReport(sent[t], snapshot[t]) /\ sent[t] \in Seq(Chunks)
      BY DEF UsageIsLastReported, TypeOK
    <2>2. CASE t # s
      <3>1. sent'[t] = sent[t] /\ snapshot'[t] = snapshot[t]
        BY <1>1, <2>2 DEF ReadsChunk, TypeOK
      <3> QED BY <2>1, <3>1
    <2>3. CASE t = s
      <3>1. /\ sent'[t] = Append(sent[t], chunk)
            /\ snapshot'[t] = IF chunk.usage # None THEN ExtractUsage(chunk.usage)
                              ELSE snapshot[t]
        BY <1>1, <2>3 DEF ReadsChunk, TypeOK
      <3> QED BY <2>1, <3>1, NextReport
    <2> QED BY <2>2, <2>3
  <1>2. CASE UNCHANGED <<sent, snapshot>>
    BY <1>2 DEF UsageIsLastReported
  <1>3. ASSUME NEW s \in Streams,
               \/ Pull(s) \/ Connects(s) \/ EndsPull(s) \/ CancelsPull(s)
               \/ \E exc \in SdkExceptions : FailsToConnect(s, exc) \/ Breaks(s, exc)
        PROVE  UNCHANGED <<sent, snapshot>>
    BY <1>3 DEF Pull, Connects, EndsPull, CancelsPull, FailsToConnect, Breaks
  <1>4. CASE OpenRouterNext
    BY <1>1, <1>2, <1>3, <1>4, Zenon DEF OpenRouterNext, RequestErrors, SkipsChunk, DeliversChunk
  <1>5. CASE UNCHANGED openRouterVars
    BY <1>2, <1>5
  <1> QED BY <1>4, <1>5 DEF Next

(* usage() tells what the last chunk with a usage told, whatever came after*)
(* it (_OpenRouterStream.__anext__).                                       *)
THEOREM UsageIsLastReportedHolds == Spec => []UsageIsLastReported
  BY TypeInit, TypeStep, UsageInit, UsageStep, PTL DEF Spec

--------------------------------------------------------------------------------

(* How far each stream has come, for either provider: the counters agree   *)
(* with what was delivered, and a stream that ended or raised after its    *)
(* first delta is not one that can deliver.                                *)
RealInv(s) ==
  /\ delta_index[s] = Len(deltas[s])
  /\ inner[s] = "none" => deltas[s] = <<>>
  /\ outcome[s] = "end" => inner[s] \notin {"none", "open"}
  /\ outcome[s] = "exception" /\ deltas[s] # <<>> => inner[s] # "open"

FakeInv(s) ==
  IF fake[s] = Unopened THEN deltas[s] = <<>> /\ outcome[s] = "none"
  ELSE /\ fake[s].index = Len(deltas[s])
       /\ \A i \in DOMAIN fake[s].deltas : fake[s].deltas[i].delta_index = i - 1
       /\ outcome[s] = "exception" => fake[s].error # "none"
       /\ outcome[s] = "end" => ~ Unread(s) /\ fake[s].error = "none"

DeliveryInv ==
  \A s \in Streams : IF provider = "openrouter" THEN RealInv(s) ELSE FakeInv(s)

LEMMA DeliveryInit == Init => DeliveryInv
  BY DEF Init, ClientInit, OpenRouterInit, FakeStreamsInit, DeliveryInv, RealInv, FakeInv

LEMMA RealStep ==
  ASSUME TypeOK, NEW s \in Streams, RealInv(s), OpenRouterNext
  PROVE  RealInv(s)'
  <1> USE DEF TypeOK, RealInv
  <1>1. ASSUME NEW t \in Streams, Pull(t) \/ Connects(t)
        PROVE  RealInv(s)'
    BY <1>1 DEF Pull, Connects
  <1>2. ASSUME NEW t \in Streams, EndsPull(t)
        PROVE  RealInv(s)'
    BY <1>2 DEF EndsPull, Ends
  <1>3. ASSUME NEW t \in Streams, CancelsPull(t)
        PROVE  RealInv(s)'
    BY <1>3 DEF CancelsPull, Raises
  <1>4. ASSUME NEW t \in Streams, NEW chunk \in Chunks, SkipsChunk(t, chunk)
        PROVE  RealInv(s)'
    BY <1>4 DEF SkipsChunk, ReadsChunk
  <1>5. ASSUME NEW t \in Streams, NEW chunk \in Chunks, DeliversChunk(t, chunk)
        PROVE  RealInv(s)'
    <2>1. CASE t # s
      BY <1>5, <2>1 DEF DeliversChunk, ReadsChunk, Given
    <2>2. CASE t = s
      <3> DEFINE delta == [text |-> chunk.content, delta_index |-> delta_index[s]]
      <3>1. deltas'[s] = Append(deltas[s], delta) /\ delta \in StreamDelta
        BY <1>5, <2>2, WordedChunk DEF DeliversChunk, Given
      <3>2. Len(deltas'[s]) = Len(deltas[s]) + 1
        BY <3>1, AppendProperties
      <3>3. /\ delta_index'[s] = delta_index[s] + 1 /\ outcome'[s] = "delta"
            /\ inner'[s] = "open"
        BY <1>5, <2>2 DEF DeliversChunk, ReadsChunk, Given
      <3> QED BY <3>2, <3>3
    <2> QED BY <2>1, <2>2
  <1>6. ASSUME NEW t \in Streams, NEW exc \in SdkExceptions,
               FailsToConnect(t, exc) \/ Breaks(t, exc)
        PROVE  RealInv(s)'
    BY <1>6 DEF FailsToConnect, Breaks, Raises
  <1> HIDE DEF TypeOK, RealInv
  <1> QED BY <1>1, <1>2, <1>3, <1>4, <1>5, <1>6, Zenon DEF OpenRouterNext, RequestErrors

(* A script a stream is given is numbered from zero.                       *)
LEMMA OpenedNumbered ==
  ASSUME TypeOK, NEW s \in Streams, OpensStream(s)
  PROVE  /\ fake'[s].index = 0
         /\ fake'[s].deltas = <<>>
              \/ \E k \in DOMAIN stream_deltas : fake'[s].deltas = stream_deltas[k]
         /\ \A i \in DOMAIN fake'[s].deltas : fake'[s].deltas[i].delta_index = i - 1
  <1>1. /\ fake'[s].index = 0
        /\ fake'[s].deltas = <<>>
             \/ /\ stream_count < Len(stream_deltas)
                /\ fake'[s].deltas = stream_deltas[stream_count + 1]
    BY DEF OpensStream, FakeStream, TypeOK
  <1>2. \A scripts \in Scripts \cup {<<>>} : \A k \in 1 .. Len(scripts) :
          k \in DOMAIN scripts
    BY EmptySeq
  <1>3. stream_deltas \in Scripts \cup {<<>>} /\ stream_count \in 0 .. Len(stream_deltas)
    BY DEF TypeOK
  <1>4. stream_count < Len(stream_deltas) => stream_count + 1 \in DOMAIN stream_deltas
    <2>1. Len(stream_deltas) \in Nat
      BY <1>3, EmptySeq, LenProperties
    <2> QED BY <1>2, <1>3, <2>1
  <1> QED BY <1>1, <1>3, <1>4

LEMMA FakeStep ==
  ASSUME TypeOK, NEW s \in Streams, FakeInv(s), FakeStreamsNext
  PROVE  FakeInv(s)'
  <1>1. ASSUME NEW t \in Streams, OpensStream(t)
        PROVE  FakeInv(s)'
    <2>1. UNCHANGED clientVars
      BY <1>1 DEF OpensStream
    <2>2. CASE t # s
      <3>1. fake'[s] = fake[s]
        BY <1>1, <2>2 DEF OpensStream, TypeOK
      <3> QED BY <2>1, <3>1 DEF FakeInv, Unread
    <2>3. CASE t = s
      <3>1. /\ fake'[s].index = 0
            /\ \A i \in DOMAIN fake'[s].deltas : fake'[s].deltas[i].delta_index = i - 1
        BY <1>1, <2>3, OpenedNumbered
      <3>2. deltas[s] = <<>> /\ outcome[s] = "none"
        BY <1>1, <2>3 DEF OpensStream, FakeInv
      <3> QED BY <2>1, <3>1, <3>2 DEF FakeInv, Unopened
    <2> QED BY <2>2, <2>3
  <1>2. ASSUME NEW t \in Streams, PullRaises(t)
        PROVE  FakeInv(s)'
    BY <1>2 DEF PullRaises, Raises, FakeInv, TypeOK, Unopened, Unread
  <1>3. ASSUME NEW t \in Streams, PullDelivers(t)
        PROVE  FakeInv(s)'
    <2>1. CASE t # s
      <3>1. fake'[s] = fake[s] /\ deltas'[s] = deltas[s] /\ outcome'[s] = outcome[s]
        BY <1>3, <2>1 DEF PullDelivers, Given, TypeOK
      <3> QED BY <3>1 DEF FakeInv, Unread
    <2>2. CASE t = s
      <3>1. /\ fake[s] \in FakeStreamObject /\ deltas[s] \in Seq(StreamDelta)
            /\ fake[s].index = Len(deltas[s])
            /\ \A i \in DOMAIN fake[s].deltas : fake[s].deltas[i].delta_index = i - 1
        BY <1>3, <2>2 DEF PullDelivers, FakeInv, TypeOK
      <3>2. /\ fake'[s] = [fake[s] EXCEPT !.index = @ + 1]
            /\ Len(deltas'[s]) = Len(deltas[s]) + 1
            /\ outcome'[s] = "delta"
        BY <1>3, <2>2 DEF PullDelivers, Given, TypeOK
      <3>3. fake'[s].index = fake[s].index + 1 /\ fake'[s].deltas = fake[s].deltas
        BY <3>1, <3>2 DEF FakeStreamObject
      <3>4. fake'[s] # Unopened
        BY <3>1, <3>3 DEF Unopened, FakeStreamObject
      <3> QED BY <3>1, <3>2, <3>3, <3>4 DEF FakeInv
    <2> QED BY <2>1, <2>2
  <1>4. ASSUME NEW t \in Streams, PullEnds(t)
        PROVE  FakeInv(s)'
    BY <1>4 DEF PullEnds, Ends, FakeInv, TypeOK, Unread
  <1> QED BY <1>1, <1>2, <1>3, <1>4, Zenon DEF FakeStreamsNext

LEMMA DeliveryStep == TypeOK /\ DeliveryInv /\ [Next]_vars => DeliveryInv'
  <1> SUFFICES ASSUME TypeOK, DeliveryInv, [Next]_vars, NEW s \in Streams
               PROVE  (IF provider = "openrouter" THEN RealInv(s) ELSE FakeInv(s))'
    BY DEF DeliveryInv
  <1>1. IF provider = "openrouter" THEN RealInv(s) ELSE FakeInv(s)
    BY DEF DeliveryInv
  <1>2. CASE provider = "openrouter" /\ OpenRouterNext /\ UNCHANGED provider
    <2>1. RealInv(s)'
      BY <1>1, <1>2, RealStep
    <2> QED BY <1>2, <2>1
  <1>3. CASE provider = "fake" /\ FakeStreamsNext /\ UNCHANGED provider
    <2>1. FakeInv(s)'
      BY <1>1, <1>3, FakeStep
    <2> QED BY <1>3, <2>1
  <1>4. CASE UNCHANGED vars
    BY <1>1, <1>4 DEF RealInv, FakeInv, Unread
  <1> QED BY <1>2, <1>3, <1>4 DEF Next

--------------------------------------------------------------------------------

LEMMA PromiseInit == Init => \A s \in Streams : Promise(s)!StreamInit
  BY DEF Init, ClientInit, Promise!StreamInit

(* A step that leaves alone what the abstract stream is made of.           *)
LEMMA PromiseStutter ==
  ASSUME NEW s \in Streams, provider' = provider, deltas'[s] = deltas[s],
         outcome'[s] = outcome[s],
         outcome[s] = "end" => snapshot'[s] = snapshot[s] /\ fake'[s].usage = fake[s].usage
  PROVE  UNCHANGED Promise(s)!streamVars
  BY DEF Promise!streamVars

LEMMA PromiseFail ==
  ASSUME NEW s \in Streams, deltas'[s] = deltas[s], outcome[s] # "end",
         outcome'[s] = "exception"
  PROVE  Promise(s)!Fail
  BY DEF Promise!Fail

LEMMA PromiseDeliver ==
  ASSUME NEW s \in Streams, NEW text \in Texts,
         outcome[s] # "end", outcome[s] = "exception" => deltas[s] = <<>>,
         outcome'[s] = "delta",
         deltas'[s] = Append(deltas[s], [text |-> text, delta_index |-> Len(deltas[s])])
  PROVE  Promise(s)!Deliver
  BY DEF Promise!Deliver

LEMMA PromiseFinish ==
  ASSUME NEW s \in Streams, provider' = provider, deltas'[s] = deltas[s],
         outcome[s] # "end", outcome'[s] = "end",
         (IF provider = "openrouter" THEN snapshot'[s] ELSE fake'[s].usage)
           \in UsageSnapshot \cup {None}
  PROVE  Promise(s)!Finish
  BY DEF Promise!Finish

(* A pull of stream t is a step of what stream s promises, or nothing to s.*)
LEMMA RealKeepsPromise ==
  ASSUME TypeOK, NEW s \in Streams, RealInv(s), provider = "openrouter", OpenRouterNext,
         UNCHANGED <<provider, fakeStreamsVars>>
  PROVE  [Promise(s)!StreamNext]_(Promise(s)!streamVars)
  <1> USE DEF TypeOK, RealInv
  <1>1. ASSUME NEW t \in Streams, Pull(t) \/ Connects(t)
        PROVE  UNCHANGED Promise(s)!streamVars
    BY <1>1, PromiseStutter DEF Pull, Connects
  <1>2. ASSUME NEW t \in Streams, EndsPull(t)
        PROVE  Promise(s)!Finish \/ UNCHANGED Promise(s)!streamVars
    <2>1. CASE t # s \/ outcome[s] = "end"
      BY <1>2, <2>1, PromiseStutter DEF EndsPull, Ends
    <2>2. CASE t = s /\ outcome[s] # "end"
      BY <1>2, <2>2, PromiseFinish DEF EndsPull, Ends
    <2> QED BY <2>1, <2>2
  <1>3. ASSUME NEW t \in Streams,
               \/ CancelsPull(t)
               \/ \E exc \in SdkExceptions : FailsToConnect(t, exc) \/ Breaks(t, exc)
        PROVE  Promise(s)!Fail \/ UNCHANGED Promise(s)!streamVars
    <2>1. /\ UNCHANGED <<deltas, snapshot>>
          /\ outcome' = [outcome EXCEPT ![t] = "exception"]
          /\ pull[t] = "connecting" \/ inner[t] = "open"
      BY <1>3 DEF CancelsPull, FailsToConnect, Breaks, Raises
    <2>2. CASE t # s
      BY <2>1, <2>2, PromiseStutter
    <2>3. CASE t = s
      BY <2>1, <2>3, PromiseFail
    <2> QED BY <2>2, <2>3
  <1>4. ASSUME NEW t \in Streams, NEW chunk \in Chunks, SkipsChunk(t, chunk)
        PROVE  UNCHANGED Promise(s)!streamVars
    BY <1>4, PromiseStutter DEF SkipsChunk, ReadsChunk
  <1>5. ASSUME NEW t \in Streams, NEW chunk \in Chunks, DeliversChunk(t, chunk)
        PROVE  Promise(s)!Deliver \/ UNCHANGED Promise(s)!streamVars
    <2>1. CASE t # s
      BY <1>5, <2>1, PromiseStutter DEF DeliversChunk, ReadsChunk, Given
    <2>2. CASE t = s
      <3>1. /\ inner[s] = "open" /\ chunk.content \in Texts
            /\ outcome'[s] = "delta"
            /\ deltas'[s] = Append(deltas[s],
                                   [text |-> chunk.content, delta_index |-> Len(deltas[s])])
        BY <1>5, <2>2, WordedChunk DEF DeliversChunk, ReadsChunk, Given
      <3>2. outcome[s] # "end" /\ (outcome[s] = "exception" => deltas[s] = <<>>)
        BY <3>1
      <3> QED BY <3>1, <3>2, PromiseDeliver
    <2> QED BY <2>1, <2>2
  <1> HIDE DEF TypeOK, RealInv
  <1> QED
    BY <1>1, <1>2, <1>3, <1>4, <1>5, Zenon
    DEF OpenRouterNext, RequestErrors, Promise!StreamNext

LEMMA FakeKeepsPromise ==
  ASSUME TypeOK, NEW s \in Streams, FakeInv(s), provider = "fake", FakeStreamsNext,
         UNCHANGED <<provider, openRouterVars>>
  PROVE  [Promise(s)!StreamNext]_(Promise(s)!streamVars)
  <1>1. ASSUME NEW t \in Streams, OpensStream(t)
        PROVE  UNCHANGED Promise(s)!streamVars
    <2>1. UNCHANGED clientVars /\ fake[t] = Unopened
      BY <1>1 DEF OpensStream
    <2>2. t # s => fake'[s] = fake[s]
      BY <1>1 DEF OpensStream, TypeOK
    <2>3. t = s => outcome[s] # "end"
      BY <2>1 DEF FakeInv
    <2> QED BY <2>1, <2>2, <2>3, PromiseStutter
  <1>2. ASSUME NEW t \in Streams, PullRaises(t)
        PROVE  Promise(s)!Fail \/ UNCHANGED Promise(s)!streamVars
    <2>1. CASE t # s
      BY <1>2, <2>1, PromiseStutter DEF PullRaises, Raises, TypeOK
    <2>2. CASE t = s
      <3>1. outcome[s] # "end" /\ outcome'[s] = "exception" /\ deltas'[s] = deltas[s]
        BY <1>2, <2>2 DEF PullRaises, Raises, TypeOK, FakeInv
      <3> QED BY <3>1, PromiseFail
    <2> QED BY <2>1, <2>2
  <1>3. ASSUME NEW t \in Streams, PullEnds(t)
        PROVE  Promise(s)!Finish \/ UNCHANGED Promise(s)!streamVars
    <2>1. CASE t # s \/ outcome[s] = "end"
      BY <1>3, <2>1, PromiseStutter DEF PullEnds, Ends, TypeOK
    <2>2. CASE t = s /\ outcome[s] # "end"
      <3>1. fake'[s].usage \in UsageSnapshot \cup {None}
        <4>1. fake' = fake /\ fake[s] \in FakeStreamObject
          BY <1>3, <2>2, Zenon DEF PullEnds, TypeOK
        <4> QED BY <4>1 DEF FakeStreamObject
      <3>2. outcome'[s] = "end" /\ deltas'[s] = deltas[s]
        BY <1>3, <2>2 DEF PullEnds, Ends, TypeOK
      <3> QED BY <2>2, <3>1, <3>2, PromiseFinish
    <2> QED BY <2>1, <2>2
  <1>4. ASSUME NEW t \in Streams, PullDelivers(t)
        PROVE  Promise(s)!Deliver \/ UNCHANGED Promise(s)!streamVars
    <2>1. CASE t # s
      BY <1>4, <2>1, PromiseStutter DEF PullDelivers, Given, TypeOK
    <2>2. CASE t = s
      <3> DEFINE delta == fake[s].deltas[fake[s].index + 1]
      <3>1. /\ fake[s] \in FakeStreamObject /\ fake[s].index = Len(deltas[s])
            /\ fake[s].error = "none" /\ fake[s].index < Len(fake[s].deltas)
            /\ \A i \in DOMAIN fake[s].deltas : fake[s].deltas[i].delta_index = i - 1
            /\ outcome[s] # "end" /\ outcome[s] # "exception"
        BY <1>4, <2>2 DEF PullDelivers, Unread, FakeInv, TypeOK
      <3>2. fake[s].index \in Nat /\ fake[s].deltas \in Seq(StreamDelta)
        BY <3>1 DEF FakeStreamObject
      <3>3. delta.text \in Texts /\ delta.delta_index = Len(deltas[s])
        <4>1. fake[s].index + 1 \in DOMAIN fake[s].deltas
          BY <3>1, <3>2
        <4>2. delta \in StreamDelta
          BY <3>2, <4>1
        <4>3. delta.delta_index = fake[s].index + 1 - 1
          BY <3>1, <4>1
        <4> QED BY <3>1, <3>2, <4>2, <4>3 DEF StreamDelta
      <3>4. /\ outcome'[s] = "delta"
            /\ deltas'[s] = Append(deltas[s],
                                   [text |-> delta.text, delta_index |-> delta.delta_index])
        BY <1>4, <2>2 DEF PullDelivers, Given, TypeOK
      <3> HIDE DEF delta
      <3> QED BY <3>1, <3>3, <3>4, PromiseDeliver
    <2> QED BY <2>1, <2>2
  <1> QED
    BY <1>1, <1>2, <1>3, <1>4, Zenon DEF FakeStreamsNext, Promise!StreamNext

LEMMA PromiseKept ==
  TypeOK /\ DeliveryInv /\ [Next]_vars
    => \A s \in Streams : [Promise(s)!StreamNext]_(Promise(s)!streamVars)
  <1> SUFFICES ASSUME TypeOK, DeliveryInv, [Next]_vars, NEW s \in Streams
               PROVE  [Promise(s)!StreamNext]_(Promise(s)!streamVars)
    OBVIOUS
  <1>1. CASE /\ provider = "openrouter" /\ OpenRouterNext
             /\ UNCHANGED <<provider, fakeStreamsVars>>
    <2>1. RealInv(s)
      BY <1>1 DEF DeliveryInv
    <2> QED BY <1>1, <2>1, RealKeepsPromise
  <1>2. CASE /\ provider = "fake" /\ FakeStreamsNext
             /\ UNCHANGED <<provider, openRouterVars>>
    <2>1. FakeInv(s)
      BY <1>2 DEF DeliveryInv
    <2> QED BY <1>2, <2>1, FakeKeepsPromise
  <1>3. CASE UNCHANGED vars
    BY <1>3, PromiseStutter
  <1> QED BY <1>1, <1>2, <1>3, Zenon DEF Next

(* Every stream of either provider is a ProviderStream: whatever consumes  *)
(* the abstract stream correctly consumes theirs (the docstring of         *)
(* Provider in providers/base.py).                                         *)
THEOREM StreamsImplement == Spec => ImplementsProviderStream
  <1>1. TypeOK /\ DeliveryInv /\ [Next]_vars
          => [\A s \in Streams : [Promise(s)!StreamNext]_(Promise(s)!streamVars)]_vars
    BY PromiseKept
  <1> QED
    BY <1>1, PromiseInit, TypeInit, TypeStep, DeliveryInit, DeliveryStep, PTL
    DEF Spec, ImplementsProviderStream

--------------------------------------------------------------------------------

(* One step of the fold that Worded is, and the whole of it over the       *)
(* prefixes of a sequence.                                                 *)
Heard(chunk, texts) == IF HasText(chunk) THEN Append(texts, chunk.content) ELSE texts

Folds(g, n, chunks) ==
  g = [T \in SUBSET (1 .. n) |-> IF T = {} THEN <<>> ELSE Heard(chunks[Max(T)], g[T \ {Max(T)}])]

(* Max is the greatest element of a non-empty set of positions.            *)
LEMMA LastPosition ==
  ASSUME NEW n \in Nat, NEW T \in SUBSET (1 .. n), T # {}
  PROVE  Max(T) \in T /\ \A k \in T : k <= Max(T)
  <1> DEFINE S == 1 .. n
  <1>1. S \in SUBSET Int
    OBVIOUS
  <1>2. IsFiniteSet(S)
    BY FS_Interval
  <1>3. T \in SUBSET S
    OBVIOUS
  <1> HIDE DEF S
  <1> QED BY <1>1, <1>2, <1>3, MaxIsMember

LEMMA FoldIsUnique ==
  ASSUME NEW n \in Nat, NEW chunks, NEW g, NEW h, Folds(g, n, chunks), Folds(h, n, chunks)
  PROVE  g[1 .. n] = h[1 .. n]
  <1> DEFINE P == {T \in SUBSET (1 .. n) : g[T] = h[T]}
  <1>1. ASSUME NEW T \in SUBSET (1 .. n), \A k \in T : T \ {k} \in P
        PROVE  T \in P
    <2>1. CASE T = {}
      <3>1. g[T] = <<>> /\ h[T] = <<>>
        BY <2>1 DEF Folds
      <3> QED BY <3>1
    <2>2. CASE T # {}
      <3>1. g[T \ {Max(T)}] = h[T \ {Max(T)}]
        BY <1>1, <2>2, LastPosition
      <3>2. /\ g[T] = Heard(chunks[Max(T)], g[T \ {Max(T)}])
            /\ h[T] = Heard(chunks[Max(T)], h[T \ {Max(T)}])
        BY <2>2, Zenon DEF Folds
      <3> QED BY <3>1, <3>2
    <2> QED BY <2>1, <2>2
  <1>2. IsFiniteSet(1 .. n)
    BY FS_Interval
  <1>3. SUBSET (1 .. n) \subseteq P
    <2> DEFINE S == 1 .. n
    <2> HIDE DEF P, S
    <2>1. \A T \in SUBSET S : (\A k \in T : T \ {k} \in P) => T \in P
      BY <1>1 DEF S
    <2>2. IsFiniteSet(S)
      BY <1>2 DEF S
    <2>3. SUBSET S \subseteq P
      BY <2>1, <2>2, SubsetInduction
    <2> QED BY <2>3 DEF S
  <1> QED BY <1>3 DEF P

(* The fold over a sequence goes on from the fold over all but its last.   *)
Longer(g, n, chunk) ==
  [T \in SUBSET (1 .. n + 1) |-> IF n + 1 \in T THEN Heard(chunk, g[T \ {n + 1}]) ELSE g[T]]

LEMMA FoldGoesOn ==
  ASSUME NEW n \in Nat, NEW chunks, NEW longer, NEW chunk, NEW g, Folds(g, n, chunks),
         \A k \in 1 .. n : longer[k] = chunks[k], longer[n + 1] = chunk
  PROVE  Folds(Longer(g, n, chunk), n + 1, longer)
  <1> DEFINE h == Longer(g, n, chunk)
  <1>1. ASSUME NEW T \in SUBSET (1 .. n + 1)
        PROVE  h[T] = IF T = {} THEN <<>> ELSE Heard(longer[Max(T)], h[T \ {Max(T)}])
    <2>1. CASE n + 1 \in T
      <3>1. Max(T) = n + 1
        <4>1. n + 1 \in Nat /\ T # {}
          BY <2>1
        <4>2. Max(T) \in T /\ \A k \in T : k <= Max(T)
          BY <4>1, LastPosition
        <4>3. Max(T) \in 1 .. n + 1 /\ n + 1 <= Max(T)
          BY <2>1, <4>2
        <4> QED BY <4>3
      <3>2. h[T] = Heard(chunk, g[T \ {n + 1}])
        BY <2>1, Zenon DEF Longer
      <3>3. h[T \ {n + 1}] = g[T \ {n + 1}]
        <4>1. T \ {n + 1} \in SUBSET (1 .. n + 1) /\ n + 1 \notin T \ {n + 1}
          OBVIOUS
        <4> QED BY <4>1, Zenon DEF Longer
      <3> HIDE DEF h
      <3> QED BY <2>1, <3>1, <3>2, <3>3
    <2>2. CASE n + 1 \notin T /\ T # {}
      <3>1. T \in SUBSET (1 .. n)
        BY <2>2
      <3>2. Max(T) \in 1 .. n /\ T \ {Max(T)} \in SUBSET (1 .. n)
        BY <2>2, <3>1, LastPosition
      <3>3. g[T] = Heard(chunks[Max(T)], g[T \ {Max(T)}])
        BY <2>2, <3>1, Zenon DEF Folds
      <3>4. h[T] = g[T]
        BY <2>2, Zenon DEF Longer
      <3>5. h[T \ {Max(T)}] = g[T \ {Max(T)}]
        <4>1. T \ {Max(T)} \in SUBSET (1 .. n + 1) /\ n + 1 \notin T \ {Max(T)}
          BY <2>2
        <4> QED BY <4>1, Zenon DEF Longer
      <3> HIDE DEF h
      <3> QED BY <2>2, <3>2, <3>3, <3>4, <3>5
    <2>3. CASE T = {}
      <3>1. g[{}] = <<>>
        BY Zenon DEF Folds
      <3>2. h[{}] = g[{}]
        BY DEF Longer
      <3> HIDE DEF h
      <3> QED BY <2>3, <3>1, <3>2
    <2> QED BY <2>1, <2>2, <2>3
  <1>2. h = [T \in SUBSET (1 .. n + 1) |-> h[T]]
    BY Zenon DEF Longer
  <1> HIDE DEF h
  <1>3. Folds(h, n + 1, longer)
    BY <1>1, <1>2, Zenon DEF Folds
  <1> QED BY <1>3 DEF h

LEMMA FoldExists ==
  ASSUME NEW chunks \in Seq(Chunks)
  PROVE  \E g : Folds(g, Len(chunks), chunks)
  <1> DEFINE P == {seq \in Seq(Chunks) : \E g : Folds(g, Len(seq), seq)}
  <1>1. <<>> \in P
    <2>1. <<>> \in Seq(Chunks) /\ Len(<<>>) = 0 /\ 1 .. 0 = {}
      BY EmptySeq
    <2> DEFINE g == [T \in SUBSET {} |-> <<>>]
    <2>2. \A T \in SUBSET {} : T = {}
      OBVIOUS
    <2>3. Folds(g, 0, <<>>)
      BY <2>1, <2>2 DEF Folds
    <2> QED BY <2>1, <2>3
  <1>2. ASSUME NEW seq \in Seq(Chunks), NEW chunk \in Chunks, seq \in P
        PROVE  Append(seq, chunk) \in P
    <2> DEFINE longer == Append(seq, chunk)
    <2>1. PICK g : Folds(g, Len(seq), seq)
      BY <1>2
    <2>2. /\ Len(seq) \in Nat /\ longer \in Seq(Chunks) /\ Len(longer) = Len(seq) + 1
          /\ \A k \in 1 .. Len(seq) : longer[k] = seq[k]
          /\ longer[Len(seq) + 1] = chunk
      BY AppendProperties, LenProperties
    <2> HIDE DEF longer
    <2>3. Folds(Longer(g, Len(seq), chunk), Len(longer), longer)
      BY <2>1, <2>2, FoldGoesOn
    <2> QED BY <2>2, <2>3 DEF longer
  <1> HIDE DEF P
  <1>3. Seq(Chunks) \subseteq P
    BY <1>1, <1>2, SeqSetInduction
  <1> QED BY <1>3 DEF P

LEMMA WordedIsFold ==
  ASSUME NEW chunks \in Seq(Chunks), NEW g, Folds(g, Len(chunks), chunks)
  PROVE  Worded(chunks) = g[1 .. Len(chunks)]
  <1> DEFINE fold == CHOOSE h : Folds(h, Len(chunks), chunks)
  <1>1. DOMAIN chunks = 1 .. Len(chunks) /\ Len(chunks) \in Nat
    BY LenProperties
  <1>2. Worded(chunks) = fold[1 .. Len(chunks)]
    BY <1>1 DEF Worded, FoldLeft, MapThenFoldSet, Folds, Heard
  <1>3. Folds(fold, Len(chunks), chunks)
    OBVIOUS
  <1> HIDE DEF fold
  <1> QED BY <1>1, <1>2, <1>3, FoldIsUnique

(* What Worded makes of a sequence of chunks, one chunk at a time.         *)
LEMMA WordedGrows ==
  /\ Worded(<<>>) = <<>>
  /\ \A chunks \in Seq(Chunks), chunk \in Chunks :
       Worded(Append(chunks, chunk)) = Heard(chunk, Worded(chunks))
  <1>1. Worded(<<>>) = <<>>
    <2>1. <<>> \in Seq(Chunks) /\ Len(<<>>) = 0 /\ 1 .. 0 = {}
      BY EmptySeq
    <2>2. PICK g : Folds(g, 0, <<>>)
      BY <2>1, FoldExists
    <2>3. g[{}] = <<>>
      BY <2>2, Zenon DEF Folds
    <2> QED BY <2>1, <2>2, <2>3, WordedIsFold
  <1>2. ASSUME NEW chunks \in Seq(Chunks), NEW chunk \in Chunks
        PROVE  Worded(Append(chunks, chunk)) = Heard(chunk, Worded(chunks))
    <2> DEFINE n == Len(chunks)
               longer == Append(chunks, chunk)
    <2>1. /\ n \in Nat /\ longer \in Seq(Chunks) /\ Len(longer) = n + 1
          /\ \A k \in 1 .. n : longer[k] = chunks[k]
          /\ longer[n + 1] = chunk
      BY AppendProperties, LenProperties
    <2>2. PICK g : Folds(g, n, chunks)
      BY FoldExists
    <2> HIDE DEF longer
    <2>3. Worded(chunks) = g[1 .. n]
      BY <2>2, WordedIsFold
    <2>4. Folds(Longer(g, n, chunk), n + 1, longer)
      <3> HIDE DEF n
      <3> QED BY <2>1, <2>2, FoldGoesOn
    <2>5. Worded(longer) = Longer(g, n, chunk)[1 .. n + 1]
      <3> HIDE DEF n
      <3> QED BY <2>1, <2>4, WordedIsFold
    <2>6. Longer(g, n, chunk)[1 .. n + 1] = Heard(chunk, g[1 .. n])
      <3> HIDE DEF n
      <3>1. (1 .. n + 1) \ {n + 1} = 1 .. n /\ n + 1 \in 1 .. n + 1
        BY <2>1
      <3>2. Longer(g, n, chunk)[1 .. n + 1] = Heard(chunk, g[(1 .. n + 1) \ {n + 1}])
        BY <3>1, Zenon DEF Longer
      <3> QED BY <3>1, <3>2
    <2> QED BY <2>3, <2>5, <2>6 DEF longer
  <1> QED BY <1>1, <1>2

--------------------------------------------------------------------------------

LEMMA TextsOfProperties ==
  ASSUME NEW seq \in Seq(StreamDelta)
  PROVE  /\ TextsOf(seq) \in Seq(Texts) /\ Len(TextsOf(seq)) = Len(seq) /\ Len(seq) \in Nat
         /\ \A i \in 1 .. Len(seq) : TextsOf(seq)[i] = seq[i].text
         /\ \A delta \in StreamDelta :
              TextsOf(Append(seq, delta)) = Append(TextsOf(seq), delta.text)
  <1>1. DOMAIN seq = 1 .. Len(seq) /\ Len(seq) \in Nat
    BY LenProperties
  <1>2. TextsOf(seq) \in Seq(Texts) /\ Len(TextsOf(seq)) = Len(seq)
    <2>1. TextsOf(seq) \in [1 .. Len(seq) -> Texts]
      <3>1. \A i \in 1 .. Len(seq) : seq[i] \in StreamDelta
        BY ElementOfSeq
      <3>2. \A delta \in StreamDelta : delta.text \in Texts
        BY DEF StreamDelta
      <3> QED BY <1>1, <3>1, <3>2 DEF TextsOf
    <2> QED BY <1>1, <2>1, SMT
  <1>3. \A i \in 1 .. Len(seq) : TextsOf(seq)[i] = seq[i].text
    BY <1>1 DEF TextsOf
  <1>4. ASSUME NEW delta \in StreamDelta
        PROVE  TextsOf(Append(seq, delta)) = Append(TextsOf(seq), delta.text)
    <2> DEFINE n == Len(seq)
               longer == Append(seq, delta)
               more == Append(TextsOf(seq), delta.text)
    <2>1. delta.text \in Texts
      BY DEF StreamDelta
    <2>2. /\ longer \in Seq(StreamDelta) /\ Len(longer) = n + 1
          /\ \A i \in 1 .. n : longer[i] = seq[i]
          /\ longer[n + 1] = delta
      BY AppendProperties
    <2>3. /\ more \in Seq(Texts) /\ Len(more) = n + 1
          /\ \A i \in 1 .. n : more[i] = TextsOf(seq)[i]
          /\ more[n + 1] = delta.text
      BY <1>2, <2>1, AppendProperties
    <2> HIDE DEF longer, more
    <2>4. DOMAIN longer = 1 .. n + 1 /\ DOMAIN more = 1 .. n + 1
      BY <2>2, <2>3, LenProperties
    <2>5. \A i \in 1 .. n + 1 : more[i] = longer[i].text
      <3>1. \A i \in 1 .. n + 1 : i \in 1 .. n \/ i = n + 1
        BY <1>1
      <3> QED BY <1>3, <2>2, <2>3, <3>1
    <2>6. TextsOf(longer) = [i \in 1 .. n + 1 |-> longer[i].text]
      BY <2>4 DEF TextsOf
    <2>7. more = [i \in 1 .. n + 1 |-> more[i]]
      BY <2>3, <2>4
    <2> QED BY <2>5, <2>6, <2>7 DEF longer, more
  <1> QED BY <1>1, <1>2, <1>3, <1>4

LEMMA PrefixByPosition ==
  ASSUME NEW a \in Seq(Texts), NEW b \in Seq(Texts), Len(a) <= Len(b),
         \A i \in 1 .. Len(a) : a[i] = b[i]
  PROVE  IsPrefix(a, b) /\ (Len(a) = Len(b) => a = b)
  <1>1. Len(a) \in Nat /\ Len(b) \in Nat
    BY LenProperties
  <1>2. \A i \in 1 .. Len(a) : a[i] \in Texts /\ b[i] \in Texts
    <2>1. \A i \in 1 .. Len(a) : i \in 1 .. Len(b)
      BY <1>1
    <2> QED BY <2>1, ElementOfSeq
  <1> DEFINE n == Len(a)
             x == SubSeq(a, 1, n)
             y == SubSeq(b, 1, n)
  <1>3. /\ x \in Seq(Texts) /\ Len(x) = n /\ \A i \in 1 .. n : x[i] = a[i]
        /\ y \in Seq(Texts) /\ Len(y) = n /\ \A i \in 1 .. n : y[i] = b[i]
    BY <1>1, <1>2, SubSeqProperties
  <1>4. x = y
    <2> HIDE DEF x, y, n
    <2>1. \A i \in 1 .. n : x[i] = y[i]
      BY <1>3 DEF n
    <2> QED BY <1>3, <2>1, SeqEqual
  <1>5. n = Len(b) => a = b
    BY SeqEqual
  <1> QED BY <1>4, <1>5 DEF IsPrefix

(* What a consumer of OpenRouter was given is what was read, and a stream  *)
(* that broke has told so.                                                 *)
RealText(s) ==
  /\ TextsOf(deltas[s]) = Worded(sent[s])
  /\ inner[s] = "broken" => raised[s] # "none"

(* The streams of a fake provider, in the order they were opened, hold the *)
(* scripts in the order these were configured.                             *)
ScriptsDealt ==
  /\ \A i, j \in 1 .. Len(opened) : opened[i] = opened[j] => i = j
  /\ \A s \in Streams : fake[s] # Unopened <=> \E k \in 1 .. Len(opened) : opened[k] = s
  /\ configured_error = "none" =>
       stream_count = IF Len(opened) <= Len(stream_deltas) THEN Len(opened)
                      ELSE Len(stream_deltas)
  /\ \A k \in 1 .. Len(opened) :
       /\ fake[opened[k]].error = configured_error
       /\ fake[opened[k]].deltas =
            IF configured_error = "none" /\ k <= Len(stream_deltas) THEN stream_deltas[k]
            ELSE <<>>

(* And what their consumers were given is the beginning of that.           *)
FakeText(s) ==
  fake[s] # Unopened =>
    /\ Len(deltas[s]) <= Len(fake[s].deltas)
    /\ \A i \in 1 .. Len(deltas[s]) : deltas[s][i].text = fake[s].deltas[i].text

TextInv ==
  IF provider = "openrouter" THEN \A s \in Streams : RealText(s)
  ELSE ScriptsDealt /\ \A s \in Streams : FakeText(s)

LEMMA TextInit == Init => TextInv
  <1> SUFFICES ASSUME Init PROVE TextInv
    OBVIOUS
  <1>1. /\ \A s \in Streams : /\ deltas[s] = <<>> /\ sent[s] = <<>> /\ inner[s] = "none"
                              /\ fake[s] = Unopened
        /\ opened = <<>> /\ stream_count = 0
    BY DEF Init, ClientInit, OpenRouterInit, FakeStreamsInit
  <1>2. stream_deltas \in Seq(Seq(StreamDelta))
    BY EmptySeq DEF Init, FakeStreamsInit
  <1>3. Len(<<>>) = 0 /\ Len(stream_deltas) \in Nat /\ TextsOf(<<>>) = <<>>
    BY <1>2, EmptySeq, LenProperties DEF TextsOf
  <1>4. \A s \in Streams : RealText(s) /\ FakeText(s)
    BY <1>1, <1>3, WordedGrows DEF RealText, FakeText
  <1>5. ScriptsDealt
    BY <1>1, <1>3 DEF ScriptsDealt
  <1> QED BY <1>4, <1>5 DEF TextInv

(* No exception of the SDK goes untold.                                    *)
LEMMA RaisedIsTold ==
  ASSUME NEW exc \in SdkExceptions
  PROVE  RaisedFor(exc) # "none" /\ "CancelledError" # "none"
  <1>1. exc # "none"
    BY DEF SdkExceptions, Classes
  <1> QED BY <1>1, TranslationIsRight DEF Timeout, Transport, Refused

LEMMA RealTextStep ==
  ASSUME TypeOK, NEW s \in Streams, RealText(s), OpenRouterNext
  PROVE  RealText(s)'
  <1> USE DEF TypeOK
  <1>1. ASSUME NEW t \in Streams, Pull(t) \/ Connects(t) \/ EndsPull(t)
        PROVE  RealText(s)'
    <2>1. /\ deltas' = deltas /\ sent' = sent /\ raised' = raised
          /\ inner'[s] = "broken" => inner[s] = "broken"
      BY <1>1 DEF Pull, Connects, EndsPull, Ends
    <2> QED BY <2>1 DEF RealText
  <1>2. ASSUME NEW t \in Streams, CancelsPull(t)
        PROVE  RealText(s)'
    <2>1. /\ deltas' = deltas /\ sent' = sent
          /\ IF t = s THEN raised'[s] = "CancelledError"
             ELSE raised'[s] = raised[s] /\ inner'[s] = inner[s]
      BY <1>2 DEF CancelsPull, Raises
    <2> QED BY <2>1 DEF RealText
  <1>3. ASSUME NEW t \in Streams, NEW exc \in SdkExceptions,
               FailsToConnect(t, exc) \/ Breaks(t, exc)
        PROVE  RealText(s)'
    <2>1. /\ deltas' = deltas /\ sent' = sent
          /\ IF t = s THEN raised'[s] = RaisedFor(exc)
             ELSE raised'[s] = raised[s] /\ inner'[s] = inner[s]
      BY <1>3 DEF FailsToConnect, Breaks, Raises
    <2> QED BY <2>1, RaisedIsTold DEF RealText
  <1>4. ASSUME NEW t \in Streams, NEW chunk \in Chunks, SkipsChunk(t, chunk)
        PROVE  RealText(s)'
    <2>1. /\ deltas' = deltas /\ raised' = raised /\ inner' = inner /\ ~ HasText(chunk)
          /\ sent'[s] = IF t = s THEN Append(sent[s], chunk) ELSE sent[s]
      BY <1>4 DEF SkipsChunk, ReadsChunk
    <2>2. Worded(sent'[s]) = Worded(sent[s])
      BY <2>1, WordedGrows DEF Heard
    <2> QED BY <2>1, <2>2 DEF RealText
  <1>5. ASSUME NEW t \in Streams, NEW chunk \in Chunks, DeliversChunk(t, chunk)
        PROVE  RealText(s)'
    <2>1. CASE t # s
      <3>1. /\ deltas'[s] = deltas[s] /\ raised' = raised /\ inner' = inner
            /\ sent'[s] = sent[s]
        BY <1>5, <2>1 DEF DeliversChunk, ReadsChunk, Given
      <3> QED BY <3>1 DEF RealText
    <2>2. CASE t = s
      <3> DEFINE delta == [text |-> chunk.content, delta_index |-> delta_index[s]]
      <3>1. /\ deltas'[s] = Append(deltas[s], delta) /\ delta \in StreamDelta
            /\ sent'[s] = Append(sent[s], chunk) /\ HasText(chunk)
            /\ raised' = raised /\ inner' = inner
        BY <1>5, <2>2, WordedChunk DEF DeliversChunk, ReadsChunk, Given
      <3>2. delta.text = chunk.content
        OBVIOUS
      <3> HIDE DEF delta
      <3>3. TextsOf(deltas'[s]) = Append(TextsOf(deltas[s]), chunk.content)
        BY <3>1, <3>2, TextsOfProperties
      <3>4. Worded(sent'[s]) = Append(Worded(sent[s]), chunk.content)
        BY <3>1, WordedGrows DEF Heard
      <3> QED BY <3>1, <3>3, <3>4 DEF RealText
    <2> QED BY <2>1, <2>2
  <1> HIDE DEF TypeOK
  <1> QED BY <1>1, <1>2, <1>3, <1>4, <1>5, Zenon DEF OpenRouterNext, RequestErrors

LEMMA FakeTypes ==
  ASSUME TypeOK
  PROVE  /\ stream_deltas \in Seq(Seq(StreamDelta)) /\ Len(stream_deltas) \in Nat
         /\ opened \in Seq(Streams) /\ Len(opened) \in Nat
         /\ \A k \in 1 .. Len(opened) : opened[k] \in Streams
  <1>1. stream_deltas \in Seq(Seq(StreamDelta))
    <2>1. <<>> \in Seq(Seq(StreamDelta))
      BY EmptySeq
    <2> QED BY <2>1, Zenon DEF TypeOK
  <1>2. opened \in Seq(Streams)
    BY DEF TypeOK
  <1> QED BY <1>1, <1>2, LenProperties, ElementOfSeq

(* stream() hands out the next script, or none.                            *)
LEMMA OpensDealt ==
  ASSUME TypeOK, ScriptsDealt, NEW t \in Streams, OpensStream(t)
  PROVE  ScriptsDealt'
  <1> DEFINE n == Len(opened)
             m == Len(stream_deltas)
             scripted == configured_error = "none" /\ stream_count < m
             made == CASE configured_error # "none" -> FakeStream(<<>>, None, configured_error)
                       [] scripted -> FakeStream(stream_deltas[stream_count + 1], stream_usage, "none")
                       [] OTHER    -> FakeStream(<<>>, stream_usage, "none")
  <1>1. /\ n \in Nat /\ m \in Nat /\ \A k \in 1 .. n : opened[k] \in Streams
        /\ opened \in Seq(Streams)
    BY FakeTypes
  <1>2. /\ opened' = Append(opened, t) /\ fake' = [fake EXCEPT ![t] = made] /\ fake[t] = Unopened
        /\ stream_count' = IF scripted THEN stream_count + 1 ELSE stream_count
        /\ UNCHANGED <<configured_error, stream_deltas>>
    BY DEF OpensStream, fakeProviderVars
  <1>3. /\ Len(opened') = n + 1 /\ opened'[n + 1] = t
        /\ \A k \in 1 .. n : opened'[k] = opened[k]
    BY <1>1, <1>2, AppendProperties
  <1>4. \A k \in 1 .. n : opened[k] # t
    BY <1>2 DEF ScriptsDealt
  <1>5. configured_error = "none" => stream_count = IF n <= m THEN n ELSE m
    BY DEF ScriptsDealt
  <1>6. /\ made.error = configured_error /\ made # Unopened
        /\ made.deltas = IF configured_error = "none" /\ n + 1 <= m THEN stream_deltas[n + 1] ELSE <<>>
    <2>1. CASE configured_error # "none"
      BY <2>1 DEF FakeStream, Unopened
    <2>2. CASE configured_error = "none" /\ n + 1 <= m
      <3>1. scripted /\ stream_count = n
        BY <1>1, <1>5, <2>2
      <3> QED BY <2>2, <3>1 DEF FakeStream, Unopened
    <2>3. CASE configured_error = "none" /\ ~ (n + 1 <= m)
      <3>1. ~ scripted
        BY <1>1, <1>5, <2>3
      <3> QED BY <2>3, <3>1 DEF FakeStream, Unopened
    <2> QED BY <2>1, <2>2, <2>3
  <1> HIDE DEF made
  <1>7. /\ fake'[t] = made
        /\ \A s \in Streams : s # t => fake'[s] = fake[s]
    BY <1>2 DEF TypeOK
  <1>8. \A k \in 1 .. n + 1 : k \in 1 .. n \/ k = n + 1
    BY <1>1
  <1> DEFINE places == 1 .. n
             more == 1 .. n + 1
  <1>9. /\ n + 1 \in more /\ n + 1 \notin places
        /\ \A k \in places : k \in more
    BY <1>1
  <1>10. \A i, j \in more : opened'[i] = opened'[j] => i = j
    <2>1. \A i, j \in places : opened[i] = opened[j] => i = j
      BY DEF ScriptsDealt
    <2> HIDE DEF n
    <2> QED BY <1>3, <1>4, <1>8, <2>1
  <1>11. \A s \in Streams : fake'[s] # Unopened <=> \E k \in more : opened'[k] = s
    <2>1. \A s \in Streams : fake[s] # Unopened <=> \E k \in places : opened[k] = s
      BY DEF ScriptsDealt
    <2>2. fake'[t] # Unopened /\ \E k \in more : opened'[k] = t
      BY <1>3, <1>6, <1>7, <1>9
    <2>3. ASSUME NEW s \in Streams, s # t
          PROVE  fake'[s] # Unopened <=> \E k \in more : opened'[k] = s
      <3>1. (\E k \in more : opened'[k] = s) <=> \E k \in places : opened[k] = s
        <4>1. ASSUME NEW k \in more, opened'[k] = s
              PROVE  k \in places /\ opened[k] = s
          BY <1>3, <1>8, <2>3, <4>1
        <4>2. ASSUME NEW k \in places, opened[k] = s
              PROVE  k \in more /\ opened'[k] = s
          BY <1>3, <1>9, <4>2
        <4> HIDE DEF places, more
        <4> QED BY <4>1, <4>2
      <3> QED BY <1>7, <2>1, <2>3, <3>1
    <2> QED BY <2>2, <2>3
  <1>12. configured_error = "none" => stream_count' = IF n + 1 <= m THEN n + 1 ELSE m
    BY <1>1, <1>2, <1>5
  <1>13. \A k \in more :
           /\ fake'[opened'[k]].error = configured_error
           /\ fake'[opened'[k]].deltas =
                IF configured_error = "none" /\ k <= m THEN stream_deltas[k] ELSE <<>>
    <2>1. \A k \in places :
            /\ fake[opened[k]].error = configured_error
            /\ fake[opened[k]].deltas =
                 IF configured_error = "none" /\ k <= m THEN stream_deltas[k] ELSE <<>>
      BY DEF ScriptsDealt
    <2>2. ASSUME NEW k \in places
          PROVE  /\ fake'[opened'[k]].error = configured_error
                 /\ fake'[opened'[k]].deltas =
                      IF configured_error = "none" /\ k <= m THEN stream_deltas[k] ELSE <<>>
      <3>1. opened'[k] = opened[k] /\ fake'[opened[k]] = fake[opened[k]]
        BY <1>1, <1>3, <1>4, <1>7
      <3> QED BY <2>1, <3>1
    <2>3. /\ fake'[opened'[n + 1]].error = configured_error
          /\ fake'[opened'[n + 1]].deltas =
               IF configured_error = "none" /\ n + 1 <= m THEN stream_deltas[n + 1] ELSE <<>>
      BY <1>3, <1>6, <1>7
    <2> HIDE DEF n, m
    <2> QED BY <1>8, <2>2, <2>3
  <1> HIDE DEF n, m, places
  <1>14. Len(opened') = n + 1 /\ more = 1 .. Len(opened') /\ Len(stream_deltas') = m
    BY <1>2, <1>3 DEF m
  <1> HIDE DEF more
  <1> QED BY <1>2, <1>10, <1>11, <1>12, <1>13, <1>14 DEF ScriptsDealt

LEMMA FakeTextStep ==
  ASSUME TypeOK, DeliveryInv, provider = "fake", ScriptsDealt, \A s \in Streams : FakeText(s),
         FakeStreamsNext
  PROVE  ScriptsDealt' /\ \A s \in Streams : FakeText(s)'
  <1>0. \A s \in Streams : FakeInv(s)
    BY DEF DeliveryInv
  <1>1. ASSUME NEW t \in Streams, OpensStream(t)
        PROVE  ScriptsDealt' /\ \A s \in Streams : FakeText(s)'
    <2>1. /\ deltas' = deltas /\ fake[t] = Unopened /\ deltas[t] = <<>>
          /\ \A s \in Streams : s # t => fake'[s] = fake[s]
      BY <1>0, <1>1 DEF OpensStream, clientVars, TypeOK, FakeInv
    <2>2. fake'[t].deltas \in Seq(StreamDelta)
      <3>1. fake'[t].deltas = <<>> \/ \E k \in DOMAIN stream_deltas : fake'[t].deltas = stream_deltas[k]
        BY <1>1, OpenedNumbered
      <3>2. \A k \in DOMAIN stream_deltas : stream_deltas[k] \in Seq(StreamDelta)
        BY FakeTypes, LenProperties, ElementOfSeq
      <3> QED BY <3>1, <3>2, EmptySeq
    <2>3. Len(<<>>) = 0 /\ Len(fake'[t].deltas) \in Nat
      BY <2>2, EmptySeq, LenProperties
    <2>4. \A s \in Streams : FakeText(s)'
      BY <2>1, <2>3 DEF FakeText
    <2> QED BY <1>1, <2>4, OpensDealt
  <1>2. ASSUME NEW t \in Streams, PullDelivers(t)
        PROVE  ScriptsDealt' /\ \A s \in Streams : FakeText(s)'
    <2> DEFINE n == Len(deltas[t])
               delta == fake[t].deltas[n + 1]
               given == [text |-> delta.text, delta_index |-> delta.delta_index]
    <2>1. /\ fake[t] # Unopened /\ fake[t] \in FakeStreamObject /\ fake[t].index = n
          /\ n < Len(fake[t].deltas) /\ deltas[t] \in Seq(StreamDelta) /\ n \in Nat
      BY <1>0, <1>2, LenProperties DEF PullDelivers, FakeInv, TypeOK, Unread
    <2>2. fake' = [fake EXCEPT ![t] = [fake[t] EXCEPT !.index = @ + 1]]
      BY <1>2 DEF PullDelivers
    <2>3. /\ fake'[t].deltas = fake[t].deltas /\ fake'[t].error = fake[t].error
          /\ fake'[t] # Unopened
          /\ \A s \in Streams : s # t => fake'[s] = fake[s]
      BY <2>1, <2>2 DEF TypeOK, FakeStreamObject, Unopened
    <2>4. ScriptsDealt'
      <3>1. UNCHANGED <<opened, stream_deltas, stream_count, configured_error>>
        BY <1>2 DEF PullDelivers, fakeProviderVars
      <3>2. \A s \in Streams : /\ fake'[s] # Unopened <=> fake[s] # Unopened
                               /\ fake'[s].error = fake[s].error
                               /\ fake'[s].deltas = fake[s].deltas
        BY <2>1, <2>3
      <3> QED BY <3>1, <3>2, FakeTypes DEF ScriptsDealt
    <2>5. /\ fake[t].deltas \in Seq(StreamDelta) /\ delta \in StreamDelta
          /\ Len(fake[t].deltas) \in Nat
      <3>1. fake[t].deltas \in Seq(StreamDelta)
        BY <2>1 DEF FakeStreamObject
      <3>2. n + 1 \in 1 .. Len(fake[t].deltas)
        BY <2>1, <3>1, LenProperties
      <3> QED BY <3>1, <3>2, ElementOfSeq, LenProperties
    <2>6. given \in StreamDelta /\ given.text = delta.text
      BY <2>5 DEF StreamDelta
    <2>7. /\ deltas'[t] = Append(deltas[t], given)
          /\ \A s \in Streams : s # t => deltas'[s] = deltas[s]
      BY <1>2, <2>1 DEF PullDelivers, Given, TypeOK
    <2>8. /\ Len(deltas'[t]) = n + 1 /\ deltas'[t][n + 1] = given
          /\ \A i \in 1 .. n : deltas'[t][i] = deltas[t][i]
      BY <2>1, <2>6, <2>7, AppendProperties
    <2> HIDE DEF given
    <2>9. FakeText(t)'
      <3>1. \A i \in 1 .. n : deltas[t][i].text = fake[t].deltas[i].text
        BY <2>1 DEF FakeText
      <3>2. n + 1 <= Len(fake[t].deltas) /\ \A i \in 1 .. n + 1 : i \in 1 .. n \/ i = n + 1
        BY <2>1, <2>5
      <3> HIDE DEF n
      <3>3. \A i \in 1 .. n + 1 : deltas'[t][i].text = fake[t].deltas[i].text
        BY <2>6, <2>8, <3>1, <3>2
      <3>4. /\ Len(deltas[t])' = n + 1 /\ n + 1 <= Len(fake[t].deltas)'
            /\ \A i \in 1 .. n + 1 : (deltas[t][i].text)' = (fake[t].deltas[i].text)'
        BY <2>3, <2>8, <3>2, <3>3
      <3> QED BY <3>4 DEF FakeText
    <2>10. \A s \in Streams : s # t => FakeText(s)'
      <3> SUFFICES ASSUME NEW s \in Streams, s # t PROVE FakeText(s)'
        OBVIOUS
      <3>1. deltas'[s] = deltas[s] /\ fake'[s] = fake[s]
        BY <2>3, <2>7
      <3> QED BY <3>1 DEF FakeText
    <2> QED BY <2>4, <2>9, <2>10
  <1>3. ASSUME NEW t \in Streams, PullRaises(t) \/ PullEnds(t)
        PROVE  ScriptsDealt' /\ \A s \in Streams : FakeText(s)'
    <2>1. /\ deltas' = deltas
          /\ UNCHANGED <<fake, opened, stream_deltas, stream_count, configured_error>>
      BY <1>3 DEF PullRaises, PullEnds, Raises, Ends, fakeStreamsVars, fakeProviderVars
    <2> QED BY <2>1 DEF ScriptsDealt, FakeText
  <1> QED BY <1>1, <1>2, <1>3, Zenon DEF FakeStreamsNext

LEMMA TextStep == TypeOK /\ DeliveryInv /\ TextInv /\ [Next]_vars => TextInv'
  <1> SUFFICES ASSUME TypeOK, DeliveryInv, TextInv, [Next]_vars PROVE TextInv'
    OBVIOUS
  <1>1. CASE provider = "openrouter" /\ OpenRouterNext /\ UNCHANGED provider
    <2>1. \A s \in Streams : RealText(s)'
      BY <1>1, RealTextStep DEF TextInv
    <2> QED BY <1>1, <2>1 DEF TextInv
  <1>2. CASE provider = "fake" /\ FakeStreamsNext /\ UNCHANGED provider
    <2>1. ScriptsDealt' /\ \A s \in Streams : FakeText(s)'
      BY <1>2, FakeTextStep DEF TextInv
    <2> QED BY <1>2, <2>1 DEF TextInv
  <1>3. CASE UNCHANGED vars
    <2>1. UNCHANGED <<provider, deltas, sent, inner, raised, fake, opened, stream_deltas,
                      stream_count, configured_error>>
      BY <1>3 DEF vars, clientVars, openRouterVars, streamStateVars, historyVars,
                  fakeStreamsVars, fakeProviderVars
    <2>2. (\A s \in Streams : RealText(s)) => \A s \in Streams : RealText(s)'
      BY <2>1 DEF RealText
    <2>3. ScriptsDealt => ScriptsDealt'
      BY <2>1 DEF ScriptsDealt
    <2>4. (\A s \in Streams : FakeText(s)) => \A s \in Streams : FakeText(s)'
      BY <2>1 DEF FakeText
    <2> QED BY <2>1, <2>2, <2>3, <2>4 DEF TextInv
  <1> QED BY <1>1, <1>2, <1>3 DEF Next

(* The script due to an opened stream.                                     *)
LEMMA DueScript ==
  ASSUME TypeOK, ScriptsDealt, provider = "fake", NEW k \in 1 .. Len(opened)
  PROVE  Promised(opened[k]) = IF k <= Len(stream_deltas) THEN TextsOf(stream_deltas[k]) ELSE <<>>
  <1> DEFINE s == opened[k]
             due == {j \in DOMAIN opened \cap DOMAIN stream_deltas : opened[j] = s}
  <1>1. /\ DOMAIN opened = 1 .. Len(opened) /\ DOMAIN stream_deltas = 1 .. Len(stream_deltas)
        /\ Len(opened) \in Nat /\ Len(stream_deltas) \in Nat
    BY FakeTypes, LenProperties
  <1>2. Promised(s) = IF due = {} THEN <<>> ELSE TextsOf(stream_deltas[CHOOSE j \in due : TRUE])
    BY DEF Promised
  <1>3. \A j \in due : j = k
    BY <1>1 DEF ScriptsDealt
  <1>4. k \in due <=> k <= Len(stream_deltas)
    BY <1>1
  <1> HIDE DEF due
  <1>5. CASE k <= Len(stream_deltas)
    <2>1. (CHOOSE j \in due : TRUE) = k
      BY <1>3, <1>4, <1>5
    <2> QED BY <1>2, <1>4, <1>5, <2>1
  <1>6. CASE ~ (k <= Len(stream_deltas))
    <2>1. due = {}
      BY <1>3, <1>4, <1>6
    <2> QED BY <1>2, <1>6, <2>1
  <1> QED BY <1>5, <1>6

LEMMA RealIsWhole ==
  ASSUME TypeOK, NEW s \in Streams, RealInv(s), RealText(s), provider = "openrouter"
  PROVE  /\ IsPrefix(TextsOf(deltas[s]), Promised(s))
         /\ outcome[s] = "end" /\ raised[s] = "none" =>
              TextsOf(deltas[s]) = Promised(s) /\ inner[s] = "exhausted"
  <1>1. Promised(s) = TextsOf(deltas[s])
    BY DEF Promised, RealText
  <1>2. TextsOf(deltas[s]) \in Seq(Texts) /\ Len(TextsOf(deltas[s])) \in Nat
    BY TextsOfProperties DEF TypeOK
  <1>3. IsPrefix(TextsOf(deltas[s]), TextsOf(deltas[s]))
    BY <1>2, PrefixByPosition
  <1>4. outcome[s] = "end" /\ raised[s] = "none" => inner[s] = "exhausted"
    BY DEF RealInv, RealText, TypeOK
  <1> QED BY <1>1, <1>3, <1>4

LEMMA FakeIsWhole ==
  ASSUME TypeOK, ScriptsDealt, NEW s \in Streams, FakeInv(s), FakeText(s), provider = "fake"
  PROVE  /\ IsPrefix(TextsOf(deltas[s]), Promised(s))
         /\ outcome[s] = "end" /\ raised[s] = "none" => TextsOf(deltas[s]) = Promised(s)
  <1> DEFINE given == TextsOf(deltas[s])
  <1>1. /\ deltas[s] \in Seq(StreamDelta) /\ given \in Seq(Texts) /\ Len(given) = Len(deltas[s])
        /\ Len(given) \in Nat /\ \A i \in 1 .. Len(given) : given[i] = deltas[s][i].text
    BY TextsOfProperties DEF TypeOK
  <1>2. <<>> \in Seq(Texts) /\ Len(<<>>) = 0 /\ TextsOf(<<>>) = <<>>
    BY EmptySeq DEF TextsOf
  <1>3. CASE fake[s] = Unopened
    <2>1. \A k \in DOMAIN opened : opened[k] # s
      BY <1>3, FakeTypes, LenProperties DEF ScriptsDealt
    <2>2. Promised(s) = <<>>
      BY <2>1 DEF Promised
    <2>3. given = <<>> /\ outcome[s] # "end"
      BY <1>2, <1>3 DEF FakeInv
    <2> DEFINE none == <<>>
    <2>4. none \in Seq(Texts) /\ Len(none) \in Nat
      BY <1>2
    <2> HIDE DEF none, given
    <2>5. IsPrefix(none, none)
      BY <2>4, PrefixByPosition
    <2> QED BY <2>2, <2>3, <2>5 DEF given, none
  <1>4. CASE fake[s] # Unopened
    <2>1. PICK k \in 1 .. Len(opened) : opened[k] = s
      BY <1>4 DEF ScriptsDealt
    <2> DEFINE due == IF k <= Len(stream_deltas) THEN stream_deltas[k] ELSE <<>>
               told == TextsOf(due)
    <2>2. Promised(s) = told
      BY <1>2, <2>1, DueScript
    <2>3. due \in Seq(StreamDelta)
      BY <2>1, FakeTypes, ElementOfSeq, EmptySeq
    <2>4. /\ fake[s].error = configured_error
          /\ fake[s].deltas = IF configured_error = "none" THEN due ELSE <<>>
      BY <2>1 DEF ScriptsDealt
    <2> HIDE DEF due
    <2>5. /\ told \in Seq(Texts) /\ Len(told) = Len(due) /\ Len(told) \in Nat
          /\ \A i \in 1 .. Len(told) : told[i] = due[i].text
      BY <2>3, TextsOfProperties
    <2> HIDE DEF told, given
    <2>6. CASE configured_error # "none"
      <3>1. Len(given) = 0 /\ outcome[s] # "end"
        BY <1>1, <1>2, <1>4, <2>4, <2>6 DEF FakeText, FakeInv
      <3>2. Len(given) <= Len(told) /\ \A i \in 1 .. Len(given) : given[i] = told[i]
        BY <2>5, <3>1
      <3>3. IsPrefix(given, told)
        BY <1>1, <2>5, <3>2, PrefixByPosition
      <3> QED BY <2>2, <3>1, <3>3 DEF given
    <2>7. CASE configured_error = "none"
      <3>1. /\ Len(given) <= Len(told)
            /\ \A i \in 1 .. Len(given) : deltas[s][i].text = due[i].text
        BY <1>1, <1>4, <2>4, <2>5, <2>7 DEF FakeText
      <3>2. \A i \in 1 .. Len(given) : given[i] = told[i]
        <4>1. \A i \in 1 .. Len(given) : i \in 1 .. Len(told)
          BY <1>1, <2>5, <3>1
        <4> QED BY <1>1, <2>5, <3>1, <4>1
      <3>3. IsPrefix(given, told) /\ (Len(given) = Len(told) => given = told)
        BY <1>1, <2>5, <3>1, <3>2, PrefixByPosition
      <3>4. outcome[s] = "end" => Len(given) = Len(told)
        <4>1. fake[s].index = Len(given)
          BY <1>1, <1>4 DEF FakeInv
        <4>2. outcome[s] = "end" => ~ (fake[s].index < Len(due))
          BY <1>4, <2>4, <2>7 DEF FakeInv, Unread
        <4> QED BY <1>1, <2>5, <3>1, <4>1, <4>2
      <3> QED BY <2>2, <3>3, <3>4 DEF given
    <2> QED BY <2>6, <2>7
  <1> QED BY <1>3, <1>4

(* No text is lost, repeated or reordered, and a truncated answer never    *)
(* passes for a whole one, for any chunks, faults, scripts and order of    *)
(* the pulls (the __anext__ of either stream).                             *)
THEOREM TextIsWholeHolds == Spec => []TextIsWhole
  <1>1. TypeOK /\ DeliveryInv /\ TextInv => TextIsWhole
    <2> SUFFICES ASSUME TypeOK, DeliveryInv, TextInv, NEW s \in Streams
                 PROVE  /\ IsPrefix(TextsOf(deltas[s]), Promised(s))
                        /\ outcome[s] = "end" /\ raised[s] = "none" =>
                             /\ TextsOf(deltas[s]) = Promised(s)
                             /\ provider = "openrouter" => inner[s] = "exhausted"
      BY DEF TextIsWhole
    <2>1. CASE provider = "openrouter"
      BY <2>1, RealIsWhole DEF DeliveryInv, TextInv
    <2>2. CASE provider = "fake"
      BY <2>2, FakeIsWhole DEF DeliveryInv, TextInv
    <2> QED BY <2>1, <2>2 DEF TypeOK
  <1> QED BY <1>1, TypeInit, TypeStep, DeliveryInit, DeliveryStep, TextInit, TextStep, PTL DEF Spec
================================================================================
