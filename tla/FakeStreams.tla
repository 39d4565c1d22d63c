------------------------------- MODULE FakeStreams -------------------------------
(***************************************************************************)
(* FakeProvider.stream and FakeStream: streams over configured deltas.     *)
(* Which script a stream plays is settled when stream() is called, not     *)
(* when the stream is first pulled.  A pull awaits nothing.                *)
(***************************************************************************)
EXTENDS FakeProvider, StreamClient

VARIABLES
  stream_deltas, \* the scripts, one list of deltas per stream
  stream_usage,  \* what every stream reports
  stream_count,  \* how many scripts were handed out
  fake,          \* each FakeStream
  opened         \* history: the streams, in the order of the stream() calls

fakeStreamsVars == <<fakeProviderVars, stream_deltas, stream_usage, stream_count, fake, opened>>

Unopened == [deltas |-> <<>>, usage |-> None, error |-> "none", index |-> -1]

FakeStream(script, usage, error) ==
  [deltas |-> script, usage |-> usage, error |-> error, index |-> 0]

FakeStreamsInit(scripts, usages, errors) ==
  /\ FakeProviderInit({<<>>}, errors)
  /\ stream_deltas \in scripts
  /\ stream_usage \in usages
  /\ stream_count = 0
  /\ fake = [s \in Streams |-> Unopened]
  /\ opened = <<>>

(* Mutant of OpensStream: the script is looked up and never taken.         *)
MutantOpensStream(s) ==
  /\ fake[s] = Unopened
  /\ fake' = [fake EXCEPT ![s] =
       CASE configured_error # "none"           -> FakeStream(<<>>, None, configured_error)
         [] stream_deltas = <<>>                -> FakeStream(<<>>, stream_usage, "none")
         [] OTHER -> FakeStream(stream_deltas[stream_count + 1], stream_usage, "none")]
  /\ opened' = Append(opened, s)
  /\ UNCHANGED <<fakeProviderVars, clientVars, stream_deltas, stream_usage, stream_count>>

(* stream(): the configured error first, then the next script, then an     *)
(* empty stream that still reports the usage.                              *)
OpensStream(s) ==
  LET scripted == configured_error = "none" /\ stream_count < Len(stream_deltas)
  IN /\ fake[s] = Unopened
     /\ fake' = [fake EXCEPT ![s] =
          CASE configured_error # "none" -> FakeStream(<<>>, None, configured_error)
            [] scripted -> FakeStream(stream_deltas[stream_count + 1], stream_usage, "none")
            [] OTHER    -> FakeStream(<<>>, stream_usage, "none")]
     /\ stream_count' = IF scripted THEN stream_count + 1 ELSE stream_count
     /\ opened' = Append(opened, s)
     /\ UNCHANGED <<fakeProviderVars, clientVars, stream_deltas, stream_usage>>

Unread(s) == fake[s].index < Len(fake[s].deltas)

(* __anext__ of a stream with an error raises it, at every pull.           *)
PullRaises(s) ==
  /\ fake[s].error # "none"
  /\ Raises(s, fake[s].error)
  /\ UNCHANGED fakeStreamsVars

PullDelivers(s) ==
  /\ fake[s] # Unopened /\ fake[s].error = "none" /\ Unread(s)
  /\ LET delta == fake[s].deltas[fake[s].index + 1]
     IN Given(s, delta.text, delta.delta_index)
  /\ fake' = [fake EXCEPT ![s].index = @ + 1]
  /\ UNCHANGED <<fakeProviderVars, stream_deltas, stream_usage, stream_count, opened>>

PullEnds(s) ==
  /\ fake[s] # Unopened /\ fake[s].error = "none" /\ ~ Unread(s)
  /\ Ends(s)
  /\ UNCHANGED fakeStreamsVars

FakeStreamsNext ==
  \E s \in Streams : OpensStream(s) \/ PullRaises(s) \/ PullDelivers(s) \/ PullEnds(s)
================================================================================
