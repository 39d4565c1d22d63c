----------------------------- MODULE OpenRouterStream -----------------------------
(***************************************************************************)
(* _OpenRouterStream: the streams one OpenRouterProvider has open, each    *)
(* pulled by a task of its own.  A pull suspends where the code awaits:    *)
(* while it connects, and while it reads from the SDK's stream.  There it  *)
(* may be answered, fail, or be cancelled by a consumer that waits no      *)
(* longer.                                                                 *)
(*                                                                         *)
(* The SDK's stream (_inner) is an async generator: once it has ended or   *)
(* an exception has gone through it, it is over, and a further pull finds  *)
(* its end.                                                                *)
(***************************************************************************)
EXTENDS OpenRouter, StreamClient

CONSTANTS
  Chunks,   \* the chunks the server may send
  MaxChunks \* bound: chunks the server sends on one connection

NoText == {"", None}

(* choices: whether the chunk has any; content: the text of the first one; *)
(* usage: of the whole stream, if the chunk tells it.                      *)
Chunk == [choices : BOOLEAN, content : Texts \cup NoText,
          usage : CompletionUsage \cup {None}]

ASSUME ChunkAssumption ==
  /\ MaxChunks \in Nat
  /\ Chunks \subseteq Chunk
  /\ Texts \cap NoText = {}

VARIABLES
  inner,       \* _inner: "none", or the state of the SDK's stream
  snapshot,    \* _usage_snapshot
  delta_index, \* _delta_index
  pull,        \* where each task is: between pulls, or in which await
  sent,        \* history: the chunks read from the connection
  connections, \* history: how many connections the stream made
  cause        \* history: how the SDK last failed the stream

streamStateVars == <<inner, snapshot, delta_index>>
historyVars == <<sent, connections, cause>>
openRouterVars == <<streamStateVars, pull, historyVars>>

OpenRouterInit ==
  /\ inner = [s \in Streams |-> "none"]
  /\ snapshot = [s \in Streams |-> None]
  /\ delta_index = [s \in Streams |-> 0]
  /\ pull = [s \in Streams |-> "idle"]
  /\ sent = [s \in Streams |-> <<>>]
  /\ connections = [s \in Streams |-> 0]
  /\ cause = [s \in Streams |-> "none"]

Await(s, where) == pull' = [pull EXCEPT ![s] = where]

HasText(chunk) == chunk.choices /\ chunk.content \notin NoText

--------------------------------------------------------------------------------

(* Mutant of Pull: only the very first pull connects.                      *)
MutantPull(s) ==
  /\ pull[s] = "idle"
  /\ Await(s, IF inner[s] = "none" /\ outcome[s] = "none" THEN "connecting" ELSE "reading")
  /\ UNCHANGED <<clientVars, streamStateVars, historyVars>>

(* __anext__ is entered: the first pull, and every pull until a connection *)
(* is made, connects.                                                      *)
Pull(s) ==
  /\ pull[s] = "idle"
  /\ Await(s, IF inner[s] = "none" THEN "connecting" ELSE "reading")
  /\ UNCHANGED <<clientVars, streamStateVars, historyVars>>

Connects(s) ==
  /\ pull[s] = "connecting"
  /\ inner' = [inner EXCEPT ![s] = "open"]
  /\ connections' = [connections EXCEPT ![s] = @ + 1]
  /\ Await(s, "reading")
  /\ UNCHANGED <<clientVars, snapshot, delta_index, sent, cause>>

(* _connect raises: _inner stays None.                                     *)
FailsToConnect(s, exc) ==
  /\ pull[s] = "connecting"
  /\ Raises(s, RaisedFor(exc))
  /\ cause' = [cause EXCEPT ![s] = exc]
  /\ Await(s, "idle")
  /\ UNCHANGED <<streamStateVars, sent, connections>>

(* A chunk arrives; its usage, if it has one, replaces the one before.     *)
MutantReadsChunk(s, chunk) == \* the usage of every chunk is taken, None included
  /\ pull[s] = "reading" /\ inner[s] = "open"
  /\ Len(sent[s]) < MaxChunks
  /\ sent' = [sent EXCEPT ![s] = Append(@, chunk)]
  /\ snapshot' = [snapshot EXCEPT ![s] = ExtractUsage(chunk.usage)]
  /\ UNCHANGED <<inner, connections, cause>>

ReadsChunk(s, chunk) ==
  /\ pull[s] = "reading" /\ inner[s] = "open"
  /\ Len(sent[s]) < MaxChunks
  /\ sent' = [sent EXCEPT ![s] = Append(@, chunk)]
  /\ snapshot' = [snapshot EXCEPT ![s] = IF chunk.usage # None
                                         THEN ExtractUsage(chunk.usage) ELSE @]
  /\ UNCHANGED <<inner, connections, cause>>

(* Mutant of SkipsChunk: a chunk with a usage is taken for the last one,   *)
(* whatever else it holds.                                                 *)
MutantSkipsChunk(s, chunk) ==
  /\ ~ HasText(chunk) \/ chunk.usage # None
  /\ ReadsChunk(s, chunk)
  /\ UNCHANGED <<clientVars, delta_index, pull>>

(* Role announcements, empty texts and usage-only chunks: read on.         *)
SkipsChunk(s, chunk) ==
  /\ ~ HasText(chunk)
  /\ ReadsChunk(s, chunk)
  /\ UNCHANGED <<clientVars, delta_index, pull>>

(* Mutant of DeliversChunk: the counter belongs to the provider.           *)
MutantDeliversChunk(s, chunk) ==
  /\ HasText(chunk)
  /\ ReadsChunk(s, chunk)
  /\ Given(s, chunk.content, delta_index[s])
  /\ delta_index' = [r \in Streams |-> delta_index[r] + 1]
  /\ Await(s, "idle")

DeliversChunk(s, chunk) ==
  /\ HasText(chunk)
  /\ ReadsChunk(s, chunk)
  /\ Given(s, chunk.content, delta_index[s])
  /\ delta_index' = [delta_index EXCEPT ![s] = @ + 1]
  /\ Await(s, "idle")

(* The SDK's stream is at its end, or was over before.                     *)
EndsPull(s) ==
  /\ pull[s] = "reading"
  /\ inner' = [inner EXCEPT ![s] = IF @ = "open" THEN "exhausted" ELSE @]
  /\ Ends(s)
  /\ Await(s, "idle")
  /\ UNCHANGED <<snapshot, delta_index, historyVars>>

(* Mutant of Breaks: the stream is dropped, so that the next pull makes a  *)
(* new connection.                                                         *)
MutantBreaksAndReconnects(s, exc) ==
  /\ pull[s] = "reading" /\ inner[s] = "open"
  /\ inner' = [inner EXCEPT ![s] = "none"]
  /\ cause' = [cause EXCEPT ![s] = exc]
  /\ Raises(s, RaisedFor(exc))
  /\ Await(s, "idle")
  /\ UNCHANGED <<snapshot, delta_index, sent, connections>>

(* The connection fails half-way: _inner, the counter and the usage stay.  *)
Breaks(s, exc) ==
  /\ pull[s] = "reading" /\ inner[s] = "open"
  /\ inner' = [inner EXCEPT ![s] = "broken"]
  /\ cause' = [cause EXCEPT ![s] = exc]
  /\ Raises(s, RaisedFor(exc))
  /\ Await(s, "idle")
  /\ UNCHANGED <<snapshot, delta_index, sent, connections>>

(* The consumer's task is cancelled where it waits for the server, and     *)
(* goes on afterwards: a pull given up after a while.                      *)
CancelsPull(s) ==
  /\ pull[s] = "connecting" \/ (pull[s] = "reading" /\ inner[s] = "open")
  /\ inner' = [inner EXCEPT ![s] = IF @ = "open" THEN "broken" ELSE @]
  /\ cause' = [cause EXCEPT ![s] = "CancelledError"]
  /\ Raises(s, "CancelledError")
  /\ Await(s, "idle")
  /\ UNCHANGED <<snapshot, delta_index, sent, connections>>

OpenRouterNext ==
  \E s \in Streams :
    \/ Pull(s) \/ Connects(s) \/ EndsPull(s) \/ CancelsPull(s)
    \/ \E chunk \in Chunks : SkipsChunk(s, chunk) \/ DeliversChunk(s, chunk)
    \/ \E exc \in RequestErrors : FailsToConnect(s, exc)
    \/ \E exc \in SdkExceptions : Breaks(s, exc)
================================================================================
