-------------------------------- MODULE OpenRouter --------------------------------
(***************************************************************************)
(* providers/openrouter.py without its streams: what an exception of the   *)
(* SDK becomes, and what invoke makes of a completion.                     *)
(*                                                                         *)
(* A content is told apart by whether it is JSON; the object it parses to  *)
(* is named by the content.                                                *)
(***************************************************************************)
EXTENDS Usage

Timeout == "provider_timeout"
Transport == "provider_transport_error"
Refused == "provider_auth_error"

ProviderErrors == {Timeout, Transport, Refused}

(* The exceptions a call into the SDK may end with, each with the classes  *)
(* it is an instance of.  HTTPError stands for what the SDK lets through   *)
(* of the HTTP library below it, once it reads from an open connection.    *)
Classes ==
  [APITimeoutError       |-> {"APITimeoutError", "APIConnectionError", "APIError"},
   APIConnectionError    |-> {"APIConnectionError", "APIError"},
   AuthenticationError   |-> {"AuthenticationError", "APIStatusError", "APIError"},
   PermissionDeniedError |-> {"PermissionDeniedError", "APIStatusError", "APIError"},
   RateLimitError        |-> {"RateLimitError", "APIStatusError", "APIError"},
   HTTPError             |-> {"HTTPError"}]

SdkExceptions == DOMAIN Classes

RequestErrors == {exc \in SdkExceptions : "APIError" \in Classes[exc]}

(* Mutant of TranslateError: the superclass is asked for first.            *)
MutantTranslateError(exc) ==
  CASE "APIConnectionError" \in Classes[exc] -> Transport
    [] {"AuthenticationError", "PermissionDeniedError"} \cap Classes[exc] # {} -> Refused
    [] OTHER -> Transport

(* A timeout is a connection error too, so it is asked for first.          *)
TranslateError(exc) ==
  CASE "APITimeoutError" \in Classes[exc] -> Timeout
    [] {"AuthenticationError", "PermissionDeniedError"} \cap Classes[exc] # {} -> Refused
    [] OTHER -> Transport

(* `except openai.APIError`: anything else passes through as it is.        *)
RaisedFor(exc) == IF "APIError" \in Classes[exc] THEN TranslateError(exc) ELSE exc

(* The three counts of a CompletionUsage.                                  *)
CompletionUsage == [TokenFields -> Nat]

(* Counts are copied, the cost is never known, and the snapshot always     *)
(* calls itself complete.                                                  *)
ExtractUsage(usage) ==
  IF usage = None THEN None
  ELSE [tokens |-> usage, cost_usd |-> None, is_complete |-> TRUE]

ReasonValues == {"stop", "length", "content_filter", "tool_calls", "error"}

Contents == {"", "prose", "json"}

Completion == [choices : BOOLEAN, content : Contents \cup {None},
               finish_reason : ReasonValues \cup {"unknown", None},
               usage : CompletionUsage \cup {None}]

(* invoke, once the request has succeeded: only a caller that passed a     *)
(* response_schema gets a parsed object.                                   *)
InvokeResult(completion, schema) ==
  LET content == IF completion.choices /\ completion.content # None
                 THEN completion.content ELSE ""
  IN [content       |-> content,
      parsed        |-> IF schema # None /\ content = "json" THEN content ELSE None,
      finish_reason |-> IF completion.choices /\ completion.finish_reason \in ReasonValues
                        THEN completion.finish_reason ELSE "stop",
      usage         |-> ExtractUsage(completion.usage)]
================================================================================
