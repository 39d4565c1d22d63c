------------------------------ MODULE OpenRouterRun ------------------------------
(***************************************************************************)
(* A consensus run against OpenRouterProvider: each call comes back as     *)
(* what invoke makes of the completion the server sent.                    *)
(***************************************************************************)
EXTENDS ConsensusRun, OpenRouter

CONSTANT Answers \* the completions the server may send

VARIABLES
  completion, \* history: what the server sent for each call
  response    \* the ProviderResponse each call returned

runVars == <<vars, completion, response>>

NoCompletion == [choices |-> FALSE, content |-> None, finish_reason |-> None, usage |-> None]

(* provider.invoke() as the orchestrator calls it: with the default schema.*)
InvokeStructured(sent) == InvokeResult(sent, None)

RunInit ==
  /\ Init
  /\ completion = [c \in CallIds |-> NoCompletion]
  /\ response = [c \in CallIds |-> InvokeStructured(NoCompletion)]

(* model_validate may accept only a parsed object; None never validates.   *)
ServerAnswers(c, sent) ==
  /\ completion' = [completion EXCEPT ![c] = sent]
  /\ response' = [response EXCEPT ![c] = InvokeStructured(sent)]
  /\ CallReturns(c)
  /\ reply'[c].valid => response'[c].parsed # None
  /\ reply'[c].usage = response'[c].usage
  /\ reply'[c].finish = response'[c].finish_reason

RunNext ==
  \/ \E c \in CallIds, sent \in Answers : ServerAnswers(c, sent)
  \/ /\ \/ Resume
        \/ \E s \in Stages : Cancel(s)
        \/ \E c \in CallIds : CallFails(c)
        \/ Rest
     /\ UNCHANGED <<completion, response>>

RunSpec == RunInit /\ [][RunNext]_runVars

(* What ProviderResponse says of its field parsed: it is the structured    *)
(* output, if the response was JSON.  A run depends on it, since every     *)
(* stage validates parsed.                                                 *)
ParsedIfJson ==
  \A c \in CallIds : call[c] = "returned" /\ completion[c].content = "json" =>
    response[c].parsed # None

(* What a run comes to while ParsedIfJson does not hold: no reply of any   *)
(* call validates, so that run_consensus against OpenRouterProvider never  *)
(* gets past the framing of the task, whatever the server answers.  The    *)
(* suite, whose provider is a fake one that parses, cannot tell.           *)
EndsAtFraming ==
  /\ pc \in {"new", "task_framing", "raised"}
  /\ usages = <<>> /\ result = NoResult
  /\ \A i \in DOMAIN log : log[i].type \in {"command_received", "run_started",
                                           "task_framing_started"}
================================================================================
