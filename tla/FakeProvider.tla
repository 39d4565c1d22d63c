------------------------------- MODULE FakeProvider -------------------------------
(***************************************************************************)
(* FakeProvider.invoke (providers/fake.py): the provider every test of the *)
(* orchestrator runs against.  It awaits nothing, so a call takes its      *)
(* response in the moment its task first runs.                             *)
(***************************************************************************)
EXTENDS Usage

VARIABLES
  responses,        \* the responses it was configured with
  configured_error, \* the error it was configured with, or "none"
  invoke_count      \* how many responses it has handed out

fakeProviderVars == <<responses, configured_error, invoke_count>>

FakeProviderInit(scripts, errors) ==
  /\ responses \in scripts
  /\ configured_error \in errors \cup {"none"}
  /\ invoke_count = 0

(* The configured error goes before the responses, and takes none of them. *)
InvokeRaises(exc) ==
  /\ exc = IF configured_error # "none" THEN configured_error ELSE "IndexError"
  /\ configured_error # "none" \/ invoke_count >= Len(responses)
  /\ UNCHANGED fakeProviderVars

(* Mutant of InvokeReturns: the responses are a stack.                     *)
MutantInvokeReturns(response) ==
  /\ configured_error = "none"
  /\ invoke_count < Len(responses)
  /\ response = responses[Len(responses) - invoke_count]
  /\ invoke_count' = invoke_count + 1
  /\ UNCHANGED <<responses, configured_error>>

(* First in, first out.                                                    *)
InvokeReturns(response) ==
  /\ configured_error = "none"
  /\ invoke_count < Len(responses)
  /\ response = responses[invoke_count + 1]
  /\ invoke_count' = invoke_count + 1
  /\ UNCHANGED <<responses, configured_error>>
================================================================================
