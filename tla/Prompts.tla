--------------------------------- MODULE Prompts ---------------------------------
(***************************************************************************)
(* prompts/participant.py, prompts/moderator.py and prompts/labels.py:     *)
(* what the messages of each call are made of.  A piece of text is named   *)
(* by the call whose reply it comes from; the templates around it are left *)
(* out.                                                                    *)
(***************************************************************************)
EXTENDS Naturals, Sequences

(* user_prompt: whether the user's own text is among the messages.         *)
Messages(user_prompt, framing, excerpts, candidate) ==
  [user_prompt |-> user_prompt, framing |-> framing, excerpts |-> excerpts,
   candidate |-> candidate]

Nothing == <<>>

(* response_a, response_b, ...: the character after the underscore, by its *)
(* code point: chr(ord("a") + i), where i counts from zero.                *)
Label(position) == 97 + (position - 1)

label_contributions(contributions) ==
  {[label |-> Label(i), of |-> contributions[i]] : i \in DOMAIN contributions}

build_framing_messages == Messages(TRUE, Nothing, {}, Nothing)

build_contribution_messages(framing) == Messages(TRUE, framing, {}, Nothing)

build_synthesis_messages(framing, contributions) ==
  Messages(TRUE, framing, label_contributions(contributions), Nothing)

(* Mutant of build_review_messages: the reviewer's own contribution is     *)
(* left out before the others are labelled.                                *)
MutantBuildReviewMessages(framing, candidate, contributions, own) ==
  Messages(FALSE, framing,
           label_contributions(SelectSeq(contributions, LAMBDA c : c # own)), candidate)

(* user_prompt and participant_model are taken and not used.               *)
build_review_messages(framing, candidate, contributions, own) ==
  Messages(FALSE, framing, label_contributions(contributions), candidate)

build_release_gate_messages(framing, candidate) == Messages(FALSE, framing, {}, candidate)
================================================================================
