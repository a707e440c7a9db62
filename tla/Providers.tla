----------------------------- MODULE Providers ------------------------------
(***************************************************************************)
(* llm/provider.py: what the Anthropic and the OpenAI-compatible provider  *)
(* make of an answer of their API, and the OpenAI form of a conversation   *)
(* that is kept in Anthropic's form.                                       *)
(***************************************************************************)
EXTENDS Naturals, Sequences, SequencesExt

Apis == {"anthropic", "openai"}

(* Why an answer ended: it is complete (end_turn; stop), it calls tools    *)
(* (tool_use; tool_calls), or for any other reason (max_tokens, refusal;   *)
(* length).                                                                *)
Ends == {"complete", "calls", "cut"}

(* The only two values of NormalizedResponse.stop_reason.                  *)
AnthropicStop(end) == IF end = "complete" THEN "end_turn" ELSE "tool_use"
OpenAIStop(end)    == IF end = "calls" THEN "tool_use" ELSE "end_turn"
StopReason(api, end) == IF api = "anthropic" THEN AnthropicStop(end) ELSE OpenAIStop(end)

-----------------------------------------------------------------------------
(* A turn of a conversation: its role, whether it has text, the ids of the *)
(* tool_use blocks and of the tool_result blocks it holds.                 *)
Turn(role, text, calls, results) ==
  [role |-> role, text |-> text, calls |-> calls, results |-> results]

NoId == [round |-> 0, asked |-> 0, at |-> 0]

Message(role, calls, answers) == [role |-> role, calls |-> calls, answers |-> answers]

\* Mutant of UserMessages: one tool message for the whole turn.
UserMessagesOne(t) ==
  (IF t.results = <<>> THEN <<>> ELSE <<Message("tool", <<>>, t.results[1])>>)
    \o (IF t.text THEN <<Message("user", <<>>, NoId)>> ELSE <<>>)

UserMessages(t) ==
  [k \in 1..Len(t.results) |-> Message("tool", <<>>, t.results[k])]
    \o (IF t.text THEN <<Message("user", <<>>, NoId)>> ELSE <<>>)

(* _to_openai_messages.                                                    *)
ToOpenAI(turns) ==
  <<Message("system", <<>>, NoId)>> \o
  FlattenSeq([k \in DOMAIN turns |->
     IF turns[k].role = "user" THEN UserMessages(turns[k])
                               ELSE <<Message("assistant", turns[k].calls, NoId)>>])
=============================================================================
