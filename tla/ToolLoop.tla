------------------------------ MODULE ToolLoop ------------------------------
(***************************************************************************)
(* llm.loop.run_claude_loop: a conversation asks its provider, runs the    *)
(* tools the answer calls, and asks again with their results, until an     *)
(* answer ends the turn.  Every conversation runs in a thread of its own.  *)
(* complete_stream is modelled chunk by chunk.                             *)
(***************************************************************************)
EXTENDS Providers

CONSTANTS
  Loops,       \* the conversations
  Modes,       \* [Loops -> what the conversation may be started with]
  Answers,     \* [Loops -> the answers considered for it]
  MaxRounds    \* 25 in the code

ToolCall  == [tool : STRING, confirmed : BOOLEAN]
Settings  == [api : Apis, stream : BOOLEAN, upgrade : BOOLEAN, confirms : BOOLEAN]
ApiAnswer == [end : Ends, text : BOOLEAN, calls : Seq(ToolCall)]

ASSUME ToolLoopAssumption ==
  /\ MaxRounds \in Nat
  /\ \A l \in Loops : \A m \in Modes[l] : m \in Settings /\ (m.stream => m.api = "openai")
  /\ \A l \in Loops : \A a \in Answers[l] : a \in ApiAnswer

VARIABLES
  pc,         \* where the conversation is
  mode,       \* its provider, upgrade_model, and whether it streams
  turns,      \* messages
  rounds,     \* rounds begun
  asked,      \* answers received
  reply,      \* response
  results,    \* tool_results: ids of the calls that were executed
  previews,   \* pending_actions: ids of the calls whose result is a preview
  previewed   \* history: every preview a user was shown

convVars == <<turns, rounds, asked, reply, results, previews>>
loopVars == <<pc, mode, convVars, previewed>>

NoReply == [stop |-> "none", text |-> FALSE, calls |-> <<>>]

InitLoops ==
  /\ pc = [l \in Loops |-> "new"]
  /\ mode \in {m \in [Loops -> UNION {Modes[l] : l \in Loops}] : \A l \in Loops : m[l] \in Modes[l]}
  /\ turns = [l \in Loops |-> <<>>]
  /\ rounds = [l \in Loops |-> 0]
  /\ asked = [l \in Loops |-> 0]
  /\ reply = [l \in Loops |-> NoReply]
  /\ results = [l \in Loops |-> <<>>]
  /\ previews = [l \in Loops |-> <<>>]
  /\ previewed = {}

GoTo(l, where) == pc' = [pc EXCEPT ![l] = where]

(* The function returns or raises; its local variables are gone.           *)
End(l) ==
  /\ GoTo(l, "ended")
  /\ turns' = [turns EXCEPT ![l] = <<>>]
  /\ rounds' = [rounds EXCEPT ![l] = 0]
  /\ asked' = [asked EXCEPT ![l] = 0]
  /\ reply' = [reply EXCEPT ![l] = NoReply]
  /\ results' = [results EXCEPT ![l] = <<>>]
  /\ previews' = [previews EXCEPT ![l] = <<>>]
  /\ UNCHANGED <<mode, previewed>>

Start(l) ==
  /\ pc[l] = "new"
  /\ GoTo(l, "ask")
  /\ turns' = [turns EXCEPT ![l] = <<Turn("user", TRUE, <<>>, <<>>)>>]
  /\ UNCHANGED <<mode, rounds, asked, reply, results, previews, previewed>>

-----------------------------------------------------------------------------
(* Asking the provider.  The API gives every call of an answer an id.      *)

CallId(l, k) == [round |-> rounds[l], asked |-> asked[l], at |-> k]

\* Mutant of CanAsk: one round too many.
CanAskAgain(l) == pc[l] = "ask" /\ rounds[l] <= MaxRounds

CanAsk(l) == pc[l] = "ask" /\ rounds[l] < MaxRounds

Receive(l, end, text, calls) ==
  reply' = [reply EXCEPT ![l] = [stop  |-> StopReason(mode[l].api, end),
                                 text  |-> text,
                                 calls |-> calls]]

Complete(l) ==
  /\ CanAsk(l) /\ ~mode[l].stream
  /\ \E a \in Answers[l] : Receive(l, a.end, a.text, a.calls)
  /\ rounds' = [rounds EXCEPT ![l] = @ + 1]
  /\ asked' = [asked EXCEPT ![l] = @ + 1]
  /\ GoTo(l, "got")
  /\ UNCHANGED <<mode, turns, results, previews, previewed>>

OpenStream(l) ==
  /\ CanAsk(l) /\ mode[l].stream
  /\ rounds' = [rounds EXCEPT ![l] = @ + 1]
  /\ reply' = [reply EXCEPT ![l] = NoReply]
  /\ GoTo(l, "stream")
  /\ UNCHANGED <<mode, turns, asked, results, previews, previewed>>

(* A chunk with text.  Whether on_delta is called with it is left out.     *)
StreamText(l) ==
  /\ pc[l] = "stream"
  /\ \E a \in Answers[l] : a.text /\ IsPrefix(reply[l].calls, a.calls)
  /\ reply' = [reply EXCEPT ![l].text = TRUE]
  /\ UNCHANGED <<pc, mode, turns, rounds, asked, results, previews, previewed>>

(* A chunk that begins a tool call.                                        *)
StreamCall(l) ==
  /\ pc[l] = "stream"
  /\ \E a \in Answers[l] :
       /\ IsStrictPrefix(reply[l].calls, a.calls)
       /\ reply[l].text => a.text
       /\ reply' = [reply EXCEPT ![l].calls = SubSeq(a.calls, 1, Len(@) + 1)]
  /\ UNCHANGED <<pc, mode, turns, rounds, asked, results, previews, previewed>>

StreamEnd(l) ==
  /\ pc[l] = "stream"
  /\ \E a \in Answers[l] :
       /\ a.text = reply[l].text /\ a.calls = reply[l].calls
       /\ Receive(l, a.end, a.text, a.calls)
  /\ asked' = [asked EXCEPT ![l] = @ + 1]
  /\ GoTo(l, "got")
  /\ UNCHANGED <<mode, turns, rounds, results, previews, previewed>>

(* The API or the connection fails; nothing in the loop catches it.        *)
AskRaises(l) ==
  /\ CanAsk(l) \/ pc[l] \in {"stream", "upgrade"}
  /\ End(l)

(* The tool-call limit.                                                    *)
Limit(l) ==
  /\ pc[l] = "ask" /\ rounds[l] = MaxRounds
  /\ End(l)

-----------------------------------------------------------------------------
(* Using its answer.                                                       *)

(* Returns the text, the reasoning or a stand-in.                          *)
EndTurn(l) ==
  /\ pc[l] = "got" /\ reply[l].stop = "end_turn"
  /\ End(l)

UpgradeTools == {"manage_schedule"}

Upgrades(l) ==
  mode[l].upgrade /\ \E k \in DOMAIN reply[l].calls : reply[l].calls[k].tool \in UpgradeTools

CallIds(l) == [k \in DOMAIN reply[l].calls |-> CallId(l, k)]

Say(l, turn) == turns' = [turns EXCEPT ![l] = Append(@, turn)]

\* Mutant of AskBetter: the first answer is put on the record as well.
AskBetterOnRecord(l) ==
  /\ pc[l] = "got" /\ reply[l].stop = "tool_use" /\ Upgrades(l)
  /\ GoTo(l, "upgrade")
  /\ Say(l, Turn("assistant", reply[l].text, CallIds(l), <<>>))
  /\ UNCHANGED <<mode, rounds, asked, reply, results, previews, previewed>>

AskBetter(l) ==
  /\ pc[l] = "got" /\ reply[l].stop = "tool_use" /\ Upgrades(l)
  /\ GoTo(l, "upgrade")
  /\ UNCHANGED <<mode, convVars, previewed>>

(* The better model's answer replaces the first one, whatever it is.       *)
Upgrade(l) ==
  /\ pc[l] = "upgrade"
  /\ \E a \in Answers[l] : Receive(l, a.end, a.text, a.calls)
  /\ asked' = [asked EXCEPT ![l] = @ + 1]
  /\ GoTo(l, "tools")
  /\ UNCHANGED <<mode, turns, rounds, results, previews, previewed>>

AssistantTurn(l) ==
  /\ \/ pc[l] = "tools"
     \/ pc[l] = "got" /\ reply[l].stop = "tool_use" /\ ~Upgrades(l)
  /\ Say(l, Turn("assistant", reply[l].text, CallIds(l), <<>>))
  /\ GoTo(l, "run")
  /\ UNCHANGED <<mode, rounds, asked, reply, results, previews, previewed>>

(* The tools whose result may ask for a confirmation; a bot may add more.  *)
ConfirmTools == {"manage_files", "set_jenkins_schedule"}

MayPreview(call) == call.tool \in ConfirmTools /\ ~call.confirmed

(* execute_tool, of a call that returns.                                   *)
Execute(l) ==
  LET k    == Len(results[l]) + 1
      call == reply[l].calls[k]
  IN  /\ pc[l] = "run"
      /\ k \in DOMAIN reply[l].calls
      /\ results' = [results EXCEPT ![l] = Append(@, CallId(l, k))]
      /\ \/ /\ MayPreview(call)
            /\ previews' = [previews EXCEPT ![l] = Append(@, CallId(l, k))]
            /\ previewed' = previewed \cup {[loop |-> l, id |-> CallId(l, k)]}
         \/ UNCHANGED <<previews, previewed>>
      /\ UNCHANGED <<pc, mode, turns, rounds, asked, reply>>

(* execute_tool, or reading the call's input, raises: nothing of the round *)
(* is kept, also not what an earlier call of it previewed.                 *)
ToolRaises(l) ==
  /\ pc[l] = "run" /\ Len(results[l]) < Len(reply[l].calls)
  /\ End(l)

(* on_confirm raises before it has saved anything.  If it raises later the *)
(* conversation ends as by AskRaises or Limit after FinishRound.           *)
ConfirmRaises(l) ==
  /\ pc[l] = "run" /\ Len(results[l]) = Len(reply[l].calls)
  /\ mode[l].confirms /\ previews[l] # <<>>
  /\ End(l)

EndRound(l) ==
  /\ pc[l] = "run"
  /\ Len(results[l]) = Len(reply[l].calls)
  /\ Say(l, Turn("user", FALSE, <<>>, results[l]))
  /\ results' = [results EXCEPT ![l] = <<>>]
  /\ previews' = [previews EXCEPT ![l] = <<>>]
  /\ GoTo(l, "ask")
  /\ UNCHANGED <<mode, rounds, asked, reply, previewed>>

=============================================================================
