--------------------------- MODULE Conversations ----------------------------
(***************************************************************************)
(* The conversations of a bot with the confirmations they ask for: at the  *)
(* end of a round on_confirm saves the round's previews for the channel,   *)
(* while users answer and click at any time.                               *)
(***************************************************************************)
EXTENDS ToolLoop, Confirmations

CONSTANT ChannelOf   \* [Loops -> Channels]

ASSUME ConversationsAssumption == ChannelOf \in [Loops -> Channels]

vars == <<loopVars, confirmVars>>

Init == InitLoops /\ InitConfirmations

(* confirmed_inputs: the call it previews, with confirmed set.             *)
Actions(l, ids) == [k \in DOMAIN ids |-> [loop |-> l, id |-> ids[k]]]

\* Mutant of RunTool: on_confirm is called for every preview.
RunToolSaving(l) ==
  /\ Execute(l)
  /\ IF previews'[l] # previews[l]
       THEN Save(ChannelOf[l], Actions(l, <<Last(previews'[l])>>))
       ELSE UNCHANGED confirmVars

RunTool(l) == Execute(l) /\ UNCHANGED confirmVars

(* on_confirm is the bot's; it hands the batch to ConfirmationManager.save.*)
FinishRound(l) ==
  /\ EndRound(l)
  /\ IF mode[l].confirms /\ previews[l] # <<>>
       THEN Save(ChannelOf[l], Actions(l, previews[l]))
       ELSE UNCHANGED confirmVars

TalkStep(l) ==
  \/ Start(l)
  \/ Complete(l) \/ OpenStream(l) \/ StreamText(l) \/ StreamCall(l) \/ StreamEnd(l)
  \/ AskRaises(l) \/ Limit(l) \/ EndTurn(l)
  \/ AskBetter(l) \/ Upgrade(l) \/ AssistantTurn(l)
  \/ ToolRaises(l) \/ ConfirmRaises(l)

LoopStep(l) == \/ TalkStep(l) /\ UNCHANGED confirmVars
               \/ RunTool(l)
               \/ FinishRound(l)

Next == (\E l \in Loops : LoopStep(l)) \/ (ConfirmStep /\ UNCHANGED loopVars)

Spec == Init /\ [][Next]_vars

-----------------------------------------------------------------------------
Id     == [round : Nat, asked : Nat, at : Nat]
Action == [loop : Loops, id : Id]
Batch  == [serial : Nat, actions : Seq(Action)]
Said   == [role : {"user", "assistant"}, text : BOOLEAN, calls : Seq(Id), results : Seq(Id)]
Reply  == [stop : {"none", "end_turn", "tool_use"}, text : BOOLEAN, calls : Seq(ToolCall)]

TypeOK ==
  /\ pc \in [Loops -> {"new", "ask", "stream", "got", "upgrade", "tools", "run", "ended"}]
  /\ \A l \in Loops : mode[l] \in Modes[l]
  /\ rounds \in [Loops -> 0..MaxRounds]
  /\ asked \in [Loops -> 0..(2 * MaxRounds)]
  /\ turns \in [Loops -> Seq(Said)]
  /\ reply \in [Loops -> Reply]
  /\ results \in [Loops -> Seq(Id)]
  /\ previews \in [Loops -> Seq(Id)]
  /\ previewed \subseteq Action
  /\ pending \in [Channels -> Batch]
  /\ saves \in Nat
  /\ view \in [Views -> [at : {"unsent", "open", "stopped"}, channel : Channels]]
  /\ confirming \in [Views -> 0..MaxClicks] /\ cancelling \in [Views -> 0..MaxClicks]
  /\ ran \in [Channels -> Seq(Batch)]
  /\ cleared \subseteq Nat

(* What the APIs require of a request: in the messages every tool_use of   *)
(* an assistant turn is answered by a tool_result of the turn that follows,*)
(* in order, and nothing else is; also after an upgrade, which drops the   *)
(* calls of the answer it replaces.                                        *)
CallsAnswered ==
  \A l \in Loops : pc[l] = "ask" =>
    \A k \in DOMAIN turns[l] :
      LET t == turns[l][k]
      IN  /\ (t.role = "assistant") = (k % 2 = 0)
          /\ t.role = "assistant" => /\ k < Len(turns[l])
                                     /\ turns[l][k + 1].results = t.calls
          /\ t.role = "user" => t.calls = <<>>

(* And in the OpenAI form of the conversation every assistant message with *)
(* tool_calls is immediately followed by the tool messages that answer     *)
(* them, and there are no other tool messages.                             *)
ToolMessagesFollow ==
  \A l \in Loops : pc[l] = "ask" =>
    LET ms == ToOpenAI(turns[l])
    IN  /\ \A k \in DOMAIN ms : \A j \in DOMAIN ms[k].calls :
             k + j \in DOMAIN ms /\ ms[k + j] = Message("tool", <<>>, ms[k].calls[j])
        /\ \A k \in DOMAIN ms : ms[k].role = "tool" =>
             \E i \in 1..(k - 1) : k - i \in DOMAIN ms[i].calls

(* What a "yes" or a click runs is what one round showed: all previews of  *)
(* the round, in their order, and nothing of another round.                *)
ShownIn(l, r) == {p \in previewed : p.loop = l /\ p.id.round = r}

BatchOf(b) ==
  \E l \in Loops, r \in 1..MaxRounds :
    /\ {b.actions[k] : k \in DOMAIN b.actions} = ShownIn(l, r)
    /\ \A j, k \in DOMAIN b.actions : j < k => b.actions[j].id.at < b.actions[k].id.at

WholeRound ==
  \A c \in Channels : /\ pending[c] # NoBatch => BatchOf(pending[c])
                      /\ \A k \in DOMAIN ran[c] : BatchOf(ran[c][k])

(* The loop, the queue and the buttons keep what Consent promises: whoever *)
(* types or clicks, and whenever an edit ends, every step shows one action *)
(* more, closes a round and lets its batch wait in place of the one before,*)
(* ends a conversation and with it the round in which a tool raised, whose *)
(* previews never wait, or takes the whole batch out once; all else leaves *)
(* users' consent alone.                                                   *)
Agreed == INSTANCE Consent WITH
  asks    <- [l \in Loops |-> mode[l].confirms],
  shown   <- [r \in Loops \X (1..MaxRounds) |-> ShownIn(r[1], r[2])],
  over    <- {r \in Loops \X (1..MaxRounds) :
                ShownIn(r[1], r[2]) # {} /\ ~(pc[r[1]] = "run" /\ rounds[r[1]] = r[2])},
  ended   <- {l \in Loops : pc[l] = "ended"},
  waiting <- [c \in Channels |-> ToSet(pending[c].actions)],
  run     <- [c \in Channels |-> [k \in DOMAIN ran[c] |-> ToSet(ran[c][k].actions)]]

KeepsConsent == Agreed!Spec
=============================================================================
