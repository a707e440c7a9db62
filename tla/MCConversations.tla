-------------------------- MODULE MCConversations ---------------------------
(* Two conversations in one channel: a streams from an OpenAI-compatible   *)
(* API, b asks Anthropic's.                                                *)
EXTENDS Conversations, TLC

CONSTANTS a, b, c1

Call(tool, confirmed) == [tool |-> tool, confirmed |-> confirmed]
Move  == Call("manage_files", FALSE)
Moved == Call("manage_files", TRUE)
Plan  == Call("manage_schedule", FALSE)

Answer(end, text, calls) == [end |-> end, text |-> text, calls |-> calls]
Done == Answer("complete", TRUE, <<>>)

MCAnswers ==
     (a :> { Done, Answer("calls", FALSE, <<Plan>>), Answer("calls", TRUE, <<Moved, Move>>) })
  @@ (b :> { Answer("cut", TRUE, <<>>), Answer("calls", FALSE, <<Move, Move>>) })

Mode(api, stream) == [api |-> api, stream |-> stream, upgrade |-> TRUE, confirms |-> TRUE]

MCModes == (a :> { Mode("openai", TRUE) })
        @@ (b :> { Mode("anthropic", FALSE) })

MCChannelOf == [l \in Loops |-> c1]
=============================================================================
