--------------------------- MODULE MCBotChannels ----------------------------
(* A thread that posts two requests, the second while the first may still  *)
(* be under way.  One request has a blank chunk, one has a line longer     *)
(* than the limit and one that Discord does not take.                      *)
EXTENDS BotChannels

TextLine(len) == [length |-> len, blank |-> FALSE]
BlankLine     == [length |-> 3, blank |-> TRUE]

MCHeader == TextLine(1)
MCTexts  == { <<TextLine(2), BlankLine, TextLine(5)>>, <<TextLine(6)>> }

(* Of two pairs with one name the last counts; one pair has no id.         *)
MCPairs  == << [name |-> "dev", cid |-> 7], [name |-> "dev", cid |-> 8], [name |-> "qa", cid |-> NotAnId] >>
=============================================================================
