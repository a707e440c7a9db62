------------------------------ MODULE Messages ------------------------------
(***************************************************************************)
(* The message helpers of discord_comms.py: split_message, which cuts a    *)
(* text into messages, and build_history, which makes a conversation of a  *)
(* channel's messages.  A text is the sequence of its lines; of a line     *)
(* only its length and whether it is blank matter.                         *)
(***************************************************************************)
EXTENDS Naturals, SequencesExt

CONSTANTS
  Limit,        \* the limit of split_message, 1900
  HistoryLimit  \* the limit of build_history, 15

ASSUME MessagesAssumption == Limit \in Nat \ {0} /\ HistoryLimit \in Nat \ {0}

Line == [length : Nat, blank : BOOLEAN]

Length(lines) == FoldLeft(LAMBDA n, line : n + line.length, 0, lines)
Blank(lines)  == \A i \in DOMAIN lines : lines[i].blank

\* Mutant of Fits: the limit is compared with what is there already.
FitsAlready(current, line) == Length(current) < Limit

Fits(current, line) == Length(current) + line.length <= Limit

(* One turn of the loop over the lines.                                    *)
AddLine(cut, line) ==
  IF cut.current = <<>> \/ Fits(cut.current, line)
  THEN [cut EXCEPT !.current = Append(@, line)]
  ELSE [chunks |-> Append(cut.chunks, cut.current), current |-> <<line>>]

Flushed(cut) == IF cut.current = <<>> THEN cut.chunks ELSE Append(cut.chunks, cut.current)

SplitMessage(text) ==
  IF Length(text) <= Limit
  THEN <<text>>
  ELSE Flushed(FoldLeft(AddLine, [chunks |-> <<>>, current |-> <<>>], text))

-----------------------------------------------------------------------------
(* A channel's message is made of its author and of whether it has text.   *)
(* Authors are told apart by bot_user_id, or all bots are the assistant.   *)
Authors == {"requester", "target", "human"}
ByIds   == {"bot_user_id", "author.bot"}

Role(by, post) ==
  IF by = "bot_user_id"
  THEN IF post.author = "target" THEN "assistant" ELSE "user"
  ELSE IF post.author = "human" THEN "user" ELSE "assistant"

WithText(posts) == FoldLeft(LAMBDA kept, p : IF p.text THEN Append(kept, p) ELSE kept, <<>>, posts)

(* The last messages of the channel, those without text left out.          *)
Window(posts) ==
  LET from == IF Len(posts) > HistoryLimit THEN Len(posts) - HistoryLimit + 1 ELSE 1
  IN  WithText(SubSeq(posts, from, Len(posts)))

\* Mutant of Merge: every message is a turn of its own.
MergeNone(by, turns, post) == Append(turns, [role |-> Role(by, post), content |-> <<post>>])

(* Consecutive messages of one role are one turn.                          *)
Merge(by, turns, post) ==
  IF turns # <<>> /\ Last(turns).role = Role(by, post)
  THEN [turns EXCEPT ![Len(turns)].content = Append(@, post)]
  ELSE Append(turns, [role |-> Role(by, post), content |-> <<post>>])

(* Leading assistant turns are dropped; after merging there is at most one.*)
DropLeading(turns) ==
  IF turns # <<>> /\ Head(turns).role = "assistant" THEN Tail(turns) ELSE turns

BuildHistory(by, posts) ==
  DropLeading(FoldLeft(LAMBDA turns, p : Merge(by, turns, p), <<>>, Window(posts)))
=============================================================================
