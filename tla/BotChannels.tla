---------------------------- MODULE BotChannels -----------------------------
(***************************************************************************)
(* channels.py and send_with_retry of discord_comms.py: the message_bot    *)
(* tool posts a request in another bot's channel.  The tool runs in a      *)
(* worker thread, hands a coroutine to the event loop of its bot and waits *)
(* 30 seconds for it; the coroutine posts the request chunk by chunk and   *)
(* sends a chunk again after an error that may be transient.  The thread's *)
(* wait ending does not end the coroutine, and an error of a send does not *)
(* tell whether the message was posted.                                    *)
(***************************************************************************)
EXTENDS Messages

CONSTANTS
  Threads,     \* worker threads that run the tool
  BotPairs,    \* BOT_CHANNELS: a sequence of pairs of a name and a channel id
  NotAnId,     \* the second part of a pair that is not a number
  Texts,       \* the requests considered, without their header
  Targets,     \* the targets asked for, which the map may not know
  Header,      \* the line _format_request puts first
  Retries,     \* attempts of send_with_retry, 3
  PostLimit,   \* Discord's own limit on a message, 2000
  MaxCalls,    \* bound on the calls of the tool
  MaxChat      \* bound on the other messages in the channels

ASSUME BotChannelsAssumption ==
  /\ Header \in Line /\ \A text \in Texts : text \in Seq(Line)
  /\ Retries \in Nat \ {0}
  /\ PostLimit \in Nat /\ Limit <= PostLimit
  /\ MaxCalls \in Nat /\ MaxChat \in Nat

VARIABLES
  thread,   \* per thread the number of the send it waits for, 0 for none
  sends,    \* the coroutines, in the order in which they were created
  inbox     \* per channel its messages

vars == <<thread, sends, inbox>>

(* BotChannelMap: of the pairs that parse, the last one of a name counts.  *)
NoChannel == 0
Pairs(name) == {k \in DOMAIN BotPairs : BotPairs[k].name = name /\ BotPairs[k].cid # NotAnId}
ChannelOf(name) ==
  IF Pairs(name) = {} THEN NoChannel ELSE BotPairs[Max(Pairs(name))].cid
Channels == {ChannelOf(n) : n \in Targets} \ {NoChannel}

(* What send_to_bot posts, blank chunks left out.                          *)
Body(text)  == <<Header>> \o text
Spoken(cut) == FoldLeft(LAMBDA kept, c : IF Blank(c) THEN kept ELSE Append(kept, c), <<>>, cut)
Chunks      == [text \in Texts |-> Spoken(SplitMessage(Body(text)))]

Results == {"delivered", "unknown", "not_visible", "failed"}

(* state: what the coroutine does or returned; told: what the tool said.   *)
Send == [target  : Targets,
         text    : Texts,
         state   : {"created", "posting"} \cup Results,
         next    : Nat \ {0},     \* the chunk it is at
         attempt : 0..(Retries - 1),
         told    : {"nothing", "timed_out"} \cup Results]

Post == [author : Authors, text : BOOLEAN, send : Nat, chunk : Nat]

TypeOK ==
  /\ thread \in [Threads -> 0..Len(sends)]
  /\ sends \in Seq(Send)
  /\ inbox \in [Channels -> Seq(Post)]

Init ==
  /\ thread = [t \in Threads |-> 0]
  /\ sends = <<>>
  /\ inbox = [c \in Channels |-> <<>>]

-----------------------------------------------------------------------------
(* The thread: MessageBotDispatcher.execute and send_to_bot_threadsafe.    *)

(* A call without target or request returns at once and changes nothing.   *)
Execute(t) ==
  /\ thread[t] = 0
  /\ Len(sends) < MaxCalls
  /\ \E to \in Targets, text \in Texts :
       sends' = Append(sends, [target |-> to, text |-> text, state |-> "created",
                               next |-> 1, attempt |-> 0, told |-> "nothing"])
  /\ thread' = [thread EXCEPT ![t] = Len(sends) + 1]
  /\ UNCHANGED inbox

Tells(t, what) ==
  /\ sends' = [sends EXCEPT ![thread[t]].told = what]
  /\ thread' = [thread EXCEPT ![t] = 0]
  /\ UNCHANGED inbox

Answer(t) ==
  /\ thread[t] # 0
  /\ sends[thread[t]].state \in Results
  /\ Tells(t, sends[thread[t]].state)

\* Mutants of TimeOut: the thread waits without limit; the answer does not
\* tell a timeout from a failure.
TimeOutNever(t)  == FALSE /\ UNCHANGED vars
TimeOutFailed(t) ==
  /\ thread[t] # 0
  /\ sends[thread[t]].state \notin Results
  /\ Tells(t, "failed")

(* "Failed to deliver": the coroutine goes on.                             *)
TimeOut(t) ==
  /\ thread[t] # 0
  /\ sends[thread[t]].state \notin Results
  /\ Tells(t, "timed_out")

-----------------------------------------------------------------------------
(* The coroutine: send_to_bot, and send_with_retry for each chunk.         *)

Returns(n, result) == sends' = [sends EXCEPT ![n].state = result]

(* Up to the first send; the channel may not be visible to the bot.        *)
Begin(n) ==
  /\ sends[n].state = "created"
  /\ \/ ChannelOf(sends[n].target) = NoChannel /\ Returns(n, "unknown")
     \/ /\ ChannelOf(sends[n].target) # NoChannel
        /\ (Returns(n, "posting") \/ Returns(n, "not_visible"))
  /\ UNCHANGED <<thread, inbox>>

Chunk(n) == Chunks[sends[n].text][sends[n].next]

Posts(n) ==
  LET c == ChannelOf(sends[n].target)
  IN  inbox' = [inbox EXCEPT ![c] = Append(@, [author |-> "requester", text |-> TRUE,
                                               send |-> n, chunk |-> sends[n].next])]

(* Discord takes no message longer than its limit.                         *)
Postable(n) == sends[n].state = "posting" /\ Length(Chunk(n)) <= PostLimit

NextChunk(n) ==
  IF sends[n].next = Len(Chunks[sends[n].text])
  THEN Returns(n, "delivered")
  ELSE sends' = [sends EXCEPT ![n].next = @ + 1, ![n].attempt = 0]

PostSucceeds(n) ==
  /\ Postable(n)
  /\ Posts(n)
  /\ NextChunk(n)
  /\ UNCHANGED thread

\* Mutants of Retry: one attempt too many; the last error is not raised; the
\* text is sent again from its start.
RetryOnceMore(n) ==
  IF sends[n].attempt = Retries
  THEN Returns(n, "failed")
  ELSE sends' = [sends EXCEPT ![n].attempt = @ + 1]
RetryQuietly(n) ==
  IF sends[n].attempt = Retries - 1
  THEN NextChunk(n)
  ELSE sends' = [sends EXCEPT ![n].attempt = @ + 1]
RetryWhole(n) ==
  IF sends[n].attempt = Retries - 1
  THEN Returns(n, "failed")
  ELSE sends' = [sends EXCEPT ![n].next = 1, ![n].attempt = @ + 1]

(* The last attempt's error is raised, and ends the coroutine.             *)
Retry(n) ==
  IF sends[n].attempt = Retries - 1
  THEN Returns(n, "failed")
  ELSE sends' = [sends EXCEPT ![n].attempt = @ + 1]

(* DiscordServerError, ClientConnectorError or OSError, before the message *)
(* was posted or after.                                                    *)
PostErrs(n) ==
  /\ sends[n].state = "posting"
  /\ UNCHANGED inbox \/ (Postable(n) /\ Posts(n))
  /\ Retry(n)
  /\ UNCHANGED thread

(* Any other exception: the message is too long, or not allowed.           *)
PostRefused(n) ==
  /\ sends[n].state = "posting"
  /\ Returns(n, "failed")
  /\ UNCHANGED <<thread, inbox>>

SendStep(n) == Begin(n) \/ PostSucceeds(n) \/ PostErrs(n) \/ PostRefused(n)

-----------------------------------------------------------------------------
(* The bot that owns the channel, and people, post there as well.          *)
Chatted == MapThenSumSet(LAMBDA c : Len(SelectSeq(inbox[c], LAMBDA p : p.send = 0)), Channels)

Chat(c) ==
  /\ Chatted < MaxChat
  /\ \E a \in {"target", "human"}, text \in BOOLEAN :
       inbox' = [inbox EXCEPT ![c] = Append(@, [author |-> a, text |-> text, send |-> 0, chunk |-> 0])]
  /\ UNCHANGED <<thread, sends>>

Next == \/ \E t \in Threads : Execute(t) \/ Answer(t) \/ TimeOut(t)
        \/ \E n \in DOMAIN sends : SendStep(n)
        \/ \E c \in Channels : Chat(c)

Spec == Init /\ [][Next]_vars

(* A thread that waits is woken by the result or by its timer.  Nothing is *)
(* assumed of the event loop: it may be blocked, by this very thread.      *)
FairSpec == Spec /\ \A t \in Threads : WF_vars(Answer(t) \/ TimeOut(t))

-----------------------------------------------------------------------------
(* Where the chunks of a request are in its channel.                       *)
Inbox(n)     == inbox[ChannelOf(sends[n].target)]
PostsOf(n)   == {i \in DOMAIN Inbox(n) : Inbox(n)[i].send = n}
Copies(n, k) == {i \in PostsOf(n) : Inbox(n)[i].chunk = k}

(* A request the tool calls delivered is in the channel whole: every line  *)
(* with text of the request was in some posted chunk, in spite of the cut, *)
(* the blank chunks and the errors on the way.                             *)
LinesOf(text)  == {line \in ToSet(Body(text)) : ~line.blank}
LinesPosted(n) == UNION {ToSet(Chunks[sends[n].text][Inbox(n)[i].chunk]) : i \in PostsOf(n)}

DeliveredIsWhole ==
  \A n \in DOMAIN sends : sends[n].told = "delivered" => LinesOf(sends[n].text) \subseteq LinesPosted(n)

(* What that asks of the cut alone: no line with text is lost with the     *)
(* blank chunks.                                                           *)
CutCovers(text) == LinesOf(text) \subseteq UNION {ToSet(Chunks[text][k]) : k \in 1..Len(Chunks[text])}

(* The chunks of a request appear in order, repeated at most Retries times *)
(* each, however many errors came after the message was posted.            *)
InOrder(n) == \A i, j \in PostsOf(n) : i < j => Inbox(n)[i].chunk <= Inbox(n)[j].chunk

CopiesAreFewAndInOrder ==
  \A n \in DOMAIN sends : ChannelOf(sends[n].target) # NoChannel =>
    /\ InOrder(n)
    /\ \A k \in DOMAIN Chunks[sends[n].text] : Cardinality(Copies(n, k)) <= Retries

(* After any answer but a timeout nothing of the request is posted any     *)
(* more, so that the model that reads the answer can act on it.            *)
AnswerIsFinal ==
  [][\A n \in DOMAIN sends : sends[n].told \in Results /\ ChannelOf(sends[n].target) # NoChannel =>
       PostsOf(n)' = PostsOf(n)]_vars

(* The cut keeps the text, line by line, and no chunk is longer than the   *)
(* limit unless it is one line.                                            *)
CutIsFaithful ==
  \A n \in DOMAIN sends :
    LET cut == SplitMessage(Body(sends[n].text))
    IN  /\ FlattenSeq(cut) = Body(sends[n].text)
        /\ \A k \in DOMAIN cut : Length(cut[k]) <= Limit \/ Len(cut[k]) = 1

(* The history of a channel begins with a user turn and alternates, as the *)
(* API demands, and has every message with text of the window from the     *)
(* first user message on, in order: under both ways to know the bot.       *)
FirstUser(by, posts) ==
  LET us == {i \in DOMAIN posts : Role(by, posts[i]) = "user"}
  IN  IF us = {} THEN Len(posts) + 1 ELSE Min(us)

HistoryIsFaithful ==
  \A c \in Channels, by \in ByIds :
    LET h == BuildHistory(by, inbox[c])
        w == Window(inbox[c])
    IN  /\ \A i \in DOMAIN h : h[i].role = IF i % 2 = 1 THEN "user" ELSE "assistant"
        /\ FlattenSeq([i \in DOMAIN h |-> h[i].content]) = SubSeq(w, FirstUser(by, w), Len(w))

(* Every call of the tool returns, also when the event loop never runs its *)
(* coroutine.                                                              *)
CallsReturn == \A t \in Threads : (thread[t] # 0) ~> (thread[t] = 0)

=============================================================================
