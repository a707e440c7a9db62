------------------------- MODULE ConversationsProofs -------------------------
(***************************************************************************)
(* Conversations and their confirmations, for any conversations, channels, *)
(* views, answers of the model and bounds: the calls of every assistant    *)
(* turn are answered, what is confirmed is what one round showed, a batch  *)
(* is run at most once and in order, and never after it was cancelled; and *)
(* all of it implements Consent.                                           *)
(***************************************************************************)
EXTENDS Conversations, SequenceTheorems, WellFoundedInduction, TLAPS

(* The round whose tools run, or that comes next: a step that asks begins  *)
(* a round, and an answer was received for it, or two with an upgrade.     *)
Asking == {"stream", "got", "upgrade", "tools", "run"}

Counted(l) ==
  /\ pc[l] = "new" => rounds[l] = 0
  /\ pc[l] \in Asking => rounds[l] >= 1
  /\ asked[l] <= 2 * rounds[l]
  /\ pc[l] \in {"got", "upgrade"} => asked[l] < 2 * rounds[l]
  /\ pc[l] = "stream" => asked[l] + 1 < 2 * rounds[l]

(* User and assistant turns alternate, the first answers no calls, and up  *)
(* to the last the calls of an assistant turn are answered by the next.    *)
Alternate(ts) ==
  \A k \in DOMAIN ts : /\ (ts[k].role = "assistant") = (k % 2 = 0)
                       /\ ts[k].role = "user" => ts[k].calls = <<>>
                       /\ k = 1 => ts[k].results = <<>>

Answered(ts) ==
  \A k \in DOMAIN ts : ts[k].role = "assistant" /\ k < Len(ts) => ts[k + 1].results = ts[k].calls

(* While the tools run, the last turn makes the calls of the reply, and    *)
(* the results so far answer the first of them.                            *)
Dialogue(l) ==
  /\ Alternate(turns[l]) /\ Answered(turns[l])
  /\ pc[l] \in {"ask", "stream", "got", "upgrade", "tools"} => Len(turns[l]) % 2 = 1
  /\ pc[l] = "run" => /\ Len(turns[l]) > 0 /\ Len(turns[l]) % 2 = 0
                      /\ turns[l][Len(turns[l])].calls = CallIds(l)
                      /\ Len(results[l]) <= Len(reply[l].calls)
                      /\ \A k \in DOMAIN results[l] : results[l][k] = CallId(l, k)
  /\ pc[l] # "run" => results[l] = <<>> /\ previews[l] = <<>>

(* The previews of a round are those its tools have shown so far.  Before  *)
(* its tools run a round has shown none.                                   *)
Shown(l) ==
  /\ pc[l] = "run" =>
       /\ {[loop |-> l, id |-> previews[l][k]] : k \in DOMAIN previews[l]} = ShownIn(l, rounds[l])
       /\ \A k \in DOMAIN previews[l] : previews[l][k].at <= Len(results[l])
       /\ \A j, k \in DOMAIN previews[l] : j < k => previews[l][j].at < previews[l][k].at
  /\ pc[l] # "ended" => \A p \in previewed : p.loop = l =>
       /\ p.id.round <= rounds[l]
       /\ pc[l] \in Asking \ {"run"} => p.id.round < rounds[l]

(* A round whose tools have all run, and a batch of such a round.          *)
Over(l, r) == \/ pc[l] = "ended"
              \/ r < rounds[l]
              \/ r = rounds[l] /\ pc[l] = "ask"

IsRound(b, l, r) ==
  /\ {b.actions[k] : k \in DOMAIN b.actions} = ShownIn(l, r)
  /\ \A j, k \in DOMAIN b.actions : j < k => b.actions[j].id.at < b.actions[k].id.at

Sealed(b) == \E l \in Loops, r \in 1..MaxRounds : Over(l, r) /\ IsRound(b, l, r)

LoopInv == \A l \in Loops : Counted(l) /\ Dialogue(l) /\ Shown(l)

SealedInv == \A c \in Channels : /\ pending[c] # NoBatch => Sealed(pending[c])
                                 /\ \A k \in DOMAIN ran[c] : Sealed(ran[c][k])

(* A serial is given once: the batch that waits in a channel is not one    *)
(* that waits in another, was run, or was cleared, and it is younger than  *)
(* those that were run there.                                              *)
Waits(c) == pending[c] # NoBatch

SerialInv ==
  /\ \A c \in Channels : Waits(c) => pending[c].serial <= saves /\ pending[c].serial \notin cleared
  /\ \A c, d \in Channels : Waits(c) /\ Waits(d) /\ c # d => pending[c].serial # pending[d].serial
  /\ \A c, d \in Channels : \A i \in DOMAIN ran[d] :
       Waits(c) => pending[c].serial # ran[d][i].serial
  /\ \A c \in Channels : \A i \in DOMAIN ran[c] :
       /\ ran[c][i].serial <= saves
       /\ Waits(c) => ran[c][i].serial < pending[c].serial
  /\ \A s \in cleared : s <= saves
  /\ RunOnceInOrder
  /\ ClearedNeverRuns

(* TypeOK, in the two parts that a step changes one of.                    *)
LoopTypeOK ==
  /\ pc \in [Loops -> {"new", "ask", "stream", "got", "upgrade", "tools", "run", "ended"}]
  /\ \A l \in Loops : mode[l] \in Modes[l]
  /\ turns \in [Loops -> Seq(Said)]
  /\ rounds \in [Loops -> 0..MaxRounds]
  /\ asked \in [Loops -> 0..(2 * MaxRounds)]
  /\ reply \in [Loops -> Reply]
  /\ results \in [Loops -> Seq(Id)]
  /\ previews \in [Loops -> Seq(Id)]
  /\ previewed \subseteq Action

ConfirmTypeOK ==
  /\ pending \in [Channels -> Batch]
  /\ saves \in Nat
  /\ view \in [Views -> [at : {"unsent", "open", "stopped"}, channel : Channels]]
  /\ confirming \in [Views -> 0..MaxClicks] /\ cancelling \in [Views -> 0..MaxClicks]
  /\ ran \in [Channels -> Seq(Batch)]
  /\ cleared \subseteq Nat

IInv == LoopTypeOK /\ ConfirmTypeOK /\ LoopInv /\ SealedInv /\ SerialInv

-----------------------------------------------------------------------------
(* What every step of a conversation does: it leaves the others alone,     *)
(* keeps its own invariants, and a round that is over stays so and shows   *)
(* nothing more.                                                           *)
Others(l) ==
  /\ \A m \in Loops \ {l} :
       /\ pc'[m] = pc[m] /\ turns'[m] = turns[m] /\ rounds'[m] = rounds[m]
       /\ asked'[m] = asked[m] /\ reply'[m] = reply[m] /\ results'[m] = results[m]
       /\ previews'[m] = previews[m]
  /\ previewed \subseteq previewed'
  /\ \A p \in previewed' \ previewed : p.loop = l

Keeps(l) ==
  /\ LoopTypeOK'
  /\ Others(l)
  /\ (Counted(l) /\ Dialogue(l) /\ Shown(l))'
  /\ \A r \in 1..MaxRounds : Over(l, r) => Over(l, r)' /\ ShownIn(l, r)' = ShownIn(l, r)

LEMMA OthersKeep ==
  ASSUME LoopInv, NEW l \in Loops, NEW m \in Loops, m # l, Others(l)
  PROVE  /\ (Counted(m) /\ Dialogue(m) /\ Shown(m))'
         /\ \A r : ShownIn(m, r)' = ShownIn(m, r)
         /\ \A r : Over(m, r)' = Over(m, r)
<1>1. /\ pc'[m] = pc[m] /\ turns'[m] = turns[m] /\ rounds'[m] = rounds[m]
      /\ asked'[m] = asked[m] /\ reply'[m] = reply[m] /\ results'[m] = results[m]
      /\ previews'[m] = previews[m]
  BY DEF Others
<1>2. \A r : ShownIn(m, r)' = ShownIn(m, r)
  BY DEF Others, ShownIn
<1>3. Counted(m)'
  BY <1>1 DEF LoopInv, Counted
<1>4. CallIds(m)' = CallIds(m) /\ \A k : CallId(m, k)' = CallId(m, k)
  BY <1>1 DEF CallIds, CallId
<1>5. Dialogue(m)'
  <2>1. Dialogue(m)
    BY DEF LoopInv
  <2>. QED
    BY <1>1, <1>4, <2>1 DEF Dialogue
<1>6. Shown(m)'
  <2>1. Shown(m)
    BY DEF LoopInv
  <2>2. pc[m] = "run" => ShownIn(m, rounds[m])' = ShownIn(m, rounds[m])
    BY <1>1, <1>2
  <2>3. \A p \in previewed' : p.loop = m => p \in previewed
    BY DEF Others
  <2>. QED
    BY <1>1, <2>1, <1>2, <2>3 DEF Shown
<1>7. \A r : Over(m, r)' = Over(m, r)
  BY <1>1 DEF Over
<1>. QED
  BY <1>2, <1>3, <1>5, <1>6, <1>7

(* A batch is sealed after the step; for a batch of the next state.        *)
SealedNext(b) ==
  \E l \in Loops, r \in 1..MaxRounds :
    /\ Over(l, r)'
    /\ {b.actions[k] : k \in DOMAIN b.actions} = ShownIn(l, r)'
    /\ \A j, k \in DOMAIN b.actions : j < k => b.actions[j].id.at < b.actions[k].id.at

LEMMA KeepsEnough ==
  ASSUME LoopInv, NEW l \in Loops, Keeps(l)
  PROVE  LoopInv' /\ \A b : Sealed(b) => SealedNext(b)
<1>1. LoopInv'
  BY OthersKeep DEF Keeps, LoopInv
<1>2. ASSUME NEW m \in Loops, NEW r \in 1..MaxRounds, Over(m, r)
      PROVE  Over(m, r)' /\ ShownIn(m, r)' = ShownIn(m, r)
  <2>1. CASE m = l
    BY <1>2, <2>1 DEF Keeps
  <2>2. CASE m # l
    BY <1>2, <2>2, OthersKeep DEF Keeps
  <2>. QED
    BY <2>1, <2>2
<1>3. ASSUME NEW b, Sealed(b)
      PROVE  SealedNext(b)
  <2>1. PICK m \in Loops, r \in 1..MaxRounds : Over(m, r) /\ IsRound(b, m, r)
    BY <1>3 DEF Sealed
  <2>2. Over(m, r)' /\ ShownIn(m, r)' = ShownIn(m, r)
    BY <2>1, <1>2
  <2>. QED
    BY <2>1, <2>2 DEF IsRound, SealedNext
<1>. QED
  BY <1>1, <1>3

-----------------------------------------------------------------------------
(* The steps of a conversation, one lemma each or one for those that only  *)
(* ask for an answer and receive it.                                       *)

LEMMA QuietKeeps ==
  ASSUME LoopTypeOK, LoopInv, NEW l \in Loops,
         NEW where \in {"stream", "got", "upgrade", "tools"},
         NEW n \in 0..MaxRounds, NEW q \in Nat, NEW r \in Reply,
         pc[l] \in {"ask", "stream", "got", "upgrade"},
         n = IF pc[l] = "ask" THEN rounds[l] + 1 ELSE rounds[l],
         q <= 2 * n,
         where \in {"got", "upgrade"} => q < 2 * n,
         where = "stream" => q + 1 < 2 * n,
         pc' = [pc EXCEPT ![l] = where],
         rounds' = [rounds EXCEPT ![l] = n],
         asked' = [asked EXCEPT ![l] = q],
         reply' = [reply EXCEPT ![l] = r],
         UNCHANGED <<mode, turns, results, previews, previewed>>
  PROVE  Keeps(l)
<1>1. MaxRounds \in Nat /\ rounds[l] \in Nat /\ q \in 0..(2 * MaxRounds)
  BY ToolLoopAssumption DEF LoopTypeOK
<1>2. LoopTypeOK'
  BY <1>1 DEF LoopTypeOK
<1>3. /\ pc'[l] = where /\ rounds'[l] = n /\ asked'[l] = q
      /\ turns'[l] = turns[l] /\ results'[l] = results[l] /\ previews'[l] = previews[l]
  BY DEF LoopTypeOK
<1>4. Others(l)
  BY DEF Others, LoopTypeOK
<1>5. Counted(l) /\ Dialogue(l) /\ Shown(l)
  BY DEF LoopInv
<1>6. Counted(l)'
  BY <1>1, <1>3, <1>5 DEF Counted, Asking
<1>7. Dialogue(l)'
  BY <1>3, <1>5 DEF Dialogue
<1>8. Shown(l)'
  <2>1. ASSUME NEW p \in previewed, p.loop = l
        PROVE  p.id.round < n
    <3>1. p.id.round \in Nat
      BY DEF LoopTypeOK, Action, Id
    <3>. QED
      BY <1>1, <1>5, <2>1, <3>1 DEF Shown, Asking
  <2>2. \A p \in previewed : p.id.round \in Nat
    BY DEF LoopTypeOK, Action, Id
  <2>. QED
    BY <1>3, <2>1, <2>2 DEF Shown
<1>9. ASSUME NEW k \in 1..MaxRounds, Over(l, k)
      PROVE  Over(l, k)' /\ ShownIn(l, k)' = ShownIn(l, k)
  BY <1>1, <1>3, <1>9 DEF Over, ShownIn
<1>. QED
  BY <1>2, <1>4, <1>6, <1>7, <1>8, <1>9 DEF Keeps

LEMMA StartKeeps ==
  ASSUME LoopTypeOK, LoopInv, NEW l \in Loops, Start(l)
  PROVE  Keeps(l)
<1>. DEFINE first == Turn("user", TRUE, <<>>, <<>>)
<1>1. first \in Said /\ first.role = "user" /\ first.calls = <<>> /\ first.results = <<>>
  BY DEF Turn, Said
<1>. HIDE DEF first
<1>2. turns' = [turns EXCEPT ![l] = <<first>>] /\ pc' = [pc EXCEPT ![l] = "ask"] /\ pc[l] = "new"
  BY DEF Start, GoTo, first
<1>3. LoopTypeOK'
  <2>1. <<first>> \in Seq(Said)
    BY <1>1
  <2>2. turns' \in [Loops -> Seq(Said)]
    BY <1>2, <2>1 DEF LoopTypeOK
  <2>. QED
    BY <1>2, <2>2 DEF Start, LoopTypeOK
<1>4. pc'[l] = "ask" /\ turns'[l] = <<first>>
  BY <1>2 DEF LoopTypeOK
<1>5. Others(l)
  <2>1. \A m \in Loops \ {l} : pc'[m] = pc[m] /\ turns'[m] = turns[m]
    BY <1>2 DEF LoopTypeOK
  <2>. QED
    BY <2>1 DEF Start, Others
<1>6. Counted(l) /\ Dialogue(l) /\ Shown(l) /\ rounds[l] \in Nat
  BY DEF LoopInv, LoopTypeOK
<1>7. Counted(l)'
  BY <1>2, <1>4, <1>6 DEF Start, Counted, Asking
<1>8. Dialogue(l)'
  <2>1. Len(<<first>>) = 1 /\ DOMAIN <<first>> = {1} /\ <<first>>[1] = first /\ 1 % 2 = 1
    OBVIOUS
  <2>2. Alternate(<<first>>)
    BY <1>1, <2>1 DEF Alternate
  <2>3. Answered(<<first>>)
    BY <1>1, <2>1 DEF Answered
  <2>4. results'[l] = <<>> /\ previews'[l] = <<>>
    BY <1>2, <1>6 DEF Start, Dialogue
  <2>. QED
    BY <1>4, <2>1, <2>2, <2>3, <2>4 DEF Dialogue
<1>9. Shown(l)'
  BY <1>2, <1>4, <1>6 DEF Start, Shown, Asking
<1>10. \A r \in 1..MaxRounds : Over(l, r) => Over(l, r)' /\ ShownIn(l, r)' = ShownIn(l, r)
  BY <1>2, <1>4 DEF Start, Over, ShownIn
<1>. QED
  BY <1>3, <1>5, <1>7, <1>8, <1>9, <1>10 DEF Keeps

LEMMA EndKeeps ==
  ASSUME LoopTypeOK, LoopInv, NEW l \in Loops, End(l)
  PROVE  Keeps(l)
<1>1. /\ MaxRounds \in Nat
      /\ NoReply \in Reply
  BY ToolLoopAssumption DEF NoReply, Reply
<1>2. LoopTypeOK'
  BY <1>1 DEF End, GoTo, LoopTypeOK
<1>3. /\ pc'[l] = "ended" /\ turns'[l] = <<>> /\ rounds'[l] = 0 /\ asked'[l] = 0
      /\ results'[l] = <<>> /\ previews'[l] = <<>>
  BY DEF End, GoTo, LoopTypeOK
<1>4. Others(l)
  BY DEF End, GoTo, Others, LoopTypeOK
<1>5. Counted(l)' /\ Dialogue(l)' /\ Shown(l)'
  BY <1>3 DEF Counted, Dialogue, Alternate, Answered, Shown, Asking
<1>6. \A r \in 1..MaxRounds : Over(l, r)' /\ ShownIn(l, r)' = ShownIn(l, r)
  BY <1>3 DEF End, Over, ShownIn
<1>. QED
  BY <1>2, <1>4, <1>5, <1>6 DEF Keeps

LEMMA ReceivedIsReply ==
  ASSUME NEW l \in Loops, NEW a \in Answers[l]
  PROVE  [stop |-> StopReason(mode[l].api, a.end), text |-> a.text, calls |-> a.calls] \in Reply
<1>1. a.text \in BOOLEAN /\ a.calls \in Seq(ToolCall)
  BY ToolLoopAssumption DEF ApiAnswer
<1>. QED
  BY <1>1 DEF Reply, StopReason, AnthropicStop, OpenAIStop

LEMMA StreamedIsReply ==
  ASSUME NEW l \in Loops, NEW a \in Answers[l], LoopTypeOK, IsStrictPrefix(reply[l].calls, a.calls)
  PROVE  SubSeq(a.calls, 1, Len(reply[l].calls) + 1) \in Seq(ToolCall)
<1>1. a.calls \in Seq(ToolCall) /\ reply[l].calls \in Seq(ToolCall)
  BY ToolLoopAssumption DEF ApiAnswer, LoopTypeOK, Reply
<1>2. Len(reply[l].calls) < Len(a.calls)
  <2>1. SubSeq(reply[l].calls, 1, Len(reply[l].calls)) = reply[l].calls
        /\ SubSeq(a.calls, 1, Len(a.calls)) = a.calls
    BY <1>1
  <2>. QED
    BY <1>1, <2>1 DEF IsStrictPrefix, IsPrefix
<1>. QED
  BY <1>1, <1>2

AskStep(l) ==
  \/ Complete(l) \/ OpenStream(l) \/ StreamText(l) \/ StreamCall(l) \/ StreamEnd(l)
  \/ AskBetter(l) \/ Upgrade(l)

LEMMA AskKeeps ==
  ASSUME LoopTypeOK, LoopInv, NEW l \in Loops, AskStep(l)
  PROVE  Keeps(l)
<1>1. /\ MaxRounds \in Nat
      /\ rounds[l] \in 0..MaxRounds /\ asked[l] \in Nat
      /\ reply[l] \in Reply
  BY ToolLoopAssumption DEF LoopTypeOK
<1>2. /\ asked[l] <= 2 * rounds[l]
      /\ pc[l] \in {"got", "upgrade"} => asked[l] < 2 * rounds[l]
      /\ pc[l] = "stream" => asked[l] + 1 < 2 * rounds[l]
  BY DEF LoopInv, Counted
<1>3. /\ rounds = [rounds EXCEPT ![l] = rounds[l]]
      /\ asked = [asked EXCEPT ![l] = asked[l]]
      /\ reply = [reply EXCEPT ![l] = reply[l]]
      /\ pc = [pc EXCEPT ![l] = pc[l]]
  BY DEF LoopTypeOK
<1>4. CASE Complete(l)
  <2>1. PICK a \in Answers[l] : Receive(l, a.end, a.text, a.calls)
    BY <1>4 DEF Complete
  <2>. DEFINE r == [stop |-> StopReason(mode[l].api, a.end), text |-> a.text, calls |-> a.calls]
  <2>2. r \in Reply /\ reply' = [reply EXCEPT ![l] = r]
    BY <2>1, ReceivedIsReply DEF Receive
  <2>. HIDE DEF r
  <2>. DEFINE n == rounds[l] + 1
              q == asked[l] + 1
  <2>3. /\ pc[l] = "ask" /\ n \in 0..MaxRounds
        /\ rounds' = [rounds EXCEPT ![l] = n]
        /\ asked' = [asked EXCEPT ![l] = q]
        /\ pc' = [pc EXCEPT ![l] = "got"]
        /\ UNCHANGED <<mode, turns, results, previews, previewed>>
    BY <1>1, <1>3, <1>4 DEF Complete, CanAsk, GoTo
  <2>4. q \in Nat /\ q < 2 * n /\ q <= 2 * n /\ n = rounds[l] + 1
    BY <1>1, <1>2
  <2>. HIDE DEF n, q
  <2>. QED
    BY <1>1, <2>2, <2>3, <2>4, QuietKeeps
<1>5. CASE OpenStream(l)
  <2>1. NoReply \in Reply
    BY DEF NoReply, Reply
  <2>. DEFINE n == rounds[l] + 1
  <2>2. /\ pc[l] = "ask" /\ n \in 0..MaxRounds
        /\ rounds' = [rounds EXCEPT ![l] = n]
        /\ asked' = [asked EXCEPT ![l] = asked[l]]
        /\ reply' = [reply EXCEPT ![l] = NoReply]
        /\ pc' = [pc EXCEPT ![l] = "stream"]
        /\ UNCHANGED <<mode, turns, results, previews, previewed>>
    BY <1>1, <1>3, <1>5 DEF OpenStream, CanAsk, GoTo
  <2>3. asked[l] + 1 < 2 * n /\ asked[l] <= 2 * n /\ n = rounds[l] + 1
    BY <1>1, <1>2
  <2>. HIDE DEF n
  <2>. QED
    BY <1>1, <2>1, <2>2, <2>3, QuietKeeps
<1>6. CASE StreamText(l)
  <2>. DEFINE r == [reply[l] EXCEPT !.text = TRUE]
  <2>1. r \in Reply
    BY <1>1 DEF Reply
  <2>2. reply' = [reply EXCEPT ![l] = r]
    BY <1>6 DEF StreamText, LoopTypeOK
  <2>. HIDE DEF r
  <2>3. /\ pc[l] = "stream"
        /\ rounds' = [rounds EXCEPT ![l] = rounds[l]]
        /\ asked' = [asked EXCEPT ![l] = asked[l]]
        /\ pc' = [pc EXCEPT ![l] = "stream"]
        /\ UNCHANGED <<mode, turns, results, previews, previewed>>
    BY <1>3, <1>6 DEF StreamText
  <2>. QED
    BY <1>1, <1>2, <2>1, <2>2, <2>3, QuietKeeps
<1>7. CASE StreamCall(l)
  <2>1. PICK a \in Answers[l] :
          /\ IsStrictPrefix(reply[l].calls, a.calls)
          /\ reply' = [reply EXCEPT ![l].calls = SubSeq(a.calls, 1, Len(@) + 1)]
    BY <1>7 DEF StreamCall
  <2>. DEFINE calls == SubSeq(a.calls, 1, Len(reply[l].calls) + 1)
              r     == [reply[l] EXCEPT !.calls = calls]
  <2>2. calls \in Seq(ToolCall)
    BY <2>1, StreamedIsReply
  <2>3. reply' = [reply EXCEPT ![l] = r]
    BY <2>1
  <2>. HIDE DEF calls
  <2>4. r \in Reply
    BY <1>1, <2>2 DEF Reply
  <2>. HIDE DEF r
  <2>5. /\ pc[l] = "stream"
        /\ rounds' = [rounds EXCEPT ![l] = rounds[l]]
        /\ asked' = [asked EXCEPT ![l] = asked[l]]
        /\ pc' = [pc EXCEPT ![l] = "stream"]
        /\ UNCHANGED <<mode, turns, results, previews, previewed>>
    BY <1>3, <1>7 DEF StreamCall
  <2>. QED
    BY <1>1, <1>2, <2>3, <2>4, <2>5, QuietKeeps
<1>8. CASE StreamEnd(l)
  <2>1. PICK a \in Answers[l] : Receive(l, a.end, a.text, a.calls)
    BY <1>8 DEF StreamEnd
  <2>. DEFINE r == [stop |-> StopReason(mode[l].api, a.end), text |-> a.text, calls |-> a.calls]
  <2>2. r \in Reply /\ reply' = [reply EXCEPT ![l] = r]
    BY <2>1, ReceivedIsReply DEF Receive
  <2>. HIDE DEF r
  <2>. DEFINE q == asked[l] + 1
  <2>3. /\ pc[l] = "stream"
        /\ rounds' = [rounds EXCEPT ![l] = rounds[l]]
        /\ asked' = [asked EXCEPT ![l] = q]
        /\ pc' = [pc EXCEPT ![l] = "got"]
        /\ UNCHANGED <<mode, turns, results, previews, previewed>>
    BY <1>3, <1>8 DEF StreamEnd, GoTo
  <2>4. q \in Nat /\ q < 2 * rounds[l] /\ q <= 2 * rounds[l]
    BY <1>1, <1>2, <2>3
  <2>. HIDE DEF q
  <2>. QED
    BY <1>1, <2>2, <2>3, <2>4, QuietKeeps
<1>9. CASE AskBetter(l)
  <2>1. /\ pc[l] = "got"
        /\ rounds' = [rounds EXCEPT ![l] = rounds[l]]
        /\ asked' = [asked EXCEPT ![l] = asked[l]]
        /\ reply' = [reply EXCEPT ![l] = reply[l]]
        /\ pc' = [pc EXCEPT ![l] = "upgrade"]
        /\ UNCHANGED <<mode, turns, results, previews, previewed>>
    BY <1>3, <1>9 DEF AskBetter, convVars, GoTo
  <2>. QED
    BY <1>1, <1>2, <2>1, QuietKeeps
<1>10. CASE Upgrade(l)
  <2>1. PICK a \in Answers[l] : Receive(l, a.end, a.text, a.calls)
    BY <1>10 DEF Upgrade
  <2>. DEFINE r == [stop |-> StopReason(mode[l].api, a.end), text |-> a.text, calls |-> a.calls]
  <2>2. r \in Reply /\ reply' = [reply EXCEPT ![l] = r]
    BY <2>1, ReceivedIsReply DEF Receive
  <2>. HIDE DEF r
  <2>. DEFINE q == asked[l] + 1
  <2>3. /\ pc[l] = "upgrade"
        /\ rounds' = [rounds EXCEPT ![l] = rounds[l]]
        /\ asked' = [asked EXCEPT ![l] = q]
        /\ pc' = [pc EXCEPT ![l] = "tools"]
        /\ UNCHANGED <<mode, turns, results, previews, previewed>>
    BY <1>3, <1>10 DEF Upgrade, GoTo
  <2>4. q \in Nat /\ q <= 2 * rounds[l]
    BY <1>1, <1>2, <2>3
  <2>. HIDE DEF q
  <2>. QED
    BY <1>1, <2>2, <2>3, <2>4, QuietKeeps
<1>. QED
  BY <1>4, <1>5, <1>6, <1>7, <1>8, <1>9, <1>10 DEF AskStep

LEMMA Parity ==
  ASSUME NEW n \in Nat
  PROVE  /\ (n % 2 = 1) = (n % 2 # 0)
         /\ (n % 2 = 1) = ((n + 1) % 2 = 0)
         /\ (n % 2 = 0) = ((n + 1) % 2 = 1)
OBVIOUS

(* A turn that is put on the record.                                       *)
LEMMA SayKeepsTurns ==
  ASSUME NEW ts \in Seq(Said), NEW t \in Said, Alternate(ts), Answered(ts), Len(ts) > 0,
         (t.role = "assistant") = (Len(ts) % 2 = 1),
         t.role = "user" => t.calls = <<>>,
         ts[Len(ts)].role = "assistant" => t.results = ts[Len(ts)].calls
  PROVE  Alternate(Append(ts, t)) /\ Answered(Append(ts, t))
<1>. DEFINE us == Append(ts, t)
<1>1. /\ Len(us) = Len(ts) + 1 /\ Len(ts) \in Nat
      /\ DOMAIN us = 1..(Len(ts) + 1) /\ DOMAIN ts = 1..Len(ts)
      /\ us[Len(ts) + 1] = t
      /\ \A k \in 1..Len(ts) : us[k] = ts[k]
  OBVIOUS
<1>2. (Len(ts) % 2 = 1) = ((Len(ts) + 1) % 2 = 0)
  BY <1>1, Parity
<1>. HIDE DEF us
<1>3. Alternate(us)
  <2>1. ASSUME NEW k \in 1..(Len(ts) + 1)
        PROVE  /\ (us[k].role = "assistant") = (k % 2 = 0)
               /\ us[k].role = "user" => us[k].calls = <<>>
               /\ k = 1 => us[k].results = <<>>
    <3>1. CASE k = Len(ts) + 1
      BY <1>1, <1>2, <3>1
    <3>2. CASE k # Len(ts) + 1
      BY <1>1, <3>2 DEF Alternate
    <3>. QED
      BY <3>1, <3>2
  <2>. QED
    BY <1>1, <2>1 DEF Alternate
<1>4. Answered(us)
  <2>1. ASSUME NEW k \in 1..Len(ts), us[k].role = "assistant"
        PROVE  us[k + 1].results = us[k].calls
    <3>1. CASE k = Len(ts)
      BY <1>1, <2>1, <3>1
    <3>2. CASE k < Len(ts)
      BY <1>1, <2>1, <3>2 DEF Answered
    <3>3. k = Len(ts) \/ k < Len(ts)
      <4>1. Len(ts) \in Nat
        OBVIOUS
      <4>. QED
        BY <4>1
    <3>. QED
      BY <3>1, <3>2, <3>3
  <2>. QED
    BY <1>1, <2>1 DEF Answered
<1>. QED
  BY <1>3, <1>4 DEF us

LEMMA CallIdsType ==
  ASSUME LoopTypeOK, NEW l \in Loops
  PROVE  /\ CallIds(l) \in Seq(Id) /\ Len(CallIds(l)) = Len(reply[l].calls)
         /\ DOMAIN CallIds(l) = 1..Len(reply[l].calls)
         /\ \A k \in Nat : CallId(l, k) \in Id
<1>1. reply[l].calls \in Seq(ToolCall) /\ DOMAIN reply[l].calls = 1..Len(reply[l].calls)
  BY DEF LoopTypeOK, Reply
<1>2. rounds[l] \in Nat /\ asked[l] \in Nat
  BY ToolLoopAssumption DEF LoopTypeOK
<1>3. \A k \in Nat : CallId(l, k) \in Id
  BY <1>2 DEF CallId, Id
<1>4. CallIds(l) = [k \in 1..Len(reply[l].calls) |-> CallId(l, k)] /\ Len(reply[l].calls) \in Nat
  BY <1>1 DEF CallIds
<1>. QED
  BY <1>3, <1>4

LEMMA AssistantTurnKeeps ==
  ASSUME LoopTypeOK, LoopInv, NEW l \in Loops, AssistantTurn(l)
  PROVE  Keeps(l)
<1>. DEFINE t == Turn("assistant", reply[l].text, CallIds(l), <<>>)
<1>1. t \in Said /\ t.role = "assistant" /\ t.calls = CallIds(l)
  <2>1. reply[l].text \in BOOLEAN /\ CallIds(l) \in Seq(Id)
    BY CallIdsType DEF LoopTypeOK, Reply
  <2>. QED
    BY <2>1 DEF Turn, Said
<1>2. /\ pc[l] \in {"got", "tools"} /\ pc' = [pc EXCEPT ![l] = "run"]
      /\ turns' = [turns EXCEPT ![l] = Append(@, t)]
      /\ UNCHANGED <<mode, rounds, asked, reply, results, previews, previewed>>
  BY DEF AssistantTurn, GoTo, Say
<1>. HIDE DEF t
<1>3. turns[l] \in Seq(Said) /\ turns'[l] = Append(turns[l], t) /\ pc'[l] = "run"
  BY <1>2 DEF LoopTypeOK
<1>4. LoopTypeOK'
  <2>1. Append(turns[l], t) \in Seq(Said)
    BY <1>1, <1>3
  <2>. QED
    BY <1>2, <2>1 DEF LoopTypeOK
<1>5. Others(l)
  BY <1>2 DEF Others, LoopTypeOK
<1>6. Counted(l) /\ Dialogue(l) /\ Shown(l)
  BY DEF LoopInv
<1>7. Counted(l)'
  BY <1>2, <1>3, <1>6 DEF Counted, Asking
<1>8. Dialogue(l)'
  <2>1. /\ Alternate(turns[l]) /\ Answered(turns[l]) /\ Len(turns[l]) % 2 = 1
        /\ results[l] = <<>> /\ previews[l] = <<>>
    BY <1>2, <1>6 DEF Dialogue
  <2>2. Len(turns[l]) > 0 /\ turns[l][Len(turns[l])].role # "assistant"
    <3>1. Len(turns[l]) \in Nat /\ DOMAIN turns[l] = 1..Len(turns[l])
      BY <1>3, LenProperties
    <3>2. PICK n : n = Len(turns[l])
      OBVIOUS
    <3>3. n \in Nat /\ n % 2 = 1
      BY <2>1, <3>1, <3>2
    <3>4. n % 2 # 0 /\ n # 0
      BY <3>3
    <3>5. n \in DOMAIN turns[l]
      BY <3>1, <3>2, <3>4
    <3>6. (turns[l][n].role = "assistant") = (n % 2 = 0)
      BY <2>1, <3>5 DEF Alternate
    <3>7. n > 0 /\ n % 2 # 0
      BY <3>3
    <3>. QED
      BY <3>2, <3>6, <3>7
  <2>3. Alternate(turns'[l]) /\ Answered(turns'[l])
    BY <1>1, <1>3, <2>1, <2>2, SayKeepsTurns
  <2>4. /\ Len(turns'[l]) > 0 /\ Len(turns'[l]) % 2 = 0
        /\ turns'[l][Len(turns'[l])].calls = CallIds(l)
    <3>1. Len(turns[l]) \in Nat /\ Len(turns'[l]) = Len(turns[l]) + 1
          /\ turns'[l][Len(turns[l]) + 1] = t
      BY <1>1, <1>3
    <3>2. (Len(turns[l]) + 1) % 2 = 0
      BY <2>1, <3>1, Parity
    <3>3. Len(turns'[l]) > 0
      BY <3>1
    <3>. QED
      BY <1>1, <3>1, <3>2, <3>3
  <2>5. CallIds(l)' = CallIds(l)
    BY <1>2 DEF CallIds, CallId
  <2>6. results'[l] = <<>> /\ DOMAIN results'[l] = {} /\ Len(results'[l]) <= Len(reply'[l].calls)
    BY <1>2, <2>1 DEF LoopTypeOK, Reply
  <2>7. turns'[l][Len(turns'[l])].calls = CallIds(l)'
    BY <2>4, <2>5
  <2>. QED
    BY <1>3, <2>3, <2>4, <2>6, <2>7 DEF Dialogue
<1>9. Shown(l)'
  <2>1. previews'[l] = <<>> /\ rounds'[l] = rounds[l] /\ previewed' = previewed
    BY <1>2, <1>6 DEF Dialogue
  <2>2. ASSUME NEW p \in previewed, p.loop = l
        PROVE  p.id.round < rounds[l]
    BY <1>2, <1>6, <2>2 DEF Shown, Asking
  <2>3. \A p \in previewed : p.id.round \in Nat /\ rounds[l] \in Nat
    BY DEF LoopTypeOK, Action, Id
  <2>4. ShownIn(l, rounds[l])' = {}
    BY <2>1, <2>2, <2>3 DEF ShownIn
  <2>5. {[loop |-> l, id |-> previews'[l][k]] : k \in DOMAIN previews'[l]} = {}
    BY <2>1
  <2>. QED
    BY <1>3, <2>1, <2>2, <2>3, <2>4, <2>5 DEF Shown
<1>10. \A r \in 1..MaxRounds : Over(l, r) => Over(l, r)' /\ ShownIn(l, r)' = ShownIn(l, r)
  BY <1>2, <1>3 DEF Over, ShownIn
<1>. QED
  BY <1>4, <1>5, <1>7, <1>8, <1>9, <1>10 DEF Keeps

(* A tool runs: the result is noted, and the preview if it is one.         *)
LEMMA ExecuteKeeps ==
  ASSUME LoopTypeOK, LoopInv, NEW l \in Loops, Execute(l)
  PROVE  Keeps(l)
<1>. DEFINE k    == Len(results[l]) + 1
            id   == CallId(l, k)
            item == [loop |-> l, id |-> id]
<1>1. /\ pc[l] = "run" /\ k \in DOMAIN reply[l].calls
      /\ results' = [results EXCEPT ![l] = Append(@, id)]
      /\ UNCHANGED <<pc, mode, turns, rounds, asked, reply>>
      /\ \/ /\ previews' = [previews EXCEPT ![l] = Append(@, id)]
            /\ previewed' = previewed \cup {item}
         \/ UNCHANGED <<previews, previewed>>
  BY DEF Execute
<1>2. /\ results[l] \in Seq(Id) /\ previews[l] \in Seq(Id)
      /\ rounds[l] \in Nat
      /\ k \in Nat /\ k <= Len(reply[l].calls) /\ Len(results[l]) \in Nat
  BY <1>1, ToolLoopAssumption DEF LoopTypeOK, Reply
<1>3. id \in Id /\ id.round = rounds[l] /\ id.at = k
      /\ item \in Action /\ item.loop = l /\ item.id = id
  BY <1>2, CallIdsType DEF CallId, Action
<1>4. id = CallId(l, k) /\ k = Len(results[l]) + 1
  OBVIOUS
<1>. HIDE DEF k, id, item
<1>5. Append(results[l], id) \in Seq(Id) /\ Append(previews[l], id) \in Seq(Id)
  BY <1>2, <1>3
<1>6. LoopTypeOK'
  <2>1. results' \in [Loops -> Seq(Id)]
    BY <1>1, <1>5 DEF LoopTypeOK
  <2>2. previews' \in [Loops -> Seq(Id)]
    BY <1>1, <1>5 DEF LoopTypeOK
  <2>3. previewed' \subseteq Action
    BY <1>1, <1>3 DEF LoopTypeOK
  <2>. QED
    BY <1>1, <2>1, <2>2, <2>3 DEF LoopTypeOK
<1>7. Others(l)
  <2>1. \A m \in Loops \ {l} : results'[m] = results[m] /\ previews'[m] = previews[m]
    BY <1>1 DEF LoopTypeOK
  <2>2. previewed \subseteq previewed' /\ \A p \in previewed' \ previewed : p.loop = l
    BY <1>1, <1>3
  <2>. QED
    BY <1>1, <2>1, <2>2 DEF Others
<1>8. Counted(l) /\ Dialogue(l) /\ Shown(l)
  BY DEF LoopInv
<1>9. Counted(l)'
  BY <1>1, <1>8 DEF Counted
<1>10. results'[l] = Append(results[l], id)
  BY <1>1 DEF LoopTypeOK
<1>11. Dialogue(l)'
  <2>1. /\ Len(turns[l]) > 0 /\ Len(turns[l]) % 2 = 0
        /\ turns[l][Len(turns[l])].calls = CallIds(l)
        /\ \A j \in DOMAIN results[l] : results[l][j] = CallId(l, j)
        /\ Alternate(turns[l]) /\ Answered(turns[l])
    BY <1>1, <1>8 DEF Dialogue
  <2>2. CallIds(l)' = CallIds(l) /\ \A j : CallId(l, j)' = CallId(l, j)
    BY <1>1 DEF CallIds, CallId
  <2>3. Len(results'[l]) <= Len(reply'[l].calls)
    BY <1>1, <1>2, <1>4, <1>10
  <2>4. ASSUME NEW j \in DOMAIN results'[l]
        PROVE  results'[l][j] = CallId(l, j)'
    <3>1. CASE j = k
      BY <1>2, <1>4, <1>10, <2>2, <3>1
    <3>2. CASE j # k
      <4>1. j \in DOMAIN results[l] /\ results'[l][j] = results[l][j]
        BY <1>2, <1>4, <1>10, <3>2
      <4>. QED
        BY <2>1, <2>2, <4>1
    <3>. QED
      BY <3>1, <3>2
  <2>5. turns'[l][Len(turns'[l])].calls = CallIds(l)'
    BY <1>1, <2>1, <2>2
  <2>. QED
    BY <1>1, <2>1, <2>3, <2>4, <2>5 DEF Dialogue
<1>12. /\ {[loop |-> l, id |-> previews[l][j]] : j \in DOMAIN previews[l]} = ShownIn(l, rounds[l])
       /\ \A j \in DOMAIN previews[l] : previews[l][j].at <= Len(results[l])
       /\ \A i, j \in DOMAIN previews[l] : i < j => previews[l][i].at < previews[l][j].at
       /\ \A p \in previewed : p.loop = l => p.id.round <= rounds[l]
  BY <1>1, <1>8 DEF Shown
<1>13. Len(results'[l]) = k /\ Len(results[l]) < k
  BY <1>2, <1>4, <1>10
<1>14. \A j \in DOMAIN previews[l] : previews[l][j].at \in Nat
  <2>1. \A j \in DOMAIN previews[l] : previews[l][j] \in Id
    BY <1>2
  <2>. QED
    BY <2>1 DEF Id
<1>15. Shown(l)'
  <2>1. CASE UNCHANGED <<previews, previewed>>
    <3>1. \A j \in DOMAIN previews[l] : previews[l][j].at <= k
      BY <1>2, <1>12, <1>13, <1>14
    <3>2. ShownIn(l, rounds[l])' = ShownIn(l, rounds[l])
      BY <1>1, <2>1 DEF ShownIn
    <3>. QED
      BY <1>1, <1>12, <1>13, <2>1, <3>1, <3>2 DEF Shown
  <2>2. CASE /\ previews' = [previews EXCEPT ![l] = Append(@, id)]
             /\ previewed' = previewed \cup {item}
    <3>1. previews'[l] = Append(previews[l], id)
      BY <2>2 DEF LoopTypeOK
    <3>. DEFINE n == Len(previews[l])
    <3>2. /\ DOMAIN previews'[l] = DOMAIN previews[l] \cup {n + 1}
          /\ DOMAIN previews[l] = 1..n /\ n \in Nat
          /\ \A j \in DOMAIN previews[l] : previews'[l][j] = previews[l][j]
          /\ previews'[l][n + 1] = id
      BY <1>2, <3>1
    <3>. HIDE DEF n
    <3>3. ShownIn(l, rounds[l])' = ShownIn(l, rounds[l]) \cup {item}
      BY <1>1, <1>3, <2>2 DEF ShownIn
    <3>4. {[loop |-> l, id |-> previews'[l][j]] : j \in DOMAIN previews'[l]}
            = {[loop |-> l, id |-> previews[l][j]] : j \in DOMAIN previews[l]} \cup {item}
      BY <3>2 DEF item
    <3>5. \A j \in DOMAIN previews'[l] : previews'[l][j].at <= k
      BY <1>2, <1>3, <1>12, <1>13, <1>14, <3>2
    <3>6. ASSUME NEW i \in DOMAIN previews'[l], NEW j \in DOMAIN previews'[l], i < j
          PROVE  previews'[l][i].at < previews'[l][j].at
      <4>1. i \in DOMAIN previews[l]
        BY <3>2, <3>6
      <4>2. CASE j = n + 1
        BY <1>2, <1>3, <1>12, <1>13, <1>14, <3>2, <4>1, <4>2
      <4>3. CASE j # n + 1
        BY <1>12, <3>2, <3>6, <4>1, <4>3
      <4>. QED
        BY <4>2, <4>3
    <3>7. \A p \in previewed' : p.loop = l => p.id.round <= rounds[l]
      BY <1>2, <1>3, <1>12, <2>2
    <3>. QED
      BY <1>1, <1>12, <1>13, <3>3, <3>4, <3>5, <3>6, <3>7 DEF Shown
  <2>. QED
    BY <1>1, <2>1, <2>2
<1>16. ASSUME NEW r \in 1..MaxRounds, Over(l, r)
       PROVE  Over(l, r)' /\ ShownIn(l, r)' = ShownIn(l, r)
  <2>1. r # rounds[l]
    BY <1>1, <1>2, <1>16 DEF Over
  <2>. QED
    BY <1>1, <1>3, <1>16, <2>1 DEF Over, ShownIn
<1>. QED
  BY <1>6, <1>7, <1>9, <1>11, <1>15, <1>16 DEF Keeps

(* The last tool has run: the results are what the calls ask for.          *)
LEMMA EndRoundKeeps ==
  ASSUME LoopTypeOK, LoopInv, NEW l \in Loops, EndRound(l)
  PROVE  Keeps(l)
<1>. DEFINE t == Turn("user", FALSE, <<>>, results[l])
<1>1. results[l] \in Seq(Id) /\ turns[l] \in Seq(Said) /\ <<>> \in Seq(Id)
  BY DEF LoopTypeOK
<1>2. t \in Said /\ t.role = "user" /\ t.calls = <<>> /\ t.results = results[l]
  BY <1>1 DEF Turn, Said
<1>3. /\ pc[l] = "run" /\ pc' = [pc EXCEPT ![l] = "ask"]
      /\ Len(results[l]) = Len(reply[l].calls)
      /\ turns' = [turns EXCEPT ![l] = Append(@, t)]
      /\ results' = [results EXCEPT ![l] = <<>>]
      /\ previews' = [previews EXCEPT ![l] = <<>>]
      /\ UNCHANGED <<mode, rounds, asked, reply, previewed>>
  BY DEF EndRound, GoTo, Say
<1>. HIDE DEF t
<1>4. /\ turns'[l] = Append(turns[l], t) /\ pc'[l] = "ask"
      /\ results'[l] = <<>> /\ previews'[l] = <<>>
  BY <1>3 DEF LoopTypeOK
<1>5. LoopTypeOK'
  <2>1. Append(turns[l], t) \in Seq(Said)
    BY <1>1, <1>2
  <2>. QED
    BY <1>1, <1>3, <2>1 DEF LoopTypeOK
<1>6. Others(l)
  BY <1>3 DEF Others, LoopTypeOK
<1>7. Counted(l) /\ Dialogue(l) /\ Shown(l)
  BY DEF LoopInv
<1>8. Counted(l)'
  BY <1>3, <1>4, <1>7 DEF Counted, Asking
<1>9. Dialogue(l)'
  <2>1. /\ Len(turns[l]) > 0 /\ Len(turns[l]) % 2 = 0
        /\ turns[l][Len(turns[l])].calls = CallIds(l)
        /\ \A j \in DOMAIN results[l] : results[l][j] = CallId(l, j)
        /\ Alternate(turns[l]) /\ Answered(turns[l])
    BY <1>3, <1>7 DEF Dialogue
  <2>2. results[l] = CallIds(l)
    <3>1. Len(results[l]) = Len(CallIds(l)) /\ CallIds(l) \in Seq(Id)
      BY <1>3, CallIdsType
    <3>2. \A j \in 1..Len(results[l]) : CallIds(l)[j] = CallId(l, j)
      BY <1>3, CallIdsType DEF CallIds
    <3>3. \A j \in 1..Len(results[l]) : results[l][j] = CallIds(l)[j]
      BY <1>1, <2>1, <3>2
    <3>. QED
      BY <1>1, <3>1, <3>3
  <2>3. Len(turns[l]) \in Nat /\ Len(turns[l]) % 2 # 1 /\ (Len(turns[l]) + 1) % 2 = 1
    <3>1. Len(turns[l]) \in Nat
      BY <1>1
    <3>. QED
      BY <2>1, <3>1, Parity
  <2>4. Alternate(turns'[l]) /\ Answered(turns'[l])
    BY <1>1, <1>2, <1>4, <2>1, <2>2, <2>3, SayKeepsTurns
  <2>5. Len(turns'[l]) = Len(turns[l]) + 1
    BY <1>1, <1>2, <1>4
  <2>. QED
    BY <1>4, <2>3, <2>4, <2>5 DEF Dialogue
<1>10. Shown(l)'
  BY <1>3, <1>4, <1>7 DEF Shown, Asking
<1>11. \A r \in 1..MaxRounds : Over(l, r) => Over(l, r)' /\ ShownIn(l, r)' = ShownIn(l, r)
  BY <1>3, <1>4 DEF Over, ShownIn
<1>. QED
  BY <1>5, <1>6, <1>8, <1>9, <1>10, <1>11 DEF Keeps

-----------------------------------------------------------------------------
(* The confirmations.                                                      *)

LEMMA SaveSerials ==
  ASSUME ConfirmTypeOK, SerialInv, NEW c \in Channels, NEW acts \in Seq(Action), Save(c, acts)
  PROVE  ConfirmTypeOK' /\ SerialInv'
<1>. DEFINE new == [serial |-> saves + 1, actions |-> acts]
<1>1. saves \in Nat /\ new \in Batch /\ new.serial = saves + 1
  <2>1. saves \in Nat
    BY DEF ConfirmTypeOK
  <2>2. saves + 1 \in Nat /\ acts \in Seq(Action)
    BY <2>1
  <2>3. new \in Batch
    BY <2>2 DEF Batch
  <2>. QED
    BY <2>1, <2>3
<1>2. /\ pending' = [pending EXCEPT ![c] = new] /\ saves' = saves + 1
      /\ UNCHANGED <<view, confirming, cancelling, ran, cleared>>
  BY DEF Save, viewVars
<1>. HIDE DEF new
<1>3. ConfirmTypeOK'
  BY <1>1, <1>2 DEF ConfirmTypeOK
<1>4. pending'[c] = new /\ \A d \in Channels \ {c} : pending'[d] = pending[d]
  BY <1>2 DEF ConfirmTypeOK
<1>5. /\ \A d \in Channels : pending[d].serial \in Nat
      /\ \A d \in Channels : \A i \in DOMAIN ran[d] : ran[d][i].serial \in Nat
  <2>1. \A d \in Channels : pending[d] \in Batch /\ ran[d] \in Seq(Batch)
    BY DEF ConfirmTypeOK
  <2>2. \A d \in Channels : \A i \in DOMAIN ran[d] : ran[d][i] \in Batch
    BY <2>1
  <2>. QED
    BY <2>1, <2>2 DEF Batch
<1>6. \A s \in cleared : s \in Nat
  BY DEF ConfirmTypeOK
<1>7. \A d \in Channels : Waits(d)' =>
        /\ pending'[d].serial <= saves' /\ pending'[d].serial \notin cleared'
        /\ d # c => pending'[d].serial <= saves /\ pending'[d] = pending[d] /\ Waits(d)
  BY <1>1, <1>2, <1>4, <1>5, <1>6 DEF SerialInv, Waits
<1>8. \A d, e \in Channels : Waits(d)' /\ Waits(e)' /\ d # e => pending'[d].serial # pending'[e].serial
  BY <1>1, <1>4, <1>5, <1>7 DEF SerialInv
<1>9. \A d, e \in Channels : \A i \in DOMAIN ran'[e] :
        Waits(d)' => pending'[d].serial # ran'[e][i].serial
  BY <1>1, <1>2, <1>4, <1>5, <1>7 DEF SerialInv
<1>10. \A d \in Channels : \A i \in DOMAIN ran'[d] :
         /\ ran'[d][i].serial <= saves'
         /\ Waits(d)' => ran'[d][i].serial < pending'[d].serial
  BY <1>1, <1>2, <1>4, <1>5, <1>7 DEF SerialInv
<1>11. \A s \in cleared' : s <= saves'
  BY <1>1, <1>2, <1>6 DEF SerialInv
<1>12. RunOnceInOrder' /\ ClearedNeverRuns'
  BY <1>2 DEF SerialInv, RunOnceInOrder, ClearedNeverRuns
<1>. QED
  BY <1>3, <1>7, <1>8, <1>9, <1>10, <1>11, <1>12 DEF SerialInv

LEMMA TakeSerials ==
  ASSUME ConfirmTypeOK, SerialInv, NEW c \in Channels, Take(c), UNCHANGED <<saves, cleared>>
  PROVE  /\ pending' \in [Channels -> Batch] /\ ran' \in [Channels -> Seq(Batch)]
         /\ SerialInv'
<1>1. NoBatch \in Batch
  BY DEF NoBatch, Batch, Action
<1>2. pending' = [pending EXCEPT ![c] = NoBatch]
  BY DEF Take
<1>3. pending' \in [Channels -> Batch]
  BY <1>1, <1>2 DEF ConfirmTypeOK
<1>4. /\ ~Waits(c)'
      /\ \A d \in Channels : Waits(d)' => d # c /\ Waits(d) /\ pending'[d] = pending[d]
  BY <1>2 DEF ConfirmTypeOK, Waits
<1>5. CASE pending[c] = NoBatch
  <2>1. ran' = ran
    BY <1>5 DEF Take
  <2>2. SerialInv'
    BY <1>4, <2>1 DEF SerialInv, RunOnceInOrder, ClearedNeverRuns
  <2>. QED
    BY <1>3, <2>1, <2>2 DEF ConfirmTypeOK
<1>6. CASE Waits(c)
  <2>. DEFINE b == pending[c]
              n == Len(ran[c])
  <2>1. b \in Batch /\ ran' = [ran EXCEPT ![c] = Append(@, b)] /\ ran[c] \in Seq(Batch)
    BY <1>6 DEF Take, Waits, ConfirmTypeOK
  <2>2. /\ b.serial <= saves /\ b.serial \notin cleared
        /\ \A i \in DOMAIN ran[c] : ran[c][i].serial < b.serial
        /\ \A d \in Channels : Waits(d) /\ d # c => pending[d].serial # b.serial
    BY <1>6 DEF SerialInv
  <2>. HIDE DEF b
  <2>3. ran' \in [Channels -> Seq(Batch)]
    <3>1. Append(ran[c], b) \in Seq(Batch)
      BY <2>1
    <3>. QED
      BY <2>1, <3>1 DEF ConfirmTypeOK
  <2>4. ran'[c] = Append(ran[c], b) /\ \A d \in Channels \ {c} : ran'[d] = ran[d]
    BY <2>1 DEF ConfirmTypeOK
  <2>5. /\ DOMAIN ran[c] = 1..n /\ n \in Nat /\ DOMAIN ran'[c] = 1..(n + 1)
        /\ ran'[c][n + 1] = b
        /\ \A i \in 1..n : ran'[c][i] = ran[c][i]
    BY <2>1, <2>4
  <2>. HIDE DEF n
  <2>6. \A d \in Channels : \A i \in DOMAIN ran'[d] :
          \/ d = c /\ i = n + 1 /\ ran'[d][i] = b
          \/ i \in DOMAIN ran[d] /\ ran'[d][i] = ran[d][i]
    BY <2>4, <2>5
  <2>7. /\ \A d \in Channels : Waits(d)' => pending'[d].serial <= saves' /\ pending'[d].serial \notin cleared'
        /\ \A d, e \in Channels : Waits(d)' /\ Waits(e)' /\ d # e => pending'[d].serial # pending'[e].serial
        /\ \A s \in cleared' : s <= saves'
    BY <1>4 DEF SerialInv
  <2>8. \A d, e \in Channels : \A i \in DOMAIN ran'[e] :
          Waits(d)' => pending'[d].serial # ran'[e][i].serial
    BY <1>4, <2>2, <2>6 DEF SerialInv
  <2>9. \A d \in Channels : \A i \in DOMAIN ran'[d] :
          /\ ran'[d][i].serial <= saves'
          /\ Waits(d)' => ran'[d][i].serial < pending'[d].serial
    BY <1>4, <2>2, <2>6 DEF SerialInv
  <2>10. RunOnceInOrder'
    <3>1. ASSUME NEW i \in DOMAIN ran'[c], NEW j \in DOMAIN ran'[c], i < j
          PROVE  ran'[c][i].serial < ran'[c][j].serial
      <4>1. i \in 1..n
        BY <2>5, <3>1
      <4>2. CASE j = n + 1
        BY <2>2, <2>5, <4>1, <4>2
      <4>3. CASE j \in 1..n
        BY <2>5, <3>1, <4>1, <4>3 DEF SerialInv, RunOnceInOrder
      <4>. QED
        BY <2>5, <4>2, <4>3
    <3>. QED
      BY <2>4, <3>1 DEF SerialInv, RunOnceInOrder
  <2>11. ClearedNeverRuns'
    BY <2>2, <2>6 DEF SerialInv, ClearedNeverRuns
  <2>. QED
    BY <1>3, <2>3, <2>7, <2>8, <2>9, <2>10, <2>11 DEF SerialInv
<1>. QED
  BY <1>5, <1>6 DEF Waits

LEMMA ClearSerials ==
  ASSUME ConfirmTypeOK, SerialInv, NEW c \in Channels, Clear(c), UNCHANGED <<saves, ran>>
  PROVE  /\ pending' \in [Channels -> Batch] /\ cleared' \subseteq Nat
         /\ SerialInv'
<1>1. NoBatch \in Batch /\ NoBatch.serial = 0
  BY DEF NoBatch, Batch, Action
<1>2. pending' = [pending EXCEPT ![c] = NoBatch] /\ cleared' = cleared \cup ({pending[c].serial} \ {0})
  BY DEF Clear
<1>3. pending' \in [Channels -> Batch] /\ pending[c].serial \in Nat /\ cleared' \subseteq Nat
  <2>1. pending' \in [Channels -> Batch]
    BY <1>1, <1>2 DEF ConfirmTypeOK
  <2>2. pending[c] \in Batch
    BY DEF ConfirmTypeOK
  <2>3. pending[c].serial \in Nat
    BY <2>2 DEF Batch
  <2>. QED
    BY <1>2, <2>1, <2>3 DEF ConfirmTypeOK
<1>4. /\ ~Waits(c)'
      /\ \A d \in Channels : Waits(d)' => d # c /\ Waits(d) /\ pending'[d] = pending[d]
  BY <1>2 DEF ConfirmTypeOK, Waits
<1>5. cleared' = cleared \/ (Waits(c) /\ cleared' = cleared \cup {pending[c].serial})
  BY <1>1, <1>2 DEF Waits
<1>6. \A d \in Channels : \A i \in DOMAIN ran'[d] : ran'[d][i].serial \notin cleared'
  BY <1>5 DEF SerialInv, ClearedNeverRuns
<1>7. \A d \in Channels : Waits(d)' => pending'[d].serial <= saves' /\ pending'[d].serial \notin cleared'
  BY <1>4, <1>5 DEF SerialInv
<1>8. \A s \in cleared' : s <= saves'
  BY <1>5 DEF SerialInv
<1>9. RunOnceInOrder'
  BY DEF SerialInv, RunOnceInOrder
<1>10. /\ \A d, e \in Channels : Waits(d)' /\ Waits(e)' /\ d # e => pending'[d].serial # pending'[e].serial
       /\ \A d, e \in Channels : \A i \in DOMAIN ran'[e] :
            Waits(d)' => pending'[d].serial # ran'[e][i].serial
       /\ \A d \in Channels : \A i \in DOMAIN ran'[d] :
            /\ ran'[d][i].serial <= saves'
            /\ Waits(d)' => ran'[d][i].serial < pending'[d].serial
  BY <1>4 DEF SerialInv
<1>. QED
  BY <1>3, <1>6, <1>7, <1>8, <1>9, <1>10 DEF SerialInv, ClearedNeverRuns

-----------------------------------------------------------------------------
(* What the batches are, step by step.                                     *)

LEMMA SealedStays ==
  ASSUME ConfirmTypeOK, SealedInv, \A b : Sealed(b) => SealedNext(b), NEW c \in Channels,
         \/ Take(c)
         \/ Clear(c) /\ UNCHANGED ran
         \/ UNCHANGED <<pending, ran>>
         \/ \E acts : Save(c, acts) /\ SealedNext([serial |-> saves + 1, actions |-> acts])
  PROVE  SealedInv'
<1>1. \A d \in Channels : pending'[d] # NoBatch => pending'[d] = pending[d] \/ SealedNext(pending'[d])
  BY DEF Take, Clear, Save, ConfirmTypeOK
<1>2. ASSUME NEW d \in Channels, NEW k \in DOMAIN ran'[d]
      PROVE  SealedNext(ran'[d][k])
  <2>1. CASE ran' = ran
    BY <1>2, <2>1 DEF SealedInv
  <2>2. CASE ran' # ran
    <3>1. /\ pending[c] # NoBatch
          /\ ran' = [ran EXCEPT ![c] = Append(@, pending[c])]
      BY <2>2 DEF Take, Save, viewVars
    <3>2. \/ k \in DOMAIN ran[d] /\ ran'[d][k] = ran[d][k]
          \/ ran'[d][k] = pending[c]
      <4>1. ran[d] \in Seq(Batch) /\ ran[c] \in Seq(Batch)
        BY DEF ConfirmTypeOK
      <4>2. CASE d = c
        <5>1. ran'[d] = Append(ran[d], pending[c])
          BY <3>1, <4>2 DEF ConfirmTypeOK
        <5>. QED
          BY <1>2, <4>1, <5>1
      <4>3. CASE d # c
        BY <1>2, <3>1, <4>3 DEF ConfirmTypeOK
      <4>. QED
        BY <4>2, <4>3
    <3>. QED
      BY <3>1, <3>2 DEF SealedInv
  <2>. QED
    BY <2>1, <2>2
<1>3. \A d \in Channels : /\ pending'[d] # NoBatch => SealedNext(pending'[d])
                          /\ \A k \in DOMAIN ran'[d] : SealedNext(ran'[d][k])
  BY <1>1, <1>2 DEF SealedInv
<1>. QED
  BY <1>3 DEF SealedInv, Sealed, IsRound, SealedNext

LEMMA TalkKeeps ==
  ASSUME LoopTypeOK, LoopInv, NEW l \in Loops, TalkStep(l)
  PROVE  Keeps(l)
<1>1. Start(l) \/ AskStep(l) \/ AssistantTurn(l) \/ End(l)
  BY DEF TalkStep, AskStep, AskRaises, Limit, EndTurn, ToolRaises, ConfirmRaises
<1>. QED
  BY <1>1, StartKeeps, AskKeeps, AssistantTurnKeeps, EndKeeps

(* The batch that on_confirm saves: the previews of the round.             *)
LEMMA FinishRoundSeals ==
  ASSUME LoopTypeOK, LoopInv, NEW l \in Loops, EndRound(l), Keeps(l)
  PROVE  /\ Actions(l, previews[l]) \in Seq(Action)
         /\ SealedNext([serial |-> saves + 1, actions |-> Actions(l, previews[l])])
<1>. DEFINE acts == Actions(l, previews[l])
            n    == Len(previews[l])
<1>1. previews[l] \in Seq(Id) /\ n \in Nat /\ DOMAIN previews[l] = 1..n
  BY DEF LoopTypeOK
<1>2. acts = [k \in 1..n |-> [loop |-> l, id |-> previews[l][k]]]
  BY <1>1 DEF Actions
<1>3. \A k \in 1..n : [loop |-> l, id |-> previews[l][k]] \in Action
  BY <1>1 DEF Action
<1>4. acts \in Seq(Action) /\ DOMAIN acts = 1..n
  BY <1>1, <1>2, <1>3
<1>5. \A k \in 1..n : acts[k] = [loop |-> l, id |-> previews[l][k]]
  BY <1>2
<1>. HIDE DEF acts, n
<1>6. /\ pc[l] = "run" /\ pc'[l] = "ask" /\ rounds'[l] = rounds[l] /\ previewed' = previewed
  BY DEF EndRound, GoTo, LoopTypeOK
<1>7. rounds[l] \in 1..MaxRounds
  BY <1>6, ToolLoopAssumption DEF LoopInv, LoopTypeOK, Counted, Asking
<1>8. /\ {[loop |-> l, id |-> previews[l][k]] : k \in 1..n} = ShownIn(l, rounds[l])
      /\ \A j, k \in 1..n : j < k => previews[l][j].at < previews[l][k].at
  BY <1>1, <1>6 DEF LoopInv, Shown
<1>9. /\ {acts[k] : k \in DOMAIN acts} = ShownIn(l, rounds[l])
      /\ \A j, k \in DOMAIN acts : j < k => acts[j].id.at < acts[k].id.at
  BY <1>4, <1>5, <1>8
<1>10. PICK r \in 1..MaxRounds : r = rounds[l]
  BY <1>7
<1>11. Over(l, r)' /\ ShownIn(l, r)' = ShownIn(l, r)
  BY <1>6, <1>10 DEF Over, ShownIn
<1>. DEFINE b == [serial |-> saves + 1, actions |-> acts]
<1>12. b.actions = acts
  OBVIOUS
<1>. HIDE DEF b
<1>13. SealedNext(b)
  BY <1>9, <1>10, <1>11, <1>12 DEF SealedNext
<1>. QED
  BY <1>4, <1>13 DEF acts, b

-----------------------------------------------------------------------------
(* Every step keeps the invariant.                                         *)

LEMMA InitIInv == Init => IInv
<1>. SUFFICES ASSUME Init PROVE IInv
  OBVIOUS
<1>1. LoopTypeOK
  <2>1. NoReply \in Reply
    BY DEF NoReply, Reply
  <2>. QED
    BY <2>1, ToolLoopAssumption DEF Init, InitLoops, LoopTypeOK
<1>2. ConfirmTypeOK
  <2>1. NoBatch \in Batch
    BY DEF NoBatch, Batch
  <2>2. Unsent \in [at : {"unsent", "open", "stopped"}, channel : Channels]
    BY ConfirmationsAssumption DEF Unsent
  <2>. QED
    BY <2>1, <2>2, ConfirmationsAssumption DEF Init, InitConfirmations, ConfirmTypeOK
<1>3. LoopInv
  <2>1. ASSUME NEW l \in Loops
        PROVE  /\ pc[l] = "new" /\ turns[l] = <<>> /\ rounds[l] = 0 /\ asked[l] = 0
               /\ results[l] = <<>> /\ previews[l] = <<>> /\ previewed = {}
    BY DEF Init, InitLoops
  <2>2. ASSUME NEW l \in Loops
        PROVE  Counted(l) /\ Dialogue(l) /\ Shown(l)
    <3>1. Counted(l) /\ Shown(l)
      BY <2>1 DEF Counted, Shown, Asking
    <3>2. Alternate(turns[l]) /\ Answered(turns[l])
      BY <2>1 DEF Alternate, Answered
    <3>. QED
      BY <2>1, <3>1, <3>2 DEF Dialogue
  <2>. QED
    BY <2>2 DEF LoopInv
<1>4. SealedInv /\ SerialInv
  BY DEF Init, InitConfirmations, SealedInv, SerialInv, Waits, RunOnceInOrder, ClearedNeverRuns
<1>. QED
  BY <1>1, <1>2, <1>3, <1>4 DEF IInv

LEMMA LoopStepKeeps ==
  ASSUME IInv, NEW l \in Loops, LoopStep(l)
  PROVE  IInv'
<1>1. LoopTypeOK /\ ConfirmTypeOK /\ LoopInv /\ SealedInv /\ SerialInv
  BY DEF IInv
<1>2. ChannelOf[l] \in Channels
  BY ConversationsAssumption
<1>3. CASE (TalkStep(l) \/ Execute(l) \/ EndRound(l)) /\ UNCHANGED confirmVars
  <2>1. Keeps(l)
    BY <1>1, <1>3, TalkKeeps, ExecuteKeeps, EndRoundKeeps
  <2>2. LoopTypeOK' /\ LoopInv' /\ \A b : Sealed(b) => SealedNext(b)
    BY <1>1, <2>1, KeepsEnough DEF Keeps
  <2>3. UNCHANGED <<pending, saves, view, confirming, cancelling, ran, cleared>>
    BY <1>3 DEF confirmVars, viewVars
  <2>4. ConfirmTypeOK' /\ SerialInv'
    BY <1>1, <2>3 DEF ConfirmTypeOK, SerialInv, Waits, RunOnceInOrder, ClearedNeverRuns
  <2>5. SealedInv'
    BY <1>1, <1>2, <2>2, <2>3, SealedStays
  <2>. QED
    BY <2>2, <2>4, <2>5 DEF IInv
<1>4. CASE EndRound(l) /\ Save(ChannelOf[l], Actions(l, previews[l]))
  <2>1. Keeps(l)
    BY <1>1, <1>4, EndRoundKeeps
  <2>2. LoopTypeOK' /\ LoopInv' /\ \A b : Sealed(b) => SealedNext(b)
    BY <1>1, <2>1, KeepsEnough DEF Keeps
  <2>3. /\ Actions(l, previews[l]) \in Seq(Action)
        /\ SealedNext([serial |-> saves + 1, actions |-> Actions(l, previews[l])])
    BY <1>1, <1>4, <2>1, FinishRoundSeals
  <2>4. ConfirmTypeOK' /\ SerialInv'
    BY <1>1, <1>2, <1>4, <2>3, SaveSerials
  <2>5. SealedInv'
    BY <1>1, <1>2, <1>4, <2>2, <2>3, SealedStays
  <2>. QED
    BY <2>2, <2>4, <2>5 DEF IInv
<1>. QED
  BY <1>3, <1>4 DEF LoopStep, RunTool, FinishRound

(* Views: nothing but the batches of their channels matters.               *)
QueueTypeOK ==
  /\ pending \in [Channels -> Batch] /\ saves \in Nat
  /\ ran \in [Channels -> Seq(Batch)] /\ cleared \subseteq Nat

Quiet == UNCHANGED <<pending, saves, ran, cleared>>

ViewTypeOK ==
  /\ view \in [Views -> [at : {"unsent", "open", "stopped"}, channel : Channels]]
  /\ confirming \in [Views -> 0..MaxClicks] /\ cancelling \in [Views -> 0..MaxClicks]

LEMMA ConfirmStepCases ==
  ASSUME ConfirmTypeOK, ConfirmStep
  PROVE  /\ ViewTypeOK'
         /\ \/ Quiet
            \/ \E c \in Channels : Take(c) /\ UNCHANGED <<saves, cleared>>
            \/ \E c \in Channels : Clear(c) /\ UNCHANGED <<saves, ran>>
<1>1. ViewTypeOK /\ MaxClicks \in Nat
  BY ConfirmationsAssumption DEF ConfirmTypeOK, ViewTypeOK
<1>2. CASE \E c \in Channels : Yes(c)
  BY <1>1, <1>2 DEF Yes, viewVars, ViewTypeOK
<1>3. CASE \E v \in Views, c \in Channels : Ask(v, c)
  BY <1>1, <1>3 DEF Ask, ViewTypeOK, Quiet
<1>4. ASSUME NEW v \in Views
      PROVE  ClickConfirm(v) => ViewTypeOK' /\ Quiet
  BY <1>1 DEF ClickConfirm, ViewTypeOK, Quiet
<1>5. ASSUME NEW v \in Views
      PROVE  Confirm(v) => ViewTypeOK' /\ \E c \in Channels : Take(c) /\ UNCHANGED <<saves, cleared>>
  BY <1>1 DEF Confirm, Stop, ViewTypeOK
<1>6. ASSUME NEW v \in Views
      PROVE  ConfirmFails(v) \/ Cancelled(v) \/ TimeOut(v) => ViewTypeOK' /\ Quiet
  BY <1>1 DEF ConfirmFails, Cancelled, TimeOut, Stop, ViewTypeOK, Quiet
<1>7. ASSUME NEW v \in Views
      PROVE  ClickCancel(v) => ViewTypeOK' /\ \E c \in Channels : Clear(c) /\ UNCHANGED <<saves, ran>>
  BY <1>1 DEF ClickCancel, ViewTypeOK
<1>. QED
  BY <1>2, <1>3, <1>4, <1>5, <1>6, <1>7 DEF ConfirmStep

LEMMA LoopsRest ==
  ASSUME LoopTypeOK, LoopInv,
         UNCHANGED <<pc, mode, turns, rounds, asked, reply, results, previews, previewed>>
  PROVE  /\ LoopTypeOK' /\ LoopInv'
         /\ \A b : Sealed(b) => SealedNext(b)
<1>1. LoopTypeOK'
  BY DEF LoopTypeOK
<1>2. ASSUME NEW l \in Loops
      PROVE  (Counted(l) /\ Dialogue(l) /\ Shown(l))'
  <2>1. CallIds(l)' = CallIds(l) /\ \A k : CallId(l, k)' = CallId(l, k)
    BY DEF CallIds, CallId
  <2>2. \A r : ShownIn(l, r)' = ShownIn(l, r)
    BY DEF ShownIn
  <2>3. Counted(l) /\ Dialogue(l) /\ Shown(l)
    BY DEF LoopInv
  <2>4. Counted(l)'
    BY <2>3 DEF Counted
  <2>5. Dialogue(l)'
    BY <2>1, <2>3 DEF Dialogue
  <2>6. Shown(l)'
    BY <2>2, <2>3 DEF Shown
  <2>. QED
    BY <2>4, <2>5, <2>6
<1>3. \A b : Sealed(b) => SealedNext(b)
  BY DEF Sealed, IsRound, SealedNext, Over, ShownIn
<1>. QED
  BY <1>1, <1>2, <1>3 DEF LoopInv

LEMMA ConfirmStepKeeps ==
  ASSUME IInv, ConfirmStep, UNCHANGED loopVars
  PROVE  IInv'
<1>1. LoopTypeOK /\ ConfirmTypeOK /\ LoopInv /\ SealedInv /\ SerialInv
  BY DEF IInv
<1>2. UNCHANGED <<pc, mode, turns, rounds, asked, reply, results, previews, previewed>>
  BY DEF loopVars, convVars
<1>3. LoopTypeOK' /\ LoopInv'
  BY <1>1, <1>2, LoopsRest
<1>4. \A b : Sealed(b) => SealedNext(b)
  BY <1>1, <1>2, LoopsRest
<1>5. QueueTypeOK' /\ SerialInv' /\ SealedInv'
  <2>1. CASE Quiet
    <3>1. PICK c \in Channels : TRUE
      BY ConfirmationsAssumption
    <3>2. SealedInv'
      BY <1>1, <1>4, <2>1, <3>1, SealedStays DEF Quiet
    <3>3. SerialInv'
      BY <1>1, <2>1 DEF Quiet, SerialInv, Waits, RunOnceInOrder, ClearedNeverRuns
    <3>. QED
      BY <1>1, <2>1, <3>2, <3>3 DEF Quiet, ConfirmTypeOK, QueueTypeOK
  <2>2. ASSUME NEW c \in Channels, Take(c), UNCHANGED <<saves, cleared>>
        PROVE  QueueTypeOK' /\ SerialInv' /\ SealedInv'
    BY <1>1, <1>4, <2>2, TakeSerials, SealedStays DEF ConfirmTypeOK, QueueTypeOK
  <2>3. ASSUME NEW c \in Channels, Clear(c), UNCHANGED <<saves, ran>>
        PROVE  QueueTypeOK' /\ SerialInv' /\ SealedInv'
    BY <1>1, <1>4, <2>3, ClearSerials, SealedStays DEF ConfirmTypeOK, QueueTypeOK
  <2>. QED
    BY <1>1, <2>1, <2>2, <2>3, ConfirmStepCases
<1>6. ConfirmTypeOK'
  BY <1>1, <1>5, ConfirmStepCases DEF ConfirmTypeOK, ViewTypeOK, QueueTypeOK
<1>. QED
  BY <1>3, <1>5, <1>6 DEF IInv

LEMMA StepIInv == IInv /\ [Next]_vars => IInv'
<1>. SUFFICES ASSUME IInv, [Next]_vars PROVE IInv'
  OBVIOUS
<1>1. CASE \E l \in Loops : LoopStep(l)
  BY <1>1, LoopStepKeeps
<1>2. CASE ConfirmStep /\ UNCHANGED loopVars
  BY <1>2, ConfirmStepKeeps
<1>3. CASE UNCHANGED vars
  <2>1. /\ UNCHANGED <<pc, mode, turns, rounds, asked, reply, results, previews, previewed>>
        /\ UNCHANGED <<pending, saves, view, confirming, cancelling, ran, cleared>>
    BY <1>3 DEF vars, loopVars, convVars, confirmVars, viewVars
  <2>2. ConfirmTypeOK'
    BY <2>1 DEF IInv, ConfirmTypeOK
  <2>3. LoopTypeOK' /\ LoopInv'
    BY <2>1, LoopsRest DEF IInv
  <2>4. SealedInv'
    BY <2>1 DEF IInv, SealedInv, Sealed, IsRound, Over, ShownIn
  <2>5. SerialInv'
    BY <2>1 DEF IInv, SerialInv, Waits, RunOnceInOrder, ClearedNeverRuns
  <2>. QED
    BY <2>2, <2>3, <2>4, <2>5 DEF IInv
<1>. QED
  BY <1>1, <1>2, <1>3 DEF Next

LEMMA Invariance == Spec => []IInv
BY InitIInv, StepIInv, PTL DEF Spec

-----------------------------------------------------------------------------
(* Every variable of the conversations and of the confirmation queue has   *)
(* its type; among others a loop never begins a round beyond MaxRounds,    *)
(* and asks at most twice in a round.                                      *)
THEOREM ConversationsTyped == Spec => []TypeOK
<1>1. IInv => TypeOK
  BY DEF IInv, LoopTypeOK, ConfirmTypeOK, TypeOK
<1>. QED
  BY <1>1, Invariance, PTL

(* Whatever the models answer, streamed or not, upgraded or not: whenever  *)
(* run_claude_loop asks again, every tool_use block of an assistant turn   *)
(* is answered by the tool_result blocks of the next turn, in order.       *)
THEOREM EveryCallIsAnswered == Spec => []CallsAnswered
<1>1. ASSUME LoopTypeOK, LoopInv, NEW l \in Loops, pc[l] = "ask", NEW k \in DOMAIN turns[l]
      PROVE  LET t == turns[l][k]
             IN  /\ (t.role = "assistant") = (k % 2 = 0)
                 /\ t.role = "assistant" => /\ k < Len(turns[l])
                                            /\ turns[l][k + 1].results = t.calls
                 /\ t.role = "user" => t.calls = <<>>
  <2>1. Alternate(turns[l]) /\ Answered(turns[l]) /\ Len(turns[l]) % 2 = 1
    BY <1>1 DEF LoopInv, Dialogue
  <2>2. k \in Nat /\ k <= Len(turns[l]) /\ Len(turns[l]) \in Nat
    BY <1>1 DEF LoopTypeOK
  <2>3. turns[l][k].role = "assistant" => k % 2 = 0
    BY <1>1, <2>1 DEF Alternate
  <2>4. k % 2 = 0 => k # Len(turns[l])
    BY <2>1, <2>2, Parity
  <2>5. turns[l][k].role = "assistant" => k < Len(turns[l])
    BY <2>2, <2>3, <2>4
  <2>. QED
    BY <1>1, <2>1, <2>5 DEF Alternate, Answered
<1>2. IInv => CallsAnswered
  BY <1>1 DEF IInv, CallsAnswered
<1>. QED
  BY <1>2, Invariance, PTL

(* The batch on_confirm saves, and that a "yes" or a click runs, is all    *)
(* the previews of one round of one conversation, in their order, and      *)
(* stays so: the round is over, and no later round adds to it.             *)
THEOREM BatchesAreRounds == Spec => []WholeRound
<1>1. ASSUME NEW b, Sealed(b) PROVE BatchOf(b)
  BY <1>1 DEF Sealed, IsRound, BatchOf, ShownIn
<1>2. IInv => WholeRound
  BY <1>1 DEF IInv, SealedInv, WholeRound
<1>. QED
  BY <1>2, Invariance, PTL

(* For any number of views, words and clicks, also when several callbacks  *)
(* of one view await their edit: ConfirmationManager hands a batch out at  *)
(* most once, and none after a later one.                                  *)
THEOREM BatchesRunOnce == Spec => []RunOnceInOrder
<1>1. IInv => RunOnceInOrder
  BY DEF IInv, SerialInv
<1>. QED
  BY <1>1, Invariance, PTL

(* Once Cancel has cleared a batch, no word and no click runs it, not even *)
(* a Confirm that was clicked before and whose edit is done only now.      *)
THEOREM CancelledNeverRun == Spec => []ClearedNeverRuns
<1>1. IInv => ClearedNeverRuns
  BY DEF IInv, SerialInv
<1>. QED
  BY <1>1, Invariance, PTL

-----------------------------------------------------------------------------
(* Induction, on a set of numbers: its least counterexample has none.      *)
LEMMA LeastNatural ==
  ASSUME NEW T \in SUBSET Nat, T # {}
  PROVE  \E m \in T : \A k \in T : m <= k
<1>1. PICK R : R = OpToRel(<, Nat)
  OBVIOUS
<1>2. IsWellFoundedOn(R, Nat)
  BY <1>1, NatLessThanWellFounded
<1>3. PICK m \in T : \A k \in T : <<k, m>> \notin R
  BY <1>2, WFMin
<1>4. \A k \in T : ~(k < m)
  BY <1>1, <1>3 DEF OpToRel
<1>. QED
  BY <1>4

LEMMA Induction ==
  ASSUME NEW S, 0 \in S, \A n \in Nat : n \in S => n + 1 \in S
  PROVE  \A n \in Nat : n \in S
<1>1. SUFFICES ASSUME Nat \ S # {} PROVE FALSE
  OBVIOUS
<1>2. PICK m \in Nat \ S : \A k \in Nat \ S : m <= k
  BY <1>1, LeastNatural
<1>3. m # 0 /\ m - 1 \in Nat /\ m - 1 \in S
  BY <1>2
<1>. QED
  BY <1>2, <1>3

(* FlattenSeq is the last of the concatenations of its first sequences.    *)
Upto(f, n, V, s) ==
  /\ f \in [0..n -> Seq(V)]
  /\ f[0] = <<>>
  /\ \A i \in 1..n : f[i] = f[i - 1] \o s[i]

Joins(f, V, s) == Upto(f, Len(s), V, s)

LEMMA JoinsExist ==
  ASSUME NEW V, NEW s \in Seq(Seq(V))
  PROVE  \E f : Joins(f, V, s)
<1>. DEFINE P(n) == n <= Len(s) => \E f : Upto(f, n, V, s)
            S    == {n \in Nat : P(n)}
<1>1. Len(s) \in Nat /\ \A i \in 1..Len(s) : s[i] \in Seq(V)
  BY ElementOfSeq
<1>2. P(0)
  <2>1. [i \in 0..0 |-> <<>>] \in [0..0 -> Seq(V)]
    BY EmptySeq
  <2>2. Upto([i \in 0..0 |-> <<>>], 0, V, s)
    BY <2>1 DEF Upto
  <2>. QED
    BY <2>2
<1>3. ASSUME NEW n \in Nat, P(n)
      PROVE  P(n + 1)
  <2>1. SUFFICES ASSUME n + 1 <= Len(s) PROVE \E f : Upto(f, n + 1, V, s)
    OBVIOUS
  <2>2. PICK f : Upto(f, n, V, s)
    BY <1>1, <1>3, <2>1
  <2>3. PICK v : v = f[n] \o s[n + 1]
    OBVIOUS
  <2>4. v \in Seq(V)
    <3>1. f[n] \in Seq(V) /\ s[n + 1] \in Seq(V)
      BY <1>1, <2>1, <2>2 DEF Upto
    <3>. QED
      BY <2>3, <3>1, ConcatProperties
  <2>5. PICK g : g = [i \in 0..(n + 1) |-> IF i = n + 1 THEN v ELSE f[i]]
    OBVIOUS
  <2>6. \A i \in 0..n : f[i] \in Seq(V)
    BY <2>2 DEF Upto
  <2>7. /\ g \in [0..(n + 1) -> Seq(V)]
        /\ g[0] = f[0] /\ g[n + 1] = v
        /\ \A i \in 0..n : g[i] = f[i]
    BY <2>4, <2>5, <2>6
  <2>8. ASSUME NEW i \in 1..(n + 1)
        PROVE  g[i] = g[i - 1] \o s[i]
    <3>1. CASE i = n + 1
      <4>1. i - 1 = n /\ n \in 0..n
        BY <3>1
      <4>. QED
        BY <2>3, <2>7, <3>1, <4>1
    <3>2. CASE i # n + 1
      <4>1. i \in 1..n /\ i \in 0..n /\ i - 1 \in 0..n
        BY <3>2
      <4>2. f[i] = f[i - 1] \o s[i]
        BY <2>2, <4>1 DEF Upto
      <4>. QED
        BY <2>7, <4>1, <4>2
    <3>. QED
      BY <3>1, <3>2
  <2>9. g[0] = <<>>
    BY <2>2, <2>7 DEF Upto
  <2>10. Upto(g, n + 1, V, s)
    BY <2>7, <2>8, <2>9 DEF Upto
  <2>. QED
    BY <2>10
<1>. HIDE DEF P
<1>4. 0 \in S /\ \A n \in Nat : n \in S => n + 1 \in S
  BY <1>2, <1>3
<1>5. Len(s) \in S
  <2>. HIDE DEF S
  <2>. QED
    BY <1>1, <1>4, Induction
<1>. QED
  BY <1>5 DEF P, Joins

LEMMA FlattenJoins ==
  ASSUME NEW V, NEW s \in Seq(Seq(V)), NEW f, Joins(f, V, s)
  PROVE  FlattenSeq(s) = f[Len(s)]
<1>1. Len(s) \in Nat /\ \A i \in 1..Len(s) : s[i] \in Seq(V)
  BY ElementOfSeq
<1>2. CASE Len(s) = 0
  <2>1. s = <<>>
    BY <1>2
  <2>. QED
    BY <1>2, <2>1 DEF FlattenSeq, Joins, Upto
<1>3. CASE Len(s) # 0
  <2>. DEFINE Solves(g) == g = [i \in 1..Len(s) |-> IF i = 1 THEN s[i] ELSE g[i - 1] \o s[i]]
  <2>1. f[0] = <<>> /\ \A i \in 1..Len(s) : f[i] = f[i - 1] \o s[i]
    BY DEF Joins, Upto
  <2>2. f[1] = s[1]
    <3>1. 1 \in 1..Len(s) /\ 1 - 1 = 0
      BY <1>1, <1>3
    <3>2. f[1] = <<>> \o s[1] /\ s[1] \in Seq(V)
      BY <1>1, <2>1, <3>1
    <3>. QED
      BY <3>2, ConcatEmptySeq
  <2>3. \E g : Solves(g)
    <3>1. PICK g : g = [i \in 1..Len(s) |-> f[i]]
      OBVIOUS
    <3>2. ASSUME NEW i \in 1..Len(s)
          PROVE  f[i] = IF i = 1 THEN s[i] ELSE g[i - 1] \o s[i]
      <4>1. CASE i = 1
        BY <2>2, <4>1
      <4>2. CASE i # 1
        <5>1. i - 1 \in 1..Len(s)
          BY <1>1, <4>2
        <5>. QED
          BY <2>1, <3>1, <4>2, <5>1
      <4>. QED
        BY <4>1, <4>2
    <3>3. [i \in 1..Len(s) |-> f[i]] = [i \in 1..Len(s) |-> IF i = 1 THEN s[i] ELSE g[i - 1] \o s[i]]
      BY <3>2
    <3>. QED
      BY <3>1, <3>3
  <2>4. PICK g : Solves(g) /\ FlattenSeq(s) = g[Len(s)]
    BY <1>3, <2>3 DEF FlattenSeq
  <2>. DEFINE P(n) == n + 1 <= Len(s) => g[n + 1] = f[n + 1]
              S    == {n \in Nat : P(n)}
  <2>5. P(0)
    <3>1. 1 \in 1..Len(s)
      BY <1>1, <1>3
    <3>2. g[1] = s[1]
      BY <2>4, <3>1
    <3>. QED
      BY <2>2, <3>2
  <2>6. ASSUME NEW n \in Nat, P(n)
        PROVE  P(n + 1)
    <3>1. SUFFICES ASSUME n + 2 <= Len(s) PROVE g[n + 2] = f[n + 2]
      OBVIOUS
    <3>2. n + 2 \in 1..Len(s) /\ n + 2 # 1 /\ (n + 2) - 1 = n + 1 /\ n + 1 <= Len(s)
      BY <1>1, <3>1
    <3>3. g[n + 2] = g[n + 1] \o s[n + 2]
      BY <2>4, <3>2
    <3>4. f[n + 2] = f[n + 1] \o s[n + 2]
      BY <2>1, <3>2
    <3>. QED
      BY <2>6, <3>2, <3>3, <3>4
  <2>. HIDE DEF P
  <2>7. 0 \in S /\ \A n \in Nat : n \in S => n + 1 \in S
    BY <2>5, <2>6
  <2>8. Len(s) - 1 \in S
    <3>1. Len(s) - 1 \in Nat
      BY <1>1, <1>3
    <3>. HIDE DEF S
    <3>. QED
      BY <2>7, <3>1, Induction
  <2>9. g[Len(s)] = f[Len(s)]
    BY <1>1, <1>3, <2>8 DEF P
  <2>. QED
    BY <2>4, <2>9
<1>. QED
  BY <1>2, <1>3

-----------------------------------------------------------------------------
(* The messages of a conversation in the OpenAI form: each calls tools or  *)
(* answers one call.                                                       *)
OpenAIMessage == [role : {"system", "user", "assistant", "tool"}, calls : Seq(Id), answers : Id]

MessagesOf(t) == IF t.role = "user" THEN UserMessages(t)
                                    ELSE <<Message("assistant", t.calls, NoId)>>

(* Every call is answered in its place, but for those of the last message, *)
(* which are ids; every tool message answers a call.                       *)
Follow(ms, ids) ==
  /\ \A k \in DOMAIN ms : \A j \in DOMAIN ms[k].calls :
       \/ k + j \in DOMAIN ms /\ ms[k + j] = Message("tool", <<>>, ms[k].calls[j])
       \/ k = Len(ms) /\ ms[k].calls = ids
  /\ \A k \in DOMAIN ms : ms[k].role = "tool" => \E i \in 1..(k - 1) : k - i \in DOMAIN ms[i].calls
  /\ ids # <<>> => Len(ms) > 0 /\ ms[Len(ms)].calls = ids

LEMMA AssistantFollows ==
  ASSUME NEW ms \in Seq(OpenAIMessage), Follow(ms, <<>>), NEW ids \in Seq(Id)
  PROVE  /\ <<Message("assistant", ids, NoId)>> \in Seq(OpenAIMessage)
         /\ Follow(ms \o <<Message("assistant", ids, NoId)>>, ids)
<1>1. PICK m : m = Message("assistant", ids, NoId)
  OBVIOUS
<1>2. m \in OpenAIMessage /\ m.role = "assistant" /\ m.calls = ids
  BY <1>1 DEF Message, OpenAIMessage, NoId, Id
<1>3. PICK ns : ns = ms \o <<m>>
  OBVIOUS
<1>4. <<m>> \in Seq(OpenAIMessage) /\ Len(<<m>>) = 1 /\ <<m>>[1] = m
  BY <1>2
<1>5. /\ ns \in Seq(OpenAIMessage) /\ Len(ns) = Len(ms) + 1
      /\ \A i \in 1..(Len(ms) + 1) : ns[i] = IF i <= Len(ms) THEN ms[i] ELSE <<m>>[i - Len(ms)]
  BY <1>3, <1>4, ConcatProperties
<1>6. Len(ms) \in Nat /\ DOMAIN ms = 1..Len(ms) /\ DOMAIN ns = 1..(Len(ms) + 1)
  BY <1>5, LenProperties
<1>7. ns[Len(ms) + 1] = m /\ \A i \in 1..Len(ms) : ns[i] = ms[i]
  BY <1>4, <1>5, <1>6
<1>8. ASSUME NEW k \in DOMAIN ns, NEW j \in DOMAIN ns[k].calls
      PROVE  \/ k + j \in DOMAIN ns /\ ns[k + j] = Message("tool", <<>>, ns[k].calls[j])
             \/ k = Len(ns) /\ ns[k].calls = ids
  <2>1. CASE k = Len(ms) + 1
    BY <1>2, <1>5, <1>7, <2>1
  <2>2. CASE k # Len(ms) + 1
    <3>1. k \in DOMAIN ms /\ ns[k] = ms[k]
      BY <1>6, <1>7, <2>2
    <3>2. ms[k].calls # <<>>
      BY <1>8, <3>1
    <3>3. k + j \in DOMAIN ms /\ ms[k + j] = Message("tool", <<>>, ms[k].calls[j])
      BY <1>8, <3>1, <3>2 DEF Follow
    <3>. QED
      BY <1>6, <1>7, <3>1, <3>3
  <2>. QED
    BY <2>1, <2>2
<1>9. ASSUME NEW k \in DOMAIN ns, ns[k].role = "tool"
      PROVE  \E i \in 1..(k - 1) : k - i \in DOMAIN ns[i].calls
  <2>1. k \in DOMAIN ms /\ ms[k].role = "tool"
    BY <1>2, <1>6, <1>7, <1>9
  <2>2. PICK i \in 1..(k - 1) : k - i \in DOMAIN ms[i].calls
    BY <2>1 DEF Follow
  <2>3. ns[i] = ms[i]
    BY <1>6, <1>7, <2>1
  <2>. QED
    BY <2>2, <2>3
<1>10. Len(ns) > 0 /\ ns[Len(ns)].calls = ids
  BY <1>2, <1>5, <1>6, <1>7
<1>11. Follow(ns, ids)
  BY <1>8, <1>9, <1>10 DEF Follow
<1>. QED
  BY <1>1, <1>3, <1>4, <1>11

LEMMA UserMessagesAre ==
  ASSUME NEW t \in Said
  PROVE  LET us == UserMessages(t)
         IN  /\ us \in Seq(OpenAIMessage)
             /\ Len(us) >= Len(t.results)
             /\ \A j \in 1..Len(us) :
                  /\ us[j].calls = <<>>
                  /\ j <= Len(t.results) => us[j] = Message("tool", <<>>, t.results[j])
                  /\ j > Len(t.results) => us[j].role = "user"
<1>1. t.results \in Seq(Id) /\ Len(t.results) \in Nat /\ \A j \in 1..Len(t.results) : t.results[j] \in Id
  BY DEF Said
<1>2. PICK a : a = [k \in 1..Len(t.results) |-> Message("tool", <<>>, t.results[k])]
  OBVIOUS
<1>3. PICK b : b = IF t.text THEN <<Message("user", <<>>, NoId)>> ELSE <<>>
  OBVIOUS
<1>4. UserMessages(t) = a \o b
  BY <1>2, <1>3 DEF UserMessages
<1>5. \A j \in 1..Len(t.results) : /\ Message("tool", <<>>, t.results[j]) \in OpenAIMessage
                                   /\ Message("tool", <<>>, t.results[j]).calls = <<>>
  BY <1>1 DEF Message, OpenAIMessage
<1>6. /\ a \in Seq(OpenAIMessage) /\ Len(a) = Len(t.results)
      /\ \A j \in 1..Len(t.results) : a[j] = Message("tool", <<>>, t.results[j]) /\ a[j].calls = <<>>
  <2>1. a \in [1..Len(t.results) -> OpenAIMessage]
    BY <1>2, <1>5
  <2>2. a \in Seq(OpenAIMessage)
    BY <1>1, <2>1
  <2>3. Len(a) = Len(t.results)
    BY <1>1, <2>1, <2>2, LenProperties
  <2>. QED
    BY <1>2, <1>5, <2>2, <2>3
<1>7. /\ b \in Seq(OpenAIMessage) /\ Len(b) \in Nat
      /\ \A j \in 1..Len(b) : b[j].role = "user" /\ b[j].calls = <<>>
  <2>1. PICK m : m = Message("user", <<>>, NoId)
    OBVIOUS
  <2>2. m \in OpenAIMessage /\ m.role = "user" /\ m.calls = <<>>
    BY <2>1 DEF Message, OpenAIMessage, NoId, Id
  <2>3. /\ <<m>> \in Seq(OpenAIMessage) /\ Len(<<m>>) = 1 /\ <<m>>[1] = m
        /\ <<>> \in Seq(OpenAIMessage) /\ Len(<<>>) = 0
    BY <2>2
  <2>4. b = <<m>> \/ b = <<>>
    BY <1>3, <2>1
  <2>5. CASE b = <<m>>
    BY <2>2, <2>3, <2>5
  <2>6. CASE b = <<>>
    BY <2>3, <2>6
  <2>. QED
    BY <2>4, <2>5, <2>6
<1>8. PICK us : us = a \o b
  OBVIOUS
<1>9. /\ us \in Seq(OpenAIMessage) /\ Len(us) = Len(a) + Len(b)
      /\ \A j \in 1..(Len(a) + Len(b)) : us[j] = IF j <= Len(a) THEN a[j] ELSE b[j - Len(a)]
  <2>1. a \in Seq(OpenAIMessage) /\ b \in Seq(OpenAIMessage)
    BY <1>6, <1>7
  <2>. QED
    BY <1>8, <2>1, ConcatProperties
<1>10. ASSUME NEW j \in 1..Len(us)
       PROVE  /\ us[j].calls = <<>>
              /\ j <= Len(t.results) => us[j] = Message("tool", <<>>, t.results[j])
              /\ j > Len(t.results) => us[j].role = "user"
  <2>1. CASE j <= Len(t.results)
    <3>1. us[j] = a[j]
      BY <1>1, <1>6, <1>7, <1>9, <2>1
    <3>2. j \in 1..Len(t.results)
      BY <1>1, <1>6, <1>7, <1>9, <2>1
    <3>3. us[j] = Message("tool", <<>>, t.results[j]) /\ us[j].calls = <<>>
      BY <1>6, <3>1, <3>2
    <3>. QED
      BY <1>1, <2>1, <3>3
  <2>2. CASE ~(j <= Len(t.results))
    <3>1. us[j] = b[j - Len(a)] /\ j - Len(a) \in 1..Len(b)
      BY <1>1, <1>6, <1>7, <1>9, <2>2
    <3>2. us[j].role = "user" /\ us[j].calls = <<>>
      BY <1>7, <3>1
    <3>. QED
      BY <2>2, <3>2
  <2>. QED
    BY <2>1, <2>2
<1>11. Len(us) >= Len(t.results)
  BY <1>1, <1>6, <1>7, <1>9
<1>12. us = UserMessages(t)
  BY <1>4, <1>8
<1>. HIDE DEF UserMessages
<1>. QED
  BY <1>9, <1>10, <1>11, <1>12

LEMMA ToolsFollow ==
  ASSUME NEW ms \in Seq(OpenAIMessage), NEW t \in Said, Follow(ms, t.results)
  PROVE  /\ UserMessages(t) \in Seq(OpenAIMessage)
         /\ Follow(ms \o UserMessages(t), <<>>)
<1>1. PICK us : us = UserMessages(t)
  OBVIOUS
<1>2. /\ us \in Seq(OpenAIMessage) /\ Len(us) \in Nat
      /\ Len(us) >= Len(t.results)
      /\ \A j \in 1..Len(us) :
           /\ us[j].calls = <<>>
           /\ j <= Len(t.results) => us[j] = Message("tool", <<>>, t.results[j])
           /\ j > Len(t.results) => us[j].role = "user"
  BY <1>1, UserMessagesAre, LenProperties
<1>3. t.results \in Seq(Id) /\ Len(t.results) \in Nat /\ DOMAIN t.results = 1..Len(t.results)
  BY DEF Said
<1>4. PICK ns : ns = ms \o us
  OBVIOUS
<1>5. /\ ns \in Seq(OpenAIMessage) /\ Len(ns) = Len(ms) + Len(us)
      /\ \A i \in 1..(Len(ms) + Len(us)) : ns[i] = IF i <= Len(ms) THEN ms[i] ELSE us[i - Len(ms)]
  BY <1>2, <1>4, ConcatProperties
<1>6. Len(ms) \in Nat /\ DOMAIN ms = 1..Len(ms) /\ DOMAIN ns = 1..(Len(ms) + Len(us))
  BY <1>5, LenProperties
<1>7. /\ \A i \in 1..Len(ms) : ns[i] = ms[i] /\ i \in DOMAIN ns
      /\ \A j \in 1..Len(us) : ns[Len(ms) + j] = us[j] /\ Len(ms) + j \in DOMAIN ns
  BY <1>2, <1>5, <1>6, SMTT(40)
<1>8. ASSUME NEW k \in DOMAIN ns, NEW j \in DOMAIN ns[k].calls
      PROVE  k + j \in DOMAIN ns /\ ns[k + j] = Message("tool", <<>>, ns[k].calls[j])
  <2>1. CASE k > Len(ms)
    <3>1. k - Len(ms) \in 1..Len(us) /\ Len(ms) + (k - Len(ms)) = k
      BY <1>2, <1>6, <2>1
    <3>2. ns[k] = us[k - Len(ms)]
      BY <1>7, <3>1
    <3>3. ns[k].calls = <<>>
      BY <1>2, <3>1, <3>2
    <3>. QED
      BY <1>8, <3>3
  <2>2. CASE ~(k > Len(ms))
    <3>1. k \in DOMAIN ms /\ ns[k] = ms[k]
      BY <1>2, <1>6, <1>7, <2>2
    <3>2. CASE k + j \in DOMAIN ms /\ ms[k + j] = Message("tool", <<>>, ms[k].calls[j])
      BY <1>6, <1>7, <3>1, <3>2
    <3>3. CASE k = Len(ms) /\ ms[k].calls = t.results
      <4>1. j \in 1..Len(t.results) /\ j \in 1..Len(us)
        BY <1>2, <1>3, <1>8, <3>1, <3>3
      <4>2. us[j] = Message("tool", <<>>, ms[k].calls[j])
        BY <1>2, <1>3, <3>3, <4>1
      <4>. QED
        BY <1>7, <3>1, <3>3, <4>1, <4>2
    <3>. QED
      BY <1>8, <3>1, <3>2, <3>3 DEF Follow
  <2>. QED
    BY <2>1, <2>2
<1>9. ASSUME NEW k \in DOMAIN ns, ns[k].role = "tool"
      PROVE  \E i \in 1..(k - 1) : k - i \in DOMAIN ns[i].calls
  <2>1. CASE k > Len(ms)
    <3>1. PICK j : j = k - Len(ms)
      OBVIOUS
    <3>2. j \in 1..Len(us) /\ k = Len(ms) + j /\ j \in Nat
      BY <1>2, <1>6, <2>1, <3>1
    <3>3. ns[k] = us[j]
      BY <1>7, <3>2
    <3>4. ~(j > Len(t.results))
      BY <1>2, <1>9, <3>2, <3>3
    <3>5. j \in 1..Len(t.results)
      BY <1>3, <3>2, <3>4
    <3>6. t.results # <<>>
      BY <1>3, <3>5
    <3>7. Len(ms) > 0 /\ ms[Len(ms)].calls = t.results
      BY <3>6 DEF Follow
    <3>8. Len(ms) \in 1..(k - 1) /\ k - Len(ms) = j /\ ns[Len(ms)] = ms[Len(ms)]
      BY <1>6, <1>7, <3>2, <3>7
    <3>9. k - Len(ms) \in DOMAIN ns[Len(ms)].calls
      BY <1>3, <3>5, <3>7, <3>8
    <3>. QED
      BY <3>8, <3>9
  <2>2. CASE ~(k > Len(ms))
    <3>1. k \in DOMAIN ms /\ ns[k] = ms[k]
      BY <1>2, <1>6, <1>7, <2>2
    <3>2. PICK i \in 1..(k - 1) : k - i \in DOMAIN ms[i].calls
      BY <1>9, <3>1 DEF Follow
    <3>3. ns[i] = ms[i]
      BY <1>6, <1>7, <3>1
    <3>. QED
      BY <3>2, <3>3
  <2>. QED
    BY <2>1, <2>2
<1>10. Follow(ns, <<>>)
  BY <1>8, <1>9 DEF Follow
<1>. QED
  BY <1>1, <1>2, <1>4, <1>10

(* The messages of the first n turns follow, up to the calls of turn n.    *)
Open(ts, n) == IF n # 0 /\ n % 2 = 0 THEN ts[n].calls ELSE <<>>

LEMMA MessagesFollow ==
  ASSUME NEW ts \in Seq(Said), Alternate(ts), Answered(ts), Len(ts) % 2 = 1
  PROVE  ToOpenAI(ts) \in Seq(OpenAIMessage) /\ Follow(ToOpenAI(ts), <<>>)
<1>1. Len(ts) \in Nat /\ DOMAIN ts = 1..Len(ts) /\ \A k \in 1..Len(ts) : ts[k] \in Said
  BY LenProperties, ElementOfSeq
<1>2. PICK s : s = [k \in DOMAIN ts |-> MessagesOf(ts[k])]
  OBVIOUS
<1>3. \A k \in 1..Len(ts) : MessagesOf(ts[k]) \in Seq(OpenAIMessage)
  <2>1. ASSUME NEW t \in Said PROVE MessagesOf(t) \in Seq(OpenAIMessage)
    <3>1. UserMessages(t) \in Seq(OpenAIMessage)
      BY UserMessagesAre
    <3>2. t.calls \in Seq(Id)
      BY DEF Said
    <3>3. Message("assistant", t.calls, NoId) \in OpenAIMessage
      BY <3>2 DEF Message, OpenAIMessage, NoId, Id
    <3>4. <<Message("assistant", t.calls, NoId)>> \in Seq(OpenAIMessage)
      BY <3>3
    <3>. QED
      BY <3>1, <3>4 DEF MessagesOf
  <2>. QED
    BY <1>1, <2>1
<1>4. s \in Seq(Seq(OpenAIMessage)) /\ Len(s) = Len(ts)
      /\ \A k \in 1..Len(ts) : s[k] = MessagesOf(ts[k]) /\ s[k] \in Seq(OpenAIMessage)
  <2>1. s \in [1..Len(ts) -> Seq(OpenAIMessage)]
    BY <1>1, <1>2, <1>3
  <2>2. s \in Seq(Seq(OpenAIMessage))
    BY <1>1, <2>1
  <2>3. Len(s) = Len(ts)
    BY <1>1, <2>1, <2>2, LenProperties
  <2>. QED
    BY <1>1, <1>2, <1>3, <2>2, <2>3
<1>5. PICK f : Joins(f, OpenAIMessage, s)
  BY <1>4, JoinsExist
<1>6. FlattenSeq(s) = f[Len(ts)]
  BY <1>4, <1>5, FlattenJoins
<1>7. /\ \A i \in 0..Len(ts) : f[i] \in Seq(OpenAIMessage)
      /\ f[0] = <<>>
      /\ \A i \in 1..Len(ts) : f[i] = f[i - 1] \o s[i]
  BY <1>4, <1>5 DEF Joins, Upto
<1>8. PICK first : first = <<Message("system", <<>>, NoId)>>
  OBVIOUS
<1>9. ToOpenAI(ts) = first \o f[Len(ts)]
  BY <1>2, <1>6, <1>8 DEF ToOpenAI, MessagesOf
<1>10. first \in Seq(OpenAIMessage) /\ Follow(first, <<>>)
  <2>1. PICK m : m = Message("system", <<>>, NoId)
    OBVIOUS
  <2>2. m \in OpenAIMessage /\ m.role = "system" /\ m.calls = <<>>
    BY <2>1 DEF Message, OpenAIMessage, NoId, Id
  <2>3. first = <<m>> /\ Len(first) = 1 /\ DOMAIN first = {1} /\ first[1] = m
    BY <1>8, <2>1
  <2>. QED
    BY <2>2, <2>3 DEF Follow
<1>. DEFINE P(n) == n <= Len(ts) => /\ first \o f[n] \in Seq(OpenAIMessage)
                                    /\ Follow(first \o f[n], Open(ts, n))
            S    == {n \in Nat : P(n)}
<1>11. P(0)
  <2>1. first \o f[0] = first
    BY <1>7, <1>10, ConcatEmptySeq
  <2>2. Open(ts, 0) = <<>>
    BY DEF Open
  <2>. QED
    BY <1>10, <2>1, <2>2
<1>12. ASSUME NEW n \in Nat, P(n)
       PROVE  P(n + 1)
  <2>1. SUFFICES ASSUME n + 1 <= Len(ts)
                 PROVE  /\ first \o f[n + 1] \in Seq(OpenAIMessage)
                        /\ Follow(first \o f[n + 1], Open(ts, n + 1))
    OBVIOUS
  <2>2. n + 1 \in 1..Len(ts) /\ n \in 0..Len(ts) /\ (n + 1) - 1 = n /\ n < Len(ts) /\ n + 1 \in DOMAIN ts
    BY <1>1, <2>1
  <2>3. PICK ms : ms = first \o f[n]
    OBVIOUS
  <2>4. ms \in Seq(OpenAIMessage) /\ Follow(ms, Open(ts, n))
    BY <1>12, <2>1, <2>2, <2>3
  <2>5. first \o f[n + 1] = ms \o MessagesOf(ts[n + 1])
    <3>1. f[n + 1] = f[n] \o s[n + 1] /\ f[n] \in Seq(OpenAIMessage) /\ s[n + 1] \in Seq(OpenAIMessage)
          /\ s[n + 1] = MessagesOf(ts[n + 1])
      BY <1>4, <1>7, <2>2
    <3>2. \A a, b, c \in Seq(OpenAIMessage) : (a \o b) \o c = a \o (b \o c)
      BY ConcatAssociative
    <3>3. (first \o f[n]) \o s[n + 1] = first \o (f[n] \o s[n + 1])
      BY <1>10, <3>1, <3>2
    <3>. QED
      BY <2>3, <3>1, <3>3
  <2>6. PICK t \in Said : t = ts[n + 1]
    BY <1>1, <2>2
  <2>7. /\ (t.role = "assistant") = ((n + 1) % 2 = 0)
        /\ n = 0 => t.results = <<>>
    BY <2>2, <2>6 DEF Alternate
  <2>8. t.role \in {"user", "assistant"} /\ t.calls \in Seq(Id)
    BY DEF Said
  <2>9. CASE t.role = "assistant"
    <3>1. (n + 1) % 2 = 0 /\ n % 2 # 0
      BY <2>7, <2>9, Parity
    <3>2. Open(ts, n) = <<>> /\ Open(ts, n + 1) = t.calls
      BY <2>6, <3>1 DEF Open
    <3>3. PICK as : as = <<Message("assistant", t.calls, NoId)>>
      OBVIOUS
    <3>4. as \in Seq(OpenAIMessage) /\ Follow(ms \o as, t.calls)
      BY <2>4, <2>8, <3>2, <3>3, AssistantFollows
    <3>5. ms \o as \in Seq(OpenAIMessage)
      BY <2>4, <3>4, ConcatProperties
    <3>6. MessagesOf(t) = as
      BY <2>9, <3>3 DEF MessagesOf
    <3>. QED
      BY <2>5, <2>6, <3>2, <3>4, <3>5, <3>6
  <2>10. CASE t.role = "user"
    <3>1. (n + 1) % 2 # 0 /\ n % 2 = 0
      BY <2>7, <2>10, Parity
    <3>2. Open(ts, n + 1) = <<>>
      BY <3>1 DEF Open
    <3>3. Open(ts, n) = t.results
      <4>1. CASE n = 0
        BY <2>7, <4>1 DEF Open
      <4>2. CASE n # 0
        <5>1. n \in DOMAIN ts /\ ts[n].role = "assistant"
          BY <1>1, <2>2, <3>1, <4>2 DEF Alternate
        <5>2. ts[n + 1].results = ts[n].calls
          BY <2>2, <5>1 DEF Answered
        <5>. QED
          BY <2>6, <3>1, <4>2, <5>2 DEF Open
      <4>. QED
        BY <4>1, <4>2
    <3>4. UserMessages(t) \in Seq(OpenAIMessage) /\ Follow(ms \o UserMessages(t), <<>>)
      BY <2>4, <3>3, ToolsFollow
    <3>5. ms \o UserMessages(t) \in Seq(OpenAIMessage)
      BY <2>4, <3>4, ConcatProperties
    <3>6. MessagesOf(t) = UserMessages(t)
      BY <2>10 DEF MessagesOf
    <3>. QED
      BY <2>5, <2>6, <3>2, <3>4, <3>5, <3>6
  <2>. QED
    BY <2>8, <2>9, <2>10
<1>. HIDE DEF P
<1>13. 0 \in S /\ \A n \in Nat : n \in S => n + 1 \in S
  BY <1>11, <1>12
<1>14. Len(ts) \in S
  <2>. HIDE DEF S
  <2>. QED
    BY <1>1, <1>13, Induction
<1>15. P(Len(ts))
  BY <1>14
<1>16. Open(ts, Len(ts)) = <<>>
  <2>1. PICK n : n = Len(ts)
    OBVIOUS
  <2>2. n \in Nat /\ n % 2 = 1
    BY <1>1, <2>1
  <2>3. n % 2 # 0
    BY <2>2
  <2>. QED
    BY <2>1, <2>3 DEF Open
<1>. QED
  BY <1>1, <1>9, <1>15, <1>16 DEF P

(* And in the OpenAI form of the conversation every assistant message with *)
(* tool_calls is followed by the tool messages that answer them, each in   *)
(* its place, and every tool message answers a call of a message before it *)
(* with nothing but answers between them.                                  *)
THEOREM EveryToolMessageFollows == Spec => []ToolMessagesFollow
<1>1. ASSUME LoopTypeOK, LoopInv, NEW l \in Loops, pc[l] = "ask"
      PROVE  LET ms == ToOpenAI(turns[l])
             IN  /\ \A k \in DOMAIN ms : \A j \in DOMAIN ms[k].calls :
                      k + j \in DOMAIN ms /\ ms[k + j] = Message("tool", <<>>, ms[k].calls[j])
                 /\ \A k \in DOMAIN ms : ms[k].role = "tool" =>
                      \E i \in 1..(k - 1) : k - i \in DOMAIN ms[i].calls
  <2>1. turns[l] \in Seq(Said) /\ Alternate(turns[l]) /\ Answered(turns[l]) /\ Len(turns[l]) % 2 = 1
    BY <1>1 DEF LoopTypeOK, LoopInv, Dialogue
  <2>2. PICK ms : ms = ToOpenAI(turns[l])
    OBVIOUS
  <2>3. Follow(ms, <<>>)
    BY <2>1, <2>2, MessagesFollow
  <2>4. \A k \in DOMAIN ms : \A j \in DOMAIN ms[k].calls : ms[k].calls # <<>>
    OBVIOUS
  <2>. QED
    BY <2>2, <2>3, <2>4 DEF Follow
<1>2. IInv => ToolMessagesFollow
  BY <1>1 DEF IInv, ToolMessagesFollow
<1>. QED
  BY <1>2, Invariance, PTL

-----------------------------------------------------------------------------
(* The state of Consent: what the conversations ask, have shown, and have  *)
(* shown to the end; what waits for users and what they had run.           *)
AsksOf    == [l \in Loops |-> mode[l].confirms]
ShownOf   == [r \in Loops \X (1..MaxRounds) |-> ShownIn(r[1], r[2])]
RunsTools(r) == pc[r[1]] = "run" /\ rounds[r[1]] = r[2]
OverOf    == {r \in Loops \X (1..MaxRounds) : ShownIn(r[1], r[2]) # {} /\ ~RunsTools(r)}
EndedOf   == {l \in Loops : pc[l] = "ended"}
WaitingOf == [c \in Channels |-> ToSet(pending[c].actions)]
RunOf     == [c \in Channels |-> [k \in DOMAIN ran[c] |-> ToSet(ran[c][k].actions)]]

AgreedStep == [Agreed!Next]_(Agreed!vars)

LoopsSame  == AsksOf' = AsksOf /\ ShownOf' = ShownOf /\ OverOf' = OverOf /\ EndedOf' = EndedOf
QueuesSame == WaitingOf' = WaitingOf /\ RunOf' = RunOf

LEMMA SameIsStep == ASSUME LoopsSame, QueuesSame PROVE AgreedStep
BY DEF AgreedStep, LoopsSame, QueuesSame, Agreed!vars, AsksOf, ShownOf, OverOf, EndedOf, RunsTools,
       WaitingOf, RunOf

(* A batch that waits is not empty: on_confirm is called with previews.    *)
Asked == \A c \in Channels : pending[c] # NoBatch => pending[c].actions # <<>>

LEMMA AskedStep == ASSUME IInv, Asked, [Next]_vars PROVE Asked'
<1>1. pending \in [Channels -> Batch]
  BY DEF IInv, ConfirmTypeOK
<1>2. ASSUME NEW c \in Channels, Take(c) \/ Clear(c) PROVE Asked'
  BY <1>1, <1>2 DEF Take, Clear, Asked
<1>3. ASSUME NEW l \in Loops, FinishRound(l) PROVE Asked'
  <2>1. CASE UNCHANGED confirmVars
    BY <2>1 DEF Asked, confirmVars
  <2>2. CASE previews[l] # <<>> /\ Save(ChannelOf[l], Actions(l, previews[l]))
    <3>1. Actions(l, previews[l]) # <<>>
      <4>1. previews[l] \in Seq(Id)
        BY DEF IInv, LoopTypeOK
      <4>2. DOMAIN Actions(l, previews[l]) = DOMAIN previews[l]
        BY DEF Actions
      <4>3. 1 \in DOMAIN previews[l]
        BY <2>2, <4>1, EmptySeq
      <4>. QED
        BY <4>2, <4>3
    <3>2. \A c \in Channels : \/ pending'[c] = pending[c]
                              \/ pending'[c].actions = Actions(l, previews[l])
      BY <1>1, <2>2 DEF Save
    <3>. QED
      BY <3>1, <3>2 DEF Asked
  <2>. QED
    BY <1>3, <2>1, <2>2 DEF FinishRound
<1>4. CASE UNCHANGED pending
  BY <1>4 DEF Asked
<1>5. ASSUME NEW l \in Loops, LoopStep(l) PROVE Asked'
  BY <1>3, <1>4, <1>5 DEF LoopStep, RunTool, confirmVars
<1>6. CASE ConfirmStep
  <2>1. ConfirmTypeOK
    BY DEF IInv
  <2>. QED
    BY <1>2, <1>4, <1>6, <2>1, ConfirmStepCases DEF Quiet
<1>. QED
  BY <1>4, <1>5, <1>6 DEF Next, vars, confirmVars

(* Words, clicks and timeouts.                                             *)
LEMMA RanAppend ==
  ASSUME ConfirmTypeOK, NEW c \in Channels,
         ran' = [ran EXCEPT ![c] = Append(@, pending[c])]
  PROVE  RunOf' = [RunOf EXCEPT ![c] = Append(@, ToSet(pending[c].actions))]
<1>1. ran \in [Channels -> Seq(Batch)] /\ ran[c] \in Seq(Batch)
  BY DEF ConfirmTypeOK
<1>2. ran'[c] = Append(ran[c], pending[c]) /\ \A d \in Channels \ {c} : ran'[d] = ran[d]
  BY <1>1
<1>. DEFINE f == [k \in DOMAIN ran[c] |-> ToSet(ran[c][k].actions)]
            g == [k \in DOMAIN ran'[c] |-> ToSet(ran'[c][k].actions)]
            a == ToSet(pending[c].actions)
<1>3. g = Append(f, a)
  <2>. DEFINE n == Len(ran[c])
  <2>1. /\ n \in Nat /\ DOMAIN ran[c] = 1..n /\ DOMAIN ran'[c] = 1..(n + 1)
        /\ \A k \in 1..n : ran'[c][k] = ran[c][k]
        /\ ran'[c][n + 1] = pending[c]
    BY <1>1, <1>2
  <2>. HIDE DEF n
  <2>2. f = [k \in 1..n |-> ToSet(ran[c][k].actions)]
    BY <2>1
  <2>3. g = [k \in 1..(n + 1) |-> ToSet(ran'[c][k].actions)]
    BY <2>1
  <2>4. /\ \A k \in 1..n : g[k] = f[k]
        /\ g[n + 1] = a
    BY <2>1, <2>2, <2>3
  <2>. DEFINE V == {f[k] : k \in 1..n} \cup {a}
  <2>5. DOMAIN f = 1..n /\ DOMAIN g = 1..(n + 1)
    BY <2>2, <2>3
  <2>6. \A k \in 1..n : f[k] \in V /\ a \in V
    OBVIOUS
  <2>7. f = [k \in 1..n |-> f[k]] /\ g = [k \in 1..(n + 1) |-> g[k]]
    BY <2>2, <2>3
  <2>. HIDE DEF f, g, a, V
  <2>8. \A k \in 1..(n + 1) : g[k] \in V
    <3>1. ASSUME NEW k \in 1..(n + 1) PROVE k \in 1..n \/ k = n + 1
      BY <2>1
    <3>. QED
      BY <2>4, <2>6, <3>1 DEF V
  <2>9. f \in Seq(V) /\ g \in Seq(V) /\ Len(f) = n /\ Len(g) = n + 1
    <3>1. n \in Nat /\ n + 1 \in Nat
      BY <2>1
    <3>2. f \in [1..n -> V] /\ g \in [1..(n + 1) -> V]
      BY <2>6, <2>7, <2>8
    <3>3. f \in Seq(V) /\ g \in Seq(V)
      BY <3>1, <3>2, SeqDef
    <3>. QED
      BY <2>5, <3>1, <3>3
  <2>10. /\ Append(f, a) \in Seq(V) /\ Len(Append(f, a)) = n + 1
         /\ \A k \in 1..(n + 1) : Append(f, a)[k] = IF k <= n THEN f[k] ELSE a
    BY <2>1, <2>9 DEF V
  <2>11. \A k \in 1..(n + 1) : g[k] = Append(f, a)[k]
    BY <2>1, <2>4, <2>10
  <2>. QED
    BY <2>9, <2>10, <2>11, SeqEqual
<1>. HIDE DEF f, g, a
<1>4. RunOf[c] = f /\ RunOf'[c] = g /\ \A d \in Channels \ {c} : RunOf'[d] = RunOf[d]
  BY <1>2 DEF RunOf, f, g
<1>5. DOMAIN RunOf = Channels /\ RunOf = [d \in Channels |-> RunOf[d]]
      /\ RunOf' = [d \in Channels |-> RunOf'[d]]
  BY DEF RunOf
<1>. QED
  BY <1>3, <1>4, <1>5 DEF a

LEMMA WaitingEmptied ==
  ASSUME ConfirmTypeOK, NEW c \in Channels, pending' = [pending EXCEPT ![c] = NoBatch]
  PROVE  WaitingOf' = [WaitingOf EXCEPT ![c] = {}]
<1>1. ToSet(NoBatch.actions) = {}
  BY DEF NoBatch, ToSet
<1>2. \A d \in Channels : pending'[d] = IF d = c THEN NoBatch ELSE pending[d]
  BY DEF ConfirmTypeOK
<1>3. \A d \in Channels : ToSet(pending'[d].actions) = IF d = c THEN {} ELSE ToSet(pending[d].actions)
  BY <1>1, <1>2
<1>. QED
  BY <1>3 DEF WaitingOf

LEMMA SomeWait ==
  ASSUME ConfirmTypeOK, Asked, NEW c \in Channels, pending[c] # NoBatch
  PROVE  WaitingOf[c] = ToSet(pending[c].actions) /\ WaitingOf[c] # {}
<1>1. pending[c].actions \in Seq(Action) /\ pending[c].actions # <<>>
  BY DEF ConfirmTypeOK, Batch, Asked
<1>2. 1 \in DOMAIN pending[c].actions
  BY <1>1, EmptySeq
<1>3. pending[c].actions[1] \in ToSet(pending[c].actions)
  BY <1>2 DEF ToSet
<1>. QED
  BY <1>3 DEF WaitingOf

LEMMA ConfirmMaps ==
  ASSUME IInv, Asked, ConfirmStep, UNCHANGED loopVars
  PROVE  AgreedStep
<1>1. ConfirmTypeOK
  BY DEF IInv
<1>2. LoopsSame
  BY DEF loopVars, convVars, LoopsSame, AsksOf, ShownOf, OverOf, EndedOf, RunsTools, ShownIn
<1>3. CASE Quiet
  BY <1>2, <1>3, SameIsStep DEF Quiet, QueuesSame, WaitingOf, RunOf
<1>4. ASSUME NEW c \in Channels, Take(c) PROVE AgreedStep
  <2>1. CASE pending[c] = NoBatch
    <3>1. pending' = pending /\ ran' = ran
      BY <1>1, <1>4, <2>1 DEF Take, ConfirmTypeOK
    <3>. QED
      BY <1>2, <3>1, SameIsStep DEF QueuesSame, WaitingOf, RunOf
  <2>2. CASE pending[c] # NoBatch
    <3>1. WaitingOf[c] = ToSet(pending[c].actions) /\ WaitingOf[c] # {}
      BY <1>1, <2>2, SomeWait
    <3>2. RunOf' = [RunOf EXCEPT ![c] = Append(@, WaitingOf[c])]
      BY <1>1, <1>4, <2>2, <3>1, RanAppend DEF Take
    <3>3. WaitingOf' = [WaitingOf EXCEPT ![c] = {}]
      BY <1>1, <1>4, WaitingEmptied DEF Take
    <3>4. Agreed!Run(c)
      BY <1>2, <3>1, <3>2, <3>3 DEF Agreed!Run, LoopsSame, AsksOf, ShownOf, OverOf, EndedOf, RunsTools, WaitingOf, RunOf
    <3>. QED
      BY <3>4 DEF AgreedStep, Agreed!Next
  <2>. QED
    BY <2>1, <2>2
<1>5. ASSUME NEW c \in Channels, Clear(c), ran' = ran PROVE AgreedStep
  <2>1. RunOf' = RunOf
    BY <1>5 DEF RunOf
  <2>2. CASE pending[c] = NoBatch
    <3>1. pending' = pending
      BY <1>1, <1>5, <2>2 DEF Clear, ConfirmTypeOK
    <3>. QED
      BY <1>2, <2>1, <3>1, SameIsStep DEF QueuesSame, WaitingOf
  <2>3. CASE pending[c] # NoBatch
    <3>1. WaitingOf[c] # {}
      BY <1>1, <2>3, SomeWait
    <3>2. WaitingOf' = [WaitingOf EXCEPT ![c] = {}]
      BY <1>1, <1>5, WaitingEmptied DEF Clear
    <3>3. Agreed!Drop(c)
      BY <1>2, <2>1, <3>1, <3>2 DEF Agreed!Drop, LoopsSame, AsksOf, ShownOf, OverOf, EndedOf, RunsTools, WaitingOf, RunOf
    <3>. QED
      BY <3>3 DEF AgreedStep, Agreed!Next
  <2>. QED
    BY <2>2, <2>3
<1>. QED
  BY <1>1, <1>3, <1>4, <1>5, ConfirmStepCases

-----------------------------------------------------------------------------
(* The steps of a conversation.  A step that shows nothing, and after      *)
(* which the rounds that have shown something run their tools as before,   *)
(* is none of the user's business.                                         *)
LEMMA NothingNew ==
  ASSUME mode' = mode, previewed' = previewed, EndedOf' = EndedOf,
         \A r \in Loops \X (1..MaxRounds) :
           ShownIn(r[1], r[2]) # {} => RunsTools(r)' = RunsTools(r)
  PROVE  LoopsSame
<1>1. \A m, r : ShownIn(m, r)' = ShownIn(m, r)
  BY DEF ShownIn
<1>2. ShownOf' = ShownOf
  BY <1>1 DEF ShownOf
<1>3. OverOf' = OverOf
  <2>1. ASSUME NEW r \in Loops \X (1..MaxRounds)
        PROVE  r \in OverOf' <=> r \in OverOf
    BY <1>1 DEF OverOf
  <2>. QED
    BY <2>1 DEF OverOf
<1>. QED
  BY <1>2, <1>3 DEF LoopsSame, AsksOf

LEMMA OnlyItsRound ==
  ASSUME LoopTypeOK, NEW l \in Loops, previewed' = previewed, mode' = mode,
         \A m \in Loops \ {l} : pc'[m] = pc[m] /\ rounds'[m] = rounds[m],
         pc[l] = "ended" <=> pc'[l] = "ended",
         \/ pc[l] # "run" /\ pc'[l] # "run"
         \/ ShownIn(l, rounds[l]) = {} /\ rounds'[l] = rounds[l]
         \/ pc'[l] = pc[l] /\ rounds'[l] = rounds[l]
  PROVE  LoopsSame
<1>1. ASSUME NEW r \in Loops \X (1..MaxRounds), ShownIn(r[1], r[2]) # {}
      PROVE  RunsTools(r)' = RunsTools(r)
  <2>1. CASE r[1] # l
    <3>1. pc'[r[1]] = pc[r[1]] /\ rounds'[r[1]] = rounds[r[1]]
      BY <2>1
    <3>. QED
      BY <3>1 DEF RunsTools
  <2>2. CASE r[1] = l
    BY <1>1, <2>2 DEF RunsTools
  <2>. QED
    BY <2>1, <2>2
<1>2. EndedOf' = EndedOf
  BY DEF EndedOf
<1>. QED
  BY <1>1, <1>2, NothingNew

(* A conversation that ends: what its round showed does not wait.          *)
LEMMA EndMaps ==
  ASSUME IInv, NEW l \in Loops, pc[l] # "ended", End(l), UNCHANGED confirmVars
  PROVE  AgreedStep
<1>1. LoopTypeOK
  BY DEF IInv
<1>2. /\ pc'[l] = "ended" /\ UNCHANGED <<mode, previewed>>
      /\ \A m \in Loops \ {l} : pc'[m] = pc[m] /\ rounds'[m] = rounds[m]
  BY <1>1 DEF End, GoTo, LoopTypeOK
<1>3. QueuesSame
  BY DEF confirmVars, QueuesSame, WaitingOf, RunOf
<1>4. AsksOf' = AsksOf /\ ShownOf' = ShownOf
  BY <1>2 DEF AsksOf, ShownOf, ShownIn
<1>5. l \notin EndedOf /\ EndedOf' = EndedOf \cup {l}
  BY <1>2 DEF EndedOf
<1>6. OverOf' = OverOf \cup {r \in Agreed!Rounds : r[1] = l /\ ShownOf[r] # {}}
  <2>1. \A r \in Loops \X (1..MaxRounds) : ShownOf[r] = ShownIn(r[1], r[2])
                                         /\ ShownIn(r[1], r[2])' = ShownIn(r[1], r[2])
    BY <1>2 DEF ShownOf, ShownIn
  <2>2. ASSUME NEW r \in Loops \X (1..MaxRounds)
        PROVE  r \in OverOf' <=> r \in OverOf \/ (r[1] = l /\ ShownOf[r] # {})
    <3>1. CASE r[1] = l
      <4>1. ~RunsTools(r)'
        BY <1>2, <3>1 DEF RunsTools
      <4>. QED
        BY <2>1, <3>1, <4>1 DEF OverOf
    <3>2. CASE r[1] # l
      <4>1. pc'[r[1]] = pc[r[1]] /\ rounds'[r[1]] = rounds[r[1]]
        BY <1>2, <3>2
      <4>2. RunsTools(r)' = RunsTools(r)
        BY <4>1 DEF RunsTools
      <4>. QED
        BY <2>1, <3>2, <4>2 DEF OverOf
    <3>. QED
      BY <3>1, <3>2
  <2>3. OverOf \subseteq Loops \X (1..MaxRounds) /\ OverOf' \subseteq Loops \X (1..MaxRounds)
    BY DEF OverOf
  <2>. QED
    BY <2>2, <2>3 DEF Agreed!Rounds
<1>7. Agreed!Leave(l)
  BY <1>3, <1>4, <1>5, <1>6
     DEF Agreed!Leave, QueuesSame, AsksOf, ShownOf, OverOf, EndedOf, RunsTools, WaitingOf, RunOf
<1>. QED
  BY <1>7 DEF AgreedStep, Agreed!Next

LEMMA TalkMaps ==
  ASSUME IInv, NEW l \in Loops, TalkStep(l), UNCHANGED confirmVars
  PROVE  AgreedStep
<1>1. LoopTypeOK /\ LoopInv
  BY DEF IInv
<1>2. mode' = mode /\ previewed' = previewed
  BY DEF TalkStep, Start, Complete, OpenStream, StreamText, StreamCall, StreamEnd, AskRaises,
         Limit, EndTurn, ToolRaises, ConfirmRaises, End, AskBetter, Upgrade, AssistantTurn
<1>3. \A m \in Loops \ {l} : pc'[m] = pc[m] /\ rounds'[m] = rounds[m]
  BY <1>1, TalkKeeps DEF Keeps, Others
<1>4. CASE AssistantTurn(l)
  <2>1. /\ pc[l] \in Asking \ {"run"} /\ pc[l] # "ended" /\ pc'[l] # "ended"
        /\ rounds'[l] = rounds[l]
    BY <1>1, <1>4 DEF AssistantTurn, Asking, GoTo, LoopTypeOK
  <2>2. \A p \in previewed : p.loop = l => p.id.round < rounds[l]
    BY <1>1, <2>1 DEF LoopInv, Shown
  <2>3. rounds[l] \in Nat
    BY <1>1, ToolLoopAssumption DEF LoopTypeOK
  <2>4. ShownIn(l, rounds[l]) = {}
    BY <2>2, <2>3 DEF ShownIn
  <2>5. LoopsSame
    BY <1>1, <1>2, <1>3, <2>1, <2>4, OnlyItsRound
  <2>. QED
    BY <2>5, SameIsStep DEF confirmVars, QueuesSame, WaitingOf, RunOf
<1>5. CASE End(l)
  <2>1. pc[l] # "ended"
    BY <1>1, <1>5 DEF TalkStep, Start, Complete, OpenStream, StreamText, StreamCall, StreamEnd, AskRaises,
       Limit, EndTurn, ToolRaises, ConfirmRaises, AskBetter, Upgrade, AssistantTurn, CanAsk
  <2>. QED
    BY <1>5, <2>1, EndMaps
<1>6. CASE ~AssistantTurn(l) /\ ~End(l)
  <2>1. pc[l] \notin {"run", "ended"} /\ pc'[l] \notin {"run", "ended"}
    BY <1>1, <1>6 DEF TalkStep, Start, Complete, OpenStream, StreamText, StreamCall, StreamEnd,
       AskRaises, Limit, EndTurn, ToolRaises, ConfirmRaises, AskBetter, Upgrade, GoTo, CanAsk, LoopTypeOK
  <2>2. LoopsSame
    BY <1>1, <1>2, <1>3, <2>1, OnlyItsRound
  <2>. QED
    BY <2>2, SameIsStep DEF confirmVars, QueuesSame, WaitingOf, RunOf
<1>. QED
  BY <1>4, <1>5, <1>6

(* The round of a conversation whose tools run, and what it has shown.     *)
LEMMA CurrentRound ==
  ASSUME LoopTypeOK, LoopInv, NEW l \in Loops, pc[l] = "run"
  PROVE  /\ <<l, rounds[l]>> \in Loops \X (1..MaxRounds)
         /\ <<l, rounds[l]>> \notin OverOf /\ l \notin EndedOf
         /\ ShownOf[<<l, rounds[l]>>] = ShownIn(l, rounds[l])
<1>1. rounds[l] \in 1..MaxRounds
  BY ToolLoopAssumption DEF LoopInv, LoopTypeOK, Counted, Asking
<1>. QED
  BY <1>1 DEF OverOf, EndedOf, RunsTools, ShownOf

LEMMA ExecuteMaps ==
  ASSUME IInv, NEW l \in Loops, RunTool(l)
  PROVE  AgreedStep
<1>1. LoopTypeOK /\ LoopInv /\ Execute(l) /\ UNCHANGED confirmVars
  BY DEF IInv, RunTool
<1>2. QueuesSame
  BY <1>1 DEF confirmVars, QueuesSame, WaitingOf, RunOf
<1>3. UNCHANGED <<pc, mode, rounds>> /\ pc[l] = "run"
  BY <1>1 DEF Execute
<1>4. CASE previewed' = previewed
  <2>1. LoopsSame
    BY <1>1, <1>3, <1>4, OnlyItsRound
  <2>. QED
    BY <1>2, <2>1, SameIsStep
<1>5. CASE previewed' # previewed
  <2>. DEFINE k == Len(results[l]) + 1
              a == [loop |-> l, id |-> CallId(l, k)]
              r == <<l, rounds[l]>>
  <2>1. previewed' = previewed \cup {a}
    BY <1>1, <1>5 DEF Execute
  <2>2. a.loop = l /\ a.id.round = rounds[l] /\ a.id.at = k
    BY DEF CallId
  <2>3. r \in Loops \X (1..MaxRounds) /\ r \notin OverOf /\ r[1] \notin EndedOf /\ ShownOf[r] = ShownIn(l, rounds[l])
    BY <1>1, <1>3, CurrentRound
  <2>4. a \notin ShownIn(l, rounds[l])
    <3>1. /\ {[loop |-> l, id |-> previews[l][j]] : j \in DOMAIN previews[l]} = ShownIn(l, rounds[l])
          /\ \A j \in DOMAIN previews[l] : previews[l][j].at <= Len(results[l])
      BY <1>1, <1>3 DEF LoopInv, Shown
    <3>2. SUFFICES ASSUME NEW j \in DOMAIN previews[l], a = [loop |-> l, id |-> previews[l][j]]
                   PROVE  FALSE
      BY <3>1
    <3>3. Len(results[l]) \in Nat
      BY <1>1 DEF LoopTypeOK
    <3>4. previews[l][j].at = k
      BY <2>2, <3>2
    <3>. QED
      BY <3>1, <3>3, <3>4
  <2>. HIDE DEF a, k
  <2>5. \A q \in Loops \X (1..MaxRounds) :
          ShownIn(q[1], q[2])' = IF q = r THEN ShownIn(q[1], q[2]) \cup {a} ELSE ShownIn(q[1], q[2])
    <3>1. ASSUME NEW q \in Loops \X (1..MaxRounds)
          PROVE  q = r <=> a.loop = q[1] /\ a.id.round = q[2]
      BY <2>2
    <3>. QED
      BY <2>1, <3>1 DEF ShownIn
  <2>6. \A q \in Loops \X (1..MaxRounds) : a \notin ShownOf[q]
    <3>1. ASSUME NEW q \in Loops \X (1..MaxRounds), a \in ShownIn(q[1], q[2])
          PROVE  q = r
      BY <2>2, <3>1 DEF ShownIn
    <3>. QED
      BY <2>3, <2>4, <3>1 DEF ShownOf
  <2>7. ShownOf' = [ShownOf EXCEPT ![r] = @ \cup {a}] /\ a \in ShownOf'[r]
    <3>1. \A q \in Loops \X (1..MaxRounds) :
            ShownOf'[q] = IF q = r THEN ShownOf[q] \cup {a} ELSE ShownOf[q]
      BY <2>5 DEF ShownOf
    <3>2. DOMAIN ShownOf = Loops \X (1..MaxRounds)
          /\ ShownOf' = [q \in Loops \X (1..MaxRounds) |-> ShownOf'[q]]
      BY DEF ShownOf
    <3>. HIDE DEF r
    <3>. QED
      BY <2>3, <3>1, <3>2
  <2>8. OverOf' = OverOf
    <3>1. \A q \in Loops \X (1..MaxRounds) : RunsTools(q)' = RunsTools(q)
      BY <1>3 DEF RunsTools
    <3>2. RunsTools(r)
      BY <1>3 DEF RunsTools
    <3>3. ASSUME NEW q \in Loops \X (1..MaxRounds)
          PROVE  q \in OverOf' <=> q \in OverOf
      <4>1. CASE q = r
        BY <3>1, <3>2, <4>1 DEF OverOf
      <4>2. CASE q # r
        BY <2>5, <3>1, <4>2 DEF OverOf
      <4>. QED
        BY <4>1, <4>2
    <3>. QED
      BY <3>3 DEF OverOf
  <2>9. AsksOf' = AsksOf /\ EndedOf' = EndedOf
    BY <1>3 DEF AsksOf, EndedOf
  <2>10. Agreed!Show(r)
    <3>. HIDE DEF r
    <3>1. \A q \in Agreed!Rounds : a \notin ShownOf[q]
      BY <2>6 DEF Agreed!Rounds
    <3>. QED
      BY <1>2, <2>3, <2>7, <2>8, <2>9, <3>1
         DEF Agreed!Show, QueuesSame, AsksOf, ShownOf, OverOf, EndedOf, RunsTools, WaitingOf, RunOf
  <2>. QED
    BY <2>3, <2>10 DEF AgreedStep, Agreed!Next, Agreed!Rounds
<1>. QED
  BY <1>4, <1>5

(* The end of a round that has shown something closes it, and on_confirm   *)
(* lets all of it wait.                                                    *)
LEMMA FinishMaps ==
  ASSUME IInv, NEW l \in Loops, FinishRound(l)
  PROVE  AgreedStep
<1>1. LoopTypeOK /\ LoopInv /\ ConfirmTypeOK /\ EndRound(l)
  BY DEF IInv, FinishRound
<1>2. /\ pc[l] = "run" /\ pc'[l] = "ask" /\ UNCHANGED <<mode, rounds, previewed>>
      /\ \A m \in Loops \ {l} : pc'[m] = pc[m]
  BY <1>1 DEF EndRound, GoTo, LoopTypeOK
<1>3. {[loop |-> l, id |-> previews[l][k]] : k \in DOMAIN previews[l]} = ShownIn(l, rounds[l])
  BY <1>1, <1>2 DEF LoopInv, Shown
<1>4. previews[l] \in Seq(Id)
  BY <1>1 DEF LoopTypeOK
<1>5. CASE previews[l] = <<>>
  <2>1. ShownIn(l, rounds[l]) = {}
    BY <1>3, <1>5
  <2>2. LoopsSame
    BY <1>1, <1>2, <2>1, OnlyItsRound
  <2>3. QueuesSame
    BY <1>5 DEF FinishRound, confirmVars, QueuesSame, WaitingOf, RunOf
  <2>. QED
    BY <2>2, <2>3, SameIsStep
<1>6. CASE previews[l] # <<>>
  <2>1. PICK r \in Loops \X (1..MaxRounds) :
          /\ r = <<l, rounds[l]>>
          /\ r \notin OverOf /\ ShownOf[r] = ShownIn(l, rounds[l])
    BY <1>1, <1>2, CurrentRound
  <2>2. ShownIn(l, rounds[l]) # {}
    <3>1. 1 \in DOMAIN previews[l]
      BY <1>4, <1>6, EmptySeq
    <3>. QED
      BY <1>3, <3>1
  <2>3. AsksOf' = AsksOf /\ ShownOf' = ShownOf /\ EndedOf' = EndedOf
    BY <1>2 DEF AsksOf, ShownOf, ShownIn, EndedOf
  <2>4. OverOf' = OverOf \cup {r}
    <3>1. \A q \in Loops \X (1..MaxRounds) : ShownIn(q[1], q[2])' = ShownIn(q[1], q[2])
      BY <1>2 DEF ShownIn
    <3>2. ~RunsTools(r)' /\ ShownIn(r[1], r[2]) # {}
      BY <1>2, <2>1, <2>2 DEF RunsTools
    <3>3. ASSUME NEW q \in Loops \X (1..MaxRounds), q # r PROVE RunsTools(q)' = RunsTools(q)
      <4>1. CASE q[1] = l
        <5>1. q[2] # rounds[l]
          BY <2>1, <3>3, <4>1
        <5>. QED
          BY <1>2, <4>1, <5>1 DEF RunsTools
      <4>2. CASE q[1] # l
        <5>1. pc'[q[1]] = pc[q[1]] /\ rounds'[q[1]] = rounds[q[1]]
          BY <1>2, <4>2
        <5>. QED
          BY <5>1 DEF RunsTools
      <4>. QED
        BY <4>1, <4>2
    <3>4. ASSUME NEW q \in Loops \X (1..MaxRounds)
          PROVE  q \in OverOf' <=> q \in OverOf \/ q = r
      <4>1. CASE q = r
        BY <3>1, <3>2, <4>1 DEF OverOf
      <4>2. CASE q # r
        BY <3>1, <3>3, <4>2 DEF OverOf
      <4>. QED
        BY <4>1, <4>2
    <3>5. OverOf \subseteq Loops \X (1..MaxRounds) /\ OverOf' \subseteq Loops \X (1..MaxRounds)
      BY DEF OverOf
    <3>. QED
      BY <2>1, <3>4, <3>5
  <2>5. AsksOf[l] = mode[l].confirms
    BY DEF AsksOf
  <2>6. RunOf' = RunOf
    BY DEF FinishRound, Save, confirmVars, viewVars, RunOf
  <2>7. WaitingOf' = IF AsksOf[l] THEN [WaitingOf EXCEPT ![ChannelOf[l]] = ShownOf[r]] ELSE WaitingOf
    <3>1. CASE ~mode[l].confirms
      BY <2>5, <3>1 DEF FinishRound, confirmVars, WaitingOf
    <3>2. CASE mode[l].confirms
      <4>. DEFINE acts == Actions(l, previews[l])
                  b    == [serial |-> saves + 1, actions |-> acts]
      <4>1. ToSet(acts) = ShownOf[r]
        <5>1. ToSet(acts) = {[loop |-> l, id |-> previews[l][k]] : k \in DOMAIN previews[l]}
          BY DEF ToSet, Actions
        <5>. QED
          BY <1>3, <2>1, <5>1
      <4>2. b.actions = acts
        OBVIOUS
      <4>3. pending' = [pending EXCEPT ![ChannelOf[l]] = b] /\ ChannelOf[l] \in Channels
        BY <1>6, <3>2, ConversationsAssumption DEF FinishRound, Save
      <4>. HIDE DEF acts, b
      <4>4. \A d \in Channels : ToSet(pending'[d].actions) =
              IF d = ChannelOf[l] THEN ShownOf[r] ELSE ToSet(pending[d].actions)
        BY <1>1, <4>1, <4>2, <4>3 DEF ConfirmTypeOK
      <4>5. \A d \in Channels : WaitingOf'[d] = IF d = ChannelOf[l] THEN ShownOf[r] ELSE WaitingOf[d]
        BY <4>4 DEF WaitingOf
      <4>6. DOMAIN WaitingOf = Channels /\ WaitingOf' = [d \in Channels |-> WaitingOf'[d]]
        BY DEF WaitingOf
      <4>7. WaitingOf' = [WaitingOf EXCEPT ![ChannelOf[l]] = ShownOf[r]]
        BY <4>3, <4>5, <4>6
      <4>. QED
        BY <2>5, <3>2, <4>7
    <3>. QED
      BY <3>1, <3>2
  <2>8. Agreed!Close(r)
    <3>1. r[1] = l
      BY <2>1
    <3>2. ShownOf[r] # {}
      BY <2>1, <2>2
    <3>. QED
      BY <2>1, <2>3, <2>4, <2>6, <2>7, <3>1, <3>2
         DEF Agreed!Close, AsksOf, ShownOf, OverOf, EndedOf, RunsTools, WaitingOf, RunOf
  <2>. QED
    BY <2>1, <2>8 DEF AgreedStep, Agreed!Next, Agreed!Rounds
<1>. QED
  BY <1>5, <1>6

LEMMA StepAgrees == ASSUME IInv, Asked, [Next]_vars PROVE AgreedStep
<1>1. ASSUME NEW l \in Loops, LoopStep(l) PROVE AgreedStep
  BY <1>1, TalkMaps, ExecuteMaps, FinishMaps DEF LoopStep
<1>2. CASE ConfirmStep /\ UNCHANGED loopVars
  BY <1>2, ConfirmMaps
<1>3. CASE UNCHANGED vars
  BY <1>3, SameIsStep DEF vars, loopVars, convVars, confirmVars, LoopsSame, QueuesSame,
     AsksOf, ShownOf, OverOf, EndedOf, RunsTools, ShownIn, WaitingOf, RunOf
<1>. QED
  BY <1>1, <1>2, <1>3 DEF Next

(* A user who is asked sees whole rounds, each in place of the one before, *)
(* and what is shown is run at most once: run_claude_loop, the queue and   *)
(* the buttons, with all their interleavings, implement Consent.           *)
THEOREM ConversationsKeepConsent == Spec => KeepsConsent
<1>1. Init => Asked
  BY DEF Init, InitConfirmations, Asked
<1>2. Init => Agreed!Init
  <2>1. ASSUME Init PROVE \A l \in Loops : mode[l].confirms \in BOOLEAN
    BY <2>1, ToolLoopAssumption DEF Init, InitLoops, Settings
  <2>2. ASSUME Init PROVE \A m, r : ShownIn(m, r) = {}
    BY <2>2 DEF Init, InitLoops, ShownIn
  <2>3. ASSUME Init
        PROVE  /\ \A c \in Channels : ToSet(pending[c].actions) = {}
               /\ \A c \in Channels : [k \in DOMAIN ran[c] |-> ToSet(ran[c][k].actions)] = <<>>
    BY <2>3 DEF Init, InitConfirmations, NoBatch, ToSet
  <2>4. ASSUME Init PROVE \A l \in Loops : pc[l] # "ended"
    BY <2>4 DEF Init, InitLoops
  <2>. QED
    BY <2>1, <2>2, <2>3, <2>4 DEF Agreed!Init, Agreed!Rounds
<1>3. IInv /\ Asked /\ [Next]_vars => Asked'
  BY AskedStep
<1>4. IInv /\ Asked /\ [Next]_vars => [Agreed!Next]_(Agreed!vars)
  BY StepAgrees DEF AgreedStep
<1>. QED
  BY <1>1, <1>2, <1>3, <1>4, Invariance, PTL DEF Spec, KeepsConsent, Agreed!Spec
=============================================================================
