------------------------------ MODULE Consent -------------------------------
(***************************************************************************)
(* What users may rely on before a destructive action is run: a round of a *)
(* conversation shows its actions to them; when the round is over, all it  *)
(* showed waits in its channel, as a whole and in place of what waited     *)
(* there; and what waits is run once, or dropped for good.  A conversation *)
(* may end in the midst of a round: then nothing that round showed ever    *)
(* waits, and the conversation shows nothing more.                         *)
(***************************************************************************)
EXTENDS Naturals, Sequences

CONSTANTS Loops, MaxRounds, Channels, ChannelOf

VARIABLES
  asks,      \* per conversation whether it asks its users
  shown,     \* per round the actions it has shown
  over,      \* the rounds that have shown all they will
  ended,     \* the conversations that have ended
  waiting,   \* per channel the actions that wait for a user
  run        \* per channel what was run: sets of actions, in order

vars == <<asks, shown, over, ended, waiting, run>>

Rounds == Loops \X (1..MaxRounds)

Init ==
  /\ asks \in [Loops -> BOOLEAN]
  /\ shown = [r \in Rounds |-> {}]
  /\ over = {}
  /\ ended = {}
  /\ waiting = [c \in Channels |-> {}]
  /\ run = [c \in Channels |-> <<>>]

(* One more action, that no round has shown before.                        *)
Show(r) ==
  /\ r \notin over /\ r[1] \notin ended
  /\ \E a \in shown'[r] :
       /\ \A q \in Rounds : a \notin shown[q]
       /\ shown' = [shown EXCEPT ![r] = @ \cup {a}]
  /\ UNCHANGED <<asks, over, ended, waiting, run>>

Close(r) ==
  /\ r \notin over /\ shown[r] # {}
  /\ over' = over \cup {r}
  /\ waiting' = IF asks[r[1]] THEN [waiting EXCEPT ![ChannelOf[r[1]]] = shown[r]] ELSE waiting
  /\ UNCHANGED <<asks, shown, ended, run>>

Leave(l) ==
  /\ l \notin ended
  /\ ended' = ended \cup {l}
  /\ over' = over \cup {r \in Rounds : r[1] = l /\ shown[r] # {}}
  /\ UNCHANGED <<asks, shown, waiting, run>>

Run(c) ==
  /\ waiting[c] # {}
  /\ run' = [run EXCEPT ![c] = Append(@, waiting[c])]
  /\ waiting' = [waiting EXCEPT ![c] = {}]
  /\ UNCHANGED <<asks, shown, over, ended>>

Drop(c) ==
  /\ waiting[c] # {}
  /\ waiting' = [waiting EXCEPT ![c] = {}]
  /\ UNCHANGED <<asks, shown, over, ended, run>>

Next == \/ \E r \in Rounds : Show(r) \/ Close(r)
        \/ \E l \in Loops : Leave(l)
        \/ \E c \in Channels : Run(c) \/ Drop(c)

Spec == Init /\ [][Next]_vars
=============================================================================
