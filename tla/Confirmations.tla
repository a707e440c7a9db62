--------------------------- MODULE Confirmations ----------------------------
(***************************************************************************)
(* discord_comms.ConfirmationManager, which keeps one batch of previewed   *)
(* destructive actions per channel, and the Confirm and Cancel buttons of  *)
(* make_confirmation_view.  A batch is run when a user answers with an     *)
(* affirmative word or clicks Confirm.                                     *)
(*                                                                         *)
(* The callbacks of the buttons are the bots': execute takes the channel's *)
(* batch with force_consume and runs it, on_cancel clears it.  A callback  *)
(* awaits the edit of its message, and other clicks run meanwhile.         *)
(***************************************************************************)
EXTENDS Naturals, Sequences

CONSTANTS
  Channels,
  Views,      \* the confirmation views the bots may attach; bounds their number
  MaxClicks,  \* bound on the callbacks of one view that await their edit
  MaxSaves    \* bound on the number of batches saved

ASSUME ConfirmationsAssumption == Channels # {} /\ MaxClicks \in Nat /\ MaxSaves \in Nat

VARIABLES
  pending,     \* _pending: per channel the batch that waits, or NoBatch
  saves,       \* number of batches saved so far; a batch's serial number
  view,        \* per view the channel it asks about and where it is
  confirming,  \* per view the Confirm callbacks that await their edit
  cancelling,  \* per view the Cancel callbacks that await their edit
  ran,         \* history: per channel the batches that were run, in order
  cleared      \* history: serials of the batches that Cancel cleared

viewVars    == <<view, confirming, cancelling>>
confirmVars == <<pending, saves, viewVars, ran, cleared>>

NoBatch == [serial |-> 0, actions |-> <<>>]

Unsent == [at |-> "unsent", channel |-> CHOOSE c \in Channels : TRUE]

InitConfirmations ==
  /\ pending = [c \in Channels |-> NoBatch]
  /\ saves = 0
  /\ view = [v \in Views |-> Unsent]
  /\ confirming = [v \in Views |-> 0]
  /\ cancelling = [v \in Views |-> 0]
  /\ ran = [c \in Channels |-> <<>>]
  /\ cleared = {}

-----------------------------------------------------------------------------
(* ConfirmationManager.                                                    *)

\* Mutant of Save: setdefault, so the batch that waits stays.
SaveIfNone(c, actions) ==
  /\ saves < MaxSaves /\ saves' = saves + 1
  /\ pending' = [pending EXCEPT ![c] = IF @ # NoBatch THEN @
                                       ELSE [serial |-> saves + 1, actions |-> actions]]
  /\ UNCHANGED <<viewVars, ran, cleared>>

(* save: the batch replaces the one that waits.                            *)
Save(c, actions) ==
  /\ saves < MaxSaves /\ saves' = saves + 1
  /\ pending' = [pending EXCEPT ![c] = [serial |-> saves + 1, actions |-> actions]]
  /\ UNCHANGED <<viewVars, ran, cleared>>

\* Mutant of Take: get, not pop.
TakeKeeps(c) ==
  /\ UNCHANGED pending
  /\ ran' = IF pending[c] = NoBatch THEN ran ELSE [ran EXCEPT ![c] = Append(@, pending[c])]

(* The pop of consume and force_consume; the bot runs what it returns.     *)
Take(c) ==
  /\ pending' = [pending EXCEPT ![c] = NoBatch]
  /\ ran' = IF pending[c] = NoBatch THEN ran ELSE [ran EXCEPT ![c] = Append(@, pending[c])]

(* clear.                                                                  *)
Clear(c) ==
  /\ pending' = [pending EXCEPT ![c] = NoBatch]
  /\ cleared' = cleared \cup ({pending[c].serial} \ {0})

(* A user's message: any other text than an affirmative changes nothing.   *)
Yes(c) ==
  /\ Take(c)
  /\ UNCHANGED <<saves, viewVars, cleared>>

-----------------------------------------------------------------------------
(* make_confirmation_view.                                                 *)

(* A bot that peeks a batch asks for its confirmation.                     *)
Ask(v, c) ==
  /\ view[v] = Unsent
  /\ pending[c] # NoBatch
  /\ view' = [view EXCEPT ![v] = [at |-> "open", channel |-> c]]
  /\ UNCHANGED <<pending, saves, confirming, cancelling, ran, cleared>>

Stop(v) == view' = [view EXCEPT ![v].at = "stopped"]

ClickConfirm(v) ==
  /\ view[v].at = "open"
  /\ confirming[v] + cancelling[v] < MaxClicks
  /\ confirming' = [confirming EXCEPT ![v] = @ + 1]
  /\ UNCHANGED <<pending, saves, view, cancelling, ran, cleared>>

(* The edit is done: the view stops and execute runs, whether or not       *)
(* another click got here before.                                          *)
Confirm(v) ==
  /\ confirming[v] > 0
  /\ confirming' = [confirming EXCEPT ![v] = @ - 1]
  /\ Stop(v)
  /\ Take(view[v].channel)
  /\ UNCHANGED <<saves, cancelling, cleared>>

(* The edit raises: the callback ends before it stops the view.            *)
ConfirmFails(v) ==
  /\ confirming[v] > 0
  /\ confirming' = [confirming EXCEPT ![v] = @ - 1]
  /\ UNCHANGED <<pending, saves, view, cancelling, ran, cleared>>

\* Mutant of ClickCancel: on_cancel is left to its default.
ClickCancelOnly(v) ==
  /\ view[v].at = "open"
  /\ confirming[v] + cancelling[v] < MaxClicks
  /\ cleared' = cleared \cup ({pending[view[v].channel].serial} \ {0})
  /\ cancelling' = [cancelling EXCEPT ![v] = @ + 1]
  /\ UNCHANGED <<pending, saves, view, confirming, ran>>

(* on_cancel comes before the edit.                                        *)
ClickCancel(v) ==
  /\ view[v].at = "open"
  /\ confirming[v] + cancelling[v] < MaxClicks
  /\ Clear(view[v].channel)
  /\ cancelling' = [cancelling EXCEPT ![v] = @ + 1]
  /\ UNCHANGED <<saves, view, confirming, ran>>

Cancelled(v) ==
  /\ cancelling[v] > 0
  /\ cancelling' = [cancelling EXCEPT ![v] = @ - 1]
  /\ Stop(v) \/ UNCHANGED view
  /\ UNCHANGED <<pending, saves, confirming, ran, cleared>>

(* on_timeout disables the buttons; the batch goes on waiting.             *)
TimeOut(v) ==
  /\ view[v].at = "open"
  /\ Stop(v)
  /\ UNCHANGED <<pending, saves, confirming, cancelling, ran, cleared>>

ConfirmStep ==
  \/ \E c \in Channels : Yes(c)
  \/ \E v \in Views, c \in Channels : Ask(v, c)
  \/ \E v \in Views : \/ ClickConfirm(v) \/ Confirm(v) \/ ConfirmFails(v)
                      \/ ClickCancel(v) \/ Cancelled(v)
                      \/ TimeOut(v)

-----------------------------------------------------------------------------
(* A batch is run at most once, whatever words and clicks arrive, and none *)
(* is run after a later one: a preview replaces the ones before it for     *)
(* good, so a "yes" never resurrects the actions of an earlier turn.       *)
RunOnceInOrder ==
  \A c \in Channels : \A i, j \in DOMAIN ran[c] :
    i < j => ran[c][i].serial < ran[c][j].serial

(* A batch that Cancel cleared is never run.                               *)
ClearedNeverRuns ==
  \A c \in Channels : \A i \in DOMAIN ran[c] : ran[c][i].serial \notin cleared
=============================================================================
