----------------------------- MODULE Scheduler ------------------------------
(***************************************************************************)
(* The task scheduler of pandabot_core: the scheduled_tasks table          *)
(* (scheduler.py), the manage_schedule tool that edits it, the polling     *)
(* loop that reads it and the coroutine that fires a task                  *)
(* (scheduler_runtime.py), in a process that can crash, be closed and be   *)
(* started again.  The table survives the process; everything else dies.   *)
(*                                                                         *)
(* Each await is a point where any other coroutine may run: the query of   *)
(* the poll loop, the payload, the failure notice and the two table        *)
(* updates of a firing are separate actions.                               *)
(***************************************************************************)
EXTENDS WeeklyRule, Sequences, FiniteSets

CONSTANTS
  Firers,       \* identities of fire_one_shot_or_recurring coroutines; bounds
                \* how many run at once, the rest wait in the ready queue
  Requests,     \* the arguments of create that are considered
  PollSeconds,  \* sleep between two polls, in ticks
  MonthSpan,    \* the next monthly occurrence is at most this far ahead
  MaxTime,      \* bound on the clock
  MaxCreates,   \* bound on the table's size at which create is still called
  MaxAttempts,  \* bound: no reschedule once some row has this attempt number
  MaxFaults,    \* bound on the number of table accesses that raise
  MaxStops,     \* bound on the crashes and closes while the loop runs
  NoTime        \* the fire_at argument is missing or is not an ISO datetime

(* Recurrence rules, up to what the code tells apart: the prefix, and      *)
(* whether int() accepts what follows "monthly:".  "none" is an absent one.*)
Rules     == {"none", "weekly", "monthly", "monthly_not_int", "other"}
GoodRules == {"weekly", "monthly"}
Kinds     == {"one_shot", "recurring"}

ASSUME SchedulerAssumption ==
  /\ PollSeconds \in Nat \ {0}
  /\ MonthSpan \in Nat \ {0}
  /\ MaxTime \in Nat /\ MaxCreates \in Nat /\ MaxAttempts \in Nat
  /\ MaxFaults \in Nat /\ MaxStops \in Nat
  /\ NoTime \notin Nat
  /\ \A r \in Requests : r.fireAt \in Nat \cup {NoTime} /\ r.rule \in Rules

VARIABLES
  now,        \* the clock
  tasks,      \* the table; the row with AUTOINCREMENT id i is tasks[i]
  proc,       \* the process: "up", "closing" (is_running() is false), "down"
  loopPc,     \* where run_polling_loop is; "failed" when init_db ended it
  wake,       \* when its sleep ends, 0 when it does not sleep
  due,        \* the rows its last query returned, in order
  ready,      \* firings created by create_task that have not started, in order
  firing,     \* the running firings
  faults,     \* table accesses that raised so far
  stops,      \* crashes and closes so far
  cancelled,  \* history: ids for which cancel_task returned True
  lost        \* history: series whose schedule_next_recurring raised

loopVars == <<loopPc, wake, due>>
procVars == <<proc, stops>>
ghosts   == <<cancelled, lost>>
vars == <<now, tasks, proc, loopPc, wake, due, ready, firing, faults, stops,
          cancelled, lost>>

Ids == 1..Len(tasks)

(* A row: the columns the code reads, and as history the id of the row a   *)
(* user created at the head of its series and how often it started firing. *)
Row == [fireAt : Nat, kind : Kinds, rule : Rules, attempt : Nat,
        done : BOOLEAN, series : Nat \ {0}, fires : Nat]

(* What a firing keeps of its row: dict(task).  kind and rule are read     *)
(* from the table instead, because no statement updates them.              *)
Snapshot == [id : Nat \ {0}, fireAt : Nat]

NoTask == [id |-> 0, fireAt |-> 0]
Idle   == [pc |-> "idle", task |-> NoTask, cut |-> FALSE]

(* pc: the await the firing is at; cut: it has had its CancelledError.     *)
Firing == {Idle} \cup [pc   : {"payload", "notice", "next", "mark"},
                       task : Snapshot,
                       cut  : BOOLEAN]

TypeOK ==
  /\ now \in Nat
  /\ tasks \in Seq(Row)
  /\ proc \in {"up", "closing", "down"}
  /\ loopPc \in {"init", "check", "query", "dispatch", "sleep", "exited", "failed"}
  /\ wake \in Nat
  /\ due \in Seq(Snapshot)
  /\ ready \in Seq(Snapshot)
  /\ firing \in [Firers -> Firing]
  /\ faults \in Nat
  /\ stops \in Nat
  /\ cancelled \subseteq Nat
  /\ lost \subseteq Nat

Init ==
  /\ now = 0
  /\ tasks = <<>>
  /\ proc = "up"
  /\ loopPc = "init"
  /\ wake = 0
  /\ due = <<>>
  /\ ready = <<>>
  /\ firing = [f \in Firers |-> Idle]
  /\ faults = 0
  /\ stops = 0
  /\ cancelled = {}
  /\ lost = {}

Live(f) == firing[f].pc # "idle"
Alive   == proc # "down"
Fault   == faults < MaxFaults /\ faults' = faults + 1

-----------------------------------------------------------------------------
(* The manage_schedule tool.                                               *)

\* Mutant of AcceptsRule: the prefix of the rule is not checked.
AcceptsAnyRule(r) == r.kind = "recurring" => r.rule # "none"

AcceptsRule(r) ==
  /\ r.kind = "recurring" => r.rule # "none"
  /\ r.rule # "other"

\* Mutant of Accepts: fire_at is stored as it is given.
AcceptsNoTime(r) ==
  /\ r.kind \in Kinds
  /\ AcceptsRule(r)
  /\ r.static # r.prompt

(* Every early return of create, and add_task's parse of fire_at, which    *)
(* raises before the INSERT.                                               *)
Accepts(r) ==
  /\ r.fireAt # NoTime
  /\ r.kind \in Kinds
  /\ AcceptsRule(r)
  /\ r.static # r.prompt

(* add_task's INSERT: done and attempt take their defaults.                *)
Create ==
  /\ Alive
  /\ Len(tasks) < MaxCreates
  /\ \E r \in Requests :
       /\ Accepts(r)
       /\ tasks' = Append(tasks, [fireAt |-> r.fireAt, kind |-> r.kind,
                                  rule |-> r.rule, attempt |-> 0, done |-> FALSE,
                                  series |-> Len(tasks) + 1, fires |-> 0])
  /\ UNCHANGED <<now, procVars, loopVars, ready, firing, faults, ghosts>>

(* cancel_task, in the case where it returns True.                         *)
Cancel(i) ==
  /\ Alive
  /\ ~tasks[i].done
  /\ tasks' = [tasks EXCEPT ![i].done = TRUE]
  /\ cancelled' = cancelled \cup {i}
  /\ UNCHANGED <<now, procVars, loopVars, ready, firing, faults, lost>>

(* reschedule, called by bots that retry a task; it does not look at done. *)
Reschedule(i) ==
  /\ Alive
  /\ now < MaxTime /\ \A j \in Ids : tasks[j].attempt < MaxAttempts
  /\ \E t \in now..MaxTime :
       tasks' = [tasks EXCEPT ![i].fireAt = t, ![i].attempt = @ + 1]
  /\ UNCHANGED <<now, procVars, loopVars, ready, firing, faults, ghosts>>

-----------------------------------------------------------------------------
(* run_polling_loop.                                                       *)

IsRunning == proc = "up"

(* init_db, before the loop and outside its try block.                     *)
InitDb ==
  /\ loopPc = "init"
  /\ loopPc' = "check"
  /\ UNCHANGED <<now, tasks, procVars, wake, due, ready, firing, faults, ghosts>>

(* Its exception ends the loop's task; the process goes on without a loop. *)
InitDbRaises ==
  /\ loopPc = "init"
  /\ Fault
  /\ loopPc' = "failed"
  /\ UNCHANGED <<now, tasks, procVars, wake, due, ready, firing, ghosts>>

LoopCheck ==
  /\ loopPc = "check"
  /\ loopPc' = IF IsRunning THEN "query" ELSE "exited"
  /\ UNCHANGED <<now, tasks, procVars, wake, due, ready, firing, faults, ghosts>>

\* Mutant of IsDue: the query forgets AND done = 0.
IsDueEvenDone(i) == tasks[i].fireAt <= now

IsDue(i) == tasks[i].fireAt <= now /\ ~tasks[i].done

(* The rows a query may return: those that are due, ordered by fire_at.    *)
QueryResults ==
  LET D == {i \in Ids : IsDue(i)}
      n == Cardinality(D)
  IN  {[k \in 1..n |-> [id |-> s[k], fireAt |-> tasks[s[k]].fireAt]] :
         s \in {t \in [1..n -> D] :
                  \A j, k \in 1..n : j < k => /\ t[j] # t[k]
                                              /\ tasks[t[j]].fireAt <= tasks[t[k]].fireAt}}

(* get_due_tasks, in the executor.                                         *)
PollQuery ==
  /\ loopPc = "query"
  /\ loopPc' = "dispatch"
  /\ due' \in QueryResults
  /\ UNCHANGED <<now, tasks, procVars, wake, ready, firing, faults, ghosts>>

Sleep ==
  /\ loopPc' = "sleep"
  /\ wake' = now + PollSeconds
  /\ due' = <<>>

\* Mutant of PollError: the query's exception ends the loop.
PollErrorEndsLoop ==
  /\ loopPc = "query"
  /\ Fault
  /\ loopPc' = "exited" /\ wake' = 0 /\ due' = <<>>
  /\ UNCHANGED <<now, tasks, procVars, ready, firing, ghosts>>

PollError ==
  /\ loopPc = "query"
  /\ Fault
  /\ Sleep
  /\ UNCHANGED <<now, tasks, procVars, ready, firing, ghosts>>

\* Mutant of Dispatch: the rows are marked done when they are handed out.
DispatchClaims ==
  /\ loopPc = "dispatch"
  /\ ready' = ready \o due
  /\ tasks' = [i \in Ids |-> [tasks[i] EXCEPT
                 !.done = @ \/ \E k \in DOMAIN due : due[k].id = i]]
  /\ Sleep
  /\ UNCHANGED <<now, procVars, firing, faults, ghosts>>

(* create_task for every row; nothing else runs between two of them.       *)
Dispatch ==
  /\ loopPc = "dispatch"
  /\ ready' = ready \o due
  /\ Sleep
  /\ UNCHANGED <<now, tasks, procVars, firing, faults, ghosts>>

(* Everything a poll dispatched has ended.                                 *)
Quiet == due = <<>> /\ ready = <<>> /\ \A f \in Firers : ~Live(f)

(* The clock stops at MaxTime; the later polls all see that moment, and are*)
(* bounded to begin when the firings of the one before have ended.         *)
LoopWake ==
  /\ loopPc = "sleep"
  /\ wake <= now \/ (now = MaxTime /\ Quiet)
  /\ loopPc' = "check"
  /\ wake' = 0
  /\ UNCHANGED <<now, tasks, procVars, due, ready, firing, faults, ghosts>>

LoopStep ==
  InitDb \/ InitDbRaises \/ LoopCheck \/ PollQuery \/ PollError \/ Dispatch \/ LoopWake

-----------------------------------------------------------------------------
(* fire_one_shot_or_recurring.                                             *)

IdOf(f)    == firing[f].task.id
Repeats(i) == tasks[i].kind = "recurring" /\ tasks[i].rule # "none"

(* The first await of the finally block.                                   *)
Finally(f) == IF Repeats(IdOf(f)) THEN "next" ELSE "mark"

GoTo(f, pc) == firing' = [firing EXCEPT ![f].pc = pc]

Finish(f) == firing' = [firing EXCEPT ![f] = Idle]

(* The event loop takes the oldest created task and runs it up to its      *)
(* first await, the call of post_static or run_prompt.                     *)
Start(f) ==
  /\ ~Live(f)
  /\ ready # <<>>
  /\ firing' = [firing EXCEPT ![f] = [pc |-> "payload", task |-> Head(ready), cut |-> FALSE]]
  /\ ready' = Tail(ready)
  /\ tasks' = [tasks EXCEPT ![Head(ready).id].fires = @ + 1]
  /\ UNCHANGED <<now, procVars, loopVars, faults, ghosts>>

PayloadReturns(f) ==
  /\ firing[f].pc = "payload"
  /\ GoTo(f, Finally(f))
  /\ UNCHANGED <<now, tasks, procVars, loopVars, ready, faults, ghosts>>

PayloadRaises(f) ==
  /\ firing[f].pc = "payload"
  /\ GoTo(f, "notice")
  /\ UNCHANGED <<now, tasks, procVars, loopVars, ready, faults, ghosts>>

(* The failure notice was posted, or posting it raised as well.            *)
NoticeEnds(f) ==
  /\ firing[f].pc = "notice"
  /\ GoTo(f, Finally(f))
  /\ UNCHANGED <<now, tasks, procVars, loopVars, ready, faults, ghosts>>

(* schedule_next_recurring: the fire_at of the row it inserts.  The monthly*)
(* date, which MonthlyRule gives exactly, is any moment after now here.    *)
NextFireAts(rule, fireAt) ==
  IF rule = "weekly" THEN {WeeklyNext(fireAt, now)}
                     ELSE (now + 1)..(now + MonthSpan)

(* The INSERT leaves attempt and done to their defaults.                   *)
Successor(i, fireAt) ==
  [tasks[i] EXCEPT !.fireAt = fireAt, !.attempt = 0, !.done = FALSE, !.fires = 0]

InsertNext(f) ==
  /\ tasks[IdOf(f)].rule \in GoodRules
  /\ \E t \in NextFireAts(tasks[IdOf(f)].rule, firing[f].task.fireAt) :
       tasks' = Append(tasks, Successor(IdOf(f), t))
  /\ UNCHANGED lost

(* It returns without an INSERT for a rule of an unknown kind.             *)
IgnoreRule(f) ==
  /\ tasks[IdOf(f)].rule = "other"
  /\ UNCHANGED <<tasks, lost>>

Lose(f) == lost' = lost \cup {tasks[IdOf(f)].series} /\ UNCHANGED tasks

(* int() raises, or the table cannot be written.                           *)
InsertRaises(f) ==
  \/ tasks[IdOf(f)].rule = "monthly_not_int" /\ Lose(f) /\ UNCHANGED faults
  \/ tasks[IdOf(f)].rule \in GoodRules /\ Lose(f) /\ Fault

ScheduleNext(f) ==
  /\ firing[f].pc = "next"
  /\ GoTo(f, "mark")
  /\ \/ (InsertNext(f) \/ IgnoreRule(f)) /\ UNCHANGED faults
     \/ InsertRaises(f)
  /\ UNCHANGED <<now, procVars, loopVars, ready, cancelled>>

SetDone(f) == tasks' = [tasks EXCEPT ![IdOf(f)].done = TRUE]

MarkDone(f) ==
  /\ firing[f].pc = "mark"
  /\ SetDone(f)
  /\ Finish(f)
  /\ UNCHANGED <<now, procVars, loopVars, ready, faults, ghosts>>

MarkDoneRaises(f) ==
  /\ firing[f].pc = "mark"
  /\ Fault
  /\ Finish(f)
  /\ UNCHANGED <<now, tasks, procVars, loopVars, ready, ghosts>>

FireStep(f) ==
  \/ Start(f)
  \/ PayloadReturns(f) \/ PayloadRaises(f) \/ NoticeEnds(f)
  \/ ScheduleNext(f)
  \/ MarkDone(f) \/ MarkDoneRaises(f)

-----------------------------------------------------------------------------
(* Closing the bot.  is_running() turns false, so the loop leaves at its   *)
(* next check; asyncio then cancels what is left.  CancelledError is no    *)
(* Exception: it leaves every try block of a firing, and reaches the       *)
(* finally block only from the payload or the notice.  An update already   *)
(* handed to the executor is or is not carried out.                        *)

(* MaxStops does not bound the stops of a process whose loop failed.       *)
MayStop == stops < MaxStops \/ loopPc = "failed"

Close ==
  /\ proc = "up"
  /\ MayStop
  /\ proc' = "closing"
  /\ stops' = stops + 1
  /\ UNCHANGED <<now, tasks, loopVars, ready, firing, faults, ghosts>>

CancelLoop ==
  /\ proc = "closing"
  /\ loopPc \notin {"exited", "failed"}
  /\ loopPc' = "exited" /\ wake' = 0 /\ due' = <<>>
  /\ UNCHANGED <<now, tasks, procVars, ready, firing, faults, ghosts>>

(* A task cancelled before its first step never runs, not even its finally.*)
CancelReady ==
  /\ proc = "closing"
  /\ ready # <<>>
  /\ ready' = <<>>
  /\ UNCHANGED <<now, tasks, procVars, loopVars, firing, faults, ghosts>>

CancelFiring(f) ==
  /\ proc = "closing"
  /\ ~firing[f].cut
  /\ \/ /\ firing[f].pc \in {"payload", "notice"}
        /\ firing' = [firing EXCEPT ![f] =
                       [pc |-> Finally(f), task |-> firing[f].task, cut |-> TRUE]]
        /\ UNCHANGED <<tasks, lost>>
     \/ /\ firing[f].pc = "next"
        /\ Finish(f)
        /\ InsertNext(f) \/ UNCHANGED <<tasks, lost>>
     \/ /\ firing[f].pc = "mark"
        /\ Finish(f)
        /\ SetDone(f) \/ UNCHANGED tasks
        /\ UNCHANGED lost
  /\ UNCHANGED <<now, procVars, loopVars, ready, faults, cancelled>>

Exit ==
  /\ proc = "closing"
  /\ loopPc \in {"exited", "failed"} /\ ready = <<>> /\ \A f \in Firers : ~Live(f)
  /\ proc' = "down"
  /\ UNCHANGED <<now, tasks, stops, loopVars, ready, firing, faults, ghosts>>

(* Everything in memory is gone; the table stays.                          *)
Crash ==
  /\ Alive
  /\ MayStop
  /\ stops' = stops + 1
  /\ proc' = "down"
  /\ loopPc' = "exited" /\ wake' = 0 /\ due' = <<>>
  /\ ready' = <<>>
  /\ firing' = [f \in Firers |-> Idle]
  /\ UNCHANGED <<now, tasks, faults, ghosts>>

(* on_ready starts the polling loop.                                       *)
Restart ==
  /\ proc = "down"
  /\ proc' = "up"
  /\ loopPc' = "init"
  /\ UNCHANGED <<now, tasks, stops, wake, due, ready, firing, faults, ghosts>>

Tick ==
  /\ now < MaxTime
  /\ now' = now + 1
  /\ UNCHANGED <<tasks, procVars, loopVars, ready, firing, faults, ghosts>>

-----------------------------------------------------------------------------
UserStep == Create \/ \E i \in Ids : Cancel(i) \/ Reschedule(i)

Fire == \E f \in Firers : FireStep(f) \/ CancelFiring(f)

ProcStep == Close \/ CancelLoop \/ CancelReady \/ Exit \/ Crash \/ Restart

Next == UserStep \/ LoopStep \/ Fire \/ ProcStep \/ Tick

Spec == Init /\ [][Next]_vars

(* Time passes, the event loop runs what is ready, every await of a firing *)
(* ends, closing cancels the loop and exits, a stopped process is started  *)
(* again.                                                                  *)
Fairness ==
  /\ WF_vars(Tick) /\ WF_vars(LoopStep)
  /\ \A f \in Firers : WF_vars(FireStep(f))
  /\ WF_vars(CancelLoop) /\ WF_vars(Exit) /\ WF_vars(Restart)

FairSpec == Spec /\ Fairness

(* The deployments in which everything a poll dispatched ends before the   *)
(* next poll.                                                              *)
PromptSpec == Init /\ [][Next /\ (now' # now => Quiet)]_vars

-----------------------------------------------------------------------------
SameSeries(i, j) == tasks[i].series = tasks[j].series

(* A recurring series has a row that waits to fire, whatever crashes,      *)
(* closes, overlaps and failures happened, unless one of its rows was      *)
(* cancelled or computing its next occurrence raised.  This is what        *)
(* inserting the next row before marking the fired one done buys.          *)
Ended(i) == tasks[i].series \in lost \/ \E j \in cancelled : j \in Ids /\ SameSeries(i, j)

SeriesAlive ==
  \A i \in Ids : (tasks[i].kind = "recurring" /\ ~Ended(i)) =>
    \E j \in Ids : SameSeries(i, j) /\ ~tasks[j].done

(* A task is never dropped: a row that is done was started or cancelled.   *)
DoneWasFired ==
  \A i \in Ids : tasks[i].done => tasks[i].fires > 0 \/ i \in cancelled

Unrescheduled(i) == \A j \in Ids : SameSeries(i, j) => tasks[j].attempt = 0

(* Every occurrence of a weekly series is a whole number of weeks after    *)
(* its first, however late the firings were, unless a bot rescheduled one. *)
WeeklyOnGrid ==
  \A i \in Ids : tasks[i].rule = "weekly" /\ Unrescheduled(i) =>
    (tasks[i].fireAt - tasks[tasks[i].series].fireAt) % Week = 0

(* A firing never books a successor in the past, so an outage is followed  *)
(* by one late firing and not by a burst of missed ones.                   *)
BookedAhead ==
  \A i \in 1..Len(tasks') :
    (i > Len(tasks) /\ tasks'[i].series # i) => tasks'[i].fireAt > now

BooksAhead == [][BookedAhead]_vars

(* If firings end before the next poll, every firing of a row beyond its   *)
(* first is paid for by a stop of the process or a failed table access.    *)
RefiresPaidFor ==
  \A i \in Ids : tasks[i].fires <= 1 + stops + faults

(* And without stops and faults a series never forks: at most one of its   *)
(* rows waits for a moment in the future.  A bot that reschedules a task   *)
(* while it fires has both that row and its successor wait until the row is*)
(* marked done.                                                            *)
OneOccurrenceAhead ==
  \A i, j \in Ids :
    (stops + faults = 0 /\ SameSeries(i, j) /\ Unrescheduled(i) /\ ~tasks[i].done /\ ~tasks[j].done
       /\ tasks[i].fireAt > now /\ tasks[j].fireAt > now) => i = j

(* A series whose rows are all done, none of them in the hands of a poll or*)
(* of a firing, never fires or gets a row again: cancelling a task while it*)
(* does not fire ends its series for good, whatever is rescheduled.        *)
InFlight(i) ==
  \/ \E k \in DOMAIN due : due[k].id = i
  \/ \E k \in DOMAIN ready : ready[k].id = i
  \/ \E f \in Firers : Live(f) /\ IdOf(f) = i

Over(i) == \A j \in Ids : SameSeries(i, j) => tasks[j].done /\ ~InFlight(j)

OverForGood == [][\A i \in Ids : Over(i) => Over(i)']_vars

(* A row that is due is eventually done, whatever overlaps, stops and      *)
(* failed table accesses happen on the way, unless the init_db of the      *)
(* running process raised: nothing polls until that process is restarted.  *)
DueIsHandled(i) ==
  (i \in Ids /\ tasks[i].fireAt <= now)
    ~> (i \in Ids /\ (tasks[i].done \/ loopPc = "failed"))

-----------------------------------------------------------------------------
(* What the documentation says of tasks.                                   *)

(* one_shot: fire once at fire_at, then done.                              *)
OneShotFiresOnce ==
  \A i \in Ids : tasks[i].kind = "one_shot" => tasks[i].fires <= 1

(* action='cancel': cancel a task by id.  "Task #id cancelled." is the end *)
(* of its series: no further row of it appears.                            *)
CancelEndsSeries ==
  [][\A i \in 1..Len(tasks') : i > Len(tasks) =>
       ~ \E j \in cancelled : tasks[j].series = tasks'[i].series]_vars
=============================================================================
