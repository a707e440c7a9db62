-------------------------- MODULE SchedulerProofs ---------------------------
(***************************************************************************)
(* Theorems about Scheduler, for every set of firers and requests and      *)
(* every value of the bounds.                                              *)
(***************************************************************************)
EXTENDS Scheduler, FiniteSetTheorems, TLAPS

-----------------------------------------------------------------------------
(* The weekly rule, for every length of day and week.                      *)

(* Division with remainder. *)
LEMMA Division ==
  ASSUME NEW a \in Nat, NEW b \in Nat \ {0}
  PROVE  /\ a \div b \in Nat
         /\ b * (a \div b) <= a
         /\ a < b * (a \div b + 1)
  BY Z3

(* Multiplying by a natural number keeps the order. *)
LEMMA ProductKeepsOrder ==
  ASSUME NEW a \in Nat, NEW b \in Nat, NEW c \in Nat, a <= b
  PROVE  a * c <= b * c
  BY Z3

LEMMA WeekPositive == Week \in Nat /\ Week > 0
  BY WeekAssumption DEF Week

(* A bot that is late by any number of ticks counts enough weeks: adding   *)
(* them to the occurrence it missed leads past now.                        *)
LEMMA WeeksBehindSuffice ==
  ASSUME NEW next \in Nat, NEW moment \in Nat, next <= moment
  PROVE  /\ WeeksBehind(next, moment) \in Nat
         /\ next + WeeksBehind(next, moment) * Week > moment
<1> DEFINE lag   == moment - next
           days  == lag \div DayTicks
           weeks == days \div WeekDays
<1>1. lag \in Nat /\ DayTicks \in Nat \ {0} /\ WeekDays \in Nat \ {0}
  BY WeekAssumption
<1>2. days \in Nat /\ lag < DayTicks * (days + 1)
  BY <1>1, Division
<1>3. weeks \in Nat /\ days < WeekDays * (weeks + 1)
  <2> HIDE DEF days
  <2> QED BY <1>1, <1>2, Division
<1>4. WeeksBehind(next, moment) = weeks + 1
  BY DEF WeeksBehind
<1>5. lag < (weeks + 1) * Week
  <2> HIDE DEF lag, days, weeks
  <2>1. (days + 1) * DayTicks <= (WeekDays * (weeks + 1)) * DayTicks
    <3>1. days + 1 <= WeekDays * (weeks + 1)
      BY <1>1, <1>2, <1>3
    <3>2. days + 1 \in Nat /\ WeekDays * (weeks + 1) \in Nat
      BY <1>1, <1>2, <1>3
    <3> HIDE DEF Week
    <3> QED BY <1>1, <3>1, <3>2, ProductKeepsOrder
  <2>2. (WeekDays * (weeks + 1)) * DayTicks = (weeks + 1) * Week
    BY <1>1, <1>3, Z3 DEF Week
  <2>3. DayTicks * (days + 1) = (days + 1) * DayTicks
    BY <1>1, <1>2
  <2>4. (weeks + 1) * Week \in Nat /\ (days + 1) * DayTicks \in Nat
    BY <1>1, <1>2, <1>3, WeekPositive
  <2> QED BY <1>1, <1>2, <2>1, <2>2, <2>3, <2>4
<1>6. (weeks + 1) * Week \in Nat
  BY <1>3, WeekPositive
<1> QED BY <1>1, <1>3, <1>4, <1>5, <1>6

(* The next weekly occurrence is after now and after the one that fired,   *)
(* whenever the firing is handled.                                         *)
THEOREM WeeklyNextIsAhead ==
  ASSUME NEW fired \in Nat, NEW moment \in Nat
  PROVE  /\ WeeklyNext(fired, moment) \in Nat
         /\ WeeklyNext(fired, moment) > moment
         /\ WeeklyNext(fired, moment) > fired
<1>1. fired + Week \in Nat /\ fired + Week > fired
  BY WeekPositive
<1>2. CASE fired + Week > moment
  BY <1>1, <1>2 DEF WeeklyNext
<1>3. CASE ~(fired + Week > moment)
  <2>1. /\ WeeksBehind(fired + Week, moment) \in Nat
        /\ fired + Week + WeeksBehind(fired + Week, moment) * Week > moment
    BY <1>1, <1>3, WeeksBehindSuffice
  <2>2. WeeksBehind(fired + Week, moment) * Week \in Nat
    BY <2>1, WeekPositive
  <2> QED BY <1>1, <1>3, <2>1, <2>2 DEF WeeklyNext
<1> QED BY <1>2, <1>3

-----------------------------------------------------------------------------
USE SchedulerAssumption, WeekAssumption

(* The fire times that a successor may be given. *)
LEMMA NextFireAtsAhead ==
  ASSUME NEW rule \in GoodRules, NEW fireAt \in Nat, now \in Nat,
         NEW t \in NextFireAts(rule, fireAt)
  PROVE  t \in Nat /\ t > now
<1>1. CASE rule = "weekly"
  BY <1>1, WeeklyNextIsAhead DEF NextFireAts
<1>2. CASE rule = "monthly"
  BY <1>2 DEF NextFireAts
<1> QED BY <1>1, <1>2 DEF GoodRules

-----------------------------------------------------------------------------
(* Type correctness.                                                       *)

(* What the queue, the loop and the firings hold are rows of the table: no *)
(* row is ever deleted.                                                    *)
HoldsRows ==
  /\ \A k \in DOMAIN due : due[k].id \in Ids
  /\ \A k \in DOMAIN ready : ready[k].id \in Ids
  /\ \A f \in Firers : Live(f) => IdOf(f) \in Ids

TypeInv == TypeOK /\ HoldsRows

(* How a step may change the table: it updates a row, or appends one.      *)
LEMMA UpdateRow ==
  ASSUME tasks \in Seq(Row), NEW i \in Ids, NEW r \in Row
  PROVE  /\ [tasks EXCEPT ![i] = r] \in Seq(Row)
         /\ Len([tasks EXCEPT ![i] = r]) = Len(tasks)
  BY DEF Ids

LEMMA SetField ==
  ASSUME NEW r \in Row
  PROVE  /\ \A t \in Nat : [r EXCEPT !.fireAt = t] \in Row
         /\ \A n \in Nat : [r EXCEPT !.attempt = n] \in Row
         /\ \A n \in Nat : [r EXCEPT !.fires = n] \in Row
         /\ \A b \in BOOLEAN : [r EXCEPT !.done = b] \in Row
  BY DEF Row

LEMMA QueryResultsType ==
  ASSUME TypeOK, NEW q \in QueryResults
  PROVE  q \in Seq(Snapshot) /\ \A k \in DOMAIN q : q[k].id \in Ids
<1> DEFINE D == {i \in Ids : IsDue(i)}
           n == Cardinality(D)
<1>1. IsFiniteSet(D)
  <2>1. IsFiniteSet(1..Len(tasks))
    BY FS_Interval DEF TypeOK
  <2> QED BY <2>1, FS_Subset DEF Ids
<1>2. n \in Nat
  BY <1>1, FS_CardinalityType
<1>3. PICK s \in [1..n -> D] :
        q = [k \in 1..n |-> [id |-> s[k], fireAt |-> tasks[s[k]].fireAt]]
  BY DEF QueryResults
<1>4. \A k \in 1..n : s[k] \in Ids /\ tasks[s[k]].fireAt \in Nat
  <2>1. D \subseteq Ids
    OBVIOUS
  <2>2. \A i \in Ids : tasks[i] \in Row
    BY DEF Ids, TypeOK
  <2>3. \A k \in 1..n : s[k] \in D
    BY <1>3
  <2> HIDE DEF n, D
  <2> QED BY <2>1, <2>2, <2>3 DEF Row
<1> HIDE DEF n, D
<1>5. \A k \in 1..n : [id |-> s[k], fireAt |-> tasks[s[k]].fireAt] \in Snapshot
  BY <1>4 DEF Snapshot, Ids, TypeOK
<1> QED BY <1>2, <1>3, <1>4, <1>5

LEMMA TypeInit == Init => TypeInv
  BY DEF Init, TypeInv, TypeOK, HoldsRows, Live, Firing, Idle, Ids

(* Each action is named in a lemma of its own kind: those that leave the   *)
(* table alone, those that update a row and the one that appends a row.    *)
LEMMA UserStepType == TypeInv /\ UserStep => TypeInv'
<1> SUFFICES ASSUME TypeInv, UserStep PROVE TypeInv'
  OBVIOUS
<1> USE DEF TypeInv, TypeOK, HoldsRows, Live, IdOf
<1>1. CASE Create
  <2>1. PICK r \in Requests : /\ Accepts(r)
                              /\ tasks' = Append(tasks, [fireAt |-> r.fireAt, kind |-> r.kind,
                                     rule |-> r.rule, attempt |-> 0, done |-> FALSE,
                                     series |-> Len(tasks) + 1, fires |-> 0])
    BY <1>1 DEF Create
  <2>2. [fireAt |-> r.fireAt, kind |-> r.kind, rule |-> r.rule, attempt |-> 0,
         done |-> FALSE, series |-> Len(tasks) + 1, fires |-> 0] \in Row
    BY <2>1 DEF Accepts, AcceptsRule, Row
  <2>3. tasks' \in Seq(Row) /\ Len(tasks') = Len(tasks) + 1
    BY <2>1, <2>2
  <2> QED BY <1>1, <2>3 DEF Create, Ids, procVars, loopVars, ghosts
<1>2. ASSUME NEW i \in Ids, Cancel(i) PROVE TypeInv'
  <2>1. tasks[i] \in Row
    BY DEF Ids
  <2>2. [tasks[i] EXCEPT !.done = TRUE] \in Row
    BY <2>1 DEF Row
  <2>3. tasks' = [tasks EXCEPT ![i] = [tasks[i] EXCEPT !.done = TRUE]]
    BY <1>2 DEF Cancel
  <2>4. tasks' \in Seq(Row) /\ Len(tasks') = Len(tasks)
    BY <2>2, <2>3, UpdateRow
  <2>5. cancelled' \subseteq Nat
    BY <1>2 DEF Cancel, Ids
  <2> QED BY <1>2, <2>4, <2>5 DEF Cancel, Ids, procVars, loopVars
<1>3. ASSUME NEW i \in Ids, Reschedule(i) PROVE TypeInv'
  <2>1. tasks[i] \in Row
    BY DEF Ids
  <2>2. PICK t \in now..MaxTime :
          tasks' = [tasks EXCEPT ![i].fireAt = t, ![i].attempt = @ + 1]
    BY <1>3 DEF Reschedule
  <2>3. [tasks[i] EXCEPT !.fireAt = t, !.attempt = @ + 1] \in Row
    <3>1. [tasks[i] EXCEPT !.fireAt = t] \in Row
      BY <2>1, SetField
    <3>2. tasks[i].attempt + 1 \in Nat
      BY <2>1, SMTT(40) DEF Row
    <3> QED BY <3>1, <3>2, SetField, Zenon
  <2>4. tasks' = [tasks EXCEPT ![i] = [tasks[i] EXCEPT !.fireAt = t, !.attempt = @ + 1]]
    BY <2>2
  <2>5. tasks' \in Seq(Row) /\ Len(tasks') = Len(tasks)
    BY <2>3, <2>4, UpdateRow
  <2> QED BY <1>3, <2>5 DEF Reschedule, Ids, procVars, loopVars, ghosts
<1> QED BY <1>1, <1>2, <1>3 DEF UserStep

LEMMA LoopStepType == TypeInv /\ LoopStep => TypeInv'
<1> SUFFICES ASSUME TypeInv, LoopStep PROVE TypeInv'
  OBVIOUS
<1> USE DEF TypeInv, TypeOK, HoldsRows, Live, IdOf, Ids, procVars, loopVars, ghosts
<1>6. CASE InitDb
  BY <1>6 DEF InitDb
<1>7. CASE InitDbRaises
  BY <1>7 DEF InitDbRaises, Fault
<1>1. CASE LoopCheck
  BY <1>1 DEF LoopCheck
<1>2. CASE PollQuery
  <2>1. PICK q \in QueryResults : due' = q
    BY <1>2 DEF PollQuery
  <2>2. q \in Seq(Snapshot) /\ \A k \in DOMAIN q : q[k].id \in Ids
    BY QueryResultsType
  <2> QED BY <1>2, <2>1, <2>2 DEF PollQuery
<1>3. CASE PollError
  BY <1>3 DEF PollError, Fault, Sleep
<1>4. CASE Dispatch
  <2>1. ready' \in Seq(Snapshot)
    BY <1>4 DEF Dispatch
  <2>2. \A k \in DOMAIN ready' : ready'[k].id \in Ids
    BY <1>4 DEF Dispatch
  <2> QED BY <1>4, <2>1, <2>2 DEF Dispatch, Sleep
<1>5. CASE LoopWake
  BY <1>5 DEF LoopWake
<1> QED BY <1>1, <1>2, <1>3, <1>4, <1>5, <1>6, <1>7 DEF LoopStep

(* A live firing holds a snapshot, and keeps it when it moves on. *)
LEMMA LiveType ==
  ASSUME firing \in [Firers -> Firing], NEW f \in Firers, Live(f)
  PROVE  firing[f] \in [pc : {"payload", "notice", "next", "mark"}, task : Snapshot,
                        cut : BOOLEAN]
  BY DEF Live, Firing, Idle

LEMMA GoToType ==
  ASSUME firing \in [Firers -> Firing], NEW f \in Firers, Live(f),
         NEW pc \in {"payload", "notice", "next", "mark"}
  PROVE  /\ [firing EXCEPT ![f].pc = pc] \in [Firers -> Firing]
         /\ [firing EXCEPT ![f].pc = pc][f].task = firing[f].task
<1>1. firing[f] \in [pc : {"payload", "notice", "next", "mark"}, task : Snapshot,
                      cut : BOOLEAN]
  BY LiveType
<1>2. [firing[f] EXCEPT !.pc = pc] \in Firing
  BY <1>1 DEF Firing
<1> QED BY <1>2

LEMMA FinishType ==
  ASSUME firing \in [Firers -> Firing], NEW f \in Firers
  PROVE  [firing EXCEPT ![f] = Idle] \in [Firers -> Firing]
  BY DEF Firing

LEMMA SetDoneType ==
  ASSUME TypeInv, NEW f \in Firers, Live(f), SetDone(f)
  PROVE  tasks' \in Seq(Row) /\ Len(tasks') = Len(tasks)
<1>1. IdOf(f) \in Ids /\ tasks[IdOf(f)] \in Row
  BY DEF TypeInv, TypeOK, HoldsRows, Ids
<1>2. [tasks[IdOf(f)] EXCEPT !.done = TRUE] \in Row
  BY <1>1, SetField
<1>3. tasks' = [tasks EXCEPT ![IdOf(f)] = [tasks[IdOf(f)] EXCEPT !.done = TRUE]]
  BY DEF SetDone
<1> QED BY <1>1, <1>2, <1>3, UpdateRow DEF TypeInv, TypeOK

LEMMA SuccessorType ==
  ASSUME NEW i \in Ids, tasks \in Seq(Row), NEW t \in Nat
  PROVE  Successor(i, t) \in Row
<1>1. tasks[i] \in Row
  BY DEF Ids
<1>2. [tasks[i] EXCEPT !.fireAt = t] \in Row
  BY <1>1, SetField
<1>3. [tasks[i] EXCEPT !.fireAt = t, !.attempt = 0] \in Row
  BY <1>2, SetField, Zenon
<1>4. [tasks[i] EXCEPT !.fireAt = t, !.attempt = 0, !.done = FALSE] \in Row
  BY <1>3, SetField, Zenon
<1> QED BY <1>4, SetField, Zenon DEF Successor

(* The INSERT of schedule_next_recurring appends one row of the series of  *)
(* the row that fires, due after now.                                      *)
LEMMA InsertNextAppends ==
  ASSUME TypeInv, NEW f \in Firers, Live(f), InsertNext(f)
  PROVE  \E t \in Nat : /\ t > now
                        /\ t \in NextFireAts(tasks[IdOf(f)].rule, firing[f].task.fireAt)
                        /\ tasks' = Append(tasks, Successor(IdOf(f), t))
                        /\ Successor(IdOf(f), t) \in Row
<1>1. IdOf(f) \in Ids /\ tasks[IdOf(f)].rule \in GoodRules
  BY DEF TypeInv, HoldsRows, InsertNext
<1>2. firing[f].task.fireAt \in Nat
  BY DEF TypeInv, TypeOK, Firing, Idle, NoTask, Snapshot, Live
<1>3. PICK t \in NextFireAts(tasks[IdOf(f)].rule, firing[f].task.fireAt) :
        tasks' = Append(tasks, Successor(IdOf(f), t))
  BY DEF InsertNext
<1>4. now \in Nat
  BY DEF TypeInv, TypeOK
<1>5. t \in Nat /\ t > now
  BY <1>1, <1>2, <1>4, NextFireAtsAhead
<1> QED BY <1>1, <1>3, <1>5, SuccessorType DEF TypeInv, TypeOK

LEMMA InsertNextType ==
  ASSUME TypeInv, NEW f \in Firers, Live(f), InsertNext(f)
  PROVE  tasks' \in Seq(Row) /\ Len(tasks') = Len(tasks) + 1
<1>1. PICK t \in Nat : /\ tasks' = Append(tasks, Successor(IdOf(f), t))
                       /\ Successor(IdOf(f), t) \in Row
  BY InsertNextAppends
<1> QED BY <1>1 DEF TypeInv, TypeOK

(* The step of a firing that moves on to the await pc.                     *)
LEMMA MovesOnType ==
  ASSUME TypeInv, NEW f \in Firers, Live(f), GoTo(f, Finally(f)) \/ GoTo(f, "notice") \/ GoTo(f, "mark")
  PROVE  /\ firing' \in [Firers -> Firing]
         /\ \A g \in Firers : Live(g)' => IdOf(g)' \in Ids
<1>1. firing \in [Firers -> Firing]
  BY DEF TypeInv, TypeOK
<1>2. Finally(f) \in {"payload", "notice", "next", "mark"}
  BY DEF Finally
<1>3. PICK pc \in {"payload", "notice", "next", "mark"} : firing' = [firing EXCEPT ![f].pc = pc]
  BY <1>2 DEF GoTo
<1>4. firing' \in [Firers -> Firing] /\ firing'[f].task = firing[f].task
  BY <1>1, <1>3, GoToType
<1>5. \A g \in Firers \ {f} : firing'[g] = firing[g]
  BY <1>1, <1>3
<1> QED BY <1>4, <1>5 DEF TypeInv, HoldsRows, Live, IdOf

(* The step of a firing that ends. *)
LEMMA EndsType ==
  ASSUME TypeInv, NEW f \in Firers, Finish(f)
  PROVE  /\ firing' \in [Firers -> Firing]
         /\ \A g \in Firers : Live(g)' => Live(g) /\ firing'[g] = firing[g] /\ g # f
<1>1. firing \in [Firers -> Firing]
  BY DEF TypeInv, TypeOK
<1> QED BY <1>1, FinishType DEF Finish, Live, Idle

LEMMA FireStepType ==
  ASSUME TypeInv, NEW f \in Firers, FireStep(f)
  PROVE  TypeInv'
<1> USE DEF TypeInv, TypeOK, HoldsRows, procVars, loopVars, ghosts
<1>1. CASE Start(f)
  <2> DEFINE i == Head(ready).id
  <2>1. ready # <<>> /\ Head(ready) \in Snapshot /\ i \in Ids /\ Tail(ready) \in Seq(Snapshot)
    BY <1>1 DEF Start
  <2>2. \A k \in DOMAIN Tail(ready) : Tail(ready)[k].id \in Ids
    BY <2>1
  <2>3. tasks[i] \in Row /\ tasks[i].fires + 1 \in Nat
    <3> HIDE DEF i
    <3>1. tasks[i] \in Row
      BY <2>1 DEF Ids
    <3> QED BY <3>1 DEF Row
  <2>4. [tasks[i] EXCEPT !.fires = tasks[i].fires + 1] \in Row
    BY <2>3, SetField
  <2>5. tasks' = [tasks EXCEPT ![i] = [tasks[i] EXCEPT !.fires = tasks[i].fires + 1]]
    BY <1>1 DEF Start
  <2>6. tasks' \in Seq(Row) /\ Len(tasks') = Len(tasks)
    BY <2>1, <2>4, <2>5, UpdateRow
  <2>7. firing' = [firing EXCEPT ![f] = [pc |-> "payload", task |-> Head(ready), cut |-> FALSE]]
    BY <1>1 DEF Start
  <2>8. [pc |-> "payload", task |-> Head(ready), cut |-> FALSE] \in Firing
    BY <2>1 DEF Firing
  <2>9. /\ firing' \in [Firers -> Firing]
        /\ \A g \in Firers : Live(g)' => IdOf(g)' \in Ids
    BY <2>1, <2>7, <2>8 DEF Live, IdOf
  <2>10. ready' = Tail(ready) /\ UNCHANGED <<now, proc, stops, loopPc, wake, due, faults, cancelled, lost>>
    BY <1>1 DEF Start
  <2> QED BY <2>1, <2>2, <2>6, <2>9, <2>10 DEF Ids
<1>2. CASE PayloadReturns(f) \/ PayloadRaises(f) \/ NoticeEnds(f)
  <2>1. Live(f) /\ (GoTo(f, Finally(f)) \/ GoTo(f, "notice"))
    BY <1>2 DEF PayloadReturns, PayloadRaises, NoticeEnds, Live
  <2>2. UNCHANGED <<now, tasks, proc, stops, loopPc, wake, due, ready, faults, cancelled, lost>>
    BY <1>2 DEF PayloadReturns, PayloadRaises, NoticeEnds
  <2>3. /\ firing' \in [Firers -> Firing]
        /\ \A g \in Firers : Live(g)' => IdOf(g)' \in Ids
    BY <2>1, MovesOnType
  <2> QED BY <2>2, <2>3 DEF Ids
<1>3. CASE ScheduleNext(f)
  <2>1. Live(f) /\ GoTo(f, "mark")
    BY <1>3 DEF ScheduleNext, Live
  <2>2. UNCHANGED <<now, proc, stops, loopPc, wake, due, ready, cancelled>>
    BY <1>3 DEF ScheduleNext
  <2>3. /\ firing' \in [Firers -> Firing]
        /\ \A g \in Firers : Live(g)' => IdOf(g)' \in Ids
    BY <2>1, MovesOnType
  <2>4. faults' \in Nat
    BY <1>3 DEF ScheduleNext, InsertRaises, Fault
  <2>5. IdOf(f) \in Ids /\ tasks[IdOf(f)] \in Row
    BY <2>1 DEF Ids
  <2>6. lost' \subseteq Nat
    <3>1. tasks[IdOf(f)].series \in Nat
      BY <2>5 DEF Row
    <3> QED BY <1>3, <3>1 DEF ScheduleNext, InsertNext, IgnoreRule, InsertRaises, Lose
  <2>7. tasks' \in Seq(Row) /\ Len(tasks') \in Nat /\ Len(tasks') >= Len(tasks)
    <3>1. CASE InsertNext(f)
      BY <2>1, <3>1, InsertNextType
    <3>2. CASE ~InsertNext(f)
      BY <1>3, <3>2 DEF ScheduleNext, IgnoreRule, InsertRaises, Lose
    <3> QED BY <3>1, <3>2
  <2> QED BY <2>2, <2>3, <2>4, <2>6, <2>7 DEF Ids
<1>4. CASE MarkDone(f)
  <2>1. Live(f) /\ SetDone(f) /\ Finish(f)
    BY <1>4 DEF MarkDone, Live
  <2>2. tasks' \in Seq(Row) /\ Len(tasks') = Len(tasks)
    BY <2>1, SetDoneType
  <2>3. /\ firing' \in [Firers -> Firing]
        /\ \A g \in Firers : Live(g)' => Live(g) /\ firing'[g] = firing[g] /\ g # f
    BY <2>1, EndsType
  <2>4. UNCHANGED <<now, proc, stops, loopPc, wake, due, ready, faults, cancelled, lost>>
    BY <1>4 DEF MarkDone
  <2> QED BY <2>2, <2>3, <2>4 DEF Ids, IdOf
<1>5. CASE MarkDoneRaises(f)
  <2>1. Finish(f) /\ faults' \in Nat
    BY <1>5 DEF MarkDoneRaises, Fault
  <2>3. /\ firing' \in [Firers -> Firing]
        /\ \A g \in Firers : Live(g)' => Live(g) /\ firing'[g] = firing[g] /\ g # f
    BY <2>1, EndsType
  <2>4. UNCHANGED <<now, tasks, proc, stops, loopPc, wake, due, ready, cancelled, lost>>
    BY <1>5 DEF MarkDoneRaises
  <2> QED BY <2>1, <2>3, <2>4 DEF Ids, IdOf
<1> QED BY <1>1, <1>2, <1>3, <1>4, <1>5 DEF FireStep

LEMMA CancelFiringType ==
  ASSUME TypeInv, NEW f \in Firers, CancelFiring(f)
  PROVE  TypeInv'
<1> USE DEF TypeInv, TypeOK, HoldsRows, procVars, loopVars, ghosts
<1>1. UNCHANGED <<now, proc, stops, loopPc, wake, due, ready, faults, cancelled>>
  BY DEF CancelFiring
<1>2. CASE firing[f].pc \in {"payload", "notice"}
  <2>1. /\ firing' = [firing EXCEPT ![f] =
                       [pc |-> Finally(f), task |-> firing[f].task, cut |-> TRUE]]
        /\ UNCHANGED <<tasks, lost>>
        /\ Live(f)
    BY <1>2 DEF CancelFiring, Live
  <2>2. [pc |-> Finally(f), task |-> firing[f].task, cut |-> TRUE] \in Firing
    BY <2>1, LiveType DEF Finally, Firing
  <2>3. /\ firing' \in [Firers -> Firing]
        /\ \A g \in Firers : Live(g)' => IdOf(g)' \in Ids
    BY <2>1, <2>2 DEF Live, IdOf
  <2> QED BY <1>1, <2>1, <2>3 DEF Ids
<1>3. CASE firing[f].pc \in {"next", "mark"}
  <2>1. Live(f) /\ Finish(f)
    BY <1>3 DEF CancelFiring, Live
  <2>2. /\ firing' \in [Firers -> Firing]
        /\ \A g \in Firers : Live(g)' => Live(g) /\ firing'[g] = firing[g] /\ g # f
    BY <2>1, EndsType
  <2>3. UNCHANGED lost
    BY <1>3 DEF CancelFiring, InsertNext
  <2>4. UNCHANGED tasks \/ InsertNext(f) \/ SetDone(f)
    BY <1>3 DEF CancelFiring
  <2>5. tasks' \in Seq(Row) /\ Len(tasks') \in Nat /\ Len(tasks') >= Len(tasks)
    <3>1. CASE UNCHANGED tasks
      BY <3>1
    <3>2. CASE InsertNext(f)
      BY <2>1, <3>2, InsertNextType
    <3>3. CASE SetDone(f)
      BY <2>1, <3>3, SetDoneType
    <3> QED BY <2>4, <3>1, <3>2, <3>3
  <2> QED BY <1>1, <2>2, <2>3, <2>5 DEF Ids, IdOf
<1> QED BY <1>2, <1>3 DEF CancelFiring

LEMMA ProcStepType == TypeInv /\ ProcStep => TypeInv'
<1> SUFFICES ASSUME TypeInv, ProcStep PROVE TypeInv'
  OBVIOUS
<1> USE DEF TypeInv, TypeOK, HoldsRows, Live, IdOf, Ids, procVars, loopVars, ghosts
<1>1. CASE Close
  BY <1>1 DEF Close
<1>2. CASE CancelLoop
  BY <1>2 DEF CancelLoop
<1>3. CASE CancelReady
  BY <1>3 DEF CancelReady
<1>4. CASE Exit
  BY <1>4 DEF Exit
<1>5. CASE Crash
  BY <1>5 DEF Crash, Idle, Firing
<1>6. CASE Restart
  BY <1>6 DEF Restart
<1> QED BY <1>1, <1>2, <1>3, <1>4, <1>5, <1>6 DEF ProcStep

LEMMA TypeStep == TypeInv /\ [Next]_vars => TypeInv'
<1> SUFFICES ASSUME TypeInv, [Next]_vars PROVE TypeInv'
  OBVIOUS
<1>1. CASE UserStep
  BY <1>1, UserStepType
<1>2. CASE LoopStep
  BY <1>2, LoopStepType
<1>3. CASE Fire
  BY <1>3, FireStepType, CancelFiringType DEF Fire
<1>4. CASE ProcStep
  BY <1>4, ProcStepType
<1>5. CASE Tick
  BY <1>5 DEF Tick, TypeInv, TypeOK, HoldsRows, Live, IdOf, Ids, procVars, loopVars, ghosts
<1>6. CASE UNCHANGED vars
  BY <1>6 DEF vars, TypeInv, TypeOK, HoldsRows, Live, IdOf, Ids
<1> QED BY <1>1, <1>2, <1>3, <1>4, <1>5, <1>6 DEF Next

(* Every variable keeps its type, and every id that the loop, the ready    *)
(* queue or a firing holds is the id of a row.                             *)
THEOREM TypeCorrect == Spec => [](TypeOK /\ HoldsRows)
<1>1. Spec => []TypeInv
  BY TypeInit, TypeStep, PTL DEF Spec
<1> QED BY <1>1, PTL DEF TypeInv

-----------------------------------------------------------------------------
(* What a step does to the table.                                          *)

(* The actions that write the table. *)
TableStep ==
  \/ UNCHANGED tasks
  \/ \E i \in Ids : Cancel(i) \/ Reschedule(i)
  \/ Create
  \/ \E f \in Firers : Start(f)
  \/ \E f \in Firers : firing[f].pc = "next" /\ InsertNext(f)
  \/ \E f \in Firers : firing[f].pc = "mark" /\ SetDone(f)

LEMMA StepsWriteTable == [Next]_vars => TableStep
<1> SUFFICES ASSUME [Next]_vars PROVE TableStep
  OBVIOUS
<1>1. CASE UserStep
  BY <1>1 DEF UserStep, TableStep
<1>2. CASE LoopStep
  BY <1>2 DEF LoopStep, InitDb, InitDbRaises, LoopCheck, PollQuery, PollError, Dispatch, LoopWake, TableStep
<1>3. ASSUME NEW f \in Firers, FireStep(f) PROVE TableStep
  BY <1>3 DEF FireStep, PayloadReturns, PayloadRaises, NoticeEnds, ScheduleNext, IgnoreRule,
              InsertRaises, Lose, MarkDone, MarkDoneRaises, TableStep
<1>4. ASSUME NEW f \in Firers, CancelFiring(f) PROVE TableStep
  BY <1>4 DEF CancelFiring, TableStep
<1>5. CASE ProcStep
  BY <1>5 DEF ProcStep, Close, CancelLoop, CancelReady, Exit, Crash, Restart, TableStep
<1>6. CASE Tick
  BY <1>6 DEF Tick, TableStep
<1>7. CASE UNCHANGED vars
  BY <1>7 DEF vars, TableStep
<1> QED BY <1>1, <1>2, <1>3, <1>4, <1>5, <1>6, <1>7 DEF Next, Fire

(* Rows stay; a row keeps its series, kind and rule, and keeps its time    *)
(* unless that is counted as an attempt; starts are counted; it is never   *)
(* undone, and is done only by a cancel or by a firing at its last await.  *)
RowsKept ==
  \A j \in Ids :
    /\ j \in Ids'
    /\ tasks'[j].series = tasks[j].series
    /\ tasks'[j].kind = tasks[j].kind
    /\ tasks'[j].rule = tasks[j].rule
    /\ \/ tasks'[j].fireAt = tasks[j].fireAt /\ tasks'[j].attempt = tasks[j].attempt
       \/ tasks'[j].attempt # 0
    /\ tasks'[j].fires >= tasks[j].fires
    /\ \/ tasks'[j].fires = tasks[j].fires
       \/ /\ \E f \in Firers : Start(f)
          /\ j = Head(ready).id /\ tasks'[j].fires = tasks[j].fires + 1
    /\ tasks[j].done => tasks'[j].done
    /\ tasks'[j].done => \/ tasks[j].done
                         \/ j \in cancelled'
                         \/ \E f \in Firers : firing[f].pc = "mark" /\ IdOf(f) = j

(* At most one row is new; it is not done, and it heads a series of its    *)
(* own or follows, after now, the row of a firing.                         *)
NewRow ==
  \A j \in Ids' \ Ids :
    /\ j = Len(tasks) + 1
    /\ ~tasks'[j].done /\ tasks'[j].fires = 0
    /\ \/ /\ tasks'[j].series = j
          /\ tasks'[j].kind = "recurring" => tasks'[j].rule \notin {"none", "other"}
       \/ \E f \in Firers : /\ firing[f].pc = "next"
                            /\ tasks'[j].series = tasks[IdOf(f)].series
                            /\ tasks'[j].kind = tasks[IdOf(f)].kind
                            /\ tasks'[j].rule = tasks[IdOf(f)].rule
                            /\ tasks'[j].fireAt > now
                            /\ tasks'[j].rule = "weekly" =>
                                 tasks'[j].fireAt = WeeklyNext(firing[f].task.fireAt, now)

LEMMA ReplaceRow ==
  ASSUME tasks \in Seq(Row), NEW i \in Ids, NEW r, tasks' = [tasks EXCEPT ![i] = r]
  PROVE  /\ Ids' = Ids
         /\ tasks'[i] = r
         /\ \A j \in Ids \ {i} : tasks'[j] = tasks[j]
  BY DEF Ids

LEMMA StepKeepsRows ==
  ASSUME TypeInv, TableStep
  PROVE  RowsKept /\ NewRow
<1> USE DEF RowsKept, NewRow
<1>0. /\ Len(tasks) \in Nat
      /\ \A j \in Ids : tasks[j] \in Row /\ tasks[j].fires \in Nat /\ tasks[j].done \in BOOLEAN
  <2>1. Len(tasks) \in Nat /\ \A j \in Ids : tasks[j] \in Row
    BY DEF TypeInv, TypeOK, Ids
  <2> QED BY <2>1 DEF Row
<1>1. CASE UNCHANGED tasks
  BY <1>0, <1>1 DEF Ids
<1>2. ASSUME NEW i \in Ids, Cancel(i) PROVE RowsKept /\ NewRow
  <2>1. tasks' = [tasks EXCEPT ![i] = [tasks[i] EXCEPT !.done = TRUE]] /\ i \in cancelled'
    BY <1>2 DEF Cancel
  <2>2. /\ Ids' = Ids
        /\ \A j \in Ids \ {i} : tasks'[j] = tasks[j]
        /\ tasks'[i] = [tasks[i] EXCEPT !.done = TRUE]
    BY <2>1, ReplaceRow DEF TypeInv, TypeOK
  <2> QED BY <1>0, <2>1, <2>2 DEF Row
<1>3. ASSUME NEW i \in Ids, Reschedule(i) PROVE RowsKept /\ NewRow
  <2>1. PICK t \in now..MaxTime :
          tasks' = [tasks EXCEPT ![i] = [tasks[i] EXCEPT !.fireAt = t, !.attempt = @ + 1]]
    BY <1>3 DEF Reschedule
  <2>2. /\ Ids' = Ids
        /\ \A j \in Ids \ {i} : tasks'[j] = tasks[j]
        /\ tasks'[i] = [tasks[i] EXCEPT !.fireAt = t, !.attempt = @ + 1]
    BY <2>1, ReplaceRow DEF TypeInv, TypeOK
  <2>3. /\ tasks'[i].series = tasks[i].series /\ tasks'[i].kind = tasks[i].kind
        /\ tasks'[i].rule = tasks[i].rule /\ tasks'[i].fires = tasks[i].fires
        /\ tasks'[i].done = tasks[i].done /\ tasks'[i].attempt # 0
    BY <1>0, <2>2, SMTT(40) DEF Row
  <2>4. NewRow
    BY <2>2
  <2>5. ASSUME NEW j \in Ids
        PROVE  tasks'[j].fires >= tasks[j].fires /\ tasks'[j].fires = tasks[j].fires
    <3>1. tasks'[j].fires = tasks[j].fires
      BY <2>2, <2>3, Zenon
    <3> QED BY <1>0, <3>1
  <2>6. RowsKept
    BY <2>2, <2>3, <2>5, Zenon
  <2> QED BY <2>4, <2>6
<1>4. CASE Create
  <2>1. PICK r \in Requests : /\ Accepts(r)
                              /\ tasks' = Append(tasks, [fireAt |-> r.fireAt, kind |-> r.kind,
                                     rule |-> r.rule, attempt |-> 0, done |-> FALSE,
                                     series |-> Len(tasks) + 1, fires |-> 0])
    BY <1>4 DEF Create
  <2>2. /\ Len(tasks') = Len(tasks) + 1
        /\ \A j \in Ids : tasks'[j] = tasks[j]
        /\ tasks'[Len(tasks) + 1] = [fireAt |-> r.fireAt, kind |-> r.kind,
                                     rule |-> r.rule, attempt |-> 0, done |-> FALSE,
                                     series |-> Len(tasks) + 1, fires |-> 0]
    BY <2>1 DEF Ids, TypeInv, TypeOK
  <2> QED BY <1>0, <2>1, <2>2 DEF Ids, Accepts, AcceptsRule
<1>5. ASSUME NEW f \in Firers, Start(f) PROVE RowsKept /\ NewRow
  <2> DEFINE i == Head(ready).id
  <2>1. i \in Ids /\ tasks' = [tasks EXCEPT ![i] = [tasks[i] EXCEPT !.fires = tasks[i].fires + 1]]
    BY <1>5 DEF Start, TypeInv, TypeOK, HoldsRows
  <2> HIDE DEF i
  <2>2. /\ Ids' = Ids
        /\ \A j \in Ids \ {i} : tasks'[j] = tasks[j]
        /\ tasks'[i] = [tasks[i] EXCEPT !.fires = tasks[i].fires + 1]
    BY <2>1, ReplaceRow DEF TypeInv, TypeOK
  <2>3. ASSUME NEW j \in Ids
        PROVE  /\ tasks'[j].series = tasks[j].series /\ tasks'[j].kind = tasks[j].kind
               /\ tasks'[j].rule = tasks[j].rule /\ tasks'[j].done = tasks[j].done
               /\ tasks'[j].fireAt = tasks[j].fireAt /\ tasks'[j].attempt = tasks[j].attempt
               /\ tasks'[j].fires >= tasks[j].fires
               /\ \/ tasks'[j].fires = tasks[j].fires
                  \/ j = i /\ tasks'[j].fires = tasks[j].fires + 1
    <3>1. CASE j = i
      BY <1>0, <2>1, <2>2, <3>1 DEF Row
    <3>2. CASE j # i
      BY <1>0, <2>2, <3>2
    <3> QED BY <3>1, <3>2
  <2>4. NewRow
    BY <2>2
  <2>5. RowsKept
    BY <1>5, <2>2, <2>3, Zenon DEF i
  <2> QED BY <2>4, <2>5
<1>6. ASSUME NEW f \in Firers, firing[f].pc = "next", InsertNext(f) PROVE RowsKept /\ NewRow
  <2>1. PICK t \in Nat : /\ t > now
                         /\ t \in NextFireAts(tasks[IdOf(f)].rule, firing[f].task.fireAt)
                         /\ tasks' = Append(tasks, Successor(IdOf(f), t))
    BY <1>6, InsertNextAppends DEF Live
  <2>2. /\ Len(tasks') = Len(tasks) + 1
        /\ \A j \in Ids : tasks'[j] = tasks[j]
        /\ tasks'[Len(tasks) + 1] = Successor(IdOf(f), t)
    BY <2>1 DEF Ids, TypeInv, TypeOK
  <2>3. tasks[IdOf(f)] \in Row
    BY <1>0, <1>6 DEF TypeInv, HoldsRows, Live
  <2>4. /\ Successor(IdOf(f), t).series = tasks[IdOf(f)].series
        /\ Successor(IdOf(f), t).kind = tasks[IdOf(f)].kind
        /\ Successor(IdOf(f), t).rule = tasks[IdOf(f)].rule
        /\ Successor(IdOf(f), t).fireAt = t
        /\ Successor(IdOf(f), t).done = FALSE
        /\ Successor(IdOf(f), t).fires = 0
    BY <2>3 DEF Successor, Row
  <2>5. tasks[IdOf(f)].rule = "weekly" => t = WeeklyNext(firing[f].task.fireAt, now)
    BY <2>1 DEF NextFireAts
  <2>6. RowsKept
    BY <1>0, <2>2 DEF Ids
  <2>7. NewRow
    BY <1>0, <1>6, <2>1, <2>2, <2>4, <2>5 DEF Ids
  <2> QED BY <2>6, <2>7
<1>7. ASSUME NEW f \in Firers, firing[f].pc = "mark", SetDone(f) PROVE RowsKept /\ NewRow
  <2>1. /\ IdOf(f) \in Ids
        /\ tasks' = [tasks EXCEPT ![IdOf(f)] = [tasks[IdOf(f)] EXCEPT !.done = TRUE]]
    BY <1>7 DEF TypeInv, HoldsRows, Live, SetDone
  <2>2. /\ Ids' = Ids
        /\ \A j \in Ids \ {IdOf(f)} : tasks'[j] = tasks[j]
        /\ tasks'[IdOf(f)] = [tasks[IdOf(f)] EXCEPT !.done = TRUE]
    BY <2>1, ReplaceRow DEF TypeInv, TypeOK
  <2>3. ASSUME NEW j \in Ids
        PROVE  /\ tasks'[j].series = tasks[j].series /\ tasks'[j].kind = tasks[j].kind
               /\ tasks'[j].rule = tasks[j].rule /\ tasks'[j].fires = tasks[j].fires
               /\ tasks'[j].fireAt = tasks[j].fireAt /\ tasks'[j].attempt = tasks[j].attempt
               /\ tasks[j].done => tasks'[j].done
               /\ tasks'[j].done => tasks[j].done \/ j = IdOf(f)
    <3>1. CASE j = IdOf(f)
      BY <1>0, <2>1, <2>2, <3>1 DEF Row
    <3>2. CASE j # IdOf(f)
      BY <2>2, <3>2
    <3> QED BY <3>1, <3>2
  <2>4. ASSUME NEW j \in Ids PROVE tasks'[j].fires >= tasks[j].fires
    BY <1>0, <2>3
  <2>5. NewRow
    BY <2>2
  <2>6. RowsKept
    BY <1>7, <2>2, <2>3, <2>4, Zenon
  <2> QED BY <2>5, <2>6
<1> QED BY <1>1, <1>2, <1>3, <1>4, <1>5, <1>6, <1>7 DEF TableStep

(* No successor is ever booked in the past. *)
THEOREM SuccessorsAreAhead == Spec => BooksAhead
<1>1. TypeInv /\ [Next]_vars => [BookedAhead]_vars
  <2> SUFFICES ASSUME TypeInv, [Next]_vars PROVE BookedAhead
    OBVIOUS
  <2>1. NewRow
    BY StepsWriteTable, StepKeepsRows
  <2> QED BY <2>1 DEF BookedAhead, NewRow, Ids
<1>2. Spec => []TypeInv
  BY TypeCorrect, PTL DEF TypeInv
<1> QED BY <1>1, <1>2, PTL DEF Spec, BooksAhead

-----------------------------------------------------------------------------
(* What a step does to the firings.                                        *)

(* A firing that is live after a step was live before, with the same row,  *)
(* or has just started from the ready queue, and that start was counted.   *)
FiringsKept ==
  \A f \in Firers : firing'[f].pc # "idle" =>
    \/ /\ tasks'[firing'[f].task.id].fires > 0
       /\ Start(f) /\ 1 \in DOMAIN ready /\ firing'[f].task = ready[1]
    \/ firing[f].pc # "idle" /\ firing'[f].task = firing[f].task

(* A firing is at mark_done because it was there, because its row does not *)
(* repeat, or because it has just computed the next occurrence.            *)
MarksJustified ==
  \A f \in Firers : firing'[f].pc = "mark" =>
    /\ firing[f].pc # "idle" /\ firing'[f].task = firing[f].task
    /\ \/ firing[f].pc = "mark"
       \/ ~Repeats(IdOf(f))
       \/ firing[f].pc = "next" /\ ScheduleNext(f)

LEMMA GoToKeeps ==
  ASSUME TypeInv, NEW f \in Firers, Live(f), NEW pc, GoTo(f, pc)
  PROVE  /\ firing'[f].pc = pc
         /\ firing'[f].task = firing[f].task /\ IdOf(f)' = IdOf(f)
         /\ \A g \in Firers \ {f} : firing'[g] = firing[g]
<1>1. firing[f] \in [pc : {"payload", "notice", "next", "mark"}, task : Snapshot, cut : BOOLEAN]
  BY LiveType DEF TypeInv, TypeOK
<1>2. firing'[f] = [firing[f] EXCEPT !.pc = pc] /\ \A g \in Firers \ {f} : firing'[g] = firing[g]
  BY DEF GoTo, TypeInv, TypeOK
<1> QED BY <1>1, <1>2 DEF IdOf

LEMMA StepKeepsFirings ==
  ASSUME TypeInv, [Next]_vars
  PROVE  FiringsKept /\ MarksJustified
<1> USE DEF FiringsKept, MarksJustified
<1>1. CASE UNCHANGED firing
  BY <1>1 DEF Live, IdOf
<1>2. CASE UserStep \/ LoopStep \/ Tick \/ UNCHANGED vars
  <2>1. UNCHANGED firing
    BY <1>2 DEF UserStep, Create, Cancel, Reschedule, LoopStep, InitDb, InitDbRaises,
                LoopCheck, PollQuery, PollError, Dispatch, LoopWake, Tick, vars
  <2> QED BY <1>1, <2>1
<1>3. CASE ProcStep
  <2>1. UNCHANGED firing \/ Crash
    BY <1>3 DEF ProcStep, Close, CancelLoop, CancelReady, Exit, Restart
  <2>2. CASE Crash
    BY <2>2 DEF Crash, Idle, Live
  <2> QED BY <1>1, <2>1, <2>2
<1>4. ASSUME NEW f \in Firers, FireStep(f) PROVE FiringsKept /\ MarksJustified
  <2>1. CASE Start(f)
    <3>1. \A g \in Firers \ {f} : firing'[g] = firing[g]
      BY <2>1 DEF Start, TypeInv, TypeOK
    <3>2. firing'[f].pc = "payload"
      BY <2>1 DEF Start, TypeInv, TypeOK
    <3> DEFINE i == Head(ready).id
    <3>3. /\ IdOf(f)' = i /\ i \in Ids
          /\ tasks' = [tasks EXCEPT ![i] = [tasks[i] EXCEPT !.fires = tasks[i].fires + 1]]
      BY <2>1 DEF Start, TypeInv, TypeOK, HoldsRows, IdOf
    <3>4. tasks'[i].fires > 0
      <4> HIDE DEF i
      <4>1. tasks[i] \in Row
        BY <3>3 DEF Ids, TypeInv, TypeOK
      <4>2. tasks'[i] = [tasks[i] EXCEPT !.fires = tasks[i].fires + 1]
        BY <3>3, ReplaceRow DEF TypeInv, TypeOK
      <4> QED BY <4>1, <4>2 DEF Row
    <3>5. /\ tasks'[firing'[f].task.id].fires > 0
          /\ 1 \in DOMAIN ready /\ firing'[f].task = ready[1]
      <4>1. 1 \in DOMAIN ready /\ Head(ready) = ready[1]
        BY <2>1 DEF Start, TypeInv, TypeOK
      <4>2. firing'[f].task = Head(ready)
        BY <2>1 DEF Start, TypeInv, TypeOK
      <4> QED BY <3>3, <3>4, <4>1, <4>2 DEF IdOf
    <3>7. FiringsKept
      <4> HIDE DEF i
      <4> QED BY <2>1, <3>1, <3>5
    <3>8. MarksJustified
      BY <3>1, <3>2
    <3> QED BY <3>7, <3>8
  <2>2. CASE PayloadReturns(f) \/ PayloadRaises(f) \/ NoticeEnds(f)
    <3>1. Live(f) /\ (GoTo(f, Finally(f)) \/ GoTo(f, "notice"))
      BY <2>2 DEF PayloadReturns, PayloadRaises, NoticeEnds, Live
    <3>2. /\ firing'[f].task = firing[f].task
          /\ firing'[f].pc \in {"notice", Finally(f)}
          /\ \A g \in Firers \ {f} : firing'[g] = firing[g]
      BY <3>1, GoToKeeps
    <3>3. firing'[f].pc = "mark" => ~Repeats(IdOf(f))
      BY <3>2 DEF Finally
    <3>5. FiringsKept
      BY <3>1, <3>2 DEF Live, IdOf
    <3>6. MarksJustified
      BY <3>1, <3>2, <3>3 DEF Live, IdOf
    <3> QED BY <3>5, <3>6
  <2>3. CASE ScheduleNext(f)
    <3>1. Live(f) /\ GoTo(f, "mark") /\ firing[f].pc = "next"
      BY <2>3 DEF ScheduleNext, Live
    <3>2. /\ firing'[f].task = firing[f].task
          /\ \A g \in Firers \ {f} : firing'[g] = firing[g]
      BY <3>1, GoToKeeps
    <3> QED BY <2>3, <3>1, <3>2 DEF Live, IdOf
  <2>4. CASE MarkDone(f) \/ MarkDoneRaises(f)
    <3>1. Finish(f)
      BY <2>4 DEF MarkDone, MarkDoneRaises
    <3>2. \A g \in Firers : Live(g)' => Live(g) /\ firing'[g] = firing[g]
      BY <3>1, EndsType
    <3> QED BY <3>2 DEF Live, IdOf
  <2> QED BY <1>4, <2>1, <2>2, <2>3, <2>4 DEF FireStep
<1>5. ASSUME NEW f \in Firers, CancelFiring(f) PROVE FiringsKept /\ MarksJustified
  <2>1. CASE firing[f].pc \in {"payload", "notice"}
    <3>1. firing' = [firing EXCEPT ![f] =
                       [pc |-> Finally(f), task |-> firing[f].task, cut |-> TRUE]]
      BY <1>5, <2>1 DEF CancelFiring
    <3>2. /\ firing'[f] = [pc |-> Finally(f), task |-> firing[f].task, cut |-> TRUE]
          /\ \A g \in Firers \ {f} : firing'[g] = firing[g]
      BY <3>1 DEF TypeInv, TypeOK
    <3> QED BY <2>1, <3>2 DEF Live, IdOf, Finally
  <2>2. CASE firing[f].pc \in {"next", "mark"}
    <3>1. Finish(f)
      BY <1>5, <2>2 DEF CancelFiring
    <3>2. \A g \in Firers : Live(g)' => Live(g) /\ firing'[g] = firing[g]
      BY <3>1, EndsType
    <3> QED BY <3>2 DEF Live, IdOf
  <2> QED BY <1>5, <2>1, <2>2 DEF CancelFiring
<1> QED BY <1>2, <1>3, <1>4, <1>5 DEF Next, Fire

-----------------------------------------------------------------------------
(* A task is never dropped.  What makes it inductive: the row of a live    *)
(* firing has been counted as started, so mark_done never reaches a row    *)
(* that was not.                                                           *)

LiveWasCounted == \A f \in Firers : Live(f) => tasks[IdOf(f)].fires > 0

DoneInv == DoneWasFired /\ LiveWasCounted

(* cancelled and lost only grow. *)
LEMMA HistoryGrows == [Next]_vars => cancelled \subseteq cancelled' /\ lost \subseteq lost'
<1> SUFFICES ASSUME [Next]_vars PROVE cancelled \subseteq cancelled' /\ lost \subseteq lost'
  OBVIOUS
<1> USE DEF ghosts
<1>1. CASE UserStep
  BY <1>1 DEF UserStep, Create, Cancel, Reschedule
<1>2. CASE LoopStep
  BY <1>2 DEF LoopStep, InitDb, InitDbRaises, LoopCheck, PollQuery, PollError, Dispatch, LoopWake
<1>3. ASSUME NEW f \in Firers, FireStep(f) PROVE cancelled \subseteq cancelled' /\ lost \subseteq lost'
  BY <1>3 DEF FireStep, Start, PayloadReturns, PayloadRaises, NoticeEnds, ScheduleNext, InsertNext,
              IgnoreRule, InsertRaises, Lose, MarkDone, MarkDoneRaises
<1>4. ASSUME NEW f \in Firers, CancelFiring(f) PROVE cancelled \subseteq cancelled' /\ lost \subseteq lost'
  BY <1>4 DEF CancelFiring, InsertNext
<1>5. CASE ProcStep
  BY <1>5 DEF ProcStep, Close, CancelLoop, CancelReady, Exit, Crash, Restart
<1>6. CASE Tick \/ UNCHANGED vars
  BY <1>6 DEF Tick, vars
<1> QED BY <1>1, <1>2, <1>3, <1>4, <1>5, <1>6 DEF Next, Fire

LEMMA DoneStep == TypeInv /\ TypeInv' /\ DoneInv /\ [Next]_vars => DoneInv'
<1> SUFFICES ASSUME TypeInv, TypeInv', DoneInv, [Next]_vars PROVE DoneInv'
  OBVIOUS
<1>1. RowsKept /\ NewRow
  BY StepsWriteTable, StepKeepsRows
<1>2. FiringsKept
  BY StepKeepsFirings
<1>3. cancelled \subseteq cancelled'
  BY HistoryGrows
<1>4. \A j \in Ids : tasks[j].fires \in Nat /\ tasks'[j].fires \in Nat
  <2>1. \A j \in Ids : tasks[j] \in Row
    BY DEF TypeInv, TypeOK, Ids
  <2>2. \A j \in Ids : tasks'[j] \in Row
    BY <1>1 DEF TypeInv, TypeOK, Ids, RowsKept
  <2> QED BY <2>1, <2>2 DEF Row
<1>5. DoneWasFired'
  <2> SUFFICES ASSUME NEW j \in Ids', tasks'[j].done
               PROVE  tasks'[j].fires > 0 \/ j \in cancelled'
    BY DEF DoneWasFired
  <2>1. j \in Ids
    BY <1>1 DEF NewRow
  <2>2. CASE tasks[j].done
    BY <1>1, <1>3, <1>4, <2>1, <2>2 DEF DoneInv, DoneWasFired, RowsKept
  <2>3. ASSUME NEW f \in Firers, firing[f].pc = "mark", IdOf(f) = j
        PROVE  tasks'[j].fires > 0
    BY <1>1, <1>4, <2>1, <2>3 DEF DoneInv, LiveWasCounted, Live, RowsKept
  <2> QED BY <1>1, <2>1, <2>2, <2>3 DEF RowsKept
<1>6. LiveWasCounted'
  <2> SUFFICES ASSUME NEW f \in Firers, firing'[f].pc # "idle"
               PROVE  tasks'[firing'[f].task.id].fires > 0
    BY DEF LiveWasCounted, Live, IdOf
  <2>1. CASE firing[f].pc # "idle" /\ firing'[f].task.id = firing[f].task.id
    <3> DEFINE i == firing[f].task.id
    <3>1. tasks[i].fires > 0 /\ i \in Ids
      BY <2>1 DEF DoneInv, LiveWasCounted, Live, IdOf, TypeInv, HoldsRows
    <3> HIDE DEF i
    <3>2. tasks'[i].fires > 0
      BY <1>1, <1>4, <3>1 DEF RowsKept
    <3> QED BY <2>1, <3>2 DEF i
  <2> QED BY <1>2, <2>1 DEF FiringsKept
<1> QED BY <1>5, <1>6 DEF DoneInv

(* A row is done only if it was started or cancelled, through every crash, *)
(* close, overlap of polls and failure.                                    *)
THEOREM DoneRowsWereFired == Spec => []DoneWasFired
<1>1. Init => DoneInv
  BY DEF Init, DoneInv, DoneWasFired, LiveWasCounted, Live, Idle, Ids
<1>2. Spec => []TypeInv
  BY TypeCorrect, PTL DEF TypeInv
<1>3. Spec => []DoneInv
  BY <1>1, <1>2, DoneStep, PTL DEF Spec
<1> QED BY <1>3, PTL DEF DoneInv

-----------------------------------------------------------------------------
(* A recurring series always has a row that waits.  What makes it          *)
(* inductive: a row of it is done, or about to be marked done, only when   *)
(* the series has a younger row.  So its youngest row waits.               *)

(* The id of its first row names a series. *)
SeriesNamed == \A i \in Ids : tasks[i].series \in Ids

SeriesOfOneKind ==
  /\ \A i, j \in Ids : SameSeries(i, j) => tasks[i].kind = tasks[j].kind
  /\ \A i \in Ids : tasks[i].kind = "recurring" => tasks[i].rule \notin {"none", "other"}

HasYoungest ==
  \A i \in Ids : \E m \in Ids :
    SameSeries(i, m) /\ \A j \in Ids : SameSeries(i, j) => j <= m

Followed(i) == \E j \in Ids : j > i /\ SameSeries(i, j)

MustFollow(i) == tasks[i].kind = "recurring" /\ ~Ended(i)

DoneAreFollowed == \A i \in Ids : tasks[i].done /\ MustFollow(i) => Followed(i)

MarkedAreFollowed ==
  \A f \in Firers : firing[f].pc = "mark" /\ MustFollow(IdOf(f)) => Followed(IdOf(f))

SeriesInv ==
  /\ SeriesNamed /\ SeriesOfOneKind /\ HasYoungest
  /\ DoneAreFollowed /\ MarkedAreFollowed

LEMMA SeriesInvSuffices == TypeInv /\ SeriesInv => SeriesAlive
<1> SUFFICES ASSUME TypeInv, SeriesInv, NEW i \in Ids, tasks[i].kind = "recurring", ~Ended(i)
             PROVE  \E j \in Ids : SameSeries(i, j) /\ ~tasks[j].done
  BY DEF SeriesAlive
<1>1. PICK m \in Ids : SameSeries(i, m) /\ \A j \in Ids : SameSeries(i, j) => j <= m
  BY DEF SeriesInv, HasYoungest
<1>2. MustFollow(m)
  BY <1>1 DEF MustFollow, SeriesInv, SeriesOfOneKind, Ended, SameSeries
<1>3. ~Followed(m)
  BY <1>1 DEF Followed, SameSeries, Ids, TypeInv, TypeOK
<1>4. ~tasks[m].done
  BY <1>2, <1>3 DEF SeriesInv, DoneAreFollowed
<1> QED BY <1>1, <1>4

(* What has a younger row of its series keeps it, and what must have one   *)
(* after a step had to have one before.                                    *)
LEMMA FollowedKept ==
  ASSUME TypeInv, [Next]_vars, SeriesInv, NEW i \in Ids
  PROVE  /\ Followed(i) => Followed(i)'
         /\ MustFollow(i)' => MustFollow(i)
<1>1. RowsKept /\ NewRow
  BY StepsWriteTable, StepKeepsRows
<1>2. cancelled \subseteq cancelled' /\ lost \subseteq lost'
  BY HistoryGrows
<1>3. Followed(i) => Followed(i)'
  BY <1>1 DEF Followed, SameSeries, RowsKept
<1>4. Ended(i) => Ended(i)'
  BY <1>1, <1>2 DEF Ended, SameSeries, RowsKept
<1> QED BY <1>1, <1>3, <1>4 DEF MustFollow, RowsKept

LEMMA SeriesStep == TypeInv /\ TypeInv' /\ SeriesInv /\ [Next]_vars => SeriesInv'
<1> SUFFICES ASSUME TypeInv, TypeInv', SeriesInv, [Next]_vars PROVE SeriesInv'
  OBVIOUS
<1>1. RowsKept /\ NewRow
  BY StepsWriteTable, StepKeepsRows
<1>2. MarksJustified
  BY StepKeepsFirings
<1>3. cancelled \subseteq cancelled' /\ lost \subseteq lost'
  BY HistoryGrows
<1>4. /\ Len(tasks) \in Nat /\ Len(tasks') \in Nat
      /\ Ids \subseteq Ids'
      /\ \A j \in Ids' \ Ids : j = Len(tasks) + 1 /\ \A i \in Ids : i < j
  BY <1>1 DEF RowsKept, NewRow, Ids, TypeInv, TypeOK
<1>5. \A f \in Firers : firing[f].pc # "idle" => IdOf(f) \in Ids
  BY DEF TypeInv, HoldsRows, Live
<1>6. SeriesNamed'
  <2>1. \A i \in Ids : tasks'[i].series \in Ids'
    BY <1>1, <1>4 DEF RowsKept, SeriesInv, SeriesNamed
  <2>2. \A i \in Ids' \ Ids : tasks'[i].series \in Ids'
    BY <1>1, <1>4, <1>5 DEF NewRow, SeriesInv, SeriesNamed
  <2> QED BY <2>1, <2>2 DEF SeriesNamed
(* A new row agrees with the rows of its series, or has none. *)
<1>7. \A j \in Ids' \ Ids : \A i \in Ids :
        tasks'[j].series = tasks'[i].series => tasks'[j].kind = tasks'[i].kind
  <2> SUFFICES ASSUME NEW j \in Ids' \ Ids, NEW i \in Ids, tasks'[j].series = tasks'[i].series
               PROVE  tasks'[j].kind = tasks'[i].kind
    OBVIOUS
  <2>1. tasks'[i].series = tasks[i].series /\ tasks'[i].kind = tasks[i].kind /\ tasks[i].series \in Ids
    BY <1>1 DEF RowsKept, SeriesInv, SeriesNamed
  <2>2. tasks'[j].series # j
    BY <2>1
  <2>3. PICK f \in Firers : /\ firing[f].pc = "next"
                            /\ tasks'[j].series = tasks[IdOf(f)].series
                            /\ tasks'[j].kind = tasks[IdOf(f)].kind
    BY <1>1, <2>2 DEF NewRow
  <2> QED BY <1>5, <2>1, <2>3 DEF SeriesInv, SeriesOfOneKind, SameSeries
<1>8. SeriesOfOneKind'
  <2>1. \A i, j \in Ids : tasks'[i].series = tasks'[j].series => tasks'[i].kind = tasks'[j].kind
    BY <1>1 DEF RowsKept, SeriesInv, SeriesOfOneKind, SameSeries
  <2>2. \A i, j \in Ids' \ Ids : i = j
    BY <1>4
  <2>3. \A i, j \in Ids' : tasks'[i].series = tasks'[j].series => tasks'[i].kind = tasks'[j].kind
    BY <1>7, <2>1, <2>2
  <2>4. \A i \in Ids : tasks'[i].kind = "recurring" => tasks'[i].rule \notin {"none", "other"}
    BY <1>1 DEF RowsKept, SeriesInv, SeriesOfOneKind
  <2>5. \A i \in Ids' \ Ids : tasks'[i].kind = "recurring" => tasks'[i].rule \notin {"none", "other"}
    BY <1>1, <1>5 DEF NewRow, SeriesInv, SeriesOfOneKind
  <2> QED BY <2>3, <2>4, <2>5 DEF SeriesOfOneKind, SameSeries
<1>9. HasYoungest'
  <2> SUFFICES ASSUME NEW i \in Ids'
               PROVE  \E m \in Ids' : /\ tasks'[i].series = tasks'[m].series
                                      /\ \A j \in Ids' : tasks'[i].series = tasks'[j].series => j <= m
    BY DEF HasYoungest, SameSeries
  <2>1. CASE \E n \in Ids' \ Ids : tasks'[n].series = tasks'[i].series
    <3>1. PICK n \in Ids' \ Ids : tasks'[n].series = tasks'[i].series
      BY <2>1
    <3>2. \A j \in Ids' : j <= n
      BY <1>4, <3>1 DEF Ids
    <3> QED BY <3>1, <3>2
  <2>2. CASE ~ \E n \in Ids' \ Ids : tasks'[n].series = tasks'[i].series
    <3>1. i \in Ids
      BY <2>2
    <3>2. PICK m \in Ids : /\ tasks[i].series = tasks[m].series
                           /\ \A j \in Ids : tasks[i].series = tasks[j].series => j <= m
      BY <3>1 DEF SeriesInv, HasYoungest, SameSeries
    <3>3. m \in Ids' /\ tasks'[i].series = tasks'[m].series
      BY <1>1, <3>1, <3>2 DEF RowsKept
    <3>4. \A j \in Ids' : tasks'[i].series = tasks'[j].series => j <= m
      BY <1>1, <2>2, <3>1, <3>2 DEF RowsKept
    <3> QED BY <3>3, <3>4
  <2> QED BY <2>1, <2>2
<1>10. DoneAreFollowed'
  <2> SUFFICES ASSUME NEW i \in Ids', tasks'[i].done, MustFollow(i)'
               PROVE  Followed(i)'
    BY DEF DoneAreFollowed
  <2>1. i \in Ids
    BY <1>1 DEF NewRow
  <2>2. MustFollow(i) /\ (Followed(i) => Followed(i)')
    BY <2>1, FollowedKept
  <2>3. i \notin cancelled'
    BY DEF MustFollow, Ended, SameSeries
  <2>4. CASE tasks[i].done
    BY <2>1, <2>2, <2>4 DEF SeriesInv, DoneAreFollowed
  <2>5. ASSUME NEW f \in Firers, firing[f].pc = "mark", IdOf(f) = i
        PROVE  Followed(i)'
    BY <2>1, <2>2, <2>5 DEF SeriesInv, MarkedAreFollowed
  <2> QED BY <1>1, <2>1, <2>3, <2>4, <2>5 DEF RowsKept
<1>11. MarkedAreFollowed'
  <2> SUFFICES ASSUME NEW f \in Firers, firing'[f].pc = "mark", MustFollow(IdOf(f))'
               PROVE  Followed(IdOf(f))'
    BY DEF MarkedAreFollowed
  <2>1. PICK i \in Ids : firing[f].pc # "idle" /\ firing'[f].task.id = i /\ i = IdOf(f)
    BY <1>2, <1>5 DEF MarksJustified, IdOf
  <2>2. MustFollow(i)'
    BY <2>1 DEF MustFollow, Ended, SameSeries, IdOf
  <2> SUFFICES Followed(i)'
    BY <2>1 DEF Followed, SameSeries, IdOf
  <2>3. MustFollow(i) /\ (Followed(i) => Followed(i)')
    BY <2>1, <2>2, FollowedKept
  <2>4. CASE firing[f].pc = "mark"
    BY <2>1, <2>3, <2>4 DEF SeriesInv, MarkedAreFollowed
  <2>5. CASE ~Repeats(IdOf(f))
    BY <2>1, <2>3, <2>5 DEF Repeats, MustFollow, SeriesInv, SeriesOfOneKind
  <2>6. CASE firing[f].pc = "next" /\ ScheduleNext(f)
    <3>1. CASE InsertNext(f)
      <4>1. PICK t \in Nat : tasks' = Append(tasks, Successor(i, t))
        BY <2>1, <2>6, <3>1, InsertNextAppends DEF Live
      <4>2. Successor(i, t).series = tasks[i].series
        BY <2>1 DEF Successor, Ids, TypeInv, TypeOK, Row
      <4>3. /\ Len(tasks) + 1 \in Ids' /\ Len(tasks) + 1 > i
            /\ tasks'[Len(tasks) + 1].series = tasks[i].series
            /\ tasks'[i].series = tasks[i].series
        BY <1>4, <2>1, <4>1, <4>2 DEF Ids, TypeInv, TypeOK
      <4> QED BY <4>3 DEF Followed, SameSeries
    <3>2. CASE Lose(f)
      BY <1>1, <2>1, <2>2, <3>2 DEF Lose, MustFollow, Ended, RowsKept
    <3>3. CASE IgnoreRule(f)
      BY <2>1, <2>3, <3>3 DEF IgnoreRule, MustFollow, SeriesInv, SeriesOfOneKind
    <3> QED BY <2>6, <3>1, <3>2, <3>3 DEF ScheduleNext, InsertRaises
  <2> QED BY <1>2, <2>4, <2>5, <2>6 DEF MarksJustified
<1> QED BY <1>6, <1>8, <1>9, <1>10, <1>11 DEF SeriesInv

LEMMA SeriesInvariance == Spec => []SeriesInv
<1>1. Init => SeriesInv
  BY DEF Init, SeriesInv, SeriesNamed, SeriesOfOneKind, HasYoungest, DoneAreFollowed,
         MarkedAreFollowed, Ids, Idle
<1>2. Spec => []TypeInv
  BY TypeCorrect, PTL DEF TypeInv
<1> QED BY <1>1, <1>2, SeriesStep, PTL DEF Spec

(* A recurring series has a row that waits, unless a row of it was         *)
(* cancelled or computing its next occurrence raised: no crash, close,     *)
(* overlap of polls or failed mark_done ends it.                           *)
THEOREM RecurringSeriesLiveOn == Spec => []SeriesAlive
<1>1. Spec => []TypeInv
  BY TypeCorrect, PTL DEF TypeInv
<1> QED BY <1>1, SeriesInvariance, SeriesInvSuffices, PTL

-----------------------------------------------------------------------------
(* A series that is over stays over: what a poll or a firing takes up was  *)
(* taken up before, or is not done; and only a firing appends to a series. *)

(* What a poll takes up is due, and is remembered as it is in the table.   *)
TakesUp(s) == s.id \in Ids /\ IsDue(s.id) /\ s.fireAt = tasks[s.id].fireAt

LEMMA PolledAreDue ==
  ASSUME NEW q \in QueryResults, NEW k \in DOMAIN q
  PROVE  TakesUp(q[k])
<1> DEFINE D == {i \in Ids : IsDue(i)}
           n == Cardinality(D)
<1>1. PICK s \in [1..n -> D] : q = [j \in 1..n |-> [id |-> s[j], fireAt |-> tasks[s[j]].fireAt]]
  BY Zenon DEF QueryResults
<1>2. q[k].id \in D /\ q[k].fireAt = tasks[q[k].id].fireAt
  <2> HIDE DEF D, n
  <2> QED BY <1>1
<1> QED BY <1>2 DEF TakesUp

(* What the loop fetched and what it has created.                          *)
LEMMA StepKeepsQueues ==
  ASSUME TypeInv, [Next]_vars
  PROVE  /\ \A k \in DOMAIN due' : (\E j \in DOMAIN due : due'[k] = due[j]) \/ TakesUp(due'[k])
         /\ \A k \in DOMAIN ready' :
              \/ \E j \in DOMAIN ready : ready'[k] = ready[j]
              \/ \E j \in DOMAIN due : ready'[k] = due[j]
<1>1. CASE UNCHANGED <<due, ready>>
  BY <1>1
<1>2. CASE UserStep \/ Tick \/ UNCHANGED vars
  BY <1>1, <1>2 DEF UserStep, Create, Cancel, Reschedule, Tick, vars, loopVars
<1>3. CASE LoopStep
  <2>1. CASE PollQuery
    BY <2>1, PolledAreDue DEF PollQuery
  <2>2. CASE Dispatch
    <3>1. due' = <<>> /\ ready' = ready \o due
      BY <2>2 DEF Dispatch, Sleep
    <3>2. ready \in Seq(Snapshot) /\ due \in Seq(Snapshot)
      BY DEF TypeInv, TypeOK
    <3>3. ASSUME NEW k \in DOMAIN (ready \o due)
          PROVE  \/ k \in DOMAIN ready /\ (ready \o due)[k] = ready[k]
                 \/ k - Len(ready) \in DOMAIN due /\ (ready \o due)[k] = due[k - Len(ready)]
      BY <3>2, <3>3
    <3>4. \A k \in DOMAIN ready' : \/ \E j \in DOMAIN ready : ready'[k] = ready[j]
                                   \/ \E j \in DOMAIN due : ready'[k] = due[j]
      BY <3>1, <3>3, Zenon
    <3> QED BY <3>1, <3>4
  <2>3. CASE PollError
    BY <2>3 DEF PollError, Sleep
  <2>4. CASE InitDb \/ InitDbRaises \/ LoopCheck \/ LoopWake
    BY <1>1, <2>4 DEF InitDb, InitDbRaises, LoopCheck, LoopWake
  <2> QED BY <1>3, <2>1, <2>2, <2>3, <2>4 DEF LoopStep
<1>4. ASSUME NEW f \in Firers, FireStep(f)
      PROVE  UNCHANGED due /\ (UNCHANGED ready \/ (ready # <<>> /\ ready' = Tail(ready)))
  BY <1>4 DEF FireStep, Start, PayloadReturns, PayloadRaises, NoticeEnds, ScheduleNext,
              MarkDone, MarkDoneRaises, loopVars
<1>5. ASSUME UNCHANGED due, ready # <<>>, ready' = Tail(ready)
      PROVE  \A k \in DOMAIN ready' : \E j \in DOMAIN ready : ready'[k] = ready[j]
  BY <1>5 DEF TypeInv, TypeOK
<1>6. ASSUME NEW f \in Firers, CancelFiring(f) PROVE UNCHANGED <<due, ready>>
  BY <1>6 DEF CancelFiring, loopVars
<1>7. CASE ProcStep
  BY <1>7 DEF ProcStep, Close, CancelLoop, CancelReady, Exit, Crash, Restart, loopVars
<1> QED BY <1>1, <1>2, <1>3, <1>4, <1>5, <1>6, <1>7 DEF Next, Fire

(* The rows in the hands of the loop or of a firing, as they remember them.*)
Held == {due[k] : k \in DOMAIN due} \cup {ready[k] : k \in DOMAIN ready}
          \cup {firing[f].task : f \in {g \in Firers : Live(g)}}

LEMMA HeldAreTakenUp ==
  ASSUME TypeInv, [Next]_vars, NEW s \in Held'
  PROVE  s \in Held \/ TakesUp(s)
<1>1. FiringsKept
  BY StepKeepsFirings
<1>2. CASE \E k \in DOMAIN due' : due'[k] = s
  BY <1>2, StepKeepsQueues DEF Held
<1>3. CASE \E k \in DOMAIN ready' : ready'[k] = s
  BY <1>3, StepKeepsQueues DEF Held
<1>4. CASE \E f \in Firers : firing'[f].pc # "idle" /\ firing'[f].task = s
  <2>1. PICK f \in Firers : firing'[f].pc # "idle" /\ firing'[f].task = s
    BY <1>4
  <2>2. CASE 1 \in DOMAIN ready /\ firing'[f].task = ready[1]
    BY <2>1, <2>2 DEF Held
  <2>3. CASE firing[f].pc # "idle" /\ firing'[f].task = firing[f].task
    BY <2>1, <2>3 DEF Held, Live
  <2> QED BY <1>1, <2>1, <2>2, <2>3 DEF FiringsKept
<1> QED BY <1>2, <1>3, <1>4 DEF Held, Live

LEMMA HeldInFlight == \A i : InFlight(i) <=> \E s \in Held : s.id = i
  BY DEF InFlight, Held, IdOf

LEMMA TakenUpIsNotDone ==
  ASSUME TypeInv, [Next]_vars, NEW i, InFlight(i)'
  PROVE  InFlight(i) \/ (i \in Ids /\ ~tasks[i].done)
<1>1. PICK s \in Held' : s.id = i
  BY DEF InFlight, Held, IdOf
<1> QED BY <1>1, HeldAreTakenUp, HeldInFlight DEF TakesUp, IsDue

LEMMA OverStays ==
  ASSUME TypeInv, SeriesNamed, [Next]_vars, NEW i \in Ids, Over(i)
  PROVE  Over(i)'
<1>1. RowsKept /\ NewRow
  BY StepsWriteTable, StepKeepsRows
<1>2. SUFFICES ASSUME NEW j \in Ids', tasks'[i].series = tasks'[j].series
               PROVE  tasks'[j].done /\ ~InFlight(j)'
  BY DEF Over, SameSeries
<1>3. tasks'[i].series = tasks[i].series /\ tasks[i].series \in Ids
  BY <1>1 DEF RowsKept, SeriesNamed
<1>4. j \in Ids
  <2> SUFFICES ASSUME j \notin Ids PROVE FALSE
    OBVIOUS
  <2>1. CASE tasks'[j].series = j
    BY <1>2, <1>3, <2>1
  <2>2. ASSUME NEW f \in Firers, firing[f].pc = "next", tasks'[j].series = tasks[IdOf(f)].series
        PROVE  FALSE
    <3>1. IdOf(f) \in Ids /\ InFlight(IdOf(f))
      BY <2>2 DEF TypeInv, HoldsRows, Live, InFlight
    <3> QED BY <1>2, <1>3, <2>2, <3>1 DEF Over, SameSeries
  <2> QED BY <1>1, <2>1, <2>2 DEF NewRow
<1>5. tasks[j].done /\ ~InFlight(j)
  BY <1>1, <1>2, <1>3, <1>4 DEF RowsKept, Over, SameSeries
<1>6. tasks'[j].done
  BY <1>1, <1>4, <1>5 DEF RowsKept
<1>7. ~InFlight(j)'
  BY <1>5, TakenUpIsNotDone
<1> QED BY <1>6, <1>7

(* A task cancelled while nothing fires it, and its series with it, is     *)
(* over for good: no poll, restart or reschedule brings it back.           *)
THEOREM OverSeriesStayOver == Spec => OverForGood
<1>1. TypeInv /\ SeriesInv /\ [Next]_vars => [\A i \in Ids : Over(i) => Over(i)']_vars
  BY OverStays DEF SeriesInv
<1>2. Spec => []TypeInv
  BY TypeCorrect, PTL DEF TypeInv
<1> QED BY <1>1, <1>2, SeriesInvariance, PTL DEF Spec, OverForGood

-----------------------------------------------------------------------------
(* The weekly grid.  What makes it inductive: as long as a row was not     *)
(* rescheduled, whoever holds it remembers the time it has in the table,   *)
(* and that time has come.                                                 *)

HeldOnTime ==
  \A s \in Held : tasks[s.id].attempt = 0 => s.fireAt = tasks[s.id].fireAt /\ s.fireAt <= now

SeriesHeaded == \A i \in Ids : tasks[tasks[i].series].series = tasks[i].series

OnGrid(i) == \E n \in Nat : tasks[i].fireAt = tasks[tasks[i].series].fireAt + n * Week

RowsOnGrid == \A i \in Ids : tasks[i].rule = "weekly" /\ Unrescheduled(i) => OnGrid(i)

GridInv == HeldOnTime /\ SeriesHeaded /\ RowsOnGrid

LEMMA RowType ==
  ASSUME TypeInv, NEW i \in Ids
  PROVE  /\ tasks[i].fireAt \in Nat /\ tasks[i].attempt \in Nat /\ tasks[i].fires \in Nat
         /\ tasks[i].done \in BOOLEAN
<1>1. tasks[i] \in Row
  BY DEF TypeInv, TypeOK, Ids
<1> QED BY <1>1 DEF Row

LEMMA HeldAreRows ==
  ASSUME TypeInv, NEW s \in Held
  PROVE  s.id \in Ids /\ s.fireAt \in Nat
<1>1. /\ \A k \in DOMAIN due : due[k] \in Snapshot /\ due[k].id \in Ids
      /\ \A k \in DOMAIN ready : ready[k] \in Snapshot /\ ready[k].id \in Ids
  BY DEF TypeInv, TypeOK, HoldsRows
<1>2. CASE \E k \in DOMAIN due : due[k] = s
  BY <1>1, <1>2 DEF Snapshot
<1>4. CASE \E k \in DOMAIN ready : ready[k] = s
  BY <1>1, <1>4 DEF Snapshot
<1>3. CASE \E f \in Firers : Live(f) /\ firing[f].task = s
  <2>1. PICK f \in Firers : Live(f) /\ firing[f].task = s
    BY <1>3
  <2>2. firing[f].task \in Snapshot
    BY <2>1, LiveType DEF TypeInv, TypeOK
  <2> QED BY <2>1, <2>2 DEF TypeInv, HoldsRows, IdOf, Snapshot
<1> QED BY <1>2, <1>3, <1>4 DEF Held

LEMMA TimePasses == ASSUME TypeInv, [Next]_vars PROVE now' \in Nat /\ now <= now'
<1>1. now \in Nat /\ (now' = now \/ now' = now + 1)
  <2>1. ASSUME UserStep \/ LoopStep PROVE now' = now
    BY <2>1 DEF UserStep, Create, Cancel, Reschedule, LoopStep, InitDb, InitDbRaises, LoopCheck,
                PollQuery, PollError, Dispatch, LoopWake
  <2>2. ASSUME NEW f \in Firers, FireStep(f) \/ CancelFiring(f) PROVE now' = now
    BY <2>2 DEF FireStep, Start, PayloadReturns, PayloadRaises, NoticeEnds, ScheduleNext, MarkDone,
                MarkDoneRaises, CancelFiring
  <2>3. CASE ProcStep \/ Tick \/ UNCHANGED vars
    BY <2>3 DEF TypeInv, TypeOK, ProcStep, Close, CancelLoop, CancelReady, Exit, Crash, Restart,
                Tick, vars
  <2> QED BY <2>1, <2>2, <2>3 DEF Next, Fire, TypeInv, TypeOK
<1> QED BY <1>1

LEMMA HeldOnTimeStep ==
  ASSUME TypeInv, HeldOnTime, [Next]_vars
  PROVE  HeldOnTime'
<1>1. RowsKept
  BY StepsWriteTable, StepKeepsRows
<1>2. ASSUME NEW s \in Held', tasks'[s.id].attempt = 0
      PROVE  s.fireAt = tasks'[s.id].fireAt /\ s.fireAt <= now'
  <2>1. s \in Held \/ TakesUp(s)
    BY HeldAreTakenUp
  <2>2. s.id \in Ids /\ (s \in Held => s.fireAt \in Nat)
    BY <2>1, HeldAreRows DEF TakesUp
  <2>3. tasks[s.id].fireAt \in Nat
    BY <2>2, RowType
  <2>4. tasks'[s.id].fireAt = tasks[s.id].fireAt /\ tasks[s.id].attempt = 0
    BY <1>1, <1>2, <2>2 DEF RowsKept
  <2>5. s.fireAt = tasks[s.id].fireAt /\ s.fireAt <= now
    BY <2>1, <2>4 DEF HeldOnTime, TakesUp, IsDue
  <2>6. now \in Nat /\ now' \in Nat /\ now <= now'
    BY TimePasses DEF TypeInv, TypeOK
  <2> QED BY <2>3, <2>4, <2>5, <2>6
<1> QED BY <1>2 DEF HeldOnTime

LEMMA SeriesHeadedStep ==
  ASSUME TypeInv, SeriesNamed, SeriesHeaded, [Next]_vars
  PROVE  SeriesHeaded'
<1>1. RowsKept /\ NewRow
  BY StepsWriteTable, StepKeepsRows
<1>2. ASSUME NEW i \in Ids PROVE tasks'[tasks[i].series].series = tasks[i].series
  BY <1>1 DEF RowsKept, SeriesNamed, SeriesHeaded
<1>3. ASSUME NEW i \in Ids' \ Ids PROVE tasks'[tasks'[i].series].series = tasks'[i].series
  <2>1. CASE tasks'[i].series = i
    BY <2>1
  <2>2. ASSUME NEW f \in Firers, firing[f].pc = "next", tasks'[i].series = tasks[IdOf(f)].series
        PROVE  tasks'[tasks'[i].series].series = tasks'[i].series
    BY <1>2, <2>2 DEF TypeInv, HoldsRows, Live
  <2> QED BY <1>1, <2>1, <2>2 DEF NewRow
<1> QED BY <1>1, <1>2, <1>3 DEF SeriesHeaded, RowsKept

(* However late it is handled, the next occurrence is whole weeks later.   *)
LEMMA WeeksLater ==
  ASSUME NEW fired \in Nat, NEW moment \in Nat
  PROVE  \E n \in Nat : WeeklyNext(fired, moment) = fired + n * Week
<1>1. Week \in Nat
  BY WeekPositive
<1>2. CASE fired + Week > moment
  <2>1. WeeklyNext(fired, moment) = fired + 1 * Week
    BY <1>1, <1>2 DEF WeeklyNext
  <2> QED BY <2>1
<1>3. CASE ~(fired + Week > moment)
  <2> DEFINE m == WeeksBehind(fired + Week, moment)
  <2>1. m \in Nat
    <3>1. fired + Week \in Nat /\ fired + Week <= moment
      BY <1>1, <1>3
    <3> QED BY <3>1, WeeksBehindSuffice
  <2>2. WeeklyNext(fired, moment) = fired + Week + m * Week
    BY <1>3 DEF WeeklyNext
  <2> HIDE DEF m
  <2>3. fired + Week + m * Week = fired + (m + 1) * Week
    BY <1>1, <2>1, Z3
  <2> QED BY <2>1, <2>2, <2>3
<1> QED BY <1>2, <1>3

LEMMA RowsOnGridStep ==
  ASSUME TypeInv, SeriesNamed, GridInv, [Next]_vars
  PROVE  RowsOnGrid'
<1>1. RowsKept /\ NewRow
  BY StepsWriteTable, StepKeepsRows
<1>2. Week \in Nat /\ \A i \in Ids : tasks[i].fireAt \in Nat
  BY WeekPositive, RowType
(* A series that is not rescheduled after a step was not before, and its   *)
(* rows, the first among them, have kept their times.                      *)
<1>3. ASSUME NEW i \in Ids, \A j \in Ids' : tasks'[i].series = tasks'[j].series => tasks'[j].attempt = 0
      PROVE  /\ Unrescheduled(i)
             /\ \A j \in Ids : SameSeries(i, j) => tasks'[j].fireAt = tasks[j].fireAt
  BY <1>1, <1>3 DEF RowsKept, Unrescheduled, SameSeries
<1>4. ASSUME NEW i \in Ids, tasks'[i].rule = "weekly",
             \A j \in Ids' : tasks'[i].series = tasks'[j].series => tasks'[j].attempt = 0
      PROVE  \E n \in Nat : tasks'[i].fireAt = tasks'[tasks'[i].series].fireAt + n * Week
  <2>1. tasks[i].rule = "weekly" /\ tasks'[i].series = tasks[i].series
    BY <1>1, <1>4 DEF RowsKept
  <2>2. Unrescheduled(i) /\ SameSeries(i, tasks[i].series) /\ tasks[i].series \in Ids
    BY <1>3, <1>4 DEF SeriesNamed, GridInv, SeriesHeaded, SameSeries
  <2>3. tasks'[i].fireAt = tasks[i].fireAt
        /\ tasks'[tasks[i].series].fireAt = tasks[tasks[i].series].fireAt
    BY <1>3, <1>4, <2>2 DEF SameSeries
  <2> QED BY <2>1, <2>2, <2>3 DEF GridInv, RowsOnGrid, OnGrid
<1>5. ASSUME NEW j \in Ids' \ Ids, tasks'[j].rule = "weekly",
             \A k \in Ids' : tasks'[j].series = tasks'[k].series => tasks'[k].attempt = 0
      PROVE  \E n \in Nat : tasks'[j].fireAt = tasks'[tasks'[j].series].fireAt + n * Week
  <2>1. CASE tasks'[j].series = j
    <3>1. TypeInv'
      BY TypeStep
    <3>2. tasks'[j].fireAt \in Nat
      <4>1. tasks'[j] \in Row
        BY <3>1 DEF TypeInv, TypeOK, Ids
      <4> QED BY <4>1 DEF Row
    <3>3. tasks'[j].fireAt = tasks'[j].fireAt + 0 * Week
      BY <1>2, <3>2
    <3> QED BY <2>1, <3>3
  <2>2. ASSUME NEW f \in Firers, firing[f].pc = "next",
               tasks'[j].series = tasks[IdOf(f)].series, tasks'[j].rule = tasks[IdOf(f)].rule,
               tasks'[j].fireAt = WeeklyNext(firing[f].task.fireAt, now)
        PROVE  \E n \in Nat : tasks'[j].fireAt = tasks'[tasks'[j].series].fireAt + n * Week
    <3>1. PICK i \in Ids : i = IdOf(f) /\ Live(f)
      BY <2>2 DEF TypeInv, HoldsRows, Live
    <3>2. tasks'[i].series = tasks'[j].series
      BY <1>1, <2>2, <3>1 DEF RowsKept
    <3>3. Unrescheduled(i)
      BY <1>3, <1>5, <3>2
    <3>4. /\ tasks[i].attempt = 0 /\ tasks[i].series \in Ids /\ SameSeries(i, tasks[i].series)
          /\ tasks[i].rule = "weekly"
      BY <1>5, <2>2, <3>1, <3>3 DEF Unrescheduled, SameSeries, SeriesNamed, GridInv, SeriesHeaded
    <3>5. firing[f].task.fireAt = tasks[i].fireAt
      BY <3>1, <3>4 DEF GridInv, HeldOnTime, Held, IdOf
    <3>6. PICK m \in Nat : WeeklyNext(tasks[i].fireAt, now) = tasks[i].fireAt + m * Week
      BY <1>2, WeeksLater DEF TypeInv, TypeOK
    <3>7. PICK n \in Nat : tasks[i].fireAt = tasks[tasks[i].series].fireAt + n * Week
      BY <3>3, <3>4 DEF GridInv, RowsOnGrid, OnGrid
    <3>8. tasks'[tasks[i].series].fireAt = tasks[tasks[i].series].fireAt
      BY <1>3, <1>5, <3>2, <3>4
    <3>9. tasks[tasks[i].series].fireAt + n * Week + m * Week
            = tasks[tasks[i].series].fireAt + (n + m) * Week
      BY <1>2, <3>4, Z3
    <3>10. tasks'[j].fireAt = tasks'[tasks'[j].series].fireAt + (n + m) * Week
      BY <2>2, <3>1, <3>5, <3>6, <3>7, <3>8, <3>9
    <3> QED BY <3>10
  <2> QED BY <1>1, <1>5, <2>1, <2>2 DEF NewRow
<1> QED BY <1>1, <1>4, <1>5 DEF RowsOnGrid, Unrescheduled, SameSeries, OnGrid

LEMMA GridInvariance == Spec => []GridInv
<1>1. Init => GridInv
  BY DEF Init, GridInv, HeldOnTime, Held, Live, Idle, SeriesHeaded, RowsOnGrid, Ids
<1>2. TypeInv /\ SeriesInv /\ GridInv /\ [Next]_vars => GridInv'
  BY HeldOnTimeStep, SeriesHeadedStep, RowsOnGridStep DEF SeriesInv, GridInv
<1>3. Spec => []TypeInv
  BY TypeCorrect, PTL DEF TypeInv
<1> QED BY <1>1, <1>2, <1>3, SeriesInvariance, PTL DEF Spec

LEMMA WholeWeeks ==
  ASSUME NEW first \in Nat, NEW n \in Nat, NEW at, at = first + n * Week
  PROVE  (at - first) % Week = 0
<1>1. Week \in Nat \ {0} /\ n * Week \in Nat
  BY WeekPositive
<1>2. at - first = n * Week
  BY <1>1
<1>3. (n * Week) % Week = 0
  BY <1>1, Z3
<1> QED BY <1>2, <1>3

(* Late firings, outages and restarts do not move a weekly series off the  *)
(* weekday and the time of day it was created for.                         *)
THEOREM WeeklySeriesKeepTheirDay == Spec => []WeeklyOnGrid
<1>1. TypeInv /\ SeriesInv /\ GridInv => WeeklyOnGrid
  <2> SUFFICES ASSUME TypeInv, SeriesInv, GridInv, NEW i \in Ids,
                      tasks[i].rule = "weekly", Unrescheduled(i)
               PROVE  (tasks[i].fireAt - tasks[tasks[i].series].fireAt) % Week = 0
    BY DEF WeeklyOnGrid
  <2>1. OnGrid(i)
    BY DEF GridInv, RowsOnGrid
  <2>2. PICK n \in Nat : tasks[i].fireAt = tasks[tasks[i].series].fireAt + n * Week
    BY <2>1 DEF OnGrid
  <2>3. tasks[tasks[i].series].fireAt \in Nat
    BY RowType DEF SeriesInv, SeriesNamed
  <2> QED BY <2>2, <2>3, WholeWeeks
<1>2. Spec => []TypeInv
  BY TypeCorrect, PTL DEF TypeInv
<1> QED BY <1>1, <1>2, SeriesInvariance, GridInvariance, PTL

-----------------------------------------------------------------------------
(* When every firing ends before the next poll: a row is then in one hand  *)
(* at a time, and every further firing of it is paid for.                  *)

PromptNext == Next /\ (now' # now => Quiet)

(* Where the loop is tells what may still be in flight.                    *)
Calm ==
  /\ proc # "up" => stops > 0
  /\ proc = "down" => loopPc \in {"exited", "failed"} /\ Quiet
  /\ loopPc \in {"init", "check", "query"} => Quiet
  /\ loopPc = "dispatch" => ready = <<>> /\ \A f \in Firers : ~Live(f)
  /\ loopPc # "dispatch" => due = <<>>
  /\ loopPc = "sleep" /\ wake <= now => Quiet

(* What takes a row up, hands it on or lets go of it.                      *)
HandsStill == UNCHANGED <<due, ready, firing>>

LEMMA StepsOfHands ==
  ASSUME [PromptNext]_vars
  PROVE  \/ HandsStill
         \/ PollQuery \/ PollError \/ Dispatch
         \/ \E f \in Firers : FireStep(f) \/ CancelFiring(f)
         \/ CancelLoop \/ CancelReady \/ Crash
<1>1. CASE UserStep \/ Tick \/ UNCHANGED vars
  BY <1>1 DEF UserStep, Create, Cancel, Reschedule, Tick, vars, loopVars, HandsStill
<1>2. CASE LoopStep
  BY <1>2 DEF LoopStep, InitDb, InitDbRaises, LoopCheck, LoopWake, HandsStill
<1>3. CASE ProcStep
  BY <1>3 DEF ProcStep, Close, Exit, Restart, loopVars, HandsStill
<1> QED BY <1>1, <1>2, <1>3 DEF PromptNext, Next, Fire

LEMMA QuietStays ==
  ASSUME Quiet, HandsStill
  PROVE  Quiet'
BY DEF Quiet, HandsStill, Live

LEMMA CalmStep ==
  ASSUME TypeInv, Calm, [PromptNext]_vars
  PROVE  Calm'
<1>1. now \in Nat /\ wake \in Nat /\ stops \in Nat
  BY DEF TypeInv, TypeOK
<1>2. CASE UserStep \/ UNCHANGED vars
  <2>1. HandsStill /\ UNCHANGED <<now, proc, stops, loopPc, wake>>
    BY <1>2 DEF UserStep, Create, Cancel, Reschedule, vars, procVars, loopVars, HandsStill
  <2> QED BY <2>1 DEF Calm, Quiet, HandsStill, Live
<1>3. CASE LoopStep
  <2>1. UNCHANGED <<now, proc, stops, firing>>
    BY <1>3 DEF LoopStep, InitDb, InitDbRaises, LoopCheck, PollQuery, PollError, Dispatch, LoopWake, procVars
  <2>2. CASE InitDb \/ InitDbRaises \/ LoopCheck
    BY <2>1, <2>2 DEF Calm, Quiet, Live, InitDb, InitDbRaises, LoopCheck
  <2>3. CASE PollQuery
    BY <2>1, <2>3 DEF Calm, Quiet, Live, PollQuery
  <2>4. CASE PollError
    BY <2>1, <2>4 DEF Calm, Quiet, Live, PollError, Sleep
  <2>5. CASE Dispatch
    BY <1>1, <2>1, <2>5 DEF Calm, Quiet, Live, Dispatch, Sleep
  <2>6. CASE LoopWake
    BY <2>1, <2>6 DEF Calm, Quiet, Live, LoopWake
  <2> QED BY <1>3, <2>2, <2>3, <2>4, <2>5, <2>6 DEF LoopStep
<1>4. ASSUME NEW f \in Firers, FireStep(f) PROVE Calm'
  <2>1. UNCHANGED <<now, proc, stops, loopPc, wake, due>>
    BY <1>4 DEF FireStep, Start, PayloadReturns, PayloadRaises, NoticeEnds, ScheduleNext, MarkDone,
                MarkDoneRaises, procVars, loopVars
  <2>2. ~Quiet /\ (ready # <<>> \/ Live(f))
    BY <1>4 DEF FireStep, Start, PayloadReturns, PayloadRaises, NoticeEnds, ScheduleNext, MarkDone,
                MarkDoneRaises, Quiet, Live
  <2> QED BY <2>1, <2>2 DEF Calm
<1>5. ASSUME NEW f \in Firers, CancelFiring(f) PROVE Calm'
  <2>1. UNCHANGED <<now, proc, stops, loopPc, wake, due>>
    BY <1>5 DEF CancelFiring, procVars, loopVars
  <2>2. ~Quiet /\ Live(f)
    BY <1>5 DEF CancelFiring, Quiet, Live
  <2> QED BY <2>1, <2>2 DEF Calm
<1>6. CASE CancelReady
  <2>1. UNCHANGED <<now, proc, stops, loopPc, wake, due, firing>> /\ ~Quiet /\ ready # <<>>
    BY <1>6 DEF CancelReady, Quiet, procVars, loopVars
  <2> QED BY <2>1 DEF Calm
<1>7. CASE CancelLoop
  BY <1>7 DEF CancelLoop, Calm, Quiet, Live, procVars
<1>8. CASE Crash
  BY <1>1, <1>8 DEF Crash, Calm, Quiet, Live, Idle
<1>9. CASE Close \/ Exit \/ Restart
  BY <1>1, <1>9 DEF Close, Exit, Restart, Calm, Quiet, Live, loopVars
<1>10. CASE Tick /\ Quiet
  <2>1. HandsStill /\ UNCHANGED <<proc, stops, loopPc, wake>>
    BY <1>10 DEF Tick, procVars, loopVars, HandsStill
  <2>2. Quiet'
    BY <1>10, <2>1, QuietStays
  <2> QED BY <2>1, <2>2 DEF Calm, Quiet, HandsStill
<1>11. CASE Tick /\ now' = now
  BY <1>1, <1>11 DEF Tick
<1> QED BY <1>2, <1>3, <1>4, <1>5, <1>6, <1>7, <1>8, <1>9, <1>10, <1>11
        DEF PromptNext, Next, Fire, ProcStep

InHand(i) == \E f \in Firers : Live(f) /\ IdOf(f) = i

(* A row is in one hand at a time.                                         *)
Once ==
  /\ \A j, k \in DOMAIN due : due[j].id = due[k].id => j = k
  /\ \A j, k \in DOMAIN ready : ready[j].id = ready[k].id => j = k
  /\ \A f, g \in Firers : Live(f) /\ Live(g) /\ IdOf(f) = IdOf(g) => f = g
  /\ \A k \in DOMAIN ready : ~InHand(ready[k].id)

LEMMA PolledOnce ==
  ASSUME NEW q \in QueryResults, NEW j \in DOMAIN q, NEW k \in DOMAIN q, q[j].id = q[k].id, TypeInv
  PROVE  j = k
<1> DEFINE D == {i \in Ids : IsDue(i)}
           n == Cardinality(D)
<1>1. PICK s \in [1..n -> D] :
        /\ \A a, b \in 1..n : a < b => s[a] # s[b] /\ tasks[s[a]].fireAt <= tasks[s[b]].fireAt
        /\ q = [a \in 1..n |-> [id |-> s[a], fireAt |-> tasks[s[a]].fireAt]]
  BY Zenon DEF QueryResults
<1>2. q \in Seq(Snapshot)
  BY QueryResultsType DEF TypeInv
<1>3. j \in 1..n /\ k \in 1..n /\ s[j] = s[k]
  <2> HIDE DEF D, n
  <2> QED BY <1>1
<1>4. j \in Nat /\ k \in Nat
  BY <1>2
<1>5. ~(j < k) /\ ~(k < j)
  <2> HIDE DEF D, n
  <2> QED BY <1>1, <1>3
<1> QED BY <1>4, <1>5

(* Without a start, every firing after a step was there before.            *)
LEMMA LiveKept ==
  ASSUME TypeInv, [Next]_vars, UNCHANGED ready, NEW f \in Firers, Live(f)'
  PROVE  Live(f) /\ firing'[f].task = firing[f].task /\ IdOf(f)' = IdOf(f)
<1>1. ~Start(f)
  <2>1. ready \in Seq(Snapshot)
    BY DEF TypeInv, TypeOK
  <2>2. ready # <<>> => Len(Tail(ready)) # Len(ready)
    BY <2>1
  <2> QED BY <2>2 DEF Start
<1>2. FiringsKept
  BY StepKeepsFirings
<1> QED BY <1>1, <1>2 DEF FiringsKept, Live, IdOf

LEMMA OnceStep ==
  ASSUME TypeInv, Calm, Once, [PromptNext]_vars
  PROVE  Once'
<1>0. /\ ready \in Seq(Snapshot) /\ due \in Seq(Snapshot)
  BY DEF TypeInv, TypeOK
<1>1. CASE HandsStill
  BY <1>1 DEF HandsStill, Once, InHand, Live, IdOf
<1>2. CASE PollQuery
  <2>1. UNCHANGED <<ready, firing>> /\ \A j, k \in DOMAIN due' : due'[j].id = due'[k].id => j = k
    BY <1>2, PolledOnce DEF PollQuery
  <2> QED BY <2>1 DEF Once, InHand, Live, IdOf
<1>3. CASE PollError \/ CancelLoop
  <2>1. UNCHANGED <<ready, firing>> /\ due' = <<>>
    BY <1>3 DEF PollError, Sleep, CancelLoop
  <2> QED BY <2>1 DEF Once, InHand, Live, IdOf
<1>4. CASE Dispatch
  <2>1. ready' = due /\ due' = <<>> /\ \A f \in Firers : ~Live(f)'
    <3>1. ready = <<>> /\ \A f \in Firers : ~Live(f)
      BY <1>4 DEF Calm, Dispatch
    <3> QED BY <1>0, <1>4, <3>1 DEF Dispatch, Sleep, Live
  <2> QED BY <2>1 DEF Once, InHand
<1>5. ASSUME NEW f \in Firers, Start(f) PROVE Once'
  <2>1. /\ ready # <<>> /\ 1 \in DOMAIN ready /\ ready[1] = Head(ready) /\ ready' = Tail(ready)
        /\ UNCHANGED due
    BY <1>0, <1>5 DEF Start, loopVars
  <2>2. \A k \in DOMAIN ready' : k + 1 \in DOMAIN ready /\ ready'[k] = ready[k + 1] /\ k \in Nat \ {0}
    BY <1>0, <2>1
  <2>3. /\ Live(f)' /\ IdOf(f)' = ready[1].id
        /\ \A g \in Firers \ {f} : Live(g)' = Live(g) /\ IdOf(g)' = IdOf(g)
    BY <1>5, <2>1 DEF Start, Live, IdOf, TypeInv, TypeOK
  <2>4. \A j, k \in DOMAIN ready' : ready'[j].id = ready'[k].id => j = k
    BY <2>2 DEF Once
  <2>5. \A g, h \in Firers : Live(g)' /\ Live(h)' /\ IdOf(g)' = IdOf(h)' => g = h
    BY <2>1, <2>3 DEF Once, InHand
  <2>6. ASSUME NEW k \in DOMAIN ready', NEW g \in Firers, Live(g)'
        PROVE  IdOf(g)' # ready'[k].id
    <3>1. CASE g = f
      <4>1. k + 1 # 1
        BY <2>2
      <4> QED BY <2>1, <2>2, <2>3, <3>1, <4>1 DEF Once
    <3>2. CASE g # f
      BY <2>2, <2>3, <2>6, <3>2 DEF Once, InHand
    <3> QED BY <3>1, <3>2
  <2> QED BY <2>1, <2>4, <2>5, <2>6 DEF Once, InHand
<1>6. ASSUME UNCHANGED due, ready' \in {ready, <<>>},
             \A f \in Firers : Live(f)' => Live(f) /\ IdOf(f)' = IdOf(f)
      PROVE  Once'
  BY <1>6 DEF Once, InHand
<1>7. ASSUME NEW f \in Firers, (FireStep(f) /\ ~Start(f)) \/ CancelFiring(f) PROVE Once'
  <2>1. UNCHANGED <<due, ready>>
    BY <1>7 DEF FireStep, PayloadReturns, PayloadRaises, NoticeEnds, ScheduleNext, MarkDone,
                MarkDoneRaises, CancelFiring, loopVars
  <2>2. \A g \in Firers : Live(g)' => Live(g) /\ IdOf(g)' = IdOf(g)
    BY <2>1, LiveKept DEF PromptNext
  <2> QED BY <1>6, <2>1, <2>2
<1>8. CASE CancelReady
  BY <1>6, <1>8 DEF CancelReady, loopVars, Live, IdOf
<1>9. CASE Crash
  <2>1. due' = <<>> /\ ready' = <<>> /\ \A f \in Firers : ~Live(f)'
    BY <1>9 DEF Crash, Live, Idle
  <2> QED BY <2>1 DEF Once, InHand
<1> QED BY <1>1, <1>2, <1>3, <1>4, <1>5, <1>7, <1>8, <1>9, StepsOfHands

(* The stops and faults that can have paid for a firing that starts now: a *)
(* close pays for what it cuts off, and not for what it lets start.        *)
Paid == IF proc = "closing" THEN stops + faults - 1 ELSE stops + faults

PaidFor ==
  /\ RefiresPaidFor
  /\ \A f \in Firers : Live(f) => tasks[IdOf(f)].fires <= 1 + Paid
  /\ \A k \in DOMAIN due : tasks[due[k].id].fires <= Paid
  /\ \A k \in DOMAIN ready : tasks[ready[k].id].fires <= Paid
  /\ \A i \in Ids : ~tasks[i].done /\ ~InHand(i) => tasks[i].fires <= stops + faults
  /\ loopPc = "query" => \A i \in Ids : ~tasks[i].done => tasks[i].fires <= Paid

LEMMA CountersGrow ==
  ASSUME TypeInv, Calm, [Next]_vars
  PROVE  /\ stops \in Nat /\ faults \in Nat /\ stops' \in Nat /\ faults' \in Nat
         /\ stops <= stops' /\ faults <= faults'
         /\ Paid \in Nat /\ Paid' \in Nat /\ Paid <= Paid' /\ Paid <= stops + faults
<1>1. /\ stops \in Nat /\ faults \in Nat
      /\ proc \in {"up", "closing", "down"} /\ (proc = "closing" => stops > 0)
  BY DEF TypeInv, TypeOK, Calm
<1>2. CASE UserStep \/ LoopStep \/ Tick \/ UNCHANGED vars
  <2>1. UNCHANGED <<proc, stops>> /\ (faults' = faults \/ faults' = faults + 1)
    BY <1>2 DEF UserStep, Create, Cancel, Reschedule, LoopStep, InitDb, InitDbRaises,
                LoopCheck, PollQuery, PollError, Dispatch, LoopWake, Tick, vars, procVars, Fault
  <2> QED BY <1>1, <2>1 DEF Paid
<1>3. ASSUME NEW f \in Firers, FireStep(f) \/ CancelFiring(f)
      PROVE  UNCHANGED <<proc, stops>> /\ (faults' = faults \/ faults' = faults + 1)
  BY <1>3 DEF FireStep, Start, PayloadReturns, PayloadRaises, NoticeEnds, ScheduleNext, InsertRaises,
              MarkDone, MarkDoneRaises, CancelFiring, procVars, Fault
<1>4. CASE Fire
  BY <1>1, <1>3, <1>4 DEF Fire, Paid
<1>5. CASE ProcStep
  <2>1. /\ faults' = faults
        /\ \/ UNCHANGED <<proc, stops>>
           \/ proc = "up" /\ proc' = "closing" /\ stops' = stops + 1
           \/ proc # "down" /\ proc' = "down" /\ stops' \in {stops, stops + 1}
           \/ proc = "down" /\ proc' = "up" /\ stops' = stops
    BY <1>1, <1>5 DEF ProcStep, Close, CancelLoop, CancelReady, Exit, Crash, Restart, Alive, procVars
  <2> QED BY <1>1, <2>1 DEF Paid
<1> QED BY <1>2, <1>4, <1>5 DEF Next

(* A firing that ends leaves its row done, or a stop or a fault has paid   *)
(* for the next one.                                                       *)
LEMMA EndsArePaid ==
  ASSUME TypeInv, Calm, [Next]_vars, NEW f \in Firers, Live(f), ~Live(f)'
  PROVE  \/ tasks'[IdOf(f)].done
         \/ 1 + Paid <= stops' + faults'
<1>1. /\ stops \in Nat /\ faults \in Nat /\ firing \in [Firers -> Firing]
  BY DEF TypeInv, TypeOK
<1>2. CASE UserStep \/ LoopStep \/ Tick \/ UNCHANGED vars
  <2>1. UNCHANGED firing
    BY <1>2 DEF UserStep, Create, Cancel, Reschedule, LoopStep, InitDb, InitDbRaises,
                LoopCheck, PollQuery, PollError, Dispatch, LoopWake, Tick, vars
  <2> QED BY <2>1 DEF Live
<1>3. ASSUME NEW g \in Firers, FireStep(g) \/ CancelFiring(g), g # f PROVE FALSE
  <2>1. firing'[f] = firing[f]
    BY <1>1, <1>3 DEF FireStep, Start, PayloadReturns, PayloadRaises, NoticeEnds, ScheduleNext, MarkDone,
                MarkDoneRaises, CancelFiring, GoTo, Finish
  <2> QED BY <2>1 DEF Live
<1>4. CASE FireStep(f)
  <2>1. CASE Start(f)
    BY <2>1 DEF Start
  <2>2. CASE PayloadReturns(f) \/ PayloadRaises(f) \/ NoticeEnds(f) \/ ScheduleNext(f)
    <3>1. GoTo(f, Finally(f)) \/ GoTo(f, "notice") \/ GoTo(f, "mark")
      BY <2>2 DEF PayloadReturns, PayloadRaises, NoticeEnds, ScheduleNext
    <3> QED BY <3>1, GoToKeeps DEF Live, Finally
  <2>3. CASE MarkDone(f)
    <3>1. IdOf(f) \in Ids /\ tasks' = [tasks EXCEPT ![IdOf(f)].done = TRUE]
      BY <2>3 DEF MarkDone, SetDone, TypeInv, HoldsRows
    <3>2. tasks[IdOf(f)] \in Row
      BY <3>1 DEF TypeInv, TypeOK, Ids
    <3>3. tasks' = [tasks EXCEPT ![IdOf(f)] = [tasks[IdOf(f)] EXCEPT !.done = TRUE]]
      BY <3>1
    <3>4. tasks'[IdOf(f)] = [tasks[IdOf(f)] EXCEPT !.done = TRUE]
      BY <3>1, <3>3, ReplaceRow DEF TypeInv, TypeOK
    <3> QED BY <3>2, <3>4 DEF Row
  <2>4. CASE MarkDoneRaises(f)
    BY <1>1, <2>4, CountersGrow DEF MarkDoneRaises, Fault, procVars
  <2> QED BY <1>4, <2>1, <2>2, <2>3, <2>4 DEF FireStep
<1>5. CASE CancelFiring(f)
  BY <1>1, <1>5 DEF CancelFiring, Paid, procVars
<1>6. CASE ProcStep
  <2>1. CASE Crash
    BY <1>1, <2>1, CountersGrow DEF Crash
  <2>2. CASE ~Crash
    BY <1>6, <2>2 DEF ProcStep, Close, CancelLoop, CancelReady, Exit, Restart, Live
  <2> QED BY <2>1, <2>2
<1> QED BY <1>2, <1>3, <1>4, <1>5, <1>6 DEF Next, Fire

LEMMA PaidForStep ==
  ASSUME TypeInv, Calm, Once, PaidFor, [PromptNext]_vars
  PROVE  PaidFor'
<1>0. [Next]_vars
  BY DEF PromptNext
<1>1. RowsKept /\ NewRow /\ FiringsKept
  BY <1>0, StepsWriteTable, StepKeepsRows, StepKeepsFirings
<1>2. /\ stops \in Nat /\ faults \in Nat /\ stops' \in Nat /\ faults' \in Nat
      /\ stops <= stops' /\ faults <= faults'
      /\ Paid \in Nat /\ Paid' \in Nat /\ Paid <= Paid' /\ Paid <= stops + faults
  BY <1>0, CountersGrow
<1>3. /\ \A i \in Ids : tasks[i].fires \in Nat
      /\ \A k \in DOMAIN due : due[k].id \in Ids
      /\ \A k \in DOMAIN ready : ready[k].id \in Ids
      /\ \A f \in Firers : Live(f) => IdOf(f) \in Ids
  BY RowType DEF TypeInv, HoldsRows
<1>4. CASE \E f \in Firers : Start(f)
  <2>1. PICK f \in Firers : Start(f)
    BY <1>4
  <2>2. PICK i \in Ids : /\ i = Head(ready).id /\ 1 \in DOMAIN ready /\ ready[1].id = i
                         /\ ready' = Tail(ready) /\ ready # <<>>
    <3>1. ready # <<>> /\ ready \in Seq(Snapshot) /\ ready' = Tail(ready)
      BY <2>1 DEF Start, TypeInv, TypeOK
    <3>2. 1 \in DOMAIN ready /\ ready[1] = Head(ready)
      BY <3>1
    <3> QED BY <1>3, <3>1, <3>2
  <2>3. UNCHANGED <<proc, loopPc, due, stops, faults>>
    BY <2>1 DEF Start, procVars, loopVars
  <2>4. Ids' = Ids /\ \A j \in Ids : tasks'[j].fires = tasks[j].fires
                                       \/ (j = i /\ tasks'[j].fires = tasks[j].fires + 1)
    <3>1. Len(tasks') = Len(tasks)
      BY <2>1 DEF Start, TypeInv, TypeOK
    <3> QED BY <1>1, <2>2, <3>1 DEF RowsKept, Ids
  <2>5. due = <<>> /\ loopPc # "query"
    BY <2>2 DEF Calm, Quiet
  <2>6. Paid' = Paid
    BY <2>3 DEF Paid
  <2>7. tasks[i].fires <= Paid
    BY <2>2 DEF PaidFor
  <2>8. /\ InHand(i)' /\ IdOf(f)' = i
        /\ \A g \in Firers \ {f} : Live(g)' = Live(g) /\ IdOf(g)' = IdOf(g)
    BY <2>1, <2>2 DEF Start, Live, IdOf, InHand, TypeInv, TypeOK
  <2>9. \A k \in DOMAIN ready' : k + 1 \in DOMAIN ready /\ ready'[k] = ready[k + 1] /\ k \in Nat \ {0}
    BY <2>2 DEF TypeInv, TypeOK
  <2>10. RefiresPaidFor'
    BY <1>2, <1>3, <2>3, <2>4, <2>7 DEF PaidFor, RefiresPaidFor
  <2>11. \A g \in Firers : Live(g)' => tasks'[IdOf(g)'].fires <= 1 + Paid
    <3>1. \A g \in Firers \ {f} : Live(g) => IdOf(g) # i
      BY <2>2 DEF Once, InHand
    <3>2. tasks'[i].fires <= 1 + Paid
      BY <1>2, <1>3, <2>4, <2>7
    <3>3. ASSUME NEW g \in Firers \ {f}, Live(g)' PROVE tasks'[IdOf(g)'].fires <= 1 + Paid
      BY <1>3, <2>4, <2>8, <3>1, <3>3 DEF PaidFor
    <3> QED BY <2>8, <3>2, <3>3
  <2>12. \A k \in DOMAIN ready' : tasks'[ready'[k].id].fires <= Paid
    <3>1. ASSUME NEW k \in DOMAIN ready' PROVE tasks'[ready'[k].id].fires <= Paid
      <4>1. k + 1 # 1 /\ k + 1 \in DOMAIN ready /\ ready'[k] = ready[k + 1]
        BY <2>9
      <4>2. ready[k + 1].id # i
        BY <2>2, <4>1 DEF Once
      <4> QED BY <1>3, <2>4, <4>1, <4>2 DEF PaidFor
    <3> QED BY <3>1
  <2>13. ASSUME NEW j \in Ids, ~tasks'[j].done, ~InHand(j)' PROVE tasks'[j].fires <= stops + faults
    <3>1. j # i
      BY <2>8, <2>13
    <3>2. ~tasks[j].done
      BY <1>1, <2>13 DEF RowsKept
    <3>3. ~InHand(j)
      <4>1. ~Live(f)
        BY <2>1 DEF Start
      <4> QED BY <2>8, <2>13, <4>1 DEF InHand
    <3> QED BY <2>4, <3>1, <3>2, <3>3 DEF PaidFor
  <2> QED BY <2>3, <2>4, <2>5, <2>6, <2>10, <2>11, <2>12, <2>13 DEF PaidFor
<1>5. CASE ~ \E f \in Firers : Start(f)
  <2>1. /\ Ids \subseteq Ids'
        /\ \A j \in Ids : tasks'[j].fires = tasks[j].fires
        /\ \A j \in Ids' \ Ids : tasks'[j].fires = 0
    BY <1>1, <1>5 DEF RowsKept, NewRow
  <2>2. RefiresPaidFor'
    BY <1>2, <1>3, <2>1 DEF PaidFor, RefiresPaidFor
  <2>3. \A f \in Firers : Live(f)' => Live(f) /\ IdOf(f)' = IdOf(f)
    BY <1>1, <1>5 DEF FiringsKept, Live, IdOf
  <2>4. \A f \in Firers : Live(f)' => tasks'[IdOf(f)'].fires <= 1 + Paid'
    BY <1>2, <1>3, <2>1, <2>3 DEF PaidFor
  <2>5. \A k \in DOMAIN due' : tasks'[due'[k].id].fires <= Paid'
    <3>1. ASSUME NEW k \in DOMAIN due', NEW j \in DOMAIN due, due'[k] = due[j]
          PROVE  tasks'[due'[k].id].fires <= Paid'
      BY <1>2, <1>3, <2>1, <3>1 DEF PaidFor
    <3>2. ASSUME NEW k \in DOMAIN due', TakesUp(due'[k]), ~ \E j \in DOMAIN due : due'[k] = due[j]
          PROVE  tasks'[due'[k].id].fires <= Paid'
      <4>1. loopPc = "query"
        <5>1. due' \notin {due, <<>>}
          BY <3>2
        <5>2. PollQuery
          BY <5>1, StepsOfHands DEF HandsStill, PollError, Dispatch, Sleep, CancelLoop, CancelReady, Crash,
             FireStep, Start, PayloadReturns, PayloadRaises, NoticeEnds, ScheduleNext, MarkDone,
             MarkDoneRaises, CancelFiring, loopVars
        <5> QED BY <5>2 DEF PollQuery
      <4> QED BY <1>2, <1>3, <2>1, <3>2, <4>1 DEF PaidFor, TakesUp, IsDue
    <3> QED BY <1>0, <3>1, <3>2, StepKeepsQueues
  <2>6. \A k \in DOMAIN ready' : tasks'[ready'[k].id].fires <= Paid'
    <3>1. ASSUME NEW k \in DOMAIN ready', NEW j \in DOMAIN ready, ready'[k] = ready[j]
          PROVE  tasks'[ready'[k].id].fires <= Paid'
      BY <1>2, <1>3, <2>1, <3>1 DEF PaidFor
    <3>2. ASSUME NEW k \in DOMAIN ready', NEW j \in DOMAIN due, ready'[k] = due[j]
          PROVE  tasks'[ready'[k].id].fires <= Paid'
      BY <1>2, <1>3, <2>1, <3>2 DEF PaidFor
    <3> QED BY <1>0, <3>1, <3>2, StepKeepsQueues
  <2>7. ASSUME NEW i \in Ids, ~tasks'[i].done, ~InHand(i)' PROVE tasks'[i].fires <= stops' + faults'
    <3>1. ~tasks[i].done
      BY <1>1, <2>7 DEF RowsKept
    <3>2. CASE ~InHand(i)
      BY <1>2, <1>3, <2>1, <3>1, <3>2 DEF PaidFor
    <3>3. CASE InHand(i)
      <4>1. PICK f \in Firers : Live(f) /\ IdOf(f) = i
        BY <3>3 DEF InHand
      <4>2. ~Live(f)'
        BY <2>3, <2>7, <4>1 DEF InHand
      <4>3. 1 + Paid <= stops' + faults'
        BY <1>0, <2>7, <4>1, <4>2, EndsArePaid
      <4>4. tasks[i].fires <= 1 + Paid
        BY <4>1 DEF PaidFor
      <4> QED BY <1>2, <1>3, <2>1, <4>3, <4>4
    <3> QED BY <3>2, <3>3
  <2>8. \A i \in Ids' : ~tasks'[i].done /\ ~InHand(i)' => tasks'[i].fires <= stops' + faults'
    BY <1>2, <2>1, <2>7
  <2>9. ASSUME loopPc' = "query", NEW i \in Ids', ~tasks'[i].done PROVE tasks'[i].fires <= Paid'
    <3>1. CASE i \notin Ids
      BY <1>2, <2>1, <2>9, <3>1
    <3>2. CASE i \in Ids /\ loopPc = "query"
      <4>1. ~tasks[i].done
        BY <1>1, <2>9, <3>2 DEF RowsKept
      <4> QED BY <1>2, <1>3, <2>1, <3>2, <4>1 DEF PaidFor
    <3>3. CASE i \in Ids /\ loopPc # "query"
      <4>1. LoopCheck
        BY <2>9, <3>3 DEF PromptNext, Next, UserStep, Create, Cancel, Reschedule, LoopStep, InitDb,
           InitDbRaises, PollQuery, PollError, Dispatch, LoopWake, Sleep, Fire, FireStep, Start, PayloadReturns, PayloadRaises,
           NoticeEnds, ScheduleNext, MarkDone, MarkDoneRaises, CancelFiring, ProcStep, Close,
           CancelLoop, CancelReady, Exit, Crash, Restart, Tick, vars, loopVars
      <4>2. proc = "up" /\ Quiet /\ ~tasks[i].done
        BY <1>1, <2>9, <3>3, <4>1 DEF LoopCheck, IsRunning, Calm, RowsKept
      <4>3. tasks[i].fires <= stops + faults
        BY <3>3, <4>2 DEF PaidFor, Quiet, InHand
      <4>4. Paid = stops + faults
        BY <4>2 DEF Paid
      <4> QED BY <1>2, <1>3, <2>1, <3>3, <4>3, <4>4
    <3> QED BY <3>1, <3>2, <3>3
  <2> QED BY <2>2, <2>4, <2>5, <2>6, <2>8, <2>9 DEF PaidFor
<1> QED BY <1>4, <1>5

(* A row from which its series may still go on: it waits or is in flight,  *)
(* and has not inserted its successor.  As long as nothing stops or fails, *)
(* a series has one, because a firing that inserts a row ceases to be one. *)
Source(i) == /\ ~tasks[i].done \/ InFlight(i)
             /\ ~ \E f \in Firers : firing[f].pc = "mark" /\ IdOf(f) = i

OneSource ==
  stops + faults = 0 => \A i, j \in Ids : SameSeries(i, j) /\ Source(i) /\ Source(j) => i = j

(* Without a stop or a fault, a firing at its last await marks its row     *)
(* done when it leaves it.                                                 *)
LEMMA MarkStays ==
  ASSUME TypeInv, Calm, Once, [PromptNext]_vars, stops' + faults' = 0,
         NEW f \in Firers, firing[f].pc = "mark", NEW i \in Ids, i = IdOf(f), Source(i)'
  PROVE  FALSE
<1>1. [Next]_vars /\ Live(f)
  BY DEF PromptNext, Live
<1>2. /\ stops = 0 /\ faults = 0 /\ proc = "up" /\ Paid \in Nat
  BY <1>1, CountersGrow DEF Calm
<1>3. CASE Live(f)'
  <2>1. firing'[f].pc # "mark" \/ firing'[f].task # firing[f].task
    BY <1>3 DEF Source, IdOf
  <2>2. CASE UserStep \/ LoopStep \/ ProcStep \/ Tick \/ UNCHANGED vars
    <3>1. firing' = firing \/ \A g \in Firers : ~Live(g)'
      BY <2>2 DEF UserStep, Create, Cancel, Reschedule, LoopStep, InitDb, InitDbRaises,
                  LoopCheck, PollQuery, PollError, Dispatch, LoopWake, Tick, vars, ProcStep, Close, CancelLoop, CancelReady, Exit, Crash,
                  Restart, Live, Idle
    <3> QED BY <1>3, <2>1, <3>1
  <2>3. ASSUME NEW g \in Firers, FireStep(g) \/ CancelFiring(g), g # f PROVE FALSE
    <3>1. firing'[f] = firing[f]
      BY <2>3 DEF TypeInv, TypeOK, FireStep, Start, PayloadReturns, PayloadRaises, NoticeEnds,
                  ScheduleNext, MarkDone, MarkDoneRaises, CancelFiring, GoTo, Finish
    <3> QED BY <2>1, <3>1
  <2>4. CASE FireStep(f) \/ CancelFiring(f)
    <3>1. Finish(f)
      BY <2>4 DEF FireStep, Start, Live, PayloadReturns, PayloadRaises, NoticeEnds, ScheduleNext, MarkDone,
                  MarkDoneRaises, CancelFiring
    <3> QED BY <1>3, <3>1, EndsType
  <2> QED BY <1>1, <2>2, <2>3, <2>4 DEF Next, Fire
<1>4. CASE ~Live(f)'
  <2>1. tasks'[i].done
    BY <1>1, <1>2, <1>4, EndsArePaid
  <2>2. ~InFlight(i)'
    <3>1. InHand(i) /\ due = <<>> /\ \A k \in DOMAIN ready : ready[k].id # i
      BY <1>1 DEF Calm, Once, InHand
    <3>2. \A k \in DOMAIN ready' : ready'[k].id # i
      BY <1>1, <3>1, StepKeepsQueues
    <3>3. \A g \in Firers : Live(g)' => IdOf(g)' # i
      <4>1. FiringsKept
        BY <1>1, StepKeepsFirings
      <4>2. \A g \in Firers : Live(g) /\ IdOf(g) = i => g = f
        BY <1>1 DEF Once
      <4> QED BY <1>4, <3>1, <4>1, <4>2 DEF FiringsKept, Live, IdOf
    <3>4. \A k \in DOMAIN due' : due'[k].id # i
      <4>1. loopPc # "query"
        BY <1>1 DEF Calm, Quiet
      <4>2. ~PollQuery
        BY <4>1 DEF PollQuery
      <4>3. due' \in {due, <<>>}
        BY <4>2, StepsOfHands DEF HandsStill, PollError, Dispatch, Sleep, CancelLoop, CancelReady, Crash,
             FireStep, Start, PayloadReturns, PayloadRaises, NoticeEnds, ScheduleNext, MarkDone,
             MarkDoneRaises, CancelFiring, loopVars
      <4> QED BY <3>1, <4>3
    <3> QED BY <3>2, <3>3, <3>4 DEF InFlight, Live, IdOf
  <2> QED BY <2>1, <2>2 DEF Source
<1> QED BY <1>3, <1>4

LEMMA SourcesWere ==
  ASSUME TypeInv, Calm, Once, [PromptNext]_vars, stops' + faults' = 0, NEW i \in Ids, Source(i)'
  PROVE  Source(i)
<1>1. RowsKept
  BY StepsWriteTable, StepKeepsRows DEF PromptNext
<1>2. ~tasks[i].done \/ InFlight(i)
  BY <1>1, TakenUpIsNotDone DEF PromptNext, Source, RowsKept
<1>3. \A f \in Firers : firing[f].pc = "mark" /\ IdOf(f) = i => FALSE
  BY MarkStays
<1> QED BY <1>2, <1>3 DEF Source

LEMMA GrowsByInsert ==
  ASSUME TypeInv, [Next]_vars, Ids' # Ids
  PROVE  Create \/ \E f \in Firers : (ScheduleNext(f) \/ CancelFiring(f)) /\ InsertNext(f)
<1>0. tasks \in Seq(Row)
  BY DEF TypeInv, TypeOK
<1>1. CASE UserStep
  <2>1. ASSUME NEW i \in Ids, Cancel(i) PROVE Ids' = Ids
    <3>1. tasks' = [tasks EXCEPT ![i] = [tasks[i] EXCEPT !.done = TRUE]]
      BY <2>1 DEF Cancel
    <3> QED BY <1>0, <3>1, ReplaceRow
  <2>2. ASSUME NEW i \in Ids, Reschedule(i) PROVE Ids' = Ids
    <3>1. PICK t \in now..MaxTime :
            tasks' = [tasks EXCEPT ![i] = [tasks[i] EXCEPT !.fireAt = t, !.attempt = @ + 1]]
      BY <2>2 DEF Reschedule
    <3> QED BY <1>0, <3>1, ReplaceRow
  <2> QED BY <1>1, <2>1, <2>2 DEF UserStep
<1>2. CASE LoopStep \/ ProcStep \/ Tick \/ UNCHANGED vars
  BY <1>2 DEF LoopStep, InitDb, InitDbRaises, LoopCheck, PollQuery, PollError, Dispatch, LoopWake, Tick, vars, ProcStep, Close,
              CancelLoop, CancelReady, Exit, Crash, Restart, Ids
<1>3. ASSUME NEW f \in Firers, FireStep(f) \/ CancelFiring(f)
      PROVE  (ScheduleNext(f) \/ CancelFiring(f)) /\ InsertNext(f)
  BY <1>0, <1>3 DEF FireStep, Start, PayloadReturns, PayloadRaises, NoticeEnds, ScheduleNext, IgnoreRule,
                    InsertRaises, Lose, MarkDone, SetDone, MarkDoneRaises, CancelFiring, Ids
<1> QED BY <1>1, <1>2, <1>3 DEF Next, Fire

LEMMA OneSourceStep ==
  ASSUME TypeInv, SeriesNamed, Calm, Once, OneSource, [PromptNext]_vars
  PROVE  OneSource'
<1> SUFFICES ASSUME stops' + faults' = 0, NEW i \in Ids', NEW j \in Ids',
                    tasks'[i].series = tasks'[j].series, Source(i)', Source(j)'
             PROVE  i = j
  BY DEF OneSource, SameSeries
<1>1. RowsKept /\ NewRow /\ [Next]_vars
  BY StepsWriteTable, StepKeepsRows DEF PromptNext
<1>2. stops = 0 /\ faults = 0 /\ proc = "up"
  BY <1>1, CountersGrow DEF Calm
<1>3. ASSUME NEW k \in Ids, NEW n \in Ids' \ Ids, tasks'[k].series = tasks'[n].series, Source(k)'
      PROVE  FALSE
  <2>1. tasks'[k].series = tasks[k].series /\ tasks[k].series \in Ids
    BY <1>1 DEF RowsKept, SeriesNamed
  <2>2. ~Create
    <3>1. tasks \in Seq(Row) /\ n = Len(tasks) + 1 /\ tasks'[n].series \in Ids
      BY <1>1, <1>3, <2>1 DEF NewRow, TypeInv, TypeOK
    <3>2. ASSUME NEW r, tasks' = Append(tasks, r) PROVE tasks'[n] = r
      BY <3>1, <3>2
    <3>3. Create => tasks'[n].series = n
      BY <3>1, <3>2 DEF Create
    <3> QED BY <3>1, <3>3 DEF Ids
  <2>3. PICK f \in Firers : ScheduleNext(f) /\ InsertNext(f)
    BY <1>1, <1>2, <1>3, <2>2, GrowsByInsert DEF CancelFiring
  <2>4. Live(f) /\ firing[f].pc = "next" /\ GoTo(f, "mark")
    BY <2>3 DEF ScheduleNext, Live
  <2>5. PICK h \in Ids : h = IdOf(f)
    BY <2>4 DEF TypeInv, HoldsRows
  <2>6. tasks'[n].series = tasks[h].series
    <3>1. PICK t \in Nat : tasks' = Append(tasks, Successor(h, t))
      BY <2>3, <2>4, <2>5, InsertNextAppends
    <3>2. tasks[h] \in Row /\ n = Len(tasks) + 1
      BY <1>1, <1>3, <2>5 DEF TypeInv, TypeOK, Ids, NewRow
    <3>3. Successor(h, t).series = tasks[h].series
      BY <3>2 DEF Successor, Row
    <3> QED BY <3>1, <3>2, <3>3 DEF TypeInv, TypeOK
  <2>7. Source(h)
    <3>1. InFlight(h)
      BY <2>4, <2>5 DEF InFlight
    <3>2. \A g \in Firers : firing[g].pc = "mark" /\ IdOf(g) = h => FALSE
      BY <2>4, <2>5 DEF Once, Live
    <3> QED BY <3>1, <3>2 DEF Source
  <2>8. k = h
    <3>1. Source(k)
      BY <1>3, SourcesWere
    <3>2. SameSeries(k, h)
      BY <1>3, <2>1, <2>6 DEF SameSeries
    <3> QED BY <1>2, <2>7, <3>1, <3>2 DEF OneSource
  <2>9. firing'[f].pc = "mark" /\ IdOf(f)' = h
    BY <2>4, <2>5, GoToKeeps
  <2> QED BY <1>3, <2>8, <2>9 DEF Source
<1>4. CASE i \in Ids /\ j \in Ids
  <2>1. Source(i) /\ Source(j)
    BY <1>4, SourcesWere
  <2>2. SameSeries(i, j)
    BY <1>1, <1>4 DEF RowsKept, SameSeries
  <2> QED BY <1>2, <1>4, <2>1, <2>2 DEF OneSource
<1>5. CASE i \notin Ids /\ j \notin Ids
  BY <1>1, <1>5 DEF NewRow
<1> QED BY <1>3, <1>4, <1>5

PromptInv == TypeInv /\ SeriesNamed /\ Calm /\ Once /\ PaidFor /\ OneSource

LEMMA PromptInvariance == PromptSpec => []PromptInv
<1>1. PromptSpec => Spec
  <2>1. [Next /\ (now' # now => Quiet)]_vars => [Next]_vars
    OBVIOUS
  <2> QED BY <2>1, PTL DEF PromptSpec, Spec
<1>2. Init => PromptInv
  <2>1. Init => TypeInv /\ Ids = {} /\ Quiet
    BY TypeInit DEF Init, Ids, Quiet, Live, Idle
  <2>2. Init => Calm
    BY <2>1 DEF Init, Calm
  <2>3. Init => Once /\ PaidFor /\ OneSource /\ SeriesNamed
    BY <2>1 DEF Init, Once, PaidFor, RefiresPaidFor, OneSource, SeriesNamed, Quiet, InHand
  <2> QED BY <2>1, <2>2, <2>3 DEF PromptInv
<1>3. PromptInv /\ TypeInv' /\ SeriesNamed' /\ [Next /\ (now' # now => Quiet)]_vars => PromptInv'
  BY CalmStep, OnceStep, PaidForStep, OneSourceStep DEF PromptInv, PromptNext
<1>4. Spec => []TypeInv
  BY TypeCorrect, PTL DEF TypeInv
<1>5. SeriesInv => SeriesNamed
  BY DEF SeriesInv
<1> QED BY <1>1, <1>2, <1>3, <1>4, <1>5, SeriesInvariance, PTL DEF PromptSpec

(* Where firings end before the next poll, a task fires more than once     *)
(* only for a stop of the process or a failed table access in between,     *)
(* whatever was cancelled, rescheduled or cut off.                         *)
THEOREM RefiringsArePaidFor == PromptSpec => []RefiresPaidFor
BY PromptInvariance, PTL DEF PromptInv, PaidFor

(* And there, as long as nothing stops or fails, a series books one        *)
(* occurrence at a time.                                                   *)
THEOREM SeriesDoNotFork == PromptSpec => []OneOccurrenceAhead
<1>1. PromptInv /\ GridInv => OneOccurrenceAhead
  <2> SUFFICES ASSUME PromptInv, GridInv, NEW i \in Ids, NEW j \in Ids, stops + faults = 0,
                      SameSeries(i, j), Unrescheduled(i), ~tasks[i].done, ~tasks[j].done,
                      tasks[i].fireAt > now, tasks[j].fireAt > now
               PROVE  i = j
    BY DEF OneOccurrenceAhead
  <2>1. ASSUME NEW k \in Ids, SameSeries(i, k), ~tasks[k].done, tasks[k].fireAt > now
        PROVE  Source(k)
    <3>1. tasks[k].attempt = 0
      BY <2>1 DEF Unrescheduled
    <3>2. ASSUME NEW f \in Firers, Live(f), IdOf(f) = k
          PROVE  FALSE
      <4>1. firing[f].task \in Held /\ firing[f].task.id = k
        BY <3>2 DEF Held, IdOf
      <4>2. tasks[k].fireAt <= now
        BY <3>1, <4>1 DEF GridInv, HeldOnTime
      <4>3. tasks[k].fireAt \in Nat /\ now \in Nat
        BY RowType DEF PromptInv, TypeInv, TypeOK
      <4> QED BY <2>1, <4>2, <4>3
    <3> QED BY <2>1, <3>2 DEF Source, Live
  <2>2. Source(i) /\ Source(j)
    BY <2>1 DEF SameSeries
  <2> QED BY <2>2 DEF PromptInv, OneSource
<1>2. PromptSpec => Spec
  <2>1. [Next /\ (now' # now => Quiet)]_vars => [Next]_vars
    OBVIOUS
  <2> QED BY <2>1, PTL DEF PromptSpec, Spec
<1> QED BY <1>1, <1>2, PromptInvariance, GridInvariance, PTL
=============================================================================
