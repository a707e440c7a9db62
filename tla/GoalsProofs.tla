----------------------------- MODULE GoalsProofs -----------------------------
(***************************************************************************)
(* That goals.py implements the board of atomic calls, for any callers,    *)
(* epics, stories and calls.  The argument is that ids identify rows: an   *)
(* id a call found stays the id of its own key's row, and of no other, so  *)
(* the UPDATE by id that comes later writes the row the call was asked to  *)
(* write; and an INSERT of a key that was taken meanwhile changes nothing. *)
(***************************************************************************)
EXTENDS Goals, TLAPS

(* Ids are unique in a table, and no greater than the table's sequence.    *)
GoodIds(table, last) ==
  /\ \A k \in DOMAIN table : table[k].id <= last
  /\ \A k, j \in DOMAIN table : table[k].id = table[j].id /\ table[k].id # 0 => k = j

(* The id a call found is that of its key.                                 *)
FoundHolds ==
  \A c \in Callers : calls[c].pc = "write" /\ calls[c].found # 0 =>
    /\ Req(c).op = "create_goal" => goals[Req(c).epic].id = calls[c].found
    /\ Req(c).op = "upsert_story_run" => runs[Req(c).key].id = calls[c].found

IInv == /\ TypeOK
        /\ GoodIds(goals, seq["goals"])
        /\ GoodIds(runs, seq["runs"])
        /\ FoundHolds
        /\ ToldIdsHold

-----------------------------------------------------------------------------
(* The two statements on a table, whichever it is.                         *)

Sets(Cols) == UNION {[S -> Values] : S \in SUBSET Cols}

LEMMA RowShape ==
  ASSUME NEW Cols, NEW row \in Rows(Cols)
  PROVE  /\ row = Absent \/ (row.cols \in [Cols -> Values] /\ row = [id |-> row.id, cols |-> row.cols])
         /\ row.id \in Nat
         /\ row = Absent <=> row.id = 0
BY DEF Rows, Absent

LEMMA OverlayType ==
  ASSUME NEW Cols, NEW cols \in [Cols -> Values], NEW sets \in Sets(Cols)
  PROVE  Overlay(cols, sets) \in [Cols -> Values]
BY DEF Overlay, Sets

(* An UPDATE by id keeps every row's id and the types of its columns.      *)
LEMMA UpdateKeeps ==
  ASSUME NEW K, NEW Cols, NEW table \in [K -> Rows(Cols)],
         NEW id \in Nat \ {0}, NEW sets \in Sets(Cols)
  PROVE  /\ Updated(table, id, sets) \in [K -> Rows(Cols)]
         /\ \A k \in K : Updated(table, id, sets)[k].id = table[k].id
<1>. DEFINE new == Updated(table, id, sets)
<1>1. ASSUME NEW k \in K
      PROVE  new[k] \in Rows(Cols) /\ new[k].id = table[k].id
  <2>1. CASE table[k].id = id
    <3>1. table[k].cols \in [Cols -> Values]
      BY <2>1, RowShape
    <3>2. Overlay(table[k].cols, sets) \in [Cols -> Values]
      BY <3>1, OverlayType
    <3>3. new[k] = [id |-> id, cols |-> Overlay(table[k].cols, sets)]
      BY <2>1 DEF Updated
    <3>. QED
      BY <2>1, <3>2, <3>3 DEF Rows
  <2>2. CASE table[k].id # id
    BY <2>2 DEF Updated
  <2>. QED
    BY <2>1, <2>2
<1>2. new = [k \in K |-> new[k]]
  BY DEF Updated
<1>. QED
  BY <1>1, <1>2

(* An INSERT of a key that is not used gives its row a fresh id.           *)
LEMMA InsertKeeps ==
  ASSUME NEW K, NEW Cols, NEW table \in [K -> Rows(Cols)], NEW last \in Nat,
         NEW k \in K, NEW cols \in [Cols -> Values],
         table[k] = Absent, GoodIds(table, last)
  PROVE  LET new == Inserted(table, k, last + 1, cols)
         IN  /\ new \in [K -> Rows(Cols)]
             /\ GoodIds(new, last + 1)
             /\ \A j \in K \ {k} : new[j] = table[j]
             /\ \A j \in K : table[j].id # last + 1
             /\ new[k].id = last + 1
<1>1. [id |-> last + 1, cols |-> cols] \in Rows(Cols)
  BY DEF Rows
<1>2. \A j \in K : table[j].id \in Nat /\ table[j].id <= last
  BY RowShape DEF GoodIds
<1>. QED
  BY <1>1, <1>2 DEF GoodIds, Inserted

LEMMA SameIdsAreGood ==
  ASSUME NEW K, NEW table, NEW new, NEW last, DOMAIN table = K, DOMAIN new = K,
         \A k \in K : new[k].id = table[k].id, GoodIds(table, last)
  PROVE  GoodIds(new, last)
BY DEF GoodIds

(* Both are writes the board knows.                                        *)
LEMMA UpdatePuts ==
  ASSUME NEW K, NEW Cols, NEW table \in [K -> Rows(Cols)], NEW last, GoodIds(table, last),
         NEW k \in K, NEW sets, NEW d, table[k].id # 0
  PROVE  Board!Puts(table, Updated(table, table[k].id, sets), k, sets, d)
<1>. DEFINE new == Updated(table, table[k].id, sets)
<1>1. \A j \in K \ {k} : new[j] = table[j]
  BY DEF Updated, GoodIds
<1>2. new[k] = [id |-> table[k].id, cols |-> Overlay(table[k].cols, sets)]
  BY DEF Updated
<1>3. new = [table EXCEPT ![k] = new[k]]
  BY <1>1 DEF Updated
<1>4. table[k] # Absent
  BY DEF Absent
<1>5. new[k] = [id |-> new[k].id, cols |-> Overlay(table[k].cols, sets)] /\ new[k].id = table[k].id
  BY <1>2
<1>. QED
  BY <1>3, <1>4, <1>5 DEF Board!Puts, Board!Absent, Absent, Board!Overlay, Overlay

LEMMA InsertPuts ==
  ASSUME NEW K, NEW Cols, NEW table \in [K -> Rows(Cols)], NEW last \in Nat,
         NEW k \in K, NEW sets \in Sets(Cols), NEW d \in [Cols -> Values],
         table[k] = Absent, GoodIds(table, last)
  PROVE  Board!Puts(table, Inserted(table, k, last + 1, Overlay(d, sets)), k, sets, d)
<1>. DEFINE new == Inserted(table, k, last + 1, Overlay(d, sets))
<1>1. Overlay(d, sets) \in [Cols -> Values]
  BY OverlayType
<1>2. \A j \in K : table[j].id # last + 1
  <2>1. \A j \in K : table[j].id \in Nat /\ table[j].id <= last
    BY RowShape DEF GoodIds
  <2>. QED
    BY <2>1
<1>3. new[k] = [id |-> last + 1, cols |-> Overlay(d, sets)] /\ DOMAIN table = K
  BY DEF Inserted
<1>4. new = [table EXCEPT ![k] = new[k]]
  BY <1>3 DEF Inserted
<1>. QED
  BY <1>2, <1>3, <1>4 DEF Board!Puts, Board!Absent, Absent, Board!Overlay, Overlay

(* A goal's row takes all its columns from the call.                       *)
LEMMA OverlayItself ==
  ASSUME NEW Cols, NEW sets \in [Cols -> Values]
  PROVE  Overlay(sets, sets) = sets /\ sets \in Sets(Cols)
BY DEF Overlay, Sets

-----------------------------------------------------------------------------
(* The invariant.                                                          *)

LEMMA InitIInv == Init => IInv
BY DEF Init, IInv, TypeOK, Rows, Calls, NoCall, GoodIds, Absent, FoundHolds, ToldIdsHold

(* What the calls under way carry.                                         *)
LEMMA RequestShape ==
  ASSUME NEW r \in Requests
  PROVE  /\ r.op = "create_goal" => r.epic \in Epics /\ r.sets \in [GoalColumns -> Values]
         /\ r.op = "set_goal_state" => r.goal \in Nat \ {0} /\ r.sets \in Sets(GoalColumns)
         /\ r.op = "upsert_story_run" => r.key \in RunKeys /\ r.sets \in Sets(StoryColumns)
         /\ r # Nothing
<1>1. r \in CreateGoal \cup SetGoalState \cup UpsertStoryRun
  BY GoalRecordsAssumption
<1>2. CASE r \in CreateGoal
  BY <1>2 DEF CreateGoal, Nothing
<1>3. CASE r \in SetGoalState
  <2>1. r.op = "set_goal_state" /\ r.goal \in Nat \ {0} /\ r.sets \in [{"state"} -> Values]
    BY <1>3, GoalRecordsAssumption DEF SetGoalState
  <2>2. {"state"} \in SUBSET GoalColumns
    BY DEF GoalColumns
  <2>. QED
    BY <2>1, <2>2 DEF Sets, Nothing
<1>4. CASE r \in UpsertStoryRun
  BY <1>4 DEF UpsertStoryRun, Sets, Nothing
<1>. QED
  BY <1>1, <1>2, <1>3, <1>4

LEMMA CallShape ==
  ASSUME TypeOK, NEW c \in Callers, calls[c].pc \in {"look", "write"}
  PROVE  /\ Req(c) \in Requests
         /\ calls[c].found \in Nat
         /\ calls[c] = [pc |-> calls[c].pc, req |-> Req(c), found |-> calls[c].found]
BY DEF TypeOK, Calls, NoCall, Req

LEMMA EndsKeeps ==
  ASSUME TypeOK, NEW c \in Callers, NEW pc \in {"idle", "IntegrityError", "OperationalError"},
         Ends(c, pc)
  PROVE  /\ calls' \in [Callers -> Calls]
         /\ \A b \in Callers \ {c} : calls'[b] = calls[b]
         /\ calls'[c].pc = pc /\ calls'[c].req = Nothing
<1>1. [pc |-> pc, req |-> Nothing, found |-> 0] \in Calls
  BY DEF Calls, NoCall
<1>. QED
  BY <1>1 DEF TypeOK, Ends

(* Rows that keep their ids keep what calls found and were told.           *)
LEMMA IdsKeep ==
  ASSUME IInv, NEW c \in Callers, Ends(c, calls'[c].pc), calls'[c].pc # "write",
         calls' \in [Callers -> Calls],
         \A e \in Epics : goals[e].id # 0 => goals'[e].id = goals[e].id,
         \A k \in RunKeys : runs[k].id # 0 => runs'[k].id = runs[k].id
  PROVE  FoundHolds'
<1>. SUFFICES ASSUME NEW b \in Callers, calls'[b].pc = "write", calls'[b].found # 0
              PROVE  /\ Req(b)'.op = "create_goal" => goals'[Req(b)'.epic].id = calls'[b].found
                     /\ Req(b)'.op = "upsert_story_run" => runs'[Req(b)'.key].id = calls'[b].found
  BY DEF FoundHolds
<1>1. b # c /\ calls'[b] = calls[b]
  BY DEF Ends, IInv, TypeOK
<1>2. Req(b)' = Req(b) /\ Req(b) \in Requests
  BY <1>1, CallShape DEF Req, IInv
<1>. QED
  BY <1>1, <1>2, RequestShape DEF IInv, FoundHolds

(* A statement that changes no row.                                        *)
LEMMA QuietKeeps ==
  ASSUME IInv, calls' \in [Callers -> Calls], UNCHANGED <<goals, runs, seq, told>>, FoundHolds'
  PROVE  IInv'
BY DEF IInv, TypeOK, GoodIds, ToldIdsHold

LEMMA CallKeeps == ASSUME IInv, NEW c \in Callers, Call(c) PROVE IInv'
<1>1. PICK r \in Requests :
        calls' = [calls EXCEPT ![c] = [pc |-> IF r.op = "set_goal_state" THEN "write" ELSE "look",
                                       req |-> r, found |-> 0]]
  BY DEF Call
<1>2. calls' \in [Callers -> Calls]
  BY <1>1 DEF IInv, TypeOK, Calls
<1>3. FoundHolds'
  BY <1>1 DEF Call, IInv, TypeOK, FoundHolds, Req
<1>. QED
  BY <1>2, <1>3, QuietKeeps DEF Call

LEMMA LookGoalKeeps == ASSUME IInv, NEW c \in Callers, LookGoal(c) PROVE IInv'
<1>1. Req(c) \in Requests /\ Req(c).epic \in Epics
  BY CallShape, RequestShape DEF LookGoal, IInv
<1>2. goals[Req(c).epic].id \in Nat
  BY <1>1, RowShape DEF IInv, TypeOK
<1>3. calls' \in [Callers -> Calls]
  BY <1>1, <1>2 DEF LookGoal, Finds, IInv, TypeOK, Calls
<1>4. FoundHolds'
  BY <1>1 DEF LookGoal, Finds, IInv, TypeOK, FoundHolds, Req
<1>. QED
  BY <1>3, <1>4, QuietKeeps DEF LookGoal

LEMMA LookStoryRunKeeps == ASSUME IInv, NEW c \in Callers, LookStoryRun(c) PROVE IInv'
<1>1. Req(c) \in Requests /\ Req(c).key \in RunKeys
  BY CallShape, RequestShape DEF LookStoryRun, IInv
<1>2. runs[Req(c).key].id \in Nat
  BY <1>1, RowShape DEF IInv, TypeOK
<1>3. calls' \in [Callers -> Calls]
  BY <1>1, <1>2 DEF LookStoryRun, Finds, IInv, TypeOK, Calls
<1>4. FoundHolds'
  BY <1>1 DEF LookStoryRun, Finds, IInv, TypeOK, FoundHolds, Req
<1>. QED
  BY <1>3, <1>4, QuietKeeps DEF LookStoryRun

(* A call that ends without a write.                                       *)
LEMMA EndKeeps ==
  ASSUME IInv, NEW c \in Callers, NEW pc \in {"idle", "IntegrityError", "OperationalError"},
         Ends(c, pc), UNCHANGED <<goals, runs, seq, told>>
  PROVE  IInv'
<1>1. /\ calls' \in [Callers -> Calls]
      /\ calls'[c].pc = pc
  BY EndsKeeps DEF IInv
<1>2. FoundHolds'
  BY <1>1, IdsKeep
<1>. QED
  BY <1>1, <1>2, QuietKeeps

LEMMA UpdateGoalKeeps == ASSUME IInv, NEW c \in Callers, UpdateGoal(c) PROVE IInv'
<1>1. /\ Req(c) \in Requests /\ Req(c).epic \in Epics
      /\ Req(c).sets \in Sets(GoalColumns)
      /\ calls[c].found \in Nat \ {0}
      /\ goals[Req(c).epic].id = calls[c].found
  BY CallShape, RequestShape, OverlayItself DEF UpdateGoal, Writing, IInv, FoundHolds
<1>2. /\ goals' \in [Epics -> Rows(GoalColumns)]
      /\ \A e \in Epics : goals'[e].id = goals[e].id
  <2>1. goals \in [Epics -> Rows(GoalColumns)]
    BY DEF IInv, TypeOK
  <2>2. goals' = Updated(goals, calls[c].found, Req(c).sets)
    BY DEF UpdateGoal
  <2>. QED
    BY <1>1, <2>1, <2>2, UpdateKeeps
<1>3. GoodIds(goals', seq["goals"])
  BY <1>2, SameIdsAreGood DEF IInv, TypeOK
<1>4. calls' \in [Callers -> Calls] /\ calls'[c].pc = "idle" /\ Ends(c, "idle")
  BY EndsKeeps DEF UpdateGoal, Tells, IInv
<1>5. FoundHolds'
  BY <1>2, <1>4, IdsKeep DEF UpdateGoal
<1>6. told' = [told EXCEPT !["goals"] = @ \cup {<<Req(c).epic, calls[c].found>>}]
  BY DEF UpdateGoal, Tells
<1>7. told' \in [goals : SUBSET (Epics \X (Nat \ {0})), runs : SUBSET (RunKeys \X (Nat \ {0}))]
  BY <1>1, <1>6 DEF IInv, TypeOK
<1>8. ToldIdsHold'
  BY <1>1, <1>2, <1>6 DEF UpdateGoal, IInv, TypeOK, ToldIdsHold
<1>. QED
  BY <1>2, <1>3, <1>4, <1>5, <1>7, <1>8 DEF UpdateGoal, IInv, TypeOK, GoodIds

LEMMA InsertGoalKeeps == ASSUME IInv, NEW c \in Callers, InsertGoal(c) PROVE IInv'
<1>. DEFINE k == Req(c).epic
            id == seq["goals"] + 1
<1>1. /\ Req(c) \in Requests /\ k \in Epics
      /\ Req(c).sets \in [GoalColumns -> Values]
      /\ goals[k] = Absent
  BY CallShape, RequestShape DEF InsertGoal, Writing, IInv, KeyIsFree
<1>2. seq["goals"] \in Nat /\ seq' = [seq EXCEPT !["goals"] = id]
  BY DEF InsertGoal, TakesId, IInv, TypeOK
<1>3. goals' = Inserted(goals, k, id, Req(c).sets)
  BY DEF InsertGoal
<1>4. /\ goals' \in [Epics -> Rows(GoalColumns)]
      /\ GoodIds(goals', id)
      /\ \A e \in Epics \ {k} : goals'[e] = goals[e]
      /\ goals'[k].id = id
  <2>1. goals \in [Epics -> Rows(GoalColumns)] /\ GoodIds(goals, seq["goals"])
    BY DEF IInv, TypeOK
  <2>. QED
    BY <1>1, <1>2, <1>3, <2>1, InsertKeeps
<1>5. calls' \in [Callers -> Calls] /\ calls'[c].pc = "idle" /\ Ends(c, "idle")
  BY EndsKeeps DEF InsertGoal, Tells, IInv
<1>6. \A e \in Epics : goals[e].id # 0 => goals'[e].id = goals[e].id
  BY <1>1, <1>4 DEF Absent
<1>7. FoundHolds'
  BY <1>5, <1>6, IdsKeep DEF InsertGoal
<1>8. told' = [told EXCEPT !["goals"] = @ \cup {<<k, id>>}]
  BY DEF InsertGoal, Tells
<1>9. told' \in [goals : SUBSET (Epics \X (Nat \ {0})), runs : SUBSET (RunKeys \X (Nat \ {0}))]
  BY <1>1, <1>2, <1>8 DEF IInv, TypeOK
<1>10. ToldIdsHold'
  BY <1>4, <1>6, <1>8 DEF InsertGoal, IInv, TypeOK, ToldIdsHold
<1>. HIDE DEF id, k
<1>11. seq'["goals"] = id /\ seq'["runs"] = seq["runs"] /\ seq' \in [{"goals", "runs"} -> Nat]
  BY <1>2 DEF IInv, TypeOK, id
<1>. QED
  BY <1>4, <1>5, <1>7, <1>9, <1>10, <1>11 DEF InsertGoal, IInv, TypeOK

LEMMA UpdateGoalStateKeeps == ASSUME IInv, NEW c \in Callers, UpdateGoalState(c) PROVE IInv'
<1>1. Req(c).goal \in Nat \ {0} /\ Req(c).sets \in Sets(GoalColumns)
  BY CallShape, RequestShape DEF UpdateGoalState, Writing, IInv
<1>2. /\ goals' \in [Epics -> Rows(GoalColumns)]
      /\ \A e \in Epics : goals'[e].id = goals[e].id
  <2>1. goals \in [Epics -> Rows(GoalColumns)]
    BY DEF IInv, TypeOK
  <2>2. goals' = Updated(goals, Req(c).goal, Req(c).sets)
    BY DEF UpdateGoalState
  <2>. QED
    BY <1>1, <2>1, <2>2, UpdateKeeps
<1>3. GoodIds(goals', seq["goals"])
  BY <1>2, SameIdsAreGood DEF IInv, TypeOK
<1>4. calls' \in [Callers -> Calls] /\ calls'[c].pc = "idle" /\ Ends(c, "idle")
  BY EndsKeeps DEF UpdateGoalState, IInv
<1>5. FoundHolds'
  BY <1>2, <1>4, IdsKeep DEF UpdateGoalState
<1>6. ToldIdsHold'
  BY <1>2 DEF UpdateGoalState, IInv, TypeOK, ToldIdsHold
<1>. QED
  BY <1>2, <1>3, <1>4, <1>5, <1>6 DEF UpdateGoalState, IInv, TypeOK, GoodIds

LEMMA UpdateStoryRunKeeps == ASSUME IInv, NEW c \in Callers, UpdateStoryRun(c) PROVE IInv'
<1>1. /\ Req(c) \in Requests /\ Req(c).key \in RunKeys
      /\ Req(c).sets \in Sets(StoryColumns)
      /\ calls[c].found \in Nat \ {0}
      /\ runs[Req(c).key].id = calls[c].found
  BY CallShape, RequestShape DEF UpdateStoryRun, Writing, IInv, FoundHolds
<1>2. /\ runs' \in [RunKeys -> Rows(StoryColumns)]
      /\ \A k \in RunKeys : runs'[k].id = runs[k].id
  <2>1. runs \in [RunKeys -> Rows(StoryColumns)]
    BY DEF IInv, TypeOK
  <2>2. runs' = Updated(runs, calls[c].found, Req(c).sets)
    BY DEF UpdateStoryRun
  <2>. QED
    BY <1>1, <2>1, <2>2, UpdateKeeps
<1>3. GoodIds(runs', seq["runs"])
  BY <1>2, SameIdsAreGood DEF IInv, TypeOK
<1>4. calls' \in [Callers -> Calls] /\ calls'[c].pc = "idle" /\ Ends(c, "idle")
  BY EndsKeeps DEF UpdateStoryRun, Tells, IInv
<1>5. FoundHolds'
  BY <1>2, <1>4, IdsKeep DEF UpdateStoryRun
<1>6. told' = [told EXCEPT !["runs"] = @ \cup {<<Req(c).key, calls[c].found>>}]
  BY DEF UpdateStoryRun, Tells
<1>7. told' \in [goals : SUBSET (Epics \X (Nat \ {0})), runs : SUBSET (RunKeys \X (Nat \ {0}))]
  BY <1>1, <1>6 DEF IInv, TypeOK
<1>8. ToldIdsHold'
  BY <1>1, <1>2, <1>6 DEF UpdateStoryRun, IInv, TypeOK, ToldIdsHold
<1>. QED
  BY <1>2, <1>3, <1>4, <1>5, <1>7, <1>8 DEF UpdateStoryRun, IInv, TypeOK, GoodIds

LEMMA InsertStoryRunKeeps == ASSUME IInv, NEW c \in Callers, InsertStoryRun(c) PROVE IInv'
<1>. DEFINE k == Req(c).key
            id == seq["runs"] + 1
            cols == StoryColumnsOf(Req(c).sets)
<1>1. /\ Req(c) \in Requests /\ k \in RunKeys
      /\ Req(c).sets \in Sets(StoryColumns)
      /\ runs[k] = Absent
  BY CallShape, RequestShape DEF InsertStoryRun, Writing, IInv, KeyIsFree
<1>2. seq["runs"] \in Nat /\ seq' = [seq EXCEPT !["runs"] = id]
  BY DEF InsertStoryRun, TakesId, IInv, TypeOK
<1>3. runs' = Inserted(runs, k, id, cols)
  BY DEF InsertStoryRun
<1>4. cols \in [StoryColumns -> Values]
  BY <1>1, GoalRecordsAssumption, OverlayType DEF StoryColumnsOf
<1>5. /\ runs' \in [RunKeys -> Rows(StoryColumns)]
      /\ GoodIds(runs', id)
      /\ \A j \in RunKeys \ {k} : runs'[j] = runs[j]
      /\ runs'[k].id = id
  <2>1. runs \in [RunKeys -> Rows(StoryColumns)] /\ GoodIds(runs, seq["runs"])
    BY DEF IInv, TypeOK
  <2>. HIDE DEF cols, k
  <2>. QED
    BY <1>1, <1>2, <1>3, <1>4, <2>1, InsertKeeps
<1>6. calls' \in [Callers -> Calls] /\ calls'[c].pc = "idle" /\ Ends(c, "idle")
  BY EndsKeeps DEF InsertStoryRun, Tells, IInv
<1>7. \A j \in RunKeys : runs[j].id # 0 => runs'[j].id = runs[j].id
  BY <1>1, <1>5 DEF Absent
<1>8. FoundHolds'
  BY <1>6, <1>7, IdsKeep DEF InsertStoryRun
<1>9. told' = [told EXCEPT !["runs"] = @ \cup {<<k, id>>}]
  BY DEF InsertStoryRun, Tells
<1>10. told' \in [goals : SUBSET (Epics \X (Nat \ {0})), runs : SUBSET (RunKeys \X (Nat \ {0}))]
  BY <1>1, <1>2, <1>9 DEF IInv, TypeOK
<1>11. ToldIdsHold'
  BY <1>5, <1>7, <1>9 DEF InsertStoryRun, IInv, TypeOK, ToldIdsHold
<1>. HIDE DEF id, k, cols
<1>12. seq'["runs"] = id /\ seq'["goals"] = seq["goals"] /\ seq' \in [{"goals", "runs"} -> Nat]
  BY <1>2 DEF IInv, TypeOK, id
<1>. QED
  BY <1>5, <1>6, <1>8, <1>10, <1>11, <1>12 DEF InsertStoryRun, IInv, TypeOK

LEMMA StepKeeps == ASSUME IInv, [Next]_vars PROVE IInv'
<1>1. CASE UNCHANGED vars
  BY <1>1 DEF vars, IInv, TypeOK, GoodIds, FoundHolds, ToldIdsHold, Req
<1>2. ASSUME NEW c \in Callers, InsertClashes(c) \/ Locked(c) \/ Leaves(c)
      PROVE  IInv'
  BY <1>2, EndKeeps DEF InsertClashes, Locked, Leaves
<1>. QED
  BY <1>1, <1>2, CallKeeps, LookGoalKeeps, LookStoryRunKeeps, UpdateGoalKeeps, InsertGoalKeeps,
     UpdateGoalStateKeeps, UpdateStoryRunKeeps, InsertStoryRunKeeps DEF Next, Writes

-----------------------------------------------------------------------------
(* Every step is one of the board's, or a stutter of it.                   *)

BoardStep == [Board!Next]_(Board!vars)

LEMMA SameAsked ==
  ASSUME UNCHANGED <<goals, runs>>, \A c \in Callers : Req(c)' = Req(c)
  PROVE  BoardStep
BY DEF BoardStep, Board!vars

(* A call that ends has its effect, or none.                               *)
LEMMA EndIsBoardEnd ==
  ASSUME TypeOK, NEW c \in Callers, NEW pc \in {"idle", "IntegrityError", "OperationalError"},
         Ends(c, pc)
  PROVE  Board!Ends(c)
<1>1. /\ \A b \in Callers \ {c} : calls'[b] = calls[b]
      /\ calls'[c].req = Nothing
  BY EndsKeeps
<1>. QED
  BY <1>1 DEF Board!Ends, Board!Nothing, Nothing, Req

LEMMA EndMaps ==
  ASSUME TypeOK, NEW c \in Callers, NEW pc \in {"idle", "IntegrityError", "OperationalError"},
         Ends(c, pc), UNCHANGED <<goals, runs>>
  PROVE  BoardStep
<1>1. CASE Req(c) = Nothing
  <2>1. \A b \in Callers : Req(b)' = Req(b)
    BY <1>1, EndsKeeps DEF Req
  <2>. QED
    BY <2>1, SameAsked
<1>2. CASE Req(c) # Nothing
  <2>1. Board!Refuses(c)
    BY <1>2, EndIsBoardEnd DEF Board!Refuses, Board!Nothing, Nothing
  <2>. QED
    BY <2>1 DEF BoardStep, Board!Next
<1>. QED
  BY <1>1, <1>2

LEMMA CallMaps == ASSUME IInv, NEW c \in Callers, Call(c) PROVE BoardStep
<1>1. PICK r \in Requests :
        calls' = [calls EXCEPT ![c] = [pc |-> IF r.op = "set_goal_state" THEN "write" ELSE "look",
                                       req |-> r, found |-> 0]]
  BY DEF Call
<1>2. \A b \in Callers : Req(b)' = IF b = c THEN r ELSE Req(b)
  BY <1>1 DEF IInv, TypeOK, Req
<1>3. calls[c] \in Calls /\ calls[c].pc = "idle"
  BY DEF Call, IInv, TypeOK
<1>4. Req(c) = Nothing
  BY <1>3 DEF Calls, NoCall, Req
<1>5. [b \in Callers |-> Req(b)]' = [[b \in Callers |-> Req(b)] EXCEPT ![c] = r]
  BY <1>2
<1>6. Board!Ask(c)
  BY <1>4, <1>5 DEF Board!Ask, Board!Nothing, Nothing, Call
<1>. QED
  BY <1>6 DEF BoardStep, Board!Next

LEMMA LookMaps ==
  ASSUME IInv, NEW c \in Callers, LookGoal(c) \/ LookStoryRun(c) PROVE BoardStep
<1>1. \A b \in Callers : Req(b)' = Req(b)
  BY DEF LookGoal, LookStoryRun, Finds, IInv, TypeOK, Req
<1>. QED
  BY <1>1, SameAsked DEF LookGoal, LookStoryRun

LEMMA GoalWriteMaps ==
  ASSUME IInv, NEW c \in Callers, UpdateGoal(c) \/ InsertGoal(c) PROVE BoardStep
<1>. DEFINE e == Req(c).epic
            sets == Req(c).sets
<1>1. /\ Req(c).op = "create_goal"
      /\ e \in Epics /\ sets \in [GoalColumns -> Values]
      /\ Overlay(sets, sets) = sets /\ sets \in Sets(GoalColumns)
      /\ goals \in [Epics -> Rows(GoalColumns)]
      /\ GoodIds(goals, seq["goals"]) /\ seq["goals"] \in Nat
  BY CallShape, RequestShape, OverlayItself DEF UpdateGoal, InsertGoal, Writing, IInv, TypeOK
<1>2. Board!Ends(c)
  BY EndIsBoardEnd DEF UpdateGoal, InsertGoal, Tells, IInv
<1>3. Board!Puts(goals, goals', e, sets, sets)
  <2>1. CASE UpdateGoal(c)
    <3>1. goals[e].id = calls[c].found /\ calls[c].found # 0
      BY <2>1, <1>1 DEF UpdateGoal, Writing, IInv, FoundHolds
    <3>2. goals' = Updated(goals, goals[e].id, sets)
      BY <2>1, <3>1 DEF UpdateGoal
    <3>. HIDE DEF e, sets
    <3>. QED
      BY <1>1, <3>1, <3>2, UpdatePuts
  <2>2. CASE InsertGoal(c)
    <3>1. goals[e] = Absent
      BY <2>2 DEF InsertGoal, KeyIsFree
    <3>2. goals' = Inserted(goals, e, seq["goals"] + 1, Overlay(sets, sets))
      BY <2>2, <1>1 DEF InsertGoal
    <3>. HIDE DEF e, sets
    <3>. QED
      BY <1>1, <3>1, <3>2, InsertPuts
  <2>. QED
    BY <2>1, <2>2
<1>4. Board!Registers(c)
  BY <1>1, <1>3 DEF Board!Registers, UpdateGoal, InsertGoal
<1>. QED
  BY <1>2, <1>4 DEF BoardStep, Board!Next, Board!Takes

LEMMA StoryWriteMaps ==
  ASSUME IInv, NEW c \in Callers, UpdateStoryRun(c) \/ InsertStoryRun(c) PROVE BoardStep
<1>. DEFINE k == Req(c).key
            sets == Req(c).sets
<1>1. /\ Req(c).op = "upsert_story_run"
      /\ k \in RunKeys /\ sets \in Sets(StoryColumns)
      /\ runs \in [RunKeys -> Rows(StoryColumns)]
      /\ GoodIds(runs, seq["runs"]) /\ seq["runs"] \in Nat
      /\ StoryDefaults \in [StoryColumns -> Values]
  BY CallShape, RequestShape, GoalRecordsAssumption
     DEF UpdateStoryRun, InsertStoryRun, Writing, IInv, TypeOK
<1>2. Board!Ends(c)
  BY EndIsBoardEnd DEF UpdateStoryRun, InsertStoryRun, Tells, IInv
<1>3. Board!Puts(runs, runs', k, sets, StoryDefaults)
  <2>1. CASE UpdateStoryRun(c)
    <3>1. runs[k].id = calls[c].found /\ calls[c].found # 0
      BY <2>1, <1>1 DEF UpdateStoryRun, Writing, IInv, FoundHolds
    <3>2. runs' = Updated(runs, runs[k].id, sets)
      BY <2>1, <3>1 DEF UpdateStoryRun
    <3>. HIDE DEF k, sets
    <3>. QED
      BY <1>1, <3>1, <3>2, UpdatePuts
  <2>2. CASE InsertStoryRun(c)
    <3>1. runs[k] = Absent
      BY <2>2 DEF InsertStoryRun, KeyIsFree
    <3>2. runs' = Inserted(runs, k, seq["runs"] + 1, Overlay(StoryDefaults, sets))
      BY <2>2 DEF InsertStoryRun, StoryColumnsOf
    <3>. HIDE DEF k, sets
    <3>. QED
      BY <1>1, <3>1, <3>2, InsertPuts
  <2>. QED
    BY <2>1, <2>2
<1>4. Board!Records(c)
  BY <1>1, <1>3 DEF Board!Records, UpdateStoryRun, InsertStoryRun, Board!StoryDefaults, StoryDefaults
<1>. QED
  BY <1>2, <1>4 DEF BoardStep, Board!Next, Board!Takes

LEMMA GoalStateMaps == ASSUME IInv, NEW c \in Callers, UpdateGoalState(c) PROVE BoardStep
<1>. DEFINE g == Req(c).goal
            sets == Req(c).sets
<1>1. /\ Req(c).op = "set_goal_state" /\ g \in Nat \ {0}
      /\ goals \in [Epics -> Rows(GoalColumns)]
      /\ GoodIds(goals, seq["goals"])
      /\ goals' = Updated(goals, g, sets)
  BY CallShape, RequestShape DEF UpdateGoalState, Writing, IInv, TypeOK
<1>2. Board!Ends(c)
  BY EndIsBoardEnd DEF UpdateGoalState, IInv
<1>3. Board!MovesGoal(c)
  <2>1. CASE \E e \in Epics : goals[e].id = g
    <3>. PICK e \in Epics : goals[e].id = g
      BY <2>1
    <3>1. Board!Puts(goals, goals', e, sets, sets)
      <4>. HIDE DEF g, sets
      <4>1. goals[e].id # 0 /\ goals' = Updated(goals, goals[e].id, sets)
        BY <1>1
      <4>. QED
        BY <1>1, <4>1, UpdatePuts
    <3>. QED
      BY <1>1, <3>1 DEF Board!MovesGoal, UpdateGoalState
  <2>2. CASE \A e \in Epics : goals[e].id # g
    <3>1. goals' = goals
      BY <1>1, <2>2 DEF Updated
    <3>. QED
      BY <1>1, <2>2, <3>1 DEF Board!MovesGoal, UpdateGoalState
  <2>. QED
    BY <2>1, <2>2
<1>. QED
  BY <1>2, <1>3 DEF BoardStep, Board!Next, Board!Takes

LEMMA StepMaps == ASSUME IInv, [Next]_vars PROVE BoardStep
<1>1. CASE UNCHANGED vars
  BY <1>1, SameAsked DEF vars, Req
<1>2. ASSUME NEW c \in Callers, InsertClashes(c) \/ Locked(c) \/ Leaves(c)
      PROVE  BoardStep
  BY <1>2, EndMaps DEF InsertClashes, Locked, Leaves, IInv
<1>. QED
  BY <1>1, <1>2, CallMaps, LookMaps, GoalWriteMaps, GoalStateMaps, StoryWriteMaps
     DEF Next, Writes

-----------------------------------------------------------------------------
(* The tables, the calls and what callers were told are well typed.        *)
THEOREM GoalsTyped == Spec => []TypeOK
<1>1. IInv => TypeOK
  BY DEF IInv
<1>. QED
  BY <1>1, InitIInv, StepKeeps, PTL DEF Spec

(* An id that any call returned for a goal or a story is the id of its row *)
(* for ever after, whatever calls overlap, fail or die.                    *)
THEOREM IdsHold == Spec => []ToldIdsHold
<1>1. IInv => ToldIdsHold
  BY DEF IInv
<1>. QED
  BY <1>1, InitIInv, StepKeeps, PTL DEF Spec

(* The two-statement calls of goals.py behave as calls that take effect at *)
(* once, on their own row and columns, or not at all.                      *)
THEOREM GoalsImplementBoard == Spec => ImplementsBoard
<1>1. Init => Board!Init
  BY DEF Init, Board!Init, Req, NoCall, Board!Absent, Absent, Board!Nothing, Nothing,
         Board!RunKeys, RunKeys
<1>2. IInv /\ [Next]_vars => [Board!Next]_(Board!vars)
  BY StepMaps DEF BoardStep
<1>. QED
  BY <1>1, <1>2, InitIInv, StepKeeps, PTL DEF Spec, ImplementsBoard, Board!Spec
=============================================================================
