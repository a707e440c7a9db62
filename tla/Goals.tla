------------------------------- MODULE Goals --------------------------------
(***************************************************************************)
(* goals.py over its SQLite file, called by threads and processes that run *)
(* at the same time.  create_goal and upsert_story_run look a row up and   *)
(* then update it by its id or insert it; the SELECT opens no transaction, *)
(* so any other statement may come between the two.  A statement may find  *)
(* the file locked, an INSERT may find its key taken, and a caller may die.*)
(***************************************************************************)
EXTENDS GoalRecords

VARIABLES
  goals,   \* the table goals, by its key
  runs,    \* the table goal_story_runs, by its key
  seq,     \* sqlite_sequence: the last id each table gave out
  calls,   \* per caller its call, the id it found and where it is
  told     \* history: per table the pairs of a key and an id returned for it

vars == <<goals, runs, seq, calls, told>>

NoCall == [pc |-> "idle", req |-> Nothing, found |-> 0]

Calls == {NoCall}
           \cup [pc : {"look", "write"}, req : Requests, found : Nat]
           \cup [pc : {"IntegrityError", "OperationalError"}, req : {Nothing}, found : {0}]

TypeOK ==
  /\ goals \in [Epics -> Rows(GoalColumns)]
  /\ runs \in [RunKeys -> Rows(StoryColumns)]
  /\ seq \in [{"goals", "runs"} -> Nat]
  /\ calls \in [Callers -> Calls]
  /\ told \in [goals : SUBSET (Epics \X (Nat \ {0})), runs : SUBSET (RunKeys \X (Nat \ {0}))]

Init ==
  /\ goals = [e \in Epics |-> Absent]
  /\ runs = [k \in RunKeys |-> Absent]
  /\ seq = [t \in {"goals", "runs"} |-> 0]
  /\ calls = [c \in Callers |-> NoCall]
  /\ told = [goals |-> {}, runs |-> {}]

Req(c) == calls[c].req

Call(c) ==
  /\ calls[c].pc = "idle"
  /\ \E r \in Requests :
       calls' = [calls EXCEPT ![c] =
                  [pc |-> IF r.op = "set_goal_state" THEN "write" ELSE "look",
                   req |-> r, found |-> 0]]
  /\ UNCHANGED <<goals, runs, seq, told>>

Finds(c, row) == calls' = [calls EXCEPT ![c] = [pc |-> "write", req |-> Req(c), found |-> row.id]]

LookGoal(c) ==
  /\ calls[c].pc = "look" /\ Req(c).op = "create_goal"
  /\ Finds(c, goals[Req(c).epic])
  /\ UNCHANGED <<goals, runs, seq, told>>

LookStoryRun(c) ==
  /\ calls[c].pc = "look" /\ Req(c).op = "upsert_story_run"
  /\ Finds(c, runs[Req(c).key])
  /\ UNCHANGED <<goals, runs, seq, told>>

-----------------------------------------------------------------------------
Writing(c, op) == calls[c].pc = "write" /\ Req(c).op = op
Ends(c, pc)    == calls' = [calls EXCEPT ![c] = [pc |-> pc, req |-> Nothing, found |-> 0]]

Tells(c, t, k, id) ==
  /\ Ends(c, "idle")
  /\ told' = [told EXCEPT ![t] = @ \cup {<<k, id>>}]

\* Mutant of Updated: the UPDATE names every column.
UpdatedWhole(table, id, sets) ==
  [k \in DOMAIN table |-> IF table[k].id = id
                          THEN [id |-> id, cols |-> Overlay([c \in DOMAIN table[k].cols |-> ""], sets)]
                          ELSE table[k]]

(* UPDATE ... WHERE id = ?                                                 *)
Updated(table, id, sets) ==
  [k \in DOMAIN table |-> IF table[k].id = id
                          THEN [id |-> id, cols |-> Overlay(table[k].cols, sets)]
                          ELSE table[k]]

\* Mutant of KeyIsFree: INSERT OR REPLACE, which gives a row a new id.
KeyIsAlwaysFree(table, k) == TRUE

(* UNIQUE: an INSERT needs the key to be unused.                           *)
KeyIsFree(table, k) == table[k] = Absent

\* Mutant of StoryColumnsOf: no defaults for the columns that are not given.
StoryColumnsGiven(sets) == sets

StoryColumnsOf(sets) == Overlay(StoryDefaults, sets)

Inserted(table, k, id, cols) == [table EXCEPT ![k] = [id |-> id, cols |-> cols]]

TakesId(t) == seq' = [seq EXCEPT ![t] = @ + 1]

UpdateGoal(c) ==
  /\ Writing(c, "create_goal") /\ calls[c].found # 0
  /\ goals' = Updated(goals, calls[c].found, Req(c).sets)
  /\ Tells(c, "goals", Req(c).epic, calls[c].found)
  /\ UNCHANGED <<runs, seq>>

InsertGoal(c) ==
  /\ Writing(c, "create_goal") /\ calls[c].found = 0
  /\ KeyIsFree(goals, Req(c).epic)
  /\ goals' = Inserted(goals, Req(c).epic, seq["goals"] + 1, Req(c).sets)
  /\ TakesId("goals")
  /\ Tells(c, "goals", Req(c).epic, seq["goals"] + 1)
  /\ UNCHANGED runs

(* complete_goal is the call with the state GOAL_COMPLETE.                 *)
UpdateGoalState(c) ==
  /\ Writing(c, "set_goal_state")
  /\ goals' = Updated(goals, Req(c).goal, Req(c).sets)
  /\ Ends(c, "idle")
  /\ UNCHANGED <<runs, seq, told>>

(* No column given: nothing is updated and the id is returned.             *)
UpdateStoryRun(c) ==
  /\ Writing(c, "upsert_story_run") /\ calls[c].found # 0
  /\ runs' = Updated(runs, calls[c].found, Req(c).sets)
  /\ Tells(c, "runs", Req(c).key, calls[c].found)
  /\ UNCHANGED <<goals, seq>>

InsertStoryRun(c) ==
  /\ Writing(c, "upsert_story_run") /\ calls[c].found = 0
  /\ KeyIsFree(runs, Req(c).key)
  /\ runs' = Inserted(runs, Req(c).key, seq["runs"] + 1, StoryColumnsOf(Req(c).sets))
  /\ TakesId("runs")
  /\ Tells(c, "runs", Req(c).key, seq["runs"] + 1)
  /\ UNCHANGED goals

(* The row appeared since the look: the INSERT raises IntegrityError.      *)
InsertClashes(c) ==
  /\ calls[c].found = 0
  /\ \/ Writing(c, "create_goal") /\ ~KeyIsFree(goals, Req(c).epic)
     \/ Writing(c, "upsert_story_run") /\ ~KeyIsFree(runs, Req(c).key)
  /\ Ends(c, "IntegrityError")
  /\ UNCHANGED <<goals, runs, seq, told>>

(* The file stays locked for longer than the connection waits.             *)
Locked(c) ==
  /\ calls[c].pc \in {"look", "write"}
  /\ Ends(c, "OperationalError")
  /\ UNCHANGED <<goals, runs, seq, told>>

(* The caller handles its exception, or dies at any point of a call.       *)
Leaves(c) ==
  /\ calls[c].pc # "idle"
  /\ Ends(c, "idle")
  /\ UNCHANGED <<goals, runs, seq, told>>

Writes(c) == UpdateGoal(c) \/ InsertGoal(c) \/ UpdateGoalState(c)
               \/ UpdateStoryRun(c) \/ InsertStoryRun(c) \/ InsertClashes(c)

Next == \E c \in Callers :
  Call(c) \/ LookGoal(c) \/ LookStoryRun(c) \/ Writes(c) \/ Locked(c) \/ Leaves(c)

Spec == Init /\ [][Next]_vars

-----------------------------------------------------------------------------
(* Every id a call ever returned for a goal or a story is the id of its    *)
(* row: the callers of a race agree on it, and rows keep it through any    *)
(* later write.  The driver stores these ids and writes by them.           *)
ToldIdsHold == /\ \A t \in told.goals : goals[t[1]].id = t[2]
               /\ \A t \in told.runs : runs[t[1]].id = t[2]

(* Although a call is two statements that others interleave with, the      *)
(* module behaves as the board of atomic calls: every call takes effect    *)
(* once, on its own row and columns, or is refused and changes nothing.    *)
Board == INSTANCE StoryBoard WITH asked <- [c \in Callers |-> Req(c)]

ImplementsBoard == Board!Spec

=============================================================================
