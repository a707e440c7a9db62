---------------------------- MODULE GoalRecords -----------------------------
(***************************************************************************)
(* The records of goals.py: its two tables, up to what the properties tell *)
(* apart, and the calls that write them.  A row is its AUTOINCREMENT id    *)
(* and its columns; the key of a goal is its repo and epic number, that of *)
(* a story run its goal's id and story number.                             *)
(***************************************************************************)
EXTENDS Naturals

CONSTANTS
  Callers,   \* threads and processes of the bots that call the module
  Epics,     \* pairs of a repo and an epic number
  GoalIds,   \* the goal ids callers pass; no foreign key ties them to a goal
  Stories,
  Values,    \* what columns hold
  Requests   \* the calls considered

(* brief: title, channel_id and base_branch, which no call writes apart.   *)
GoalColumns  == {"brief", "state"}
StoryColumns == {"jules_session_id", "pr_url", "status", "feedback_rounds", "qa_verdict"}
RunKeys      == GoalIds \X Stories

StoryDefaults == [jules_session_id |-> "", pr_url |-> "", status |-> "ready",
                  feedback_rounds |-> "0", qa_verdict |-> ""]

Absent      == [id |-> 0]
Rows(Cols)  == {Absent} \cup [id : Nat \ {0}, cols : [Cols -> Values]]

(* sets: the columns a call gives, with their values.                      *)
CreateGoal   == [op : {"create_goal"}, epic : Epics, sets : [GoalColumns -> Values]]
SetGoalState == [op : {"set_goal_state"}, goal : GoalIds, sets : [{"state"} -> Values]]
UpsertStoryRun ==
  [op : {"upsert_story_run"}, key : RunKeys, sets : UNION {[S -> Values] : S \in SUBSET StoryColumns}]

ASSUME GoalRecordsAssumption ==
  /\ GoalIds \subseteq Nat \ {0}
  /\ StoryDefaults \in [StoryColumns -> Values]
  /\ Requests \subseteq CreateGoal \cup SetGoalState \cup UpsertStoryRun

Overlay(cols, sets) == [c \in DOMAIN cols |-> IF c \in DOMAIN sets THEN sets[c] ELSE cols[c]]

Nothing == [op |-> "nothing"]
=============================================================================
