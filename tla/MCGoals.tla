------------------------------ MODULE MCGoals -------------------------------
(* Bots that register two epics, one of them twice with different briefs,  *)
(* move a goal, and record the dispatch and verdict of two stories.        *)
EXTENDS Goals, TLC

MCValues == {"", "0", "old", "new", "active", "complete", "ready", "in-progress", "done", "s1"}

Create(e, b)  == [op |-> "create_goal", epic |-> e, sets |-> [brief |-> b, state |-> "active"]]
Complete(g)   == [op |-> "set_goal_state", goal |-> g, sets |-> [state |-> "complete"]]
Upsert(s, sets) == [op |-> "upsert_story_run", key |-> <<1, s>>, sets |-> sets]

MCRequests ==
  { Create("e1", "old"), Create("e1", "new"), Create("e2", "old"), Complete(1),
    Upsert(1, [jules_session_id |-> "s1", status |-> "in-progress"]),
    Upsert(1, [qa_verdict |-> "done", status |-> "done"]),
    Upsert(2, [status |-> "ready"]) }

Symmetry == Permutations(Callers)
=============================================================================
