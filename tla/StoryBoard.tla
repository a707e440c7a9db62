----------------------------- MODULE StoryBoard -----------------------------
(***************************************************************************)
(* What goals.py promises its callers: each call takes effect at once or   *)
(* not at all.  A goal or story gets an id when it is first written and    *)
(* keeps it; a write changes the columns it names, of that goal or story,  *)
(* and nothing else.                                                       *)
(***************************************************************************)
EXTENDS GoalRecords

VARIABLES
  goals,   \* per epic its row
  runs,    \* per goal id and story its row
  asked    \* per caller the call that has not taken effect

vars == <<goals, runs, asked>>

Init == /\ goals = [e \in Epics |-> Absent]
        /\ runs = [k \in RunKeys |-> Absent]
        /\ asked = [c \in Callers |-> Nothing]

Ask(c) == /\ asked[c] = Nothing
          /\ \E r \in Requests : asked' = [asked EXCEPT ![c] = r]
          /\ UNCHANGED <<goals, runs>>

Ends(c) == asked' = [asked EXCEPT ![c] = Nothing]

(* The row of key k in a table after a write to k, and the other rows.     *)
Puts(table, next, k, sets, defaults) ==
  /\ next = [table EXCEPT ![k] = next[k]]
  /\ next[k] = [id |-> next[k].id,
                cols |-> Overlay(IF table[k] = Absent THEN defaults ELSE table[k].cols, sets)]
  /\ IF table[k] = Absent
     THEN next[k].id \in Nat \ {0} /\ \A j \in DOMAIN table : table[j].id # next[k].id
     ELSE next[k].id = table[k].id

Registers(c) == /\ asked[c].op = "create_goal"
                /\ Puts(goals, goals', asked[c].epic, asked[c].sets, asked[c].sets)
                /\ UNCHANGED runs

Records(c) == /\ asked[c].op = "upsert_story_run"
              /\ Puts(runs, runs', asked[c].key, asked[c].sets, StoryDefaults)
              /\ UNCHANGED goals

(* Nothing happens for an id no goal has.                                  *)
MovesGoal(c) ==
  /\ asked[c].op = "set_goal_state"
  /\ \/ \E e \in Epics : /\ goals[e].id = asked[c].goal
                         /\ Puts(goals, goals', e, asked[c].sets, asked[c].sets)
     \/ UNCHANGED goals /\ \A e \in Epics : goals[e].id # asked[c].goal
  /\ UNCHANGED runs

Takes(c) == (Registers(c) \/ Records(c) \/ MovesGoal(c)) /\ Ends(c)

Refuses(c) == asked[c] # Nothing /\ Ends(c) /\ UNCHANGED <<goals, runs>>

Next == \E c \in Callers : Ask(c) \/ Takes(c) \/ Refuses(c)

Spec == Init /\ [][Next]_vars
=============================================================================
