---------------------------- MODULE MCScheduler -----------------------------
(* Small instances of the scheduler.  A week is two days of one tick.      *)
EXTENDS Scheduler, TLC

Req(at, kind, rule) ==
  [fireAt |-> at, kind |-> kind, rule |-> rule, static |-> TRUE, prompt |-> FALSE]

\* Valid requests of every shape, and one for each early return of create.
MCRequests ==
  { Req(0, "one_shot", "none"), Req(1, "one_shot", "weekly"),
    Req(1, "recurring", "weekly"), Req(1, "recurring", "monthly"),
    Req(0, "recurring", "monthly_not_int"),
    Req(NoTime, "one_shot", "none"), Req(0, "condition_check", "none"),
    Req(0, "recurring", "none"), Req(0, "recurring", "other"),
    [Req(0, "one_shot", "none") EXCEPT !.static = FALSE],
    [Req(0, "one_shot", "none") EXCEPT !.prompt = TRUE] }

MCWeekly  == { Req(0, "recurring", "weekly"), Req(1, "recurring", "weekly") }
MCOneShot == { Req(1, "one_shot", "none") }
MCMixed   == { Req(1, "one_shot", "none"), Req(0, "recurring", "weekly") }

(* A row that is due is eventually done, unless init_db ended the loop: no *)
(* firing is forgotten by a failed poll, a stop or a failed mark_done.     *)
DueRowsAreHandled == \A i \in 1..3 : DueIsHandled(i)

Symmetry == Permutations(Firers)
=============================================================================
