--------------------------- MODULE MCIssueLabels ----------------------------
(* Two bots on one story, as the developer and the QA bot are.             *)
EXTENDS IssueLabels, TLC

MCValues == [status |-> {"ready", "in-qa"}, art |-> {"in-qa"}, design |-> {"approved"},
             other |-> {"type: story"}]

Symmetry == Permutations(Bots)
=============================================================================
