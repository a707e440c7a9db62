SPECIFICATION Spec
CONSTANTS
  Callers = {c1, c2, c3}
  Epics = {"e1", "e2"}
  GoalIds = {1, 2}
  Stories = {1, 2}
  Values <- MCValues
  Requests <- MCRequests
SYMMETRY Symmetry
INVARIANTS TypeOK ToldIdsHold
PROPERTIES ImplementsBoard
