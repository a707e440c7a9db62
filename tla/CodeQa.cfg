SPECIFICATION Spec
CONSTANTS
  core = core
  bots = bots
  Repos <- MCRepos
  Orders <- MCOrders
  Files = {f1}
  Callers = {c1, c2}
  MaxPushes = 1
  MaxPicks = 1
  MaxCuts = 1
SYMMETRY Symmetry
INVARIANTS TypeOK AnswersAreFresh ReadsWhatWasListed
