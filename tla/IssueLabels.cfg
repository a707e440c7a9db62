SPECIFICATION Spec
CONSTANTS
  Bots = {dev, qa}
  Issues = {story}
  Values <- MCValues
SYMMETRY Symmetry
INVARIANTS TypeOK OneStatusLabel
PROPERTIES FreshWritesAreLocal
