SPECIFICATION Spec
CONSTANTS
  Bots = {dev, qa}
  Issues = {story}
  Values <- MCValues
SYMMETRY Symmetry
PROPERTIES OtherLabelsIntact
