SPECIFICATION SavedSpec
CONSTANTS
  r1 = r1
  w1 = w1
  w2 = w2
  loop = loop
  p1 = p1
  e1 = e1
  n1 = n1
  Recipes = {r1}
  NoRecipe = NoRecipe
  MaxBuilds = 1
  MaxMachines = 2
  MaxImages = 2
  Workers = {w1, w2}
  Ticker = loop
  Promoters = {}
  Editors = {}
  Networks = {n1}
  Defaults <- NoCache
  MaxFaults = 0
SYMMETRY WorkerSymmetry
INVARIANTS
  StatusNeverLeads
  RowsAreWhole
  TerminatedOnlyWhenDone
  OneMachineOneImage
