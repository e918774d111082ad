SPECIFICATION SavedFairSpec
CONSTANTS
  r1 = r1
  w1 = w1
  w2 = w2
  loop = loop
  p1 = p1
  e1 = e1
  n1 = n1
  Recipes = {r1}
  NoRecipe = NoRecipe
  MaxBuilds = 1
  MaxMachines = 1
  MaxImages = 1
  Workers = {w1, loop}
  Ticker = loop
  Promoters = {}
  Editors = {}
  Networks = {n1}
  Defaults <- NoCache
  MaxFaults = 1
PROPERTIES
  EveryBuildFinishes
