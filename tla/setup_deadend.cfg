SPECIFICATION MCSpec
CONSTANTS
  a1 = a1
  a2 = a2
  p1 = p1
  r1 = r1
  NoApp = NoApp
  Nobody = Nobody
  Apps = {a1, a2}
  DraftApp = a1
  EnterpriseApps = {a2}
  Policies = {p1}
  Recipes = {r1}
  MaxWork = 1
  MaxCommands = 3
  MaxMishaps = 0
INVARIANTS
  FaultlessActivation
CHECK_DEADLOCK FALSE
