INIT Opened
NEXT PromotedTwice
CONSTANTS
  a1 = a1
  a2 = a2
  p1 = p1
  r1 = r1
  NoApp = NoApp
  Nobody = Nobody
  Apps = {a1, a2}
  DraftApp = a1
  EnterpriseApps = {a2}
  Policies = {p1}
  Recipes = {r1}
  MaxWork = 2
  MaxCommands = 5
  MaxMishaps = 4
INVARIANTS
  OneGitHubCallAtATime
CHECK_DEADLOCK FALSE
