SPECIFICATION Spec
CONSTANTS
  j1 = j1
  j2 = j2
  j3 = j3
  h1 = h1
  h2 = h2
  q1 = q1
  op = op
  Jobs = {j1, j2}
  NoJob = NoJob
  Policies = {q1}
  NoPolicy = NoPolicy
  PolicyOf <- OnePolicy
  MaxRunners <- TwoRunners
  WarmPolicies = {}
  Kinds = {"queued", "completed"}
  Conclusions = {"failed"}
  Handlers = {h1}
  Operators = {}
  CleanupLoop = CleanupLoop
  WarmLoop = WarmLoop
  MaxInstances = 2
  MaxFaults = 0
SYMMETRY JobSymmetry
PROPERTIES
  RunningJobKeepsItsMachine
