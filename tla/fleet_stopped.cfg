SPECIFICATION Spec
CONSTANTS
  j1 = j1
  j2 = j2
  j3 = j3
  h1 = h1
  h2 = h2
  q1 = q1
  op = op
  Jobs = {j1}
  NoJob = NoJob
  Policies = {q1}
  NoPolicy = NoPolicy
  PolicyOf <- OnePolicy
  MaxRunners <- OneRunner
  WarmPolicies = {}
  Kinds = {"queued", "completed"}
  Conclusions = {"failed"}
  Handlers = {h1}
  Operators = {}
  CleanupLoop = CleanupLoop
  WarmLoop = WarmLoop
  MaxInstances = 1
  MaxFaults = 0
INVARIANTS
  ClosedMachineIsRemoved
