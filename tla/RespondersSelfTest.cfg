SPECIFICATION Spec
CONSTANTS
  Resp = {a}
  KindsInUse = {"mtorig"}
  Families = {v4}
  MaxRuns = 1
  MaxFaults = 0
  MaxStrangers = 0
INVARIANT OkNeedsTheClient
