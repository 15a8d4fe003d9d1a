SPECIFICATION Spec
CONSTANTS
  Machines = {ma, mb}
  Skew <- MCSkew
  MaxCalls = 2
  MaxLessons = 2
  MaxReverts = 1
  MaxNow = 2
  MaxPasses = 2
  Faults = {"call", "crash", "log", "hand"}
  MaxFaults = 1
  ma = ma
  mb = mb
INVARIANT ToneIsTheLog
PROPERTIES PassConverges SyncKeepsEdits LastWriteWinsSpec
CHECK_DEADLOCK FALSE
