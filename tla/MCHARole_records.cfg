SPECIFICATION Spec
CONSTANTS
  node0 = node0
  node1 = node1
  Env = {"ups", "fail", "demote", "constraint"}
  MaxStops = 1
  MaxBoots = 1
  MaxCrashes = 1
  ShutdownSends = 1
  Serial = FALSE
  Prompt = TRUE
INVARIANTS TypeOK OneServes NoRecordWhileRunning
CHECK_DEADLOCK FALSE
