SPECIFICATION Spec
CONSTANTS
  node0 = node0
  node1 = node1
  Env = {"demote", "procdead"}
  MaxStops = 3
  MaxBoots = 3
  MaxCrashes = 0
  ShutdownSends = 2
  Serial = TRUE
  Prompt = TRUE
INVARIANT NoSplitBrain
CHECK_DEADLOCK FALSE
