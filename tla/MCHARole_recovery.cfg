SPECIFICATION FairSpec
CONSTANTS
  node0 = node0
  node1 = node1
  Env = {"demote", "constraint", "lift"}
  MaxStops = 1
  MaxBoots = 1
  MaxCrashes = 0
  ShutdownSends = 2
  Serial = FALSE
  Prompt = TRUE
PROPERTIES StopEnds Recovers
CHECK_DEADLOCK FALSE
