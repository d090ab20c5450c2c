SPECIFICATION FairSafeSpec
CONSTANTS
  node0 = node0
  node1 = node1
  Call = {c1, c2}
  NoCall = NoCall
  MaxReports = 0
  MaxCrashes = 2
  MaxChoices = 1
  Stuck = {node0, node1}
  Prompt = TRUE
INVARIANT OnlyChosenServes
PROPERTY ChoiceServed
CHECK_DEADLOCK FALSE
