SPECIFICATION FairSpec
CONSTANTS
  node0 = node0
  node1 = node1
  Call = {c1, c2}
  NoCall = NoCall
  MaxReports = 1
  MaxCrashes = 0
  MaxChoices = 0
  Stuck = {}
  Prompt = TRUE

PROPERTY WinnerServes
CHECK_DEADLOCK FALSE
