SPECIFICATION PingSpec
CONSTANTS
  node0 = node0
  node1 = node1
  Call = {c1, c2}
  NoCall = NoCall
  MaxReports = 1
  MaxCrashes = 0
  MaxChoices = 0
  Stuck = {node1}
  Prompt = TRUE
INVARIANTS TypeOK NotBothRecordActive RecordsAgree
PROPERTY PingEnds
CHECK_DEADLOCK FALSE
