SPECIFICATION Spec
CONSTANTS
  Char <- MCChar
  EOL <- MCEol
  NoAnswer = NoAnswer
  NoLit = NoLit
  BufSize = 3
  MaxFails = 1
  MaxRaw = 4
  Jobs <- MCJobs
  RawOps <- MCRawOps
INVARIANTS
  Framed
  ResultIsSent
PROPERTY StreamIsPipe
CHECK_DEADLOCK FALSE
