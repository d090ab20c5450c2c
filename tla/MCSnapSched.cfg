SPECIFICATION FairSpec
CONSTANTS
  Run = {r1, r2}
  NoRun = NoRun
  L = L
  P = P
  Task = {L, P}
  Kind <- MCKind
  Window = 2
  MaxTime = 5
INVARIANTS TypeOK Fresh NoSilentMiss
PROPERTIES TakesApart RunEnds
CHECK_DEADLOCK FALSE
