SPECIFICATION Spec
CONSTANTS
  Proc = {p1, p2, p3, p4}
  NoLock = NoLock
SYMMETRY Calls
INVARIANTS NoOrphanLock
