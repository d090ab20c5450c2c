----------------------------- MODULE MCSnapSched -----------------------------
EXTENDS SnapSched

CONSTANTS L, P

\* A local schedule and a replication plan of one target.
MCKind == [t \in Task |-> IF t = L THEN "local" ELSE "replication"]
=============================================================================
