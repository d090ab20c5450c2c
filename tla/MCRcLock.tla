------------------------------ MODULE MCRcLock ------------------------------
EXTENDS RcLock, TLC

Calls == Permutations(Proc)
=============================================================================
