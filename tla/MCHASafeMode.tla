---------------------------- MODULE MCHASafeMode ----------------------------
EXTENDS HASafeMode, TLC

TwoServers == Permutations(Node)
=============================================================================
