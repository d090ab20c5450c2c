------------------------------ MODULE MCHARole ------------------------------
EXTENDS HARole
=============================================================================
