------------------------------ MODULE MCKiApc ------------------------------
EXTENDS KiApc
CONSTANTS t1, t2, k1, k2, u1, u2
=============================================================================
