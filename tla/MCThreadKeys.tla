---------------------------- MODULE MCThreadKeys ----------------------------
EXTENDS ThreadKeys
CONSTANTS t1, t2, k1, k2
=============================================================================
