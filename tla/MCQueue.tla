------------------------------ MODULE MCQueue ------------------------------
EXTENDS Queue

CONSTANTS t1, t2, t3, v1
=============================================================================
