------------------------------ MODULE MCQueue ------------------------------
EXTENDS ThreadSafeQueue

CONSTANTS p1, p2, c1, c2, m1, m2
=============================================================================
