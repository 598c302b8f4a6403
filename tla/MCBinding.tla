----------------------------- MODULE MCBinding -----------------------------
EXTENDS Binding

CONSTANTS u1, u2, a1, a2, w1, w2
=============================================================================
