----------------------------- MODULE MCOrdering -----------------------------
EXTENDS Ordering
=============================================================================
