------------------------------- MODULE MCCart -------------------------------
EXTENDS Cart

CONSTANTS t1, t2

\* Products 1 and 2; a numeral of two digits can be cut.
MCForms == {<<12, 0>>, <<12, 3>>}

\* A third page is opened only where no fault has happened and nothing was typed. What
\* this cuts are pages, faults and entries, and nobody is obliged to any of them.
TwoPagesWithFaults ==
  faults > 0 \/ (\E t \in Tabs : edited[t] # {}) => pages < MaxPages
=============================================================================
