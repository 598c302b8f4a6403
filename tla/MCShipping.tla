---------------------------- MODULE MCShipping ----------------------------
EXTENDS Shipping

\* Constraints of the runs, see the README.
BeforeLoss == lost = {}                        \* up to the first dropped statement
NewsOnly   == \A peer \in Peers : batch[peer] \cap finished[peer] = {}
                                               \* no message repeats a response
OneItem    == \A peer \in Peers : Cardinality(batch[peer]) <= 1
=============================================================================
