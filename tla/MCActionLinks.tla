--------------------------- MODULE MCActionLinks ---------------------------
EXTENDS ActionLinks, TLC

\* Links are alike; accounts and threads are few.
LinkSymmetry == Permutations(Links)
=============================================================================
