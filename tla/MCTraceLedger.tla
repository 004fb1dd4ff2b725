---------------------------- MODULE MCTraceLedger ----------------------------
EXTENDS TraceLedger, TLC

\* The calls of a kind are interchangeable.  Sound for safety only.
Symmetry == Permutations(Creator) \cup Permutations(Controller)
=============================================================================
