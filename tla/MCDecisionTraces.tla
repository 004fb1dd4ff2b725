-------------------------- MODULE MCDecisionTraces --------------------------
(* Instances of DecisionTraces for TLC: few calls of each kind, small bodies. *)
EXTENDS DecisionTraces, TLC

\* The calls of a kind are interchangeable; used where no liveness is checked.
Symmetry == Permutations(Creator) \cup Permutations(Controller) \cup Permutations(Reader)
=============================================================================
