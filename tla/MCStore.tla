-------------------------------- MODULE MCStore --------------------------------
EXTENDS Store, TLC

MCPlans == {[five |-> 1, week |-> 2, rate |-> 1], [five |-> 2, week |-> 1, rate |-> 0]}

MCEnds ==
  {[outcome |-> "ok", tokens |-> 1], [outcome |-> "error", tokens |-> 0], [outcome |-> "cancelled", tokens |-> 1]}

(* The parts are disjoint, so the two interchangeable requests of different parts *)
(* share their names, and one permutation serves them all.                        *)
Symmetry == Permutations(QKey) \cup Permutations(Request)
=============================================================================
