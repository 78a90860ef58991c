----------------------------- MODULE MCTermination -----------------------------
(* Two engines that share both files or one of them (with none in common they  *)
(* do not meet); two gRPC calls.                                               *)
EXTENDS Termination, TLC

CONSTANTS p1, p2

At(d, m) == [db |-> d, models |-> m]
MCConfigured ==
  {(p1 :> At(1, 1)) @@ (p2 :> a) : a \in {At(1, 1), At(1, 2), At(2, 1)}}
=============================================================================
