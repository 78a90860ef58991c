------------------------------ MODULE MCOperations ------------------------------
EXTENDS Operations, TLC

(* Three releases: a patch of a line, and a newer line.  The exception for the *)
(* patch's finding expires after the first day.                                *)
MCVersion == {<<1, 0, 0>>, <<1, 0, 1>>, <<2, 0, 0>>}
MCReport == [v \in MCVersion |-> IF v = <<1, 0, 1>> THEN {1} ELSE {}]
MCExceptions == {[id |-> 1, expires |-> 0]}

(* Reports on a target slice and two others, around the thresholds, with latencies that *)
(* are undefined; and reports that cannot be compared, or only in part.                 *)
Tails(x, y) == ("chat" :> 0) @@ ("long" :> x) @@ ("burst" :> y)
Plain == [manifest |-> 1, slices |-> {"chat", "long", "burst"}, target |-> 100, error |-> 0, admitted |-> 1,
          shed |-> 20, p95 |-> Tails(100, 100)]
MCReports ==
  {[Plain EXCEPT !.target = t, !.error = e, !.p95 = Tails(x, y)] :
     t \in {72, 85, 100}, e \in {0, 5}, x \in {-1, 100, 105, 110}, y \in {-1, 100}}
  \cup
  {[Plain EXCEPT !.manifest = 2], [Plain EXCEPT !.slices = @ \ {"chat"}], [Plain EXCEPT !.target = 0],
   [Plain EXCEPT !.target = -1], [Plain EXCEPT !.target = 86], [Plain EXCEPT !.admitted = 0],
   [Plain EXCEPT !.shed = -1], [Plain EXCEPT !.target = 85, !.shed = 40]}

Symmetry == Permutations(Id)
=============================================================================
