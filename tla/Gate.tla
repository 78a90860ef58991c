---------------------------------- MODULE Gate ----------------------------------
(***************************************************************************)
(* The comparison gate of the benchmark harness (bench/gate.py), used the  *)
(* way it is meant to be: a candidate that passes is enabled and becomes   *)
(* the baseline of the next comparison.  Latencies are whole numbers,      *)
(* rates are in tenths of a percent; an undefined metric is Undefined.     *)
(***************************************************************************)
EXTENDS Naturals, Integers, FiniteSets

CONSTANTS
  Reports,        \* the reports: manifest, slices, target, p95 of each slice, error, admitted, shed
  MinImprovement, \* in percent, as are the latencies' budget
  ErrorBudget, LatencyBudget, ShedBudget,
  Target,         \* the target slice
  MaxAdopted      \* bound on the comparisons that pass

Undefined == -1

VARIABLES
  direction,  \* whether the lower or the higher value of the target metric is better
  baseline,   \* the report the next candidate is compared with
  origin,     \* the first one
  adopted,    \* the number of candidates enabled since
  blind       \* slices that some comparison since could not assess

gate == <<direction, baseline, origin, adopted, blind>>

\* The readings of a report; one it does not have is undefined.
TargetValue(r) == IF Target \in r.slices THEN r.target ELSE Undefined
P95(r, s) == IF s \in r.slices THEN r.p95[s] ELSE Undefined
ErrorRate(r) == IF r.admitted = 0 THEN Undefined ELSE r.error

\* _incomparable: the manifests differ, or the target slice is missing.
Incomparable(b, c) == b.manifest # c.manifest \/ Target \notin b.slices \cap c.slices

Gain(b, c) == IF direction = "lower" THEN b.target - c.target ELSE c.target - b.target

Improved(b, c) == 100 * Gain(b, c) >= MinImprovement * b.target

\* Slices in both reports other than the target whose p95 can be compared
Assessable(b, c) ==
  {s \in (b.slices \cap c.slices) \ {Target} : P95(b, s) \notin {Undefined, 0} /\ P95(c, s) # Undefined}

\* Fault: an unassessable slice ends the loop, and those after it are not looked at.
LatencyKeptFirst(b, c) ==
  Assessable(b, c) # (b.slices \cap c.slices) \ {Target}
    \/ \A s \in Assessable(b, c) : 100 * (P95(c, s) - P95(b, s)) <= LatencyBudget * P95(b, s)

LatencyKept(b, c) == \A s \in Assessable(b, c) : 100 * (P95(c, s) - P95(b, s)) <= LatencyBudget * P95(b, s)

ShedKept(b, c) == b.shed = Undefined \/ c.shed = Undefined \/ c.shed - b.shed <= ShedBudget

\* compare
Passes(b, c) ==
  /\ ~Incomparable(b, c)
  /\ TargetValue(b) \notin {Undefined, 0} /\ TargetValue(c) # Undefined /\ Improved(b, c)
  /\ ErrorRate(b) # Undefined /\ ErrorRate(c) # Undefined /\ ErrorRate(c) - ErrorRate(b) <= ErrorBudget
  /\ LatencyKept(b, c) /\ ShedKept(b, c)

\* The operator compares a candidate and enables it if it passes.
Compare ==
  /\ adopted < MaxAdopted
  /\ \E c \in Reports :
       /\ Passes(baseline, c) /\ baseline' = c /\ adopted' = adopted + 1
       /\ blind' = blind \cup ((baseline.slices \cup c.slices) \ (Assessable(baseline, c) \cup {Target}))
  /\ UNCHANGED <<direction, origin>>

GateInit ==
  direction \in {"lower", "higher"} /\ baseline \in Reports /\ origin = baseline /\ adopted = 0 /\ blind = {}
GateNext == Compare
-----------------------------------------------------------------------------
\* Improvements compound: after n candidates the target is better than where it began by
\* the n-th power of the step, so that no sequence of comparisons can lead back to an earlier configuration.
ImprovementCompounds ==
  adopted > 0 =>
    IF direction = "lower"
    THEN 100^adopted * baseline.target <= (100 - MinImprovement)^adopted * origin.target
    ELSE 100^adopted * baseline.target >= (100 + MinImprovement)^adopted * origin.target

\* What a sequence of accepted regressions can add up to: each step may use the whole
\* budget, but no more; a slice that some comparison could not assess is not bounded.
RegressionsBounded ==
  /\ baseline.error <= origin.error + adopted * ErrorBudget
  /\ \A s \in origin.slices \ (blind \cup {Target}) :
       adopted > 0 =>
         100^adopted * baseline.p95[s] <= (100 + LatencyBudget)^adopted * origin.p95[s]

\* What a sequence of comparisons can lead to: the gains compound and the losses stay
\* within the sum of the budgets, for every slice that was assessed each time.
DriftIsBounded == ImprovementCompounds /\ RegressionsBounded
=============================================================================
