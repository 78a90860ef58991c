------------------------------- MODULE Operations -------------------------------
(***************************************************************************)
(* What an operator does around serving, side by side: the model files and *)
(* the model in service, the release pipeline, and the comparison of       *)
(* benchmark reports.  They share no state, so a behaviour moves one of    *)
(* them, the part in focus.                                                *)
(***************************************************************************)
EXTENDS Models, Release, Gate

VARIABLE focus

vars == <<focus, models, releases, gate>>

Init ==
  /\ focus \in {"models", "release", "gate"}
  /\ ModelsInit /\ ReleaseInit /\ GateInit
  /\ focus # "models" => \A p \in Path : parts[p] = Nothing /\ files[p] = Nothing
  /\ focus # "gate" => direction = "lower" /\ baseline = CHOOSE r \in Reports : TRUE

Turn(part, A) ==
  /\ focus = part /\ A /\ UNCHANGED focus
  /\ part # "models" => UNCHANGED models
  /\ part # "release" => UNCHANGED releases
  /\ part # "gate" => UNCHANGED gate

Next ==
  \/ Turn("models", ModelsNext) \/ Turn("release", ReleaseNext) \/ Turn("gate", GateNext)

Spec == Init /\ [][Next]_vars
=============================================================================
