------------------------------- MODULE Registry -------------------------------
(***************************************************************************)
(* The pool of backends (inference/registry.py) and the names a client may *)
(* ask for (inference/router.py): eligibility, the two tiers, prefix       *)
(* affinity, least-busy placement, route and cascade policies, the         *)
(* preference rule, and the health loop of main.py.                        *)
(*                                                                         *)
(* The whole of Router.acquire runs without a suspension, so a placement   *)
(* is a function of the state; the health loop suspends at each probe.     *)
(***************************************************************************)
EXTENDS Naturals, FiniteSets, Sequences, FiniteSetsExt

CONSTANTS
  Entries,       \* the entries, numbered by BackendEntry.order from 1
  Remote,        \* those with a check_health; the others are judged by state
  Unreliable,    \* the remote ones whose load may fail at the start
  Spillover, PrefixCache, Structured,  \* what the entries are, and can do
  MaxInFlight,   \* BackendEntry.max_in_flight
  Serves,        \* the model of each entry when it is loaded
  Steps,         \* virtual name -> its sequence of sets of entries
  Preferred,     \* the entries a workload rule prefers, for each model
  Demands,       \* records [name, hash, structured]; hash None: no prefix key
  None

ASSUME RegistryAssumption ==
  /\ Entries \subseteq Nat \ {0} /\ IsFiniteSet(Entries)
  /\ {Remote, Spillover, PrefixCache, Structured} \subseteq SUBSET Entries
  /\ Unreliable \subseteq Remote
  /\ MaxInFlight \in [Entries -> Nat \ {0}]
  /\ \A v \in DOMAIN Steps : Steps[v] \in Seq(SUBSET Entries)
  /\ \A m \in DOMAIN Preferred : Preferred[m] \subseteq Entries \ Spillover
  /\ \A e \in Entries : Serves[e] \notin DOMAIN Steps \cup {None}
  /\ \A d \in Demands : d.name # None /\ d.hash \in Nat \cup {None} /\ d.structured \in BOOLEAN
  /\ None \notin Entries \cup Nat

VARIABLES
  loaded,      \* entries whose backend is in a ready state
  available,   \* entries whose BackendEntry.available is set
  in_flight,   \* BackendEntry.in_flight
  up,          \* remote entries whose server answers
  probing,     \* the remote entry whose check_health the health loop awaits
  answer       \* what its server answers

health == <<loaded, available, up, probing, answer>>
-----------------------------------------------------------------------------
(* BackendEntry and BackendRegistry.eligible                               *)

is_ready(e) == e \in available /\ e \in loaded
has_capacity(e) == in_flight[e] < MaxInFlight[e]
live_model(e) == IF is_ready(e) THEN Serves[e] ELSE None

eligible(e, model, structured) ==
  /\ model # None => live_model(e) = model
  /\ structured => is_ready(e) /\ e \in Structured
-----------------------------------------------------------------------------
(* BackendRegistry._pick, _select_detailed                                 *)

least_busy(C) ==
  CHOOSE e \in C : \A c \in C :
    in_flight[e] < in_flight[c] \/ (in_flight[e] = in_flight[c] /\ e <= c)

\* The capable entry, in the order of the pool, that the digest of the key names.
target(capable, hash) ==
  CHOOSE e \in capable :
    Cardinality({c \in capable : c < e}) = hash % Cardinality(capable)

Pick(pool, hash) ==
  LET candidates == {e \in pool : is_ready(e) /\ has_capacity(e)}
      capable == {e \in pool : is_ready(e) /\ e \in PrefixCache}
  IN  IF hash # None /\ capable # {} /\ has_capacity(target(capable, hash))
        THEN target(capable, hash)
      ELSE IF candidates # {} THEN least_busy(candidates)
      ELSE None

Pool(allowed, model, d) == {e \in allowed : eligible(e, model, d.structured)}

\* Fault: the tiers are merged.
SelectOneTier(allowed, model, d) == Pick(Pool(allowed, model, d), d.hash)

Select(allowed, model, d) ==
  LET pool == Pool(allowed, model, d)
      local == Pick(pool \ Spillover, d.hash)
  IN  IF local # None THEN local ELSE Pick(pool \cap Spillover, d.hash)

\* Why BackendRegistry.acquire raises when nothing is selected.
Failure(allowed, model, d) ==
  LET model_ready == {e \in allowed : is_ready(e) /\ model \in {None, live_model(e)}}
  IN  IF model_ready = {} THEN "unloaded"
      ELSE IF Pool(model_ready, model, d) = {} THEN "unsupported"
      ELSE "busy"
-----------------------------------------------------------------------------
(* Router                                                                  *)

is_virtual(d) == d.name \in DOMAIN Steps
matching_rule(d) == ~is_virtual(d) /\ d.structured /\ d.name \in DOMAIN Preferred

\* The first of the scopes in which a backend is selected.
FirstSelected(scopes, model, d) ==
  LET taken == {i \in DOMAIN scopes : Select(scopes[i], model, d) # None}
  IN  IF taken = {} THEN None ELSE Select(scopes[Min(taken)], model, d)

\* Router.acquire: the preference, then the physical model or the cascade.
Placement(d) ==
  LET preference == IF matching_rule(d) THEN Select(Preferred[d.name], d.name, d) ELSE None
  IN  IF preference # None THEN preference
      ELSE IF is_virtual(d) THEN FirstSelected(Steps[d.name], None, d)
      ELSE Select(Entries, d.name, d)

Refusal(d) ==
  IF is_virtual(d)
    THEN LET seen == {Failure(Steps[d.name][i], None, d) : i \in DOMAIN Steps[d.name]}
         IN  IF "busy" \in seen THEN "busy"
             ELSE IF "unsupported" \in seen THEN "unsupported" ELSE "unloaded"
    ELSE Failure(Entries, d.name, d)

\* Router.plan: where the name would be placed now.
Plan(d) ==
  LET scopes == IF matching_rule(d) THEN <<Preferred[d.name], Entries>>
                ELSE IF is_virtual(d) THEN Steps[d.name] ELSE <<Entries>>
  IN  FirstSelected(scopes, IF is_virtual(d) THEN None ELSE d.name, d)
-----------------------------------------------------------------------------
(* BackendRegistry.refresh_health, called for ever by main.py              *)

Answers(e) == e \in up \cap loaded

\* The loop goes on after entry e, having found "found": it judges the local
\* entries up to the next remote one, and asks that.
Continue(e, found) ==
  LET later == {r \in Remote : r > e}
      next == IF later = {} THEN None ELSE Min(later)
      passed == {l \in Entries \ Remote : l > e /\ (next # None => l < next)}
  IN  /\ available' = (found \ passed) \cup (passed \cap loaded)
      /\ probing' = next
      /\ answer' = (next # None /\ Answers(next))
      /\ UNCHANGED <<loaded, up, in_flight>>

RefreshHealth == probing = None /\ Continue(0, available)

\* Fault: an entry once found down is not asked again.
ProbeReturnsForGood ==
  /\ probing # None
  /\ Continue(probing, IF answer THEN available ELSE available \ {probing})

\* The probe of an entry returns, or runs into its timeout.
ProbeReturns ==
  /\ probing # None
  /\ Continue(probing, IF answer THEN available \cup {probing}
                                 ELSE available \ {probing})

\* An operator loads or unloads the primary entry.
PrimaryChanges ==
  /\ \E e \in Entries \ Remote : loaded' = IF e \in loaded THEN loaded \ {e} ELSE loaded \cup {e}
  /\ UNCHANGED <<available, in_flight, up, probing, answer>>

\* A remote server fails or comes back.
ServerChanges ==
  /\ \E e \in Remote : up' = IF e \in up THEN up \ {e} ELSE up \cup {e}
  /\ UNCHANGED <<loaded, available, in_flight, probing, answer>>

\* A remote that cannot be loaded at the start stays unloaded.
RegistryInit ==
  /\ up = Remote /\ \E failed \in SUBSET Unreliable : loaded = Entries \ failed
  /\ available = Entries
  /\ in_flight = [e \in Entries |-> 0]
  /\ probing = None /\ answer = FALSE
-----------------------------------------------------------------------------
(* Properties of placement, in any state of the pool                       *)

\* What the docs say can take a request: healthy, the right model, every
\* feature, and below its limit.
CanServe(e, d) ==
  /\ e \in available \cap loaded /\ in_flight[e] < MaxInFlight[e]
  /\ is_virtual(d) \/ Serves[e] = d.name
  /\ d.structured => e \in Structured

\* The sets of entries a demand may be placed in, in order of preference.
Tiers(d) ==
  IF is_virtual(d) THEN Steps[d.name]
  ELSE IF matching_rule(d) THEN <<Preferred[d.name], Entries>> ELSE <<Entries>>

\* A placement is never worse than the policy allows: the entry can serve the
\* request, no earlier step of a cascade and no preferred entry could have, and
\* an external provider is used only when nothing else in its step can.
PolicyRespected ==
  \A d \in Demands : LET e == Placement(d) IN e # None =>
    \E i \in DOMAIN Tiers(d) :
      /\ e \in Tiers(d)[i] /\ CanServe(e, d)
      /\ \A j \in 1..(i - 1) : \A c \in Tiers(d)[j] : ~CanServe(c, d)
      /\ e \in Spillover => \A c \in Tiers(d)[i] \ Spillover : ~CanServe(c, d)

\* A request is turned away only when nothing can serve it, and told why: "busy"
\* exactly if a suitable backend is only full, "unsupported" exactly if the
\* backends that are up all lack the feature, "unloaded" if there are none.
HonestRefusal ==
  \A d \in Demands : Placement(d) = None =>
    LET scope == UNION {Tiers(d)[i] : i \in DOMAIN Tiers(d)}
        alive == {e \in scope \cap available \cap loaded : is_virtual(d) \/ Serves[e] = d.name}
        suitable == IF d.structured THEN alive \cap Structured ELSE alive
    IN  /\ \A e \in scope : ~CanServe(e, d)
        /\ Refusal(d) = IF suitable # {} THEN "busy"
                        ELSE IF alive # {} THEN "unsupported" ELSE "unloaded"

\* The dry run of an operator names the backend the next request would get.
PlanAgrees == \A d \in Demands : Plan(d) = Placement(d)
=============================================================================
