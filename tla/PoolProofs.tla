------------------------------ MODULE PoolProofs ------------------------------
(***************************************************************************)
(* Theorems about Registry and Pool, for every pool of entries, every set  *)
(* of names and policies, and any number of handlers and retries.          *)
(***************************************************************************)
EXTENDS Pool, TLAPS, FiniteSetTheorems, WellFoundedInduction

\* The limits, in seconds, of a leaf that names no prover.
USE SMTT(30), ZenonT(30)

\* A non-empty set of numbers has a least one.
LEMMA LeastNumber ==
  ASSUME NEW T \in SUBSET Nat, T # {}
  PROVE  \E m \in T : \A n \in T : m <= n
<1>1. PICK m \in T : \A n \in T : ~(<<n, m>> \in OpToRel(<, Nat))
  BY NatLessThanWellFounded, WFMin, Zenon
<1>2. \A n \in T : ~(n < m)
  BY <1>1, Zenon DEF OpToRel
<1> QED
  BY <1>2

\* The least of the community modules is the least.
LEMMA MinIsLeast ==
  ASSUME NEW T \in SUBSET Nat, T # {}
  PROVE  Min(T) \in T /\ \A n \in T : Min(T) <= n
  BY LeastNumber, Zenon DEF Min

\* least_busy names a member of the set it is given.
LEMMA LeastBusyIsMember ==
  ASSUME in_flight \in [Entries -> Nat], NEW C \in SUBSET Entries, C # {}
  PROVE  least_busy(C) \in C
<1> DEFINE T == {in_flight[c] : c \in C}
<1>1. PICK m \in T : \A n \in T : m <= n
  <2>1. T \subseteq Nat /\ T # {}
    OBVIOUS
  <2> QED
    BY <2>1, LeastNumber, Zenon
<1> DEFINE B == {c \in C : in_flight[c] = m}
<1>2. PICK e \in B : \A c \in B : e <= c
  <2>1. B \subseteq Nat /\ B # {}
    BY <1>1, RegistryAssumption, Zenon
  <2> QED
    BY <2>1, LeastNumber, Zenon
<1>3. \A c \in C : in_flight[e] < in_flight[c] \/ (in_flight[e] = in_flight[c] /\ e <= c)
  <2> SUFFICES ASSUME NEW c \in C
               PROVE  in_flight[e] < in_flight[c] \/ (in_flight[e] = in_flight[c] /\ e <= c)
    OBVIOUS
  <2>1. m <= in_flight[c] /\ in_flight[e] = m /\ m \in Nat /\ in_flight[c] \in Nat
    BY <1>1, <1>2
  <2>2. in_flight[c] = m => e <= c
    BY <1>2
  <2> QED
    BY <2>1, <2>2
<1> QED
  BY <1>2, <1>3 DEF least_busy
-----------------------------------------------------------------------------
\* A non-empty finite set of numbers has a greatest one: the one with the
\* fewest above it.
LEMMA GreatestNumber ==
  ASSUME NEW S \in SUBSET Nat, IsFiniteSet(S), S # {}
  PROVE  \E g \in S : \A n \in S : n <= g
<1> DEFINE Above(x) == {c \in S : c > x}
           T == {Cardinality(Above(x)) : x \in S}
<1>1. \A x \in S : IsFiniteSet(Above(x)) /\ Cardinality(Above(x)) \in Nat
  <2>1. \A x \in S : Above(x) \subseteq S
    OBVIOUS
  <2> QED
    BY <2>1, FS_Subset, FS_CardinalityType
<1>2. PICK g \in S : \A x \in S : Cardinality(Above(g)) <= Cardinality(Above(x))
  <2>1. T \subseteq Nat /\ T # {}
    BY <1>1, Zenon
  <2> HIDE DEF Above
  <2>2. PICK m \in T : \A n \in T : m <= n
    BY <2>1, LeastNumber, Zenon
  <2> QED
    BY <2>2
<1>3. ASSUME NEW n \in S, ~(n <= g) PROVE FALSE
  <2>1. n > g
    BY <1>3
  <2>2. Above(n) \subseteq Above(g) /\ n \in Above(g) /\ n \notin Above(n)
    <3>1. \A c \in S : c \in Nat
      OBVIOUS
    <3>2. \A c \in S : c > n => c > g
      BY <2>1, <3>1
    <3>3. ~(n > n)
      BY <3>1
    <3>4. Above(n) \subseteq Above(g)
      BY <3>2, Zenon
    <3> QED
      BY <2>1, <3>3, <3>4
  <2>3. Cardinality(Above(n)) < Cardinality(Above(g))
    <3> HIDE DEF Above
    <3>1. Above(n) # Above(g)
      BY <2>2
    <3>2. /\ Cardinality(Above(n)) <= Cardinality(Above(g))
          /\ Cardinality(Above(n)) = Cardinality(Above(g)) => Above(n) = Above(g)
      BY <1>1, <2>2, FS_Subset
    <3> QED
      BY <1>1, <3>1, <3>2
  <2> QED
    BY <1>1, <1>2, <2>3
<1> QED
  BY <1>3

\* Every rank below the size of a finite set of numbers is taken: otherwise the
\* member just below the first of higher rank would have a higher rank too.
LEMMA RankTaken ==
  ASSUME NEW S \in SUBSET Nat, IsFiniteSet(S), NEW k \in Nat, k < Cardinality(S)
  PROVE  \E e \in S : Cardinality({c \in S : c < e}) = k
<1> DEFINE Below(x) == {c \in S : c < x}
           T == {x \in S : Cardinality(Below(x)) >= k}
<1>1. \A x \in S : IsFiniteSet(Below(x)) /\ Cardinality(Below(x)) \in Nat
  <2>1. \A x \in S : Below(x) \subseteq S
    OBVIOUS
  <2> QED
    BY <2>1, FS_Subset, FS_CardinalityType
<1>2. \A x \in S : Cardinality(Below(x) \cup {x}) = Cardinality(Below(x)) + 1
  <2>1. \A x \in S : x \notin Below(x)
    OBVIOUS
  <2> HIDE DEF Below
  <2> QED
    BY <1>1, <2>1, FS_AddElement, Zenon
<1>3. T # {}
  <2>1. S # {}
    BY FS_EmptySet
  <2>2. PICK g \in S : \A n \in S : n <= g
    BY <2>1, GreatestNumber
  <2>3. S = Below(g) \cup {g}
    <3>1. \A n \in S : n < g \/ n = g
      BY <2>2
    <3> QED
      BY <3>1, Zenon
  <2>4. Cardinality(S) = Cardinality(Below(g)) + 1
    BY <1>2, <2>3
  <2> QED
    BY <1>1, <2>4
<1>4. PICK e \in T : \A x \in T : e <= x
  BY <1>3, LeastNumber, Zenon
<1>5. ASSUME Cardinality(Below(e)) # k PROVE FALSE
  <2>1. Below(e) # {}
    BY <1>1, <1>4, <1>5, FS_EmptySet
  <2>2. PICK g \in Below(e) : \A n \in Below(e) : n <= g
    BY <1>1, <2>1, GreatestNumber
  <2>3. Below(e) = Below(g) \cup {g}
    <3>1. \A n \in S : n < e <=> n < g \/ n = g
      BY <2>2
    <3> QED
      BY <2>2, <3>1, Zenon
  <2>4. Cardinality(Below(e)) = Cardinality(Below(g)) + 1
    BY <1>2, <2>3
  <2>5. g \in T
    BY <1>1, <1>4, <1>5, <2>2, <2>4
  <2> QED
    BY <1>4, <2>2, <2>5
<1> QED
  BY <1>4, <1>5

\* The digest of a key names a capable entry.
LEMMA TargetIsMember ==
  ASSUME NEW capable \in SUBSET Entries, capable # {}, NEW hash \in Nat
  PROVE  target(capable, hash) \in capable
<1>1. capable \in SUBSET Nat /\ IsFiniteSet(capable)
  BY RegistryAssumption, FS_Subset, Zenon
<1>2. Cardinality(capable) \in Nat /\ Cardinality(capable) # 0
  BY <1>1, FS_CardinalityType, FS_EmptySet
<1>3. hash % Cardinality(capable) \in Nat /\ hash % Cardinality(capable) < Cardinality(capable)
  BY <1>2
<1>4. \E e \in capable :
        Cardinality({c \in capable : c < e}) = hash % Cardinality(capable)
  BY <1>1, <1>3, RankTaken
<1> QED
  BY <1>4 DEF target
-----------------------------------------------------------------------------
(* What a placement returns, in every state                                *)

\* The part of the type invariant the registry's definitions need.
PoolTyped == in_flight \in [Entries -> Nat]

Able(S) == {e \in S : is_ready(e) /\ has_capacity(e)}

\* _pick returns a ready entry with capacity, or none when there is none.
LEMMA PickFacts ==
  ASSUME PoolTyped, NEW pool \in SUBSET Entries, NEW hash \in Nat \cup {None}
  PROVE  IF Able(pool) = {} THEN Pick(pool, hash) = None
                            ELSE Pick(pool, hash) \in Able(pool)
<1> DEFINE capable == {e \in pool : is_ready(e) /\ e \in PrefixCache}
           affine == hash # None /\ capable # {} /\ has_capacity(target(capable, hash))
<1>1. Pick(pool, hash) = IF affine THEN target(capable, hash)
                         ELSE IF Able(pool) # {} THEN least_busy(Able(pool)) ELSE None
  BY DEF Pick, Able
<1>2. affine => target(capable, hash) \in Able(pool)
  <2> SUFFICES ASSUME affine PROVE target(capable, hash) \in Able(pool)
    OBVIOUS
  <2>1. target(capable, hash) \in capable
    BY TargetIsMember
  <2> QED
    BY <2>1 DEF Able
<1>3. Able(pool) # {} => least_busy(Able(pool)) \in Able(pool)
  <2>1. Able(pool) \subseteq Entries
    BY DEF Able
  <2> QED
    BY <2>1, LeastBusyIsMember DEF PoolTyped
<1> HIDE DEF affine
<1> QED
  BY <1>1, <1>2, <1>3

\* _select_detailed takes from the eligible entries that can admit, from the
\* spillover tier only if the other cannot.
LEMMA SelectFacts ==
  ASSUME PoolTyped, NEW allowed \in SUBSET Entries, NEW model, NEW d \in Demands
  PROVE  LET able == Able(Pool(allowed, model, d))
             e == Select(allowed, model, d)
         IN  /\ able = {} <=> e = None
             /\ e # None => e \in able
             /\ e # None /\ e \in Spillover => able \ Spillover = {}
<1> DEFINE pool == Pool(allowed, model, d)
           local == Pick(pool \ Spillover, d.hash)
           spill == Pick(pool \cap Spillover, d.hash)
<1>1. pool \subseteq Entries /\ d.hash \in Nat \cup {None} /\ None \notin Entries
  BY RegistryAssumption, Zenon DEF Pool
<1> HIDE DEF pool
<1>2. IF Able(pool \ Spillover) = {} THEN local = None ELSE local \in Able(pool \ Spillover)
  <2>1. pool \ Spillover \in SUBSET Entries
    BY <1>1
  <2> QED
    BY <1>1, <2>1, PickFacts, Zenon
<1>3. IF Able(pool \cap Spillover) = {} THEN spill = None ELSE spill \in Able(pool \cap Spillover)
  <2>1. pool \cap Spillover \in SUBSET Entries
    BY <1>1
  <2> QED
    BY <1>1, <2>1, PickFacts, Zenon
<1>4. Select(allowed, model, d) = IF local # None THEN local ELSE spill
  BY DEF Select, pool
<1>5. /\ Able(pool \ Spillover) = Able(pool) \ Spillover
      /\ Able(pool \cap Spillover) = Able(pool) \cap Spillover
      /\ Able(pool) \subseteq Entries
  BY <1>1 DEF Able
<1> HIDE DEF local, spill
<1>6. LET e == Select(allowed, model, d)
      IN  /\ Able(pool) = {} <=> e = None
          /\ e # None => e \in Able(pool)
          /\ e # None /\ e \in Spillover => Able(pool) \ Spillover = {}
  BY <1>1, <1>2, <1>3, <1>4, <1>5
<1> QED
  BY <1>6 DEF pool

\* The first scope in which something is selected has nothing able before it.
LEMMA FirstSelectedFacts ==
  ASSUME PoolTyped, NEW scopes \in Seq(SUBSET Entries), NEW model, NEW d \in Demands
  PROVE  LET e == FirstSelected(scopes, model, d)
             able(i) == Able(Pool(scopes[i], model, d))
         IN  IF e = None THEN \A i \in DOMAIN scopes : able(i) = {}
             ELSE \E i \in DOMAIN scopes :
                    /\ e = Select(scopes[i], model, d) /\ e \in able(i)
                    /\ \A j \in 1..(i - 1) : j \in DOMAIN scopes /\ able(j) = {}
                    /\ e \in Spillover => able(i) \ Spillover = {}
<1> DEFINE able(i) == Able(Pool(scopes[i], model, d))
           sel(i) == Select(scopes[i], model, d)
           taken == {i \in DOMAIN scopes : sel(i) # None}
<1>1. DOMAIN scopes = 1..Len(scopes) /\ Len(scopes) \in Nat
  OBVIOUS
<1>2. \A i \in DOMAIN scopes :
        /\ able(i) = {} <=> sel(i) = None
        /\ sel(i) # None => sel(i) \in able(i)
        /\ sel(i) # None /\ sel(i) \in Spillover => able(i) \ Spillover = {}
  <2>1. \A i \in DOMAIN scopes : scopes[i] \in SUBSET Entries
    OBVIOUS
  <2> QED
    BY <2>1, SelectFacts
<1>3. FirstSelected(scopes, model, d) = IF taken = {} THEN None ELSE sel(Min(taken))
  BY DEF FirstSelected
<1> HIDE DEF able, sel
<1>4. CASE taken = {}
  BY <1>2, <1>3, <1>4 DEF able
<1>5. CASE taken # {}
  <2>1. Min(taken) \in taken /\ \A n \in taken : Min(taken) <= n
    <3>1. taken \in SUBSET Nat
      BY <1>1
    <3> HIDE DEF taken
    <3> QED
      BY <1>5, <3>1, MinIsLeast
  <2> DEFINE i == Min(taken)
  <2>2. i \in DOMAIN scopes /\ sel(i) # None /\ FirstSelected(scopes, model, d) = sel(i)
    BY <1>3, <1>5, <2>1
  <2>3. \A j \in 1..(i - 1) : j \in DOMAIN scopes /\ j \notin taken
    <3> SUFFICES ASSUME NEW j \in 1..(i - 1)
                 PROVE  j \in DOMAIN scopes /\ j \notin taken
      OBVIOUS
    <3>1. i \in 1..Len(scopes)
      BY <1>1, <2>2
    <3>2. j \in 1..Len(scopes) /\ ~(i <= j)
      BY <1>1, <3>1
    <3> QED
      BY <1>1, <2>1, <3>2
  <2>4. \A j \in 1..(i - 1) : able(j) = {}
    BY <1>2, <2>3
  <2> HIDE DEF i, taken
  <2> QED
    BY <1>2, <2>2, <2>3, <2>4 DEF able, sel
<1> QED
  BY <1>4, <1>5, Zenon

ModelOf(d) == IF is_virtual(d) THEN None ELSE d.name

\* What the code filters by is what the docs say can serve a request.
LEMMA AbleIsCanServe ==
  ASSUME NEW d \in Demands, NEW S \in SUBSET Entries
  PROVE  Able(Pool(S, ModelOf(d), d)) = {e \in S : CanServe(e, d)}
<1>1. d.name # None
  BY RegistryAssumption
<1>2. ASSUME NEW e \in S
      PROVE  eligible(e, ModelOf(d), d.structured) /\ is_ready(e) /\ has_capacity(e)
               <=> CanServe(e, d)
  BY <1>1 DEF eligible, ModelOf, live_model, is_ready, has_capacity, CanServe
<1> QED
  BY <1>2 DEF Able, Pool

\* A demand's tiers are scopes.
LEMMA TiersAreScopes ==
  ASSUME NEW d \in Demands
  PROVE  Tiers(d) \in Seq(SUBSET Entries)
<1>1. is_virtual(d) => Steps[d.name] \in Seq(SUBSET Entries)
  BY RegistryAssumption DEF is_virtual
<1>2. matching_rule(d) => Preferred[d.name] \in SUBSET Entries
  BY RegistryAssumption DEF matching_rule
<1>3. <<Entries>> \in Seq(SUBSET Entries)
  OBVIOUS
<1>4. matching_rule(d) => <<Preferred[d.name], Entries>> \in Seq(SUBSET Entries)
  BY <1>2
<1> QED
  BY <1>1, <1>3, <1>4, Zenon DEF Tiers

\* Router.acquire takes the first tier in which a backend is selected.
LEMMA PlacementIsFirst ==
  ASSUME PoolTyped, NEW d \in Demands
  PROVE  Placement(d) = FirstSelected(Tiers(d), ModelOf(d), d)
<1> DEFINE sel(S) == Select(S, ModelOf(d), d)
<1>1. \A S : FirstSelected(<<S>>, ModelOf(d), d) = sel(S)
  <2> TAKE S
  <2> DEFINE taken == {i \in DOMAIN <<S>> : sel(<<S>>[i]) # None}
  <2>1. DOMAIN <<S>> = {1} /\ <<S>>[1] = S
    OBVIOUS
  <2>2. FirstSelected(<<S>>, ModelOf(d), d)
          = IF taken = {} THEN None ELSE sel(<<S>>[Min(taken)])
    BY DEF FirstSelected
  <2> HIDE DEF sel
  <2>3. taken # {} => taken = {1} /\ Min(taken) = 1
    BY <2>1, MinIsLeast
  <2> QED
    BY <2>1, <2>2, <2>3
<1>2. \A S, T : FirstSelected(<<S, T>>, ModelOf(d), d)
                  = IF sel(S) # None THEN sel(S) ELSE sel(T)
  <2> TAKE S, T
  <2> DEFINE taken == {i \in DOMAIN <<S, T>> : sel(<<S, T>>[i]) # None}
  <2>1. DOMAIN <<S, T>> = {1, 2} /\ <<S, T>>[1] = S /\ <<S, T>>[2] = T
    OBVIOUS
  <2>2. FirstSelected(<<S, T>>, ModelOf(d), d)
          = IF taken = {} THEN None ELSE sel(<<S, T>>[Min(taken)])
    BY DEF FirstSelected
  <2> HIDE DEF sel
  <2>3. taken # {} => Min(taken) = IF sel(S) # None THEN 1 ELSE 2
    BY <2>1, MinIsLeast
  <2> QED
    BY <2>1, <2>2, <2>3
<1>3. Placement(d) = IF matching_rule(d) /\ sel(Preferred[d.name]) # None
                       THEN sel(Preferred[d.name])
                     ELSE IF is_virtual(d) THEN FirstSelected(Steps[d.name], ModelOf(d), d)
                     ELSE sel(Entries)
  BY DEF Placement, ModelOf, matching_rule
<1> HIDE DEF sel
<1> QED
  BY <1>1, <1>2, <1>3 DEF Tiers, matching_rule
-----------------------------------------------------------------------------
\* A placement never breaks its policy, whatever the state of the pool.
THEOREM PlacementPolicy ==
  ASSUME PoolTyped
  PROVE  PolicyRespected
<1> SUFFICES ASSUME NEW d \in Demands, Placement(d) # None
             PROVE  \E i \in DOMAIN Tiers(d) :
                      /\ Placement(d) \in Tiers(d)[i] /\ CanServe(Placement(d), d)
                      /\ \A j \in 1..(i - 1) : \A c \in Tiers(d)[j] : ~CanServe(c, d)
                      /\ Placement(d) \in Spillover =>
                           \A c \in Tiers(d)[i] \ Spillover : ~CanServe(c, d)
  BY DEF PolicyRespected
<1> DEFINE e == Placement(d)
           able(i) == Able(Pool(Tiers(d)[i], ModelOf(d), d))
<1>1. Tiers(d) \in Seq(SUBSET Entries) /\ e = FirstSelected(Tiers(d), ModelOf(d), d)
  BY TiersAreScopes, PlacementIsFirst
<1> HIDE DEF e
<1>2. PICK i \in DOMAIN Tiers(d) :
        /\ e \in able(i)
        /\ \A j \in 1..(i - 1) : j \in DOMAIN Tiers(d) /\ able(j) = {}
        /\ e \in Spillover => able(i) \ Spillover = {}
  BY <1>1, FirstSelectedFacts DEF e
<1>3. \A j \in DOMAIN Tiers(d) : able(j) = {c \in Tiers(d)[j] : CanServe(c, d)}
  <2>1. \A j \in DOMAIN Tiers(d) : Tiers(d)[j] \in SUBSET Entries
    BY <1>1
  <2> QED
    BY <2>1, AbleIsCanServe
<1> HIDE DEF able
<1>4. e \in Tiers(d)[i] /\ CanServe(e, d)
  BY <1>2, <1>3
<1>5. \A j \in 1..(i - 1) : \A c \in Tiers(d)[j] : ~CanServe(c, d)
  BY <1>2, <1>3
<1>6. e \in Spillover => \A c \in Tiers(d)[i] \ Spillover : ~CanServe(c, d)
  BY <1>2, <1>3
<1> QED
  BY <1>4, <1>5, <1>6 DEF e

\* The dry run and the placement agree in every state.
THEOREM PlanIsPlacement ==
  ASSUME PoolTyped
  PROVE  PlanAgrees
<1>1. \A d \in Demands : Plan(d) = FirstSelected(Tiers(d), ModelOf(d), d)
  BY DEF Plan, Tiers, ModelOf, matching_rule
<1> QED
  BY <1>1, PlacementIsFirst DEF PlanAgrees

LiveOf(S, d) == {e \in S \cap available \cap loaded : is_virtual(d) \/ Serves[e] = d.name}
Suitable(S, d) == IF d.structured THEN LiveOf(S, d) \cap Structured ELSE LiveOf(S, d)

\* The reason the registry gives tells which entries of a scope are up and fit.
LEMMA FailureFacts ==
  ASSUME NEW d \in Demands, NEW S \in SUBSET Entries
  PROVE  Failure(S, ModelOf(d), d) = IF Suitable(S, d) # {} THEN "busy"
                                     ELSE IF LiveOf(S, d) # {} THEN "unsupported"
                                     ELSE "unloaded"
<1> DEFINE model_ready == {e \in S : is_ready(e) /\ ModelOf(d) \in {None, live_model(e)}}
<1>1. d.name # None /\ d.structured \in BOOLEAN
  BY RegistryAssumption
<1>2. model_ready = LiveOf(S, d)
  BY <1>1 DEF LiveOf, ModelOf, live_model, is_ready
<1>3. Pool(model_ready, ModelOf(d), d) = Suitable(S, d)
  <2>1. ASSUME NEW e \in LiveOf(S, d)
        PROVE  eligible(e, ModelOf(d), d.structured) <=> (d.structured => e \in Structured)
    BY <1>1 DEF LiveOf, ModelOf, live_model, is_ready, eligible
  <2> QED
    BY <1>2, <2>1 DEF Pool, Suitable
<1>4. Failure(S, ModelOf(d), d) = IF model_ready = {} THEN "unloaded"
                                  ELSE IF Pool(model_ready, ModelOf(d), d) = {} THEN "unsupported"
                                  ELSE "busy"
  BY DEF Failure
<1>5. Suitable(S, d) \subseteq LiveOf(S, d)
  BY DEF Suitable
<1> HIDE DEF model_ready
<1> QED
  BY <1>2, <1>3, <1>4, <1>5

\* A refusal is never wrong about why, whatever the state of the pool.
THEOREM RefusalReason ==
  ASSUME PoolTyped
  PROVE  HonestRefusal
<1> SUFFICES ASSUME NEW d \in Demands, Placement(d) = None
             PROVE  LET scope == UNION {Tiers(d)[i] : i \in DOMAIN Tiers(d)}
                    IN  /\ \A e \in scope : ~CanServe(e, d)
                        /\ Refusal(d) = IF Suitable(scope, d) # {} THEN "busy"
                                        ELSE IF LiveOf(scope, d) # {} THEN "unsupported"
                                        ELSE "unloaded"
  BY DEF HonestRefusal, Suitable, LiveOf
<1> DEFINE scope == UNION {Tiers(d)[i] : i \in DOMAIN Tiers(d)}
<1>1. Tiers(d) \in Seq(SUBSET Entries) /\ FirstSelected(Tiers(d), ModelOf(d), d) = None
  BY TiersAreScopes, PlacementIsFirst
<1>2. \A i \in DOMAIN Tiers(d) : Able(Pool(Tiers(d)[i], ModelOf(d), d)) = {}
  BY <1>1, FirstSelectedFacts
<1>3. \A i \in DOMAIN Tiers(d) : Tiers(d)[i] \in SUBSET Entries
  BY <1>1
<1>4. \A e \in scope : ~CanServe(e, d)
  <2>1. \A i \in DOMAIN Tiers(d) : \A e \in Tiers(d)[i] : ~CanServe(e, d)
    BY <1>2, <1>3, AbleIsCanServe
  <2> QED
    BY <2>1
<1>5. CASE is_virtual(d)
  <2>1. Tiers(d) = Steps[d.name] /\ ModelOf(d) = None
    BY <1>5 DEF Tiers, ModelOf
  <2> DEFINE why(i) == Failure(Tiers(d)[i], ModelOf(d), d)
             seen == {why(i) : i \in DOMAIN Tiers(d)}
  <2>2. Refusal(d) = IF "busy" \in seen THEN "busy"
                     ELSE IF "unsupported" \in seen THEN "unsupported" ELSE "unloaded"
    BY <1>5, <2>1 DEF Refusal
  <2>3. \A i \in DOMAIN Tiers(d) :
          why(i) = IF Suitable(Tiers(d)[i], d) # {} THEN "busy"
                   ELSE IF LiveOf(Tiers(d)[i], d) # {} THEN "unsupported" ELSE "unloaded"
    BY <1>3, FailureFacts
  <2> HIDE DEF why
  <2>4. "busy" \in seen <=> \E i \in DOMAIN Tiers(d) : Suitable(Tiers(d)[i], d) # {}
    BY <2>3
  <2>5. "busy" \notin seen =>
          ("unsupported" \in seen <=> \E i \in DOMAIN Tiers(d) : LiveOf(Tiers(d)[i], d) # {})
    BY <2>3, <2>4
  <2>6. Suitable(scope, d) # {} <=> \E i \in DOMAIN Tiers(d) : Suitable(Tiers(d)[i], d) # {}
    BY DEF Suitable, LiveOf
  <2>7. LiveOf(scope, d) # {} <=> \E i \in DOMAIN Tiers(d) : LiveOf(Tiers(d)[i], d) # {}
    BY DEF LiveOf
  <2> HIDE DEF seen, scope
  <2> QED
    BY <1>4, <2>2, <2>4, <2>5, <2>6, <2>7, Zenon DEF scope
<1>6. CASE ~is_virtual(d)
  <2>1. scope = Entries
    <3>1. Tiers(d) = <<Entries>> \/ Tiers(d) = <<Preferred[d.name], Entries>>
      BY <1>6 DEF Tiers
    <3>2. \E i \in DOMAIN Tiers(d) : Tiers(d)[i] = Entries
      BY <3>1
    <3> QED
      BY <1>3, <3>2
  <2>2. Refusal(d) = Failure(Entries, ModelOf(d), d)
    BY <1>6 DEF Refusal, ModelOf
  <2> QED
    BY <1>4, <2>1, <2>2, FailureFacts, Zenon
<1> QED
  BY <1>5, <1>6, Zenon
-----------------------------------------------------------------------------
(* Invariants of the pool                                                  *)

\* A handler holds a lease exactly while it serves, a remote one while it
\* streams; POSTs are within the retries, and tokens follow a POST.
StreamFollowsLease ==
  \A h \in Handlers :
    /\ pc[h] = "idle" <=> lease[h] = None
    /\ pc[h] \in {"idle", "local", "fresh"} => attempts[h] = 0
    /\ pc[h] \in {"idle", "local", "fresh", "posting"} => index[h] = 0
    /\ attempts[h] <= 1 + MaxRetries

IInv == TypeOK /\ LeasesCounted /\ StreamFollowsLease

On(e) == {h \in Handlers : lease[h] = e}

\* Taking a lease adds one handler to its entry, on which there was room.
LEMMA AcquireCounts ==
  ASSUME IInv, NEW h \in Handlers, NEW d \in Demands, Acquire(h, d)
  PROVE  LeasesCounted'
<1> DEFINE p == Placement(d)
<1>1. p \in Entries /\ in_flight[p] < MaxInFlight[p]
  <2>1. PolicyRespected /\ p # None
    BY PlacementPolicy DEF IInv, TypeOK, PoolTyped, Acquire
  <2>2. CanServe(p, d) /\ \E i \in DOMAIN Tiers(d) : p \in Tiers(d)[i]
    BY <2>1 DEF PolicyRespected
  <2>3. p \in Entries
    BY <2>2, TiersAreScopes
  <2> QED
    BY <2>2, <2>3 DEF CanServe
<1>2. /\ lease' = [lease EXCEPT ![h] = p]
      /\ in_flight' = [in_flight EXCEPT ![p] = @ + 1]
      /\ lease[h] = None
  BY DEF Acquire, IInv, StreamFollowsLease
<1> HIDE DEF p
<1>3. SUFFICES ASSUME NEW e \in Entries
               PROVE  in_flight'[e] = Cardinality(On(e)') /\ in_flight'[e] <= MaxInFlight[e]
  BY DEF LeasesCounted, On
<1>4. /\ in_flight[e] = Cardinality(On(e)) /\ in_flight[e] <= MaxInFlight[e]
      /\ in_flight[e] \in Nat /\ MaxInFlight[e] \in Nat
      /\ lease \in [Handlers -> Entries \cup {None}] /\ in_flight \in [Entries -> Nat]
  BY RegistryAssumption, Zenon DEF IInv, LeasesCounted, On, TypeOK
<1>5. CASE e = p
  <2>1. On(e)' = On(e) \cup {h} /\ h \notin On(e)
    BY <1>1, <1>2, <1>4, <1>5, RegistryAssumption DEF On
  <2>2. IsFiniteSet(On(e))
    BY PoolAssumption, FS_Subset DEF On
  <2>3. Cardinality(On(e)') = Cardinality(On(e)) + 1
    BY <2>1, <2>2, FS_AddElement, Zenon
  <2> QED
    BY <1>1, <1>2, <1>4, <1>5, <2>3
<1>6. CASE e # p
  <2>1. On(e)' = On(e)
    BY <1>1, <1>2, <1>4, <1>6, RegistryAssumption DEF On
  <2> QED
    BY <1>1, <1>2, <1>4, <1>6, <2>1
<1> QED
  BY <1>5, <1>6

\* Finishing takes it away again.
LEMMA FinishCounts ==
  ASSUME IInv, NEW h \in Handlers, lease[h] # None, NEW how, NEW left, Finish(h, how, left)
  PROVE  LeasesCounted'
<1> DEFINE p == lease[h]
<1>1. /\ p \in Entries /\ lease \in [Handlers -> Entries \cup {None}]
      /\ in_flight \in [Entries -> Nat] /\ None \notin Entries
  BY RegistryAssumption DEF IInv, TypeOK
<1>2. \A e \in Entries :
        /\ IsFiniteSet(On(e)) /\ in_flight[e] = Cardinality(On(e))
        /\ in_flight[e] <= MaxInFlight[e] /\ MaxInFlight[e] \in Nat
  BY PoolAssumption, RegistryAssumption, FS_Subset DEF IInv, LeasesCounted, On
<1>3. h \in On(p)
  BY DEF On
<1>4. Cardinality(On(p) \ {h}) = Cardinality(On(p)) - 1 /\ in_flight[p] > 0
  BY <1>1, <1>2, <1>3, FS_RemoveElement, FS_EmptySet
<1>5. /\ lease' = [lease EXCEPT ![h] = None]
      /\ in_flight' = [in_flight EXCEPT ![p] = in_flight[p] - 1]
  BY <1>4, Zenon DEF Finish, Ends
<1>6. SUFFICES ASSUME NEW e \in Entries
               PROVE  in_flight'[e] = Cardinality(On(e)') /\ in_flight'[e] <= MaxInFlight[e]
  BY DEF LeasesCounted, On
<1>7. CASE e = p
  <2>1. On(e)' = On(e) \ {h}
    BY <1>1, <1>5, <1>7 DEF On
  <2> QED
    BY <1>1, <1>2, <1>4, <1>5, <1>7, <2>1
<1>8. CASE e # p
  <2>1. On(e)' = On(e)
    BY <1>1, <1>5, <1>8 DEF On
  <2> QED
    BY <1>1, <1>2, <1>5, <1>8, <2>1
<1> QED
  BY <1>7, <1>8

\* What a step may do to the POSTs of the handlers.
PostsOnlyBeforeTokens ==
  \A h \in Handlers :
    /\ attempts'[h] <= 1 + MaxRetries
    /\ index[h] > 0 => attempts'[h] \in {attempts[h], 0}

Kept == IInv' /\ PostsOnlyBeforeTokens

\* A request that ends leaves everything in order.
LEMMA FinishKeeps ==
  ASSUME IInv, NEW h \in Handlers, pc[h] # "idle",
         NEW how \in {"ok", "error", "cancelled"}, NEW left \in SUBSET Handlers,
         Finish(h, how, left)
  PROVE  Kept
<1>1. lease[h] # None /\ lease[h] \in Entries
  BY DEF IInv, StreamFollowsLease, TypeOK
<1>2. LeasesCounted'
  BY <1>1, FinishCounts
<1>3. TypeOK'
  <2>1. (IF in_flight[lease[h]] > 0 THEN in_flight[lease[h]] - 1 ELSE in_flight[lease[h]]) \in Nat
    BY <1>1 DEF IInv, TypeOK
  <2> QED
    BY <2>1, Zenon DEF IInv, TypeOK, Finish, Ends, health
<1>4. StreamFollowsLease' /\ PostsOnlyBeforeTokens
  BY PoolAssumption DEF IInv, TypeOK, StreamFollowsLease, PostsOnlyBeforeTokens, Finish, Ends
<1> QED
  BY <1>2, <1>3, <1>4 DEF IInv, Kept

\* A POST within the retries, before any token, leaves everything in order.
LEMMA PostKeeps ==
  ASSUME IInv, NEW h \in Handlers, pc[h] # "idle", attempts[h] <= MaxRetries,
         index[h] = 0, Post(h)
  PROVE  Kept
<1>1. TypeOK' /\ LeasesCounted'
  BY DEF IInv, TypeOK, LeasesCounted, Post, still, health
<1>2. StreamFollowsLease' /\ PostsOnlyBeforeTokens
  BY PoolAssumption
  DEF IInv, TypeOK, StreamFollowsLease, PostsOnlyBeforeTokens, Post, still
<1> QED
  BY <1>1, <1>2 DEF IInv, Kept

\* So does a step of the stream that neither posts nor finishes.
LEMMA ReadKeeps ==
  ASSUME IInv, NEW h \in Handlers,
         Accepted(h) \/ Token(h) \/ NextAnext(h) \/ GoneSending(h)
  PROVE  Kept
<1> USE DEF Accepted, Token, NextAnext, GoneSending
<1>1. TypeOK' /\ LeasesCounted'
  <2>1. LeasesCounted'
    BY DEF IInv, LeasesCounted, still
  <2>2. TypeOK'
    BY DEF IInv, TypeOK, still, health, stream
  <2> QED
    BY <2>1, <2>2
<1>2. StreamFollowsLease' /\ PostsOnlyBeforeTokens
  BY PoolAssumption
  DEF IInv, TypeOK, StreamFollowsLease, PostsOnlyBeforeTokens, still, stream
<1> QED
  BY <1>1, <1>2 DEF IInv, Kept

\* Health changes only touch the health of the entries.
LEMMA HealthKeeps ==
  ASSUME IInv, Registry, UNCHANGED <<pc, lease, stream, outcome, gone>>
  PROVE  Kept
<1>1. in_flight' = in_flight /\ loaded' \subseteq Entries /\ available' \subseteq Entries
        /\ up' \subseteq Remote /\ probing' \in Remote \cup {None} /\ answer' \in BOOLEAN
  <2>0. /\ loaded \subseteq Entries /\ available \subseteq Entries /\ up \subseteq Remote
        /\ probing \in Remote \cup {None} /\ answer \in BOOLEAN
        /\ Remote \subseteq Entries /\ Entries \subseteq Nat
    BY RegistryAssumption DEF IInv, TypeOK
  <2>1. ASSUME NEW e \in Nat, NEW found \in SUBSET Entries, Continue(e, found)
        PROVE  /\ in_flight' = in_flight /\ loaded' = loaded /\ up' = up
               /\ available' \subseteq Entries
               /\ probing' \in Remote \cup {None} /\ answer' \in BOOLEAN
    <3> DEFINE later == {r \in Remote : r > e}
               next == IF later = {} THEN None ELSE Min(later)
    <3>1. later # {} => Min(later) \in later
      <4>1. later \in SUBSET Nat
        BY <2>0, Zenon
      <4> HIDE DEF later
      <4> QED
        BY <4>1, MinIsLeast
    <3>2. next \in Remote \cup {None}
      BY <3>1
    <3>3. /\ in_flight' = in_flight /\ loaded' = loaded /\ up' = up
          /\ available' \subseteq found \cup Entries /\ probing' = next
          /\ answer' = (next # None /\ Answers(next))
      BY <2>1 DEF Continue
    <3> HIDE DEF next
    <3> QED
      BY <3>2, <3>3
  <2>2. CASE RefreshHealth
    BY <2>0, <2>1, <2>2, Zenon DEF RefreshHealth
  <2>3. CASE ProbeReturns
    <3>1. PICK found \in SUBSET Entries : Continue(probing, found) /\ probing \in Nat
      BY <2>0, <2>3 DEF ProbeReturns
    <3> QED
      BY <2>0, <2>1, <3>1, Zenon
  <2>4. CASE PrimaryChanges
    BY <2>0, <2>4 DEF PrimaryChanges
  <2>5. CASE ServerChanges
    BY <2>0, <2>5 DEF ServerChanges
  <2> QED
    BY <2>2, <2>3, <2>4, <2>5 DEF Registry
<1>2. TypeOK' /\ LeasesCounted'
  <2>1. LeasesCounted'
    BY <1>1 DEF IInv, LeasesCounted
  <2>2. /\ TypeOK /\ UNCHANGED <<in_flight, pc, lease, attempts, index, outcome, gone>>
    BY <1>1 DEF IInv, stream
  <2> QED
    BY <1>1, <2>1, <2>2 DEF TypeOK
<1>3. StreamFollowsLease' /\ PostsOnlyBeforeTokens
  BY PoolAssumption DEF IInv, TypeOK, StreamFollowsLease, PostsOnlyBeforeTokens, stream
<1> QED
  BY <1>2, <1>3 DEF IInv, Kept

\* Every step keeps the inductive invariant and the rule about POSTs.
LEMMA StepKeeps ==
  ASSUME IInv, [Next]_vars
  PROVE  Kept
<1>1. ASSUME NEW h \in Handlers, NEW d \in Demands, Refuse(h, d)
      PROVE  Kept
  <2>1. TypeOK' /\ LeasesCounted'
    BY <1>1 DEF IInv, TypeOK, LeasesCounted, Refuse, health, stream
  <2>2. StreamFollowsLease' /\ PostsOnlyBeforeTokens
    BY <1>1, PoolAssumption
    DEF IInv, TypeOK, StreamFollowsLease, PostsOnlyBeforeTokens, Refuse, stream
  <2> QED
    BY <2>1, <2>2 DEF IInv, Kept
<1>2. ASSUME NEW h \in Handlers, NEW d \in Demands, Acquire(h, d)
      PROVE  Kept
  <2>1. LeasesCounted'
    BY <1>2, AcquireCounts
  <2>2. Placement(d) \in Entries
    <3>1. PolicyRespected /\ Placement(d) # None
      BY <1>2, PlacementPolicy DEF IInv, TypeOK, PoolTyped, Acquire
    <3>2. \E i \in DOMAIN Tiers(d) : Placement(d) \in Tiers(d)[i]
      BY <3>1 DEF PolicyRespected
    <3> QED
      BY <3>2, TiersAreScopes
  <2>3. TypeOK'
    BY <1>2, <2>2 DEF IInv, TypeOK, Acquire, health, stream
  <2>4. StreamFollowsLease' /\ PostsOnlyBeforeTokens
    BY <1>2, <2>2, PoolAssumption, RegistryAssumption
    DEF IInv, TypeOK, StreamFollowsLease, PostsOnlyBeforeTokens, Acquire, stream
  <2> QED
    BY <2>1, <2>3, <2>4 DEF IInv, Kept
<1>3. ASSUME NEW h \in Handlers, LocalEnds(h)
      PROVE  Kept
  BY <1>3, FinishKeeps DEF LocalEnds
<1>4. ASSUME NEW h \in Handlers, Anext(h)
      PROVE  Kept
  <2>1. CASE FirstAnext(h)
    <3>1. attempts[h] <= MaxRetries /\ index[h] = 0
      BY <2>1, PoolAssumption DEF FirstAnext, IInv, StreamFollowsLease
    <3> QED
      BY <2>1, <3>1, PostKeeps DEF FirstAnext
  <2>2. CASE Rejected(h) \/ Done(h)
    BY <2>2, FinishKeeps DEF Rejected, Done
  <2>3. CASE Breaks(h)
    <3>1. CASE index[h] > 0 \/ attempts[h] > MaxRetries
      BY <2>3, <3>1, FinishKeeps DEF Breaks, Waiting
    <3>2. CASE ~(index[h] > 0 \/ attempts[h] > MaxRetries)
      <4>1. attempts[h] <= MaxRetries /\ index[h] = 0
        BY <3>2, PoolAssumption DEF IInv, TypeOK
      <4> QED
        BY <2>3, <3>2, <4>1, PostKeeps DEF Breaks, Waiting
    <3> QED
      BY <3>1, <3>2
  <2>4. CASE Accepted(h) \/ Token(h) \/ NextAnext(h)
    BY <2>4, ReadKeeps
  <2> QED
    BY <1>4, <2>1, <2>2, <2>3, <2>4 DEF Anext
<1>5. ASSUME NEW h \in Handlers, Gone(h)
      PROVE  Kept
  <2>1. CASE GoneWaiting(h) \/ GoneFresh(h) \/ Closed(h)
    BY <2>1, FinishKeeps DEF GoneWaiting, GoneFresh, Closed, Waiting
  <2>2. CASE GoneSending(h)
    BY <2>2, ReadKeeps
  <2> QED
    BY <1>5, <2>1, <2>2 DEF Gone
<1>6. CASE UNCHANGED vars
  <2>1. TypeOK' /\ LeasesCounted'
    BY <1>6 DEF IInv, TypeOK, LeasesCounted, vars, health, stream
  <2>2. StreamFollowsLease' /\ PostsOnlyBeforeTokens
    BY <1>6, PoolAssumption
    DEF IInv, TypeOK, StreamFollowsLease, PostsOnlyBeforeTokens, vars, stream
  <2> QED
    BY <2>1, <2>2 DEF IInv, Kept
<1> QED
  BY <1>1, <1>2, <1>3, <1>4, <1>5, <1>6, HealthKeeps DEF Next

\* A fresh pool is in order.
LEMMA InitHolds == Init => IInv
<1> SUFFICES ASSUME Init PROVE IInv
  OBVIOUS
<1>1. TypeOK
  BY RegistryAssumption, Zenon DEF Init, RegistryInit, TypeOK
<1>2. LeasesCounted
  <2>1. \A e \in Entries : {h \in Handlers : lease[h] = e} = {}
    BY RegistryAssumption DEF Init
  <2> QED
    <3>1. \A e \in Entries : in_flight[e] = 0 /\ 0 <= MaxInFlight[e]
      BY RegistryAssumption DEF Init, RegistryInit
    <3> QED
      BY <2>1, <3>1, FS_EmptySet DEF LeasesCounted
<1>3. StreamFollowsLease
  BY PoolAssumption DEF Init, StreamFollowsLease
<1> QED
  BY <1>1, <1>2, <1>3 DEF IInv

\* No backend of any pool is ever given more requests than its limit, and its
\* count is always the number of requests it serves.
THEOREM PoolLeases == Spec => []LeasesCounted
<1>1. IInv /\ [Next]_vars => IInv'
  BY StepKeeps DEF Kept
<1>2. IInv => LeasesCounted
  BY DEF IInv
<1> QED
  BY InitHolds, <1>1, <1>2, PTL DEF Spec

\* Placement, refusal and dry run are right in every reachable state.
THEOREM PoolPlacement == Spec => []PlacementIsRight
<1>1. IInv /\ [Next]_vars => IInv'
  BY StepKeeps DEF Kept
<1>2. IInv => PlacementIsRight
  BY PlacementPolicy, RefusalReason, PlanIsPlacement DEF IInv, TypeOK, PoolTyped, PlacementIsRight
<1> QED
  BY InitHolds, <1>1, <1>2, PTL DEF Spec

\* Whatever servers and clients do, an answer comes from one POST, and there are
\* at most MaxRetries more.
THEOREM PoolRetries == Spec => RetryOnlyBeforeTokens
<1>1. IInv /\ [Next]_vars => IInv'
  BY StepKeeps DEF Kept
<1>2. IInv /\ [Next]_vars => [PostsOnlyBeforeTokens]_vars
  BY StepKeeps DEF Kept
<1> QED
  BY InitHolds, <1>1, <1>2, PTL DEF Spec, RetryOnlyBeforeTokens, PostsOnlyBeforeTokens
=============================================================================
