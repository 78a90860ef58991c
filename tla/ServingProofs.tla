---------------------------- MODULE ServingProofs -----------------------------
(***************************************************************************)
(* Theorems about Serving for every finite set of requests and every       *)
(* number of keys, backends, slots and places, and about the remote backend*)
(* it may generate with.                                                   *)
(*                                                                         *)
(* The inductive invariant of Serving adds to the two properties the       *)
(* outcome that belongs to each place of a handler, and that a local       *)
(* backend generates only for a running request.  The properties count     *)
(* requests, so each is split in two: a lemma says what happens to the     *)
(* count when one request enters or leaves the set it counts, and the step *)
(* says which action moves which request.                                  *)
(***************************************************************************)
EXTENDS Serving, RemoteBackend, FiniteSetTheorems, TLAPS

\* The limits, in seconds, of a leaf that names no prover.
USE SMTT(30), ZenonT(30)

Places == {"new", "queued", "streaming", "closing", "done", "cut"}
Outcomes == {"none", "refused", "failed", "gone", "ok", "error", "cancelled"}

Types ==
  /\ pc \in [Requests -> Places] /\ outcome \in [Requests -> Outcomes]
  /\ on \in [Requests -> Backends \cup {None}]
  /\ inflight \in [Keys -> Nat] /\ in_flight \in [Backends -> Nat]
  /\ running \subseteq Requests
  /\ generating \in [LocalBackends -> Requests \cup {None}]
  /\ requests_active \in Nat
  /\ routed \in [Requests -> Nat] /\ billed \in [Requests -> {0, 1}]

\* The outcome and the lease that belong to each place of a handler.
Shape ==
  \A r \in Requests :
    /\ pc[r] \in {"streaming", "closing"} => on[r] \in Backends
    /\ outcome[r] = "none" <=> pc[r] \in {"new", "queued", "streaming"}
    /\ pc[r] \in {"closing", "cut"} => outcome[r] \in {"ok", "error", "cancelled"}

\* A generation runs for a request in service or cut short, and a local backend
\* is GENERATING for a running generation only.
Generations ==
  /\ \A r \in running : pc[r] \in {"streaming", "closing", "cut"}
  /\ \A b \in LocalBackends : generating[b] # None => generating[b] \in running

IInv ==
  Types /\ Shape /\ Generations /\ LeasesMatchService /\ KeySlotsAccounted /\ BooksAreExact
-----------------------------------------------------------------------------
(* Counting requests                                                       *)

(* Every set of requests is finite and its size is a natural number. *)
LEMMA FiniteParts ==
  ASSUME NEW S \in SUBSET Requests
  PROVE  IsFiniteSet(S) /\ Cardinality(S) \in Nat
  BY ServingAssumption, FS_Subset, FS_CardinalityType

(* A request that joins a set of requests makes it larger by one. *)
LEMMA OneMore ==
  ASSUME NEW S \in SUBSET Requests, NEW r \in Requests, r \notin S
  PROVE  Cardinality(S \cup {r}) = Cardinality(S) + 1
  BY FiniteParts, FS_AddElement

(* A request that leaves a set of requests makes it smaller by one. *)
LEMMA OneLess ==
  ASSUME NEW S \in SUBSET Requests, NEW r \in S
  PROVE  Cardinality(S \ {r}) = Cardinality(S) - 1 /\ Cardinality(S) > 0
<1>1. Cardinality(S \ {r}) = Cardinality(S) - 1
  BY FiniteParts, FS_RemoveElement
<1>2. Cardinality(S \ {r}) \in Nat /\ Cardinality(S) \in Nat
  BY FiniteParts
<1> QED BY <1>1, <1>2

\* The scheduler's contract counts as this module does.
LEMMA SameCardinality == \A S : Scheduler!Cardinality(S) = Cardinality(S)
  BY DEF Cardinality, Scheduler!Cardinality

\* The requests a key's slots are counted for.
Held(r) == pc[r] \in {"queued", "streaming", "closing"} \/ outcome[r] = "gone"
HeldOf(k) == {r \in Requests : KeyOf[r] = k /\ Held(r)}

(* The accounting of the per-key admission slots, with the requests that hold a key's slot
   named. *)
LEMMA HeldIsCounted ==
  KeySlotsAccounted <=>
    \A k \in Keys : inflight[k] = Cardinality(HeldOf(k)) /\ inflight[k] <= MaxPerKey
<1>1. \A k \in Keys :
        HeldOf(k) = Holding(k) \cup {r \in Requests : KeyOf[r] = k /\ outcome[r] = "gone"}
  BY DEF HeldOf, Held, Holding
<1> QED BY <1>1 DEF KeySlotsAccounted

(* The same accounting in the state after a step. *)
LEMMA HeldIsCountedNext ==
  KeySlotsAccounted' <=>
    \A k \in Keys : inflight'[k] = Cardinality(HeldOf(k)') /\ inflight'[k] <= MaxPerKey
<1>1. \A k \in Keys :
        HeldOf(k)' = Holding(k)' \cup {r \in Requests : KeyOf[r] = k /\ outcome'[r] = "gone"}
  BY DEF HeldOf, Held, Holding
<1> QED BY <1>1 DEF KeySlotsAccounted

(* A step that changes neither the admission counters nor who holds a slot keeps the
   accounting. *)
LEMMA HeldSame ==
  ASSUME KeySlotsAccounted, inflight' = inflight, \A q \in Requests : Held(q)' <=> Held(q)
  PROVE  KeySlotsAccounted'
<1>1. \A k \in Keys : HeldOf(k)' = HeldOf(k)
  BY DEF HeldOf
<1> QED BY <1>1, HeldIsCounted, HeldIsCountedNext

\* Limiter.acquire for a request that was not counted.
LEMMA HeldMore ==
  ASSUME KeySlotsAccounted, Types, NEW r \in Requests, MayHold(r), inflight' = Hold(r),
         ~Held(r), Held(r)', \A q \in Requests \ {r} : Held(q)' <=> Held(q)
  PROVE  KeySlotsAccounted'
<1> SUFFICES ASSUME NEW k \in Keys
             PROVE  inflight'[k] = Cardinality(HeldOf(k)') /\ inflight'[k] <= MaxPerKey
  BY HeldIsCountedNext
<1>1. inflight[k] = Cardinality(HeldOf(k)) /\ inflight[k] <= MaxPerKey /\ inflight[k] \in Nat
  BY HeldIsCounted DEF Types
<1>2. CASE KeyOf[r] = k
  <2>1. HeldOf(k)' = HeldOf(k) \cup {r} /\ r \notin HeldOf(k) /\ HeldOf(k) \in SUBSET Requests
    BY <1>2 DEF HeldOf
  <2>2. Cardinality(HeldOf(k)') = Cardinality(HeldOf(k)) + 1
    BY <2>1, OneMore
  <2>3. inflight'[k] = inflight[k] + 1 /\ inflight[k] < MaxPerKey
    BY <1>2, ServingAssumption DEF Hold, Inc, MayHold, Types
  <2> QED BY <1>1, <2>2, <2>3, ServingAssumption
<1>3. CASE KeyOf[r] # k
  <2>1. HeldOf(k)' = HeldOf(k)
    BY <1>3 DEF HeldOf
  <2>2. inflight'[k] = inflight[k]
    BY <1>3 DEF Hold, Inc, Types
  <2> QED BY <1>1, <2>1, <2>2
<1> QED BY <1>2, <1>3

\* Limiter.release for a request that was counted: never at zero.
LEMMA HeldLess ==
  ASSUME KeySlotsAccounted, Types, NEW r \in Requests, inflight' = Free(r),
         Held(r), ~Held(r)', \A q \in Requests \ {r} : Held(q)' <=> Held(q)
  PROVE  KeySlotsAccounted'
<1> SUFFICES ASSUME NEW k \in Keys
             PROVE  inflight'[k] = Cardinality(HeldOf(k)') /\ inflight'[k] <= MaxPerKey
  BY HeldIsCountedNext
<1>1. inflight[k] = Cardinality(HeldOf(k)) /\ inflight[k] <= MaxPerKey /\ inflight[k] \in Nat
  BY HeldIsCounted DEF Types
<1>2. CASE KeyOf[r] = k
  <2>1. HeldOf(k)' = HeldOf(k) \ {r} /\ r \in HeldOf(k) /\ HeldOf(k) \in SUBSET Requests
    BY <1>2 DEF HeldOf
  <2>2. Cardinality(HeldOf(k)') = Cardinality(HeldOf(k)) - 1 /\ Cardinality(HeldOf(k)) > 0
    BY <2>1, OneLess
  <2>3. inflight'[k] = inflight[k] - 1
    BY <1>1, <1>2, <2>2, ServingAssumption DEF Free, Dec, Types
  <2> QED BY <1>1, <2>2, <2>3, ServingAssumption
<1>3. CASE KeyOf[r] # k
  <2>1. HeldOf(k)' = HeldOf(k)
    BY <1>3 DEF HeldOf
  <2>2. inflight'[k] = inflight[k]
    BY <1>3 DEF Free, Dec, Types
  <2> QED BY <1>1, <2>1, <2>2
<1> QED BY <1>2, <1>3
-----------------------------------------------------------------------------
(* Requests in service, and the gauge                                      *)

Served(b) == {r \in InService : on[r] = b}

(* The accounting of the scheduler's slots and the backends' leases, with the requests each
   backend serves named. *)
LEMMA ServedIsCounted ==
  LeasesMatchService <=>
    /\ active = InService /\ line = {r \in Requests : pc[r] = "queued"}
    /\ Cardinality(active) <= Slots /\ Cardinality(line) <= Room
    /\ \A b \in Backends : in_flight[b] = Cardinality(Served(b)) /\ in_flight[b] <= MaxInFlight[b]
  BY DEF LeasesMatchService, Served

(* The same accounting in the state after a step. *)
LEMMA ServedIsCountedNext ==
  LeasesMatchService' <=>
    /\ active' = InService' /\ line' = {r \in Requests : pc'[r] = "queued"}
    /\ Cardinality(active') <= Slots /\ Cardinality(line') <= Room
    /\ \A b \in Backends : in_flight'[b] = Cardinality(Served(b)') /\ in_flight'[b] <= MaxInFlight[b]
  BY DEF LeasesMatchService, Served

\* What an action that serves nobody new leaves alone.
SameService ==
  /\ active' = active /\ in_flight' = in_flight /\ on' = on
  /\ InService' = InService

(* A step that leaves the requests in service alone, and the queue within its room, keeps the
   accounting of the leases. *)
LEMMA ServiceSame ==
  ASSUME LeasesMatchService, SameService,
         line' = {q \in Requests : pc'[q] = "queued"}, Cardinality(line') <= Room
  PROVE  LeasesMatchService'
<1>1. \A b \in Backends : Served(b)' = Served(b)
  BY DEF Served, SameService
<1> QED BY <1>1, ServedIsCounted, ServedIsCountedNext DEF SameService

\* The registry's lease of a request that gets a backend with room.
LEMMA ServiceMore ==
  ASSUME LeasesMatchService, Types, NEW r \in Requests, NEW b \in Backends, HasRoom(b),
         r \notin InService, Cardinality(active) < Slots,
         active' = active \cup {r}, InService' = InService \cup {r},
         in_flight' = Inc(in_flight, b), on' = [on EXCEPT ![r] = b],
         line' = {q \in Requests : pc'[q] = "queued"}, Cardinality(line') <= Room
  PROVE  LeasesMatchService'
<1>1. active = InService /\ active \in SUBSET Requests /\ Cardinality(active) \in Nat
  BY ServedIsCounted, FiniteParts DEF InService
<1>2. Cardinality(active') <= Slots
  <2>1. Cardinality(active \cup {r}) = Cardinality(active) + 1
    BY <1>1, OneMore
  <2> QED BY <1>1, <2>1, ServingAssumption
<1>3. ASSUME NEW c \in Backends
      PROVE  in_flight'[c] = Cardinality(Served(c)') /\ in_flight'[c] <= MaxInFlight[c]
  <2>1. in_flight[c] = Cardinality(Served(c)) /\ in_flight[c] <= MaxInFlight[c]
        /\ in_flight[c] \in Nat
    BY ServedIsCounted DEF Types
  <2>2. CASE c = b
    <3>1. Served(c)' = Served(c) \cup {r} /\ r \notin Served(c) /\ Served(c) \in SUBSET Requests
      BY <1>1, <2>2 DEF Served, Types
    <3>2. Cardinality(Served(c)') = Cardinality(Served(c)) + 1
      BY <3>1, OneMore
    <3>3. in_flight'[c] = in_flight[c] + 1 /\ in_flight[c] < MaxInFlight[c]
      BY <2>2 DEF Inc, HasRoom, Types
    <3> QED BY <2>1, <3>2, <3>3, ServingAssumption
  <2>3. CASE c # b
    <3>1. Served(c)' = Served(c)
      BY <1>1, <2>3 DEF Served, Types
    <3>2. in_flight'[c] = in_flight[c]
      BY <2>3 DEF Inc, Types
    <3> QED BY <2>1, <3>1, <3>2
  <2> QED BY <2>2, <2>3
<1> QED BY <1>1, <1>2, <1>3, ServedIsCountedNext

\* The exit of a request in service: the leases it gives back are counted ones.
LEMMA ServiceLess ==
  ASSUME LeasesMatchService, Types, Shape, NEW r \in InService,
         active' = active \ {r}, InService' = InService \ {r},
         in_flight' = Dec(in_flight, on[r]), on' = [on EXCEPT ![r] = None],
         line' = line, line' = {q \in Requests : pc'[q] = "queued"}
  PROVE  LeasesMatchService' /\ in_flight' \in [Backends -> Nat]
<1>1. /\ active = InService /\ active \in SUBSET Requests /\ Cardinality(active) \in Nat
      /\ r \in Requests /\ on[r] \in Backends
  BY ServedIsCounted, FiniteParts DEF InService, Shape
<1>2. Cardinality(active') <= Slots /\ Cardinality(line') <= Room
  <2>1. Cardinality(active \ {r}) = Cardinality(active) - 1
    BY <1>1, OneLess
  <2> QED BY <1>1, <2>1, ServedIsCounted, ServingAssumption
<1>3. ASSUME NEW c \in Backends
      PROVE  /\ in_flight'[c] = Cardinality(Served(c)') /\ in_flight'[c] <= MaxInFlight[c]
             /\ in_flight'[c] \in Nat
  <2>1. in_flight[c] = Cardinality(Served(c)) /\ in_flight[c] <= MaxInFlight[c]
        /\ in_flight[c] \in Nat
    BY ServedIsCounted DEF Types
  <2>2. CASE c = on[r]
    <3>1. Served(c)' = Served(c) \ {r} /\ r \in Served(c) /\ Served(c) \in SUBSET Requests
      BY <1>1, <2>2, ServingAssumption DEF Served, Types
    <3>2. Cardinality(Served(c)') = Cardinality(Served(c)) - 1 /\ Cardinality(Served(c)) > 0
      BY <3>1, OneLess
    <3>3. in_flight'[c] = in_flight[c] - 1
      BY <2>2 DEF Dec, Types
    <3> QED BY <2>1, <3>2, <3>3, ServingAssumption
  <2>3. CASE c # on[r]
    <3>1. Served(c)' = Served(c)
      BY <1>1, <2>3, ServingAssumption DEF Served, Types
    <3>2. in_flight'[c] = in_flight[c]
      BY <2>3 DEF Dec, Types
    <3> QED BY <2>1, <3>1, <3>2
  <2> QED BY <2>2, <2>3
<1>4. in_flight' \in [Backends -> Nat]
  BY <1>3, Zenon DEF Dec, Types
<1> QED BY <1>1, <1>2, <1>3, <1>4, ServedIsCountedNext

\* The requests the gauge counts.
Gauged(r) == pc[r] \in {"streaming", "closing"} \/ (Streamed(r) /\ billed[r] = 0)
AllGauged == {r \in Requests : Gauged(r)}

(* The gauge of active requests, with the requests it counts named. *)
LEMMA GaugeIsCounted == GaugeIsInService <=> requests_active = Cardinality(AllGauged)
<1>1. AllGauged = InService \cup {r \in Requests : Streamed(r) /\ billed[r] = 0}
  BY DEF AllGauged, Gauged, InService
<1> QED BY <1>1 DEF GaugeIsInService

(* The same gauge in the state after a step. *)
LEMMA GaugeIsCountedNext == GaugeIsInService' <=> requests_active' = Cardinality(AllGauged')
<1>1. AllGauged' = InService' \cup {r \in Requests : Streamed(r)' /\ billed'[r] = 0}
  BY DEF AllGauged, Gauged, InService
<1> QED BY <1>1 DEF GaugeIsInService

(* A step that moves neither the gauge nor the requests it counts keeps the gauge right. *)
LEMMA GaugeSame ==
  ASSUME GaugeIsInService, requests_active' = requests_active,
         \A q \in Requests : Gauged(q)' <=> Gauged(q)
  PROVE  GaugeIsInService'
<1>1. AllGauged' = AllGauged
  BY DEF AllGauged
<1> QED BY <1>1, GaugeIsCounted, GaugeIsCountedNext

(* A request that enters the counted phase as the gauge is incremented keeps the gauge right. *)
LEMMA GaugeMore ==
  ASSUME GaugeIsInService, requests_active' = requests_active + 1,
         NEW r \in Requests, ~Gauged(r), Gauged(r)',
         \A q \in Requests \ {r} : Gauged(q)' <=> Gauged(q)
  PROVE  GaugeIsInService'
<1>1. AllGauged' = AllGauged \cup {r} /\ r \notin AllGauged /\ AllGauged \in SUBSET Requests
  BY DEF AllGauged
<1>2. Cardinality(AllGauged') = Cardinality(AllGauged) + 1
  BY <1>1, OneMore
<1> QED BY <1>2, GaugeIsCounted, GaugeIsCountedNext

(* A request that leaves the counted phase as the gauge is decremented keeps the gauge right,
   and the gauge does not go below zero. *)
LEMMA GaugeLess ==
  ASSUME GaugeIsInService, requests_active' = requests_active - 1,
         NEW r \in Requests, Gauged(r), ~Gauged(r)',
         \A q \in Requests \ {r} : Gauged(q)' <=> Gauged(q)
  PROVE  GaugeIsInService' /\ requests_active' \in Nat
<1>1. AllGauged' = AllGauged \ {r} /\ r \in AllGauged /\ AllGauged \in SUBSET Requests
      /\ AllGauged' \in SUBSET Requests
  BY DEF AllGauged
<1>2. Cardinality(AllGauged') = Cardinality(AllGauged) - 1
  BY <1>1, OneLess
<1>3. Cardinality(AllGauged') \in Nat
  BY <1>1, FiniteParts
<1> QED BY <1>2, <1>3, GaugeIsCounted, GaugeIsCountedNext
-----------------------------------------------------------------------------
(* The ways a handler moves                                                *)

\* The per-key counters stay natural numbers.
LEMMA SlotTypes ==
  ASSUME Types, NEW r \in Requests
  PROVE  Hold(r) \in [Keys -> Nat] /\ Free(r) \in [Keys -> Nat]
<1>1. KeyOf[r] = Local \/ KeyOf[r] \in Keys
  BY ServingAssumption
<1>2. Hold(r) \in [Keys -> Nat]
  BY <1>1 DEF Types, Hold, Inc
<1>3. Free(r) \in [Keys -> Nat]
  BY <1>1 DEF Types, Free, Dec
<1> QED BY <1>2, <1>3

\* A request that ends without having been in service: it was never counted by a
\* backend or the gauge, and only a failed generate() records a route.
LEMMA EndsUnserved ==
  ASSUME IInv, NEW r \in Requests, NEW how \in {"refused", "failed", "gone"},
         pc[r] \in {"new", "queued"}, Ends(r, how),
         active' = active, line' = line \ {r}, inflight' \in [Keys -> Nat],
         routed' = IF how = "failed" THEN Inc(routed, r) ELSE routed,
         UNCHANGED <<on, in_flight, running, generating, requests_active, billed>>
  PROVE  /\ Types' /\ Shape' /\ Generations' /\ LeasesMatchService' /\ BooksAreExact'
         /\ \A q \in Requests \ {r} : Held(q)' <=> Held(q)
         /\ Held(r) <=> pc[r] = "queued"
         /\ Held(r)' <=> how = "gone"
<1> USE DEF IInv
<1>1. /\ pc' = [pc EXCEPT ![r] = "done"] /\ outcome' = [outcome EXCEPT ![r] = how]
      /\ outcome[r] = "none" /\ pc'[r] = "done" /\ outcome'[r] = how
      /\ \A q \in Requests \ {r} : pc'[q] = pc[q] /\ outcome'[q] = outcome[q]
  BY DEF Ends, Types, Shape
<1>2. Types'
  BY <1>1 DEF Types, Inc, Places, Outcomes
<1>3. Shape'
  BY <1>1 DEF Shape
<1>4. Generations'
  BY <1>1 DEF Generations
<1>5. LeasesMatchService'
  <2>1. SameService
    BY <1>1 DEF SameService, InService
  <2>2. line' = {q \in Requests : pc'[q] = "queued"} /\ line \in SUBSET Requests
    BY <1>1, ServedIsCounted
  <2>3. Cardinality(line') <= Room
    <3>1. IsFiniteSet(line) /\ Cardinality(line) \in Nat /\ Cardinality(line') \in Nat
      BY <2>2, FiniteParts
    <3>2. Cardinality(line') <= Cardinality(line)
      BY <3>1, FS_Subset
    <3> QED BY <3>1, <3>2, ServedIsCounted, ServingAssumption
  <2> QED BY <2>1, <2>2, <2>3, ServiceSame
<1>6. GaugeIsInService'
  <2>1. \A q \in Requests : Gauged(q)' <=> Gauged(q)
    BY <1>1 DEF Gauged, Streamed, Ended
  <2> QED BY <2>1, GaugeSame DEF BooksAreExact
<1>7. AccountedOnce'
  <2>1. routed[r] = 0 /\ billed[r] # 1
    BY <1>1 DEF BooksAreExact, AccountedOnce, Streamed, Ended
  <2>2. \A q \in Requests \ {r} : routed'[q] = routed[q]
    BY DEF Inc, Types
  <2>3. routed'[r] = IF how = "failed" THEN 1 ELSE 0
    BY <2>1 DEF Inc, Types
  <2> QED BY <1>1, <2>1, <2>2, <2>3 DEF BooksAreExact, AccountedOnce, Streamed, Ended
<1>8. /\ \A q \in Requests \ {r} : Held(q)' <=> Held(q)
      /\ Held(r) <=> pc[r] = "queued"
      /\ Held(r)' <=> how = "gone"
  BY <1>1 DEF Held
<1> QED BY <1>2, <1>3, <1>4, <1>5, <1>6, <1>7, <1>8 DEF BooksAreExact

\* A request that gets a slot and a backend, from the door or from the queue.
LEMMA BeginsServed ==
  ASSUME IInv, NEW r \in Requests, NEW b \in Backends, NEW slots \in [Keys -> Nat],
         pc[r] \in {"new", "queued"}, Cardinality(active) < Slots, line' = line \ {r},
         GenerateStarts(r, b, slots)
  PROVE  /\ Types' /\ Shape' /\ Generations' /\ LeasesMatchService' /\ BooksAreExact'
         /\ \A q \in Requests \ {r} : Held(q)' <=> Held(q)
         /\ Held(r) <=> pc[r] = "queued"
         /\ Held(r)'
<1> USE DEF IInv
<1>0. HasRoom(b) /\ NotGenerating(b) /\ Begin(r, b, slots, requests_active + 1)
  BY DEF GenerateStarts
<1>1. /\ pc' = [pc EXCEPT ![r] = "streaming"] /\ outcome' = outcome
      /\ outcome[r] = "none" /\ pc'[r] = "streaming" /\ on'[r] = b
      /\ \A q \in Requests \ {r} : pc'[q] = pc[q] /\ on'[q] = on[q]
  BY <1>0 DEF Begin, Types, Shape
<1>2. Types'
  <2>1. in_flight' \in [Backends -> Nat] /\ on' \in [Requests -> Backends \cup {None}]
    BY <1>0 DEF Begin, Inc, Types
  <2>2. generating' \in [LocalBackends -> Requests \cup {None}] /\ running' \subseteq Requests
    BY <1>0 DEF Begin, Types
  <2>3. pc' \in [Requests -> Places] /\ outcome' \in [Requests -> Outcomes]
    BY <1>1, Zenon DEF Types, Places
  <2> QED BY <1>0, <2>1, <2>2, <2>3 DEF Types, Begin
<1>3. Shape'
  BY <1>1, Zenon DEF Shape
<1>4. Generations'
  BY <1>0, <1>1 DEF Generations, Begin, NotGenerating
<1>5. LeasesMatchService'
  <2>1. r \notin InService /\ InService' = InService \cup {r}
    BY <1>1 DEF InService
  <2>2. line' = {q \in Requests : pc'[q] = "queued"} /\ line \in SUBSET Requests
    BY <1>1, ServedIsCounted
  <2>3. Cardinality(line') <= Room
    <3>1. IsFiniteSet(line) /\ Cardinality(line) \in Nat /\ Cardinality(line') \in Nat
      BY <2>2, FiniteParts
    <3>2. Cardinality(line') <= Cardinality(line)
      BY <3>1, FS_Subset
    <3> QED BY <3>1, <3>2, ServedIsCounted, ServingAssumption
  <2> QED BY <1>0, <2>1, <2>2, <2>3, ServiceMore, Zenon DEF Begin
<1>6. GaugeIsInService'
  <2>1. ~Gauged(r) /\ Gauged(r)' /\ \A q \in Requests \ {r} : Gauged(q)' <=> Gauged(q)
    BY <1>0, <1>1, Zenon DEF Gauged, Streamed, Ended, Begin
  <2> QED BY <1>0, <2>1, GaugeMore DEF BooksAreExact, Begin
<1>7. AccountedOnce'
  BY <1>0, <1>1 DEF BooksAreExact, AccountedOnce, Streamed, Ended, Begin
<1>8. /\ \A q \in Requests \ {r} : Held(q)' <=> Held(q)
      /\ Held(r) <=> pc[r] = "queued"
      /\ Held(r)'
  BY <1>1, Zenon DEF Held
<1> QED BY <1>2, <1>3, <1>4, <1>5, <1>6, <1>7, <1>8 DEF BooksAreExact

\* finish_generation of a request whose stream is closed: both leases, the key's
\* slot and, unless its usage row is lost, the gauge come down together.
LEMMA FinishesServed ==
  ASSUME IInv, NEW r \in Requests, NEW end \in {"done", "cut"}, pc[r] = "closing",
         FinishGeneration(r, end),
         running' = running, end = "done" => r \notin running,
         \A b \in LocalBackends : generating'[b] \in {generating[b], None},
         generating' \in [LocalBackends -> Requests \cup {None}]
  PROVE  IInv'
<1> USE DEF IInv
<1>0. PICK usage \in {"counted", "lost"} : Finalize(r, end, usage)
  BY DEF FinishGeneration
<1>1. /\ pc' = [pc EXCEPT ![r] = end] /\ outcome' = outcome
      /\ outcome[r] \in {"ok", "error", "cancelled"} /\ pc'[r] = end
      /\ \A q \in Requests \ {r} : pc'[q] = pc[q] /\ on'[q] = on[q]
      /\ active' = active \ {r} /\ line' = line
      /\ r \in InService /\ InService' = InService \ {r}
  BY <1>0 DEF Finalize, FinishGeneration, Types, Shape, InService
<1>2. LeasesMatchService' /\ in_flight' \in [Backends -> Nat]
  <2>1. line' = {q \in Requests : pc'[q] = "queued"}
    BY <1>1, ServedIsCounted
  <2> QED BY <1>0, <1>1, <2>1, ServiceLess, Zenon DEF Finalize
<1>3. KeySlotsAccounted' /\ inflight' \in [Keys -> Nat]
  <2>1. Held(r) /\ ~Held(r)' /\ \A q \in Requests \ {r} : Held(q)' <=> Held(q)
    BY <1>1 DEF Held
  <2> QED BY <1>0, <2>1, HeldLess, SlotTypes, Zenon DEF Finalize
<1>4. \A q \in Requests : billed[q] = 1 => Streamed(q)
  BY DEF BooksAreExact, AccountedOnce
<1>5. billed[r] = 0 /\ routed[r] = 0
  BY <1>1 DEF BooksAreExact, AccountedOnce, Streamed, Ended, Types
<1>6. /\ billed' \in [Requests -> {0, 1}] /\ routed' \in [Requests -> Nat]
      /\ routed'[r] = 1 /\ billed'[r] = (IF usage = "lost" THEN 0 ELSE 1)
      /\ \A q \in Requests \ {r} : routed'[q] = routed[q] /\ billed'[q] = billed[q]
  BY <1>0, <1>5 DEF Finalize, Inc, Types
<1>7. GaugeIsInService' /\ requests_active' \in Nat
  <2>1. Gauged(r) /\ \A q \in Requests \ {r} : Gauged(q)' <=> Gauged(q)
    BY <1>1, <1>6 DEF Gauged, Streamed, Ended
  <2>2. CASE usage = "counted"
    <3>1. ~Gauged(r)'
      BY <1>1, <1>6, <2>2 DEF Gauged
    <3>2. requests_active' = requests_active - 1
      BY <1>0, <2>2 DEF Finalize
    <3> QED BY <2>1, <3>1, <3>2, GaugeLess DEF BooksAreExact
  <2>3. CASE usage = "lost"
    <3>1. Gauged(r)'
      BY <1>1, <1>6, <2>3 DEF Gauged, Streamed, Ended
    <3>2. requests_active' = requests_active
      BY <1>0, <2>3, Zenon DEF Finalize
    <3> QED BY <2>1, <3>1, <3>2, GaugeSame, Zenon DEF BooksAreExact, Types
  <2> QED BY <2>2, <2>3, Zenon
<1>8. AccountedOnce'
  BY <1>1, <1>6 DEF BooksAreExact, AccountedOnce, Streamed, Ended
<1>9. Types'
  <2>1. on' \in [Requests -> Backends \cup {None}]
    BY <1>0 DEF Finalize, Types
  <2>2. pc' \in [Requests -> Places] /\ outcome' \in [Requests -> Outcomes]
    BY <1>1 DEF Types, Places
  <2> QED BY <1>2, <1>3, <1>6, <1>7, <2>1, <2>2 DEF Types
<1>10. Shape'
  BY <1>1 DEF Shape
<1>11. Generations'
  BY <1>1 DEF Generations
<1> QED BY <1>2, <1>3, <1>7, <1>8, <1>9, <1>10, <1>11, Zenon DEF BooksAreExact

\* A step within a stream or a closing: no lease, slot or book is touched.
LEMMA StaysServed ==
  ASSUME IInv, UNCHANGED streamRest, Types', Shape', Generations',
         \A q \in Requests : /\ pc'[q] = "queued" <=> pc[q] = "queued"
                             /\ pc'[q] \in {"streaming", "closing"} <=> pc[q] \in {"streaming", "closing"}
                             /\ Ended(q)' <=> Ended(q)
                             /\ pc[q] \notin {"streaming", "closing"} => outcome'[q] = outcome[q]
                             /\ outcome'[q] # outcome[q] => outcome'[q] \in {"ok", "error", "cancelled"}
  PROVE  IInv'
<1> USE DEF IInv, streamRest
<1>1. LeasesMatchService'
  <2>1. SameService /\ line' = line /\ line' = {q \in Requests : pc'[q] = "queued"}
    BY ServedIsCounted DEF SameService, InService, admission, books
  <2> QED BY <2>1, ServedIsCounted, ServiceSame
<1>2. \A q \in Requests : Held(q)' <=> Held(q)
  BY DEF Held, Shape, Types, Outcomes
<1>3. KeySlotsAccounted'
  BY <1>2, HeldSame DEF books
<1>4. \A q \in Requests : Streamed(q)' <=> Streamed(q)
  BY DEF Streamed, Ended
<1>5. GaugeIsInService'
  <2>1. \A q \in Requests : Gauged(q)' <=> Gauged(q)
    BY <1>4, Zenon DEF Gauged, books
  <2> QED BY <2>1, GaugeSame, Zenon DEF BooksAreExact, books
<1>6. AccountedOnce'
  <2>1. \A q \in Requests : outcome'[q] = "failed" <=> outcome[q] = "failed"
    BY DEF Shape
  <2> QED BY <1>4, <2>1 DEF BooksAreExact, AccountedOnce, books
<1> QED BY <1>1, <1>3, <1>5, <1>6, Zenon DEF BooksAreExact
-----------------------------------------------------------------------------
(* One step per action                                                     *)

\* Every request starts outside, and nothing is taken.
LEMMA InitIInv == Init => IInv
<1> SUFFICES ASSUME Init PROVE IInv
  OBVIOUS
<1> USE DEF Init, Scheduler!Init
<1>1. Types
  BY DEF Types, Places, Outcomes
<1>2. Shape /\ Generations
  BY DEF Shape, Generations
<1>3. /\ InService = {} /\ AllGauged = {} /\ Cardinality({}) = 0
      /\ \A k \in Keys : HeldOf(k) = {}
      /\ \A b \in Backends : Served(b) = {}
  BY FS_EmptySet DEF InService, AllGauged, Gauged, Streamed, Ended, HeldOf, Held, Served
<1>4. LeasesMatchService
  <2>1. {r \in Requests : pc[r] = "queued"} = {}
    OBVIOUS
  <2>2. 0 <= Slots /\ 0 <= Room /\ \A b \in Backends : 0 <= MaxInFlight[b]
    BY ServingAssumption
  <2> QED BY <1>3, <2>1, <2>2, ServedIsCounted
<1>5. KeySlotsAccounted
  <2>1. 0 <= MaxPerKey
    BY ServingAssumption
  <2> QED BY <1>3, <2>1, HeldIsCounted
<1>6. GaugeIsInService /\ AccountedOnce
  BY <1>3, GaugeIsCounted DEF AccountedOnce, Streamed, Ended
<1> QED BY <1>1, <1>2, <1>4, <1>5, <1>6 DEF IInv, BooksAreExact

\* The door: authorization and the admission's first answer.
LEMMA DoorStep ==
  ASSUME IInv, NEW r \in Requests, Reject(r) \/ Shed(r) \/ Enqueue(r)
  PROVE  IInv'
<1>0. /\ Types /\ Shape /\ KeySlotsAccounted /\ LeasesMatchService /\ BooksAreExact /\ Generations
      /\ pc[r] = "new" /\ line \in SUBSET Requests /\ r \notin line
      /\ line = {q \in Requests : pc[q] = "queued"}
  BY ServedIsCounted DEF IInv, Reject, Shed, Enqueue
<1>1. CASE Reject(r) \/ Shed(r)
  <2>1. /\ Ends(r, "refused") /\ active' = active /\ line' = line \ {r}
        /\ inflight' = inflight /\ inflight' \in [Keys -> Nat] /\ routed' = routed
        /\ UNCHANGED <<on, in_flight, running, generating, requests_active, billed>>
    BY <1>0, <1>1 DEF Reject, Shed, Scheduler!Refuse, admission, rest, Types
  <2>2. /\ Types' /\ Shape' /\ Generations' /\ LeasesMatchService' /\ BooksAreExact'
        /\ \A q \in Requests \ {r} : Held(q)' <=> Held(q)
        /\ ~Held(r) /\ ~Held(r)'
    BY <1>0, <2>1, EndsUnserved
  <2>3. KeySlotsAccounted'
    BY <1>0, <2>1, <2>2, HeldSame
  <2> QED BY <2>2, <2>3, Zenon DEF IInv
<1>2. CASE Enqueue(r)
  <2>1. /\ pc' = [pc EXCEPT ![r] = "queued"] /\ outcome' = outcome /\ pc'[r] = "queued"
        /\ \A q \in Requests \ {r} : pc'[q] = pc[q]
        /\ MayHold(r) /\ inflight' = Hold(r) /\ line' = line \cup {r} /\ active' = active
        /\ Cardinality(line) < Room /\ UNCHANGED rest /\ outcome[r] = "none"
    BY <1>0, <1>2, SameCardinality, Zenon DEF Enqueue, Scheduler!Wait, Types, Shape
  <2>2. Types'
    BY <1>0, <2>1, SlotTypes DEF Types, Places, rest
  <2>3. Shape' /\ Generations'
    <3>0. UNCHANGED <<on, running, generating>>
      BY <2>1 DEF rest
    <3>1. Shape'
      <4> SUFFICES ASSUME NEW q \in Requests
                   PROVE  /\ pc'[q] \in {"streaming", "closing"} => on[q] \in Backends
                          /\ outcome[q] = "none" <=> pc'[q] \in {"new", "queued", "streaming"}
                          /\ pc'[q] \in {"closing", "cut"} => outcome[q] \in {"ok", "error", "cancelled"}
        BY <2>1, <3>0, Zenon DEF Shape
      <4>1. CASE q = r
        BY <2>1, <4>1, Zenon
      <4>2. CASE q # r
        BY <1>0, <2>1, <4>2 DEF Shape
      <4> QED BY <4>1, <4>2, Zenon
    <3>2. \A q \in running : pc'[q] \in {"streaming", "closing", "cut"}
      <4> SUFFICES ASSUME NEW q \in running PROVE pc'[q] \in {"streaming", "closing", "cut"}
        OBVIOUS
      <4>1. pc[q] \in {"streaming", "closing", "cut"} /\ q \in Requests
        BY <1>0 DEF Generations, Types
      <4>2. pc[r] = "new"
        BY <1>2 DEF Enqueue
      <4> QED BY <2>1, <4>1, <4>2
    <3>3. Generations'
      BY <1>0, <3>0, <3>2 DEF Generations
    <3> QED BY <3>1, <3>3
  <2>4. LeasesMatchService'
    <3>1. SameService
      BY <2>1, <1>0 DEF SameService, InService, rest
    <3>2. line' = {q \in Requests : pc'[q] = "queued"}
      BY <1>0, <2>1
    <3>3. Cardinality(line') <= Room
      <4>1. Cardinality(line \cup {r}) = Cardinality(line) + 1 /\ Cardinality(line) \in Nat
        BY <1>0, OneMore, FiniteParts
      <4> QED BY <2>1, <4>1, ServingAssumption
    <3> QED BY <1>0, <3>1, <3>2, <3>3, ServiceSame
  <2>5. KeySlotsAccounted'
    <3>1. ~Held(r) /\ Held(r)' /\ \A q \in Requests \ {r} : Held(q)' <=> Held(q)
      BY <1>0, <2>1 DEF Held
    <3> QED BY <1>0, <2>1, <3>1, HeldMore
  <2>6. GaugeIsInService'
    <3>1. \A q \in Requests : Gauged(q)' <=> Gauged(q)
      BY <1>0, <2>1, Zenon DEF Gauged, Streamed, Ended, rest
    <3> QED BY <1>0, <2>1, <3>1, GaugeSame, Zenon DEF BooksAreExact, rest
  <2>7. AccountedOnce'
    BY <1>0, <2>1 DEF BooksAreExact, AccountedOnce, Streamed, Ended, rest
  <2> QED BY <2>2, <2>3, <2>4, <2>5, <2>6, <2>7, Zenon DEF IInv, BooksAreExact
<1> QED BY <1>1, <1>2

\* From the granted slot to the stream, for a newcomer: a slot of its key is
\* counted only when its stream has started.
LEMMA ServeNowStep ==
  ASSUME IInv, NEW r \in Requests, ServeNow(r)
  PROVE  IInv'
<1>0. /\ Types /\ KeySlotsAccounted /\ pc[r] = "new" /\ MayHold(r) /\ Cardinality(active) < Slots
      /\ line' = line \ {r} /\ r \notin active /\ Place(r, Hold(r), inflight)
      /\ Hold(r) \in [Keys -> Nat]
  BY ServedIsCounted, SlotTypes DEF IInv, ServeNow, Scheduler!Unseen
<1>1. ASSUME NEW how \in {"refused", "failed"}, Ends(r, how), LeaveAgain(r, inflight),
             routed' = IF how = "failed" THEN Inc(routed, r) ELSE routed
      PROVE  IInv'
  <2>1. /\ active' = active /\ inflight' = inflight /\ inflight' \in [Keys -> Nat]
        /\ UNCHANGED <<on, in_flight, running, generating, requests_active, billed>>
    BY <1>0, <1>1 DEF LeaveAgain, Types
  <2>2. /\ Types' /\ Shape' /\ Generations' /\ LeasesMatchService' /\ BooksAreExact'
        /\ \A q \in Requests \ {r} : Held(q)' <=> Held(q)
        /\ ~Held(r) /\ ~Held(r)'
    BY <1>0, <1>1, <2>1, EndsUnserved
  <2>3. KeySlotsAccounted'
    BY <1>0, <2>1, <2>2, HeldSame, Zenon
  <2> QED BY <2>2, <2>3 DEF IInv
<1>2. ASSUME NEW b \in Capable[r], GenerateStarts(r, b, Hold(r))
      PROVE  IInv'
  <2>1. b \in Backends
    BY ServingAssumption
  <2>2. /\ Types' /\ Shape' /\ Generations' /\ LeasesMatchService' /\ BooksAreExact'
        /\ \A q \in Requests \ {r} : Held(q)' <=> Held(q)
        /\ ~Held(r) /\ Held(r)'
    BY <1>0, <1>2, <2>1, BeginsServed, ZenonT(30)
  <2>3. inflight' = Hold(r)
    BY <1>2, Zenon DEF GenerateStarts, Begin
  <2>4. KeySlotsAccounted'
    BY <1>0, <2>2, <2>3, HeldMore, Zenon
  <2> QED BY <2>2, <2>4 DEF IInv
<1>3. CASE NotPlaced(r, inflight)
  BY <1>1, <1>3 DEF NotPlaced
<1>4. CASE \E b \in Capable[r] : GenerateRaises(r, b, inflight)
  BY <1>1, <1>4, Zenon DEF GenerateRaises
<1> QED BY <1>0, <1>2, <1>3, <1>4, ZenonT(30) DEF Place

\* The same for a request from the queue, whose slot of its key is counted already.
LEMMA ServeQueuedStep ==
  ASSUME IInv, NEW r \in Requests, ServeQueued(r)
  PROVE  IInv'
<1>0. /\ Types /\ KeySlotsAccounted /\ pc[r] = "queued" /\ Cardinality(active) < Slots
      /\ line' = line \ {r} /\ r \notin active /\ Place(r, inflight, Free(r))
      /\ inflight \in [Keys -> Nat] /\ Free(r) \in [Keys -> Nat]
  BY ServedIsCounted, SlotTypes DEF IInv, ServeQueued, InService, Types
<1>1. ASSUME NEW how \in {"refused", "failed"}, Ends(r, how), LeaveAgain(r, Free(r)),
             routed' = IF how = "failed" THEN Inc(routed, r) ELSE routed
      PROVE  IInv'
  <2>1. /\ active' = active /\ inflight' = Free(r) /\ inflight' \in [Keys -> Nat]
        /\ UNCHANGED <<on, in_flight, running, generating, requests_active, billed>>
    BY <1>0, <1>1 DEF LeaveAgain, Types
  <2>2. /\ Types' /\ Shape' /\ Generations' /\ LeasesMatchService' /\ BooksAreExact'
        /\ \A q \in Requests \ {r} : Held(q)' <=> Held(q)
        /\ Held(r) /\ ~Held(r)'
    BY <1>0, <1>1, <2>1, EndsUnserved
  <2>3. KeySlotsAccounted'
    BY <1>0, <2>1, <2>2, HeldLess, Zenon
  <2> QED BY <2>2, <2>3 DEF IInv
<1>2. ASSUME NEW b \in Capable[r], GenerateStarts(r, b, inflight)
      PROVE  IInv'
  <2>1. b \in Backends
    BY ServingAssumption
  <2>2. /\ Types' /\ Shape' /\ Generations' /\ LeasesMatchService' /\ BooksAreExact'
        /\ \A q \in Requests \ {r} : Held(q)' <=> Held(q)
        /\ Held(r) /\ Held(r)'
    BY <1>0, <1>2, <2>1, BeginsServed, ZenonT(30)
  <2>3. inflight' = inflight
    BY <1>2, Zenon DEF GenerateStarts, Begin
  <2>4. KeySlotsAccounted'
    BY <1>0, <2>2, <2>3, HeldSame, Zenon
  <2> QED BY <2>2, <2>4 DEF IInv
<1>3. CASE NotPlaced(r, Free(r))
  BY <1>1, <1>3 DEF NotPlaced
<1>4. CASE \E b \in Capable[r] : GenerateRaises(r, b, Free(r))
  BY <1>1, <1>4 DEF GenerateRaises
<1> QED BY <1>0, <1>2, <1>3, <1>4, Zenon DEF Place

\* A request leaves the queue unserved; cancelled there, it keeps its key's slot.
LEMMA GiveUpStep ==
  ASSUME IInv, NEW r \in Requests, WaitTooLong(r) \/ CancelledInQueue(r)
  PROVE  IInv'
<1>0. /\ Types /\ KeySlotsAccounted /\ pc[r] = "queued" /\ active' = active /\ line' = line \ {r}
      /\ UNCHANGED <<on, in_flight, running, generating, requests_active, routed, billed>>
  BY DEF IInv, WaitTooLong, CancelledInQueue, Scheduler!GiveUp, rest
<1>1. CASE WaitTooLong(r)
  <2>1. Ends(r, "refused") /\ inflight' = Free(r) /\ inflight' \in [Keys -> Nat]
    BY <1>0, <1>1, SlotTypes DEF WaitTooLong
  <2>2. /\ Types' /\ Shape' /\ Generations' /\ LeasesMatchService' /\ BooksAreExact'
        /\ \A q \in Requests \ {r} : Held(q)' <=> Held(q)
        /\ Held(r) /\ ~Held(r)'
    BY <1>0, <2>1, EndsUnserved
  <2>3. KeySlotsAccounted'
    BY <1>0, <2>1, <2>2, HeldLess
  <2> QED BY <2>2, <2>3 DEF IInv
<1>2. CASE CancelledInQueue(r)
  <2>1. Ends(r, "gone") /\ inflight' = inflight /\ inflight' \in [Keys -> Nat]
    BY <1>0, <1>2 DEF CancelledInQueue, Types
  <2>2. /\ Types' /\ Shape' /\ Generations' /\ LeasesMatchService' /\ BooksAreExact'
        /\ \A q \in Requests \ {r} : Held(q)' <=> Held(q)
        /\ Held(r) /\ Held(r)'
    BY <1>0, <2>1, EndsUnserved
  <2>3. KeySlotsAccounted'
    BY <1>0, <2>1, <2>2, HeldSame
  <2> QED BY <2>2, <2>3 DEF IInv
<1> QED BY <1>1, <1>2

\* _on_generation_done gives the local backend back and takes no other.
LEMMA ReleaseFacts ==
  ASSUME Types, NEW r \in Requests, BackendReleased(r)
  PROVE  /\ generating' \in [LocalBackends -> Requests \cup {None}]
         /\ \A b \in LocalBackends : /\ generating'[b] \in {generating[b], None}
                                     /\ generating'[b] # r
  BY ServingAssumption DEF Types, BackendReleased

\* The stream ends, the client goes away, the worker ends.
LEMMA StreamStep ==
  ASSUME IInv, NEW r \in Requests, StreamEnds(r) \/ Disconnects(r) \/ WorkerEnds(r)
  PROVE  IInv'
<1>0. Types /\ Shape /\ Generations /\ UNCHANGED streamRest /\ UNCHANGED <<on, books>>
  BY Zenon DEF IInv, StreamEnds, Disconnects, WorkerEnds, streamRest
<1>1. CASE StreamEnds(r) \/ Disconnects(r)
  <2>1. PICK how \in {"ok", "error", "cancelled"} : outcome' = [outcome EXCEPT ![r] = how]
    BY <1>1 DEF StreamEnds, Disconnects
  <2>2. /\ pc[r] = "streaming" /\ pc'[r] = "closing" /\ outcome'[r] = how
        /\ pc' \in [Requests -> Places] /\ outcome' \in [Requests -> Outcomes]
        /\ \A q \in Requests \ {r} : pc'[q] = pc[q] /\ outcome'[q] = outcome[q]
    BY <1>0, <1>1, <2>1, Zenon DEF StreamEnds, Disconnects, Types, Places, Outcomes
  <2>3. /\ running' \in {running, running \ {r}}
        /\ generating' \in [LocalBackends -> Requests \cup {None}]
        /\ \A b \in LocalBackends : generating'[b] # None => generating'[b] \in running'
    BY <1>0, <1>1, ReleaseFacts DEF StreamEnds, Disconnects, Types, Generations
  <2>4. Types'
    BY <1>0, <2>2, <2>3 DEF Types, books
  <2>5. Shape'
    BY <1>0, <2>2, Zenon DEF Shape
  <2>6. Generations'
    <3>1. running' \subseteq running /\ running \subseteq Requests
      BY <1>0, <2>3, Zenon DEF Types
    <3>2. \A q \in running' : pc'[q] \in {"streaming", "closing", "cut"}
      BY <1>0, <2>2, <3>1, Zenon DEF Generations
    <3> QED BY <2>3, <3>2 DEF Generations
  <2>7. \A q \in Requests :
          /\ pc'[q] = "queued" <=> pc[q] = "queued"
          /\ pc'[q] \in {"streaming", "closing"} <=> pc[q] \in {"streaming", "closing"}
          /\ Ended(q)' <=> Ended(q)
          /\ pc[q] \notin {"streaming", "closing"} => outcome'[q] = outcome[q]
          /\ outcome'[q] # outcome[q] => outcome'[q] \in {"ok", "error", "cancelled"}
    BY <2>2, Zenon DEF Ended
  <2> QED BY <1>0, <2>4, <2>5, <2>6, <2>7, StaysServed, Zenon
<1>2. CASE WorkerEnds(r)
  <2>1. /\ UNCHANGED <<pc, outcome>> /\ running' = running \ {r}
        /\ generating' \in [LocalBackends -> Requests \cup {None}]
        /\ \A b \in LocalBackends : generating'[b] # None => generating'[b] \in running'
    BY <1>0, <1>2, ReleaseFacts DEF WorkerEnds, Generations
  <2>2. Types'
    BY <1>0, <2>1, Zenon DEF Types, books
  <2>3. Shape' /\ Generations'
    BY <1>0, <2>1 DEF Shape, Generations
  <2> QED BY <1>0, <2>1, <2>2, <2>3, StaysServed, Zenon DEF Ended
<1> QED BY <1>1, <1>2

\* The three ways a closing ends.
LEMMA CloseStep ==
  ASSUME IInv, NEW r \in Requests, CloseReturns(r) \/ CloseExpires(r) \/ CloseInterrupted(r)
  PROVE  IInv'
<1>0. Types /\ pc[r] = "closing" /\ running' = running
  BY DEF IInv, CloseReturns, CloseExpires, CloseInterrupted
<1>1. /\ generating' \in [LocalBackends -> Requests \cup {None}]
      /\ \A b \in LocalBackends : generating'[b] \in {generating[b], None}
  BY <1>0, ReleaseFacts DEF CloseReturns, CloseExpires, CloseInterrupted, Types
<1>2. CASE CloseReturns(r)
  BY <1>0, <1>1, <1>2, FinishesServed DEF CloseReturns
<1>3. CASE CloseExpires(r) \/ CloseInterrupted(r)
  BY <1>0, <1>1, <1>3, FinishesServed DEF CloseExpires, CloseInterrupted
<1> QED BY <1>2, <1>3

\* Health changes, draining and stuttering leave every request where it is.
LEMMA QuietStep ==
  ASSUME IInv, (\E b \in Backends : HealthChanges(b)) \/ Drain \/ UNCHANGED vars
  PROVE  IInv'
<1>1. /\ UNCHANGED <<pc, on, active, line, inflight, in_flight, requests_active, routed, billed>>
      /\ UNCHANGED <<running, generating, outcome>>
  BY Zenon DEF HealthChanges, Drain, Scheduler!Close, vars, admission, books
<1>2. Types' /\ Shape' /\ Generations'
  BY <1>1 DEF IInv, Types, Shape, Generations
<1>3. LeasesMatchService'
  BY <1>1, Zenon DEF IInv, LeasesMatchService, InService
<1>4. KeySlotsAccounted'
  BY <1>1, Zenon DEF IInv, KeySlotsAccounted, Holding
<1>5. BooksAreExact'
  BY <1>1 DEF IInv, BooksAreExact, GaugeIsInService, AccountedOnce, InService, Streamed, Ended
<1> QED BY <1>2, <1>3, <1>4, <1>5, Zenon DEF IInv

\* The invariant is inductive.
LEMMA Inductive == Spec => []IInv
<1>1. ASSUME IInv, [Next]_vars PROVE IInv'
  <2>1. ASSUME NEW r \in Requests, Start(r) PROVE IInv'
    BY <1>1, <2>1, DoorStep, ServeNowStep, ServeQueuedStep, GiveUpStep DEF Start
  <2>2. ASSUME NEW r \in Requests, Finish(r) PROVE IInv'
    BY <1>1, <2>2, StreamStep, CloseStep DEF Finish
  <2> QED BY <1>1, <2>1, <2>2, QuietStep DEF Next
<1> QED BY <1>1, InitIInv, PTL DEF Spec

\* No exit of a request leaves a lease or a slot behind and none gives one back
\* twice: scheduler, registry and limiter hold exactly the requests in service or
\* in line, for any number of requests, keys and backends.
THEOREM CapacityHeld == Spec => []CapacityIsHeld
<1>1. IInv => CapacityIsHeld
  <2> SUFFICES ASSUME IInv PROVE SlotCoversGeneration
    BY DEF IInv, CapacityIsHeld
  <2>1. active = InService
    BY ServedIsCounted DEF IInv
  <2> QED BY <2>1 DEF IInv, Generations, SlotCoversGeneration, InService, Types
<1> QED BY <1>1, Inductive, PTL

\* The gauge, the route metrics and the usage rows count every request once,
\* whichever way it ends and whether or not its usage row could be written.
THEOREM BooksExact == Spec => []BooksAreExact
<1>1. IInv => BooksAreExact
  BY DEF IInv
<1> QED BY <1>1, Inductive, PTL
-----------------------------------------------------------------------------
(* The connection of a remote backend.  Neither property is inductive      *)
(* alone: an unload that finds no client would leave the connection open   *)
(* if a ready backend could lose its client without an unload under way.   *)

RemoteSpec == RemoteInit /\ [][RemoteNext]_remote

RemoteTypes == unloader \in [Unloader -> {"idle", "closing", "ended", "cut"}]

RemoteInv == RemoteTypes /\ ReadyHasClient /\ ConnectionIsClosed

\* The steps of a generation read the connection and leave it alone.
LEMMA GenerationsOnlyRead ==
  ASSUME \/ Generate \/ FirstLine \/ ReadLine \/ ResponseEnds \/ Breaks \/ Retries \/ CloseGeneration
         \/ UNCHANGED remote
  PROVE  UNCHANGED <<state, client, open, loader, unloader>>
BY Zenon DEF Generate, FirstLine, ReadLine, ResponseEnds, Breaks, Retries, CloseGeneration, Reads, remote

(* Every step of a remote backend, of its prober and of its streams keeps the inductive
   invariant. *)
LEMMA RemoteStep == RemoteInv /\ [RemoteNext]_remote => RemoteInv'
<1> SUFFICES ASSUME RemoteInv, [RemoteNext]_remote PROVE RemoteInv'
  OBVIOUS
<1> USE DEF RemoteInv, RemoteTypes, ReadyHasClient, ConnectionIsClosed
<1>1. CASE Load
  BY <1>1 DEF Load
<1>2. CASE Verified
  BY <1>2 DEF Verified
<1>3. CASE VerifyFails
  BY <1>3 DEF VerifyFails
<1>4. CASE Discarded
  BY <1>4 DEF Discarded
<1>5. CASE LoadCancelled
  BY <1>5 DEF LoadCancelled
<1>6. ASSUME NEW u \in Unloader, UnloadBegins(u) PROVE RemoteInv'
  <2>1. CASE client
    BY <1>6, <2>1 DEF UnloadBegins
  <2>2. CASE ~client
    BY <1>6, <2>2 DEF UnloadBegins
  <2> QED BY <2>1, <2>2
<1>7. ASSUME NEW u \in Unloader, UnloadEnds(u) PROVE RemoteInv'
  BY <1>7 DEF UnloadEnds
<1>8. ASSUME NEW u \in Unloader, UnloadCut(u) PROVE RemoteInv'
  BY <1>8 DEF UnloadCut
<1>9. CASE UNCHANGED <<state, client, open, loader, unloader>>
  BY <1>9
<1> QED
  BY <1>1, <1>2, <1>3, <1>4, <1>5, <1>6, <1>7, <1>8, <1>9, GenerationsOnlyRead, Zenon DEF RemoteNext

(* The inductive invariant of the remote backend holds in every reachable state. *)
LEMMA RemoteInvariant == RemoteSpec => []RemoteInv
<1>1. RemoteInit => RemoteInv
  BY DEF RemoteInit, RemoteInv, RemoteTypes, ReadyHasClient, ConnectionIsClosed
<1> QED BY <1>1, RemoteStep, PTL DEF RemoteSpec

\* unload: a backend that says READY has a client, except while an unload that took it
\* is not at its end, for any number of tasks calling unload.
THEOREM ReadyCanGenerate == RemoteSpec => []ReadyHasClient
BY RemoteInvariant, PTL DEF RemoteInv

\* load and unload: an open connection is in use, being verified or being closed, or was
\* left by a cancelled load or an interrupted unload, and by nothing else.
THEOREM NoConnectionLeft == RemoteSpec => []ConnectionIsClosed
BY RemoteInvariant, PTL DEF RemoteInv

\* The connection is there while the backend is ready, and nowhere left open but for the
\* named causes.
THEOREM ConnectionKept == RemoteSpec => []ConnectionIsKept
BY ReadyCanGenerate, NoConnectionLeft, PTL DEF ConnectionIsKept
-----------------------------------------------------------------------------
(* The result of a remote generation                                       *)

\* The lines of an answer, and what _Outcome has kept of them.
At(s, kinds) == {i \in 1..Len(s) : s[i].kind \in kinds}

GenRecord ==
  [pc : {"idle", "fresh", "reading", "over"}, lines : Seq(Line), index : Nat, attempts : Nat,
   finish : {"stop", "length"}, usage_seen : BOOLEAN, usage : Nat,
   result : [finish : {"none", "stop", "length", "error", "cancelled"}, completion : Nat]]

\* What _Outcome holds is what the lines say.
Keeps(g) ==
  /\ IsFiniteSet(At(g.lines, {"token"})) /\ g.index = Cardinality(At(g.lines, {"token"}))
  /\ g.usage_seen <=> At(g.lines, {"usage"}) # {}
  /\ \A i \in At(g.lines, {"usage"}) : (\A j \in At(g.lines, {"usage"}) : j <= i) => g.usage = g.lines[i].n
  /\ \A i \in At(g.lines, {"stop", "length"}) :
       (\A j \in At(g.lines, {"stop", "length"}) : j <= i) => g.finish = g.lines[i].kind
  /\ At(g.lines, {"stop", "length"}) = {} => g.finish = "stop"

\* A result is built once, from what is kept.
Built(g) ==
  /\ g.result # NoResult <=> g.pc = "over"
  /\ g.result # NoResult =>
       /\ g.result.completion = IF g.usage_seen THEN g.usage ELSE g.index
       /\ g.result.finish \in {"stop", "length"} => g.result.finish = g.finish

GenOK(g) == g \in GenRecord /\ Keeps(g) /\ Built(g)

\* One more line is the last one of its kind.
LEMMA LineFacts ==
  ASSUME NEW s \in Seq(Line), NEW ln \in Line, NEW kinds
  PROVE  /\ Append(s, ln) \in Seq(Line) /\ Len(s) + 1 \notin At(s, kinds) /\ \A j \in At(s, kinds) : j <= Len(s) + 1
         /\ Len(s) \in Nat /\ Append(s, ln)[Len(s) + 1] = ln
         /\ \A i \in 1..Len(s) : Append(s, ln)[i] = s[i]
         /\ At(Append(s, ln), kinds) = IF ln.kind \in kinds THEN At(s, kinds) \cup {Len(s) + 1} ELSE At(s, kinds)
         /\ At(s, kinds) \subseteq 1..Len(s)
<1> DEFINE t == Append(s, ln)
<1>1. /\ t \in Seq(Line) /\ Len(t) = Len(s) + 1 /\ Len(s) \in Nat /\ t[Len(s) + 1] = ln
      /\ \A i \in 1..Len(s) : t[i] = s[i]
  OBVIOUS
<1> HIDE DEF t
<1>2. \A i : i \in 1..Len(t) <=> i \in 1..Len(s) \/ i = Len(s) + 1
  BY <1>1
<1>3. Len(s) + 1 \notin 1..Len(s) /\ \A j \in 1..Len(s) : j <= Len(s) + 1
  BY <1>1
<1>4. At(t, kinds) = IF ln.kind \in kinds THEN At(s, kinds) \cup {Len(s) + 1} ELSE At(s, kinds)
  BY <1>1, <1>2, <1>3 DEF At
<1> QED BY <1>1, <1>3, <1>4 DEF At, t

\* _parse_sse_line keeps what the lines say.
LEMMA ParseKeeps ==
  ASSUME NEW g \in GenRecord, Keeps(g), g.pc = "reading", g.result = NoResult, NEW ln \in Line, NEW n,
         n = [Parse(g, ln) EXCEPT !.lines = Append(@, ln)]
  PROVE  n \in GenRecord /\ Keeps(n) /\ n.pc = "reading" /\ n.result = NoResult
<1> DEFINE s == g.lines
           t == Append(s, ln)
           K == Len(s) + 1
<1>0. /\ s \in Seq(Line) /\ g.index \in Nat /\ g.usage \in Nat /\ g.finish \in {"stop", "length"} /\ g.usage_seen \in BOOLEAN
      /\ g.attempts \in Nat /\ g.result \in [finish : {"none", "stop", "length", "error", "cancelled"}, completion : Nat]
  BY DEF GenRecord
<1>a. Keeps(g) /\ g.lines = s
  OBVIOUS
<1>1. /\ ln.kind \in {"token", "stop", "length", "skipped", "done", "usage"} /\ ln.n \in Nat
  BY DEF Line
<1>2. /\ t \in Seq(Line) /\ Len(s) \in Nat /\ t[K] = ln /\ (\A i \in 1..Len(s) : t[i] = s[i])
      /\ \A kinds : /\ K \notin At(s, kinds) /\ At(s, kinds) \subseteq 1..Len(s)
                    /\ At(t, kinds) = IF ln.kind \in kinds THEN At(s, kinds) \cup {K} ELSE At(s, kinds)
                    /\ \A j \in At(s, kinds) : j <= K
  <2> HIDE DEF s
  <2>1. t \in Seq(Line) /\ Len(s) \in Nat /\ t[K] = ln /\ \A i \in 1..Len(s) : t[i] = s[i]
    BY <1>0
  <2>2. ASSUME NEW kinds
        PROVE  /\ K \notin At(s, kinds) /\ At(s, kinds) \subseteq 1..Len(s)
               /\ At(t, kinds) = IF ln.kind \in kinds THEN At(s, kinds) \cup {K} ELSE At(s, kinds)
               /\ \A j \in At(s, kinds) : j <= K
    BY <1>0, LineFacts
  <2> QED BY <2>1, <2>2
<1> DEFINE x == IF ln.kind = "token" THEN g.index + 1 ELSE g.index
           f == IF ln.kind \in {"stop", "length"} THEN ln.kind ELSE g.finish
           w == IF ln.kind = "usage" THEN TRUE ELSE g.usage_seen
           u == IF ln.kind = "usage" THEN ln.n ELSE g.usage
<1>3. n = [pc |-> g.pc, lines |-> t, index |-> x, attempts |-> g.attempts, finish |-> f,
           usage_seen |-> w, usage |-> u, result |-> g.result]
  BY <1>1, Zenon DEF Parse, GenRecord
<1> HIDE DEF t, s, K
<1>4. x \in Nat /\ f \in {"stop", "length"} /\ w \in BOOLEAN /\ u \in Nat
  <2>1. w \in BOOLEAN
    BY <1>0, Zenon
  <2>2. x \in Nat /\ f \in {"stop", "length"} /\ u \in Nat
    BY <1>0, <1>1
  <2> QED BY <2>1, <2>2, Zenon
<1> HIDE DEF x, f, w, u
<1>5. n \in GenRecord
  <2>1. g.pc \in {"idle", "fresh", "reading", "over"} /\ t \in Seq(Line)
    BY <1>2
  <2>2. ASSUME NEW c \in {"idle", "fresh", "reading", "over"}, NEW l \in Seq(Line), NEW i \in Nat, NEW a \in Nat,
               NEW e \in {"stop", "length"}, NEW b \in BOOLEAN, NEW v \in Nat,
               NEW o \in [finish : {"none", "stop", "length", "error", "cancelled"}, completion : Nat]
        PROVE  [pc |-> c, lines |-> l, index |-> i, attempts |-> a, finish |-> e, usage_seen |-> b,
                usage |-> v, result |-> o] \in GenRecord
    BY DEF GenRecord
  <2>3. [pc |-> g.pc, lines |-> t, index |-> x, attempts |-> g.attempts, finish |-> f,
         usage_seen |-> w, usage |-> u, result |-> g.result] \in GenRecord
    <3>1. x \in Nat /\ f \in {"stop", "length"} /\ u \in Nat
      BY <1>4
    <3>2. \A b \in BOOLEAN : [pc |-> g.pc, lines |-> t, index |-> x, attempts |-> g.attempts, finish |-> f,
         usage_seen |-> b, usage |-> u, result |-> g.result] \in GenRecord
      BY <1>0, <2>1, <2>2, <3>1
    <3>3. w \in BOOLEAN
      BY <1>4
    <3> QED BY <3>2, <3>3, Zenon
  <2> QED BY <1>3, <2>3, Zenon
<1>6. /\ n.pc = "reading" /\ n.lines = t /\ n.index = x /\ n.finish = f /\ n.usage = u /\ n.result = NoResult
      /\ (n.usage_seen <=> w)
  BY <1>3
<1>7. IsFiniteSet(At(t, {"token"})) /\ x = Cardinality(At(t, {"token"}))
  <2> DEFINE A == At(s, {"token"})
  <2>1. IsFiniteSet(A) /\ g.index = Cardinality(A) /\ K \notin A
    BY <1>2, <1>a DEF Keeps
  <2>2. At(t, {"token"}) = IF ln.kind = "token" THEN A \cup {K} ELSE A
    BY <1>2, Zenon
  <2> HIDE DEF A
  <2>3. IsFiniteSet(A \cup {K}) /\ Cardinality(A \cup {K}) = Cardinality(A) + 1
    BY <2>1, FS_AddElement
  <2> QED BY <2>1, <2>2, <2>3 DEF x
<1>8. /\ w <=> At(t, {"usage"}) # {}
      /\ \A i \in At(t, {"usage"}) : (\A j \in At(t, {"usage"}) : j <= i) => u = t[i].n
  <2> DEFINE A == At(s, {"usage"})
  <2>1. /\ (g.usage_seen <=> A # {}) /\ A \subseteq 1..Len(s) /\ K \notin A
        /\ \A i \in A : (\A j \in A : j <= i) => g.usage = s[i].n
        /\ At(t, {"usage"}) = IF ln.kind = "usage" THEN A \cup {K} ELSE A
    BY <1>2, <1>a, Zenon DEF Keeps
  <2> HIDE DEF A
  <2>2. CASE ln.kind = "usage"
    <3>1. \A i \in A : ~(K <= i)
      BY <1>2, <2>1 DEF K
    <3> QED BY <1>2, <2>1, <2>2, <3>1 DEF w, u
  <2>3. CASE ln.kind # "usage"
    BY <1>2, <2>1, <2>3 DEF w, u
  <2> QED BY <2>2, <2>3
<1>9. /\ \A i \in At(t, {"stop", "length"}) : (\A j \in At(t, {"stop", "length"}) : j <= i) => f = t[i].kind
      /\ At(t, {"stop", "length"}) = {} => f = "stop"
  <2> DEFINE A == At(s, {"stop", "length"})
  <2>1. /\ A \subseteq 1..Len(s) /\ K \notin A /\ (A = {} => g.finish = "stop")
        /\ \A i \in A : (\A j \in A : j <= i) => g.finish = s[i].kind
        /\ At(t, {"stop", "length"}) = IF ln.kind \in {"stop", "length"} THEN A \cup {K} ELSE A
    BY <1>2, <1>a, Zenon DEF Keeps
  <2> HIDE DEF A
  <2>2. CASE ln.kind \in {"stop", "length"}
    <3>1. \A i \in A : ~(K <= i)
      BY <1>2, <2>1 DEF K
    <3> QED BY <1>2, <2>1, <2>2, <3>1 DEF f
  <2>3. CASE ln.kind \notin {"stop", "length"}
    BY <1>2, <2>1, <2>3 DEF f
  <2> QED BY <2>2, <2>3
<1> QED BY <1>5, <1>6, <1>7, <1>8, <1>9, ZenonT(30) DEF Keeps

\* A generation that has no result is given one, from what is kept.
LEMMA ResultFacts ==
  ASSUME NEW g \in GenRecord, Keeps(g), g.result = NoResult, g.pc # "over",
         NEW f \in {"stop", "length", "error", "cancelled"}, f \in {"stop", "length"} => f = g.finish
  PROVE  GenOK(Result(g, f))
<1> DEFINE n == Result(g, f)
           v == IF g.usage_seen THEN g.usage ELSE g.index
           o == [finish |-> f, completion |-> v]
<1>1. n = [g EXCEPT !.pc = "over", !.result = o]
  BY DEF Result
<1>2. g.usage \in Nat /\ g.index \in Nat /\ g.usage_seen \in BOOLEAN
  BY DEF GenRecord
<1>3. v \in Nat
  BY <1>2
<1> HIDE DEF v
<1>4. /\ o \in [finish : {"none", "stop", "length", "error", "cancelled"}, completion : Nat]
      /\ o.finish = f /\ o.completion = v /\ o # NoResult
  BY <1>3 DEF NoResult
<1> HIDE DEF o, n
<1>5. n \in GenRecord
  BY <1>1, <1>4, Zenon DEF GenRecord
<1>6. /\ n.pc = "over" /\ n.result = o /\ n.lines = g.lines /\ n.index = g.index /\ n.finish = g.finish
      /\ n.usage = g.usage
  BY <1>1 DEF GenRecord
<1>7. n.usage_seen = g.usage_seen
  BY <1>1, Zenon DEF GenRecord
<1>8. Keeps(n)
  BY <1>6, <1>7, Zenon DEF Keeps
<1>9. Built(n)
  BY <1>4, <1>6, <1>7 DEF Built, v
<1> QED BY <1>5, <1>8, <1>9 DEF GenOK, n

\* A step that only moves the generation on.
LEMMA MoveKeeps ==
  ASSUME GenOK(gen), gen.result = NoResult, NEW c \in {"idle", "fresh", "reading"}, NEW a \in Nat,
         gen' = [gen EXCEPT !.pc = c] \/ gen' = [gen EXCEPT !.attempts = a]
  PROVE  GenOK(gen)'
<1>1. gen \in GenRecord /\ Keeps(gen) /\ Built(gen)
  BY DEF GenOK
<1>2. /\ gen' \in GenRecord /\ gen'.lines = gen.lines /\ gen'.index = gen.index /\ gen'.finish = gen.finish
      /\ gen'.usage = gen.usage /\ gen'.usage_seen = gen.usage_seen /\ gen'.result = gen.result
      /\ gen'.pc \in {c, gen.pc}
  BY <1>1 DEF GenRecord
<1>3. Keeps(gen)'
  BY <1>1, <1>2 DEF Keeps, At
<1>4. gen'.result = NoResult' /\ gen'.pc # "over"
  BY <1>1, <1>2 DEF Built, NoResult
<1>5. Built(gen)'
  BY <1>4 DEF Built
<1> QED BY <1>2, <1>3, <1>5 DEF GenOK, GenRecord, Line

\* Every step of the backend keeps what a generation holds true to its lines.
LEMMA GenStep == GenOK(gen) /\ [RemoteNext]_remote => GenOK(gen)'
<1> SUFFICES ASSUME GenOK(gen), [RemoteNext]_remote PROVE GenOK(gen)'
  OBVIOUS
<1>0. gen \in GenRecord /\ Keeps(gen) /\ Built(gen)
  BY DEF GenOK
<1>a. ASSUME NEW n, GenOK(n), gen' = n PROVE GenOK(gen)'
  BY <1>a, ZenonT(30) DEF GenOK, GenRecord, Line, Keeps, Built, At, NoResult
<1>1. CASE UNCHANGED gen
  BY <1>1, <1>a
<1>2. CASE Load \/ Verified \/ VerifyFails \/ Discarded \/ LoadCancelled \/ UNCHANGED remote
           \/ \E u \in Unloader : UnloadBegins(u) \/ UnloadEnds(u) \/ UnloadCut(u)
  BY <1>1, <1>2 DEF Load, Verified, VerifyFails, Discarded, LoadCancelled, UnloadBegins, UnloadEnds, UnloadCut, remote
<1>3. ASSUME gen.pc # "over", NEW f \in {"stop", "length", "error", "cancelled"},
             f \in {"stop", "length"} => f = gen.finish, gen' = Result(gen, f)
      PROVE  GenOK(gen)'
  <2>1. gen.result = NoResult
    BY <1>0, <1>3 DEF Built
  <2>2. GenOK(Result(gen, f))
    BY <1>0, <1>3, <2>1, ResultFacts
  <2> QED BY <1>3, <1>a, <2>2
<1>4. CASE Generate
  <2>1. gen.result = NoResult /\ gen' = [gen EXCEPT !.pc = "fresh"] /\ 0 \in Nat
    BY <1>0, <1>4 DEF Generate, Built
  <2> QED BY <2>1, MoveKeeps
<1>5. CASE FirstLine
  <2>1. gen.result = NoResult /\ gen.pc # "over" /\ 0 \in Nat
    BY <1>0, <1>5 DEF FirstLine, Built
  <2>2. gen' = [gen EXCEPT !.pc = "reading"] \/ gen' = Result(gen, "error")
    BY <1>5 DEF FirstLine, Reads
  <2> QED BY <1>3, <2>1, <2>2, MoveKeeps
<1>6. CASE ReadLine
  <2>1. gen.result = NoResult /\ gen.pc = "reading"
    BY <1>0, <1>6 DEF ReadLine, Built
  <2>2. PICK ln \in Line : LET g == [Parse(gen, ln) EXCEPT !.lines = Append(@, ln)] IN
                             gen' = IF ln.kind = "done" THEN Result(g, g.finish) ELSE g
    BY <1>6, Zenon DEF ReadLine, Reads
  <2> DEFINE g == [Parse(gen, ln) EXCEPT !.lines = Append(@, ln)]
  <2>3. gen' = IF ln.kind = "done" THEN Result(g, g.finish) ELSE g
    BY <2>2
  <2>4. g \in GenRecord /\ Keeps(g) /\ g.pc = "reading" /\ g.result = NoResult
    BY <1>0, <2>1, ParseKeeps, Zenon
  <2> HIDE DEF g
  <2>5. g.finish \in {"stop", "length"}
    BY <2>4 DEF GenRecord
  <2>6. GenOK(Result(g, g.finish))
    BY <2>4, <2>5, ResultFacts, Zenon
  <2>7. GenOK(g)
    BY <2>4 DEF GenOK, Built
  <2> QED BY <1>a, <2>3, <2>6, <2>7
<1>7. CASE ResponseEnds \/ Breaks \/ CloseGeneration
  <2>1. gen.pc # "over" /\ gen.finish \in {"stop", "length"}
    BY <1>0, <1>7 DEF ResponseEnds, Breaks, CloseGeneration, GenRecord
  <2>2. gen' \in {Result(gen, gen.finish), Result(gen, "error"), Result(gen, "cancelled")}
    BY <1>7 DEF ResponseEnds, Breaks, CloseGeneration, Reads
  <2> QED BY <1>3, <2>1, <2>2
<1>8. CASE Retries
  <2>1. gen.result = NoResult /\ gen.pc # "over" /\ gen.attempts \in Nat /\ gen.attempts + 1 \in Nat
    BY <1>0, <1>8 DEF Retries, Built, GenRecord
  <2>2. gen' = [gen EXCEPT !.attempts = gen.attempts + 1] \/ gen' = Result(gen, "error")
    BY <1>8 DEF Retries, Reads
  <2> QED BY <1>3, <2>1, <2>2, MoveKeeps
<1> QED BY <1>2, <1>4, <1>5, <1>6, <1>7, <1>8, Zenon DEF RemoteNext

\* _parse_sse_line and _build_result: the result is the last usage and the last finish
\* reason of all lines that arrived, whatever their order, of retried attempts too.
THEOREM ResultRight == RemoteSpec => []ResultIsTheAnswer
<1>1. RemoteInit => GenOK(gen)
  <2> SUFFICES ASSUME gen = Fresh PROVE GenOK(gen)
    BY DEF RemoteInit
  <2>1. /\ gen.lines = <<>> /\ gen.index = 0 /\ ~gen.usage_seen /\ gen.finish = "stop" /\ gen.result = NoResult
        /\ gen.pc = "idle"
    BY Zenon DEF Fresh
  <2>2. gen \in GenRecord
    BY DEF Fresh, GenRecord, NoResult
  <2>3. \A kinds : At(gen.lines, kinds) = {}
    BY <2>1 DEF At
  <2>4. IsFiniteSet({}) /\ Cardinality({}) = 0
    BY FS_EmptySet
  <2>5. Keeps(gen)
    BY <2>1, <2>3, <2>4, ZenonT(30) DEF Keeps
  <2> QED BY <2>1, <2>2, <2>5 DEF GenOK, Built
<1>2. GenOK(gen) => ResultIsTheAnswer
  <2> SUFFICES ASSUME GenOK(gen), gen.result # NoResult PROVE ResultIsTheAnswer
    BY DEF ResultIsTheAnswer
  <2>1. \A kinds : Lines(kinds) = At(gen.lines, kinds)
    BY DEF Lines, At
  <2>2. \A kinds : \A i \in LastOf(kinds) : i \in At(gen.lines, kinds) /\ \A j \in At(gen.lines, kinds) : j <= i
    BY <2>1 DEF LastOf
  <2> QED BY <2>1, <2>2, Zenon DEF GenOK, Keeps, Built, ResultIsTheAnswer
<1> QED BY <1>1, <1>2, GenStep, PTL DEF RemoteSpec
=============================================================================
