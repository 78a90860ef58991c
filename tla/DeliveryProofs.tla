---------------------------- MODULE DeliveryProofs ----------------------------
(***************************************************************************)
(* What the delivery of webhooks promises, for any number of endpoints,    *)
(* events, attempts, replays, rotations, failed writes and crashes.        *)
(***************************************************************************)
EXTENDS Webhooks, TLAPS

\* The limits, in seconds, of a leaf that names no prover.
USE SMTT(30), ZenonT(30)

-----------------------------------------------------------------------------
(* The inductive invariant                                                 *)

WebhooksSpec == WebhooksInit /\ [][WebhooksNext]_webhooks

Secret == [newest : Nat, active : SUBSET Nat, held : Nat]
Past == [accepted : Nat, failed : Nat, sent : BOOLEAN, skipped : BOOLEAN,
         overtaken : BOOLEAN, excused : Nat, unverified : BOOLEAN]

HookTypes ==
  /\ endpoint \in [Endpoint -> {"new", "enabled", "disabled", "gone"}]
  /\ secret \in [Endpoint -> Secret]
  /\ delivery \in [Delivery -> Row \cup {Null}]
  /\ emission \in Emission \cup {Null}
  /\ loop \in {"off", "sleeping", "batch", "finishing", "ended"} /\ stop \in BOOLEAN
  /\ batch \in [Delivery -> Nat \cup {Null}]
  /\ attempt \in Attempt \cup {Null}
  /\ past \in [Delivery -> Past]

\* The delivery that is being attempted.
On(d) == attempt # Null /\ attempt.of = d
At(d, step) == On(d) /\ attempt.step = step

\* Outside a batch nothing is held.
QuietOutside == ~Working => attempt = Null /\ batch = Nothing

\* A row that is held is pending, whatever replays do, as long as it exists; it
\* has been tried less often than the worker believes, and a row that was never
\* inserted has no past.
RowIsHeld(d) ==
  /\ endpoint[d[1]] = "gone" => delivery[d] = Null
  /\ delivery[d] = Null /\ endpoint[d[1]] # "gone" => past[d] = NoPast /\ ~Held(d)
  /\ ~(batch[d] # Null /\ On(d))
  /\ Held(d) /\ delivery[d] # Null => Pending(d)
  /\ Pending(d) => delivery[d].attempts < MaxAttempts
  /\ delivery[d] # Null /\ batch[d] # Null => delivery[d].attempts <= batch[d]
  /\ delivery[d] # Null /\ On(d) => delivery[d].attempts < attempt.number

\* Every post that was accepted and every try that failed is settled in the row,
\* excused, or about to be written.
PostsAreCounted(d) ==
  /\ past[d].accepted <= 1 + past[d].excused
  /\ past[d].failed <= MaxAttempts + past[d].excused
  /\ (Pending(d) \/ Held(d)) /\ ~At(d, "succeeded") => past[d].accepted <= past[d].excused
  /\ Pending(d) /\ ~At(d, "failed") => past[d].failed <= delivery[d].attempts + past[d].excused
  /\ Pending(d) /\ At(d, "failed") => past[d].failed <= delivery[d].attempts + 1 + past[d].excused
  /\ delivery[d] = Null /\ Held(d) /\ ~At(d, "failed") => past[d].failed <= past[d].excused

\* Unless a replay overtook it, the worker counts at most the tries that failed.
WorkerIsHonest(d) ==
  delivery[d] # Null /\ ~past[d].overtaken =>
    /\ delivery[d].status = "succeeded" => past[d].sent
    /\ delivery[d].status = "dead" => past[d].failed >= MaxAttempts \/ past[d].skipped
    /\ Pending(d) => delivery[d].attempts <= past[d].failed
    /\ batch[d] # Null => batch[d] <= past[d].failed
    /\ On(d) => attempt.number <= past[d].failed + 1
    /\ At(d, "failed") => attempt.number <= past[d].failed
    /\ At(d, "succeeded") => past[d].sent

\* Until the endpoint is deleted the receiver's secret and the newest one are active,
\* and a signature with the newest secret of its time covers the one it holds.
SecretsCover ==
  /\ \A e \in Endpoint : endpoint[e] # "gone" =>
       /\ secret[e].held \in secret[e].active /\ secret[e].newest \in secret[e].active
       /\ \A k \in secret[e].active : k <= secret[e].newest
  /\ \A e \in Endpoint : endpoint[e] = "gone" =>
       secret[e].held = secret[e].newest /\ secret[e].active = {}
  /\ \A d \in Delivery : At(d, "post") =>
       /\ secret[d[1]].newest \in attempt.signed => secret[d[1]].held \in attempt.signed
       /\ endpoint[d[1]] # "gone" => \A k \in attempt.signed : k <= secret[d[1]].newest
  /\ GraceCoversSwitch

DeliveryInv(d) == RowIsHeld(d) /\ PostsAreCounted(d) /\ WorkerIsHonest(d)

HookInv ==
  /\ HookTypes /\ QuietOutside /\ SecretsCover
  /\ \A d \in Delivery : DeliveryInv(d)
-----------------------------------------------------------------------------
(* What a step leaves alone                                                *)

\* Null is none of the things it stands in for.
LEMMA NullIsNothing == Null \notin Nat /\ Null \notin Row /\ Null \notin Attempt
  BY WebhooksAssumption

\* A delivery is of an endpoint.
LEMMA OfEndpoint == \A d \in Delivery : d[1] \in Endpoint
  BY DEF Delivery

\* A delivery whose row, past and place with the worker stay keeps its invariant.
LEMMA DeliveryFrame ==
  ASSUME NEW d \in Delivery, DeliveryInv(d),
         delivery'[d] = delivery[d], past'[d] = past[d], batch'[d] = batch[d],
         On(d)' <=> On(d), On(d) => attempt' = attempt,
         endpoint'[d[1]] = "gone" <=> endpoint[d[1]] = "gone"
  PROVE  DeliveryInv(d)'
<1>1. /\ Pending(d)' <=> Pending(d)
      /\ Held(d)' <=> Held(d)
      /\ At(d, "succeeded")' <=> At(d, "succeeded")
      /\ At(d, "failed")' <=> At(d, "failed")
  BY DEF Pending, Held, On, At
<1>2. RowIsHeld(d)'
  BY <1>1 DEF DeliveryInv, RowIsHeld
<1>3. PostsAreCounted(d)'
  BY <1>1 DEF DeliveryInv, PostsAreCounted
<1>4. WorkerIsHonest(d)'
  <2> SUFFICES ASSUME delivery'[d] # Null, ~past'[d].overtaken
               PROVE  /\ delivery'[d].status = "succeeded" => past'[d].sent
                      /\ delivery'[d].status = "dead" => past'[d].failed >= MaxAttempts \/ past'[d].skipped
                      /\ Pending(d)' => delivery'[d].attempts <= past'[d].failed
                      /\ batch'[d] # Null => batch'[d] <= past'[d].failed
                      /\ On(d)' => attempt'.number <= past'[d].failed + 1
                      /\ At(d, "failed")' => attempt'.number <= past'[d].failed
                      /\ At(d, "succeeded")' => past'[d].sent
    BY DEF WorkerIsHonest
  <2>1. delivery[d] # Null /\ ~past[d].overtaken
    OBVIOUS
  <2>2. At(d, "failed") => On(d)
    BY DEF At
  <2> QED BY <1>1, <2>1, <2>2 DEF DeliveryInv, WorkerIsHonest
<1> QED BY <1>2, <1>3, <1>4 DEF DeliveryInv

\* The secrets of a step that touches neither endpoints, secrets nor the post.
LEMMA SecretsFrame ==
  ASSUME SecretsCover, endpoint' = endpoint, secret' = secret,
         \A d \in Delivery : past'[d].unverified => past[d].unverified,
         \A d \in Delivery : At(d, "post")' => attempt' = attempt
  PROVE  SecretsCover'
<1>1. GraceCoversSwitch'
  BY DEF SecretsCover, GraceCoversSwitch
<1>2. ASSUME NEW d \in Delivery, At(d, "post")'
      PROVE  /\ secret'[d[1]].newest \in attempt'.signed => secret'[d[1]].held \in attempt'.signed
             /\ endpoint'[d[1]] # "gone" => \A k \in attempt'.signed : k <= secret'[d[1]].newest
  <2>1. attempt' = attempt /\ At(d, "post")
    BY <1>2 DEF At, On
  <2> QED BY <2>1 DEF SecretsCover
<1> QED BY <1>1, <1>2 DEF SecretsCover
-----------------------------------------------------------------------------
(* Webhooks: one lemma per action                                          *)

\* A new client has no endpoints, deliveries or worker.
LEMMA HookInit == WebhooksInit => HookInv
<1> SUFFICES ASSUME WebhooksInit PROVE HookInv
  OBVIOUS
<1> USE DEF WebhooksInit
<1>1. HookTypes
  <2>1. secret \in [Endpoint -> Secret]
    BY DEF Secret
  <2>2. NoPast \in Past
    BY DEF Past, NoPast
  <2> QED BY <2>1, <2>2, Zenon DEF HookTypes, Nothing
<1>2. QuietOutside
  BY DEF QuietOutside, Working
<1>3. SecretsCover
  BY DEF SecretsCover, GraceCoversSwitch, NoPast, At, On
<1>4. ASSUME NEW d \in Delivery PROVE DeliveryInv(d)
  <2>1. delivery[d] = Null /\ batch[d] = Null /\ past[d] = NoPast /\ endpoint[d[1]] # "gone"
    BY OfEndpoint DEF Nothing
  <2>2. ~Held(d) /\ ~On(d) /\ ~Pending(d)
    BY <2>1 DEF Held, On, Pending
  <2> QED BY <2>1, <2>2, WebhooksAssumption
       DEF DeliveryInv, RowIsHeld, PostsAreCounted, WorkerIsHonest, NoPast, At
<1> QED BY <1>1, <1>2, <1>3, <1>4 DEF HookInv

\* create_endpoint, and enabling or disabling one.
LEMMA EndpointStep ==
  ASSUME HookInv, NEW e \in Endpoint, CreateEndpoint(e) \/ SetDisabled(e)
  PROVE  HookInv'
<1>1. /\ UNCHANGED <<secret, delivery, emission, loop, stop, batch, attempt, faults, past>>
      /\ \A f \in Endpoint : endpoint'[f] = "gone" <=> endpoint[f] = "gone"
      /\ endpoint' \in [Endpoint -> {"new", "enabled", "disabled", "gone"}]
  BY DEF HookInv, HookTypes, CreateEndpoint, SetDisabled, Exists
<1>2. HookTypes' /\ QuietOutside'
  BY <1>1 DEF HookInv, HookTypes, QuietOutside, Working, Nothing
<1>3. SecretsCover'
  BY <1>1, OfEndpoint DEF HookInv, SecretsCover, GraceCoversSwitch, At, On
<1>4. \A d \in Delivery : DeliveryInv(d)'
  BY <1>1, OfEndpoint, DeliveryFrame DEF HookInv, On
<1> QED BY <1>2, <1>3, <1>4 DEF HookInv

\* Deleting an endpoint takes its rows; whatever the worker holds of them counts anew.
LEMMA DeleteStep ==
  ASSUME HookInv, NEW e \in Endpoint, DeleteEndpoint(e)
  PROVE  HookInv'
<1> USE DEF HookInv, DeleteEndpoint
<1>1. /\ endpoint'[e] = "gone" /\ \A f \in Endpoint \ {e} : endpoint'[f] = endpoint[f]
      /\ secret'[e] = [newest |-> 1, active |-> {}, held |-> 1]
      /\ \A f \in Endpoint \ {e} : secret'[f] = secret[f]
      /\ endpoint' \in [Endpoint -> {"new", "enabled", "disabled", "gone"}]
      /\ secret' \in [Endpoint -> Secret]
      /\ UNCHANGED <<emission, loop, stop, batch, attempt>>
  BY DEF HookTypes, Secret
<1>2. HookTypes'
  <2>1. delivery' \in [Delivery -> Row \cup {Null}]
    BY DEF HookTypes
  <2>2. past' \in [Delivery -> Past]
    BY DEF HookTypes, Past, NoPast
  <2> QED BY <1>1, <2>1, <2>2 DEF HookTypes
<1>3. QuietOutside'
  BY <1>1 DEF QuietOutside, Working, Nothing
<1>4. SecretsCover'
  <2>1. GraceCoversSwitch'
    BY DEF SecretsCover, GraceCoversSwitch, NoPast
  <2>2. ASSUME NEW d \in Delivery, At(d, "post")'
        PROVE  /\ secret'[d[1]].newest \in attempt'.signed => secret'[d[1]].held \in attempt'.signed
               /\ endpoint'[d[1]] # "gone" => \A k \in attempt'.signed : k <= secret'[d[1]].newest
    <3>1. At(d, "post") /\ attempt' = attempt /\ d[1] \in Endpoint
      BY <1>1, <2>2, OfEndpoint DEF At, On
    <3>2. CASE d[1] = e
      BY <1>1, <3>1, <3>2
    <3>3. CASE d[1] # e
      BY <1>1, <3>1, <3>3 DEF SecretsCover
    <3> QED BY <3>2, <3>3
  <2> QED BY <1>1, <2>1, <2>2 DEF SecretsCover
<1>5. ASSUME NEW d \in Delivery PROVE DeliveryInv(d)'
  <2>1. CASE d[1] = e
    <3>1. delivery'[d] = Null /\ past'[d] = NoPast /\ endpoint'[d[1]] = "gone" /\ ~Pending(d)'
      BY <1>1, <2>1 DEF Pending
    <3>2. ~(batch'[d] # Null /\ On(d)')
      BY <1>1 DEF DeliveryInv, RowIsHeld, On
    <3> QED BY <3>1, <3>2, WebhooksAssumption
         DEF DeliveryInv, RowIsHeld, PostsAreCounted, WorkerIsHonest, NoPast
  <2>2. CASE d[1] # e
    BY <1>1, <2>2, OfEndpoint, DeliveryFrame DEF On
  <2> QED BY <2>1, <2>2, Zenon
<1> QED BY <1>2, <1>3, <1>4, <1>5

\* rotate_secret, the receiver's switch and the end of the grace period: the set
\* of active secrets loses none the receiver still holds.
LEMMA SecretStep ==
  ASSUME HookInv, NEW e \in Endpoint, Rotate(e) \/ SwitchSecret(e) \/ GraceEnds(e)
  PROVE  HookInv'
<1>0. /\ HookTypes /\ QuietOutside /\ SecretsCover /\ secret[e] \in Secret
      /\ \A d \in Delivery : DeliveryInv(d)
  BY DEF HookInv, HookTypes
<1>1. /\ UNCHANGED <<endpoint, delivery, emission, loop, stop, batch, attempt, past>>
      /\ \A f \in Endpoint \ {e} : secret'[f] = secret[f]
  BY <1>0 DEF HookTypes, Rotate, SwitchSecret, GraceEnds
<1>2. /\ secret' \in [Endpoint -> Secret]
      /\ endpoint[e] # "gone" =>
           /\ secret'[e].held \in secret'[e].active /\ secret'[e].newest \in secret'[e].active
           /\ \A k \in secret'[e].active : k <= secret'[e].newest
      /\ endpoint[e] = "gone" => secret'[e].held = secret'[e].newest /\ secret'[e].active = {}
      /\ \A S \in SUBSET Nat :
           /\ secret[e].newest \in S => secret[e].held \in S
           /\ endpoint[e] # "gone" => \A k \in S : k <= secret[e].newest
           => /\ secret'[e].newest \in S => secret'[e].held \in S
              /\ endpoint[e] # "gone" => \A k \in S : k <= secret'[e].newest
  <2>1. CASE Rotate(e)
    <3>1. /\ secret'[e].newest = secret[e].newest + 1 /\ secret'[e].held = secret[e].held
          /\ secret'[e].active = secret[e].active \cup {secret[e].newest + 1}
          /\ secret' \in [Endpoint -> Secret] /\ endpoint[e] # "gone"
      <4> DEFINE s == Rotated(secret[e])
      <4>1. /\ s.newest = secret[e].newest + 1 /\ s.held = secret[e].held
            /\ s.active = secret[e].active \cup {secret[e].newest + 1} /\ s \in Secret
        BY <1>0 DEF Rotated, Secret
      <4>2. secret' = [secret EXCEPT ![e] = s] /\ endpoint[e] # "gone"
        BY <2>1 DEF Rotate, Exists
      <4> HIDE DEF s
      <4> QED BY <1>0, <4>1, <4>2 DEF HookTypes
    <3>2. secret[e].newest \in Nat /\ secret[e].active \subseteq Nat /\ secret[e].held \in Nat
      BY <1>0 DEF Secret
    <3> QED BY <1>0, <3>1, <3>2 DEF SecretsCover
  <2>2. CASE SwitchSecret(e)
    <3>1. /\ secret'[e].newest = secret[e].newest /\ secret'[e].held = secret[e].newest
          /\ secret'[e].active = secret[e].active /\ secret' \in [Endpoint -> Secret]
          /\ secret[e].held # secret[e].newest
      BY <1>0, <2>2 DEF SwitchSecret, HookTypes, Secret
    <3>2. endpoint[e] # "gone" /\ secret[e].newest \in secret[e].active
      BY <1>0, <3>1 DEF SecretsCover
    <3> QED BY <1>0, <3>1, <3>2 DEF SecretsCover
  <2>3. CASE GraceEnds(e)
    <3>1. /\ secret'[e].newest = secret[e].newest /\ secret'[e].held = secret[e].held
          /\ secret'[e].active = {secret[e].newest} /\ secret' \in [Endpoint -> Secret]
          /\ secret[e].held = secret[e].newest
      BY <1>0, <2>3 DEF GraceEnds, HookTypes, Secret
    <3>2. endpoint[e] # "gone"
      BY <1>0, <2>3 DEF GraceEnds, SecretsCover
    <3> QED BY <1>0, <3>1, <3>2 DEF Secret
  <2> QED BY <2>1, <2>2, <2>3
<1>3. HookTypes' /\ QuietOutside'
  BY <1>0, <1>1, <1>2 DEF HookTypes, QuietOutside, Working, Nothing
<1>4. SecretsCover'
  <2>1. ASSUME NEW d \in Delivery, At(d, "post")'
        PROVE  /\ secret'[d[1]].newest \in attempt'.signed => secret'[d[1]].held \in attempt'.signed
               /\ endpoint'[d[1]] # "gone" => \A k \in attempt'.signed : k <= secret'[d[1]].newest
    <3>1. At(d, "post") /\ attempt' = attempt /\ d[1] \in Endpoint /\ endpoint' = endpoint
      BY <1>1, <2>1, OfEndpoint DEF At, On
    <3>2. attempt.signed \in SUBSET Nat
      BY <1>0, <3>1 DEF HookTypes, Attempt, At, On
    <3>3. CASE d[1] = e
      BY <1>0, <1>2, <3>1, <3>2, <3>3 DEF SecretsCover
    <3>4. CASE d[1] # e
      BY <1>0, <1>1, <3>1, <3>4 DEF SecretsCover
    <3> QED BY <3>3, <3>4
  <2>2. GraceCoversSwitch'
    BY <1>0, <1>1 DEF SecretsCover, GraceCoversSwitch
  <2>3. \A f \in Endpoint \ {e} : secret'[f] = secret[f] /\ endpoint'[f] = endpoint[f]
    BY <1>1
  <2> QED BY <1>0, <1>1, <1>2, <2>1, <2>2, <2>3 DEF SecretsCover
<1>5. \A d \in Delivery : DeliveryInv(d)'
  BY <1>0, <1>1, DeliveryFrame DEF On
<1> QED BY <1>3, <1>4, <1>5 DEF HookInv

\* The query of enqueue_event, and starting and stopping the worker.
LEMMA OutsideStep ==
  ASSUME HookInv, (\E v \in Event : EmitSelect(v)) \/ StopWorker \/ StartWorker
  PROVE  HookInv'
<1>1. /\ UNCHANGED <<endpoint, secret, delivery, batch, attempt, past>>
      /\ emission' \in Emission \cup {Null}
      /\ loop' \in {"off", "sleeping", "batch", "finishing", "ended"} /\ stop' \in BOOLEAN
      /\ ~Working' => ~Working
  <2>1. CASE \E v \in Event : EmitSelect(v)
    <3>1. PICK v \in Event : EmitSelect(v)
      BY <2>1
    <3>2. emission' \in Emission
      BY <3>1 DEF EmitSelect, Emission
    <3> QED BY <3>1, <3>2 DEF HookInv, HookTypes, EmitSelect, Working
  <2>2. CASE StopWorker
    BY <2>2 DEF HookInv, HookTypes, StopWorker, Cancelled, Working
  <2>3. CASE StartWorker
    BY <2>3, Zenon DEF HookInv, HookTypes, StartWorker, Working
  <2> QED BY <2>1, <2>2, <2>3
<1>2. HookTypes' /\ QuietOutside'
  BY <1>1 DEF HookInv, HookTypes, QuietOutside, Nothing
<1>3. SecretsCover'
  BY <1>1, SecretsFrame DEF HookInv
<1>4. \A d \in Delivery : DeliveryInv(d)'
  BY <1>1, DeliveryFrame DEF HookInv, On
<1> QED BY <1>2, <1>3, <1>4 DEF HookInv

\* The transaction of enqueue_event: a row is new only if its delivery has no past.
LEMMA InsertStep ==
  ASSUME HookInv, EmitInsert
  PROVE  HookInv'
<1> DEFINE new == [status |-> "pending", attempts |-> 0, due |-> TRUE]
<1>0. /\ HookTypes /\ QuietOutside /\ SecretsCover /\ \A d \in Delivery : DeliveryInv(d)
      /\ UNCHANGED <<endpoint, secret, loop, stop, batch, attempt, past>> /\ emission' = Null
      /\ new \in Row /\ new # Null
  <2>1. new \in Row
    BY DEF Row
  <2> QED BY <2>1, NullIsNothing, Zenon DEF HookInv, EmitInsert
<1>1. ASSUME NEW d \in Delivery
      PROVE  \/ delivery'[d] = delivery[d]
             \/ delivery'[d] = new /\ delivery[d] = Null /\ endpoint[d[1]] # "gone"
  <2>1. ASSUME NEW e \in Endpoint, Exists(e) PROVE endpoint[e] # "gone"
    BY <2>1 DEF Exists
  <2>2. emission \in Emission
    BY <1>0 DEF HookTypes, EmitInsert
  <2>3. \A e \in emission.to : e \in Endpoint /\ <<e, emission.event>>[1] = e
    BY <2>2 DEF Emission
  <2> QED BY <2>1, <2>3 DEF EmitInsert, Fresh
<1>2. HookTypes'
  <2>1. delivery' \in [Delivery -> Row \cup {Null}]
    <3>1. \A d \in Delivery : delivery'[d] \in Row \cup {Null}
      BY <1>0, <1>1 DEF HookTypes
    <3>2. delivery' = [d \in Delivery |-> delivery'[d]]
      BY DEF EmitInsert
    <3> QED BY <3>1, <3>2
  <2> QED BY <1>0, <2>1 DEF HookTypes
<1>3. QuietOutside'
  BY <1>0 DEF QuietOutside, Working, Nothing
<1>4. SecretsCover'
  BY <1>0, SecretsFrame
<1>5. ASSUME NEW d \in Delivery PROVE DeliveryInv(d)'
  <2>1. CASE delivery'[d] = delivery[d]
    BY <1>0, <2>1, DeliveryFrame DEF On
  <2>2. CASE delivery'[d] = new /\ delivery[d] = Null /\ endpoint[d[1]] # "gone"
    <3>1. past'[d] = NoPast /\ ~Held(d)' /\ ~On(d)' /\ batch'[d] = Null /\ endpoint'[d[1]] # "gone"
      BY <1>0, <2>2 DEF DeliveryInv, RowIsHeld, Held, On
    <3>2. /\ delivery'[d] # Null /\ delivery'[d].status = "pending" /\ delivery'[d].attempts = 0
          /\ Pending(d)'
      BY <1>0, <2>2 DEF Pending
    <3>3. ~At(d, "failed")' /\ ~At(d, "succeeded")'
      BY <3>1 DEF At
    <3> QED BY <3>1, <3>2, <3>3, WebhooksAssumption
         DEF DeliveryInv, RowIsHeld, PostsAreCounted, WorkerIsHonest, NoPast
  <2> QED BY <1>1, <2>1, <2>2
<1> QED BY <1>2, <1>3, <1>4, <1>5 DEF HookInv

\* claim_due: what is claimed is pending, and tried as often as its row says.
LEMMA ClaimStep ==
  ASSUME HookInv, Claim
  PROVE  HookInv'
<1>0. /\ HookTypes /\ QuietOutside /\ SecretsCover /\ \A d \in Delivery : DeliveryInv(d)
      /\ UNCHANGED <<endpoint, secret, delivery, emission, stop, attempt, past>>
      /\ loop = "sleeping" /\ loop' = "batch" /\ attempt = Null
  BY DEF HookInv, Claim, QuietOutside, Working
<1>1. ASSUME NEW d \in Delivery
      PROVE  \/ batch'[d] = Null
             \/ Pending(d) /\ delivery[d] \in Row /\ batch'[d] = delivery[d].attempts
  BY <1>0 DEF Claim, Due, Pending, HookTypes
<1>2. HookTypes'
  <2>1. \A d \in Delivery : batch'[d] \in Nat \cup {Null}
    BY <1>1 DEF Row
  <2>2. batch' \in [Delivery -> Nat \cup {Null}]
    BY <2>1 DEF Claim
  <2> QED BY <1>0, <2>2 DEF HookTypes
<1>3. QuietOutside'
  BY <1>0 DEF QuietOutside, Working
<1>4. SecretsCover'
  BY <1>0, SecretsFrame
<1>5. ASSUME NEW d \in Delivery PROVE DeliveryInv(d)'
  <2>1. /\ batch[d] = Null /\ ~On(d) /\ ~On(d)' /\ ~Held(d)
        /\ Pending(d)' <=> Pending(d)
        /\ Held(d)' => Pending(d)
        /\ ~At(d, "failed") /\ ~At(d, "succeeded") /\ ~At(d, "failed")' /\ ~At(d, "succeeded")'
    BY <1>0, <1>1 DEF QuietOutside, Working, Nothing, On, Held, At, Pending
  <2>2. CASE batch'[d] = Null
    BY <1>0, <2>1, <2>2, DeliveryFrame
  <2>3. CASE Pending(d) /\ delivery[d] \in Row /\ batch'[d] = delivery[d].attempts
    <3>1. delivery[d] # Null /\ delivery[d].attempts \in Nat
      BY <2>3, NullIsNothing, Zenon DEF Row
    <3>2. RowIsHeld(d)'
      BY <1>0, <2>1, <2>3, <3>1 DEF DeliveryInv, RowIsHeld
    <3>3. PostsAreCounted(d)'
      BY <1>0, <2>1, <2>3, <3>1 DEF DeliveryInv, PostsAreCounted
    <3>4. WorkerIsHonest(d)'
      BY <1>0, <2>1, <2>3, <3>1 DEF DeliveryInv, WorkerIsHonest
    <3> QED BY <3>2, <3>3, <3>4 DEF DeliveryInv
  <2> QED BY <1>1, <2>2, <2>3
<1> QED BY <1>2, <1>3, <1>4, <1>5 DEF HookInv

\* _attempt reads the endpoint: the row leaves the batch and is being tried.
LEMMA TakeStep ==
  ASSUME HookInv, NEW d \in Delivery, Take(d)
  PROVE  HookInv'
<1>0. /\ HookTypes /\ QuietOutside /\ SecretsCover /\ \A c \in Delivery : DeliveryInv(c)
      /\ UNCHANGED <<endpoint, secret, delivery, emission, loop, stop, past>>
      /\ attempt = Null /\ batch[d] # Null /\ batch[d] \in Nat /\ Working
      /\ batch' = [batch EXCEPT ![d] = Null]
  BY DEF HookInv, HookTypes, Take
<1>1. /\ attempt'.of = d /\ attempt'.number = batch[d] + 1 /\ attempt'.step \in {"sign", "skip"}
      /\ attempt' \in Attempt /\ attempt' # Null
  <2>1. attempt' \in Attempt
    BY <1>0 DEF Take, Attempt
  <2> QED BY <2>1, NullIsNothing, Zenon DEF Take
<1>2. HookTypes'
  BY <1>0, <1>1 DEF HookTypes
<1>3. QuietOutside'
  BY <1>0 DEF QuietOutside, Working
<1>4. SecretsCover'
  <2>1. \A c \in Delivery : ~At(c, "post")'
    BY <1>1 DEF At
  <2> QED BY <1>0, <2>1, SecretsFrame
<1>5. ASSUME NEW c \in Delivery PROVE DeliveryInv(c)'
  <2>1. CASE c # d
    <3>1. ~On(c) /\ ~On(c)' /\ batch'[c] = batch[c]
      BY <1>0, <1>1, <2>1 DEF On, HookTypes
    <3> QED BY <1>0, <3>1, DeliveryFrame
  <2>2. CASE c = d
    <3>1. /\ batch'[c] = Null /\ ~On(c) /\ On(c)' /\ Held(c) /\ Held(c)'
          /\ Pending(c)' <=> Pending(c)
          /\ ~At(c, "failed") /\ ~At(c, "succeeded") /\ ~At(c, "failed")' /\ ~At(c, "succeeded")'
      BY <1>0, <1>1, <2>2 DEF On, Held, At, Pending, HookTypes
    <3>2. delivery[c] # Null => delivery[c].attempts \in Nat
      BY <1>0, Zenon DEF HookTypes, Row
    <3>3. RowIsHeld(c)'
      BY <1>0, <1>1, <2>2, <3>1, <3>2 DEF DeliveryInv, RowIsHeld
    <3>4. PostsAreCounted(c)'
      BY <1>0, <3>1 DEF DeliveryInv, PostsAreCounted
    <3>5. past[c].failed \in Nat
      BY <1>0, Zenon DEF HookTypes, Past
    <3>6. WorkerIsHonest(c)'
      BY <1>0, <1>1, <2>2, <3>1, <3>5 DEF DeliveryInv, WorkerIsHonest
    <3> QED BY <3>3, <3>4, <3>6 DEF DeliveryInv
  <2> QED BY <2>1, <2>2
<1> QED BY <1>2, <1>3, <1>4, <1>5 DEF HookInv

\* The post is signed with every secret that is active.
LEMMA SignStep ==
  ASSUME HookInv, Sign
  PROVE  HookInv'
<1>0. /\ HookTypes /\ QuietOutside /\ SecretsCover /\ \A c \in Delivery : DeliveryInv(c)
      /\ UNCHANGED <<endpoint, secret, delivery, emission, loop, stop, batch, past>>
      /\ attempt \in Attempt /\ attempt # Null /\ attempt.step = "sign" /\ attempt.of[1] \in Endpoint
  BY OfEndpoint DEF HookInv, HookTypes, Sign, Attempt
<1>1. /\ attempt'.of = attempt.of /\ attempt'.number = attempt.number /\ attempt'.step = "post"
      /\ attempt'.signed = secret[attempt.of[1]].active
      /\ attempt' \in Attempt /\ attempt' # Null
  <2>1. secret[attempt.of[1]].active \in SUBSET Nat
    BY <1>0 DEF HookTypes, Secret
  <2>2. attempt' \in Attempt
    BY <1>0, <2>1, Zenon DEF Sign, Attempt
  <2> QED BY <1>0, <2>2, NullIsNothing, Zenon DEF Sign, Attempt
<1>2. HookTypes'
  BY <1>0, <1>1 DEF HookTypes
<1>3. QuietOutside'
  BY <1>0, Zenon DEF QuietOutside, Working
<1>4. SecretsCover'
  <2>1. GraceCoversSwitch'
    BY <1>0 DEF SecretsCover, GraceCoversSwitch
  <2>2. \A e \in Endpoint : secret[e].newest \in secret[e].active => secret[e].held \in secret[e].active
    BY <1>0 DEF SecretsCover
  <2> QED BY <1>0, <1>1, <2>1, <2>2 DEF SecretsCover, At, On
<1>5. ASSUME NEW c \in Delivery PROVE DeliveryInv(c)'
  <2>1. /\ Pending(c)' <=> Pending(c)
        /\ Held(c)' <=> Held(c)
        /\ On(c)' <=> On(c)
        /\ ~At(c, "failed") /\ ~At(c, "succeeded") /\ ~At(c, "failed")' /\ ~At(c, "succeeded")'
    BY <1>0, <1>1, Zenon DEF On, Held, At, Pending
  <2>2. RowIsHeld(c)'
    BY <1>0, <1>1, <2>1, Zenon DEF DeliveryInv, RowIsHeld
  <2>3. PostsAreCounted(c)'
    BY <1>0, <2>1, Zenon DEF DeliveryInv, PostsAreCounted
  <2>4. WorkerIsHonest(c)'
    BY <1>0, <1>1, <2>1 DEF DeliveryInv, WorkerIsHonest
  <2> QED BY <2>2, <2>3, <2>4 DEF DeliveryInv
<1> QED BY <1>2, <1>3, <1>4, <1>5 DEF HookInv

\* What a post leaves in the past of its delivery.
LEMMA PostFacts ==
  ASSUME HookTypes, NEW ok \in BOOLEAN, Post(ok)
  PROVE  LET d == attempt.of IN
         /\ d \in Delivery /\ attempt \in Attempt /\ attempt # Null /\ attempt.step = "post"
         /\ attempt' \in Attempt /\ attempt' # Null
         /\ attempt'.of = d /\ attempt'.number = attempt.number
         /\ attempt'.step = (IF ok THEN "succeeded" ELSE "failed")
         /\ past' \in [Delivery -> Past]
         /\ past'[d].accepted = (IF ok THEN past[d].accepted + 1 ELSE past[d].accepted)
         /\ past'[d].failed = (IF ok THEN past[d].failed ELSE past[d].failed + 1)
         /\ past'[d].excused = past[d].excused
         /\ ok => past'[d].sent
         /\ past'[d].overtaken <=> past[d].overtaken
         /\ past'[d].unverified <=> \/ past[d].unverified
                                    \/ /\ secret[d[1]].held \notin attempt.signed
                                       /\ secret[d[1]].newest \in attempt.signed
         /\ \A c \in Delivery \ {d} : past'[c] = past[c]
<1> DEFINE d == attempt.of
           bad == secret[d[1]].held \notin attempt.signed /\ secret[d[1]].newest \in attempt.signed
           p == [past[d] EXCEPT !.accepted = IF ok THEN @ + 1 ELSE @, !.sent = @ \/ ok,
                                !.failed = IF ok THEN @ ELSE @ + 1, !.unverified = @ \/ bad]
<1>1. d \in Delivery /\ attempt \in Attempt /\ attempt # Null /\ attempt.step = "post"
  BY DEF Post, HookTypes, Attempt
<1>2. /\ attempt' \in Attempt /\ attempt'.of = d /\ attempt'.number = attempt.number
      /\ attempt'.step = (IF ok THEN "succeeded" ELSE "failed")
  BY <1>1 DEF Post, Attempt
<1>3. past[d] \in Past
  BY <1>1 DEF HookTypes
<1>4. /\ p.accepted = (IF ok THEN past[d].accepted + 1 ELSE past[d].accepted)
      /\ p.failed = (IF ok THEN past[d].failed ELSE past[d].failed + 1)
      /\ p.excused = past[d].excused /\ p.overtaken = past[d].overtaken /\ p.skipped = past[d].skipped
      /\ p.sent = (past[d].sent \/ ok) /\ p.unverified = (past[d].unverified \/ bad)
      /\ p \in Past
  <2>1. /\ p.accepted = (IF ok THEN past[d].accepted + 1 ELSE past[d].accepted)
        /\ p.failed = (IF ok THEN past[d].failed ELSE past[d].failed + 1)
    BY <1>3 DEF Past
  <2>2. p.excused = past[d].excused /\ p.overtaken = past[d].overtaken /\ p.skipped = past[d].skipped
    BY <1>3 DEF Past
  <2>3. p.sent = (past[d].sent \/ ok)
    BY <1>3 DEF Past
  <2>4. p.unverified = (past[d].unverified \/ bad)
    BY <1>3 DEF Past
  <2>5. p \in Past
    <3> DEFINE a == IF ok THEN past[d].accepted + 1 ELSE past[d].accepted
               f == IF ok THEN past[d].failed ELSE past[d].failed + 1
    <3>1. a \in Nat /\ f \in Nat /\ (past[d].sent \/ ok) \in BOOLEAN
          /\ (past[d].unverified \/ bad) \in BOOLEAN
      BY <1>3 DEF Past
    <3>2. ASSUME NEW x \in Nat, NEW y \in Nat, NEW t \in BOOLEAN, NEW u \in BOOLEAN
          PROVE  [past[d] EXCEPT !.accepted = x, !.sent = t, !.failed = y, !.unverified = u] \in Past
      BY <1>3, Zenon DEF Past
    <3> QED BY <3>1, <3>2, Zenon
  <2> QED BY <2>1, <2>2, <2>3, <2>4, <2>5
<1>5. past' = [past EXCEPT ![d] = p]
  BY <1>1, Zenon DEF Post, HookTypes
<1> HIDE DEF p
<1>6. past'[d] = p /\ past' \in [Delivery -> Past] /\ \A c \in Delivery \ {d} : past'[c] = past[c]
  BY <1>1, <1>4, <1>5 DEF HookTypes
<1> QED BY <1>1, <1>2, <1>4, <1>6, NullIsNothing, Zenon

\* The receiver answers or does not: an accepted post is one the row or an excuse
\* will account for, a failed one is a try.
LEMMA PostStep ==
  ASSUME HookInv, NEW ok \in BOOLEAN, Post(ok)
  PROVE  HookInv'
<1> DEFINE d == attempt.of
<1>0. /\ HookTypes /\ QuietOutside /\ SecretsCover /\ \A c \in Delivery : DeliveryInv(c)
      /\ UNCHANGED <<endpoint, secret, delivery, emission, loop, stop, batch>>
  BY DEF HookInv, Post
<1>1. /\ d \in Delivery /\ attempt \in Attempt /\ attempt # Null /\ attempt.step = "post"
      /\ attempt' \in Attempt /\ attempt' # Null
      /\ attempt'.of = d /\ attempt'.number = attempt.number
      /\ attempt'.step = (IF ok THEN "succeeded" ELSE "failed")
      /\ past' \in [Delivery -> Past]
      /\ past'[d].accepted = (IF ok THEN past[d].accepted + 1 ELSE past[d].accepted)
      /\ past'[d].failed = (IF ok THEN past[d].failed ELSE past[d].failed + 1)
      /\ past'[d].excused = past[d].excused
      /\ ok => past'[d].sent
      /\ past'[d].overtaken <=> past[d].overtaken
      /\ past'[d].unverified <=> \/ past[d].unverified
                                 \/ /\ secret[d[1]].held \notin attempt.signed
                                    /\ secret[d[1]].newest \in attempt.signed
      /\ \A c \in Delivery \ {d} : past'[c] = past[c]
  BY <1>0, PostFacts
<1> HIDE DEF d
<1>2. HookTypes'
  BY <1>0, <1>1 DEF HookTypes
<1>3. QuietOutside'
  BY <1>0, <1>1 DEF QuietOutside, Working
<1>4. SecretsCover'
  <2>1. At(d, "post") /\ \A c \in Delivery : ~At(c, "post")'
    BY <1>1 DEF At, On, d
  <2>2. \A c \in Delivery : past'[c].unverified => past[c].unverified
    BY <1>0, <1>1, <2>1 DEF SecretsCover
  <2> QED BY <1>0, <2>1, <2>2, SecretsFrame
<1>5. ASSUME NEW c \in Delivery PROVE DeliveryInv(c)'
  <2>1. CASE c # d
    <3>1. ~On(c) /\ ~On(c)' /\ past'[c] = past[c]
      BY <1>1, <2>1 DEF On, d
    <3> QED BY <1>0, <3>1, DeliveryFrame
  <2>2. CASE c = d
    <3>1. /\ On(c) /\ On(c)' /\ Held(c) /\ Held(c)'
          /\ Pending(c)' <=> Pending(c)
          /\ ~At(c, "failed") /\ ~At(c, "succeeded")
          /\ At(c, "failed")' <=> ~ok
          /\ At(c, "succeeded")' <=> ok
      BY <1>0, <1>1, <2>2 DEF On, Held, At, Pending, d
    <3>2. /\ past[c].accepted \in Nat /\ past[c].failed \in Nat /\ past[c].excused \in Nat
          /\ delivery[c] # Null => delivery[c].attempts \in Nat
          /\ attempt.number \in Nat
      BY <1>0, <1>1 DEF HookTypes, Past, Row, Attempt
    <3>3. RowIsHeld(c)'
      <4>1. delivery[c] = Null => endpoint[c[1]] = "gone"
        BY <1>0, <3>1 DEF DeliveryInv, RowIsHeld
      <4> QED BY <1>0, <1>1, <3>1, <4>1, ZenonT(30) DEF DeliveryInv, RowIsHeld
    <3>4. PostsAreCounted(c)'
      <4>1. past[c].accepted <= past[c].excused
        BY <1>0, <3>1, Zenon DEF DeliveryInv, PostsAreCounted
      <4>2. Pending(c) => past[c].failed <= delivery[c].attempts + past[c].excused
                          /\ delivery[c].attempts < MaxAttempts
        BY <1>0, <3>1, Zenon DEF DeliveryInv, PostsAreCounted, RowIsHeld
      <4>3. delivery[c] = Null => past[c].failed <= past[c].excused
        BY <1>0, <3>1 DEF DeliveryInv, PostsAreCounted
      <4>4. delivery[c] = Null \/ Pending(c)
        BY <1>0, <3>1 DEF DeliveryInv, RowIsHeld
      <4>5. /\ past'[c].accepted <= 1 + past'[c].excused
            /\ ~ok => past'[c].accepted <= past'[c].excused
        BY <1>1, <2>2, <3>2, <4>1
      <4>6. /\ past'[c].failed <= MaxAttempts + past'[c].excused
            /\ Pending(c) => past'[c].failed <= delivery[c].attempts + 1 + past'[c].excused
            /\ Pending(c) /\ ok => past'[c].failed <= delivery[c].attempts + past'[c].excused
            /\ delivery[c] = Null /\ ok => past'[c].failed <= past'[c].excused
        BY <1>1, <2>2, <3>2, <4>2, <4>3, <4>4, WebhooksAssumption DEF Pending
      <4>7. delivery'[c] = delivery[c]
        BY <1>0, Zenon
      <4> QED BY <3>1, <4>5, <4>6, <4>7, ZenonT(30) DEF PostsAreCounted
    <3>5. WorkerIsHonest(c)'
      <4> SUFFICES ASSUME delivery'[c] # Null, ~past'[c].overtaken
                   PROVE  /\ delivery'[c].status = "succeeded" => past'[c].sent
                          /\ delivery'[c].status = "dead" => past'[c].failed >= MaxAttempts \/ past'[c].skipped
                          /\ Pending(c)' => delivery'[c].attempts <= past'[c].failed
                          /\ batch'[c] # Null => batch'[c] <= past'[c].failed
                          /\ On(c)' => attempt'.number <= past'[c].failed + 1
                          /\ At(c, "failed")' => attempt'.number <= past'[c].failed
                          /\ At(c, "succeeded")' => past'[c].sent
        BY DEF WorkerIsHonest
      <4>1. /\ delivery[c].attempts <= past[c].failed
            /\ attempt.number <= past[c].failed + 1 /\ batch[c] = Null
            /\ delivery[c].status = "pending"
        BY <1>0, <1>1, <2>2, <3>1, Zenon DEF DeliveryInv, WorkerIsHonest, RowIsHeld, Pending
      <4>2. past'[c].failed \in Nat /\ past'[c].failed >= past[c].failed
            /\ (~ok => past'[c].failed = past[c].failed + 1)
        BY <1>1, <2>2, <3>2
      <4>3. delivery'[c].status = "pending" /\ delivery'[c].attempts <= past'[c].failed
        BY <1>0, <3>2, <4>1, <4>2
      <4>4. /\ attempt'.number <= past'[c].failed + 1
            /\ ~ok => attempt'.number <= past'[c].failed
        BY <1>1, <3>2, <4>1, <4>2
      <4>5. batch'[c] = Null /\ (ok => past'[c].sent)
        BY <1>0, <1>1, <2>2, <4>1, Zenon
      <4> QED BY <3>1, <4>3, <4>4, <4>5, Zenon
    <3> QED BY <3>3, <3>4, <3>5, Zenon DEF DeliveryInv
  <2> QED BY <2>1, <2>2
<1> QED BY <1>2, <1>3, <1>4, <1>5 DEF HookInv

\* What mark_succeeded, mark_retry and mark_dead write.
LEMMA MarkFacts ==
  ASSUME HookTypes, Mark
  PROVE  LET d == attempt.of IN
         /\ d \in Delivery /\ attempt \in Attempt /\ attempt # Null
         /\ attempt.step \in {"skip", "succeeded", "failed"}
         /\ delivery' \in [Delivery -> Row \cup {Null}]
         /\ \A c \in Delivery \ {d} : delivery'[c] = delivery[c] /\ past'[c] = past[c]
         /\ delivery[d] = Null => delivery'[d] = Null
         /\ delivery[d] # Null =>
              /\ delivery'[d] # Null /\ delivery'[d].status = Status
              /\ delivery'[d].attempts = delivery[d].attempts + 1
         /\ past' \in [Delivery -> Past]
         /\ past'[d].accepted = past[d].accepted /\ past'[d].failed = past[d].failed
         /\ past'[d].excused = past[d].excused
         /\ past'[d].sent = past[d].sent /\ past'[d].overtaken = past[d].overtaken
         /\ past'[d].unverified = past[d].unverified
         /\ past'[d].skipped = (past[d].skipped \/ attempt.step = "skip")
<1> DEFINE d == attempt.of
           p == [past[d] EXCEPT !.skipped = @ \/ attempt.step = "skip"]
           r == [delivery[d] EXCEPT !.status = Status, !.attempts = @ + 1, !.due = Status # "pending"]
<1>1. /\ d \in Delivery /\ attempt \in Attempt /\ attempt # Null
      /\ attempt.step \in {"skip", "succeeded", "failed"}
  BY DEF Mark, HookTypes, Attempt
<1>2. past[d] \in Past /\ delivery[d] \in Row \cup {Null}
  BY <1>1 DEF HookTypes
<1>3. /\ p.accepted = past[d].accepted /\ p.failed = past[d].failed /\ p.excused = past[d].excused
      /\ p.sent = past[d].sent /\ p.overtaken = past[d].overtaken
      /\ p.unverified = past[d].unverified
  BY <1>2 DEF Past
<1>4. p.skipped = (past[d].skipped \/ attempt.step = "skip")
  BY <1>2 DEF Past
<1>5. p \in Past
  <2>1. (past[d].skipped \/ attempt.step = "skip") \in BOOLEAN
    OBVIOUS
  <2>2. ASSUME NEW t \in BOOLEAN PROVE [past[d] EXCEPT !.skipped = t] \in Past
    BY <1>2 DEF Past
  <2> QED BY <2>1, <2>2, Zenon
<1>6. Status \in {"pending", "succeeded", "dead"} /\ (Status # "pending") \in BOOLEAN
  BY <1>1 DEF Status
<1>7. delivery[d] # Null => r \in Row /\ r # Null /\ r.status = Status
                            /\ r.attempts = delivery[d].attempts + 1
  <2>1. ASSUME NEW q \in Row, NEW x \in {"pending", "succeeded", "dead"}, NEW n \in Nat, NEW t \in BOOLEAN
        PROVE  [q EXCEPT !.status = x, !.attempts = n, !.due = t] \in Row
    BY Zenon DEF Row
  <2>2. delivery[d] # Null => delivery[d] \in Row /\ delivery[d].attempts + 1 \in Nat
    BY <1>2 DEF Row
  <2>4. delivery[d] # Null => r \in Row
    BY <1>6, <2>1, <2>2, Zenon
  <2>3. delivery[d] # Null => r.status = Status /\ r.attempts = delivery[d].attempts + 1
    BY <1>2 DEF Row
  <2> QED BY <2>3, <2>4, NullIsNothing
<1>8. past' = [past EXCEPT ![d] = p]
  BY <1>1 DEF Mark, HookTypes
<1>9. delivery' = IF delivery[d] = Null THEN delivery ELSE [delivery EXCEPT ![d] = r]
  BY <1>1, Zenon DEF Mark, HookTypes
<1> HIDE DEF p, r
<1>10. /\ past'[d] = p /\ past' \in [Delivery -> Past]
       /\ \A c \in Delivery \ {d} : past'[c] = past[c]
  BY <1>1, <1>5, <1>8 DEF HookTypes
<1>11. /\ delivery[d] # Null => delivery'[d] = r
       /\ delivery[d] = Null => delivery'[d] = Null
       /\ delivery' \in [Delivery -> Row \cup {Null}]
       /\ \A c \in Delivery \ {d} : delivery'[c] = delivery[c]
  BY <1>1, <1>7, <1>9 DEF HookTypes
<1> QED BY <1>1, <1>3, <1>4, <1>7, <1>10, <1>11

\* The outcome is written: the row says what happened, unless a replay came between.
LEMMA MarkStep ==
  ASSUME HookInv, Mark
  PROVE  HookInv'
<1> DEFINE d == attempt.of
<1>0. /\ HookTypes /\ QuietOutside /\ SecretsCover /\ \A c \in Delivery : DeliveryInv(c)
      /\ UNCHANGED <<endpoint, secret, emission, loop, stop, batch>> /\ attempt' = Null
  BY Zenon DEF HookInv, Mark
<1>1. /\ d \in Delivery /\ attempt \in Attempt /\ attempt # Null
      /\ attempt.step \in {"skip", "succeeded", "failed"}
      /\ delivery' \in [Delivery -> Row \cup {Null}]
      /\ \A c \in Delivery \ {d} : delivery'[c] = delivery[c] /\ past'[c] = past[c]
      /\ delivery[d] = Null => delivery'[d] = Null
      /\ delivery[d] # Null =>
           /\ delivery'[d] # Null /\ delivery'[d].status = Status
           /\ delivery'[d].attempts = delivery[d].attempts + 1
      /\ past' \in [Delivery -> Past]
      /\ past'[d].accepted = past[d].accepted /\ past'[d].failed = past[d].failed
      /\ past'[d].excused = past[d].excused
      /\ past'[d].sent = past[d].sent /\ past'[d].overtaken = past[d].overtaken
      /\ past'[d].unverified = past[d].unverified
      /\ past'[d].skipped = (past[d].skipped \/ attempt.step = "skip")
  BY <1>0, MarkFacts, Zenon
<1>2. HookTypes'
  BY <1>0, <1>1 DEF HookTypes
<1>3. QuietOutside'
  BY <1>0, Zenon DEF QuietOutside, Working, Nothing
<1>4. SecretsCover'
  <2>1. \A c \in Delivery : ~At(c, "post")'
    BY <1>0 DEF At, On
  <2>2. \A c \in Delivery : past'[c].unverified => past[c].unverified
    BY <1>1
  <2> QED BY <1>0, <2>1, <2>2, SecretsFrame
<1> HIDE DEF d
<1>5. ASSUME NEW c \in Delivery PROVE DeliveryInv(c)'
  <2>1. CASE c # d
    <3>1. ~On(c) /\ ~On(c)'
      BY <1>0, <2>1 DEF On, d
    <3> QED BY <1>0, <1>1, <2>1, <3>1, DeliveryFrame
  <2>2. CASE c = d
    <3>1. /\ On(c) /\ Held(c) /\ batch[c] = Null /\ batch'[c] = Null
          /\ ~On(c)' /\ ~Held(c)' /\ ~At(c, "failed")' /\ ~At(c, "succeeded")'
          /\ At(c, attempt.step)
      BY <1>0, <1>1, <2>2, Zenon DEF On, Held, At, DeliveryInv, RowIsHeld, d
    <3>2. /\ past[c].accepted \in Nat /\ past[c].failed \in Nat /\ past[c].excused \in Nat
          /\ delivery[c] # Null => delivery[c].attempts \in Nat
          /\ attempt.number \in Nat
      BY <1>0, <1>1 DEF HookTypes, Past, Row, Attempt
    <3>3. CASE delivery[c] = Null
      <4>1. delivery'[c] = Null /\ ~Pending(c)' /\ endpoint'[c[1]] = "gone"
        BY <1>0, <1>1, <2>2, <3>1, <3>3, ZenonT(30) DEF Pending, DeliveryInv, RowIsHeld
      <4>2. PostsAreCounted(c)'
        BY <1>0, <1>1, <2>2, <3>1, <4>1, ZenonT(30) DEF DeliveryInv, PostsAreCounted
      <4> QED BY <3>1, <4>1, <4>2, ZenonT(30) DEF DeliveryInv, RowIsHeld, WorkerIsHonest
    <3>4. CASE delivery[c] # Null
      <4>1. /\ Pending(c) /\ delivery[c].attempts < attempt.number
            /\ endpoint'[c[1]] # "gone" /\ delivery'[c] # Null
            /\ delivery'[c].attempts = delivery[c].attempts + 1 /\ delivery'[c].status = Status
        BY <1>0, <1>1, <2>2, <3>1, <3>4, Zenon DEF DeliveryInv, RowIsHeld
      <4>2. Pending(c)' <=> attempt.step = "failed" /\ attempt.number < MaxAttempts
        <5>1. MaxAttempts \in Nat /\ (Pending(c)' <=> Status = "pending")
          BY <4>1, WebhooksAssumption DEF Pending
        <5>2. GivenUp(attempt.number) <=> ~(attempt.number < MaxAttempts)
          BY <3>2, <5>1 DEF GivenUp
        <5> QED BY <1>1, <5>1, <5>2 DEF Status
      <4>3. RowIsHeld(c)'
        <5>1. Pending(c)' => delivery'[c].attempts < MaxAttempts
          BY <3>2, <3>4, <4>1, <4>2, WebhooksAssumption
        <5> QED BY <3>1, <4>1, <5>1, Zenon DEF RowIsHeld
      <4>4. PostsAreCounted(c)'
        <5>1. /\ past[c].accepted <= 1 + past[c].excused
              /\ past[c].failed <= MaxAttempts + past[c].excused
          BY <1>0, ZenonT(30) DEF DeliveryInv, PostsAreCounted
        <5>2. Pending(c)' => past[c].accepted <= past[c].excused
                             /\ past[c].failed <= delivery[c].attempts + 1 + past[c].excused
          BY <1>0, <3>1, <4>1, <4>2 DEF DeliveryInv, PostsAreCounted, At
        <5> QED BY <1>1, <2>2, <3>1, <4>1, <5>1, <5>2, ZenonT(30) DEF PostsAreCounted
      <4>5. WorkerIsHonest(c)'
        <5> SUFFICES ASSUME ~past'[c].overtaken
                     PROVE  /\ delivery'[c].status = "succeeded" => past'[c].sent
                            /\ delivery'[c].status = "dead" => past'[c].failed >= MaxAttempts \/ past'[c].skipped
                            /\ Pending(c)' => delivery'[c].attempts <= past'[c].failed
          BY <3>1 DEF WorkerIsHonest
        <5>1. ~past[c].overtaken
          BY <1>1, <2>2
        <5>2. /\ At(c, "succeeded") => past[c].sent
              /\ At(c, "failed") => attempt.number <= past[c].failed
          BY <1>0, <3>4, <5>1, Zenon DEF DeliveryInv, WorkerIsHonest
        <5>3. delivery'[c].status = "succeeded" => past'[c].sent
          BY <1>1, <2>2, <3>1, <4>1, <5>2 DEF Status
        <5>4. delivery'[c].status = "dead" => past'[c].failed >= MaxAttempts \/ past'[c].skipped
          <6>1. CASE attempt.step = "skip"
            BY <1>1, <2>2, <6>1, Zenon
          <6>2. CASE attempt.step = "failed"
            <7>1. past'[c].failed = past[c].failed /\ attempt.number <= past[c].failed
              BY <1>1, <2>2, <3>1, <5>2, <6>2
            <7>2. delivery'[c].status = "dead" => attempt.number >= MaxAttempts
              BY <4>1, <6>2, Zenon DEF Status, GivenUp
            <7> QED BY <3>2, <7>1, <7>2, WebhooksAssumption
          <6> QED BY <1>1, <4>1, <6>1, <6>2 DEF Status
        <5>5. Pending(c)' => delivery'[c].attempts <= past'[c].failed
          <6>1. Pending(c)' => At(c, "failed")
            BY <3>1, <4>2
          <6>2. past'[c].failed = past[c].failed /\ delivery'[c].attempts = delivery[c].attempts + 1
            BY <1>1, <2>2, <4>1
          <6>3. delivery[c].attempts + 1 <= attempt.number
            BY <3>2, <3>4, <4>1
          <6> QED BY <3>2, <3>4, <5>2, <6>1, <6>2, <6>3
        <5> QED BY <5>3, <5>4, <5>5, Zenon
      <4> QED BY <4>3, <4>4, <4>5 DEF DeliveryInv
    <3> QED BY <3>3, <3>4
  <2> QED BY <2>1, <2>2, Zenon
<1> QED BY <1>2, <1>3, <1>4, <1>5 DEF HookInv

\* One more excuse, and nothing else of the past.
LEMMA ExcuseFacts ==
  ASSUME past \in [Delivery -> Past], NEW d \in Delivery,
         past' = [past EXCEPT ![d].excused = @ + 1]
  PROVE  /\ past' \in [Delivery -> Past]
         /\ past'[d].accepted = past[d].accepted /\ past'[d].failed = past[d].failed
         /\ past'[d].excused = past[d].excused + 1
         /\ past'[d].sent = past[d].sent /\ past'[d].overtaken = past[d].overtaken
         /\ past'[d].skipped = past[d].skipped /\ past'[d].unverified = past[d].unverified
         /\ \A c \in Delivery \ {d} : past'[c] = past[c]
<1> DEFINE p == [past[d] EXCEPT !.excused = @ + 1]
<1>1. past[d] \in Past
  OBVIOUS
<1>2. /\ p.accepted = past[d].accepted /\ p.failed = past[d].failed
      /\ p.excused = past[d].excused + 1
      /\ p.sent = past[d].sent /\ p.overtaken = past[d].overtaken
      /\ p.skipped = past[d].skipped /\ p.unverified = past[d].unverified
  BY <1>1 DEF Past
<1>3. p \in Past
  BY <1>1 DEF Past
<1>4. past' = [past EXCEPT ![d] = p]
  OBVIOUS
<1> HIDE DEF p
<1> QED BY <1>2, <1>3, <1>4

\* A batch is dropped: what was claimed goes back to its row, and the attempt that
\* was under way is excused.
LEMMA DeliveryReleased ==
  ASSUME HookTypes, NEW c \in Delivery, DeliveryInv(c),
         delivery'[c] = delivery[c], endpoint' = endpoint, batch'[c] = Null, attempt' = Null,
         \/ ~On(c) /\ past'[c] = past[c]
         \/ /\ On(c)
            /\ past'[c].accepted = past[c].accepted /\ past'[c].failed = past[c].failed
            /\ past'[c].excused = past[c].excused + 1
            /\ past'[c].sent = past[c].sent /\ past'[c].overtaken = past[c].overtaken
            /\ past'[c].skipped = past[c].skipped
  PROVE  DeliveryInv(c)'
<1>1. /\ ~On(c)' /\ ~Held(c)' /\ ~At(c, "failed")' /\ ~At(c, "succeeded")'
      /\ Pending(c)' <=> Pending(c)
  BY DEF On, Held, At, Pending
<1>2. /\ past[c].accepted \in Nat /\ past[c].failed \in Nat /\ past[c].excused \in Nat
      /\ delivery[c] # Null => delivery[c].attempts \in Nat
  BY Zenon DEF HookTypes, Past, Row
<1>3. RowIsHeld(c)'
  <2>1. delivery[c] = Null /\ endpoint[c[1]] # "gone" => past[c] = NoPast /\ ~On(c)
    BY DEF DeliveryInv, RowIsHeld, Held, On
  <2> QED BY <1>1, <2>1, Zenon DEF DeliveryInv, RowIsHeld
<1>4. PostsAreCounted(c)'
  <2>1. CASE ~On(c)
    BY <1>1, <2>1 DEF DeliveryInv, PostsAreCounted, At
  <2>2. CASE On(c)
    <3>1. /\ past[c].accepted <= 1 + past[c].excused
          /\ past[c].failed <= MaxAttempts + past[c].excused
          /\ Pending(c) => \/ past[c].failed <= delivery[c].attempts + past[c].excused
                           \/ past[c].failed <= delivery[c].attempts + 1 + past[c].excused
      BY Zenon DEF DeliveryInv, PostsAreCounted
    <3>2. Pending(c) => delivery[c].attempts \in Nat
      BY <1>2, Zenon DEF Pending
    <3>3. /\ past'[c].accepted <= past'[c].excused
          /\ past'[c].failed <= MaxAttempts + past'[c].excused
          /\ Pending(c) => past'[c].failed <= delivery[c].attempts + past'[c].excused
      BY <1>2, <2>2, <3>1, <3>2, WebhooksAssumption
    <3>4. past'[c].accepted <= 1 + past'[c].excused
      <4>1. past'[c].accepted \in Nat /\ past'[c].excused \in Nat
        BY <1>2, <2>2
      <4> QED BY <3>3, <4>1
    <3> QED BY <1>1, <3>3, <3>4, Zenon DEF PostsAreCounted
  <2> QED BY <2>1, <2>2, Zenon
<1>5. WorkerIsHonest(c)'
  <2>1. /\ past'[c].failed = past[c].failed /\ past'[c].sent = past[c].sent
        /\ past'[c].overtaken = past[c].overtaken /\ past'[c].skipped = past[c].skipped
    OBVIOUS
  <2> QED BY <1>1, <2>1, Zenon DEF DeliveryInv, WorkerIsHonest
<1> QED BY <1>3, <1>4, <1>5, Zenon DEF DeliveryInv

\* A write that fails, the end of a batch, and the end of the process.
LEMMA ReleaseStep ==
  ASSUME HookInv, MarkFails \/ BatchEnds \/ Crash
  PROVE  HookInv'
<1>0. /\ HookTypes /\ QuietOutside /\ SecretsCover /\ \A c \in Delivery : DeliveryInv(c)
      /\ UNCHANGED <<endpoint, secret, delivery>> /\ attempt' = Null /\ batch' = Nothing
      /\ emission' \in {emission, Null}
      /\ loop' \in {"off", "sleeping", "batch", "finishing", "ended"} /\ stop' \in {stop, FALSE}
  BY Zenon DEF HookInv, HookTypes, MarkFails, BatchEnds, Crash, AfterFailure
<1>1. \/ attempt = Null /\ past' = past
      \/ /\ attempt # Null /\ attempt.of \in Delivery
         /\ past' = [past EXCEPT ![attempt.of].excused = @ + 1]
  BY <1>0 DEF MarkFails, BatchEnds, Crash, HookTypes, Attempt
<1>2. /\ past' \in [Delivery -> Past]
      /\ \A c \in Delivery : past'[c].unverified = past[c].unverified
  BY <1>0, <1>1, ExcuseFacts DEF HookTypes
<1>3. HookTypes'
  BY <1>0, <1>2, Zenon DEF HookTypes, Nothing
<1>4. QuietOutside'
  BY <1>0 DEF QuietOutside, Nothing
<1>5. SecretsCover'
  <2>1. \A c \in Delivery : ~At(c, "post")'
    BY <1>0 DEF At, On
  <2> QED BY <1>0, <1>2, <2>1, SecretsFrame
<1>6. ASSUME NEW c \in Delivery PROVE DeliveryInv(c)'
  <2>1. batch'[c] = Null
    BY <1>0 DEF Nothing
  <2>2. CASE On(c)
    <3>1. past' = [past EXCEPT ![c].excused = @ + 1]
      BY <1>1, <2>2, Zenon DEF On
    <3> QED BY <1>0, <2>1, <2>2, <3>1, ExcuseFacts, DeliveryReleased DEF HookTypes
  <2>3. CASE ~On(c)
    <3>1. past'[c] = past[c]
      <4>1. CASE attempt = Null
        BY <1>1, <4>1
      <4>2. CASE attempt # Null
        <5>1. attempt.of # c
          BY <2>3, <4>2 DEF On
        <5> QED BY <1>0, <1>1, <4>2, <5>1, ExcuseFacts DEF HookTypes
      <4> QED BY <4>1, <4>2
    <3> QED BY <1>0, <2>1, <2>3, <3>1, DeliveryReleased
  <2> QED BY <2>2, <2>3
<1> QED BY <1>3, <1>4, <1>5, <1>6 DEF HookInv

\* The retry delay passes.
LEMMA BackoffStep ==
  ASSUME HookInv, NEW d \in Delivery, Backoff(d)
  PROVE  HookInv'
<1>0. /\ HookTypes /\ QuietOutside /\ SecretsCover /\ \A c \in Delivery : DeliveryInv(c)
      /\ UNCHANGED <<endpoint, secret, emission, loop, stop, batch, attempt, past>>
      /\ Pending(d) /\ delivery[d] \in Row
  BY DEF HookInv, HookTypes, Backoff, Pending
<1> DEFINE r == [delivery[d] EXCEPT !.due = TRUE]
<1>1. r \in Row /\ r.status = delivery[d].status /\ r.attempts = delivery[d].attempts
  BY <1>0, Zenon DEF Row
<1>2. delivery' = [delivery EXCEPT ![d] = r]
  BY DEF Backoff
<1> HIDE DEF r
<1>3. /\ delivery' \in [Delivery -> Row \cup {Null}] /\ delivery'[d] = r /\ r # Null
      /\ \A c \in Delivery \ {d} : delivery'[c] = delivery[c]
  BY <1>0, <1>1, <1>2, NullIsNothing DEF HookTypes
<1>4. HookTypes' /\ QuietOutside'
  BY <1>0, <1>3 DEF HookTypes, QuietOutside, Working, Nothing
<1>5. SecretsCover'
  BY <1>0, SecretsFrame, Zenon
<1>6. ASSUME NEW c \in Delivery PROVE DeliveryInv(c)'
  <2>1. CASE c # d
    BY <1>0, <1>3, <2>1, DeliveryFrame DEF On
  <2>2. CASE c = d
    <3>1. /\ Pending(c) /\ Pending(c)' /\ delivery[c] # Null /\ delivery'[c] # Null
          /\ delivery'[c].status = delivery[c].status /\ delivery'[c].attempts = delivery[c].attempts
      BY <1>0, <1>1, <1>3, <2>2 DEF Pending
    <3>2. /\ Held(c)' <=> Held(c)
          /\ On(c)' <=> On(c)
          /\ At(c, "failed")' <=> At(c, "failed")
          /\ At(c, "succeeded")' <=> At(c, "succeeded")
      BY <1>0, Zenon DEF Held, On, At
    <3>3. RowIsHeld(c)'
      BY <1>0, <3>1, <3>2, Zenon DEF DeliveryInv, RowIsHeld
    <3>4. PostsAreCounted(c)'
      BY <1>0, <3>1, <3>2, ZenonT(30) DEF DeliveryInv, PostsAreCounted
    <3>5. WorkerIsHonest(c)'
      BY <1>0, <3>1, <3>2, Zenon DEF DeliveryInv, WorkerIsHonest
    <3> QED BY <3>3, <3>4, <3>5 DEF DeliveryInv
  <2> QED BY <2>1, <2>2
<1> QED BY <1>4, <1>5, <1>6 DEF HookInv

\* The operator replays a delivery: it starts over, with one more excuse; a row the
\* worker has read is overtaken.
LEMMA ReplayStep ==
  ASSUME HookInv, NEW d \in Delivery, Replay(d)
  PROVE  HookInv'
<1>0. /\ HookTypes /\ QuietOutside /\ SecretsCover /\ \A c \in Delivery : DeliveryInv(c)
      /\ UNCHANGED <<endpoint, secret, emission, loop, stop, batch, attempt>>
      /\ delivery[d] # Null /\ past[d] \in Past /\ delivery[d] \in Row
  BY DEF HookInv, HookTypes, Replay
<1> DEFINE p == [past[d] EXCEPT !.failed = 0, !.sent = FALSE, !.skipped = FALSE,
                                !.overtaken = Held(d), !.excused = @ + 1]
           r == [status |-> "pending", attempts |-> 0, due |-> TRUE]
<1>1. /\ p.accepted = past[d].accepted /\ p.failed = 0 /\ p.excused = past[d].excused + 1
      /\ p.unverified = past[d].unverified
  BY <1>0 DEF Past
<1>2. p.overtaken = Held(d)
  BY <1>0 DEF Past
<1>3. p \in Past
  <2>1. Held(d) \in BOOLEAN /\ past[d].excused + 1 \in Nat
    BY <1>0 DEF Held, Past
  <2>2. ASSUME NEW q \in Past, NEW t \in BOOLEAN, NEW n \in Nat
        PROVE  [q EXCEPT !.failed = 0, !.sent = FALSE, !.skipped = FALSE,
                         !.overtaken = t, !.excused = n] \in Past
    BY Zenon DEF Past
  <2> QED BY <1>0, <2>1, <2>2, Zenon
<1>4. r \in Row /\ r.status = "pending" /\ r.attempts = 0
  BY DEF Row
<1>5. past' = [past EXCEPT ![d] = p] /\ delivery' = [delivery EXCEPT ![d] = r]
  <2>1. past' = [past EXCEPT ![d] = p]
    BY <1>0, Zenon DEF Replay, HookTypes
  <2>2. delivery' = [delivery EXCEPT ![d] = r]
    BY Zenon DEF Replay
  <2> QED BY <2>1, <2>2
<1> HIDE DEF p, r
<1>6. /\ delivery' \in [Delivery -> Row \cup {Null}] /\ delivery'[d] = r /\ r # Null
      /\ past' \in [Delivery -> Past] /\ past'[d] = p
      /\ \A c \in Delivery \ {d} : delivery'[c] = delivery[c] /\ past'[c] = past[c]
  BY <1>0, <1>3, <1>4, <1>5, NullIsNothing DEF HookTypes
<1>7. HookTypes' /\ QuietOutside'
  BY <1>0, <1>6 DEF HookTypes, QuietOutside, Working, Nothing
<1>8. SecretsCover'
  <2>1. \A c \in Delivery : past'[c].unverified => past[c].unverified
    BY <1>1, <1>6, Zenon
  <2> QED BY <1>0, <2>1, SecretsFrame
<1>9. ASSUME NEW c \in Delivery PROVE DeliveryInv(c)'
  <2>1. CASE c # d
    BY <1>0, <1>6, <2>1, DeliveryFrame DEF On
  <2>2. CASE c = d
    <3>1. /\ Pending(c)' /\ delivery'[c] # Null /\ delivery'[c].attempts = 0
          /\ delivery'[c].status = "pending"
      BY <1>4, <1>6, <2>2, Zenon DEF Pending
    <3>2. /\ Held(c)' <=> Held(c)
          /\ On(c)' <=> On(c)
          /\ On(c) => Held(c)
          /\ batch[c] # Null => Held(c)
          /\ At(c, "failed")' => On(c)
          /\ At(c, "succeeded")' => On(c)
      BY <1>0 DEF Held, On, At
    <3>3. /\ past[c].accepted \in Nat /\ past[c].excused \in Nat
          /\ batch[c] # Null => batch[c] \in Nat
          /\ On(c) => attempt.number \in Nat
      BY <1>0, Zenon DEF HookTypes, Past, On, Attempt
    <3>4. RowIsHeld(c)'
      <4>1. On(c) => 0 < attempt.number
        BY <1>0, <2>2, <3>3 DEF DeliveryInv, RowIsHeld, HookTypes, Row
      <4>2. ~(batch[c] # Null /\ On(c)) /\ endpoint[c[1]] # "gone"
        BY <1>0, <2>2, ZenonT(30) DEF DeliveryInv, RowIsHeld
      <4>3. 0 < MaxAttempts /\ (batch[c] # Null => 0 <= batch[c])
        BY <3>3, WebhooksAssumption
      <4>4. endpoint' = endpoint /\ batch' = batch /\ attempt' = attempt
        BY <1>0, Zenon
      <4> QED BY <3>1, <3>2, <4>1, <4>2, <4>3, <4>4, ZenonT(30) DEF RowIsHeld
    <3>5. PostsAreCounted(c)'
      <4>1. past[c].accepted <= 1 + past[c].excused
        BY <1>0 DEF DeliveryInv, PostsAreCounted
      <4>2. /\ past'[c].accepted <= past'[c].excused /\ past'[c].excused \in Nat
            /\ past'[c].accepted \in Nat /\ past'[c].failed = 0 /\ MaxAttempts \in Nat
        BY <1>1, <1>6, <2>2, <3>3, <4>1, WebhooksAssumption
      <4> QED BY <3>1, <4>2 DEF PostsAreCounted
    <3>6. WorkerIsHonest(c)'
      <4>1. ~past'[c].overtaken => ~Held(c)
        BY <1>2, <1>6, <2>2
      <4>2. past'[c].failed = 0
        BY <1>1, <1>6, <2>2
      <4>3. ~past'[c].overtaken => batch'[c] = Null /\ ~On(c)' /\ ~At(c, "failed")' /\ ~At(c, "succeeded")'
        BY <1>0, <3>2, <4>1
      <4> QED BY <3>1, <4>2, <4>3 DEF WorkerIsHonest
    <3> QED BY <3>4, <3>5, <3>6 DEF DeliveryInv
  <2> QED BY <2>1, <2>2
<1> QED BY <1>7, <1>8, <1>9 DEF HookInv

\* Steps of the other channel.
LEMMA HookStutter ==
  ASSUME HookInv, UNCHANGED webhooks
  PROVE  HookInv'
<1>0. UNCHANGED <<endpoint, secret, delivery, emission, loop, stop, batch, attempt, past>>
  BY DEF webhooks
<1>1. HookTypes' /\ QuietOutside'
  BY <1>0 DEF HookInv, HookTypes, QuietOutside, Working, Nothing
<1>2. SecretsCover'
  BY <1>0, SecretsFrame DEF HookInv
<1>3. \A c \in Delivery : DeliveryInv(c)'
  BY <1>0, DeliveryFrame DEF HookInv, On
<1> QED BY <1>1, <1>2, <1>3 DEF HookInv

\* Every step of the worker, the operator, the emission and the process.
LEMMA HookStep ==
  ASSUME HookInv, WebhooksNext
  PROVE  HookInv'
<1>1. CASE \E e \in Endpoint : CreateEndpoint(e) \/ SetDisabled(e) \/ DeleteEndpoint(e)
                               \/ Rotate(e) \/ SwitchSecret(e) \/ GraceEnds(e)
  BY <1>1, EndpointStep, DeleteStep, SecretStep
<1>2. CASE \E v \in Event : EmitSelect(v)
  BY <1>2, OutsideStep
<1>3. CASE EmitInsert \/ Claim
  BY <1>3, InsertStep, ClaimStep
<1>4. CASE Worker
  BY <1>4, TakeStep, SignStep, PostStep, MarkStep, ReleaseStep DEF Worker
<1>5. CASE \E d \in Delivery : Replay(d) \/ Backoff(d)
  BY <1>5, ReplayStep, BackoffStep
<1>6. CASE MarkFails \/ Crash
  BY <1>6, ReleaseStep
<1>7. CASE StopWorker \/ StartWorker
  BY <1>7, OutsideStep
<1> QED BY <1>1, <1>2, <1>3, <1>4, <1>5, <1>6, <1>7 DEF WebhooksNext

\* The invariant holds throughout.
LEMMA HookInductive == WebhooksSpec => []HookInv
<1>1. HookInv /\ [WebhooksNext]_webhooks => HookInv'
  BY HookStep, HookStutter
<1> QED BY HookInit, <1>1, PTL DEF WebhooksSpec

\* The delivery log never lies about an endpoint's delivery, for any number of
\* endpoints, events, attempts, replays, failed writes and crashes.
THEOREM SettledHonest == WebhooksSpec => []SettledIsHonest
<1>1. HookInv => SettledIsHonest
  BY DEF HookInv, DeliveryInv, WorkerIsHonest, SettledIsHonest
<1> QED BY <1>1, HookInductive, PTL

\* A receiver gets no repeat without a reason and no post it cannot verify, and a
\* stopped worker posts nothing.
THEOREM ReceiverServed == WebhooksSpec => []ReceiverIsServed
<1>1. HookInv => ReceiverIsServed
  <2> SUFFICES ASSUME HookInv PROVE ReceiverIsServed
    BY Zenon
  <2>1. RepeatsAreExcused
    BY DEF HookInv, DeliveryInv, PostsAreCounted, RepeatsAreExcused
  <2>2. GraceCoversSwitch
    BY DEF HookInv, SecretsCover
  <2>3. EndedMeansQuiet
    BY DEF HookInv, QuietOutside, Working, EndedMeansQuiet
  <2> QED BY <2>1, <2>2, <2>3 DEF ReceiverIsServed
<1> QED BY <1>1, HookInductive, PTL

\* No step but a replay makes a settled delivery pending again.
LEMMA OnlyReplayReopens ==
  ASSUME HookInv, WebhooksNext, NEW d \in Delivery,
         delivery[d] # Null, ~Pending(d), delivery'[d] # Null, delivery'[d].status = "pending"
  PROVE  past'[d].excused > past[d].excused
<1>0. /\ HookTypes /\ \A c \in Delivery : DeliveryInv(c)
      /\ delivery'[d] # delivery[d]
  BY Zenon DEF HookInv, Pending
<1>1. CASE \E e \in Endpoint : DeleteEndpoint(e)
  BY <1>0, <1>1 DEF DeleteEndpoint
<1>2. CASE EmitInsert
  BY <1>0, <1>2, ZenonT(30) DEF EmitInsert, Fresh
<1>3. CASE Mark
  <2>1. /\ attempt # Null /\ attempt.of \in Delivery
        /\ \A c \in Delivery \ {attempt.of} : delivery'[c] = delivery[c]
    BY <1>0, <1>3, MarkFacts
  <2>2. Held(d)
    BY <1>0, <2>1 DEF Held
  <2> QED BY <1>0, <2>2, Zenon DEF DeliveryInv, RowIsHeld
<1>4. CASE \E c \in Delivery : Backoff(c)
  <2>1. PICK c \in Delivery : Backoff(c)
    BY <1>4
  <2>2. c # d
    BY <2>1, Zenon DEF Backoff
  <2> QED BY <1>0, <2>1, <2>2 DEF Backoff, HookTypes
<1>5. CASE \E c \in Delivery : Replay(c)
  <2>1. PICK c \in Delivery : Replay(c)
    BY <1>5
  <2>2. c = d
    BY <1>0, <2>1 DEF Replay, HookTypes
  <2>3. past'[d].excused = past[d].excused + 1 /\ past[d].excused \in Nat
    BY <1>0, <2>1, <2>2 DEF Replay, HookTypes, Past
  <2> QED BY <2>3
<1>6. CASE UNCHANGED delivery
  BY <1>0, <1>6
<1> QED BY <1>1, <1>2, <1>3, <1>4, <1>5, <1>6, Zenon
     DEF WebhooksNext, Worker, CreateEndpoint, SetDisabled, Rotate, SwitchSecret, GraceEnds,
         EmitSelect, Claim, Take, Sign, Post, BatchEnds, MarkFails, StopWorker, StartWorker, Crash

\* A settled delivery is reopened by a replay and by nothing else, in particular
\* not by an event that is emitted again.
THEOREM SettledStays == WebhooksSpec => SettledStaysSettled
<1> DEFINE A == \A d \in Delivery :
                  delivery[d] # Null /\ ~Pending(d) /\ delivery'[d] # Null
                  /\ delivery'[d].status = "pending" => past'[d].excused > past[d].excused
<1>1. HookInv /\ [WebhooksNext]_webhooks => [A]_webhooks
  BY OnlyReplayReopens
<1> QED BY <1>1, HookInductive, PTL DEF WebhooksSpec, SettledStaysSettled
=============================================================================
