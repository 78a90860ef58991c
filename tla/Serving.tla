------------------------------- MODULE Serving -------------------------------
(***************************************************************************)
(* The path every inference request takes (api/serving.py): authorize with *)
(* the gateway (gateway.py), be admitted by the scheduler, be placed on a  *)
(* backend by the router and registry, generate, and be finalized by       *)
(* finish_generation. The module composes what those parts promise:        *)
(*   - the scheduler is the contract Admission, which Scheduler implements;*)
(*   - a placement takes a capable, ready backend with room, and fails only *)
(*     when there is none;                                                  *)
(*   - a stream ends, is closed and releases a local backend as in Backend.*)
(*                                                                         *)
(* A step is what the event loop runs without a suspension: authorization  *)
(* together with the admission's first answer, and everything from the     *)
(* moment a slot is granted to the started stream.                         *)
(***************************************************************************)
EXTENDS Naturals, FiniteSets

CONSTANTS
  Requests, Keys, Local,  \* Local: the key of unauthenticated loopback use
  KeyOf,                  \* the key each request presents
  MaxPerKey,              \* max_concurrent_per_key
  Slots, Room,            \* max_concurrency and the queue's depth
  Backends, LocalBackends, MaxInFlight,
  Capable,                \* the backends with the model and the features of a request
  None

ASSUME ServingAssumption ==
  /\ IsFiniteSet(Requests)
  /\ KeyOf \in [Requests -> Keys \cup {Local}] /\ Local \notin Keys
  /\ MaxPerKey \in Nat \ {0} /\ Slots \in Nat \ {0} /\ Room \in Nat
  /\ LocalBackends \subseteq Backends /\ MaxInFlight \in [Backends -> Nat \ {0}]
  /\ Capable \in [Requests -> SUBSET Backends]
  /\ None \notin Requests \cup Backends

VARIABLES
  pc,                          \* where the handler of each request is
  on,                          \* the backend of its registry lease
  active, line, past, closed,  \* the scheduler, as Admission sees it
  inflight,                    \* Limiter._inflight
  in_flight,                   \* BackendEntry.in_flight
  ready,                       \* entries for which is_ready() holds
  running,                     \* requests whose generation is in progress
  generating,                  \* the request a local backend is GENERATING for
  requests_active,             \* the gauge of telemetry/counters.py
  routed,                      \* route outcomes recorded for each request
  billed,                      \* usage rows written for each request
  outcome

admission == <<active, line, past, closed>>
books == <<inflight, in_flight, requests_active, routed, billed>>
vars == <<pc, on, admission, books, ready, running, generating, outcome>>

Scheduler == INSTANCE Admission

InService == {r \in Requests : pc[r] \in {"streaming", "closing"}}
Holding(k) == {r \in Requests : KeyOf[r] = k
                                  /\ pc[r] \in {"queued", "streaming", "closing"}}
HasRoom(b) == b \in ready /\ in_flight[b] < MaxInFlight[b]

Ended(r) == pc[r] \in {"done", "cut"}   \* "cut": its closing was cut short
Streamed(r) == Ended(r) /\ outcome[r] \in {"ok", "error", "cancelled"}
Ends(r, how) == pc' = [pc EXCEPT ![r] = "done"] /\ outcome' = [outcome EXCEPT ![r] = how]
-----------------------------------------------------------------------------
(* The gateway's per-key slots                                             *)

Inc(f, x) == [f EXCEPT ![x] = @ + 1]
Dec(f, x) == [f EXCEPT ![x] = @ - 1]

\* Limiter.acquire, which the local key does not pass through.
MayHold(r) == KeyOf[r] # Local => inflight[KeyOf[r]] < MaxPerKey
Hold(r) == IF KeyOf[r] = Local THEN inflight ELSE Inc(inflight, KeyOf[r])
\* ApiAccess.abort and the finally clause of finalize; Limiter.release.
Free(r) == IF KeyOf[r] = Local \/ inflight[KeyOf[r]] = 0
             THEN inflight ELSE Dec(inflight, KeyOf[r])
-----------------------------------------------------------------------------
(* From the granted slot to the stream: router.acquire and generate().     *)
(* "slots" are the per-key slots counting the request, "free" without it.  *)

LeaveAgain(r, free) ==
  /\ past' = past \cup {r} /\ active' = active \ {r}
  /\ inflight' = free
  /\ UNCHANGED <<on, in_flight, running, generating, requests_active, billed>>

\* No capable backend has room: "busy", "unloaded" or a FeatureUnsupportedError.
NotPlaced(r, free) ==
  /\ (\A b \in Capable[r] : ~HasRoom(b)) /\ Ends(r, "refused")
  /\ LeaveAgain(r, free) /\ UNCHANGED routed

\* Fault: the route of a request whose generate() failed is not recorded.
GenerateRaisesUnrouted(r, b, free) ==
  HasRoom(b) /\ Ends(r, "failed") /\ LeaveAgain(r, free) /\ UNCHANGED routed

\* generate() raises: the backend is busy, or the prompt cannot be tokenized.
GenerateRaises(r, b, free) ==
  HasRoom(b) /\ Ends(r, "failed") /\ LeaveAgain(r, free) /\ routed' = Inc(routed, r)

Begin(r, b, slots, gauge) ==
  /\ pc' = [pc EXCEPT ![r] = "streaming"]
  /\ on' = [on EXCEPT ![r] = b] /\ in_flight' = Inc(in_flight, b)
  /\ active' = active \cup {r} /\ past' = past
  /\ running' = running \cup {r}
  /\ generating' = [c \in LocalBackends |-> IF c = b THEN r ELSE generating[c]]
  /\ requests_active' = gauge
  /\ inflight' = slots
  /\ UNCHANGED <<routed, billed, outcome>>

NotGenerating(b) == b \in LocalBackends => generating[b] = None

GenerateStarts(r, b, slots) ==
  HasRoom(b) /\ NotGenerating(b) /\ Begin(r, b, slots, requests_active + 1)

Place(r, slots, free) ==
  /\ \/ NotPlaced(r, free)
     \/ \E b \in Capable[r] : GenerateRaises(r, b, free) \/ GenerateStarts(r, b, slots)
  /\ UNCHANGED <<closed, ready>>
-----------------------------------------------------------------------------
(* start_generation_core                                                   *)

rest == <<on, in_flight, ready, running, generating, requests_active, routed, billed>>

\* Refused by authentication, the plan, the rate, the key's slots or its quota;
\* the quota is checked with the slot taken, which abort() gives back.
Reject(r) ==
  /\ pc[r] = "new" /\ Ends(r, "refused")
  /\ UNCHANGED <<admission, inflight, rest>>

Shed(r) ==
  /\ pc[r] = "new" /\ MayHold(r)
  /\ Scheduler!Refuse(r) /\ Ends(r, "refused")
  /\ UNCHANGED <<inflight, rest>>

Enqueue(r) ==
  /\ pc[r] = "new" /\ MayHold(r)
  /\ Scheduler!Wait(r) /\ pc' = [pc EXCEPT ![r] = "queued"]
  /\ inflight' = Hold(r)
  /\ UNCHANGED <<outcome, rest>>

ServeNow(r) ==
  /\ pc[r] = "new" /\ MayHold(r)
  /\ Scheduler!Unseen(r) /\ ~closed /\ Cardinality(active) < Slots
  /\ Place(r, Hold(r), inflight)
  /\ UNCHANGED line

ServeQueued(r) ==
  /\ pc[r] = "queued" /\ r \in line /\ Cardinality(active) < Slots
  /\ line' = line \ {r}
  /\ Place(r, inflight, Free(r))

WaitTooLong(r) ==
  /\ pc[r] = "queued" /\ Scheduler!GiveUp(r) /\ Ends(r, "refused")
  /\ inflight' = Free(r)
  /\ UNCHANGED rest

\* CancelledError passes the "except SchedulerSaturated" clause: no abort().
CancelledInQueue(r) ==
  /\ pc[r] = "queued" /\ Scheduler!GiveUp(r) /\ Ends(r, "gone")
  /\ UNCHANGED <<inflight, rest>>
-----------------------------------------------------------------------------
(* The stream of a request, its closing, and finish_generation             *)

\* _on_generation_done: the local backend is READY again.
BackendReleased(r) ==
  generating' = [b \in LocalBackends |-> IF generating[b] = r THEN None ELSE generating[b]]

streamRest == <<on, admission, books, ready>>

\* The consumer reaches the end or the failure of the stream.
StreamEnds(r) ==
  /\ pc[r] = "streaming" /\ r \in running
  /\ pc' = [pc EXCEPT ![r] = "closing"]
  /\ \E how \in {"ok", "error"} : outcome' = [outcome EXCEPT ![r] = how]
  /\ running' = running \ {r} /\ BackendReleased(r)
  /\ UNCHANGED streamRest

\* The client goes away; aclose sets the cancel event and joins the worker.
Disconnects(r) ==
  /\ pc[r] = "streaming"
  /\ pc' = [pc EXCEPT ![r] = "closing"]
  /\ outcome' = [outcome EXCEPT ![r] = "cancelled"]
  /\ UNCHANGED <<running, generating, streamRest>>

WorkerEnds(r) ==
  /\ r \in running /\ pc[r] # "streaming"
  /\ running' = running \ {r} /\ BackendReleased(r)
  /\ UNCHANGED <<pc, outcome, streamRest>>

\* The leases and the key's slot are given back and the route is recorded;
\* "usage" is what becomes of the usage row and the gauge.
Finalize(r, end, usage) ==
  /\ pc' = [pc EXCEPT ![r] = end]
  /\ in_flight' = Dec(in_flight, on[r]) /\ on' = [on EXCEPT ![r] = None]
  /\ routed' = Inc(routed, r) /\ inflight' = Free(r)
  /\ billed' = IF usage = "lost" THEN billed ELSE Inc(billed, r)
  /\ requests_active' = IF usage = "counted" THEN requests_active - 1 ELSE requests_active
  /\ UNCHANGED <<line, closed, ready, outcome>>

\* Fault: an exit that forgets the scheduler's lease.
FinishKeepsLease(r, end) == Finalize(r, end, "counted") /\ UNCHANGED <<active, past>>

\* A usage row that cannot be written raises after the leases and the key's
\* slot are free and before the gauge is decremented.
FinishGeneration(r, end) ==
  /\ Finalize(r, end, "counted") \/ Finalize(r, end, "lost")
  /\ active' = active \ {r} /\ past' = past \cup {r}

CloseReturns(r) ==
  /\ pc[r] = "closing" /\ r \notin running
  /\ FinishGeneration(r, "done")
  /\ UNCHANGED <<running, generating>>

\* The five seconds of the join pass: aclose returns and tells the backend.
CloseExpires(r) ==
  /\ pc[r] = "closing" /\ r \in running
  /\ FinishGeneration(r, "cut")
  /\ BackendReleased(r)
  /\ UNCHANGED running

\* The handler's task is cancelled during the join: its finally clause runs.
CloseInterrupted(r) ==
  /\ pc[r] = "closing"
  /\ FinishGeneration(r, "cut")
  /\ UNCHANGED <<running, generating>>
-----------------------------------------------------------------------------
\* Backends come and go (load, unload, health probes); the scheduler drains.
HealthChanges(b) ==
  /\ ready' = IF b \in ready THEN ready \ {b} ELSE ready \cup {b}
  /\ UNCHANGED <<pc, on, admission, books, running, generating, outcome>>

Drain == Scheduler!Close /\ UNCHANGED <<pc, on, books, ready, running, generating, outcome>>

Init ==
  /\ pc = [r \in Requests |-> "new"] /\ outcome = [r \in Requests |-> "none"]
  /\ on = [r \in Requests |-> None]
  /\ Scheduler!Init
  /\ inflight = [k \in Keys |-> 0] /\ in_flight = [b \in Backends |-> 0]
  /\ ready = Backends /\ running = {}
  /\ generating = [b \in LocalBackends |-> None]
  /\ requests_active = 0
  /\ routed = [r \in Requests |-> 0] /\ billed = [r \in Requests |-> 0]

Start(r) == Reject(r) \/ Shed(r) \/ Enqueue(r) \/ ServeNow(r) \/ ServeQueued(r)
              \/ WaitTooLong(r) \/ CancelledInQueue(r)
Finish(r) == StreamEnds(r) \/ Disconnects(r) \/ WorkerEnds(r) \/ CloseReturns(r)
               \/ CloseExpires(r) \/ CloseInterrupted(r)

Next ==
  \/ \E r \in Requests : Start(r) \/ Finish(r)
  \/ \E b \in Backends : HealthChanges(b)
  \/ Drain

Spec == Init /\ [][Next]_vars

\* Streams end or are abandoned, workers end, closings return. A waiting request
\* is not passed over for ever: the queue is first in, first out
\* (Scheduler!NoOvertaking), which is what strong fairness says here.
Fairness ==
  \A r \in Requests :
    /\ WF_vars(StreamEnds(r) \/ Disconnects(r)) /\ WF_vars(WorkerEnds(r))
    /\ WF_vars(CloseReturns(r)) /\ SF_vars(ServeQueued(r))

FairSpec == Spec /\ Fairness
-----------------------------------------------------------------------------
\* Admission and placement never disagree: the requests that hold a scheduler
\* slot are the ones in service, and every backend counts exactly its own
\* requests, never more than its limit.
LeasesMatchService ==
  /\ active = InService /\ line = {r \in Requests : pc[r] = "queued"}
  /\ Cardinality(active) <= Slots /\ Cardinality(line) <= Room
  /\ \A b \in Backends :
       /\ in_flight[b] = Cardinality({r \in InService : on[r] = b})
       /\ in_flight[b] <= MaxInFlight[b]

\* A key's slots are the requests it has queued or in service: none is lost when
\* a request is shed, fails, is cut off or ends ("Capacity is always released").
KeySlotsExact == \A k \in Keys : inflight[k] = Cardinality(Holding(k))

\* The only slots of a key that are not of its queued and served requests are of
\* handlers cancelled in the queue, and all together never exceed its limit.
KeySlotsAccounted ==
  \A k \in Keys :
    /\ inflight[k] = Cardinality(Holding(k) \cup {r \in Requests : KeyOf[r] = k /\ outcome[r] = "gone"})
    /\ inflight[k] <= MaxPerKey

\* "A slot is held for exactly the lifetime of one generation": only generations
\* whose closing was cut short run, or keep a local backend, without a slot.
SlotCoversGeneration ==
  LET covered == active \cup {r \in Requests : pc[r] = "cut"}
  IN  /\ running \subseteq covered
      /\ \A b \in LocalBackends : generating[b] # None => generating[b] \in covered

\* "requests_active is decremented exactly once per admitted request, including
\* on error/cancel", but for requests whose usage row could not be written.
GaugeIsInService ==
  requests_active =
    Cardinality(InService \cup {r \in Requests : Streamed(r) /\ billed[r] = 0})

\* Every request that was placed leaves exactly one route outcome, the others
\* none, and only requests that produced a stream leave a usage row.
AccountedOnce ==
  \A r \in Requests :
    /\ routed[r] = IF Streamed(r) \/ outcome[r] = "failed" THEN 1 ELSE 0
    /\ billed[r] = 1 => Streamed(r)

\* Every request that is queued or in service is finished some day, so its
\* slots come back.
EveryRequestEnds ==
  \A r \in Requests : pc[r] \in {"queued", "streaming", "closing"} ~> Ended(r)

\* "Capacity is always released": slots, leases and places of a key are held by the
\* requests that use them and by nobody else, up to the exceptions named in each part.
CapacityIsHeld == LeasesMatchService /\ KeySlotsAccounted /\ SlotCoversGeneration

\* What finish_generation records, in the gauge, the route metrics and the usage rows,
\* counts every request once, also when one of its writes fails.
BooksAreExact == GaugeIsInService /\ AccountedOnce
=============================================================================
