--------------------------- MODULE SchedulerProofs ----------------------------
(***************************************************************************)
(* Theorems about Scheduler for every number of requests, slots and places *)
(* in line.  The inductive invariant IInv adds to the properties how the   *)
(* future of a request follows its place and that arrival order is total.  *)
(***************************************************************************)
EXTENDS Scheduler, TLAPS, FiniteSetTheorems, WellFoundedInduction

\* The limits, in seconds, of a leaf that names no prover.
USE SMTT(30), ZenonT(30)

\* A request has a future exactly while it waits, and a future that is still
\* pending belongs to a task nobody has stopped.
FutureFollowsPlace ==
  \A r \in Requests :
    /\ (fut[r] # "none") <=> (pc[r] = "waiting")
    /\ fut[r] = "pending" => stop[r] = "none"
    /\ fut[r] = "cancelled" => stop[r] # "none"
    /\ pc[r] = "new" => stop[r] = "none"

\* Tickets of waiting requests are different and all below the next one.
TicketsOrdered ==
  /\ \A r \in Requests : pc[r] = "waiting" => ticket[r] < nextTicket
  /\ \A r, q \in Requests :
       pc[r] = "waiting" /\ pc[q] = "waiting" /\ r # q => ticket[r] # ticket[q]

IInv ==
  /\ TypeOK /\ FutureFollowsPlace /\ TicketsOrdered
  /\ PermitConservation /\ BooksBalance /\ NoStrandedWaiter
-----------------------------------------------------------------------------
\* Every set of requests is finite.
LEMMA FiniteParts ==
  ASSUME NEW S \in SUBSET Requests
  PROVE  IsFiniteSet(S) /\ Cardinality(S) \in Nat
  BY SchedulerAssumption, FS_Subset, FS_CardinalityType

\* A non-empty set of requests with tickets has one with the lowest ticket.
LEMMA LowestTicket ==
  ASSUME ticket \in [Requests -> Nat], NEW S \in SUBSET Requests, S # {}
  PROVE  \E m \in S : \A q \in S : ticket[m] <= ticket[q]
<1> DEFINE T == {ticket[q] : q \in S}
<1>1. T \subseteq Nat /\ T # {}
  OBVIOUS
<1>2. PICK x \in T : \A y \in T : ~ (<<y, x>> \in OpToRel(<, Nat))
  <2> HIDE DEF T
  <2> QED BY <1>1, NatLessThanWellFounded, WFMin, Zenon
<1>3. \A y \in T : ~ (y < x)
  BY <1>1, <1>2, Zenon DEF OpToRel
<1>4. PICK m \in S : x = ticket[m]
  OBVIOUS
<1> QED BY <1>3, <1>4, <1>1

\* ... and, when the tickets are below a bound, one with the highest.
LEMMA HighestTicket ==
  ASSUME ticket \in [Requests -> Nat], NEW S \in SUBSET Requests, S # {},
         NEW b \in Nat, \A q \in S : ticket[q] < b
  PROVE  \E m \in S : \A q \in S : ticket[q] <= ticket[m]
<1> DEFINE T == {b - ticket[q] : q \in S}
<1>1. T \subseteq Nat /\ T # {}
  OBVIOUS
<1>2. PICK x \in T : \A y \in T : ~ (<<y, x>> \in OpToRel(<, Nat))
  <2> HIDE DEF T
  <2> QED BY <1>1, NatLessThanWellFounded, WFMin, Zenon
<1>3. \A y \in T : ~ (y < x)
  BY <1>1, <1>2, Zenon DEF OpToRel
<1>4. PICK m \in S : x = b - ticket[m]
  OBVIOUS
<1>5. \A q \in S : ~ (b - ticket[q] < b - ticket[m])
  BY <1>3, <1>4
<1> QED BY <1>5

\* k calls of _wake_up_next() complete at most k futures, all of them pending,
\* and at least one when k > 0 and some future is pending.
LEMMA EarliestFacts ==
  ASSUME TypeOK, TicketsOrdered, FutureFollowsPlace, NEW k \in Nat
  PROVE  /\ Earliest(k) \subseteq Pending
         /\ Cardinality(Earliest(k)) \in Nat
         /\ Cardinality(Earliest(k)) <= k
         /\ k > 0 /\ Pending # {} => Earliest(k) # {}
<1> DEFINE Below(r) == {q \in Pending : ticket[q] < ticket[r]}
<1>1. Earliest(k) = {r \in Pending : Cardinality(Below(r)) < k}
  BY DEF Earliest
<1>2. Pending \subseteq Requests /\ Earliest(k) \subseteq Pending
  BY DEF Pending, Earliest
<1>3. Cardinality(Earliest(k)) \in Nat
  BY <1>2, FiniteParts
<1>4. Cardinality(Earliest(k)) <= k
  <2>1. CASE Earliest(k) = {}
    BY <2>1, FS_EmptySet
  <2>2. CASE Earliest(k) # {}
    <3>1. \A q \in Earliest(k) : ticket[q] < nextTicket
      BY <1>2 DEF Pending, TicketsOrdered, FutureFollowsPlace
    <3>2. PICK m \in Earliest(k) : \A q \in Earliest(k) : ticket[q] <= ticket[m]
      BY <1>2, <2>2, <3>1, HighestTicket, Zenon DEF TypeOK
    <3>3. \A q \in Earliest(k) : q = m \/ ticket[q] < ticket[m]
      BY <1>2, <3>2 DEF TypeOK, Pending, TicketsOrdered, FutureFollowsPlace
    <3>4. Earliest(k) \subseteq Below(m) \cup {m}
      BY <1>2, <3>3
    <3>5. m \notin Below(m) /\ Below(m) \in SUBSET Requests /\ m \in Requests
      BY <1>2 DEF TypeOK
    <3>6. Cardinality(Below(m)) < k
      BY <1>1
    <3> HIDE DEF Below
    <3>7. /\ IsFiniteSet(Below(m) \cup {m})
          /\ Cardinality(Below(m) \cup {m}) = Cardinality(Below(m)) + 1
      BY <3>5, FiniteParts, FS_AddElement
    <3>8. Cardinality(Earliest(k)) <= Cardinality(Below(m) \cup {m})
      BY <3>4, <3>7, FS_Subset
    <3>9. Cardinality(Below(m)) \in Nat
      BY <3>5, FiniteParts
    <3> QED BY <1>3, <3>6, <3>7, <3>8, <3>9
  <2> QED BY <2>1, <2>2
<1>5. k > 0 /\ Pending # {} => Earliest(k) # {}
  <2> SUFFICES ASSUME k > 0, Pending # {} PROVE Earliest(k) # {}
    OBVIOUS
  <2>1. PICK m \in Pending : \A q \in Pending : ticket[m] <= ticket[q]
    BY <1>2, LowestTicket DEF TypeOK
  <2>2. Below(m) = {}
    BY <2>1, <1>2 DEF TypeOK
  <2>3. Cardinality(Below(m)) = 0
    BY <2>2, FS_EmptySet
  <2> QED BY <1>1, <2>1, <2>3
<1> QED BY <1>2, <1>3, <1>4, <1>5

\* Nobody is passed over: a pending future that k wakeups leave pending
\* entered the deque after every one they complete.
LEMMA EarliestComesFirst ==
  ASSUME TypeOK, TicketsOrdered, FutureFollowsPlace, NEW k \in Nat,
         NEW r \in Earliest(k), NEW q \in Pending, q \notin Earliest(k)
  PROVE  ticket[r] < ticket[q]
<1> DEFINE Below(x) == {y \in Pending : ticket[y] < ticket[x]}
<1>1. r \in Requests /\ q \in Requests /\ r \in Pending
  BY DEF Earliest, Pending
<1>2. r # q /\ ticket[r] # ticket[q]
  BY <1>1 DEF Pending, TicketsOrdered, FutureFollowsPlace
<1>3. ASSUME ticket[q] < ticket[r] PROVE FALSE
  <2>1. Below(q) \subseteq Below(r)
    BY <1>1, <1>3 DEF TypeOK, Pending
  <2>2. Below(q) \in SUBSET Requests /\ Below(r) \in SUBSET Requests
    BY DEF Pending
  <2>3. Cardinality(Below(r)) < k /\ ~(Cardinality(Below(q)) < k)
    BY DEF Earliest
  <2> HIDE DEF Below
  <2>4. Cardinality(Below(q)) <= Cardinality(Below(r))
    BY <2>1, <2>2, FiniteParts, FS_Subset
  <2> QED BY <2>2, <2>3, <2>4, FiniteParts
<1> QED BY <1>1, <1>2, <1>3 DEF TypeOK

\* Moving one request from one place to another moves one element between the
\* counts of running and waiting requests.
LEMMA MoveCounts ==
  ASSUME pc \in [Requests -> Places], NEW r \in Requests, NEW p, pc[r] # p,
         pc' = [pc EXCEPT ![r] = p]
  PROVE  /\ p = "running" =>
              Cardinality(At("running"))' = Cardinality(At("running")) + 1
         /\ pc[r] = "running" =>
              Cardinality(At("running"))' = Cardinality(At("running")) - 1
         /\ p # "running" /\ pc[r] # "running" =>
              Cardinality(At("running"))' = Cardinality(At("running"))
         /\ p = "waiting" =>
              Cardinality(At("waiting"))' = Cardinality(At("waiting")) + 1
         /\ pc[r] = "waiting" =>
              Cardinality(At("waiting"))' = Cardinality(At("waiting")) - 1
         /\ p # "waiting" /\ pc[r] # "waiting" =>
              Cardinality(At("waiting"))' = Cardinality(At("waiting"))
<1>1. At("running") \in SUBSET Requests
  BY DEF At
<1>2. ASSUME p = "running"
     PROVE  Cardinality(At("running"))' = Cardinality(At("running")) + 1
  <2>1. At("running")' = At("running") \cup {r} /\ r \notin At("running")
    BY <1>2 DEF At
  <2> QED BY <1>1, <2>1, FiniteParts, FS_AddElement
<1>3. ASSUME pc[r] = "running"
     PROVE  Cardinality(At("running"))' = Cardinality(At("running")) - 1
  <2>1. At("running")' = At("running") \ {r} /\ r \in At("running")
    BY <1>3 DEF At
  <2> QED BY <1>1, <2>1, FiniteParts, FS_RemoveElement
<1>4. ASSUME p # "running", pc[r] # "running"
     PROVE  Cardinality(At("running"))' = Cardinality(At("running"))
  <2>1. At("running")' = At("running")
    BY <1>4 DEF At
  <2> QED BY <2>1
<1>5. At("waiting") \in SUBSET Requests
  BY DEF At
<1>6. ASSUME p = "waiting"
     PROVE  Cardinality(At("waiting"))' = Cardinality(At("waiting")) + 1
  <2>1. At("waiting")' = At("waiting") \cup {r} /\ r \notin At("waiting")
    BY <1>6 DEF At
  <2> QED BY <1>5, <2>1, FiniteParts, FS_AddElement
<1>7. ASSUME pc[r] = "waiting"
     PROVE  Cardinality(At("waiting"))' = Cardinality(At("waiting")) - 1
  <2>1. At("waiting")' = At("waiting") \ {r} /\ r \in At("waiting")
    BY <1>7 DEF At
  <2> QED BY <1>5, <2>1, FiniteParts, FS_RemoveElement
<1>8. ASSUME p # "waiting", pc[r] # "waiting"
     PROVE  Cardinality(At("waiting"))' = Cardinality(At("waiting"))
  <2>1. At("waiting")' = At("waiting")
    BY <1>8 DEF At
  <2> QED BY <2>1
<1> QED BY <1>2, <1>3, <1>4, <1>6, <1>7, <1>8

\* What handing out permits does to the granted and the pending futures.
LEMMA HandOutFacts ==
  ASSUME TypeOK, NEW r \in Requests, fut[r] # "pending",
         NEW v, NEW W \in SUBSET Pending, HandOut(r, v, W)
  PROVE  /\ Pending' = Pending \ W
         /\ Granted' = (Granted \ {r}) \cup W
         /\ Cardinality(Granted') =
              Cardinality(Granted) + Cardinality(W)
                - (IF fut[r] = "granted" THEN 1 ELSE 0)
         /\ fut' \in [Requests -> Futures]
<1>1. Pending' = Pending \ W /\ Granted' = (Granted \ {r}) \cup W
  BY DEF HandOut, Pending, Granted, TypeOK
<1>2. /\ Granted \in SUBSET Requests /\ Granted \ {r} \in SUBSET Requests
      /\ W \in SUBSET Requests
      /\ (Granted \ {r}) \cap W = {}
      /\ r \in Granted <=> fut[r] = "granted"
  BY DEF Pending, Granted
<1>3. /\ IsFiniteSet(Granted) /\ IsFiniteSet(Granted \ {r}) /\ IsFiniteSet(W)
      /\ Cardinality(Granted) \in Nat /\ Cardinality(Granted \ {r}) \in Nat
      /\ Cardinality(W) \in Nat
  BY <1>2, FiniteParts
<1>4. Cardinality(Granted \ {r}) =
        Cardinality(Granted) - (IF fut[r] = "granted" THEN 1 ELSE 0)
  BY <1>2, <1>3, FS_RemoveElement
<1>5. Cardinality((Granted \ {r}) \cup W) =
        Cardinality(Granted \ {r}) + Cardinality(W)
  <2>1. Cardinality((Granted \ {r}) \cup W) =
          Cardinality(Granted \ {r}) + Cardinality(W)
            - Cardinality((Granted \ {r}) \cap W)
    BY <1>3, FS_Union
  <2> QED BY <1>2, <1>3, <2>1, FS_EmptySet
<1>6. fut' \in [Requests -> Futures]
  BY DEF HandOut, TypeOK, Futures
<1> QED BY <1>1, <1>3, <1>4, <1>5, <1>6
-----------------------------------------------------------------------------
(* A scheduler with an empty queue and every slot free satisfies the inductive invariant. *)
LEMMA InitInv == Init => IInv
<1> SUFFICES ASSUME Init PROVE IInv
  OBVIOUS
<1> USE SchedulerAssumption DEF Init
<1>1. TypeOK
  BY Zenon DEF TypeOK, Places, Futures, Stops, DrainStates
<1>2. At("running") = {} /\ At("waiting") = {} /\ Granted = {} /\ Pending = {}
  BY DEF At, Granted, Pending
<1>3. PermitConservation /\ BooksBalance /\ NoStrandedWaiter
  BY <1>2, FS_EmptySet DEF PermitConservation, BooksBalance, NoStrandedWaiter
<1>4. FutureFollowsPlace /\ TicketsOrdered
  BY DEF FutureFollowsPlace, TicketsOrdered
<1> QED BY <1>1, <1>3, <1>4 DEF IInv

\* admit() refuses a newcomer.
LEMMA AdmitRejectInv ==
  ASSUME IInv, NEW r \in Requests, AdmitReject(r)  PROVE IInv'
<1> USE DEF AdmitReject, semVars
<1>1. TypeOK /\ pc[r] = "new"
  BY DEF IInv
<1>2. TypeOK'
  BY <1>1 DEF TypeOK, Places
<1>3. /\ At("running")' = At("running") /\ At("waiting")' = At("waiting")
      /\ Granted' = Granted /\ Pending' = Pending
  BY <1>1 DEF At, Granted, Pending, TypeOK
<1>4. PermitConservation' /\ BooksBalance' /\ NoStrandedWaiter'
  BY <1>3 DEF IInv, PermitConservation, BooksBalance, NoStrandedWaiter
<1>5. FutureFollowsPlace' /\ TicketsOrdered'
  BY <1>1 DEF IInv, FutureFollowsPlace, TicketsOrdered, TypeOK
<1> QED BY <1>2, <1>4, <1>5 DEF IInv

\* admit() takes a free permit.
LEMMA AdmitNowInv ==
  ASSUME IInv, NEW r \in Requests, AdmitNow(r)  PROVE IInv'
<1> USE DEF AdmitNow, TakeSlot
<1>1. TypeOK /\ FutureFollowsPlace /\ pc[r] = "new" /\ value > 0 /\ Pending = {}
  BY DEF IInv, Locked, TypeOK
<1>2. TypeOK'
  <2>1. idle' \in BOOLEAN /\ draining' \in BOOLEAN
    BY <1>1, Zenon DEF TypeOK
  <2> QED BY <1>1, <2>1 DEF TypeOK, Places
<1>3. Granted' = Granted /\ Pending' = Pending
  BY DEF Granted, Pending
<1>4. /\ Cardinality(At("running"))' = Cardinality(At("running")) + 1
      /\ Cardinality(At("waiting"))' = Cardinality(At("waiting"))
  <2>1. pc \in [Requests -> Places] /\ pc' = [pc EXCEPT ![r] = "running"]
    BY <1>1 DEF TypeOK
  <2> QED BY <1>1, <2>1, MoveCounts, Zenon DEF Places
<1>5. /\ Cardinality(At("running")) \in Nat /\ Cardinality(Granted) \in Nat
  BY FiniteParts DEF At, Granted
<1>6. PermitConservation'
  BY <1>1, <1>3, <1>4, <1>5 DEF IInv, PermitConservation, TypeOK
<1>7. BooksBalance' /\ NoStrandedWaiter'
  BY <1>1, <1>3, <1>4, <1>5 DEF IInv, BooksBalance, NoStrandedWaiter, TypeOK
<1>8. FutureFollowsPlace' /\ TicketsOrdered'
  BY <1>1 DEF IInv, FutureFollowsPlace, TicketsOrdered, TypeOK
<1> QED BY <1>2, <1>6, <1>7, <1>8 DEF IInv

\* admit() joins the line.
LEMMA AdmitQueueInv ==
  ASSUME IInv, NEW r \in Requests, AdmitQueue(r)  PROVE IInv'
<1> USE DEF AdmitQueue, counters
<1>1. TypeOK /\ FutureFollowsPlace /\ pc[r] = "new" /\ fut[r] = "none"
      /\ stop[r] = "none"
  BY DEF IInv, FutureFollowsPlace
<1>2. TypeOK'
  BY <1>1 DEF TypeOK, Places, Futures
<1>3. Granted' = Granted /\ Pending' = Pending \cup {r}
  BY <1>1 DEF Granted, Pending, TypeOK
<1>4. /\ Cardinality(At("running"))' = Cardinality(At("running"))
      /\ Cardinality(At("waiting"))' = Cardinality(At("waiting")) + 1
  BY <1>1, MoveCounts, Zenon DEF TypeOK, Places
<1>5. PermitConservation'
  BY <1>3, <1>4 DEF IInv, PermitConservation
<1>6. BooksBalance'
  BY <1>1, <1>4, SchedulerAssumption DEF IInv, BooksBalance, TypeOK
<1>7. NoStrandedWaiter'
  BY <1>1, <1>3 DEF IInv, NoStrandedWaiter, Locked, TypeOK
<1>8. FutureFollowsPlace' /\ TicketsOrdered'
  BY <1>1 DEF IInv, FutureFollowsPlace, TicketsOrdered, TypeOK
<1> QED BY <1>2, <1>5, <1>6, <1>7, <1>8 DEF IInv

\* The queue timer or a disconnect stops a waiting task.
LEMMA CancelWaiterInv ==
  ASSUME IInv, NEW r \in Requests, NEW why \in {"timeout", "cancel"},
         CancelWaiter(r, why)
  PROVE  IInv'
<1> USE DEF CancelWaiter, counters
<1>1. TypeOK /\ FutureFollowsPlace /\ pc[r] = "waiting"
  BY DEF IInv
<1>2. TypeOK'
  BY <1>1 DEF TypeOK, Futures, Stops
<1>3. Granted' = Granted /\ Pending' \subseteq Pending
  BY <1>1 DEF Granted, Pending, TypeOK
<1>4. At("running")' = At("running") /\ At("waiting")' = At("waiting")
  BY DEF At
<1>5. PermitConservation' /\ BooksBalance' /\ NoStrandedWaiter'
  BY <1>3, <1>4 DEF IInv, PermitConservation, BooksBalance, NoStrandedWaiter
<1>6. FutureFollowsPlace'
  BY <1>1 DEF FutureFollowsPlace, TypeOK, Futures
<1>7. TicketsOrdered'
  BY DEF IInv, TicketsOrdered
<1> QED BY <1>2, <1>5, <1>6, <1>7 DEF IInv

\* A waiting task resumes with its permit.
LEMMA ResumeAdmittedInv ==
  ASSUME IInv, NEW r \in Requests, ResumeAdmitted(r)  PROVE IInv'
<1> DEFINE W == Earliest(value)
<1>1. /\ TypeOK /\ FutureFollowsPlace /\ TicketsOrdered
      /\ PermitConservation /\ BooksBalance /\ NoStrandedWaiter
      /\ pc[r] = "waiting" /\ fut[r] = "granted" /\ stop[r] = "none"
      /\ HandOut(r, value, W)
      /\ pc' = [pc EXCEPT ![r] = "running"]
  BY DEF IInv, ResumeAdmitted, TakeSlot
<1>2. /\ value \in Nat /\ W \subseteq Pending /\ Cardinality(W) \in Nat
      /\ Cardinality(W) <= value
      /\ value > 0 /\ Pending # {} => W # {}
  BY <1>1, EarliestFacts DEF TypeOK
<1> HIDE DEF W
<1>3. /\ Pending' = Pending \ W /\ Granted' = (Granted \ {r}) \cup W
      /\ Cardinality(Granted') = Cardinality(Granted) + Cardinality(W) - 1
      /\ fut' \in [Requests -> Futures]
  BY <1>1, <1>2, HandOutFacts
<1>4. value' = value - Cardinality(W) /\ value' \in Nat
  BY <1>1, <1>2 DEF HandOut
<1>5. /\ Cardinality(At("running"))' = Cardinality(At("running")) + 1
      /\ Cardinality(At("waiting"))' = Cardinality(At("waiting")) - 1
  BY <1>1, MoveCounts, Zenon DEF TypeOK
<1>6. /\ Cardinality(At("running")) \in Nat /\ Cardinality(At("waiting")) \in Nat
      /\ Cardinality(Granted) \in Nat /\ At("waiting") # {}
  BY <1>1, FiniteParts DEF At, Granted
<1>7. Cardinality(At("waiting")) > 0
  BY <1>6, FiniteParts, FS_EmptySet DEF At
<1>8. waiters \in Nat /\ waiters > 0 /\ waiters' = waiters - 1
      /\ in_use' = in_use + 1
  BY <1>1, <1>7 DEF BooksBalance, ResumeAdmitted, TakeSlot, TypeOK
<1>9. TypeOK'
  <2>1. idle' \in BOOLEAN /\ draining' \in BOOLEAN
    BY <1>1, Zenon DEF ResumeAdmitted, TakeSlot, TypeOK
  <2>2. pc' \in [Requests -> Places]
    BY <1>1 DEF TypeOK, Places
  <2> QED BY <1>1, <1>3, <1>4, <1>8, <2>1, <2>2
        DEF ResumeAdmitted, TakeSlot, HandOut, TypeOK
<1>10. PermitConservation'
  BY <1>1, <1>2, <1>3, <1>4, <1>5, <1>6, SchedulerAssumption DEF PermitConservation
<1>11. BooksBalance'
  <2>1. ~idle' /\ in_use' # 0
    BY <1>1, <1>8 DEF ResumeAdmitted, TakeSlot, TypeOK
  <2> QED BY <1>1, <1>5, <1>6, <1>8, <2>1, SchedulerAssumption
        DEF BooksBalance, TypeOK
<1>12. NoStrandedWaiter'
  BY <1>2, <1>3, <1>4 DEF NoStrandedWaiter
<1>13. FutureFollowsPlace'
  BY <1>1, <1>2 DEF FutureFollowsPlace, HandOut, ResumeAdmitted, Pending, TypeOK
<1>14. TicketsOrdered'
  BY <1>1 DEF TicketsOrdered, HandOut, TypeOK
<1> QED BY <1>9, <1>10, <1>11, <1>12, <1>13, <1>14 DEF IInv

\* A waiting task resumes because it timed out or was cancelled.
LEMMA ResumeStoppedInv ==
  ASSUME IInv, NEW r \in Requests, ResumeStopped(r)  PROVE IInv'
<1> DEFINE v == PermitsBack(r)
           W == Earliest(v)
           to == IF stop[r] = "timeout" THEN "timed_out" ELSE "cancelled"
<1>1. /\ TypeOK /\ FutureFollowsPlace /\ TicketsOrdered
      /\ PermitConservation /\ BooksBalance /\ NoStrandedWaiter
      /\ pc[r] = "waiting" /\ stop[r] # "none" /\ fut[r] # "pending"
      /\ HandOut(r, v, W)
      /\ pc' = [pc EXCEPT ![r] = to]
      /\ UNCHANGED <<stop, in_use, idle, draining, drain, admitted,
                     rejected_queue_full, cancelled>>
  BY DEF IInv, ResumeStopped, LeaveQueue, FutureFollowsPlace
<1>2. v \in Nat /\ v = value + (IF fut[r] = "granted" THEN 1 ELSE 0)
      /\ to \in Places \ {"new", "waiting", "running"}
  BY <1>1 DEF PermitsBack, TypeOK, Places
<1>3. /\ W \subseteq Pending /\ Cardinality(W) \in Nat
      /\ Cardinality(W) <= v
      /\ v > 0 /\ Pending # {} => W # {}
  BY <1>1, <1>2, EarliestFacts
<1> HIDE DEF W, v, to
<1>4. /\ Pending' = Pending \ W /\ Granted' = (Granted \ {r}) \cup W
      /\ Cardinality(Granted') = Cardinality(Granted) + Cardinality(W)
                                   - (IF fut[r] = "granted" THEN 1 ELSE 0)
      /\ fut' \in [Requests -> Futures]
  BY <1>1, <1>3, HandOutFacts
<1>5. value' = v - Cardinality(W) /\ value' \in Nat
  BY <1>1, <1>2, <1>3 DEF HandOut
<1>6. /\ Cardinality(At("running"))' = Cardinality(At("running"))
      /\ Cardinality(At("waiting"))' = Cardinality(At("waiting")) - 1
  BY <1>1, <1>2, MoveCounts, Zenon DEF TypeOK
<1>7. /\ Cardinality(At("running")) \in Nat /\ Cardinality(At("waiting")) \in Nat
      /\ Cardinality(Granted) \in Nat /\ At("waiting") # {}
  BY <1>1, FiniteParts DEF At, Granted
<1>8. Cardinality(At("waiting")) > 0
  BY <1>7, FiniteParts, FS_EmptySet DEF At
<1>9. waiters \in Nat /\ waiters > 0 /\ waiters' = waiters - 1
  BY <1>1, <1>8 DEF BooksBalance, ResumeStopped, LeaveQueue, TypeOK
<1>10. TypeOK'
  <2>1. pc' \in [Requests -> Places] /\ rejected_timeout' \in Nat
    BY <1>1, <1>2 DEF TypeOK, ResumeStopped, CountTimeout
  <2> QED BY <1>1, <1>4, <1>5, <1>9, <2>1 DEF HandOut, TypeOK
<1>11. PermitConservation'
  BY <1>1, <1>2, <1>3, <1>4, <1>5, <1>6, <1>7, SchedulerAssumption
     DEF PermitConservation, TypeOK
<1>12. BooksBalance'
  BY <1>1, <1>6, <1>7, <1>9, SchedulerAssumption DEF BooksBalance, TypeOK
<1>13. NoStrandedWaiter'
  BY <1>2, <1>3, <1>4, <1>5 DEF NoStrandedWaiter
<1>14. FutureFollowsPlace'
  BY <1>1, <1>2, <1>3 DEF FutureFollowsPlace, HandOut, Pending, TypeOK
<1>15. TicketsOrdered'
  BY <1>1, <1>2 DEF TicketsOrdered, HandOut, TypeOK
<1> QED BY <1>10, <1>11, <1>12, <1>13, <1>14, <1>15 DEF IInv

\* A lease is released.
LEMMA ReleaseInv ==
  ASSUME IInv, NEW r \in Requests, NEW c \in BOOLEAN, Release(r, c)  PROVE IInv'
<1> DEFINE W == Earliest(1)
<1>1. /\ TypeOK /\ FutureFollowsPlace /\ TicketsOrdered
      /\ PermitConservation /\ BooksBalance /\ NoStrandedWaiter
      /\ pc[r] = "running" /\ fut[r] = "none"
      /\ HandOut(r, value + 1, W)
      /\ pc' = [pc EXCEPT ![r] = "released"]
      /\ UNCHANGED <<stop, waiters, draining, admitted,
                     rejected_queue_full, rejected_timeout>>
  BY DEF IInv, Release, FutureFollowsPlace
<1>2. /\ value \in Nat /\ W \subseteq Pending /\ Cardinality(W) \in Nat
      /\ Cardinality(W) <= 1
      /\ Pending # {} => W # {}
  BY <1>1, EarliestFacts DEF TypeOK
<1> HIDE DEF W
<1>3. /\ Pending' = Pending \ W /\ Granted' = (Granted \ {r}) \cup W
      /\ Cardinality(Granted') = Cardinality(Granted) + Cardinality(W)
      /\ fut' \in [Requests -> Futures]
  <2>1. Cardinality(Granted) \in Nat
    BY FiniteParts DEF Granted
  <2> QED BY <1>1, <1>2, <2>1, HandOutFacts
<1>4. value' = (value + 1) - Cardinality(W) /\ value' \in Nat
  BY <1>1, <1>2 DEF HandOut
<1>5. /\ Cardinality(At("running"))' = Cardinality(At("running")) - 1
      /\ Cardinality(At("waiting"))' = Cardinality(At("waiting"))
  <2> DEFINE to == "released"
  <2>1. /\ pc \in [Requests -> Places] /\ pc[r] = "running"
        /\ pc' = [pc EXCEPT ![r] = to]
        /\ to \notin {"running", "waiting"}
    BY <1>1 DEF TypeOK
  <2> HIDE DEF to
  <2> QED BY <2>1, MoveCounts, Zenon
<1>6. /\ Cardinality(At("running")) \in Nat /\ Cardinality(Granted) \in Nat
      /\ At("running") # {}
  BY <1>1, FiniteParts DEF At, Granted
<1>7. Cardinality(At("running")) > 0
  BY <1>6, FiniteParts, FS_EmptySet DEF At
<1>8. in_use \in Nat /\ in_use > 0 /\ in_use' = in_use - 1
  BY <1>1, <1>7 DEF BooksBalance, Release, TypeOK
<1>9. idle' <=> (in_use' = 0)
  <2>1. idle' <=> (idle \/ in_use' = 0)
    BY Zenon DEF Release
  <2>2. ~idle
    BY <1>1, <1>8 DEF BooksBalance
  <2> QED BY <2>1, <2>2
<1>10. TypeOK'
  <2>1. idle' \in BOOLEAN
    BY DEF Release
  <2>2. pc' \in [Requests -> Places]
    BY <1>1 DEF TypeOK, Places
  <2>3. drain' \in DrainStates /\ cancelled' \in Nat
    BY <1>1 DEF Release, TypeOK, DrainStates
  <2> QED BY <1>1, <1>3, <1>4, <1>8, <2>1, <2>2, <2>3 DEF HandOut, TypeOK
<1>11. PermitConservation'
  BY <1>1, <1>2, <1>3, <1>4, <1>5, <1>6, SchedulerAssumption DEF PermitConservation
<1>12. BooksBalance'
  BY <1>1, <1>5, <1>6, <1>8, <1>9 DEF BooksBalance
<1>13. NoStrandedWaiter'
  BY <1>2, <1>3, <1>4 DEF NoStrandedWaiter
<1>14. FutureFollowsPlace'
  BY <1>1, <1>2 DEF FutureFollowsPlace, HandOut, Pending, TypeOK
<1>15. TicketsOrdered'
  BY <1>1 DEF TicketsOrdered, HandOut, TypeOK
<1> QED BY <1>10, <1>11, <1>12, <1>13, <1>14, <1>15 DEF IInv

\* Steps that leave the requests and the semaphore alone: the drain of a
\* shutdown, a second release of a lease, and stuttering.
LEMMA DrainInv ==
  ASSUME IInv, draining' \in BOOLEAN, drain' \in DrainStates,
         UNCHANGED <<pc, semVars, stop, in_use, waiters, idle, counters>>
  PROVE  IInv'
<1> USE DEF semVars, counters
<1>1. TypeOK'
  BY DEF IInv, TypeOK
<1>2. /\ At("running")' = At("running") /\ At("waiting")' = At("waiting")
      /\ Granted' = Granted /\ Pending' = Pending
  BY DEF At, Granted, Pending
<1>3. PermitConservation' /\ BooksBalance' /\ NoStrandedWaiter'
  BY <1>2 DEF IInv, PermitConservation, BooksBalance, NoStrandedWaiter
<1>4. FutureFollowsPlace' /\ TicketsOrdered'
  BY DEF IInv, FutureFollowsPlace, TicketsOrdered
<1> QED BY <1>1, <1>3, <1>4 DEF IInv

\* Every step preserves the invariant.
LEMMA NextInv == IInv /\ [Next]_vars => IInv'
<1> SUFFICES ASSUME IInv, [Next]_vars PROVE IInv'
  OBVIOUS
<1>0. draining \in BOOLEAN /\ drain \in DrainStates
  BY DEF IInv, TypeOK
<1>1. ASSUME NEW r \in Requests,
             AdmitReject(r) \/ AdmitNow(r) \/ AdmitQueue(r)
      PROVE  IInv'
  BY <1>1, AdmitRejectInv, AdmitNowInv, AdmitQueueInv
<1>2. ASSUME NEW r \in Requests, QueueTimer(r) \/ Disconnect(r) PROVE IInv'
  BY <1>2, CancelWaiterInv DEF QueueTimer, Disconnect
<1>3. ASSUME NEW r \in Requests, ResumeAdmitted(r) \/ ResumeStopped(r) PROVE IInv'
  BY <1>3, ResumeAdmittedInv, ResumeStoppedInv
<1>4. ASSUME NEW r \in Requests, NEW c \in BOOLEAN, Release(r, c) PROVE IInv'
  BY <1>4, ReleaseInv
<1>5. ASSUME NEW r \in Requests, ReleaseAgain(r) PROVE IInv'
  BY <1>0, <1>5, DrainInv DEF ReleaseAgain, vars
<1>6. CASE BeginDrain
  <2>1. draining' \in BOOLEAN /\ drain' \in DrainStates
    BY <1>6 DEF BeginDrain, DrainStates
  <2> QED BY <1>6, <2>1, DrainInv DEF BeginDrain
<1>7. CASE DrainResume
  <2>1. draining' \in BOOLEAN /\ drain' \in DrainStates
    BY <1>0, <1>7 DEF DrainResume, DrainStates
  <2> QED BY <1>7, <2>1, DrainInv DEF DrainResume
<1>8. CASE DrainTimer
  <2>1. draining' \in BOOLEAN /\ drain' \in DrainStates
    BY <1>0, <1>8 DEF DrainTimer, DrainStates
  <2> QED BY <1>8, <2>1, DrainInv DEF DrainTimer
<1>9. CASE UNCHANGED vars
  BY <1>0, <1>9, DrainInv DEF vars
<1> QED BY <1>1, <1>2, <1>3, <1>4, <1>5, <1>6, <1>7, <1>8, <1>9 DEF Next

\* The invariant holds in every reachable state.
THEOREM Invariance == Spec => []IInv
<1>1. Init => IInv
  BY InitInv
<1>2. IInv /\ [Next]_vars => IInv'
  BY NextInv
<1> QED BY <1>1, <1>2, PTL DEF Spec

\* Scheduler state stays well typed: no counter, gauge or permit count ever
\* becomes negative.
THEOREM TypeCorrect == Spec => []TypeOK
<1>1. IInv => TypeOK
  BY DEF IInv
<1> QED BY <1>1, Invariance, PTL

\* No permit is lost or minted by any mix of releases, timeouts and disconnects.
THEOREM PermitsConserved == Spec => []PermitConservation
<1>1. IInv => PermitConservation
  BY DEF IInv
<1> QED BY <1>1, Invariance, PTL

\* The gauges and the idle event agree with who runs and who waits, and the
\* line never exceeds max_queue_depth.
THEOREM BooksAlwaysBalance == Spec => []BooksBalance
<1>1. IInv => BooksBalance
  BY DEF IInv
<1> QED BY <1>1, Invariance, PTL

\* A waiter never sleeps beside a free permit that nobody is about to pass on.
THEOREM NoWaiterStranded == Spec => []NoStrandedWaiter
<1>1. IInv => NoStrandedWaiter
  BY DEF IInv
<1> QED BY <1>1, Invariance, PTL
-----------------------------------------------------------------------------
\* No step starts r, or hands it a permit, past the pending q.
NotPast(r, q) ==
  /\ q \in Pending /\ fut'[q] = "pending"
  /\ \/ pc[r] = "new" /\ pc'[r] = "running"
     \/ r \in Pending /\ fut'[r] = "granted"
  => r \in Pending /\ ticket[r] < ticket[q]

\* Handing permits to the earliest pending futures overtakes nobody.
LEMMA HandOutNotPast ==
  ASSUME IInv, NEW x \in Requests, NEW k \in Nat, NEW v,
         pc[x] # "new", fut[x] # "pending", HandOut(x, v, Earliest(k)),
         \A y \in Requests \ {x} : pc'[y] = pc[y],
         NEW r \in Requests, NEW q \in Requests
  PROVE  NotPast(r, q)
<1> SUFFICES ASSUME q \in Pending, fut'[q] = "pending",
                    \/ pc[r] = "new" /\ pc'[r] = "running"
                    \/ r \in Pending /\ fut'[r] = "granted"
             PROVE  r \in Pending /\ ticket[r] < ticket[q]
  BY DEF NotPast
<1>1. r \in Pending /\ fut'[r] = "granted" /\ r # x
  BY DEF Pending
<1>2. r \in Earliest(k) /\ q \notin Earliest(k)
  BY <1>1 DEF HandOut, Pending
<1> QED BY <1>1, <1>2, EarliestComesFirst DEF IInv

\* Permits are handed out in the order of arrival, also across timeouts and
\* cancellations, and no newcomer takes a permit past a pending waiter.
THEOREM QueueIsFair == Spec => NoOvertaking
<1>1. ASSUME IInv, [Next]_vars, NEW r \in Requests, NEW q \in Requests
      PROVE  NotPast(r, q)
  <2>0. IInv /\ TypeOK /\ FutureFollowsPlace
    BY <1>1 DEF IInv
  <2>1. ASSUME NEW x \in Requests, AdmitReject(x) PROVE NotPast(r, q)
    BY <2>0, <2>1 DEF AdmitReject, semVars, NotPast, Pending, TypeOK
  <2>2. ASSUME NEW x \in Requests, AdmitNow(x) PROVE NotPast(r, q)
    BY <2>0, <2>2 DEF AdmitNow, Locked, NotPast, Pending, TypeOK
  <2>3. ASSUME NEW x \in Requests, AdmitQueue(x) PROVE NotPast(r, q)
    BY <2>0, <2>3 DEF AdmitQueue, NotPast, Pending, TypeOK
  <2>4. ASSUME NEW x \in Requests, QueueTimer(x) \/ Disconnect(x)
        PROVE  NotPast(r, q)
    BY <2>0, <2>4 DEF QueueTimer, Disconnect, CancelWaiter, NotPast, Pending, TypeOK
  <2>5. ASSUME NEW x \in Requests, ResumeAdmitted(x) PROVE NotPast(r, q)
    <3>1. \A y \in Requests \ {x} : pc'[y] = pc[y]
      BY <2>0, <2>5 DEF ResumeAdmitted, TakeSlot, TypeOK
    <3>2. pc[x] # "new" /\ fut[x] # "pending" /\ value \in Nat
          /\ HandOut(x, value, Earliest(value))
      BY <2>0, <2>5 DEF ResumeAdmitted, TypeOK
    <3> QED BY <2>0, <3>1, <3>2, HandOutNotPast
  <2>6. ASSUME NEW x \in Requests, ResumeStopped(x) PROVE NotPast(r, q)
    <3>1. \A y \in Requests \ {x} : pc'[y] = pc[y]
      BY <2>0, <2>6 DEF ResumeStopped, LeaveQueue, TypeOK
    <3>2. /\ pc[x] # "new" /\ fut[x] # "pending" /\ PermitsBack(x) \in Nat
          /\ HandOut(x, PermitsBack(x), Earliest(PermitsBack(x)))
      BY <2>0, <2>6 DEF ResumeStopped, LeaveQueue, PermitsBack, TypeOK,
            FutureFollowsPlace
    <3> QED BY <2>0, <3>1, <3>2, HandOutNotPast
  <2>7. ASSUME NEW x \in Requests, NEW c \in BOOLEAN, Release(x, c)
        PROVE  NotPast(r, q)
    <3>1. \A y \in Requests \ {x} : pc'[y] = pc[y]
      BY <2>0, <2>7 DEF Release, TypeOK
    <3>2. /\ pc[x] # "new" /\ fut[x] # "pending"
          /\ HandOut(x, value + 1, Earliest(1))
      BY <2>0, <2>7 DEF Release, FutureFollowsPlace
    <3> QED BY <2>0, <3>1, <3>2, HandOutNotPast
  <2>8. CASE UNCHANGED <<pc, semVars>>
    BY <2>8 DEF semVars, NotPast, Pending
  <2> QED BY <1>1, <2>1, <2>2, <2>3, <2>4, <2>5, <2>6, <2>7, <2>8
        DEF Next, ReleaseAgain, BeginDrain, DrainResume, DrainTimer, vars
<1>2. IInv /\ [Next]_vars =>
        [\A r, q \in Requests :
           /\ q \in Pending /\ fut'[q] = "pending"
           /\ \/ pc[r] = "new" /\ pc'[r] = "running"
              \/ r \in Pending /\ fut'[r] = "granted"
           => r \in Pending /\ ticket[r] < ticket[q]]_vars
  BY <1>1 DEF NotPast
<1> QED BY <1>2, Invariance, PTL DEF Spec, NoOvertaking
-----------------------------------------------------------------------------
\* Only queued requests have tickets, a drain that has ended is a drain, and what
\* runs after it came from the queue.
DrainFacts ==
  /\ nextTicket > 0
  /\ \A r \in Requests : pc[r] = "waiting" => ticket[r] > 0
  /\ drain # "off" => draining
  /\ drain \in {"woken", "drained"} => \A r \in At("running") : ticket[r] > 0

\* A step that empties the slots, or starts nothing new, keeps the facts.
LEMMA DrainFactsKept ==
  ASSUME IInv, DrainFacts, [Next]_vars
  PROVE  DrainFacts'
<1>0. TypeOK /\ IInv'
  BY NextInv DEF IInv
<1>1. in_use' = 0 => At("running")' = {}
  <2>1. IsFiniteSet(At("running")') /\ in_use' = Cardinality(At("running")')
    BY <1>0, SchedulerAssumption, FS_Subset DEF IInv, BooksBalance, At
  <2> QED BY <2>1, FS_EmptySet
<1>2. ASSUME NEW r \in Requests, AdmitReject(r) PROVE DrainFacts'
  BY <1>0, <1>2 DEF AdmitReject, DrainFacts, At, TypeOK, semVars
<1>3. ASSUME NEW r \in Requests, AdmitNow(r) PROVE DrainFacts'
  BY <1>0, <1>3 DEF AdmitNow, TakeSlot, DrainFacts, At, TypeOK
<1>4. ASSUME NEW r \in Requests, AdmitQueue(r) PROVE DrainFacts'
  BY <1>0, <1>4 DEF AdmitQueue, DrainFacts, At, TypeOK
<1>5. ASSUME NEW r \in Requests, QueueTimer(r) \/ Disconnect(r) PROVE DrainFacts'
  BY <1>0, <1>5 DEF QueueTimer, Disconnect, CancelWaiter, DrainFacts, At, TypeOK
<1>6. ASSUME NEW r \in Requests, ResumeAdmitted(r) PROVE DrainFacts'
  BY <1>0, <1>6 DEF ResumeAdmitted, HandOut, TakeSlot, DrainFacts, At, TypeOK
<1>7. ASSUME NEW r \in Requests, ResumeStopped(r) PROVE DrainFacts'
  BY <1>0, <1>7 DEF ResumeStopped, LeaveQueue, HandOut, DrainFacts, At, TypeOK
<1>8. ASSUME NEW r \in Requests, NEW c \in BOOLEAN, Release(r, c) PROVE DrainFacts'
  <2>1. drain' # drain => in_use' = 0 /\ drain = "waiting"
    BY <1>8 DEF Release
  <2>2. CASE drain' # drain
    BY <1>0, <1>1, <1>8, <2>1, <2>2 DEF Release, HandOut, DrainFacts, TypeOK
  <2>3. CASE drain' = drain
    BY <1>0, <1>8, <2>3 DEF Release, HandOut, DrainFacts, At, TypeOK
  <2> QED BY <2>2, <2>3
<1>9. CASE BeginDrain
  BY <1>0, <1>1, <1>9 DEF BeginDrain, DrainFacts, semVars
<1>10. CASE DrainResume \/ DrainTimer
  BY <1>10, Zenon DEF DrainResume, DrainTimer, DrainFacts, semVars, At
<1>11. CASE UNCHANGED vars
  BY <1>11 DEF DrainFacts, vars, semVars, At
<1> QED BY <1>2, <1>3, <1>4, <1>5, <1>6, <1>7, <1>8, <1>9, <1>10, <1>11
      DEF Next, ReleaseAgain

\* After a drain that reported success only queued requests can still run.
THEOREM DrainStopsNewWork == Spec => []OnlyTheQueueOutlivesDrain
<1>1. Init => DrainFacts
  BY DEF Init, DrainFacts, At
<1>2. IInv /\ DrainFacts /\ [Next]_vars => DrainFacts'
  BY DrainFactsKept
<1>3. DrainFacts => OnlyTheQueueOutlivesDrain
  BY DEF DrainFacts, OnlyTheQueueOutlivesDrain
<1> QED BY <1>1, <1>2, <1>3, Invariance, PTL DEF Spec
-----------------------------------------------------------------------------
\* The requests of the abstract specification that are done with.
Past == Requests \ (At("new") \cup At("waiting") \cup At("running"))

\* The instance counts with the same Cardinality.
LEMMA SameCardinality == \A S : Contract!Cardinality(S) = Cardinality(S)
  BY DEF Cardinality, Contract!Cardinality

\* Full and free in terms of permits.
LEMMA AbstractRoom ==
  ASSUME IInv
  PROVE  /\ Cardinality(At("running")) + Cardinality(Granted) + value
              = MaxConcurrency
         /\ Cardinality(At("running")) \in Nat /\ Cardinality(Granted) \in Nat
         /\ value \in Nat /\ MaxConcurrency \in Nat /\ MaxQueueDepth \in Nat
         /\ waiters = Cardinality(At("waiting"))
         /\ Granted \cup Pending \subseteq At("waiting")
         /\ Granted # {} => Cardinality(Granted) > 0
         /\ Granted = {} => Cardinality(Granted) = 0
<1>1. /\ Cardinality(At("running")) \in Nat /\ Cardinality(Granted) \in Nat
      /\ IsFiniteSet(Granted)
  BY FiniteParts DEF At, Granted
<1>2. /\ Granted \cup Pending \subseteq At("waiting")
  BY DEF IInv, FutureFollowsPlace, Granted, Pending, At
<1>3. value \in Nat /\ waiters = Cardinality(At("waiting"))
  BY DEF IInv, TypeOK, BooksBalance
<1>4. Cardinality(At("running")) + Cardinality(Granted) + value = MaxConcurrency
  BY <1>1, <1>3 DEF IInv, PermitConservation
<1>5. Cardinality(Granted) = 0 <=> Granted = {}
  BY <1>1, FS_EmptySet
<1> QED BY <1>1, <1>2, <1>3, <1>4, <1>5, SchedulerAssumption

\* Every step of the scheduler is a step of the abstract admission contract or
\* leaves it unchanged, so the scheduler implements the contract.
THEOREM RefinesAdmission == Spec => ImplementsAdmission
<1>1. Init => Contract!Init
  BY DEF Init, Contract!Init, At
<1>2. ASSUME IInv, [Next]_vars PROVE [Contract!Next]_(Contract!vars)
  <2> DEFINE Same == UNCHANGED <<pc, draining>>
  <2>0. TypeOK
    BY <1>2 DEF IInv
  <2>1. ASSUME NEW r \in Requests, AdmitReject(r) PROVE Contract!Refuse(r)
    <3>1. pc[r] = "new" /\ pc' = [pc EXCEPT ![r] = "rejected"]
          /\ draining' = draining
      BY <2>1 DEF AdmitReject
    <3>2. Contract!Unseen(r)
      BY <3>1 DEF Contract!Unseen, At
    <3>3. /\ At("running")' = At("running") /\ At("waiting")' = At("waiting")
          /\ Past' = Past \cup {r}
      BY <2>0, <3>1 DEF At, Past, TypeOK
    <3>4. draining \/ (Contract!Full /\ Cardinality(At("waiting")) >= MaxQueueDepth)
      <4>1. CASE draining
        BY <4>1
      <4>2. CASE Locked /\ waiters >= MaxQueueDepth
        <5>1. At("waiting") # {} \/ Cardinality(At("running")) >= MaxConcurrency
          BY <1>2, <4>2, AbstractRoom DEF Locked
        <5> QED BY <1>2, <4>2, <5>1, AbstractRoom, SameCardinality DEF Contract!Full
      <4> QED BY <2>1, <4>1, <4>2 DEF AdmitReject
    <3> QED BY <3>1, <3>2, <3>3, <3>4, SameCardinality DEF Contract!Refuse, Past
  <2>2. ASSUME NEW r \in Requests, AdmitNow(r) PROVE Contract!Start(r)
    <3>1. pc[r] = "new" /\ pc' = [pc EXCEPT ![r] = "running"] /\ ~draining
          /\ draining' = draining
      BY <2>2 DEF AdmitNow, TakeSlot
    <3>2. Contract!Unseen(r)
      BY <3>1 DEF Contract!Unseen, At
    <3>3. /\ At("running")' = At("running") \cup {r}
          /\ At("waiting")' = At("waiting") /\ Past' = Past
      BY <2>0, <3>1 DEF At, Past, TypeOK
    <3>4. Cardinality(At("running")) < MaxConcurrency
      BY <1>2, <2>2, AbstractRoom DEF AdmitNow, Locked
    <3> QED BY <3>1, <3>2, <3>3, <3>4, SameCardinality DEF Contract!Start, Past
  <2>3. ASSUME NEW r \in Requests, AdmitQueue(r) PROVE Contract!Wait(r)
    <3>1. pc[r] = "new" /\ pc' = [pc EXCEPT ![r] = "waiting"] /\ ~draining
          /\ draining' = draining
      BY <2>3 DEF AdmitQueue
    <3>2. Contract!Unseen(r)
      BY <3>1 DEF Contract!Unseen, At
    <3>3. /\ At("running")' = At("running") /\ Past' = Past
          /\ At("waiting")' = At("waiting") \cup {r}
      BY <2>0, <3>1 DEF At, Past, TypeOK
    <3>4. At("waiting") # {} \/ Cardinality(At("running")) >= MaxConcurrency
      BY <1>2, <2>3, AbstractRoom DEF AdmitQueue, Locked
    <3>5. Cardinality(At("waiting")) < MaxQueueDepth
      BY <1>2, <2>3, AbstractRoom DEF AdmitQueue
    <3> QED BY <3>1, <3>2, <3>3, <3>4, <3>5, SameCardinality
          DEF Contract!Wait, Contract!Full, Past
  <2>4. ASSUME NEW r \in Requests, QueueTimer(r) \/ Disconnect(r) PROVE Same
    BY <2>4 DEF QueueTimer, Disconnect, CancelWaiter
  <2>5. ASSUME NEW r \in Requests, ResumeAdmitted(r) PROVE Contract!Promote(r)
    <3>1. pc[r] = "waiting" /\ pc' = [pc EXCEPT ![r] = "running"]
          /\ draining' = draining /\ r \in Granted
      BY <2>5 DEF ResumeAdmitted, TakeSlot, Granted
    <3>2. /\ r \in At("waiting") /\ At("running")' = At("running") \cup {r}
          /\ At("waiting")' = At("waiting") \ {r} /\ Past' = Past
      BY <2>0, <3>1 DEF At, Past, TypeOK
    <3>3. Cardinality(At("running")) < MaxConcurrency
      BY <1>2, <3>1, AbstractRoom
    <3> QED BY <3>1, <3>2, <3>3, SameCardinality DEF Contract!Promote, Past
  <2>6. ASSUME NEW r \in Requests, ResumeStopped(r) PROVE Contract!GiveUp(r)
    <3> DEFINE to == IF stop[r] = "timeout" THEN "timed_out" ELSE "cancelled"
    <3>1. pc[r] = "waiting" /\ pc' = [pc EXCEPT ![r] = to]
          /\ draining' = draining
      BY <2>6 DEF ResumeStopped, LeaveQueue
    <3>2. to \in {"timed_out", "cancelled"}
      OBVIOUS
    <3> HIDE DEF to
    <3>3. /\ r \in At("waiting") /\ At("running")' = At("running")
          /\ At("waiting")' = At("waiting") \ {r} /\ Past' = Past \cup {r}
      BY <2>0, <3>1, <3>2 DEF At, Past, TypeOK
    <3> QED BY <3>1, <3>3 DEF Contract!GiveUp, Past
  <2>7. ASSUME NEW r \in Requests, NEW c \in BOOLEAN, Release(r, c)
        PROVE  Contract!Leave(r)
    <3>1. pc[r] = "running" /\ pc' = [pc EXCEPT ![r] = "released"]
          /\ draining' = draining
      BY <2>7 DEF Release
    <3>2. /\ r \in At("running") /\ At("running")' = At("running") \ {r}
          /\ At("waiting")' = At("waiting") /\ Past' = Past \cup {r}
      BY <2>0, <3>1 DEF At, Past, TypeOK
    <3> QED BY <3>1, <3>2 DEF Contract!Leave, Past
  <2>8. CASE BeginDrain
    <3>1. ~draining /\ draining' = TRUE /\ pc' = pc
      BY <2>8 DEF BeginDrain
    <3>2. Contract!Close
      BY <3>1 DEF Contract!Close, At
    <3> QED BY <3>2 DEF Contract!Next
  <2>9. CASE Same
    BY <2>9 DEF Contract!vars, At
  <2>10. CASE DrainResume \/ DrainTimer \/ UNCHANGED vars
    BY <2>9, <2>10 DEF DrainResume, DrainTimer, vars
  <2>11. ASSUME NEW r \in Requests, ReleaseAgain(r) PROVE Same
    BY <2>11 DEF ReleaseAgain, vars
  <2> QED BY <1>2, <2>1, <2>2, <2>3, <2>4, <2>5, <2>6, <2>7, <2>8, <2>9, <2>10,
             <2>11 DEF Next, Contract!Next
<1> QED BY <1>1, <1>2, Invariance, PTL DEF Spec, ImplementsAdmission, Contract!Spec

\* Scheduler: permits, books and wakeups are all right at once, for every instance.
THEOREM QueueSound == Spec => []QueueIsSound
BY PermitsConserved, BooksAlwaysBalance, NoWaiterStranded, PTL DEF QueueIsSound
=============================================================================
