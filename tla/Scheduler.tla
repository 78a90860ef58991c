------------------------------ MODULE Scheduler ------------------------------
(***************************************************************************)
(* Admission control of the inference engine (inference/scheduler.py).     *)
(*                                                                         *)
(* Every request calls admit() once.  It either takes a free slot without  *)
(* suspending, waits for one in a bounded FIFO queue, or is turned away.   *)
(* All steps run on one asyncio event loop, so the code between two        *)
(* suspension points is one atomic action; the only suspension point of    *)
(* admit() is the await of the semaphore.                                  *)
(*                                                                         *)
(* The asyncio.Semaphore underneath is modelled as the code uses it: a     *)
(* permit count, and a deque of futures of which release() completes the   *)
(* first that is still pending.  Between the completion of a future and    *)
(* the step in which its task resumes, a timeout or a cancellation of the  *)
(* task may still arrive.                                                  *)
(***************************************************************************)
EXTENDS Naturals, FiniteSets

CONSTANTS
  Requests,        \* the calls of admit(), each made at most once
  MaxConcurrency,  \* max_concurrency
  MaxQueueDepth,   \* max_queue_depth
  QueueTimeout     \* queue_timeout_s > 0

\* What Scheduler.__init__ enforces by raising ValueError.
ASSUME SchedulerAssumption ==
  /\ IsFiniteSet(Requests)
  /\ MaxConcurrency \in Nat \ {0}
  /\ MaxQueueDepth \in Nat
  /\ QueueTimeout \in BOOLEAN

VARIABLES
  pc,                  \* where each request is, see Places
  fut,                 \* its future in the semaphore's deque, see Futures
  stop,                \* what was delivered to its waiting task, see Stops
  ticket,              \* its position in the deque, by order of arrival
  nextTicket,
  value,               \* Semaphore._value
  in_use,              \* Scheduler._in_use
  waiters,             \* Scheduler._waiters
  idle,                \* Scheduler._idle.is_set()
  draining,            \* Scheduler._draining
  drain,               \* progress of the one wait_drained() call of a shutdown
  admitted,            \* the cumulative counters
  rejected_queue_full,
  rejected_timeout,
  cancelled

semVars == <<fut, ticket, nextTicket, value>>
counters == <<admitted, rejected_queue_full, rejected_timeout, cancelled>>
vars == <<pc, semVars, stop, in_use, waiters, idle, draining, drain, counters>>

Places == {"new", "waiting", "running", "released",
           "rejected", "timed_out", "cancelled"}
Futures == {"none", "pending", "granted", "cancelled"}
Stops == {"none", "timeout", "cancel"}
DrainStates == {"off", "waiting", "woken", "drained", "timed_out"}

At(p) == {r \in Requests : pc[r] = p}
Pending == {r \in Requests : fut[r] = "pending"}
Granted == {r \in Requests : fut[r] = "granted"}
-----------------------------------------------------------------------------
(* asyncio.Semaphore                                                       *)

\* locked(): no permit, or a future in the deque that is not cancelled.
Locked == value = 0 \/ Pending \cup Granted # {}

\* The k pending futures that entered the deque first: those that k calls of
\* _wake_up_next() complete.
Earliest(k) ==
  {r \in Pending : Cardinality({q \in Pending : ticket[q] < ticket[r]}) < k}

\* v permits are counted, of which the futures in W take one each; the future
\* of r itself is out of the deque.
HandOut(r, v, W) ==
  /\ value' = v - Cardinality(W)
  /\ fut' = [q \in Requests |-> IF q = r THEN "none"
                                ELSE IF q \in W THEN "granted" ELSE fut[q]]
  /\ UNCHANGED <<ticket, nextTicket>>
-----------------------------------------------------------------------------
(* admit()                                                                 *)

\* The bookkeeping that follows the acquisition of a permit.
TakeSlot(r) ==
  /\ pc' = [pc EXCEPT ![r] = "running"]
  /\ in_use' = in_use + 1
  /\ idle' = FALSE
  /\ admitted' = admitted + 1
  /\ UNCHANGED <<rejected_queue_full, rejected_timeout, cancelled>>

\* Turned away on arrival: draining, or every slot busy and the queue full.
AdmitReject(r) ==
  /\ pc[r] = "new"
  /\ draining \/ (Locked /\ waiters >= MaxQueueDepth)
  /\ pc' = [pc EXCEPT ![r] = "rejected"]
  /\ rejected_queue_full' = rejected_queue_full + 1
  /\ UNCHANGED <<semVars, stop, in_use, waiters, idle, draining, drain,
                 admitted, rejected_timeout, cancelled>>

\* Fault: a free permit is taken without a look at the drain flag.
AdmitNowDraining(r) ==
  /\ pc[r] = "new" /\ ~Locked
  /\ value' = value - 1
  /\ TakeSlot(r)
  /\ UNCHANGED <<fut, ticket, nextTicket, stop, waiters, draining, drain>>

\* A permit is free: acquire() takes it without suspending.
AdmitNow(r) ==
  /\ pc[r] = "new" /\ ~draining /\ ~Locked
  /\ value' = value - 1
  /\ TakeSlot(r)
  /\ UNCHANGED <<fut, ticket, nextTicket, stop, waiters, draining, drain>>

\* Fault: the depth check admits one too many.
AdmitQueueOffByOne(r) ==
  /\ pc[r] = "new" /\ ~draining /\ Locked /\ waiters <= MaxQueueDepth
  /\ pc' = [pc EXCEPT ![r] = "waiting"]
  /\ fut' = [fut EXCEPT ![r] = "pending"]
  /\ ticket' = [ticket EXCEPT ![r] = nextTicket]
  /\ nextTicket' = nextTicket + 1
  /\ waiters' = waiters + 1
  /\ UNCHANGED <<value, stop, in_use, idle, draining, drain, counters>>

\* No permit is free: acquire() appends a future to the deque and suspends.
AdmitQueue(r) ==
  /\ pc[r] = "new" /\ ~draining /\ Locked /\ waiters < MaxQueueDepth
  /\ pc' = [pc EXCEPT ![r] = "waiting"]
  /\ fut' = [fut EXCEPT ![r] = "pending"]
  /\ ticket' = [ticket EXCEPT ![r] = nextTicket]
  /\ nextTicket' = nextTicket + 1
  /\ waiters' = waiters + 1
  /\ UNCHANGED <<value, stop, in_use, idle, draining, drain, counters>>

\* Task.cancel() on a task that waits: a pending future is cancelled, a
\* completed one stays completed and the task is marked to be cancelled.
CancelWaiter(r, why) ==
  /\ pc[r] = "waiting"
  /\ stop' = [stop EXCEPT ![r] = why]
  /\ fut' = [fut EXCEPT ![r] = IF @ = "pending" THEN "cancelled" ELSE @]
  /\ UNCHANGED <<pc, ticket, nextTicket, value, in_use, waiters, idle,
                 draining, drain, counters>>

\* The timer of wait_for fires.
QueueTimer(r) == QueueTimeout /\ stop[r] = "none" /\ CancelWaiter(r, "timeout")

\* The client of a queued request goes away.  A cancellation from outside wins
\* over the timeout that wait_for converts into TimeoutError.
Disconnect(r) == stop[r] # "cancel" /\ CancelWaiter(r, "cancel")

\* The waiting task resumes with its permit.
ResumeAdmitted(r) ==
  /\ pc[r] = "waiting" /\ fut[r] = "granted" /\ stop[r] = "none"
  /\ HandOut(r, value, Earliest(value))
  /\ waiters' = waiters - 1
  /\ TakeSlot(r)
  /\ UNCHANGED <<stop, draining, drain>>

\* The waiting task leaves admit() with an exception, when v permits are
\* counted and the futures in W are handed one.
LeaveQueue(r, v, W) ==
  /\ pc[r] = "waiting" /\ stop[r] # "none"
  /\ HandOut(r, v, W)
  /\ waiters' = waiters - 1
  /\ pc' = [pc EXCEPT ![r] = IF stop[r] = "timeout" THEN "timed_out"
                                                    ELSE "cancelled"]
  /\ UNCHANGED <<stop, in_use, idle, draining, drain,
                 admitted, rejected_queue_full, cancelled>>

PermitsBack(r) == IF fut[r] = "granted" THEN value + 1 ELSE value
CountTimeout(r) ==
  rejected_timeout' = rejected_timeout + (IF stop[r] = "timeout" THEN 1 ELSE 0)

\* Faults: a permit granted to a task that stops is lost; it is returned but
\* not passed on.
ResumeStoppedLosesPermit(r) ==
  LeaveQueue(r, value, Earliest(value)) /\ CountTimeout(r)
ResumeStoppedWakesNobody(r) ==
  LeaveQueue(r, PermitsBack(r), {}) /\ CountTimeout(r)

\* The waiting task resumes with a CancelledError.  acquire() gives a permit
\* it had already been handed back and passes it on; the finally clause of
\* admit() leaves the queue; a timeout is counted, a cancellation is not.
ResumeStopped(r) ==
  /\ LeaveQueue(r, PermitsBack(r), Earliest(PermitsBack(r)))
  /\ CountTimeout(r)
-----------------------------------------------------------------------------
(* SchedulerLease.release() and Scheduler._release()                       *)

Release(r, wasCancelled) ==
  LET left == IF in_use > 0 THEN in_use - 1 ELSE in_use IN
  /\ pc[r] = "running"
  /\ pc' = [pc EXCEPT ![r] = "released"]
  /\ in_use' = left
  /\ cancelled' = cancelled + (IF wasCancelled THEN 1 ELSE 0)
  /\ idle' = (idle \/ left = 0)
  /\ drain' = IF left = 0 /\ drain = "waiting" THEN "woken" ELSE drain
  /\ HandOut(r, value + 1, Earliest(1))
  /\ UNCHANGED <<stop, waiters, draining,
                 admitted, rejected_queue_full, rejected_timeout>>

\* A lease is released again by a later cleanup path: _released makes it a
\* no-op.
ReleaseAgain(r) ==
  /\ pc[r] = "released"
  /\ UNCHANGED vars
-----------------------------------------------------------------------------
(* begin_drain() and wait_drained(), called once each by a shutdown        *)

BeginDrain ==
  /\ ~draining
  /\ draining' = TRUE
  /\ drain' = IF in_use = 0 THEN "drained" ELSE "waiting"
  /\ UNCHANGED <<pc, semVars, stop, in_use, waiters, idle, counters>>

\* The task that awaits _idle resumes after the event was set.
DrainResume ==
  /\ drain = "woken"
  /\ drain' = "drained"
  /\ UNCHANGED <<pc, semVars, stop, in_use, waiters, idle, draining, counters>>

\* drain_timeout_s elapses first, possibly after the event was set.
DrainTimer ==
  /\ drain \in {"waiting", "woken"}
  /\ drain' = "timed_out"
  /\ UNCHANGED <<pc, semVars, stop, in_use, waiters, idle, draining, counters>>
-----------------------------------------------------------------------------
Init ==
  /\ pc = [r \in Requests |-> "new"]
  /\ fut = [r \in Requests |-> "none"]
  /\ stop = [r \in Requests |-> "none"]
  /\ ticket = [r \in Requests |-> 0]
  /\ nextTicket = 1
  /\ value = MaxConcurrency
  /\ in_use = 0
  /\ waiters = 0
  /\ idle = TRUE
  /\ draining = FALSE
  /\ drain = "off"
  /\ admitted = 0
  /\ rejected_queue_full = 0
  /\ rejected_timeout = 0
  /\ cancelled = 0

Next ==
  \/ \E r \in Requests :
       \/ AdmitReject(r) \/ AdmitNow(r) \/ AdmitQueue(r)
       \/ QueueTimer(r) \/ Disconnect(r)
       \/ ResumeAdmitted(r) \/ ResumeStopped(r)
       \/ \E c \in BOOLEAN : Release(r, c)
       \/ ReleaseAgain(r)
  \/ BeginDrain \/ DrainResume \/ DrainTimer

Spec == Init /\ [][Next]_vars

\* The event loop runs every task that is ready, and every admitted generation
\* ends (its backend finishes or fails, or its client leaves) and releases its
\* lease in a finally clause.  Arrivals, disconnects and the queue timer owe
\* nothing.
Fairness ==
  /\ \A r \in Requests :
       /\ WF_vars(ResumeAdmitted(r) \/ ResumeStopped(r))
       /\ WF_vars(\E c \in BOOLEAN : Release(r, c))
  /\ WF_vars(DrainResume \/ DrainTimer)

FairSpec == Spec /\ Fairness
-----------------------------------------------------------------------------
TypeOK ==
  /\ pc \in [Requests -> Places]
  /\ fut \in [Requests -> Futures]
  /\ stop \in [Requests -> Stops]
  /\ ticket \in [Requests -> Nat]
  /\ nextTicket \in Nat /\ value \in Nat /\ in_use \in Nat /\ waiters \in Nat
  /\ idle \in BOOLEAN /\ draining \in BOOLEAN /\ drain \in DrainStates
  /\ admitted \in Nat /\ rejected_queue_full \in Nat
  /\ rejected_timeout \in Nat /\ cancelled \in Nat

\* Permits are never lost and never minted: whatever mix of timeouts,
\* disconnects and releases hits the queue, the free permits, those handed to a
\* task that has not resumed yet and those behind a running request add up to
\* max_concurrency.
PermitConservation ==
  value + Cardinality(Granted) + Cardinality(At("running")) = MaxConcurrency

\* The scheduler's own books agree with who is really where: _in_use counts the
\* leases that are out, _waiters the tasks inside the await (never more than
\* max_queue_depth), and _idle is set exactly when no lease is out.
BooksBalance ==
  /\ in_use = Cardinality(At("running"))
  /\ waiters = Cardinality(At("waiting"))
  /\ waiters <= MaxQueueDepth
  /\ idle <=> (in_use = 0)

\* No lost wakeup: a live waiter sleeps beside a free permit only while another
\* task that was handed one has yet to resume, and that task's resumption passes
\* the free permits on, also when it resumes because it timed out or was
\* cancelled.
NoStrandedWaiter == value > 0 /\ Pending # {} => Granted # {}

\* The counters of snapshot() tell the true history: each request that ever
\* held a slot is counted admitted once, each refusal and each timeout once,
\* and a request that both timed out and was cancelled is not counted as a
\* timeout.
CountersTellHistory ==
  /\ admitted = Cardinality(At("running") \cup At("released"))
  /\ rejected_queue_full = Cardinality(At("rejected"))
  /\ rejected_timeout = Cardinality(At("timed_out"))
  /\ cancelled <= Cardinality(At("released"))

\* FIFO: no step hands a permit to a request, newcomer or waiter, while one
\* that has waited longer is still pending after the step.
NoOvertaking ==
  [][\A r, q \in Requests :
       /\ q \in Pending /\ fut'[q] = "pending"
       /\ \/ pc[r] = "new" /\ pc'[r] = "running"
          \/ r \in Pending /\ fut'[r] = "granted"
       => r \in Pending /\ ticket[r] < ticket[q]]_vars

\* Every queued request is settled (admitted, timed out or cancelled), with or
\* without a queue timeout and whatever the other waiters do.
EveryWaiterSettles ==
  \A r \in Requests : pc[r] = "waiting" ~> pc[r] # "waiting"

\* The scheduler implements the abstract admission contract.
Contract ==
  INSTANCE Admission WITH
    Slots <- MaxConcurrency, Room <- MaxQueueDepth,
    active <- At("running"), line <- At("waiting"),
    past <- Requests \ (At("new") \cup At("waiting") \cup At("running")),
    closed <- draining

\* Scheduler.admit/_release/begin_drain refine Admission step by step.
ImplementsAdmission == Contract!Spec

\* "Stop admitting new work and let bounded in-flight generations finish": once
\* wait_drained() has answered True, the only generations that run are of
\* requests that were in the queue when the drain began.
OnlyTheQueueOutlivesDrain ==
  drain = "drained" => \A r \in At("running") : ticket[r] > 0

\* What the admission queue never loses, whatever timeouts, disconnects and releases
\* meet in it: permits, the agreement of its books with who is where, and wakeups.
QueueIsSound == PermitConservation /\ BooksBalance /\ NoStrandedWaiter

\* Who waits is served: in the order of arrival, each of them in the end, and counted for
\* what became of them.
WaitersAreServed == NoOvertaking /\ EveryWaiterSettles /\ []CountersTellHistory
=============================================================================
