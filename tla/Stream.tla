------------------------------- MODULE Stream --------------------------------
(***************************************************************************)
(* QueueGenerationStream (inference/stream.py): a worker thread runs the   *)
(* blocking token generator and hands tokens to the event loop through a   *)
(* bounded asyncio.Queue.  A threading.Semaphore with one permit per queue *)
(* slot makes the worker wait when the consumer falls behind.              *)
(*                                                                         *)
(* Actors: the worker thread, the event loop (which runs the callbacks the *)
(* worker schedules, in order), the consumer (an async for over the        *)
(* stream), and a closer (aclose, called by the consumer's own cleanup or  *)
(* by another task, which unloads the backend).                            *)
(*                                                                         *)
(* call_soon_threadsafe and the queue are FIFO, so tokens are counted, not *)
(* listed: token n is the n-th of those offered, queued and delivered.     *)
(***************************************************************************)
EXTENDS Naturals

CONSTANTS
  MaxSize,       \* maxsize, the bound of the token queue
  MaxTokens      \* bound: the generator yields at most this many tokens

ASSUME StreamAssumption == MaxSize \in Nat \ {0} /\ MaxTokens \in Nat

VARIABLES
  worker,              \* where the worker thread is in _run
  finish,              \* the finish reason it has settled on
  capacity,            \* permits of the semaphore
  cancel,              \* the cancel event
  backpressure_waits,
  offered,             \* tokens scheduled with call_soon_threadsafe
  queued,              \* tokens whose put_nowait has run
  lost,                \* of those, the ones that found the queue full
  index,               \* tokens delivered to the consumer
  term,                \* the _Terminal item
  doneCallback,        \* the scheduled _fire_on_done
  consumer,
  closer,              \* the aclose call that is past its _closed check
  exhausted, closed,
  result, completion_tokens,  \* the GenerationResult
  on_done_fired

workerVars == <<worker, finish, capacity, backpressure_waits, offered>>
loopVars == <<queued, lost, index, term, doneCallback, exhausted, closed,
              result, completion_tokens, on_done_fired>>
vars == <<workerVars, loopVars, cancel, consumer, closer>>

WorkerStates == {"start", "top", "reserve", "blocked", "check", "next",
                 "put", "terminal", "callback", "ended"}
Finishes == {"none", "stop", "cancelled", "error"}
TermStates == {"none", "scheduled", "queued", "lost", "taken"}
ConsumerStates == {"idle", "getting", "ended", "gone"}
CloserStates == {"none", "joining", "joined", "expired", "interrupted"}

\* Items in the asyncio.Queue.
QueueLength == queued - lost - index + (IF term = "queued" THEN 1 ELSE 0)
\* Does the worker hold a permit it has not used for a token yet?
Reserved == IF worker \in {"check", "next", "put"} THEN 1 ELSE 0
-----------------------------------------------------------------------------
(* The worker thread: _run and _offer                                      *)

WorkerStep(from, to) == worker = from /\ worker' = to

\* The generator ends, or is closed, and the reserved permit goes back.
Settle(why) == finish' = why /\ capacity' = capacity + 1

\* The call that creates the generator succeeds, or fails and is caught by the
\* outer except clause.
Start ==
  /\ worker = "start"
  /\ \/ worker' = "top" /\ UNCHANGED finish
     \/ worker' = "terminal" /\ finish' = "error"
  /\ UNCHANGED <<capacity, backpressure_waits, offered, cancel, loopVars,
                 consumer, closer>>

\* gen.close() of a cancelled generator may raise into the outer except clause.
CheckCancelled ==
  /\ worker = "top"
  /\ IF cancel
       THEN worker' = "terminal" /\ finish' \in {"cancelled", "error"}
       ELSE worker' = "reserve" /\ UNCHANGED finish
  /\ UNCHANGED <<capacity, backpressure_waits, offered, cancel, loopVars,
                 consumer, closer>>

\* acquire(blocking=False), and the blocking acquire when that failed.
Reserve ==
  /\ worker = "reserve"
  /\ IF capacity > 0
       THEN worker' = "check" /\ capacity' = capacity - 1
            /\ UNCHANGED backpressure_waits
       ELSE worker' = "blocked" /\ UNCHANGED capacity
            /\ backpressure_waits' = backpressure_waits + 1
  /\ UNCHANGED <<finish, offered, cancel, loopVars, consumer, closer>>

Unblock ==
  /\ WorkerStep("blocked", "check")
  /\ capacity > 0 /\ capacity' = capacity - 1
  /\ UNCHANGED <<finish, backpressure_waits, offered, cancel, loopVars,
                 consumer, closer>>

\* Fault: the cancel event is not looked at again after the wait for capacity.
CheckAgainNot ==
  /\ WorkerStep("check", "next")
  /\ UNCHANGED <<finish, capacity, backpressure_waits, offered, cancel,
                 loopVars, consumer, closer>>

CheckAgain ==
  /\ worker = "check"
  /\ IF cancel
       THEN worker' = "terminal" /\ \E why \in {"cancelled", "error"} : Settle(why)
       ELSE worker' = "next" /\ UNCHANGED <<finish, capacity>>
  /\ UNCHANGED <<backpressure_waits, offered, cancel, loopVars, consumer, closer>>

\* next(gen) yields a token.
NextToken ==
  /\ WorkerStep("next", "put") /\ offered < MaxTokens
  /\ UNCHANGED <<finish, capacity, backpressure_waits, offered, cancel,
                 loopVars, consumer, closer>>

\* next(gen) ends the generation: it returns, notices the cancellation itself,
\* or fails.
NextEnds(why) ==
  /\ WorkerStep("next", "terminal")
  /\ why = "cancelled" => cancel
  /\ Settle(why)
  /\ UNCHANGED <<backpressure_waits, offered, cancel, loopVars, consumer, closer>>

OfferToken ==
  /\ WorkerStep("put", "top") /\ offered' = offered + 1
  /\ UNCHANGED <<finish, capacity, backpressure_waits, cancel, loopVars,
                 consumer, closer>>

OfferTerminal ==
  /\ WorkerStep("terminal", "callback") /\ term' = "scheduled"
  /\ UNCHANGED <<finish, capacity, backpressure_waits, offered, cancel, queued,
                 lost, index, doneCallback, exhausted, closed, result,
                 completion_tokens, on_done_fired, consumer, closer>>

OfferOnDone ==
  /\ WorkerStep("callback", "ended") /\ doneCallback' = "scheduled"
  /\ UNCHANGED <<finish, capacity, backpressure_waits, offered, cancel, queued,
                 lost, index, term, exhausted, closed, result,
                 completion_tokens, on_done_fired, consumer, closer>>

Worker ==
  \/ Start \/ CheckCancelled \/ Reserve \/ Unblock \/ CheckAgain \/ NextToken
  \/ \E why \in {"stop", "cancelled", "error"} : NextEnds(why)
  \/ OfferToken \/ OfferTerminal \/ OfferOnDone
-----------------------------------------------------------------------------
(* Callbacks on the event loop, in the order they were scheduled           *)

\* put_nowait of a token: QueueFull is raised into the event loop's exception
\* handler and the token is gone.
PutToken ==
  /\ queued < offered
  /\ queued' = queued + 1
  /\ lost' = IF QueueLength < MaxSize THEN lost ELSE lost + 1
  /\ UNCHANGED <<workerVars, index, term, doneCallback, exhausted, closed,
                 result, completion_tokens, on_done_fired, cancel, consumer,
                 closer>>

PutTerminal ==
  /\ queued = offered /\ term = "scheduled"
  /\ term' = IF QueueLength < MaxSize THEN "queued" ELSE "lost"
  /\ UNCHANGED <<workerVars, queued, lost, index, doneCallback, exhausted,
                 closed, result, completion_tokens, on_done_fired, cancel,
                 consumer, closer>>

\* _fire_on_done, scheduled by the worker.
RunOnDone ==
  /\ term \notin {"none", "scheduled"} /\ doneCallback = "scheduled"
  /\ doneCallback' = "ran" /\ on_done_fired' = TRUE
  /\ UNCHANGED <<workerVars, queued, lost, index, term, exhausted, closed,
                 result, completion_tokens, cancel, consumer, closer>>
-----------------------------------------------------------------------------
(* The consumer: __anext__ and _finish                                     *)

TokensInQueue == queued - lost - index > 0

TakeToken ==
  /\ TokensInQueue
  /\ index' = index + 1 /\ capacity' = capacity + 1
  /\ consumer' = "idle"
  /\ UNCHANGED <<worker, finish, backpressure_waits, offered, queued, lost,
                 term, doneCallback, exhausted, closed, result,
                 completion_tokens, on_done_fired, cancel, closer>>

\* The terminal item ends the iteration and settles the result; the join in
\* _finish holds the loop while the worker, which is past its generator, ends.
TakeTerminal ==
  /\ ~TokensInQueue /\ term = "queued"
  /\ term' = "taken" /\ exhausted' = TRUE /\ on_done_fired' = TRUE
  /\ IF result = "none"
       THEN result' = finish /\ completion_tokens' = index
       ELSE UNCHANGED <<result, completion_tokens>>
  /\ consumer' = "ended"
  /\ UNCHANGED <<workerVars, queued, lost, index, doneCallback, closed, cancel,
                 closer>>

\* async for asks for the next item: it ends, takes an item without suspending,
\* or waits in queue.get().
AnextStop ==
  /\ consumer = "idle" /\ exhausted
  /\ consumer' = "ended"
  /\ UNCHANGED <<workerVars, loopVars, cancel, closer>>

AnextNow ==
  /\ consumer = "idle" /\ ~exhausted
  /\ TakeToken \/ TakeTerminal

AnextWait ==
  /\ consumer = "idle" /\ ~exhausted /\ ~TokensInQueue /\ term # "queued"
  /\ consumer' = "getting"
  /\ UNCHANGED <<workerVars, loopVars, cancel, closer>>

GetResumes ==
  /\ consumer = "getting"
  /\ TakeToken \/ TakeTerminal

\* The client disconnects: the consumer's task is cancelled.
ConsumerGone ==
  /\ consumer \in {"idle", "getting"}
  /\ consumer' = "gone"
  /\ UNCHANGED <<workerVars, loopVars, cancel, closer>>
-----------------------------------------------------------------------------
(* aclose                                                                  *)

\* Fault: aclose sets the cancel event but does not wake a blocked worker.
AcloseWakesNobody ==
  /\ ~closed
  /\ closed' = TRUE /\ cancel' = TRUE
  /\ closer' = "joining"
  /\ UNCHANGED <<workerVars, queued, lost, index, term, doneCallback, exhausted,
                 result, completion_tokens, on_done_fired, consumer>>

\* Fault: aclose fires on_done before it waits for the thread.
AcloseFiresFirst ==
  /\ ~closed
  /\ closed' = TRUE /\ cancel' = TRUE /\ capacity' = capacity + 1
  /\ closer' = "joining" /\ on_done_fired' = TRUE
  /\ UNCHANGED <<worker, finish, backpressure_waits, offered, queued, lost,
                 index, term, doneCallback, exhausted, result,
                 completion_tokens, consumer>>

Aclose ==
  /\ ~closed
  /\ closed' = TRUE /\ cancel' = TRUE /\ capacity' = capacity + 1
  /\ closer' = "joining"
  /\ UNCHANGED <<worker, finish, backpressure_waits, offered, queued, lost,
                 index, term, doneCallback, exhausted, result,
                 completion_tokens, on_done_fired, consumer>>

\* aclose publishes the result res and fires on_done.
Close(how, res) ==
  /\ closer = "joining" /\ closer' = how
  /\ result' = res
  /\ completion_tokens' = IF result = res THEN completion_tokens ELSE index
  /\ exhausted' = TRUE /\ on_done_fired' = TRUE
  /\ UNCHANGED <<workerVars, queued, lost, index, term, doneCallback, closed,
                 cancel, consumer>>

\* The join returns, because the thread ended or after 5 seconds.
AcloseReturns(how) ==
  Close(how, IF result = "none" THEN "cancelled" ELSE result)

Joined == worker = "ended" /\ AcloseReturns("joined")
JoinExpires == worker # "ended" /\ AcloseReturns("expired")

\* The task that awaits aclose is cancelled during the join.
AcloseInterrupted ==
  /\ closer = "joining"
  /\ closer' = "interrupted"
  /\ UNCHANGED <<workerVars, loopVars, cancel, consumer>>
-----------------------------------------------------------------------------
Init ==
  /\ worker = "start" /\ finish = "none"
  /\ capacity = MaxSize /\ cancel = FALSE /\ backpressure_waits = 0
  /\ offered = 0 /\ queued = 0 /\ lost = 0 /\ index = 0
  /\ term = "none" /\ doneCallback = "none"
  /\ consumer = "idle" /\ closer = "none"
  /\ exhausted = FALSE /\ closed = FALSE
  /\ result = "none" /\ completion_tokens = 0
  /\ on_done_fired = FALSE

Loop == PutToken \/ PutTerminal \/ RunOnDone
Consumer == AnextStop \/ AnextNow \/ AnextWait \/ GetResumes \/ ConsumerGone
Closer == Aclose \/ Joined \/ JoinExpires \/ AcloseInterrupted

Next == Worker \/ Loop \/ Consumer \/ Closer

Spec == Init /\ [][Next]_vars

\* The thread is scheduled and its generator returns; the event loop runs its
\* callbacks and a get() whose item arrived; the handler that stopped iterating
\* closes the stream in a finally clause.
Fairness ==
  /\ WF_vars(Worker) /\ WF_vars(Loop)
  /\ WF_vars(GetResumes)
  /\ WF_vars(consumer \in {"ended", "gone"} /\ Aclose)
  /\ WF_vars(Joined)

FairSpec == Spec /\ Fairness
-----------------------------------------------------------------------------
TypeOK ==
  /\ worker \in WorkerStates /\ finish \in Finishes
  /\ capacity \in Nat /\ backpressure_waits \in Nat
  /\ offered \in Nat /\ queued \in Nat /\ lost \in Nat /\ index \in Nat
  /\ term \in TermStates /\ doneCallback \in {"none", "scheduled", "ran"}
  /\ consumer \in ConsumerStates /\ closer \in CloserStates
  /\ exhausted \in BOOLEAN /\ closed \in BOOLEAN /\ cancel \in BOOLEAN
  /\ result \in Finishes /\ completion_tokens \in Nat
  /\ on_done_fired \in BOOLEAN

\* Permits account for queue slots: free permits, the one the worker holds and
\* the tokens on their way to the consumer add up to maxsize, plus the one
\* permit aclose adds to wake a blocked worker.
SlotConservation ==
  capacity + Reserved + (offered - index) =
    MaxSize + (IF closed THEN 1 ELSE 0)

\* "A slow consumer cannot grow the token buffer without bound": tokens
\* scheduled or queued never exceed maxsize, also after aclose has added its
\* extra permit, so no put_nowait of a token ever fails.
BufferBounded == offered - index <= MaxSize /\ lost = 0

\* A generation is never reported complete when text is missing: a result with
\* finish reason stop counts every token the worker produced.
CompleteMeansComplete ==
  result = "stop" => completion_tokens = offered /\ index = offered

\* on_done (which lets the backend start another generation) fires while the
\* worker may still be inside its generator only if the join timed out.
OnDoneAfterWorker ==
  on_done_fired /\ worker \in {"start", "top", "reserve", "blocked", "check",
                              "next", "put"}
    => closer = "expired"

\* The result, once published, never changes.
ResultIsFinal ==
  [][result # "none" => UNCHANGED <<result, completion_tokens>>]_vars

\* A closed stream releases its worker, and a worker that ends releases the
\* backend, whether or not the consumer ever looks at the stream again.
WorkerReleased ==
  /\ closed ~> worker = "ended"
  /\ worker = "ended" ~> on_done_fired

\* A consumer that waits for the next item gets one, however the generation
\* ends; the one exception is a terminal item that found the queue full, which
\* takes a cancelled stream.
ConsumerWakesOrCut ==
  /\ consumer = "getting" ~> consumer # "getting" \/ term = "lost"
  /\ [](term = "lost" => cancel)

\* "stream.result # available once iteration completes": a consumer that waits
\* for the next item gets one, whoever closes the stream.
ConsumerWakes == consumer = "getting" ~> consumer # "getting"

\* No token is lost on its way: slots are conserved, the buffer never overflows, and a
\* result that says complete counts every token, whoever closes the stream and when; and
\* the backend is not let go under a working generator.
TokensAreKept ==
  SlotConservation /\ BufferBounded /\ CompleteMeansComplete /\ OnDoneAfterWorker
=============================================================================
