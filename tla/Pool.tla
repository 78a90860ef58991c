--------------------------------- MODULE Pool ---------------------------------
(***************************************************************************)
(* Requests on the pool: a handler takes a lease from the registry, reads  *)
(* the stream of the backend it was given, and gives the lease back in     *)
(* finish_generation.  The stream of a remote entry is modelled in full    *)
(* (inference/remote/openai_compat.py): the POST, its retries before the   *)
(* first token, tokens, failures, a client that goes away at any point, and *)
(* the closing.  A local stream, which Stream models, just ends.           *)
(***************************************************************************)
EXTENDS Registry, Integers

CONSTANTS
  Handlers,
  MaxRetries,   \* max_prestream_retries
  MaxTokens     \* a bound on the tokens of one answer

ASSUME PoolAssumption ==
  IsFiniteSet(Handlers) /\ MaxRetries \in Nat /\ MaxTokens \in Nat

VARIABLES
  pc,         \* where the handler is, and with it the stream's generator
  lease,      \* the entry of its RegistryLease
  attempts,   \* _Outcome.upstream_attempts
  index,      \* tokens handed over, RemoteGenerationStream._index
  outcome,    \* how its last request ended
  gone        \* the handlers whose last client went away

stream == <<attempts, index>>
vars == <<health, in_flight, pc, lease, stream, outcome, gone>>
-----------------------------------------------------------------------------
(* Taking a lease                                                          *)

\* The reason, which the client is told, is Refusal(d).
Refuse(h, d) ==
  /\ pc[h] = "idle" /\ Placement(d) = None
  /\ outcome' = [outcome EXCEPT ![h] = "refused"] /\ gone' = gone \ {h}
  /\ UNCHANGED <<health, in_flight, pc, lease, stream>>

\* Acquire and generate(): the generator of a remote stream has not started.
Acquire(h, d) ==
  LET e == Placement(d) IN
  /\ pc[h] = "idle" /\ e # None
  /\ pc' = [pc EXCEPT ![h] = IF e \in Remote THEN "fresh" ELSE "local"]
  /\ lease' = [lease EXCEPT ![h] = e]
  /\ in_flight' = [in_flight EXCEPT ![e] = @ + 1]
  /\ outcome' = [outcome EXCEPT ![h] = "none"] /\ gone' = gone \ {h}
  /\ UNCHANGED <<health, stream>>

\* finish_generation, for the outcome "how"; "left" is {h} if its client went
\* away, and the lease's entry counts n requests afterwards.
Ends(h, how, left, n) ==
  /\ pc' = [pc EXCEPT ![h] = "idle"] /\ lease' = [lease EXCEPT ![h] = None]
  /\ in_flight' = [in_flight EXCEPT ![lease[h]] = n]
  /\ outcome' = [outcome EXCEPT ![h] = how] /\ gone' = (gone \ {h}) \cup left
  /\ attempts' = [attempts EXCEPT ![h] = 0] /\ index' = [index EXCEPT ![h] = 0]
  /\ UNCHANGED health

\* RegistryLease.release, which counts once.
Finish(h, how, left) ==
  LET n == in_flight[lease[h]] IN Ends(h, how, left, IF n > 0 THEN n - 1 ELSE n)

LocalEnds(h) ==
  /\ pc[h] = "local"
  /\ Finish(h, "ok", {}) \/ Finish(h, "error", {}) \/ Finish(h, "cancelled", {h})
-----------------------------------------------------------------------------
(* RemoteGenerationStream.__anext__ and _stream_tokens                     *)

Waiting(h) == pc[h] \in {"posting", "reading"}   \* suspended in __anext__
still == <<health, in_flight, lease, outcome, gone>>

\* The POST is sent, and counted.
Post(h) ==
  /\ pc' = [pc EXCEPT ![h] = "posting"]
  /\ attempts' = [attempts EXCEPT ![h] = @ + 1]
  /\ UNCHANGED <<still, index>>

FirstAnext(h) == pc[h] = "fresh" /\ Post(h)

Accepted(h) ==
  /\ pc[h] = "posting" /\ lease[h] \in up
  /\ pc' = [pc EXCEPT ![h] = "reading"]
  /\ UNCHANGED <<still, stream>>

\* A status that is not worth a retry.
Rejected(h) ==
  pc[h] = "posting" /\ lease[h] \in up /\ Finish(h, "error", {})

\* The connection fails, stalls or answers with a retriable status: another
\* POST, if no token has been handed over and attempts are left.
Breaks(h) ==
  /\ Waiting(h)
  /\ IF index[h] > 0 \/ attempts[h] > MaxRetries
       THEN Finish(h, "error", {}) ELSE Post(h)

\* A token reaches the handler, which suspends to send it to the client.
Token(h) ==
  /\ pc[h] = "reading" /\ lease[h] \in up /\ index[h] < MaxTokens
  /\ pc' = [pc EXCEPT ![h] = "sending"]
  /\ index' = [index EXCEPT ![h] = @ + 1]
  /\ UNCHANGED <<still, attempts>>

NextAnext(h) ==
  /\ pc[h] = "sending"
  /\ pc' = [pc EXCEPT ![h] = "reading"]
  /\ UNCHANGED <<still, stream>>

\* [DONE], or the server ends the response.
Done(h) ==
  pc[h] = "reading" /\ lease[h] \in up /\ Finish(h, "ok", {})
-----------------------------------------------------------------------------
(* The client goes away                                                    *)

\* While the handler awaits a token: __anext__ turns the CancelledError into a
\* GenerationFailedError, which the handler takes for a failure.
GoneWaiting(h) == Waiting(h) /\ Finish(h, "error", {h})

\* Before the first token is asked for: aclose has nothing to wait for.
GoneFresh(h) == pc[h] = "fresh" /\ Finish(h, "cancelled", {h})

\* While a token is being sent: aclose awaits the end of the response.
GoneSending(h) ==
  /\ pc[h] = "sending"
  /\ pc' = [pc EXCEPT ![h] = "closing"]
  /\ UNCHANGED <<still, stream>>

\* aclose returns with a CANCELLED result, or is interrupted and leaves none.
Closed(h) == pc[h] = "closing" /\ Finish(h, "cancelled", {h})
-----------------------------------------------------------------------------
Init ==
  /\ RegistryInit
  /\ pc = [h \in Handlers |-> "idle"] /\ lease = [h \in Handlers |-> None]
  /\ attempts = [h \in Handlers |-> 0] /\ index = [h \in Handlers |-> 0]
  /\ outcome = [h \in Handlers |-> "none"] /\ gone = {}

Anext(h) == FirstAnext(h) \/ Accepted(h) \/ Rejected(h) \/ Breaks(h) \/ Token(h)
              \/ NextAnext(h) \/ Done(h)
Gone(h) == GoneWaiting(h) \/ GoneFresh(h) \/ GoneSending(h) \/ Closed(h)

Registry == RefreshHealth \/ ProbeReturns \/ PrimaryChanges \/ ServerChanges

Next ==
  \/ \E h \in Handlers : \/ \E d \in Demands : Refuse(h, d) \/ Acquire(h, d)
                         \/ LocalEnds(h) \/ Anext(h) \/ Gone(h)
  \/ Registry /\ UNCHANGED <<pc, lease, stream, outcome, gone>>

Spec == Init /\ [][Next]_vars

\* The health loop never ends, and its probes have a timeout.
Fairness ==
  WF_vars((RefreshHealth \/ ProbeReturns) /\ UNCHANGED <<pc, lease, stream, outcome, gone>>)

FairSpec == Spec /\ Fairness
-----------------------------------------------------------------------------
TypeOK ==
  /\ {loaded, available} \subseteq SUBSET Entries /\ up \subseteq Remote
  /\ in_flight \in [Entries -> Nat]
  /\ probing \in Remote \cup {None} /\ answer \in BOOLEAN
  /\ pc \in [Handlers -> {"idle", "local", "fresh", "posting", "reading", "sending", "closing"}]
  /\ lease \in [Handlers -> Entries \cup {None}]
  /\ attempts \in [Handlers -> Nat] /\ index \in [Handlers -> Nat]
  /\ outcome \in [Handlers -> {"none", "refused", "ok", "error", "cancelled"}] /\ gone \subseteq Handlers

\* Every entry counts exactly the requests it serves, and never more than it
\* may, whatever affinity, cascades and spillover decide.
LeasesCounted ==
  \A e \in Entries :
    /\ in_flight[e] = Cardinality({h \in Handlers : lease[h] = e})
    /\ in_flight[e] <= MaxInFlight[e]

\* "Once any token has reached the client" there is no further POST, and there
\* are never more than the retries allow: output is not produced twice.
RetryOnlyBeforeTokens ==
  [][\A h \in Handlers :
       /\ attempts'[h] <= 1 + MaxRetries
       /\ index[h] > 0 => attempts'[h] \in {attempts[h], 0}]_vars

\* GeneratorExit and CancelledError, with which a client goes away, "propagate
\* to finally without a spurious error frame": no disconnect is an error.
DisconnectIsCancelled ==
  \A h \in gone : outcome[h] # "error"

\* Routing follows the servers: one that is down for good stops getting
\* requests, a loaded one that is up for good gets them, and so does a primary
\* that an operator has loaded again.
HealthConverges ==
  \A e \in Entries :
    /\ <>[](e \in loaded /\ (e \in Remote => e \in up)) => <>[]is_ready(e)
    /\ e \in Remote => (<>[](e \notin up) => <>[]~is_ready(e))

\* Placement is right in every state of the pool: leases are exact and within limits, the
\* policy is followed, a refusal says why, and the dry run says what acquire would do.
PlacementIsRight == LeasesCounted /\ PolicyRespected /\ HonestRefusal /\ PlanAgrees

\* A request goes where it can be answered: routing follows the health of the servers, and
\* a retry never repeats output the client has seen.
RoutingIsSafe == RetryOnlyBeforeTokens /\ HealthConverges
=============================================================================
