-------------------------------- MODULE Webhooks --------------------------------
(***************************************************************************)
(* Outbound webhooks of one client (billing/webhooks/): the fan-out of an  *)
(* event to the endpoints, the worker that posts what is due, and the      *)
(* operator's requests (api/billing_router.py).  An emission runs on the   *)
(* event loop, the worker in a thread, requests in threads of their own;   *)
(* each query or write is a transaction, and nothing is leased: the worker *)
(* goes by the rows it has read.                                           *)
(***************************************************************************)
EXTENDS Naturals, FiniteSets

CONSTANTS
  Endpoint, Event,
  MaxAttempts,
  MaxFaults,   \* a bound on crashes, failed writes and replays
  MaxSecrets,  \* a bound on rotations
  Null

Delivery == Endpoint \X Event
Row == [status : {"pending", "succeeded", "dead"}, attempts : Nat, due : BOOLEAN]
Attempt == [of : Delivery, number : Nat, signed : SUBSET Nat,
            step : {"sign", "post", "skip", "succeeded", "failed"}]
Emission == [event : Event, to : SUBSET Endpoint]

ASSUME WebhooksAssumption ==
  /\ MaxAttempts \in Nat \ {0} /\ MaxFaults \in Nat /\ MaxSecrets \in Nat \ {0}
  /\ Null \notin Nat \cup Row \cup Attempt \cup Emission

VARIABLES
  endpoint,   \* "new", "enabled", "disabled" or "gone"
  secret,     \* newest secret, those that have not expired, and the receiver's
  delivery,   \* webhook_deliveries: status, attempts, next_attempt_at reached
  emission,   \* enqueue_event between its query and its transaction
  loop,       \* run_loop: "off", "sleeping", "batch", "finishing" or "ended"
  stop,       \* DeliveryWorker._stop
  batch,      \* the attempts of the rows that were claimed and not yet tried
  attempt,    \* _attempt: delivery, next step, what it read
  faults,
  past        \* what happened to a delivery, for the properties

webhooks == <<endpoint, secret, delivery, emission, loop, stop, batch, attempt, faults, past>>

Exists(e) == endpoint[e] \in {"enabled", "disabled"}
Pending(d) == delivery[d] # Null /\ delivery[d].status = "pending"
\* accepted: posts answered 2xx; failed, sent, skipped: since the last replay;
\* overtaken: a replay came after the row was claimed; excused: replays, and posts
\* whose outcome could not be written; unverified: see GraceCoversSwitch.
NoPast == [accepted |-> 0, failed |-> 0, sent |-> FALSE, skipped |-> FALSE,
           overtaken |-> FALSE, excused |-> 0, unverified |-> FALSE]
-----------------------------------------------------------------------------
(* The operator                                                            *)

CreateEndpoint(e) ==
  /\ endpoint[e] = "new" /\ endpoint' = [endpoint EXCEPT ![e] = "enabled"]
  /\ UNCHANGED <<secret, delivery, emission, loop, stop, batch, attempt, faults, past>>

SetDisabled(e) ==
  /\ Exists(e)
  /\ endpoint' = [endpoint EXCEPT ![e] = IF @ = "enabled" THEN "disabled" ELSE "enabled"]
  /\ UNCHANGED <<secret, delivery, emission, loop, stop, batch, attempt, faults, past>>

\* Secrets and deliveries go with the endpoint.
DeleteEndpoint(e) ==
  /\ Exists(e) /\ endpoint' = [endpoint EXCEPT ![e] = "gone"]
  /\ secret' = [secret EXCEPT ![e] = [newest |-> 1, active |-> {}, held |-> 1]]
  /\ delivery' = [d \in Delivery |-> IF d[1] = e THEN Null ELSE delivery[d]]
  /\ past' = [d \in Delivery |-> IF d[1] = e THEN NoPast ELSE past[d]]
  /\ UNCHANGED <<emission, loop, stop, batch, attempt, faults>>

\* rotate_secret: the previous secret stays for the grace period.
Rotated(s) ==
  [newest |-> s.newest + 1, active |-> s.active \cup {s.newest + 1}, held |-> s.held]

Rotate(e) ==
  /\ Exists(e) /\ secret[e].newest < MaxSecrets
  /\ secret' = [secret EXCEPT ![e] = Rotated(@)]
  /\ UNCHANGED <<endpoint, delivery, emission, loop, stop, batch, attempt, faults, past>>

\* The receiver changes over to the newest secret, and does so before the grace ends.
SwitchSecret(e) ==
  /\ secret[e].held # secret[e].newest
  /\ secret' = [secret EXCEPT ![e].held = secret[e].newest]
  /\ UNCHANGED <<endpoint, delivery, emission, loop, stop, batch, attempt, faults, past>>

GraceEnds(e) ==
  /\ secret[e].held = secret[e].newest /\ secret[e].active \ {secret[e].newest} # {}
  /\ secret' = [secret EXCEPT ![e].active = {secret[e].newest}]
  /\ UNCHANGED <<endpoint, delivery, emission, loop, stop, batch, attempt, faults, past>>

Held(d) == batch[d] # Null \/ (attempt # Null /\ attempt.of = d)

Replay(d) ==
  /\ delivery[d] # Null /\ faults < MaxFaults /\ faults' = faults + 1
  /\ delivery' = [delivery EXCEPT ![d] = [status |-> "pending", attempts |-> 0, due |-> TRUE]]
  /\ past' = [past EXCEPT ![d].failed = 0, ![d].sent = FALSE, ![d].skipped = FALSE,
                           ![d].overtaken = Held(d), ![d].excused = @ + 1]
  /\ UNCHANGED <<endpoint, secret, emission, loop, stop, batch, attempt>>
-----------------------------------------------------------------------------
(* enqueue_event, under an emit that swallows every failure                *)

EmitSelect(v) ==
  /\ emission = Null
  /\ emission' = [event |-> v, to |-> {e \in Endpoint : endpoint[e] = "enabled"}]
  /\ UNCHANGED <<endpoint, secret, delivery, loop, stop, batch, attempt, faults, past>>

\* INSERT OR IGNORE, unique by endpoint and event.
Fresh(d) == delivery[d] = Null

\* The rows are one transaction: an endpoint deleted since the query violates the
\* foreign key, which OR IGNORE does not ignore, and no endpoint gets the event.
EmitInsert ==
  LET rows == {<<e, emission.event>> : e \in emission.to}
      whole == \A e \in emission.to : Exists(e) IN
  /\ emission # Null /\ emission' = Null
  /\ delivery' = [d \in Delivery |->
       IF whole /\ d \in rows /\ Fresh(d)
         THEN [status |-> "pending", attempts |-> 0, due |-> TRUE] ELSE delivery[d]]
  /\ UNCHANGED <<endpoint, secret, loop, stop, batch, attempt, faults, past>>
-----------------------------------------------------------------------------
(* The worker                                                              *)

\* Fault: the query does not look at the status.
DueAnyStatus(d) == delivery[d] # Null /\ delivery[d].due

Due(d) == Pending(d) /\ delivery[d].due

\* claim_due: the batch is what the query returns.
Claim ==
  /\ loop = "sleeping" /\ ~stop /\ loop' = "batch"
  /\ batch' = [d \in Delivery |-> IF Due(d) THEN delivery[d].attempts ELSE Null]
  /\ UNCHANGED <<endpoint, secret, delivery, emission, stop, attempt, faults, past>>

Working == loop \in {"batch", "finishing"}

\* _attempt reads the endpoint.
Take(d) ==
  /\ Working /\ attempt = Null /\ batch[d] # Null /\ ~stop
  /\ batch' = [batch EXCEPT ![d] = Null]
  /\ attempt' = [of |-> d, number |-> batch[d] + 1, signed |-> {},
                 step |-> IF endpoint[d[1]] = "enabled" THEN "sign" ELSE "skip"]
  /\ UNCHANGED <<endpoint, secret, delivery, emission, loop, stop, faults, past>>

Sign ==
  /\ attempt # Null /\ attempt.step = "sign"
  /\ attempt' = [attempt EXCEPT !.step = "post", !.signed = secret[attempt.of[1]].active]
  /\ UNCHANGED <<endpoint, secret, delivery, emission, loop, stop, batch, faults, past>>

\* The receiver verifies and answers, or does not.
Post(ok) ==
  LET d == attempt.of
      s == secret[d[1]] IN
  /\ attempt # Null /\ attempt.step = "post"
  /\ ok => s.held \in attempt.signed
  /\ attempt' = [attempt EXCEPT !.step = IF ok THEN "succeeded" ELSE "failed"]
  /\ past' = [past EXCEPT
       ![d].accepted = IF ok THEN @ + 1 ELSE @, ![d].sent = @ \/ ok,
       ![d].failed = IF ok THEN @ ELSE @ + 1,
       ![d].unverified = @ \/ (s.held \notin attempt.signed /\ s.newest \in attempt.signed)]
  /\ UNCHANGED <<endpoint, secret, delivery, emission, loop, stop, batch, faults>>

\* Fault: one attempt too few.
GivenUpEarly(n) == n >= MaxAttempts - 1

GivenUp(n) == n >= MaxAttempts

Status ==
  CASE attempt.step = "succeeded" -> "succeeded"
    [] attempt.step = "skip" -> "dead"
    [] attempt.step = "failed" -> IF GivenUp(attempt.number) THEN "dead" ELSE "pending"

\* mark_succeeded, mark_retry, mark_dead: the row is written as it is now.
Mark ==
  LET d == attempt.of IN
  /\ attempt # Null /\ attempt.step \in {"skip", "succeeded", "failed"} /\ attempt' = Null
  /\ delivery' = IF delivery[d] = Null THEN delivery
                 ELSE [delivery EXCEPT ![d].status = Status, ![d].attempts = @ + 1,
                                       ![d].due = Status # "pending"]
  /\ past' = [past EXCEPT ![d].skipped = @ \/ attempt.step = "skip"]
  /\ UNCHANGED <<endpoint, secret, emission, loop, stop, batch, faults>>

Nothing == [d \in Delivery |-> Null]

\* Fault: the loop dies of the exception.
AfterFailureEnded == "ended"

AfterFailure == loop

\* A write fails: run_once raises, and the rest of the batch waits for the next one.
MarkFails ==
  /\ attempt # Null /\ attempt.step \in {"skip", "succeeded", "failed"}
  /\ faults < MaxFaults /\ faults' = faults + 1
  /\ attempt' = Null /\ batch' = Nothing /\ loop' = AfterFailure
  /\ past' = [past EXCEPT ![attempt.of].excused = @ + 1]
  /\ UNCHANGED <<endpoint, secret, delivery, emission, stop>>

\* The thread returns; run_loop goes on, or ends if it was cancelled.
BatchEnds ==
  /\ Working /\ attempt = Null /\ (stop \/ batch = Nothing)
  /\ batch' = Nothing /\ loop' = IF loop = "finishing" THEN "ended" ELSE "sleeping"
  /\ UNCHANGED <<endpoint, secret, delivery, emission, stop, attempt, faults, past>>

\* The retry delay passes.
Backoff(d) ==
  /\ Pending(d) /\ ~delivery[d].due /\ delivery' = [delivery EXCEPT ![d].due = TRUE]
  /\ UNCHANGED <<endpoint, secret, emission, loop, stop, batch, attempt, faults, past>>

Cancelled == IF loop = "batch" THEN "finishing" ELSE "ended"

\* stop_webhooks of main.py: request_stop, then the task is cancelled.
StopWorker ==
  /\ loop \in {"sleeping", "batch"} /\ stop' = TRUE /\ loop' = Cancelled
  /\ UNCHANGED <<endpoint, secret, delivery, emission, batch, attempt, faults, past>>

StartWorker ==
  /\ loop \in {"off", "ended"} /\ loop' = "sleeping" /\ stop' = FALSE
  /\ UNCHANGED <<endpoint, secret, delivery, emission, batch, attempt, faults, past>>

Crash ==
  /\ loop # "off" /\ faults < MaxFaults /\ faults' = faults + 1 /\ loop' = "off"
  /\ stop' = FALSE /\ batch' = Nothing /\ attempt' = Null /\ emission' = Null
  /\ past' = IF attempt = Null THEN past ELSE [past EXCEPT ![attempt.of].excused = @ + 1]
  /\ UNCHANGED <<endpoint, secret, delivery>>
-----------------------------------------------------------------------------
WebhooksInit ==
  /\ endpoint = [e \in Endpoint |-> "new"]
  /\ secret = [e \in Endpoint |-> [newest |-> 1, active |-> {1}, held |-> 1]]
  /\ delivery = [d \in Delivery |-> Null] /\ emission = Null /\ loop = "off" /\ stop = FALSE
  /\ batch = Nothing /\ attempt = Null /\ faults = 0 /\ past = [d \in Delivery |-> NoPast]

Worker ==
  \/ \E d \in Delivery : Take(d)
  \/ Sign \/ (\E ok \in BOOLEAN : Post(ok)) \/ Mark \/ BatchEnds

WebhooksNext ==
  \/ \E e \in Endpoint : CreateEndpoint(e) \/ SetDisabled(e) \/ DeleteEndpoint(e)
                           \/ Rotate(e) \/ SwitchSecret(e) \/ GraceEnds(e)
  \/ \E v \in Event : EmitSelect(v)
  \/ EmitInsert \/ Claim \/ Worker \/ MarkFails
  \/ \E d \in Delivery : Replay(d) \/ Backoff(d)
  \/ StopWorker \/ StartWorker \/ Crash
-----------------------------------------------------------------------------
\* What the log says of a delivery happened since it was enqueued or last replayed: a
\* receiver accepted it, or it failed max_attempts times or its endpoint was found
\* missing or disabled.  A replay is overtaken when the worker had read the row
\* before: the attempt under way settles the row again, by the old count.
SettledIsHonest ==
  \A d \in Delivery : delivery[d] # Null /\ ~past[d].overtaken =>
    /\ delivery[d].status = "succeeded" => past[d].sent
    /\ delivery[d].status = "dead" => past[d].failed >= MaxAttempts \/ past[d].skipped

\* A receiver accepts a delivery once, and once more for each replay, each crash and
\* each failed write between the post and the row; it is not tried more than
\* max_attempts times beyond those.
RepeatsAreExcused ==
  \A d \in Delivery :
    /\ past[d].accepted <= 1 + past[d].excused
    /\ past[d].failed <= MaxAttempts + past[d].excused

\* A receiver that adopts the new secret within the grace period can verify every
\* post that was signed with the newest secret of its time, whatever the rotation,
\* the worker and the receiver do in between.
GraceCoversSwitch == \A d \in Delivery : ~past[d].unverified

\* When the cancelled loop has ended, no thread of it posts or writes any more.
EndedMeansQuiet == loop = "ended" => attempt = Null

\* Only a replay reopens a settled delivery: an event emitted again, as a retried
\* provider event is, does not.
SettledStaysSettled ==
  [][\A d \in Delivery :
       delivery[d] # Null /\ ~Pending(d) /\ delivery'[d] # Null /\ delivery'[d].status = "pending"
       => past'[d].excused > past[d].excused]_webhooks

\* While the worker runs, the queue is emptied again and again, whatever receivers,
\* operators and failing writes do: every delivery ends succeeded or dead.
PendingSettles == []<>((\A d \in Delivery : ~Pending(d)) \/ stop \/ loop = "off")

\* What a receiver can rely on: repeats have a reason, every post can be verified while a
\* secret is switched, and nothing is posted once the worker has been stopped.
ReceiverIsServed == RepeatsAreExcused /\ GraceCoversSwitch /\ EndedMeansQuiet
=============================================================================
