-------------------------------- MODULE Delivery --------------------------------
(***************************************************************************)
(* The two channels an account event goes out on.  ClientEventEmitter.emit *)
(* serves them one after the other and lets neither failure reach the     *)
(* other, and they share no state: a behaviour follows one of them.        *)
(***************************************************************************)
EXTENDS Webhooks, ClientEvents

VARIABLE channel

vars == <<channel, webhooks, clientEvents>>

Init == channel \in {"webhooks", "stream"} /\ WebhooksInit /\ ClientEventsInit

Hooks(A) == channel = "webhooks" /\ A /\ UNCHANGED <<channel, clientEvents>>
Sse(A) == channel = "stream" /\ A /\ UNCHANGED <<channel, webhooks>>

Next == Hooks(WebhooksNext) \/ Sse(ClientEventsNext)

(***************************************************************************)
(* Fairness: the worker's thread, the stream's task and the timers run on; *)
(* a client whose connection broke connects again, and some connection     *)
(* lives long enough to read the log, some frame gets through.             *)
(***************************************************************************)
Fairness ==
  /\ WF_vars(Hooks(Claim)) /\ WF_vars(Hooks(Worker))
  /\ \A d \in Delivery : WF_vars(Hooks(Backoff(d)))
  /\ WF_vars(Sse(Connect)) /\ WF_vars(Sse(Streaming)) /\ SF_vars(Sse(Read))
  /\ SF_vars(Sse(Send /\ client' # client))

Spec == Init /\ [][Next]_vars /\ Fairness

\* Account events are delivered on both channels: every webhook delivery is settled and stays so, and
\* every row of the log reaches its client.
EventsAreDelivered == PendingSettles /\ SettledStaysSettled /\ EventsArrive
=============================================================================
