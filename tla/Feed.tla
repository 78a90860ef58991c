--------------------------------- MODULE Feed ---------------------------------
(***************************************************************************)
(* The in-process event bus (telemetry/events.py) and the websocket pumps  *)
(* that drain it (api/ws_router.py), one channel.  Everything runs on the  *)
(* event loop: an action is what happens between two awaits.  An event is  *)
(* its position in the order of publication.                               *)
(***************************************************************************)
EXTENDS Naturals, Sequences, FiniteSets

CONSTANTS
  Subscriber,
  HistorySize, QueueSize,  \* EventBus(history, subscriber_queue); no bound when QueueSize is 0
  MaxPublished

ASSUME FeedAssumption ==
  HistorySize \in Nat /\ QueueSize \in Nat /\ MaxPublished \in Nat

VARIABLES
  published,  \* how many events have been published
  history,    \* the channel's ring of recent events
  sub         \* the subscription of each websocket

feed == <<published, history, sub>>

\* replay: history still to be yielded; woken: the asyncio.Event; from: the number of
\* events that were already out of reach when it subscribed; seen: events yielded.
Closed == [open |-> FALSE, replay |-> <<>>, queue |-> <<>>, dropped |-> 0,
           waiting |-> FALSE, woken |-> FALSE, from |-> 0, seen |-> <<>>]

Newest(s, n) == IF Len(s) > n THEN SubSeq(s, Len(s) - n + 1, Len(s)) ELSE s
-----------------------------------------------------------------------------
\* Fault: the events dropped from a full queue are not counted.
OfferUncounted(u, e) ==
  [u EXCEPT !.queue = Newest(Append(@, e), QueueSize), !.woken = TRUE]

\* _Subscription.offer drops the oldest event of a full queue.
Offer(u, e) ==
  IF QueueSize > 0 /\ Len(u.queue) >= QueueSize
    THEN [u EXCEPT !.queue = Append(Tail(@), e), !.dropped = @ + 1, !.woken = TRUE]
    ELSE [u EXCEPT !.queue = Append(@, e), !.woken = TRUE]

Publish ==
  LET e == published + 1 IN
  /\ published < MaxPublished /\ published' = e
  /\ history' = Newest(Append(history, e), HistorySize)
  /\ sub' = [s \in Subscriber |-> IF sub[s].open THEN Offer(sub[s], e) ELSE sub[s]]

\* The first __anext__ of subscribe: joins and copies the history without an await.
Join(s, replayed) ==
  /\ ~sub[s].open
  /\ sub' = [sub EXCEPT ![s] = [Closed EXCEPT
       !.open = TRUE, !.replay = IF replayed THEN history ELSE <<>>,
       !.from = IF replayed THEN published - Len(history) ELSE published]]
  /\ UNCHANGED <<published, history>>

Drained(u) == u.queue = <<>>

\* The pump asks for the next event and sends it, or waits for one.
Pull(s) ==
  LET u == sub[s] IN
  /\ u.open /\ ~u.waiting
  /\ sub' = [sub EXCEPT ![s] =
       CASE u.replay # <<>> -> [u EXCEPT !.seen = Append(@, Head(u.replay)), !.replay = Tail(@)]
         [] u.replay = <<>> /\ Drained(u) -> [u EXCEPT !.waiting = TRUE, !.woken = FALSE]
         [] OTHER -> [u EXCEPT !.seen = Append(@, Head(u.queue)), !.queue = Tail(@)]]
  /\ UNCHANGED <<published, history>>

Wake(s) ==
  /\ sub[s].waiting /\ sub[s].woken
  /\ sub' = [sub EXCEPT ![s].waiting = FALSE]
  /\ UNCHANGED <<published, history>>

\* The socket goes away: _pump cancels both tasks and closes the generator.
Disconnect(s) ==
  /\ sub[s].open /\ sub' = [sub EXCEPT ![s] = Closed]
  /\ UNCHANGED <<published, history>>
-----------------------------------------------------------------------------
FeedInit == published = 0 /\ history = <<>> /\ sub = [s \in Subscriber |-> Closed]

FeedNext ==
  \/ Publish
  \/ \E s \in Subscriber : Pull(s) \/ Wake(s) \/ Disconnect(s)
  \/ \E s \in Subscriber, replayed \in BOOLEAN : Join(s, replayed)
-----------------------------------------------------------------------------
Coming(u) == u.seen \o u.replay \o u.queue

\* A subscriber is shown the events in order and none twice, across the switch from
\* the replayed history to the live queue; and every event since it subscribed that
\* it will not be shown is counted in dropped.
FeedIsAccountedFor ==
  \A s \in Subscriber : sub[s].open =>
    LET all == Coming(sub[s]) IN
    /\ \A m, n \in 1..Len(all) : m < n => all[m] < all[n]
    /\ Len(all) + sub[s].dropped = published - sub[s].from

\* No wakeup is lost: a subscriber never waits with an event queued and the
\* asyncio.Event cleared.
NoLostWakeup == \A s \in Subscriber : sub[s].waiting /\ sub[s].queue # <<>> => sub[s].woken

\* A subscriber of the event bus is shown or told of every event, and is woken for it.
FeedIsSound == FeedIsAccountedFor /\ NoLostWakeup
=============================================================================
