------------------------------ MODULE ClientEvents ------------------------------
(***************************************************************************)
(* The account events of one client (billing/client_events.py): a bounded  *)
(* log, a wakeup per client, and the stream and the polling endpoint that  *)
(* read it (api/client_router.py).  Emission and streams run on the event  *)
(* loop; a stream may be suspended at every frame it yields.               *)
(*                                                                         *)
(* notify sets the current asyncio.Event and replaces it: a captured one   *)
(* is set exactly when the generation has moved on.                        *)
(***************************************************************************)
EXTENDS Naturals, Sequences, FiniteSets, FiniteSetsExt

CONSTANTS
  Happening,  \* the events that may be emitted, again and again
  Page,       \* the limit of list_since
  Retained,   \* retention_max_per_client
  MaxRows     \* a bound on the rows ever appended

ASSUME ClientEventsAssumption == Page \in Nat \ {0} /\ Retained \in Nat \ {0} /\ MaxRows \in Nat

VARIABLES
  log,         \* client_events: the event of each row that is kept
  rows,        \* the AUTOINCREMENT counter
  generation,  \* ClientEventNotifier._events
  stream,      \* sse_event_stream: step, cursor, rows read and not yet sent, wakeup
  client,      \* the rows the client has received; the highest is its cursor
  missed       \* rows pruned before the client had them

clientEvents == <<log, rows, generation, stream, client, missed>>

Off == [step |-> "off", cursor |-> 0, page |-> {}, full |-> FALSE, waiter |-> 0]
Cursor == Max(client \cup {0})

\* list_since: the oldest rows above the cursor.
Since(cursor, limit) ==
  LET newer == {i \in DOMAIN log : i > cursor} IN
  {i \in newer : Cardinality({j \in newer : j < i}) < limit}
-----------------------------------------------------------------------------
(* ClientEventEmitter.emit                                                 *)

\* _prune: by age a prefix of the rows, by number all but the newest.
Keeps(ids) == {kept \in {{i \in ids : i >= oldest} : oldest \in ids} :
                 Cardinality(kept) <= Retained /\ Max(ids) \in kept}

\* append and notify without an await.  An event that is in the log is not repeated.
Emit(v) ==
  /\ rows < MaxRows
  /\ IF \E i \in DOMAIN log : log[i] = v THEN UNCHANGED <<log, rows, missed>>
     ELSE \E kept \in Keeps(DOMAIN log \cup {rows + 1}) :
            /\ rows' = rows + 1
            /\ log' = [i \in kept |-> IF i = rows + 1 THEN v ELSE log[i]]
            /\ missed' = missed \cup {i \in DOMAIN log \ kept : i > Cursor}
  /\ generation' = IF rows' > rows THEN generation + 1 ELSE generation
  /\ UNCHANGED <<stream, client>>
-----------------------------------------------------------------------------
(* sse_event_stream and its client                                         *)

\* The client connects with the last id it received.
Connect ==
  /\ stream.step = "off"
  /\ stream' = [Off EXCEPT !.step = "read", !.cursor = Cursor]
  /\ UNCHANGED <<log, rows, generation, client, missed>>

\* The wakeup is captured and the log read without an await between them.
Read ==
  LET page == Since(stream.cursor, Page) IN
  /\ stream.step = "read"
  /\ stream' = [stream EXCEPT !.step = "send", !.page = page, !.waiter = generation,
                              !.full = Cardinality(page) = Page]
  /\ UNCHANGED <<log, rows, generation, client, missed>>

\* One frame; the connection may break under it.
Send ==
  LET next == Min(stream.page) IN
  /\ stream.step = "send" /\ stream.page # {}
  /\ \/ /\ client' = client \cup {next}
        /\ stream' = [stream EXCEPT !.page = @ \ {next}, !.cursor = next]
     \/ stream' = Off /\ UNCHANGED client
  /\ UNCHANGED <<log, rows, generation, missed>>

\* Fault: the wakeup is captured after the frames were sent.
WaiterLate == generation

Waiter == stream.waiter

Wait ==
  /\ stream.step = "send" /\ stream.page = {}
  /\ stream' = [stream EXCEPT !.step = "wait", !.waiter = Waiter]
  /\ UNCHANGED <<log, rows, generation, client, missed>>

\* Woken, or the heartbeat: the log is read again.
Wake(heartbeat) ==
  /\ stream.step = "wait" /\ (heartbeat \/ stream.waiter < generation)
  /\ stream' = [stream EXCEPT !.step = "read"]
  /\ UNCHANGED <<log, rows, generation, client, missed>>

\* A disconnect, or the end of the process, which forgets the wakeups.
Cut ==
  /\ stream.step # "off" /\ stream' = Off
  /\ UNCHANGED <<log, rows, generation, client, missed>>

\* get_events: the client polls instead.
Poll ==
  /\ stream.step = "off" /\ client' = client \cup Since(Cursor, Page)
  /\ UNCHANGED <<log, rows, generation, stream, missed>>
-----------------------------------------------------------------------------
ClientEventsInit ==
  /\ log = <<>> /\ rows = 0 /\ generation = 0 /\ stream = Off /\ client = {} /\ missed = {}

Streaming == Read \/ Send \/ Wait \/ Wake(TRUE)

ClientEventsNext ==
  \/ \E v \in Happening : Emit(v)
  \/ Connect \/ Read \/ Send \/ Wait \/ Cut \/ Poll
  \/ \E heartbeat \in BOOLEAN : Wake(heartbeat)
-----------------------------------------------------------------------------
\* The stream is resumable and lossless: a client that goes by the last id it has
\* received has received every row up to it, through broken connections, restarts,
\* polling and pages shorter than the backlog, except the rows that retention
\* removed before they could be sent.
ReceivedIsPrefix == \A i \in 1..Cursor : i \in client \cup missed

\* A stream never sleeps on a wakeup that has passed: if it waits and rows are
\* unread, either it is about to be woken, or a full page hid them, and only the
\* heartbeat fetches those.
NoMissedWakeup ==
  stream.step = "wait" /\ Since(stream.cursor, Page) # {}
    => stream.waiter < generation \/ stream.full

\* Once nothing more is emitted, every row has reached the client, by the heartbeat at
\* the latest, or was removed by retention before.
EventsArrive == <>[](1..rows \subseteq client \cup missed)

\* The stream of account events misses nothing: no row below the client's cursor, and no
\* wakeup between its last read and its wait.
StreamMissesNothing == ReceivedIsPrefix /\ NoMissedWakeup
=============================================================================
