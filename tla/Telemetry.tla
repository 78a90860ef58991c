------------------------------- MODULE Telemetry -------------------------------
(***************************************************************************)
(* What the engine measures of its requests: Counters, RouteMetrics and    *)
(* the samples of Telemetry (telemetry/counters.py, route_metrics.py,      *)
(* service.py, as api/serving.py and the operator's routers use them).     *)
(*                                                                         *)
(* Requests are served on the event loop.  A snapshot is built there by    *)
(* the sampler task and the WebSocket, and in a worker thread by the REST  *)
(* handlers; only Counters has a lock, so two snapshots interleave between *)
(* the reads and writes of the previous sample.                            *)
(***************************************************************************)
EXTENDS Naturals, Sequences, FiniteSets

CONSTANTS
  Served,      \* the requests
  Route,       \* the (model, backend) pairs
  Sampler,     \* the tasks and threads that build snapshots
  OnLoop,      \* those of them on the event loop
  Ends,        \* how a generation may end: its outcome and its tokens, at most one
  Minute,      \* the window of requests_per_min
  LastTick,    \* bound on the clock
  MaxSamples   \* bound on the snapshots

VARIABLES
  clock,
  call,        \* each request: where it is, its route, its start, how it ended
  counters,    \* Counters: total, active, errors, completion tokens, recent starts
  routes,      \* RouteMetrics._routes
  sheds,       \* RouteMetrics._sheds
  previous,    \* _last_completion_total and _last_sample_ts
  sampler,     \* each snapshot being built, or the last one built
  fresh,       \* tokens counted since the last snapshot of the counters
  begun        \* the number of snapshots begun

telemetry == <<clock, call, counters, routes, sheds, previous, sampler, fresh, begun>>
books == <<call, counters, routes, sheds, fresh>>

NoStat == [requests |-> 0, errors |-> 0, cancelled |-> 0, tokens |-> 0, total_n |-> 0, tps_n |-> 0]
NewCall == [pc |-> "new", route |-> CHOOSE k \in Route : TRUE, at |-> 0, outcome |-> "none", tokens |-> 0,
            counted |-> FALSE]
NewSample == [pc |-> "idle", now |-> 0, total |-> 0, prev_total |-> 0, prev_ts |-> 0, first |-> TRUE,
              per_min |-> 0, least |-> 0, most |-> 0, known |-> FALSE, produced |-> 0, alone |-> FALSE,
              fresh |-> 0]

\* The loop runs one thing at a time.
LoopFree == \A s \in OnLoop : sampler[s].pc = "idle"
-----------------------------------------------------------------------------
(* Counters and RouteMetrics                                               *)

\* _trim: starts are in order, so what is too old is in front.
Trim(starts, now) == SelectSeq(starts, LAMBDA t : t + Minute >= now)

request_started(c) ==
  [c EXCEPT !.total = @ + 1, !.active = @ + 1, !.starts = Trim(Append(@, clock), clock)]

request_finished(c, tokens, error) ==
  [c EXCEPT !.active = IF @ > 0 THEN @ - 1 ELSE @, !.completion = @ + tokens,
            !.errors = @ + (IF error THEN 1 ELSE 0)]

One(p) == IF p THEN 1 ELSE 0

\* RouteMetrics.record: latency and rate only of what succeeded, which has its timings.
Record(stat, outcome, tokens) ==
  [stat EXCEPT !.requests = @ + 1, !.tokens = @ + tokens,
     !.errors = @ + One(outcome = "error"), !.cancelled = @ + One(outcome = "cancelled"),
     !.total_n = @ + One(outcome = "ok"), !.tps_n = @ + One(outcome = "ok" /\ tokens > 0)]

\* begin_generation refuses: saturated, or no backend.
Shed(r) ==
  /\ LoopFree /\ call[r].pc = "new"
  /\ call' = [call EXCEPT ![r].pc = "shed"] /\ sheds' = sheds + 1
  /\ UNCHANGED <<clock, counters, routes, previous, sampler, fresh, begun>>

\* It places the request; generate() may fail at once.
StartCall(r) ==
  /\ LoopFree /\ call[r].pc = "new"
  /\ \E k \in Route, fails \in BOOLEAN :
       LET started == request_started(counters) IN
       IF fails THEN
         /\ call' = [call EXCEPT ![r] = [@ EXCEPT !.pc = "ended", !.route = k, !.at = clock,
                                                  !.outcome = "error", !.counted = TRUE]]
         /\ routes' = [routes EXCEPT ![k] = Record(@, "error", 0)]
         /\ counters' = request_finished(started, 0, TRUE)
       ELSE
         /\ call' = [call EXCEPT ![r] = [@ EXCEPT !.pc = "running", !.route = k, !.at = clock]]
         /\ counters' = started /\ UNCHANGED routes
  /\ UNCHANGED <<clock, sheds, previous, sampler, fresh, begun>>

\* finish_generation: the route outcome, the usage row, the counters.  The row may fail
\* to be written, and the counters are then not reached.
FinishCall(r) ==
  /\ LoopFree /\ call[r].pc = "running"
  /\ \E e \in Ends, written \in BOOLEAN :
       LET outcome == e.outcome  tokens == e.tokens IN
       /\ call' = [call EXCEPT ![r] = [@ EXCEPT !.pc = "ended", !.outcome = outcome, !.tokens = tokens,
                                                !.counted = written]]
       /\ routes' = [routes EXCEPT ![call[r].route] = Record(@, outcome, tokens)]
       /\ counters' = IF written THEN request_finished(counters, tokens, outcome = "error") ELSE counters
       /\ fresh' = fresh + (IF written THEN tokens ELSE 0)
  /\ UNCHANGED <<clock, sheds, previous, sampler, begun>>
-----------------------------------------------------------------------------
(* build_snapshot                                                          *)

Step(s, from, r) ==
  sampler[s].pc = from /\ sampler' = [sampler EXCEPT ![s] = r]

\* The time is read first.
Begin(s) ==
  /\ begun < MaxSamples /\ begun' = begun + 1
  /\ sampler[s].pc = "idle" /\ (s \in OnLoop => LoopFree)
  /\ LET busy == {t \in Sampler \ {s} : sampler[t].pc # "idle"} IN
     sampler' = [t \in Sampler |->
       IF t = s THEN [NewSample EXCEPT !.pc = "now", !.now = clock, !.alone = busy = {} /\ previous.clean]
       ELSE IF t \in busy THEN [sampler[t] EXCEPT !.alone = FALSE] ELSE sampler[t]]
  /\ UNCHANGED <<clock, books, previous>>

Since(now) == {r \in Served : call[r].pc \in {"running", "ended"} /\ call[r].at + Minute >= now}

\* Counters.snapshot, under its lock
TakeCounts(s) ==
  LET starts == Trim(counters.starts, sampler[s].now) IN
  /\ Step(s, "now", [sampler[s] EXCEPT !.pc = "counted", !.total = counters.completion, !.per_min = Len(starts),
       !.least = Cardinality(Since(clock)), !.most = Cardinality(Since(sampler[s].now)), !.fresh = fresh])
  /\ counters' = [counters EXCEPT !.starts = starts] /\ fresh' = 0
  /\ UNCHANGED <<clock, call, routes, sheds, previous, begun>>

\* _throughput_tok_per_s: two reads, two writes, then the rate.
ReadTotal(s) ==
  /\ Step(s, "counted", [sampler[s] EXCEPT !.pc = "total", !.per_min = 0, !.least = 0, !.most = 0,
                           !.prev_total = previous.total, !.first = previous.first])
  /\ UNCHANGED <<clock, books, previous, begun>>

ReadTime(s) ==
  /\ Step(s, "total", [sampler[s] EXCEPT !.pc = "read", !.prev_ts = previous.ts])
  /\ UNCHANGED <<clock, books, previous, begun>>

\* Fault: the total is left as it was when nothing was produced in a positive time.
WriteTotalLate(s) ==
  /\ Step(s, "read", [sampler[s] EXCEPT !.pc = "write"])
  /\ previous' = [previous EXCEPT !.total = IF sampler[s].now > sampler[s].prev_ts THEN sampler[s].total ELSE @]
  /\ UNCHANGED <<clock, books, begun>>

WriteTotal(s) ==
  /\ Step(s, "read", [sampler[s] EXCEPT !.pc = "write"])
  /\ previous' = [previous EXCEPT !.total = sampler[s].total]
  /\ UNCHANGED <<clock, books, begun>>

WriteTime(s) ==
  LET m == sampler[s] IN
  /\ Step(s, "write", [NewSample EXCEPT !.alone = m.alone, !.fresh = m.fresh,
                         !.known = ~m.first /\ m.now > m.prev_ts,
                         !.produced = IF m.total > m.prev_total THEN m.total - m.prev_total ELSE 0])
  /\ previous' = [previous EXCEPT !.ts = m.now, !.first = FALSE,
                    !.clean = m.alone \/ (previous.first /\ \A t \in Sampler \ {s} : sampler[t].pc = "idle")]
  /\ UNCHANGED <<clock, books, begun>>
-----------------------------------------------------------------------------
TimePasses == clock < LastTick /\ clock' = clock + 1 /\ UNCHANGED <<books, previous, sampler, begun>>

TelemetryInit ==
  /\ clock = 0 /\ call = [r \in Served |-> NewCall] /\ sheds = 0 /\ fresh = 0 /\ begun = 0
  /\ counters = [total |-> 0, active |-> 0, errors |-> 0, completion |-> 0, starts |-> <<>>]
  /\ routes = [k \in Route |-> NoStat]
  /\ previous = [total |-> 0, ts |-> 0, first |-> TRUE, clean |-> FALSE]
  /\ sampler = [s \in Sampler |-> NewSample]

TelemetryNext ==
  \/ TimePasses
  \/ \E r \in Served : Shed(r) \/ StartCall(r) \/ FinishCall(r)
  \/ \E s \in Sampler : Begin(s) \/ TakeCounts(s) \/ ReadTotal(s) \/ ReadTime(s) \/ WriteTotal(s) \/ WriteTime(s)
-----------------------------------------------------------------------------
EndedOn(k) == {r \in Served : call[r].pc = "ended" /\ call[r].route = k}
Tokens(S) == Cardinality({r \in S : call[r].tokens = 1})

\* The two books tell one history: every route has the outcomes, tokens and latency
\* samples of its requests, and the counters the same sums but for the requests whose
\* usage row could not be written, which they go on counting as active.
BooksAgree ==
  LET started == {r \in Served : call[r].pc \in {"running", "ended"}}
      counted == {r \in started : call[r].counted} IN
  /\ \A k \in Route :
       /\ routes[k].requests = Cardinality(EndedOn(k)) /\ routes[k].tokens = Tokens(EndedOn(k))
       /\ routes[k].requests = routes[k].errors + routes[k].cancelled + routes[k].total_n
       /\ routes[k].tps_n = Tokens({r \in EndedOn(k) : call[r].outcome = "ok"})
  /\ counters.total = Cardinality(started)
  /\ counters.active = Cardinality(started \ counted)
  /\ counters.completion = Tokens(counted)
  /\ counters.errors = Cardinality({r \in counted : call[r].outcome = "error"})

\* requests_per_min is the starts of the minute before some moment between the reading
\* of the time and the counting, whatever other snapshots trimmed in between.
RequestsPerMinute ==
  \A s \in Sampler : sampler[s].per_min \in sampler[s].least..sampler[s].most

\* The throughput is the tokens counted since the sample before; it is off only when the
\* snapshot overlapped another one in a thread, or follows one that did.
RateIsMeasured ==
  \A s \in Sampler : sampler[s].alone /\ sampler[s].pc = "idle" /\ sampler[s].known =>
    sampler[s].produced = sampler[s].fresh

\* The metrics are true: the two books agree with the requests that were served, and a
\* snapshot reports what happened since the one before, also beside another snapshot.
MetricsAreTrue == BooksAgree /\ RequestsPerMinute /\ RateIsMeasured
=============================================================================
