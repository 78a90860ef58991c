--------------------------------- MODULE Bench ---------------------------------
(***************************************************************************)
(* A benchmark run (bench/driver.py, bench/metrics.py, bench/main.py): the *)
(* warm-up, a snapshot of the engine's route totals, the main and the      *)
(* saturation phase, a pause, and the snapshot after.  The engine under    *)
(* test is external: it answers, and records a request at some moment      *)
(* after it has sent the last frame or has seen the client go.  The run    *)
(* has the operator's key and the target to itself, without which there    *)
(* are no snapshots.                                                       *)
(***************************************************************************)
EXTENDS Naturals, FiniteSets

CONSTANTS
  Warm, Main, Burst,   \* the requests of the three phases
  Concurrency, BurstConcurrency   \* the semaphores of the phases

ASSUME BenchAssumption ==
  /\ IsFiniteSet(Warm) /\ IsFiniteSet(Main) /\ IsFiniteSet(Burst)
  /\ Warm \cap (Main \cup Burst) = {} /\ Main \cap Burst = {}

VARIABLES
  phase,     \* "warmup", "before", "main", "burst", "settle", "done"
  sent,      \* the driver's side of each request, and its sample
  engine,    \* the engine's side: "none", "working", "answered", "recorded"
  totals,    \* the route totals of the engine: requests recorded
  snapshots, \* the totals in the two snapshots
  noted      \* the requests recorded between the two snapshots

bench == <<phase, sent, engine, totals, snapshots, noted>>

Specs == Warm \cup Main \cup Burst
PhaseOf(r) == IF r \in Warm THEN "warmup" ELSE IF r \in Main THEN "main" ELSE "burst"
Queued == [pc |-> "queued", first |-> FALSE, outcome |-> "ok", failure |-> "none", shed |-> FALSE]
InFlight == {r \in Specs : sent[r].pc = "open"}
Sees(r, s) == sent' = [sent EXCEPT ![r] = s] /\ UNCHANGED <<phase, totals, snapshots, noted>>
SampleEnds(r, outcome, failure, shed) ==
  Sees(r, [sent[r] EXCEPT !.pc = "over", !.outcome = outcome, !.failure = failure, !.shed = shed])
-----------------------------------------------------------------------------
(* One request                                                             *)

\* Its task gets through the semaphore and posts; the engine takes the request, sheds it
\* with 429, refuses it otherwise, or fails to start it.
Post(r) ==
  /\ sent[r].pc = "queued" /\ phase = PhaseOf(r)
  /\ Cardinality(InFlight) < IF phase = "burst" THEN BurstConcurrency ELSE Concurrency
  /\ \/ Sees(r, [sent[r] EXCEPT !.pc = "open"]) /\ engine' = [engine EXCEPT ![r] = "working"]
     \/ SampleEnds(r, "error", "none", TRUE) /\ UNCHANGED engine
     \/ SampleEnds(r, "error", "pre_stream", FALSE)
        /\ \E e \in {"none", "answered"} : engine' = [engine EXCEPT ![r] = e]

\* A first frame with content
Content(r) ==
  /\ sent[r].pc = "open" /\ engine[r] # "none" /\ ~sent[r].first
  /\ Sees(r, [sent[r] EXCEPT !.first = TRUE]) /\ UNCHANGED engine

FailurePhase(r) == IF sent[r].first THEN "post_stream" ELSE "pre_stream"

\* [DONE], an error frame, or a broken connection
AnswerEnds(r) ==
  /\ sent[r].pc = "open" /\ UNCHANGED engine
  /\ \/ engine[r] \in {"answered", "recorded"} /\ SampleEnds(r, "ok", "none", FALSE)
     \/ engine[r] \in {"answered", "recorded"} /\ SampleEnds(r, "error", FailurePhase(r), FALSE)
     \/ SampleEnds(r, "error", FailurePhase(r), FALSE)

\* cancel_after_chunks: the driver closes the stream.
CancelAnswer(r) ==
  sent[r].pc = "open" /\ sent[r].first /\ SampleEnds(r, "cancelled", "none", FALSE) /\ UNCHANGED engine

EngineAnswers(r) ==
  /\ engine[r] = "working" /\ engine' = [engine EXCEPT ![r] = "answered"]
  /\ UNCHANGED <<phase, sent, totals, snapshots, noted>>

EngineRecords(r) ==
  /\ engine[r] = "answered" \/ (engine[r] = "working" /\ sent[r].pc = "over")
  /\ engine' = [engine EXCEPT ![r] = "recorded"] /\ totals' = totals + 1
  /\ noted' = IF phase \in {"main", "burst", "settle"} THEN noted \cup {r} ELSE noted
  /\ UNCHANGED <<phase, sent, snapshots>>
-----------------------------------------------------------------------------
(* run_workload                                                            *)

Over(S) == \A r \in S : sent[r].pc = "over"

Enter(from, S, to) ==
  phase = from /\ Over(S) /\ phase' = to /\ UNCHANGED <<sent, engine, totals, noted>>

WarmedUp == Enter("warmup", Warm, "before") /\ UNCHANGED snapshots

\* Fault: the totals are taken before the warm-up is awaited.
BeforeZero == Enter("before", {}, "main") /\ snapshots' = [snapshots EXCEPT !.before = 0]

\* GET /admin/routes
Before == Enter("before", {}, "main") /\ snapshots' = [snapshots EXCEPT !.before = totals]

MainEnds == Enter("main", Main, "burst") /\ UNCHANGED snapshots
BurstEnds == Enter("burst", Burst, "settle") /\ UNCHANGED snapshots

\* The pause is a fixed time: the engine may or may not have recorded everything.
After == Enter("settle", {}, "done") /\ snapshots' = [snapshots EXCEPT !.after = totals]

BenchInit ==
  /\ phase = "warmup" /\ sent = [r \in Specs |-> Queued] /\ engine = [r \in Specs |-> "none"]
  /\ totals = 0 /\ snapshots = [before |-> 0, after |-> 0] /\ noted = {}

BenchNext ==
  \/ WarmedUp \/ Before \/ MainEnds \/ BurstEnds \/ After
  \/ \E r \in Specs :
       Post(r) \/ Content(r) \/ AnswerEnds(r) \/ CancelAnswer(r) \/ EngineAnswers(r) \/ EngineRecords(r)
-----------------------------------------------------------------------------
(* aggregate, over the samples of the measured phases                      *)

Samples == Main \cup Burst
Counted(P(_)) == Cardinality({r \in Samples : P(sent[r])})

\* _slice_metrics
attempted == Cardinality(Samples)
shed == Counted(LAMBDA s : s.shed)
errors == Counted(LAMBDA s : s.outcome = "error" /\ ~s.shed)
cancelled == Counted(LAMBDA s : s.outcome = "cancelled" /\ ~s.shed)
pre_stream_failures == Counted(LAMBDA s : s.failure = "pre_stream" /\ ~s.shed)
post_stream_failures == Counted(LAMBDA s : s.failure = "post_stream" /\ ~s.shed)
-----------------------------------------------------------------------------
\* The samples of a report are final and partition its requests: whoever was not shed
\* succeeded, failed or was cancelled, and a failure came before the first content or
\* after it.
SamplesAddUp ==
  phase = "done" =>
    /\ Over(Samples)
    /\ attempted = shed + errors + cancelled + Counted(LAMBDA s : s.outcome = "ok")
    /\ errors = pre_stream_failures + post_stream_failures
    /\ post_stream_failures + cancelled <= Counted(LAMBDA s : s.first)
    /\ \A r \in Samples : sent[r].failure = "pre_stream" => ~sent[r].first

\* The route delta of a report, from which output-TPS and cost are derived, counts the
\* measured requests the engine took.  It is off by the warm-up requests the engine
\* recorded only after the first snapshot, for which the driver does not wait, and by the
\* measured ones it had not recorded after the pause.
DeltaIsMeasured ==
  phase = "done" =>
    LET taken == {r \in Samples : engine[r] # "none"} IN
    snapshots.after + Cardinality(taken \ noted) = snapshots.before + Cardinality(taken) + Cardinality(Warm \cap noted)

\* The report of a run adds up: its samples partition its requests, and its route delta
\* counts them, up to what the engine recorded too late.
ReportIsMeasured == SamplesAddUp /\ DeltaIsMeasured
=============================================================================
