------------------------------- MODULE Lifecycle -------------------------------
(***************************************************************************)
(* The life of an engine process (main.py: lifespan, _serve) and the locks *)
(* on its store (store/ownership.py).  Several engines may be configured   *)
(* on the same database, the same model directory, or both.                *)
(*                                                                         *)
(* The operating system is external: a lock is dropped with its process,   *)
(* however that ends.  The web server finishes its own requests before it  *)
(* begins the shutdown.  What a component's stop waits for is taken from   *)
(* its own module: the webhook loop (Webhooks), the gRPC edge (GrpcEdge),  *)
(* the download workers (Downloads).                                       *)
(***************************************************************************)
EXTENDS Naturals, FiniteSets, Sequences

CONSTANTS
  Process,
  Configured \* the ways the processes may be configured: where each keeps its files

VARIABLES
  place,    \* where each process keeps its database and its models
  proc      \* the state of each process

lifecycle == <<place, proc>>

\* stage: where lifespan is; at, step: how far the start and the teardown are.
\* webhook, grpc, handlers, download: the writers it has started.
\* errors: a step failed; cut: the teardown was cancelled from inside;
\* caller: whoever awaits the shutdown cancelled it.
Off == [stage |-> "off", held |-> {}, at |-> "", step |-> 0, webhook |-> "none", grpc |-> "disabled",
        handlers |-> FALSE, download |-> FALSE, persist |-> FALSE, cleanup |-> FALSE,
        completed |-> FALSE, errors |-> FALSE, cut |-> FALSE, caller |-> FALSE,
        outcome |-> "none"]

Files == {"db", "models"}
Update(p, r) == proc' = [proc EXCEPT ![p] = r] /\ UNCHANGED place
-----------------------------------------------------------------------------
(* Ownership                                                               *)

\* Fault: only the database is looked at.
LockFreeDatabase(p, f) ==
  f = "db" => \A q \in Process \ {p} : f \in proc[q].held => place[q][f] # place[p][f]

LockFree(p, f) == \A q \in Process \ {p} : f \in proc[q].held => place[q][f] # place[p][f]

AcquireDatabase(p) ==
  /\ proc[p].stage = "off" /\ LockFree(p, "db")
  /\ Update(p, [Off EXCEPT !.stage = "locking", !.held = {"db"}])

AfterContention(p) == Off

\* The model directory second; all or nothing.
AcquireModels(p) ==
  /\ proc[p].stage = "locking"
  /\ IF LockFree(p, "models")
       THEN Update(p, [proc[p] EXCEPT !.stage = "starting", !.at = "migrate",
                                      !.held = Files, !.persist = TRUE])
       ELSE Update(p, AfterContention(p))
-----------------------------------------------------------------------------
(* Startup and service                                                     *)

\* Migrations, reconciliation and the default plan write the store; then the backend
\* and the remote workers load; then the background tasks and the gRPC edge start.
StartStep(p) ==
  LET r == proc[p] IN
  /\ r.stage = "starting"
  /\ \/ r.at = "migrate" /\ Update(p, [r EXCEPT !.at = "load"])
     \/ r.at = "load" /\ \E w \in {"none", "idle"} : Update(p, [r EXCEPT !.at = "tasks", !.webhook = w])
     \/ r.at = "tasks" /\ Update(p, [r EXCEPT !.at = "grpc", !.grpc = "owned"])
     \/ r.at \in {"tasks", "grpc"} /\ Update(p, [r EXCEPT !.stage = "serving", !.at = ""])

TeardownSteps == <<"grpc", "drain", "health", "webhooks", "remotes", "telemetry", "models", "backend">>

\* A failing or cancelled start: before the tasks nothing is torn down, only the model
\* service is drained; from there on the whole teardown runs.
StartFails(p) ==
  LET r == proc[p] IN
  /\ r.stage = "starting"
  /\ Update(p, IF r.at \in {"migrate", "load"} THEN [r EXCEPT !.stage = "drain", !.at = "", !.errors = TRUE]
               ELSE [r EXCEPT !.stage = "teardown", !.at = "", !.step = 1, !.cleanup = TRUE, !.errors = TRUE])

Serving(p) == proc[p].stage = "serving"

DownloadBegins(p) ==
  Serving(p) /\ ~proc[p].download /\ Update(p, [proc[p] EXCEPT !.download = TRUE])

DownloadEnds(p) == proc[p].download /\ Update(p, [proc[p] EXCEPT !.download = FALSE])

\* A call of the gRPC edge, up to its usage row.
CallBegins(p) ==
  /\ proc[p].grpc = "owned" /\ ~proc[p].handlers
  /\ Update(p, [proc[p] EXCEPT !.handlers = TRUE])

CallEnds(p) == proc[p].handlers /\ Update(p, [proc[p] EXCEPT !.handlers = FALSE])

BatchBegins(p) == proc[p].webhook = "idle" /\ Update(p, [proc[p] EXCEPT !.webhook = "busy"])

BatchEnds(p) ==
  /\ proc[p].webhook \in {"busy", "finishing"}
  /\ Update(p, [proc[p] EXCEPT !.webhook = IF @ = "busy" THEN "idle" ELSE "ended"])
-----------------------------------------------------------------------------
(* The teardown                                                            *)

Shutdown(p) ==
  Serving(p) /\ Update(p, [proc[p] EXCEPT !.stage = "teardown", !.step = 1, !.cleanup = TRUE])

Step(p) == TeardownSteps[proc[p].step]
Tearing(p) == proc[p].stage = "teardown"

Advance(r) ==
  IF r.step = Len(TeardownSteps) THEN [r EXCEPT !.stage = "drain", !.step = 0, !.completed = TRUE]
  ELSE [r EXCEPT !.step = @ + 1]

\* Fault: the webhook task is awaited but not cancelled.
StepBeginsGrpc(p) ==
  /\ Tearing(p) /\ Step(p) = "grpc" /\ proc[p].grpc = "owned"
  /\ Update(p, [proc[p] EXCEPT !.grpc = "stopping"])

\* What a step does at once, before it waits.
StepBegins(p) ==
  LET r == proc[p] IN
  /\ Tearing(p)
  /\ \/ Step(p) = "grpc" /\ r.grpc = "owned" /\ Update(p, [r EXCEPT !.grpc = "stopping"])
     \/ /\ Step(p) = "webhooks" /\ r.webhook \in {"idle", "busy"}
        /\ Update(p, [r EXCEPT !.webhook = IF @ = "busy" THEN "finishing" ELSE "ended"])

\* What it waits for.
StepDone(p) ==
  LET r == proc[p] IN
  CASE Step(p) = "grpc" -> r.grpc = "disabled" \/ (r.grpc = "stopping" /\ ~r.handlers)
    [] Step(p) = "webhooks" -> r.webhook \in {"none", "ended"}
    [] Step(p) = "models" -> ~r.download
    [] OTHER -> TRUE

StepEnds(p) ==
  LET r == proc[p] IN
  /\ Tearing(p) /\ StepDone(p)
  /\ Update(p, Advance(IF r.grpc = "stopping" /\ Step(p) = "grpc"
                         THEN [r EXCEPT !.grpc = "terminated"] ELSE r))

\* A failing step is noted, and the next one runs.
AfterFailure(r) == Advance([r EXCEPT !.errors = TRUE])

\* Stopping gRPC, the drain, telemetry or the backend raises.
StepFails(p) ==
  /\ Tearing(p) /\ Step(p) \in {"grpc", "drain", "telemetry", "backend"}
  /\ Step(p) = "grpc" => proc[p].grpc = "stopping"
  /\ Update(p, AfterFailure(proc[p]))

\* A step is cancelled from inside: the rest of the sequence is skipped.
CutShort(p) ==
  Tearing(p) /\ Update(p, [proc[p] EXCEPT !.stage = "drain", !.step = 0, !.cut = TRUE])

\* Fault: the cancellation of the caller reaches the teardown.
AfterCallerThrough(r) == [r EXCEPT !.caller = TRUE, !.stage = "drain", !.step = 0, !.completed = TRUE]

\* The caller's cancellation is held back by the shield.
AfterCaller(r) == [r EXCEPT !.caller = TRUE]

CallerCancels(p) ==
  /\ proc[p].stage \in {"teardown", "drain"} /\ ~proc[p].caller
  /\ Update(p, AfterCaller(proc[p]))
-----------------------------------------------------------------------------
(* The end of lifespan                                                     *)

\* _live_writers: what has not been proven to have stopped.
Live(r) ==
  (IF r.download THEN {"downloads"} ELSE {})
    \cup (IF r.webhook \in {"idle", "busy", "finishing"} THEN {"webhook"} ELSE {})
    \cup (IF r.grpc \in {"owned", "stopping"} THEN {"grpc"} ELSE {})
    \cup (IF r.cleanup /\ ~r.completed THEN {"cleanup"} ELSE {})

\* The caller's cancellation first, then a sequence cut short, then the first failure.
Outcome(r) ==
  IF r.caller THEN "cancelled" ELSE IF r.cut THEN "incomplete"
  ELSE IF r.errors THEN "failed" ELSE "ok"

\* _drain_owned_work, then both locks are released or kept.
Finish(p) ==
  LET r == [proc[p] EXCEPT !.outcome = Outcome(proc[p])] IN
  /\ r.stage = "drain" /\ ~r.download
  /\ Update(p, IF Live(r) = {} THEN [r EXCEPT !.stage = "unlocking", !.persist = FALSE, !.held = {"db"}]
               ELSE [r EXCEPT !.stage = "kept"])

ReleaseDatabase(p) ==
  /\ proc[p].stage = "unlocking"
  /\ Update(p, [proc[p] EXCEPT !.stage = "done", !.held = {}])

\* The process exits or dies; the next one starts afresh.
Exit(p) == proc[p].stage # "off" /\ Update(p, Off)
-----------------------------------------------------------------------------
LifecycleInit ==
  /\ place \in Configured /\ proc = [p \in Process |-> Off]

Working(p) == DownloadEnds(p) \/ CallEnds(p) \/ BatchEnds(p)
Closing(p) == StepBegins(p) \/ StepEnds(p) \/ Finish(p) \/ ReleaseDatabase(p)

LifecycleNext ==
  \E p \in Process :
    \/ AcquireDatabase(p) \/ AcquireModels(p) \/ StartStep(p) \/ StartFails(p)
    \/ DownloadBegins(p) \/ CallBegins(p) \/ BatchBegins(p) \/ Working(p)
    \/ Shutdown(p) \/ Closing(p) \/ StepFails(p) \/ CutShort(p)
    \/ CallerCancels(p) \/ Exit(p)
-----------------------------------------------------------------------------
Stages == {"off", "locking", "starting", "serving", "teardown", "drain", "unlocking", "done", "kept"}

\* What may write the store now: startup recovery, the webhook loop, a gRPC call that
\* has its usage to write, a download worker, the log collector.
Writes(p) ==
  LET r == proc[p] IN
  \/ r.stage = "starting" /\ r.at = "migrate"
  \/ r.webhook \in {"idle", "busy", "finishing"}
  \/ r.handlers \/ r.download \/ r.persist

\* "Ownership outlives every worker that can write the store" (main.py, lifespan):
\* whatever failed or was cancelled, a process with a writer holds both locks.
WritersHoldTheStore == \A p \in Process : Writes(p) => proc[p].held = Files

\* Two engines configured on a common database or model directory never have writers
\* at the same time, whatever either start or shutdown went through (ownership.acquire).
StoreHasOneWriter ==
  \A p, q \in Process :
    p # q /\ Writes(p) /\ Writes(q) => \A f \in Files : place[p][f] # place[q][f]

\* A start that fails, or an engine that ended, blocks nobody: "startup then fails with
\* nothing held".
NothingHeldOutside ==
  \A p \in Process : proc[p].stage \in {"off", "done"} => proc[p].held = {}

\* The locks are kept past the shutdown only when it was cut short or the stop of gRPC
\* did not return, and such a shutdown never ends as a clean one.
KeptForCause ==
  \A p \in Process :
    proc[p].stage = "kept" =>
      (proc[p].cut \/ proc[p].grpc = "stopping") /\ proc[p].outcome # "ok"

\* A teardown that reports every step run has stopped every writer it knows, though
\* steps failed and the caller was cancelled; only a gRPC stop that failed is open.
CleanupIsWhole ==
  \A p \in Process : LET r == proc[p] IN
    r.completed =>
      /\ r.webhook \in {"none", "ended"} /\ ~r.download
      /\ r.grpc \in {"disabled", "terminated"} \/ (r.grpc = "stopping" /\ r.errors)

\* A shutdown ends: no step waits for ever, neither for the batch being delivered nor
\* for the downloads and calls under way.
ShutdownEnds ==
  \A p \in Process : []<>(proc[p].stage \notin {"teardown", "drain", "unlocking"})

\* "ownership outlives every worker that can write the store": writers hold the locks, so
\* no two engines write one store, and an engine that has ended holds nothing.
StoreIsOwned == WritersHoldTheStore /\ StoreHasOneWriter /\ NothingHeldOutside

\* A shutdown in which steps fail, or which is cancelled, still stops every writer it
\* knows, and keeps the locks only for a cause that it reports.
ShutdownIsWhole == CleanupIsWhole /\ KeptForCause
=============================================================================
