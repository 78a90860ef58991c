--------------------------- MODULE LifecycleProofs ----------------------------
(***************************************************************************)
(* Four lifecycles, for any number of each.  Processes: who owns the       *)
(* store, however engines are configured and whatever fails in their       *)
(* starts and shutdowns.  Calls of the gRPC edge: each is finalized once,  *)
(* and a stop proves that all have ended.  HTTP exchanges: the record of   *)
(* one is what its client saw.  Releases: what the registry points to, for *)
(* any versions, findings and exceptions.                                  *)
(***************************************************************************)
EXTENDS Lifecycle, GrpcEdge, HttpEdge, Release, TLAPS

\* The limits, in seconds, of a leaf that names no prover.
USE SMTT(30), ZenonT(30)

-----------------------------------------------------------------------------
(* Processes and the store                                                 *)

LifecycleSpec == LifecycleInit /\ [][LifecycleNext]_lifecycle

ProcRecord ==
  [stage : Stages, held : SUBSET Files, at : {"", "migrate", "load", "tasks", "grpc"}, step : 0..8,
   webhook : {"none", "idle", "busy", "finishing", "ended"},
   grpc : {"disabled", "owned", "stopping", "terminated"},
   handlers : BOOLEAN, download : BOOLEAN, persist : BOOLEAN, cleanup : BOOLEAN,
   completed : BOOLEAN, errors : BOOLEAN, cut : BOOLEAN, caller : BOOLEAN,
   outcome : {"none", "ok", "cancelled", "incomplete", "failed"}]

WebhookEnded(r) == r.webhook \in {"none", "ended"}
GrpcSettled(r) == r.grpc \in {"disabled", "terminated"} \/ (r.grpc = "stopping" /\ r.errors)
Whole(r) == WebhookEnded(r) /\ ~r.download /\ GrpcSettled(r)
Quiet(r) ==
  WebhookEnded(r) /\ r.grpc \in {"disabled", "terminated"} /\ ~r.handlers /\ ~r.download /\ ~r.persist

\* How far the teardown is says which writers it has already stopped.
StoppedSoFar(r) ==
  /\ r.step > 1 => GrpcSettled(r)
  /\ r.step > 4 => WebhookEnded(r)
  /\ r.step > 7 => ~r.download

\* A process at each stage of lifespan: what it holds, and what may still write.
ProcOK(r) ==
  /\ r.stage \in {"off", "done"} => r.held = {} /\ Quiet(r)
  /\ r.stage \in {"off", "locking"} => ~r.completed /\ ~r.cleanup
  /\ r.stage = "locking" => r.held = {"db"} /\ Quiet(r) /\ r.webhook = "none" /\ r.grpc = "disabled"
  /\ r.stage \in {"starting", "serving", "teardown", "drain", "kept"} => r.held = Files
  /\ r.stage = "unlocking" => r.held = {"db"} /\ Quiet(r)
  /\ r.handlers => r.grpc \in {"owned", "stopping"}
  /\ r.stage = "starting" =>
       /\ ~r.completed /\ ~r.cleanup /\ r.at # ""
       /\ r.at \in {"migrate", "load"} => r.webhook = "none" /\ r.grpc = "disabled"
  /\ r.stage \in {"serving", "teardown"} => ~r.completed
  /\ r.stage = "teardown" => r.step \in 1..8 /\ StoppedSoFar(r)
  /\ r.stage = "drain" =>
       r.completed \/ r.cut \/ (r.webhook = "none" /\ r.grpc = "disabled" /\ ~r.cleanup)
  /\ r.completed => Whole(r)
  /\ r.stage = "kept" => (r.cut \/ r.grpc = "stopping") /\ r.outcome # "ok"

\* No two processes hold a lock on the same file.
Exclusive ==
  \A p, q \in Process, f \in Files :
    p # q /\ f \in proc[p].held /\ f \in proc[q].held => place[p][f] # place[q][f]

LifecycleInv ==
  /\ proc \in [Process -> ProcRecord] /\ \A p \in Process : ProcOK(proc[p])
  /\ Exclusive

(* A process that is not running holds no lock, and its record stays well formed when it
   takes the first one. *)
LEMMA OffFacts ==
  /\ Off \in ProcRecord /\ ProcOK(Off) /\ Off.held = {}
  /\ [Off EXCEPT !.stage = "locking", !.held = {"db"}] \in ProcRecord
  /\ ProcOK([Off EXCEPT !.stage = "locking", !.held = {"db"}])
  /\ [Off EXCEPT !.stage = "locking", !.held = {"db"}].held = {"db"}
<1>1. Off \in ProcRecord
  BY DEF Off, ProcRecord, Stages, Files
<1>2. /\ Off.stage = "off" /\ Off.held = {} /\ Off.webhook = "none" /\ Off.grpc = "disabled"
      /\ ~Off.handlers /\ ~Off.download /\ ~Off.persist /\ ~Off.completed /\ ~Off.cleanup
  BY DEF Off
<1>3. ProcOK(Off)
  BY <1>2 DEF ProcOK, Quiet, WebhookEnded
<1> DEFINE o == [Off EXCEPT !.stage = "locking", !.held = {"db"}]
<1>4. o \in ProcRecord
  BY <1>1, Zenon DEF ProcRecord, Stages, Files
<1>5. /\ o.stage = "locking" /\ o.held = {"db"} /\ o.webhook = "none" /\ o.grpc = "disabled"
      /\ ~o.handlers /\ ~o.download /\ ~o.persist /\ ~o.completed /\ ~o.cleanup
  BY <1>1, <1>2, Zenon DEF ProcRecord
<1> HIDE DEF o
<1>6. ProcOK(o)
  BY <1>5 DEF ProcOK, Quiet, WebhookEnded
<1> QED BY <1>1, <1>2, <1>3, <1>4, <1>5, <1>6 DEF o

(* The places of the gRPC, webhook and model steps in the teardown order. *)
LEMMA StepNames ==
  /\ Len(TeardownSteps) = 8
  /\ TeardownSteps[1] = "grpc" /\ TeardownSteps[4] = "webhooks" /\ TeardownSteps[7] = "models"
  /\ \A n \in 1..8 :
       /\ TeardownSteps[n] = "grpc" => n = 1
       /\ TeardownSteps[n] = "webhooks" => n = 4
       /\ TeardownSteps[n] = "models" => n = 7
<1>1. \A n \in 1..8 : n \in {1, 2, 3, 4, 5, 6, 7, 8}
  OBVIOUS
<1> QED BY <1>1 DEF TeardownSteps

(* No process started: the inductive invariant of the lifecycle holds. *)
LEMMA LifecycleInitially == LifecycleInit => LifecycleInv
BY OffFacts DEF LifecycleInit, LifecycleInv, Exclusive

\* A step of one process that takes no lock it did not have, or one that is free.
LEMMA OneProcess ==
  ASSUME LifecycleInv, NEW p \in Process, NEW r \in ProcRecord, ProcOK(r), Update(p, r),
         \A f \in r.held : f \in proc[p].held \/ LockFree(p, f)
  PROVE  LifecycleInv'
<1>1. /\ proc \in [Process -> ProcRecord] /\ \A q \in Process : ProcOK(proc[q])
      /\ proc' = [proc EXCEPT ![p] = r] /\ place' = place
  BY DEF LifecycleInv, Update
<1>2. /\ proc' \in [Process -> ProcRecord]
      /\ \A q \in Process : proc'[q] = IF q = p THEN r ELSE proc[q]
  BY <1>1
<1>3. \A q \in Process : ProcOK(proc'[q])
  BY <1>1, <1>2
<1>4. ASSUME NEW q \in Process, NEW t \in Process, NEW f \in Files,
             q # t, f \in proc'[q].held, f \in proc'[t].held
      PROVE  place'[q][f] # place'[t][f]
  BY <1>1, <1>2, <1>4 DEF LifecycleInv, Exclusive, LockFree
<1> QED BY <1>2, <1>3, <1>4 DEF LifecycleInv, Exclusive

(* Taking the lock of the database or of the models directory keeps the invariant of the
   lifecycle. *)
LEMMA AcquireKeeps ==
  ASSUME LifecycleInv, NEW p \in Process, AcquireDatabase(p) \/ AcquireModels(p)
  PROVE  LifecycleInv'
<1> DEFINE r == proc[p]
<1>1. r \in ProcRecord /\ ProcOK(r)
  BY DEF LifecycleInv
<1>2. CASE AcquireDatabase(p)
  BY <1>2, OffFacts, OneProcess, Zenon DEF AcquireDatabase
<1>3. CASE AcquireModels(p) /\ ~LockFree(p, "models")
  BY <1>3, OffFacts, OneProcess DEF AcquireModels, AfterContention
<1>4. CASE AcquireModels(p) /\ LockFree(p, "models")
  <2> DEFINE n == [r EXCEPT !.stage = "starting", !.at = "migrate", !.held = Files, !.persist = TRUE]
  <2>1. n \in ProcRecord
    BY <1>1, Zenon DEF ProcRecord, Stages
  <2>2. /\ n.stage = "starting" /\ n.at = "migrate" /\ n.held = Files /\ (n.handlers <=> r.handlers)
        /\ n.webhook = r.webhook /\ n.grpc = r.grpc /\ (n.completed <=> r.completed) /\ (n.cleanup <=> r.cleanup)
    BY <1>1, Zenon DEF ProcRecord
  <2>3. r.stage = "locking" /\ Update(p, n)
    BY <1>4 DEF AcquireModels
  <2> HIDE DEF n
  <2>4. ProcOK(n)
    BY <1>1, <2>2, <2>3 DEF ProcOK, Quiet
  <2>5. \A f \in n.held : f \in r.held \/ LockFree(p, f)
    BY <1>1, <1>4, <2>2, <2>3 DEF ProcOK, Files
  <2> QED BY <2>1, <2>3, <2>4, <2>5, OneProcess
<1> QED BY <1>2, <1>3, <1>4

\* For a step that keeps what it holds it is enough to look at the new record.
LEMMA SameLocks ==
  ASSUME LifecycleInv, NEW p \in Process, NEW r \in ProcRecord, ProcOK(r), Update(p, r),
         r.held \subseteq proc[p].held
  PROVE  LifecycleInv'
BY OneProcess

(* A start step that succeeds keeps the invariant of the lifecycle. *)
LEMMA StartStepKeeps == ASSUME LifecycleInv, NEW p \in Process, StartStep(p) PROVE LifecycleInv'
<1> DEFINE r == proc[p]
<1>1. r \in ProcRecord /\ ProcOK(r) /\ r.stage = "starting"
  BY DEF LifecycleInv, StartStep
<1>2. CASE r.at = "migrate" /\ Update(p, [r EXCEPT !.at = "load"])
  <2>1. [r EXCEPT !.at = "load"] \in ProcRecord /\ ProcOK([r EXCEPT !.at = "load"])
        /\ [r EXCEPT !.at = "load"].held = r.held
    BY <1>1, <1>2, Zenon DEF ProcRecord, ProcOK, Whole, WebhookEnded, GrpcSettled
  <2> QED BY <1>2, <2>1, SameLocks, Zenon
<1>3. ASSUME r.at = "load", NEW w \in {"none", "idle"}, Update(p, [r EXCEPT !.at = "tasks", !.webhook = w])
      PROVE  LifecycleInv'
  <2> DEFINE n == [r EXCEPT !.at = "tasks", !.webhook = w]
  <2>1. n \in ProcRecord /\ ProcOK(n) /\ n.held = r.held
    BY <1>1, <1>3, Zenon DEF ProcRecord, ProcOK
  <2> QED BY <1>3, <2>1, SameLocks, Zenon
<1>4. CASE r.at = "tasks" /\ Update(p, [r EXCEPT !.at = "grpc", !.grpc = "owned"])
  <2> DEFINE n == [r EXCEPT !.at = "grpc", !.grpc = "owned"]
  <2>1. n \in ProcRecord /\ ProcOK(n) /\ n.held = r.held
    BY <1>1, <1>4, Zenon DEF ProcRecord, ProcOK
  <2> QED BY <1>4, <2>1, SameLocks, Zenon
<1>5. CASE Update(p, [r EXCEPT !.stage = "serving", !.at = ""])
  <2> DEFINE n == [r EXCEPT !.stage = "serving", !.at = ""]
  <2>1. n \in ProcRecord /\ ProcOK(n) /\ n.held = r.held
    BY <1>1, Zenon DEF ProcRecord, ProcOK, Stages
  <2> QED BY <1>5, <2>1, SameLocks, Zenon
<1> QED BY <1>2, <1>3, <1>4, <1>5 DEF StartStep

(* A start step that raises, and the unwinding it begins, keeps the invariant of the
   lifecycle. *)
LEMMA StartFailsKeeps == ASSUME LifecycleInv, NEW p \in Process, StartFails(p) PROVE LifecycleInv'
<1> DEFINE r == proc[p]
<1>1. r \in ProcRecord /\ ProcOK(r) /\ r.stage = "starting"
  BY DEF LifecycleInv, StartFails
<1>2. CASE r.at \in {"migrate", "load"}
  <2> DEFINE n == [r EXCEPT !.stage = "drain", !.at = "", !.errors = TRUE]
  <2>1. n \in ProcRecord /\ ProcOK(n) /\ n.held = r.held
    BY <1>1, <1>2, Zenon DEF ProcRecord, ProcOK, Stages
  <2> QED BY <1>2, <2>1, SameLocks, Zenon DEF StartFails
<1>3. CASE r.at \notin {"migrate", "load"}
  <2> DEFINE n == [r EXCEPT !.stage = "teardown", !.at = "", !.step = 1, !.cleanup = TRUE, !.errors = TRUE]
  <2>1. n \in ProcRecord
    <3>1. 1 \in 0..8 /\ "teardown" \in Stages
      BY DEF Stages
    <3> QED BY <1>1, <3>1, Zenon DEF ProcRecord
  <2>2. /\ n.stage = "teardown" /\ n.held = r.held /\ n.at = "" /\ n.step = 1
        /\ n.webhook = r.webhook /\ n.grpc = r.grpc /\ (n.handlers <=> r.handlers)
        /\ (n.download <=> r.download) /\ (n.persist <=> r.persist) /\ n.cleanup
        /\ (n.completed <=> r.completed) /\ n.errors /\ (n.cut <=> r.cut)
        /\ n.outcome = r.outcome
    BY <1>1, ZenonT(30) DEF ProcRecord
  <2> HIDE DEF n
  <2>3. ProcOK(n)
    <3>1. StoppedSoFar(n) /\ n.step \in 1..8
      <4>1. n.step = 1
        BY <2>2, Zenon
      <4>2. n.step \in 1..8 /\ ~(n.step > 1) /\ ~(n.step > 4) /\ ~(n.step > 7)
        BY <4>1
      <4> QED BY <4>2 DEF StoppedSoFar
    <3> QED BY <1>1, <1>3, <2>2, <3>1, Zenon DEF ProcOK
  <2> QED BY <1>3, <2>1, <2>2, <2>3, SameLocks, Zenon DEF StartFails, n
<1> QED BY <1>2, <1>3

(* The work of a running process, downloads, calls and webhook batches, keeps the invariant
   of the lifecycle. *)
LEMMA ServiceKeeps ==
  ASSUME LifecycleInv, NEW p \in Process,
         DownloadBegins(p) \/ DownloadEnds(p) \/ CallBegins(p) \/ CallEnds(p) \/ BatchBegins(p) \/ BatchEnds(p)
  PROVE  LifecycleInv'
<1> DEFINE r == proc[p]
<1>1. r \in ProcRecord /\ ProcOK(r)
  BY DEF LifecycleInv
<1>2. CASE DownloadBegins(p)
  <2> DEFINE n == [r EXCEPT !.download = TRUE]
  <2>1. n \in ProcRecord /\ ProcOK(n) /\ n.held = r.held
    BY <1>1, <1>2, Zenon DEF DownloadBegins, Serving, ProcRecord, ProcOK
  <2> QED BY <1>2, <2>1, SameLocks, Zenon DEF DownloadBegins
<1>3. CASE DownloadEnds(p)
  <2> DEFINE n == [r EXCEPT !.download = FALSE]
  <2>1. n \in ProcRecord
    BY <1>1, Zenon DEF ProcRecord, Stages
  <2>2. /\ n.stage = r.stage /\ n.held = r.held /\ n.at = r.at /\ n.step = r.step
        /\ n.webhook = r.webhook /\ n.grpc = r.grpc /\ (n.handlers <=> r.handlers)
        /\ ~n.download /\ (n.persist <=> r.persist) /\ (n.cleanup <=> r.cleanup)
        /\ (n.completed <=> r.completed) /\ (n.errors <=> r.errors) /\ (n.cut <=> r.cut)
        /\ n.outcome = r.outcome
    BY <1>1, Zenon DEF ProcRecord
  <2> HIDE DEF n
  <2>3. ProcOK(n)
    BY <1>1, <1>3, <2>2, Zenon DEF ProcOK, Quiet, Whole, WebhookEnded, GrpcSettled, StoppedSoFar, DownloadEnds
  <2> QED BY <1>3, <2>1, <2>2, <2>3, SameLocks, Zenon DEF DownloadEnds, n
<1>4. CASE CallBegins(p)
  <2> DEFINE n == [r EXCEPT !.handlers = TRUE]
  <2>1. n \in ProcRecord
    BY <1>1, Zenon DEF ProcRecord, Stages
  <2>2. /\ n.stage = r.stage /\ n.held = r.held /\ n.at = r.at /\ n.step = r.step
        /\ n.webhook = r.webhook /\ n.grpc = r.grpc /\ n.handlers
        /\ (n.download <=> r.download) /\ (n.persist <=> r.persist) /\ (n.cleanup <=> r.cleanup)
        /\ (n.completed <=> r.completed) /\ (n.errors <=> r.errors) /\ (n.cut <=> r.cut)
        /\ n.outcome = r.outcome
    BY <1>1, Zenon DEF ProcRecord
  <2> HIDE DEF n
  <2>3. ProcOK(n)
    BY <1>1, <1>4, <2>2, Zenon DEF ProcOK, Quiet, Whole, WebhookEnded, GrpcSettled, StoppedSoFar, CallBegins
  <2> QED BY <1>4, <2>1, <2>2, <2>3, SameLocks, Zenon DEF CallBegins, n
<1>5. CASE CallEnds(p)
  <2> DEFINE n == [r EXCEPT !.handlers = FALSE]
  <2>1. n \in ProcRecord
    BY <1>1, Zenon DEF ProcRecord, Stages
  <2>2. /\ n.stage = r.stage /\ n.held = r.held /\ n.at = r.at /\ n.step = r.step
        /\ n.webhook = r.webhook /\ n.grpc = r.grpc /\ ~n.handlers
        /\ (n.download <=> r.download) /\ (n.persist <=> r.persist) /\ (n.cleanup <=> r.cleanup)
        /\ (n.completed <=> r.completed) /\ (n.errors <=> r.errors) /\ (n.cut <=> r.cut)
        /\ n.outcome = r.outcome
    BY <1>1, Zenon DEF ProcRecord
  <2> HIDE DEF n
  <2>3. ProcOK(n)
    BY <1>1, <1>5, <2>2, Zenon DEF ProcOK, Quiet, Whole, WebhookEnded, GrpcSettled, StoppedSoFar, CallEnds
  <2> QED BY <1>5, <2>1, <2>2, <2>3, SameLocks, Zenon DEF CallEnds, n
<1>6. CASE BatchBegins(p)
  <2> DEFINE n == [r EXCEPT !.webhook = "busy"]
  <2>1. n \in ProcRecord
    BY <1>1, Zenon DEF ProcRecord, Stages
  <2>2. /\ n.stage = r.stage /\ n.held = r.held /\ n.at = r.at /\ n.step = r.step
        /\ n.webhook = "busy" /\ n.grpc = r.grpc /\ (n.handlers <=> r.handlers)
        /\ (n.download <=> r.download) /\ (n.persist <=> r.persist) /\ (n.cleanup <=> r.cleanup)
        /\ (n.completed <=> r.completed) /\ (n.errors <=> r.errors) /\ (n.cut <=> r.cut)
        /\ n.outcome = r.outcome
    BY <1>1, ZenonT(30) DEF ProcRecord
  <2> HIDE DEF n
  <2>3. ProcOK(n)
    BY <1>1, <1>6, <2>2, Zenon DEF ProcOK, Quiet, Whole, WebhookEnded, GrpcSettled, StoppedSoFar, BatchBegins
  <2> QED BY <1>6, <2>1, <2>2, <2>3, SameLocks, Zenon DEF BatchBegins, n
<1>7. CASE BatchEnds(p)
  <2> DEFINE w == IF r.webhook = "busy" THEN "idle" ELSE "ended"
             n == [r EXCEPT !.webhook = w]
  <2>1. n \in ProcRecord
    BY <1>1, Zenon DEF ProcRecord, Stages
  <2>2. /\ n.stage = r.stage /\ n.held = r.held /\ n.at = r.at /\ n.step = r.step
        /\ n.webhook = w /\ n.grpc = r.grpc /\ (n.handlers <=> r.handlers)
        /\ (n.download <=> r.download) /\ (n.persist <=> r.persist) /\ (n.cleanup <=> r.cleanup)
        /\ (n.completed <=> r.completed) /\ (n.errors <=> r.errors) /\ (n.cut <=> r.cut)
        /\ n.outcome = r.outcome
    BY <1>1, ZenonT(30) DEF ProcRecord
  <2> HIDE DEF n
  <2>3. ProcOK(n)
    BY <1>1, <1>7, <2>2, Zenon DEF ProcOK, Quiet, Whole, WebhookEnded, GrpcSettled, StoppedSoFar, BatchEnds
  <2> QED BY <1>7, <2>1, <2>2, <2>3, SameLocks, Zenon DEF BatchEnds, n
<1> QED BY <1>2, <1>3, <1>4, <1>5, <1>6, <1>7
-----------------------------------------------------------------------------
(* The teardown                                                            *)

(* The beginning of a shutdown keeps the invariant of the lifecycle. *)
LEMMA ShutdownKeeps == ASSUME LifecycleInv, NEW p \in Process, Shutdown(p) PROVE LifecycleInv'
<1> DEFINE r == proc[p]
<1>1. r \in ProcRecord /\ ProcOK(r) /\ r.stage = "serving"
  BY DEF LifecycleInv, Shutdown, Serving
<1>2. Update(p, [r EXCEPT !.stage = "teardown", !.step = 1, !.cleanup = TRUE])
  BY DEF Shutdown
<1>3. LifecycleInv'
  <2> DEFINE n == [r EXCEPT !.stage = "teardown", !.step = 1, !.cleanup = TRUE]
  <2>1. n \in ProcRecord
    <3>1. 1 \in 0..8 /\ "teardown" \in Stages
      BY DEF Stages
    <3> QED BY <1>1, <3>1, Zenon DEF ProcRecord
  <2>2. /\ n.stage = "teardown" /\ n.held = r.held /\ n.at = r.at /\ n.step = 1
        /\ n.webhook = r.webhook /\ n.grpc = r.grpc /\ (n.handlers <=> r.handlers)
        /\ (n.download <=> r.download) /\ (n.persist <=> r.persist) /\ n.cleanup
        /\ (n.completed <=> r.completed) /\ (n.errors <=> r.errors) /\ (n.cut <=> r.cut)
        /\ n.outcome = r.outcome
    BY <1>1, Zenon DEF ProcRecord
  <2> HIDE DEF n
  <2>3. StoppedSoFar(n) /\ n.step \in 1..8
    <3>1. n.step = 1
      BY <2>2
    <3>2. n.step \in 1..8 /\ ~(n.step > 1) /\ ~(n.step > 4) /\ ~(n.step > 7)
      BY <3>1
    <3> QED BY <3>2 DEF StoppedSoFar
  <2>4. ProcOK(n)
    BY <1>1, <2>2, <2>3 DEF ProcOK
  <2> QED BY <1>2, <2>1, <2>2, <2>4, SameLocks, Zenon DEF n
<1> QED BY <1>3

\* The next step, or the end: what the step stopped is counted as stopped.
LEMMA AdvanceFacts ==
  ASSUME NEW r \in ProcRecord, ProcOK(r), r.stage = "teardown", GrpcSettled(r),
         r.step >= 4 => WebhookEnded(r), r.step >= 7 => ~r.download
  PROVE  Advance(r) \in ProcRecord /\ ProcOK(Advance(r)) /\ Advance(r).held = r.held
<1>1. r \in ProcRecord /\ ProcOK(r) /\ r.step \in 1..8
  BY DEF ProcOK
<1>2. CASE r.step = 8
  <2> DEFINE n == [r EXCEPT !.stage = "drain", !.step = 0, !.completed = TRUE]
  <2>0. Advance(r) = n /\ "drain" \in Stages /\ 0 \in 0..8
    BY <1>2, StepNames DEF Advance, Stages
  <2>1. n \in ProcRecord
    BY <1>1, <2>0, Zenon DEF ProcRecord
  <2>2. /\ n.stage = "drain" /\ n.held = r.held /\ n.at = r.at /\ n.step = 0
        /\ n.webhook = r.webhook /\ n.grpc = r.grpc /\ (n.handlers <=> r.handlers)
        /\ (n.download <=> r.download) /\ (n.persist <=> r.persist) /\ (n.cleanup <=> r.cleanup)
        /\ n.completed /\ (n.errors <=> r.errors) /\ (n.cut <=> r.cut)
        /\ n.outcome = r.outcome
    BY <1>1, Zenon DEF ProcRecord
  <2> HIDE DEF n
  <2>3. WebhookEnded(r) /\ ~r.download
    BY <1>2
  <2>4. Whole(n)
    BY <2>2, <2>3 DEF Whole, WebhookEnded, GrpcSettled
  <2>5. ProcOK(n)
    BY <1>1, <2>2, <2>4 DEF ProcOK
  <2> QED BY <2>0, <2>1, <2>2, <2>5
<1>3. CASE r.step # 8
  <2> DEFINE n == [r EXCEPT !.step = r.step + 1]
  <2>0. Advance(r) = n /\ r.step + 1 \in 1..8
    BY <1>1, <1>3, StepNames DEF Advance
  <2>1. n \in ProcRecord
    <3> DEFINE k == r.step + 1
    <3>1. n = [r EXCEPT !.step = k] /\ k \in 0..8
      BY <2>0
    <3> HIDE DEF k
    <3> QED BY <1>1, <3>1, Zenon DEF ProcRecord
  <2>2. /\ n.stage = r.stage /\ n.held = r.held /\ n.at = r.at /\ n.step = r.step + 1
        /\ n.webhook = r.webhook /\ n.grpc = r.grpc /\ (n.handlers <=> r.handlers)
        /\ (n.download <=> r.download) /\ (n.persist <=> r.persist) /\ (n.cleanup <=> r.cleanup)
        /\ (n.completed <=> r.completed) /\ (n.errors <=> r.errors) /\ (n.cut <=> r.cut)
        /\ n.outcome = r.outcome
    BY <1>1, Zenon DEF ProcRecord
  <2> HIDE DEF n
  <2>3. (n.step > 4 => r.step >= 4) /\ (n.step > 7 => r.step >= 7) /\ n.step \in 1..8
    BY <1>1, <2>0, <2>2
  <2>4. StoppedSoFar(n)
    BY <2>2, <2>3 DEF StoppedSoFar, WebhookEnded, GrpcSettled
  <2>5. ProcOK(n)
    BY <1>1, <2>2, <2>3, <2>4 DEF ProcOK
  <2> QED BY <2>0, <2>1, <2>2, <2>5
<1> QED BY <1>2, <1>3

(* A teardown step that begins keeps the invariant of the lifecycle. *)
LEMMA StepBeginsKeeps == ASSUME LifecycleInv, NEW p \in Process, StepBegins(p) PROVE LifecycleInv'
<1> DEFINE r == proc[p]
<1>1. r \in ProcRecord /\ ProcOK(r) /\ r.stage = "teardown" /\ r.step \in 1..8
  BY Zenon DEF LifecycleInv, StepBegins, Tearing, ProcOK
<1>2. CASE Step(p) = "grpc" /\ r.grpc = "owned" /\ Update(p, [r EXCEPT !.grpc = "stopping"])
  <2> DEFINE n == [r EXCEPT !.grpc = "stopping"]
  <2>0. r.step = 1
    BY <1>1, <1>2, StepNames DEF Step
  <2>1. n \in ProcRecord
    BY <1>1, Zenon DEF ProcRecord, Stages
  <2>2. /\ n.stage = r.stage /\ n.held = r.held /\ n.at = r.at /\ n.step = r.step
        /\ n.webhook = r.webhook /\ n.grpc = "stopping" /\ (n.handlers <=> r.handlers)
        /\ (n.download <=> r.download) /\ (n.persist <=> r.persist) /\ (n.cleanup <=> r.cleanup)
        /\ (n.completed <=> r.completed) /\ (n.errors <=> r.errors) /\ (n.cut <=> r.cut)
        /\ n.outcome = r.outcome
    BY <1>1, ZenonT(30) DEF ProcRecord
  <2> HIDE DEF n
  <2>3. StoppedSoFar(n)
    <3>1. ~(n.step > 1) /\ ~(n.step > 4) /\ ~(n.step > 7)
      BY <2>0, <2>2
    <3> QED BY <3>1 DEF StoppedSoFar
  <2>4. ProcOK(n)
    BY <1>1, <2>2, <2>3 DEF ProcOK
  <2> QED BY <1>2, <2>1, <2>2, <2>4, SameLocks, Zenon DEF n
<1>3. ASSUME Step(p) = "webhooks", r.webhook \in {"idle", "busy"},
             NEW w \in {"finishing", "ended"}, Update(p, [r EXCEPT !.webhook = w])
      PROVE  LifecycleInv'
  <2> DEFINE n == [r EXCEPT !.webhook = w]
  <2>0. r.step = 4
    BY <1>1, <1>3, StepNames DEF Step
  <2>1. n \in ProcRecord
    BY <1>1, Zenon DEF ProcRecord, Stages
  <2>2. /\ n.stage = r.stage /\ n.held = r.held /\ n.at = r.at /\ n.step = r.step
        /\ n.webhook = w /\ n.grpc = r.grpc /\ (n.handlers <=> r.handlers)
        /\ (n.download <=> r.download) /\ (n.persist <=> r.persist) /\ (n.cleanup <=> r.cleanup)
        /\ (n.completed <=> r.completed) /\ (n.errors <=> r.errors) /\ (n.cut <=> r.cut)
        /\ n.outcome = r.outcome
    BY <1>1, ZenonT(30) DEF ProcRecord
  <2> HIDE DEF n
  <2>3. StoppedSoFar(n)
    <3>1. ~(n.step > 4) /\ ~(n.step > 7)
      BY <2>0, <2>2
    <3> QED BY <1>1, <2>2, <3>1 DEF StoppedSoFar, ProcOK, GrpcSettled
  <2>4. ProcOK(n)
    BY <1>1, <2>2, <2>3 DEF ProcOK
  <2> QED BY <1>3, <2>1, <2>2, <2>4, SameLocks, Zenon DEF n
<1> QED BY <1>2, <1>3 DEF StepBegins

(* A teardown step that ends keeps the invariant of the lifecycle. *)
LEMMA StepEndsKeeps == ASSUME LifecycleInv, NEW p \in Process, StepEnds(p) PROVE LifecycleInv'
<1> DEFINE r == proc[p]
<1>1. r \in ProcRecord /\ ProcOK(r) /\ r.stage = "teardown" /\ r.step \in 1..8 /\ StoppedSoFar(r)
  BY Zenon DEF LifecycleInv, StepEnds, Tearing, ProcOK
<1>2. StepDone(p)
  BY DEF StepEnds
<1>3. /\ r.step >= 4 => WebhookEnded(r)
      /\ r.step >= 7 => ~r.download
  <2>1. CASE r.step = 4
    BY <1>2, <2>1, StepNames DEF StepDone, Step, WebhookEnded
  <2>2. CASE r.step = 7
    <3>1. Step(p) = "models"
      BY <2>2, StepNames DEF Step
    <3>2. ~r.download
      BY <1>2, <3>1 DEF StepDone
    <3> QED BY <1>1, <2>2, <3>2 DEF StoppedSoFar
  <2>3. CASE r.step \notin {4, 7}
    BY <1>1, <2>3 DEF StoppedSoFar
  <2> QED BY <2>1, <2>2, <2>3
<1>4. CASE r.grpc = "stopping" /\ Step(p) = "grpc"
  <2> DEFINE n == [r EXCEPT !.grpc = "terminated"]
  <2>0. ~r.handlers /\ Update(p, Advance(n))
    BY <1>2, <1>4 DEF StepDone, StepEnds
  <2>1. n \in ProcRecord
    BY <1>1, Zenon DEF ProcRecord, Stages
  <2>2. /\ n.stage = r.stage /\ n.held = r.held /\ n.at = r.at /\ n.step = r.step
        /\ n.webhook = r.webhook /\ n.grpc = "terminated" /\ (n.handlers <=> r.handlers)
        /\ (n.download <=> r.download) /\ (n.persist <=> r.persist) /\ (n.cleanup <=> r.cleanup)
        /\ (n.completed <=> r.completed) /\ (n.errors <=> r.errors) /\ (n.cut <=> r.cut)
        /\ n.outcome = r.outcome
    BY <1>1, ZenonT(30) DEF ProcRecord
  <2> HIDE DEF n
  <2>3. ProcOK(n) /\ GrpcSettled(n)
    BY <1>1, <2>0, <2>2 DEF ProcOK, Quiet, Whole, WebhookEnded, GrpcSettled, StoppedSoFar
  <2>4. (n.step >= 4 => WebhookEnded(n)) /\ (n.step >= 7 => ~n.download)
    BY <1>3, <2>2 DEF WebhookEnded
  <2>5. Advance(n) \in ProcRecord /\ ProcOK(Advance(n)) /\ Advance(n).held = r.held
    BY <1>1, <2>1, <2>2, <2>3, <2>4, AdvanceFacts
  <2> QED BY <2>0, <2>5, SameLocks
<1>5. CASE ~(r.grpc = "stopping" /\ Step(p) = "grpc")
  <2>1. GrpcSettled(r)
    <3>1. CASE r.step = 1
      <4>1. Step(p) = "grpc"
        BY <3>1, StepNames DEF Step
      <4> QED BY <1>2, <1>5, <4>1 DEF StepDone, GrpcSettled
    <3>2. CASE r.step # 1
      BY <1>1, <3>2 DEF StoppedSoFar
    <3> QED BY <3>1, <3>2
  <2>2. Update(p, Advance(r))
    BY <1>5 DEF StepEnds
  <2> QED BY <1>1, <1>3, <2>1, <2>2, AdvanceFacts, SameLocks
<1> QED BY <1>4, <1>5

(* A teardown step that raises keeps the invariant of the lifecycle. *)
LEMMA StepFailsKeeps == ASSUME LifecycleInv, NEW p \in Process, StepFails(p) PROVE LifecycleInv'
<1> DEFINE r == proc[p]
<1>1. r \in ProcRecord /\ ProcOK(r) /\ r.stage = "teardown" /\ r.step \in 1..8 /\ StoppedSoFar(r)
  BY Zenon DEF LifecycleInv, StepFails, Tearing, ProcOK
<1>2. r.step \notin {4, 7} /\ (r.step = 1 => r.grpc = "stopping")
  BY <1>1, StepNames DEF StepFails, Step
<1>3. LifecycleInv'
  <2> DEFINE n == [r EXCEPT !.errors = TRUE]
  <2>0. Update(p, Advance(n))
    BY DEF StepFails, AfterFailure
  <2>1. n \in ProcRecord
    BY <1>1, Zenon DEF ProcRecord, Stages
  <2>2. /\ n.stage = r.stage /\ n.held = r.held /\ n.at = r.at /\ n.step = r.step
        /\ n.webhook = r.webhook /\ n.grpc = r.grpc /\ (n.handlers <=> r.handlers)
        /\ (n.download <=> r.download) /\ (n.persist <=> r.persist) /\ (n.cleanup <=> r.cleanup)
        /\ (n.completed <=> r.completed) /\ n.errors /\ (n.cut <=> r.cut)
        /\ n.outcome = r.outcome
    BY <1>1, Zenon DEF ProcRecord
  <2> HIDE DEF n
  <2>3. GrpcSettled(n)
    <3>1. r.grpc = "stopping" \/ GrpcSettled(r)
      BY <1>1, <1>2 DEF StoppedSoFar
    <3> QED BY <2>2, <3>1 DEF GrpcSettled
  <2>4. (n.step >= 4 => WebhookEnded(n)) /\ (n.step >= 7 => ~n.download)
    <3>1. (r.step >= 4 => WebhookEnded(r)) /\ (r.step >= 7 => ~r.download)
      BY <1>1, <1>2 DEF StoppedSoFar
    <3> QED BY <2>2, <3>1 DEF WebhookEnded
  <2>5. ProcOK(n)
    BY <1>1, <2>2, <2>3 DEF ProcOK, StoppedSoFar, WebhookEnded
  <2>6. Advance(n) \in ProcRecord /\ ProcOK(Advance(n)) /\ Advance(n).held = r.held
    BY <1>1, <2>1, <2>2, <2>3, <2>4, <2>5, AdvanceFacts
  <2> QED BY <2>0, <2>6, SameLocks
<1> QED BY <1>3

(* A teardown step cancelled from inside, which skips the rest of the sequence, keeps the invariant. *)
LEMMA CutShortKeeps == ASSUME LifecycleInv, NEW p \in Process, CutShort(p) PROVE LifecycleInv'
<1> DEFINE r == proc[p]
<1>1. r \in ProcRecord /\ ProcOK(r) /\ r.stage = "teardown"
  BY DEF LifecycleInv, CutShort, Tearing
<1>2. LifecycleInv'
  <2> DEFINE n == [r EXCEPT !.stage = "drain", !.step = 0, !.cut = TRUE]
  <2>1. n \in ProcRecord
    <3>1. 0 \in 0..8 /\ "drain" \in Stages
      BY DEF Stages
    <3> QED BY <1>1, <3>1, Zenon DEF ProcRecord
  <2>2. /\ n.stage = "drain" /\ n.held = r.held /\ n.at = r.at /\ n.step = 0
        /\ n.webhook = r.webhook /\ n.grpc = r.grpc /\ (n.handlers <=> r.handlers)
        /\ (n.download <=> r.download) /\ (n.persist <=> r.persist) /\ (n.cleanup <=> r.cleanup)
        /\ (n.completed <=> r.completed) /\ (n.errors <=> r.errors) /\ n.cut
        /\ n.outcome = r.outcome
    BY <1>1, Zenon DEF ProcRecord
  <2> HIDE DEF n
  <2>3. ProcOK(n)
    BY <1>1, <2>2 DEF ProcOK
  <2> QED BY <2>1, <2>2, <2>3, SameLocks, Zenon DEF CutShort, n
<1> QED BY <1>2

(* The cancellation of the caller, which the shield holds back, keeps the invariant of the lifecycle. *)
LEMMA CallerCancelsKeeps == ASSUME LifecycleInv, NEW p \in Process, CallerCancels(p) PROVE LifecycleInv'
<1> DEFINE r == proc[p]
<1>1. r \in ProcRecord /\ ProcOK(r)
  BY DEF LifecycleInv
<1>2. LifecycleInv'
  <2> DEFINE n == [r EXCEPT !.caller = TRUE]
  <2>1. n \in ProcRecord
    BY <1>1, Zenon DEF ProcRecord, Stages
  <2>2. /\ n.stage = r.stage /\ n.held = r.held /\ n.at = r.at /\ n.step = r.step
        /\ n.webhook = r.webhook /\ n.grpc = r.grpc /\ (n.handlers <=> r.handlers)
        /\ (n.download <=> r.download) /\ (n.persist <=> r.persist) /\ (n.cleanup <=> r.cleanup)
        /\ (n.completed <=> r.completed) /\ (n.errors <=> r.errors) /\ (n.cut <=> r.cut)
        /\ n.outcome = r.outcome
    BY <1>1, Zenon DEF ProcRecord
  <2> HIDE DEF n
  <2>3. ProcOK(n)
    BY <1>1, <2>2, ZenonT(30) DEF ProcOK, Quiet, Whole, WebhookEnded, GrpcSettled, StoppedSoFar
  <2> QED BY <2>1, <2>2, <2>3, SameLocks, Zenon DEF CallerCancels, AfterCaller, n
<1> QED BY <1>2
-----------------------------------------------------------------------------
(* The end                                                                 *)

\* What is kept is kept because the sequence was cut short or gRPC's stop did not return.
LEMMA KeptHasCause ==
  ASSUME NEW r \in ProcRecord, ProcOK(r), r.stage = "drain", ~r.download, Live(r) # {}
  PROVE  (r.cut \/ r.grpc = "stopping") /\ Outcome(r) \in {"cancelled", "incomplete", "failed"}
<1>1. ~WebhookEnded(r) \/ r.grpc \in {"owned", "stopping"} \/ (r.cleanup /\ ~r.completed)
  BY Zenon DEF Live, WebhookEnded, ProcRecord
<1>2. r.cut \/ (r.grpc = "stopping" /\ r.errors)
  <2>1. CASE r.completed
    BY <1>1, <2>1 DEF ProcOK, Whole, GrpcSettled, WebhookEnded
  <2>2. CASE ~r.completed
    BY <1>1, <2>2 DEF ProcOK, WebhookEnded
  <2> QED BY <2>1, <2>2
<1> QED BY <1>2 DEF Outcome

\* Noting the outcome changes nothing else.
LEMMA OutcomeFacts ==
  ASSUME NEW r \in ProcRecord, ProcOK(r), r.stage = "drain"
  PROVE  LET n == [r EXCEPT !.outcome = Outcome(r)] IN
         /\ n \in ProcRecord /\ ProcOK(n) /\ Live(n) = Live(r) /\ n.outcome = Outcome(r)
         /\ n.stage = "drain" /\ n.held = r.held /\ (n.download <=> r.download)
         /\ (n.cut <=> r.cut) /\ n.grpc = r.grpc
<1>1. r \in ProcRecord /\ Outcome(r) \in {"none", "ok", "cancelled", "incomplete", "failed"}
  BY DEF Outcome
<1>2. ASSUME NEW o \in {"none", "ok", "cancelled", "incomplete", "failed"}
      PROVE  LET n == [r EXCEPT !.outcome = o] IN
             /\ n \in ProcRecord /\ ProcOK(n) /\ Live(n) = Live(r) /\ n.outcome = o
             /\ n.stage = "drain" /\ n.held = r.held /\ (n.download <=> r.download)
             /\ (n.cut <=> r.cut) /\ n.grpc = r.grpc
  <2> DEFINE n == [r EXCEPT !.outcome = o]
  <2>1. n \in ProcRecord
    BY <1>1, Zenon DEF ProcRecord
  <2>2. /\ n.stage = r.stage /\ n.held = r.held /\ n.at = r.at /\ n.step = r.step
        /\ n.webhook = r.webhook /\ n.grpc = r.grpc
    BY Zenon DEF ProcRecord
  <2>6. /\ n.handlers = r.handlers /\ n.download = r.download /\ n.persist = r.persist
        /\ n.cleanup = r.cleanup /\ n.completed = r.completed /\ n.errors = r.errors /\ n.cut = r.cut
    BY Zenon DEF ProcRecord
  <2>5. n.outcome = o
    BY Zenon DEF ProcRecord
  <2> HIDE DEF n
  <2>3. ProcOK(n)
    BY <2>2, <2>6 DEF ProcOK, Quiet, Whole, WebhookEnded, GrpcSettled, StoppedSoFar
  <2>4. Live(n) = Live(r)
    BY <2>2, <2>6 DEF Live
  <2> QED BY <2>1, <2>2, <2>3, <2>4, <2>5, <2>6 DEF n
<1> QED BY <1>1, <1>2

(* The end of the teardown, with what it decides about the locks, keeps the invariant of the
   lifecycle. *)
LEMMA FinishKeeps == ASSUME LifecycleInv, NEW p \in Process, Finish(p) PROVE LifecycleInv'
<1> DEFINE q == proc[p]
           r == [q EXCEPT !.outcome = Outcome(q)]
<1>0. q \in ProcRecord /\ ProcOK(q) /\ q.stage = "drain" /\ ~q.download
  <2>1. q \in ProcRecord /\ ProcOK(q) /\ r.stage = "drain" /\ ~r.download
    BY DEF LifecycleInv, Finish
  <2> QED BY <2>1, Zenon DEF ProcRecord
<1>1. /\ r \in ProcRecord /\ ProcOK(r) /\ Live(r) = Live(q) /\ r.outcome = Outcome(q)
      /\ r.stage = "drain" /\ r.held = q.held /\ ~r.download /\ (r.cut <=> q.cut) /\ r.grpc = q.grpc
  BY <1>0, OutcomeFacts
<1>2. Update(p, IF Live(r) = {} THEN [r EXCEPT !.stage = "unlocking", !.persist = FALSE, !.held = {"db"}]
                ELSE [r EXCEPT !.stage = "kept"])
  BY DEF Finish
<1> HIDE DEF r
<1>3. CASE Live(r) = {}
  <2> DEFINE n == [r EXCEPT !.stage = "unlocking", !.persist = FALSE, !.held = {"db"}]
  <2>1. n \in ProcRecord
    BY <1>1, Zenon DEF ProcRecord, Stages, Files
  <2>2. /\ n.stage = "unlocking" /\ n.held = {"db"} /\ n.at = r.at /\ n.step = r.step
        /\ n.webhook = r.webhook /\ n.grpc = r.grpc /\ (n.handlers <=> r.handlers)
        /\ (n.download <=> r.download) /\ ~n.persist /\ (n.cleanup <=> r.cleanup)
        /\ (n.completed <=> r.completed) /\ (n.errors <=> r.errors) /\ (n.cut <=> r.cut)
        /\ n.outcome = r.outcome
    BY <1>1, Zenon DEF ProcRecord
  <2> HIDE DEF n
  <2>3. WebhookEnded(r) /\ r.grpc \in {"disabled", "terminated"} /\ ~r.handlers
    <3>1. r.webhook \notin {"idle", "busy", "finishing"} /\ r.grpc \notin {"owned", "stopping"}
      BY <1>3 DEF Live
    <3>2. WebhookEnded(r) /\ r.grpc \in {"disabled", "terminated"}
      BY <1>1, <3>1, Zenon DEF WebhookEnded, ProcRecord
    <3> QED BY <1>1, <3>1, <3>2 DEF ProcOK
  <2>4. Quiet(n)
    BY <1>1, <2>2, <2>3 DEF Quiet, WebhookEnded
  <2>5. ProcOK(n)
    BY <1>1, <2>2, <2>3, <2>4 DEF ProcOK, Whole, WebhookEnded, GrpcSettled
  <2>6. n.held \subseteq q.held
    BY <1>1, <2>2 DEF ProcOK, Files
  <2> QED BY <1>2, <1>3, <2>1, <2>5, <2>6, SameLocks, Zenon DEF n
<1>4. CASE Live(r) # {}
  <2> DEFINE n == [r EXCEPT !.stage = "kept"]
  <2>1. n \in ProcRecord
    BY <1>1, Zenon DEF ProcRecord, Stages
  <2>2. /\ n.stage = "kept" /\ n.held = r.held /\ n.at = r.at /\ n.step = r.step
        /\ n.webhook = r.webhook /\ n.grpc = r.grpc /\ (n.handlers <=> r.handlers)
        /\ (n.download <=> r.download) /\ (n.persist <=> r.persist) /\ (n.cleanup <=> r.cleanup)
        /\ (n.completed <=> r.completed) /\ (n.errors <=> r.errors) /\ (n.cut <=> r.cut)
        /\ n.outcome = r.outcome
    BY <1>1, Zenon DEF ProcRecord
  <2> HIDE DEF n
  <2>3. (r.cut \/ r.grpc = "stopping") /\ r.outcome # "ok"
    BY <1>0, <1>1, <1>4, KeptHasCause
  <2>4. ProcOK(n)
    BY <1>1, <2>2, <2>3 DEF ProcOK, Whole, WebhookEnded, GrpcSettled
  <2> QED BY <1>1, <1>2, <1>4, <2>1, <2>2, <2>4, SameLocks, Zenon DEF n
<1> QED BY <1>3, <1>4

(* The release of the database lock keeps the invariant of the lifecycle. *)
LEMMA ReleaseKeeps == ASSUME LifecycleInv, NEW p \in Process, ReleaseDatabase(p) PROVE LifecycleInv'
<1> DEFINE r == proc[p]
<1>1. r \in ProcRecord /\ ProcOK(r) /\ r.stage = "unlocking"
  BY DEF LifecycleInv, ReleaseDatabase
<1>2. LifecycleInv'
  <2> DEFINE n == [r EXCEPT !.stage = "done", !.held = {}]
  <2>1. n \in ProcRecord
    BY <1>1, Zenon DEF ProcRecord, Stages
  <2>2. /\ n.stage = "done" /\ n.held = {} /\ n.at = r.at /\ n.step = r.step
        /\ n.webhook = r.webhook /\ n.grpc = r.grpc /\ (n.handlers <=> r.handlers)
        /\ (n.download <=> r.download) /\ (n.persist <=> r.persist) /\ (n.cleanup <=> r.cleanup)
        /\ (n.completed <=> r.completed) /\ (n.errors <=> r.errors) /\ (n.cut <=> r.cut)
        /\ n.outcome = r.outcome
    BY <1>1, Zenon DEF ProcRecord
  <2> HIDE DEF n
  <2>3. ProcOK(n)
    BY <1>1, <2>2 DEF ProcOK, Quiet, Whole, WebhookEnded, GrpcSettled
  <2> QED BY <2>1, <2>2, <2>3, SameLocks, Zenon DEF ReleaseDatabase, n
<1> QED BY <1>2

(* The inductive invariant of the lifecycle holds in every reachable state. *)
LEMMA LifecycleInvariant == LifecycleSpec => []LifecycleInv
<1>1. ASSUME LifecycleInv, NEW p \in Process, Exit(p) PROVE LifecycleInv'
  BY <1>1, OffFacts, SameLocks DEF Exit
<1>2. ASSUME LifecycleInv, UNCHANGED lifecycle PROVE LifecycleInv'
  BY <1>2 DEF lifecycle, LifecycleInv, Exclusive
<1>3. LifecycleInv /\ [LifecycleNext]_lifecycle => LifecycleInv'
  BY <1>1, <1>2, AcquireKeeps, StartStepKeeps, StartFailsKeeps, ServiceKeeps, ShutdownKeeps,
     StepBeginsKeeps, StepEndsKeeps, StepFailsKeeps, CutShortKeeps, CallerCancelsKeeps,
     FinishKeeps, ReleaseKeeps
  DEF LifecycleNext, Working, Closing
<1> QED BY <1>3, LifecycleInitially, PTL DEF LifecycleSpec
-----------------------------------------------------------------------------
(* The inductive invariant implies that a process that may write holds the lock of the store. *)
LEMMA WritersHold == LifecycleInv => WritersHoldTheStore
<1> SUFFICES ASSUME LifecycleInv, NEW p \in Process, Writes(p) PROVE proc[p].held = Files
  BY DEF WritersHoldTheStore
<1>1. proc[p] \in ProcRecord /\ ProcOK(proc[p])
  BY DEF LifecycleInv
<1>2. proc[p].stage \notin {"off", "locking", "unlocking", "done"}
  BY <1>1, Zenon DEF Writes, ProcOK, Quiet, WebhookEnded
<1> QED BY <1>1, <1>2, Zenon DEF ProcOK, ProcRecord, Stages

\* main.py, lifespan: "ownership outlives every worker that can write the store", for
\* every start and shutdown of any number of engines.
THEOREM OwnershipOutlivesWriters == LifecycleSpec => []WritersHoldTheStore
BY LifecycleInvariant, WritersHold, PTL

\* ownership.acquire: two engines that share a file never both have writers.
THEOREM OneWriterPerStore == LifecycleSpec => []StoreHasOneWriter
<1>1. LifecycleInv => StoreHasOneWriter
  BY WritersHold DEF LifecycleInv, Exclusive, WritersHoldTheStore, StoreHasOneWriter
<1> QED BY <1>1, LifecycleInvariant, PTL

\* A start that failed and an engine that ended hold nothing.
THEOREM EndedHoldNothing == LifecycleSpec => []NothingHeldOutside
<1>1. LifecycleInv => NothingHeldOutside
  BY Zenon DEF LifecycleInv, ProcOK, NothingHeldOutside
<1> QED BY <1>1, LifecycleInvariant, PTL

\* teardown: locks kept past the shutdown have a cause, and it is reported.
THEOREM LocksKeptForCause == LifecycleSpec => []KeptForCause
<1>1. LifecycleInv => KeptForCause
  BY Zenon DEF LifecycleInv, ProcOK, KeptForCause
<1> QED BY <1>1, LifecycleInvariant, PTL

\* teardown: if every step was run, every writer it knows has stopped.
THEOREM CompletedCleanupIsWhole == LifecycleSpec => []CleanupIsWhole
<1>1. LifecycleInv => CleanupIsWhole
  BY Zenon DEF LifecycleInv, ProcOK, Whole, WebhookEnded, GrpcSettled, CleanupIsWhole
<1> QED BY <1>1, LifecycleInvariant, PTL

\* lifespan: the store is owned by whoever can write it, and by nobody else.
THEOREM StoreOwned == LifecycleSpec => []StoreIsOwned
BY OwnershipOutlivesWriters, OneWriterPerStore, EndedHoldNothing, PTL DEF StoreIsOwned

\* teardown: it stops every writer it knows, and keeps the locks only for a reported cause.
THEOREM ShutdownWhole == LifecycleSpec => []ShutdownIsWhole
BY CompletedCleanupIsWhole, LocksKeptForCause, PTL DEF ShutdownIsWhole

-----------------------------------------------------------------------------
(* Calls of the gRPC edge                                                  *)

EdgeSpec == EdgeInit /\ [][EdgeNext]_edge

CallRecord ==
  [phase : {"none", "admit", "pull", "write", "drain", "last", "over", "refused"},
   task : {"none", "run", "done"}, driver : {"none", "task", "gc", "all"},
   tracked : BOOLEAN, finals : Nat]

\* What each phase of a generator says of its task, of who closes it, whether its handler
\* is tracked and whether its usage is written.
CallOK(r) ==
  /\ r \in CallRecord
  /\ r.phase = "none" => r.task = "none" /\ r.driver = "none" /\ ~r.tracked /\ r.finals = 0
  /\ r.phase \in {"admit", "pull"} => r.task = "run" /\ r.driver = "none" /\ r.tracked /\ r.finals = 0
  /\ r.phase = "write" => r.task # "none" /\ r.driver = "none" /\ r.tracked /\ r.finals = 0
  /\ r.phase = "drain" =>
       /\ r.tracked /\ r.finals = 0
       /\ \/ r.driver = "task" /\ r.task = "run"
          \/ r.driver \in {"gc", "all"} /\ r.task = "done"
  /\ r.phase = "last" => r.task # "none" /\ r.driver = "none" /\ r.tracked /\ r.finals = 1
  /\ r.phase = "over" => r.task = "done" /\ r.driver = "none" /\ r.finals = 1
  /\ r.phase = "refused" => r.task = "done" /\ r.driver = "none" /\ ~r.tracked /\ r.finals = 0

\* Once the core has stopped no call is set up or pulled, the tasks of a round that is
\* being closed have ended, and a listing leaves nobody out.
StopOK ==
  /\ server \in {"waiting", "closing", "stopped"} =>
       \A c \in Call : call[c].task = "run" => call[c].phase \in {"drain", "last"}
  /\ server \in {"waiting", "closing"} =>
       \A c \in round : call[c].phase \in {"write", "drain", "last", "over"}
  /\ server = "closing" => \A c \in round : call[c].task = "done"
  /\ server = "waiting" => \A c \in Call : call[c].tracked => c \in round
  /\ server = "stopped" => \A c \in Call : ~call[c].tracked

EdgeInv ==
  /\ call \in [Call -> CallRecord] /\ \A c \in Call : CallOK(call[c])
  /\ round \subseteq Call /\ StopOK

(* A gRPC edge without calls satisfies its inductive invariant. *)
LEMMA EdgeInitially == EdgeInit => EdgeInv
BY DEF EdgeInit, EdgeInv, CallOK, CallRecord, NoCall, StopOK

\* A step of one call that neither tracks it anew nor revives its task.
LEMMA OneCall ==
  ASSUME EdgeInv, NEW c \in Call, NEW r, CallOK(r), Set(c, r), UNCHANGED <<server, round>>,
         server # "serving" => (r.tracked => call[c].tracked),
         server \in {"waiting", "closing", "stopped"} => (r.task = "run" => r.phase \in {"drain", "last"}),
         call[c].task = "done" => r.task = "done",
         call[c].phase \in {"write", "drain", "last", "over"} =>
           r.phase \in {"write", "drain", "last", "over"} \/ server \notin {"waiting", "closing"}
  PROVE  EdgeInv'
<1>1. /\ call \in [Call -> CallRecord] /\ \A d \in Call : CallOK(call[d]) /\ r \in CallRecord
      /\ round \subseteq Call /\ StopOK
  BY DEF EdgeInv, CallOK
<1>2. call' = [call EXCEPT ![c] = r]
  BY DEF Set
<1>3. call' \in [Call -> CallRecord] /\ \A d \in Call : call'[d] = IF d = c THEN r ELSE call[d]
  BY <1>1, <1>2
<1>4. \A d \in Call : CallOK(call'[d])
  BY <1>1, <1>3
<1>5. StopOK'
  BY <1>1, <1>3 DEF StopOK
<1> QED BY <1>1, <1>3, <1>4, <1>5 DEF EdgeInv

\* What ends a generator leaves a call that is over, or was refused.
LEMMA OverFacts ==
  ASSUME NEW r \in CallRecord
  PROVE  /\ Over(r) \in CallRecord /\ Over(r).task = "done" /\ Over(r).driver = "none"
         /\ ~Over(r).tracked /\ Over(r).finals = r.finals
         /\ Over(r).phase = IF r.phase = "admit" THEN "refused" ELSE "over"
BY Zenon DEF Over, CallRecord

(* What finalizing a call's record changes, and what it leaves alone. *)
LEMMA FinalizedFacts ==
  ASSUME NEW r \in CallRecord
  PROVE  /\ Finalized(r) \in CallRecord /\ Finalized(r).finals = r.finals + 1
         /\ Finalized(r).phase = r.phase /\ Finalized(r).task = r.task
         /\ Finalized(r).tracked = r.tracked /\ Finalized(r).driver = r.driver
BY DEF Finalized, CallRecord

\* A stream that was being drained, finalized.
LEMMA DrainedFacts ==
  ASSUME NEW r, CallOK(r), r.phase = "drain"
  PROVE  LET f == Over(Finalized(r)) IN
         /\ CallOK(f) /\ f.phase = "over" /\ f.task = "done" /\ ~f.tracked
         /\ \A b \in BOOLEAN : /\ CallOK([f EXCEPT !.tracked = b])
                               /\ [f EXCEPT !.tracked = b].phase = "over"
                               /\ [f EXCEPT !.tracked = b].task = "done"
<1> DEFINE f == Over(Finalized(r))
<1>1. r \in CallRecord /\ r.finals = 0
  BY DEF CallOK
<1>2. Finalized(r) \in CallRecord /\ Finalized(r).finals = 1 /\ Finalized(r).phase = "drain"
  BY <1>1, FinalizedFacts
<1>3. f \in CallRecord /\ f.phase = "over" /\ f.task = "done" /\ f.driver = "none" /\ f.finals = 1 /\ ~f.tracked
  BY <1>2, OverFacts
<1> HIDE DEF f
<1>4. CallOK(f)
  BY <1>3 DEF CallOK
<1>5. ASSUME NEW b \in BOOLEAN
      PROVE  /\ CallOK([f EXCEPT !.tracked = b]) /\ [f EXCEPT !.tracked = b].phase = "over"
             /\ [f EXCEPT !.tracked = b].task = "done"
  BY <1>3 DEF CallOK, CallRecord
<1> QED BY <1>3, <1>4, <1>5 DEF f
-----------------------------------------------------------------------------
(* The calls                                                               *)

(* A call that opens keeps the invariant of the gRPC edge. *)
LEMMA OpenKeeps == ASSUME EdgeInv, NEW c \in Call, Open(c) PROVE EdgeInv'
<1> DEFINE r == [NoCall EXCEPT !.phase = "admit", !.task = "run", !.tracked = TRUE]
<1>1. CallOK(r) /\ r.task = "run"
  BY Zenon DEF CallOK, CallRecord, NoCall
<1>2. Set(c, r) /\ UNCHANGED <<server, round>> /\ server = "serving" /\ call[c].phase = "none"
  BY DEF Open
<1>3. call[c].task # "done"
  BY <1>2 DEF EdgeInv, CallOK
<1> HIDE DEF r
<1> QED BY <1>1, <1>2, <1>3, OneCall

(* The admission of a call keeps the invariant of the gRPC edge. *)
LEMMA AdmitKeeps == ASSUME EdgeInv, NEW c \in Call, Admit(c) PROVE EdgeInv'
<1> DEFINE r == call[c]
<1>1. CallOK(r) /\ r \in CallRecord /\ r.phase = "admit" /\ UNCHANGED <<server, round>>
  BY DEF Admit, EdgeInv, CallOK
<1>2. r.task = "run" /\ r.tracked /\ r.finals = 0
  BY <1>1 DEF CallOK
<1>3. server \notin {"waiting", "closing", "stopped"}
  BY <1>1, <1>2 DEF EdgeInv, StopOK
<1>4. CASE Set(c, [r EXCEPT !.phase = "pull"])
  <2>1. CallOK([r EXCEPT !.phase = "pull"])
    BY <1>1, <1>2 DEF CallOK, CallRecord
  <2> QED BY <1>1, <1>2, <1>3, <1>4, <2>1, OneCall
<1>5. CASE Set(c, Over(r))
  <2>1. CallOK(Over(r)) /\ ~Over(r).tracked /\ Over(r).task = "done"
    BY <1>1, <1>2, OverFacts, Zenon DEF CallOK
  <2> QED BY <1>1, <1>2, <1>3, <1>5, <2>1, OneCall
<1> QED BY <1>4, <1>5 DEF Admit

(* The pull of the next chunk keeps the invariant of the gRPC edge. *)
LEMMA PullKeeps == ASSUME EdgeInv, NEW c \in Call, Pull(c) PROVE EdgeInv'
<1> DEFINE r == call[c]
<1>1. CallOK(r) /\ r \in CallRecord /\ r.phase = "pull" /\ UNCHANGED <<server, round>>
  BY DEF Pull, EdgeInv, CallOK
<1>2. r.task = "run" /\ r.tracked /\ r.finals = 0 /\ r.driver = "none"
  BY <1>1 DEF CallOK
<1>3. server \notin {"waiting", "closing", "stopped"}
  BY <1>1, <1>2 DEF EdgeInv, StopOK
<1>4. CASE Set(c, [r EXCEPT !.phase = "write"])
  <2>1. CallOK([r EXCEPT !.phase = "write"])
    BY <1>1, <1>2 DEF CallOK, CallRecord
  <2> QED BY <1>1, <1>2, <1>3, <1>4, <2>1, OneCall
<1>5. CASE Set(c, [r EXCEPT !.phase = "drain", !.driver = "task"])
  <2>1. CallOK([r EXCEPT !.phase = "drain", !.driver = "task"])
    BY <1>1, <1>2, Zenon DEF CallOK, CallRecord
  <2> QED BY <1>1, <1>2, <1>3, <1>5, <2>1, OneCall
<1> QED BY <1>4, <1>5 DEF Pull

(* A chunk written to the peer keeps the invariant of the gRPC edge. *)
LEMMA WrittenKeeps == ASSUME EdgeInv, NEW c \in Call, Written(c) PROVE EdgeInv'
<1> DEFINE r == call[c]
<1>1. CallOK(r) /\ r \in CallRecord /\ r.task = "run" /\ UNCHANGED <<server, round>>
  BY DEF Written, EdgeInv, CallOK
<1>2. CASE r.phase = "write"
  <2>1. server \notin {"waiting", "closing", "stopped"}
    BY <1>1, <1>2 DEF EdgeInv, StopOK
  <2>2. CallOK([r EXCEPT !.phase = "pull"]) /\ [r EXCEPT !.phase = "pull"].tracked = r.tracked
    BY <1>1, <1>2 DEF CallOK, CallRecord
  <2>3. Set(c, [r EXCEPT !.phase = "pull"])
    BY <1>2 DEF Written
  <2> QED BY <1>1, <2>1, <2>2, <2>3, OneCall, Zenon
<1>3. CASE r.phase = "last"
  <2>1. CallOK(Over(r)) /\ ~Over(r).tracked /\ Over(r).task = "done" /\ Over(r).phase = "over"
    BY <1>1, <1>3, OverFacts, Zenon DEF CallOK
  <2>2. Set(c, Over(r))
    BY <1>3 DEF Written
  <2> QED BY <1>1, <2>1, <2>2, OneCall
<1> QED BY <1>2, <1>3 DEF Written

(* The end of the handler's task keeps the invariant of the gRPC edge. *)
LEMMA TaskFinishesKeeps == ASSUME EdgeInv, NEW c \in Call, TaskFinishes(c) PROVE EdgeInv'
<1> DEFINE r == call[c]
<1>1. CallOK(r) /\ r \in CallRecord /\ r.phase = "drain" /\ r.driver = "task" /\ UNCHANGED <<server, round>>
  BY DEF TaskFinishes, EdgeInv, CallOK
<1>2. r.task = "run" /\ r.tracked /\ r.finals = 0
  BY <1>1 DEF CallOK
<1>3. CASE Set(c, [Finalized(r) EXCEPT !.phase = "last", !.driver = "none"])
  <2> DEFINE n == [Finalized(r) EXCEPT !.phase = "last", !.driver = "none"]
  <2>1. n \in CallRecord /\ n.phase = "last" /\ n.driver = "none" /\ n.task = "run" /\ n.tracked /\ n.finals = 1
    <3>1. /\ Finalized(r) \in CallRecord /\ Finalized(r).finals = 1
          /\ Finalized(r).task = "run" /\ Finalized(r).tracked
      BY <1>1, <1>2, FinalizedFacts
    <3> QED BY <3>1, Zenon DEF CallRecord
  <2> HIDE DEF n
  <2>2. CallOK(n)
    BY <2>1 DEF CallOK
  <2>3. Set(c, n)
    BY <1>3 DEF n
  <2> QED BY <1>1, <1>2, <2>1, <2>2, <2>3, OneCall
<1>4. CASE Set(c, Over(Finalized(r)))
  BY <1>1, <1>2, <1>4, DrainedFacts, OneCall
<1> QED BY <1>3, <1>4 DEF TaskFinishes

(* The cancellation of a call keeps the invariant of the gRPC edge. *)
LEMMA CancelCallKeeps == ASSUME EdgeInv, NEW c \in Call, CancelCall(c) PROVE EdgeInv'
<1> DEFINE r == call[c]
<1>1. CallOK(r) /\ r \in CallRecord /\ r.task = "run" /\ UNCHANGED <<server, round>>
  BY DEF CancelCall, EdgeInv, CallOK
<1>2. CASE r.phase = "admit" /\ Set(c, Over(r))
  <2>1. CallOK(Over(r)) /\ ~Over(r).tracked /\ Over(r).task = "done"
    BY <1>1, <1>2, OverFacts, Zenon DEF CallOK
  <2> QED BY <1>1, <1>2, <2>1, OneCall
<1>3. CASE r.phase = "pull" /\ Set(c, [r EXCEPT !.phase = "drain", !.driver = "task"])
  <2> DEFINE n == [r EXCEPT !.phase = "drain", !.driver = "task"]
  <2>1. CallOK(n) /\ n.tracked = r.tracked /\ n.phase = "drain"
    BY <1>1, <1>3, Zenon DEF CallOK, CallRecord
  <2> QED BY <1>1, <1>3, <2>1, OneCall, Zenon
<1>4. CASE r.phase = "drain" /\ Set(c, Interrupted(r))
  BY <1>1, <1>4, DrainedFacts, OneCall DEF Interrupted
<1>5. CASE r.phase \in {"write", "last"} /\ Set(c, [r EXCEPT !.task = "done"])
  <2> DEFINE n == [r EXCEPT !.task = "done"]
  <2>1. CallOK(n) /\ n.tracked = r.tracked /\ n.phase = r.phase /\ n.task = "done"
    BY <1>1, <1>5 DEF CallOK, CallRecord
  <2> QED BY <1>1, <1>5, <2>1, OneCall, Zenon
<1> QED BY <1>2, <1>3, <1>4, <1>5 DEF CancelCall

(* What beginning to close an abandoned handler does to its record. *)
LEMMA CloseBeginsFacts ==
  ASSUME EdgeInv, NEW c \in Call, NEW who \in {"gc", "all"},
         call[c].phase = "write", call[c].task = "done"
  PROVE  /\ CallOK(CloseBegins(c, who)) /\ CloseBegins(c, who).tracked = call[c].tracked
         /\ CloseBegins(c, who).phase = "drain" /\ CloseBegins(c, who).task = "done"
BY ZenonT(30) DEF EdgeInv, CallOK, CallRecord, CloseBegins

(* The collection of an abandoned generator keeps the invariant of the gRPC edge. *)
LEMMA CollectKeeps == ASSUME EdgeInv, NEW c \in Call, Collect(c) PROVE EdgeInv'
<1> DEFINE r == call[c]
<1>1. /\ CallOK(r) /\ r \in CallRecord /\ r.task = "done" /\ UNCHANGED <<server, round>>
      /\ r.phase \in {"write", "last", "over"}
  BY DEF Collect, Abandoned, EdgeInv, CallOK
<1>2. CASE r.phase = "write"
  BY <1>1, <1>2, CloseBeginsFacts, OneCall DEF Collect
<1>3. CASE r.phase # "write"
  <2>1. CallOK(Over(r)) /\ ~Over(r).tracked /\ Over(r).task = "done" /\ Over(r).phase = "over"
    BY <1>1, <1>3, OverFacts, Zenon DEF CallOK
  <2> QED BY <1>1, <1>3, <2>1, OneCall DEF Collect
<1> QED BY <1>2, <1>3

(* The end of a collection keeps the invariant of the gRPC edge. *)
LEMMA CollectedKeeps == ASSUME EdgeInv, NEW c \in Call, Collected(c) PROVE EdgeInv'
<1> DEFINE r == call[c]
<1>1. CallOK(r) /\ r.driver = "gc" /\ UNCHANGED <<server, round>>
  BY DEF Collected, EdgeInv
<1>2. r.phase = "drain" /\ r.tracked
  BY <1>1 DEF CallOK, CallRecord
<1>3. PICK b \in BOOLEAN : Set(c, [Over(Finalized(r)) EXCEPT !.tracked = b])
  BY DEF Collected
<1> QED BY <1>1, <1>2, <1>3, DrainedFacts, OneCall, Zenon
-----------------------------------------------------------------------------
(* The stop                                                                *)

\* A step of the stop that closes one handler of its round.
LEMMA OneHandler ==
  ASSUME EdgeInv, NEW c \in Call, NEW r, CallOK(r), r.phase = "over", Set(c, r),
         round' = round \ {c},
         server' = "failed" \/ (server' = server /\ ~r.tracked)
  PROVE  EdgeInv'
<1>1. /\ call \in [Call -> CallRecord] /\ \A d \in Call : CallOK(call[d]) /\ r \in CallRecord
      /\ round \subseteq Call /\ StopOK /\ r.task = "done"
  BY Zenon DEF EdgeInv, CallOK
<1>2. call' \in [Call -> CallRecord] /\ \A d \in Call : call'[d] = IF d = c THEN r ELSE call[d]
  BY <1>1 DEF Set
<1>3. \A d \in Call : CallOK(call'[d])
  BY <1>1, <1>2
<1>4. StopOK'
  BY <1>1, <1>2 DEF StopOK
<1> QED BY <1>1, <1>2, <1>3, <1>4 DEF EdgeInv

(* Closing one handler at shutdown keeps the invariant of the gRPC edge. *)
LEMMA CloseHandlerKeeps == ASSUME EdgeInv, NEW c \in Call, CloseHandler(c) PROVE EdgeInv'
<1> DEFINE r == call[c]
<1>1. /\ CallOK(r) /\ r \in CallRecord /\ server = "closing" /\ c \in round /\ UNCHANGED server
      /\ r.driver = "none"
  BY DEF CloseHandler, HandlerFree, EdgeInv, CallOK
<1>2. r.task = "done" /\ r.phase \in {"write", "last", "over"}
  BY <1>1, ZenonT(30) DEF EdgeInv, StopOK, CallOK
<1>3. CASE r.phase = "write"
  BY <1>1, <1>2, <1>3, CloseBeginsFacts, OneCall, ZenonT(30) DEF CloseHandler
<1>4. CASE r.phase # "write"
  <2>1. CallOK(Over(r)) /\ ~Over(r).tracked /\ Over(r).phase = "over"
    BY <1>1, <1>2, <1>4, OverFacts, Zenon DEF CallOK
  <2> QED BY <1>1, <1>2, <1>4, <2>1, OneHandler DEF CloseHandler
<1> QED BY <1>3, <1>4

(* A handler that has been closed at shutdown keeps the invariant of the gRPC edge. *)
LEMMA HandlerClosedKeeps == ASSUME EdgeInv, NEW c \in Call, HandlerClosed(c) PROVE EdgeInv'
<1> DEFINE r == call[c]
<1>1. CallOK(r) /\ r.driver = "all" /\ round' = round \ {c}
  BY DEF HandlerClosed, EdgeInv
<1>2. r.phase = "drain"
  BY <1>1 DEF CallOK, CallRecord
<1>3. CASE Set(c, Over(Finalized(r))) /\ UNCHANGED server
  BY <1>1, <1>2, <1>3, DrainedFacts, OneHandler
<1>4. CASE Set(c, [Over(Finalized(r)) EXCEPT !.tracked = TRUE]) /\ server' = "failed"
  BY <1>1, <1>2, <1>4, DrainedFacts, OneHandler, ZenonT(30)
<1> QED BY <1>3, <1>4 DEF HandlerClosed

(* The steps of the edge's stop, its cancellation from inside included, keep the invariant of
   the gRPC edge. *)
LEMMA StoppingKeeps ==
  ASSUME EdgeInv, Stop \/ CoreStopped \/ CloseAll \/ NextRound \/ StopCut \/ UNCHANGED edge
  PROVE  EdgeInv'
<1>1. call' = call /\ \A c \in Call : CallOK(call[c])
  BY DEF Stop, CoreStopped, CloseAll, NextRound, StopCut, edge, EdgeInv
<1>2. round' \subseteq Call /\ StopOK'
  <2>0. ASSUME \A c \in Call : call[c].task = "run" => call[c].phase \in {"drain", "last"},
               NEW c \in Call, call[c].tracked
        PROVE  call[c].phase \in {"write", "drain", "last", "over"}
    BY <1>1, <2>0 DEF CallOK, CallRecord
  <2>1. CASE Stop
    BY <2>1 DEF Stop, EdgeInv, StopOK
  <2>2. CASE CoreStopped
    <3>1. \A c \in Call : call[c].task = "run" => call[c].phase \in {"drain", "last"}
      BY <2>2 DEF CoreStopped
    <3>2. server' = "waiting" /\ round' = {c \in Call : call[c].tracked}
      BY <2>2 DEF CoreStopped, Tracked
    <3>3. \A c \in round' : call[c].phase \in {"write", "drain", "last", "over"}
      BY <2>0, <3>1, <3>2
    <3> QED BY <1>1, <3>1, <3>2, <3>3 DEF StopOK
  <2>3. CASE CloseAll
    BY <1>1, <2>3 DEF CloseAll, TasksDone, EdgeInv, StopOK
  <2>4. CASE NextRound
    <3>1. \A c \in Call : call[c].task = "run" => call[c].phase \in {"drain", "last"}
      BY <2>4 DEF NextRound, EdgeInv, StopOK
    <3>2. server' = "waiting" /\ round' = {c \in Call : call[c].tracked}
      BY <2>4 DEF NextRound, Tracked
    <3>3. \A c \in round' : call[c].phase \in {"write", "drain", "last", "over"}
      BY <2>0, <3>1, <3>2
    <3> QED BY <1>1, <3>1, <3>2, <3>3 DEF StopOK
  <2>5. CASE StopCut
    BY <2>5 DEF StopCut, EdgeInv, StopOK
  <2>6. CASE UNCHANGED edge
    BY <2>6 DEF edge, EdgeInv, StopOK
  <2> QED BY <2>1, <2>2, <2>3, <2>4, <2>5, <2>6
<1> QED BY <1>1, <1>2 DEF EdgeInv

(* The inductive invariant of the gRPC edge holds in every reachable state. *)
LEMMA EdgeInvariant == EdgeSpec => []EdgeInv
<1>1. EdgeInv /\ [EdgeNext]_edge => EdgeInv'
  BY OpenKeeps, AdmitKeeps, PullKeeps, WrittenKeeps, TaskFinishesKeeps, CancelCallKeeps,
     CollectKeeps, CollectedKeeps, CloseHandlerKeeps, HandlerClosedKeeps, StoppingKeeps
  DEF EdgeNext, Driven, Stopping
<1> QED BY <1>1, EdgeInitially, PTL DEF EdgeSpec
-----------------------------------------------------------------------------
\* _drain_and_finish: with any number of calls, whoever closes a stream, its usage is
\* written exactly once.
THEOREM CallsFinalizedOnce == EdgeSpec => []FinalizedOnce
<1>1. EdgeInv => FinalizedOnce
  BY DEF EdgeInv, CallOK, CallRecord, FinalizedOnce
<1> QED BY <1>1, EdgeInvariant, PTL

\* GrpcEdge.stop: when it has returned every call has ended and nothing of it is running.
THEOREM StopIsProof == EdgeSpec => []StopProvesTheEnd
<1>1. EdgeInv => StopProvesTheEnd
  BY DEF EdgeInv, StopOK, CallOK, CallRecord, StopProvesTheEnd
<1> QED BY <1>1, EdgeInvariant, PTL

\* _Handler tracking: a stream that is not finalized is never forgotten by close_all.
THEOREM NothingForgotten == EdgeSpec => []ForgottenIsFinalized
<1>1. EdgeInv => ForgottenIsFinalized
  BY DEF EdgeInv, CallOK, ForgottenIsFinalized
<1> QED BY <1>1, EdgeInvariant, PTL

\* The gRPC edge finalizes every call that streamed, once, and before stop returns.
THEOREM CallsFinalized == EdgeSpec => []CallsAreFinalized
BY CallsFinalizedOnce, StopIsProof, NothingForgotten, PTL DEF CallsAreFinalized
-----------------------------------------------------------------------------
(* Exchanges of the HTTP edge.  Where an exchange is fixes, together with  *)
(* the frames still to be yielded, what its client has been sent.          *)

HttpSpec == HttpInit /\ [][HttpNext]_http

Frame == {"role", "message_start", "content_block_start", "ping", "token", "finish", "DONE",
          "content_block_stop", "message_delta", "message_stop", "error", "body"}
Success == {"finish", "message_delta", "body"}

ExchangeRecord ==
  [dialect : {"none", "openai", "anthropic"}, stream : BOOLEAN,
   pc : {"new", "handed", "pulling", "sending", "collecting", "closing", "done", "refused", "dropped"},
   todo : Seq(Frame), next : {"", "pulling", "closing"}, frames : Seq(Frame), tokens : 0..MaxTokens,
   result : {"none", "complete", "cancelled"}, error : BOOLEAN, finals : {0, 1},
   outcome : {"none", "ok", "error", "cancelled"}, here : BOOLEAN]

Body(d, n) == Opening(d) \o Tokens(n)
End(r) == IF r.error THEN Failing(r.dialect) ELSE Ending(r.dialect)

\* Where an exchange is says whether it is streamed, how it stands and what is recorded.
Stands(r) ==
  /\ r.pc \in {"new", "refused"} => ~r.stream
  /\ r.pc \notin {"new", "refused"} => r.dialect # "none"
  /\ r.finals = IF r.pc = "done" THEN 1 ELSE 0
  /\ r.pc \in {"handed", "pulling", "sending", "dropped"} => r.stream
  /\ r.pc = "dropped" => ~r.here
  /\ r.pc \in {"new", "handed", "collecting"} => r.frames = <<>> /\ r.tokens = 0
  /\ r.pc = "collecting" => ~r.stream
  /\ r.pc \in {"new", "handed", "pulling", "collecting"} => r.result = "none" /\ ~r.error
  /\ r.pc = "sending" => r.next # ""
  /\ r.pc = "sending" /\ r.next = "pulling" => r.result = "none" /\ ~r.error
  /\ r.pc = "sending" /\ r.next = "closing" => (r.result = "complete" <=> ~r.error)
  /\ r.pc \in {"closing", "done"} /\ (r.here \/ ~r.stream) => r.error \/ r.result = "complete"
  /\ r.pc = "done" => r.outcome = OutcomeOf(r.error, r.result)

\* A frame that shows a failure or a success was written for one.
Shows(r, s) ==
  \A i \in 1..Len(s) : /\ s[i] = "error" => r.error
                       /\ s[i] \in Success => r.result = "complete" /\ ~r.error

\* What a client that is there has been sent, with what is about to be sent.
Sent(r) ==
  r.stream /\ r.here =>
    /\ r.pc = "pulling" => r.frames = Body(r.dialect, r.tokens)
    /\ r.pc = "sending" => r.frames \o r.todo = IF r.next = "pulling" THEN Body(r.dialect, r.tokens)
                                                ELSE Body(r.dialect, r.tokens) \o End(r)
    /\ r.pc \in {"closing", "done"} => r.frames = Body(r.dialect, r.tokens) \o End(r)

\* What a client has been sent is the beginning of an answer.
Begins(d, s) ==
  \E n \in 0..MaxTokens, end \in {Ending(d), Failing(d)} : IsPrefixOf(s, Opening(d) \o Tokens(n) \o end)

ExchangeOK(r) ==
  /\ r \in ExchangeRecord /\ Stands(r) /\ Shows(r, r.frames) /\ (r.pc = "sending" => Shows(r, r.todo))
  /\ Sent(r) /\ (r.stream => Begins(r.dialect, r.frames))

HttpInv == http = [x \in Exchange |-> http[x]] /\ \A x \in Exchange : ExchangeOK(http[x])

\* Sequences with the same elements are the same.
LEMMA SameSeq ==
  ASSUME NEW s \in Seq(Frame), NEW t \in Seq(Frame), Len(s) = Len(t), \A i \in 1..Len(s) : s[i] = t[i]
  PROVE  s = t
<1>1. s = [i \in 1..Len(s) |-> s[i]] /\ t = [i \in 1..Len(t) |-> t[i]]
  OBVIOUS
<1> QED BY <1>1

\* Concatenation, element by element.
LEMMA ConcatFacts ==
  ASSUME NEW s \in Seq(Frame), NEW t \in Seq(Frame)
  PROVE  /\ s \o t \in Seq(Frame) /\ Len(s \o t) = Len(s) + Len(t) /\ Len(s) \in Nat /\ Len(t) \in Nat
         /\ \A i \in 1..(Len(s) + Len(t)) : (s \o t)[i] = IF i <= Len(s) THEN s[i] ELSE t[i - Len(s)]
OBVIOUS

\* Moving the next frame from what is to be sent to what is sent changes nothing.
LEMMA OneMoreFrame ==
  ASSUME NEW s \in Seq(Frame), NEW t \in Seq(Frame), t # <<>>
  PROVE  /\ Append(s, Head(t)) \in Seq(Frame) /\ Tail(t) \in Seq(Frame) /\ Head(t) \in Frame
         /\ Append(s, Head(t)) \o Tail(t) = s \o t
         /\ \A i \in 1..Len(Append(s, Head(t))) : (i \in 1..Len(s) /\ Append(s, Head(t))[i] = s[i])
                                               \/ Append(s, Head(t))[i] = t[1]
         /\ \A i \in 1..Len(Tail(t)) : Tail(t)[i] = t[i + 1] /\ i + 1 \in 1..Len(t)
         /\ 1 \in 1..Len(t)
<1> DEFINE a == Append(s, Head(t))
           b == Tail(t)
<1>1. /\ a \in Seq(Frame) /\ b \in Seq(Frame) /\ Head(t) = t[1] /\ t[1] \in Frame /\ Len(a) = Len(s) + 1
      /\ Len(b) = Len(t) - 1 /\ Len(t) \in Nat \ {0} /\ Len(s) \in Nat
      /\ (\A i \in 1..Len(s) : a[i] = s[i]) /\ a[Len(s) + 1] = t[1]
      /\ \A i \in 1..Len(b) : b[i] = t[i + 1]
  OBVIOUS
<1> HIDE DEF a, b
<1>2. a \o b = s \o t
  <2>1. /\ a \o b \in Seq(Frame) /\ Len(a \o b) = Len(s) + Len(t)
        /\ \A i \in 1..(Len(s) + Len(t)) : (a \o b)[i] = IF i <= Len(s) + 1 THEN a[i] ELSE b[i - (Len(s) + 1)]
    <3>1. /\ a \o b \in Seq(Frame) /\ Len(a \o b) = Len(a) + Len(b)
          /\ \A i \in 1..(Len(a) + Len(b)) : (a \o b)[i] = IF i <= Len(a) THEN a[i] ELSE b[i - Len(a)]
      BY <1>1, ConcatFacts, Zenon
    <3>2. Len(a) + Len(b) = Len(s) + Len(t)
      BY <1>1
    <3> QED BY <1>1, <3>1, <3>2
  <2>2. /\ s \o t \in Seq(Frame) /\ Len(s \o t) = Len(s) + Len(t)
        /\ \A i \in 1..(Len(s) + Len(t)) : (s \o t)[i] = IF i <= Len(s) THEN s[i] ELSE t[i - Len(s)]
    BY ConcatFacts
  <2>3. ASSUME NEW i \in 1..(Len(s) + Len(t)) PROVE (a \o b)[i] = (s \o t)[i]
    <3>1. CASE i <= Len(s)
      BY <1>1, <2>1, <2>2, <3>1
    <3>2. CASE i = Len(s) + 1
      BY <1>1, <2>1, <2>2, <3>2
    <3>3. CASE i > Len(s) + 1
      <4>1. i - (Len(s) + 1) \in 1..Len(b) /\ (i - (Len(s) + 1)) + 1 = i - Len(s)
        BY <1>1, <3>3
      <4>2. b[i - (Len(s) + 1)] = t[i - Len(s)]
        BY <1>1, <4>1, Zenon
      <4> QED BY <1>1, <2>1, <2>2, <3>3, <4>2
    <3> QED BY <1>1, <3>1, <3>2, <3>3
  <2> QED BY <2>1, <2>2, <2>3, SameSeq
<1>3. /\ \A i \in 1..Len(a) : (i \in 1..Len(s) /\ a[i] = s[i]) \/ a[i] = t[1]
      /\ \A i \in 1..Len(b) : b[i] = t[i + 1] /\ i + 1 \in 1..Len(t)
      /\ 1 \in 1..Len(t)
  BY <1>1
<1> QED BY <1>1, <1>2, <1>3 DEF a, b

\* What is sent so far is a prefix of what is sent in the end.
LEMMA PrefixOfConcat ==
  ASSUME NEW s \in Seq(Frame), NEW t \in Seq(Frame), NEW e \in Seq(Frame)
  PROVE  IsPrefixOf(s, s \o t) /\ IsPrefixOf(s, (s \o t) \o e)
<1>1. \A u \in Seq(Frame) : Len(s) <= Len(u) /\ (\A i \in 1..Len(s) : s[i] = u[i]) => IsPrefixOf(s, u)
  <2> TAKE u \in Seq(Frame)
  <2> HAVE Len(s) <= Len(u) /\ \A i \in 1..Len(s) : s[i] = u[i]
  <2>1. /\ Len(s) \in Nat /\ Len(u) \in Nat /\ SubSeq(u, 1, Len(s)) \in Seq(Frame)
        /\ Len(SubSeq(u, 1, Len(s))) = Len(s) /\ \A i \in 1..Len(s) : SubSeq(u, 1, Len(s))[i] = u[i]
    OBVIOUS
  <2>2. s = SubSeq(u, 1, Len(s))
    BY <2>1, SameSeq
  <2> QED BY <2>2 DEF IsPrefixOf
<1>2. /\ s \o t \in Seq(Frame) /\ Len(s \o t) = Len(s) + Len(t) /\ Len(s) \in Nat /\ Len(t) \in Nat
      /\ \A i \in 1..Len(s) : (s \o t)[i] = s[i]
  BY ConcatFacts
<1>3. /\ (s \o t) \o e \in Seq(Frame) /\ Len((s \o t) \o e) = Len(s) + Len(t) + Len(e) /\ Len(e) \in Nat
      /\ \A i \in 1..(Len(s) + Len(t)) : ((s \o t) \o e)[i] = (s \o t)[i]
  BY <1>2, ConcatFacts
<1> DEFINE u == s \o t
           v == (s \o t) \o e
<1>4. u \in Seq(Frame) /\ Len(s) <= Len(u) /\ \A i \in 1..Len(s) : s[i] = u[i]
  BY <1>2
<1>5. v \in Seq(Frame) /\ Len(s) <= Len(v) /\ \A i \in 1..Len(s) : s[i] = v[i]
  BY <1>2, <1>3
<1> HIDE DEF u, v
<1>6. IsPrefixOf(s, u) /\ IsPrefixOf(s, v)
  BY <1>1, <1>4, <1>5
<1> QED BY <1>6 DEF u, v

\* The frames of the dialects, and what they show.
LEMMA DialectFacts ==
  ASSUME NEW d \in {"openai", "anthropic"}
  PROVE  /\ Opening(d) \in Seq(Frame) /\ Ending(d) \in Seq(Frame) /\ Failing(d) \in Seq(Frame)
         /\ \A i \in 1..Len(Opening(d)) : Opening(d)[i] # "error" /\ Opening(d)[i] \notin Success
         /\ \A i \in 1..Len(Ending(d)) : Ending(d)[i] # "error"
         /\ \A i \in 1..Len(Failing(d)) : Failing(d)[i] \notin Success
<1>1. CASE d = "openai"
  BY <1>1 DEF Opening, Ending, Failing, Frame, Success
<1>2. CASE d = "anthropic"
  BY <1>2 DEF Opening, Ending, Failing, Frame, Success
<1> QED BY <1>1, <1>2

\* The body of an answer grows by one token.
LEMMA BodyFacts ==
  ASSUME NEW d \in {"openai", "anthropic"}, NEW n \in Nat
  PROVE  /\ Body(d, n) \in Seq(Frame) /\ <<"token">> \in Seq(Frame) /\ Body(d, 0) = Opening(d) /\ Tokens(n) \in Seq(Frame)
         /\ Body(d, n) \o <<"token">> = Body(d, n + 1)
<1> DEFINE o == Opening(d)
<1>1. o \in Seq(Frame) /\ <<"token">> \in Seq(Frame)
  BY DialectFacts DEF Frame
<1>2. \A m \in Nat : Tokens(m) \in Seq(Frame) /\ Len(Tokens(m)) = m /\ \A i \in 1..m : Tokens(m)[i] = "token"
  BY DEF Tokens, Frame
<1> HIDE DEF o
<1>3. ASSUME NEW m \in Nat
      PROVE  /\ o \o Tokens(m) \in Seq(Frame) /\ Len(o \o Tokens(m)) = Len(o) + m /\ Len(o) \in Nat
             /\ \A i \in 1..(Len(o) + m) : (o \o Tokens(m))[i] = IF i <= Len(o) THEN o[i] ELSE "token"
  <2> DEFINE t == Tokens(m)
  <2>1. t \in Seq(Frame) /\ Len(t) = m /\ \A i \in 1..m : t[i] = "token"
    BY <1>2
  <2> HIDE DEF t
  <2>2. /\ o \o t \in Seq(Frame) /\ Len(o \o t) = Len(o) + Len(t) /\ Len(o) \in Nat
        /\ \A i \in 1..(Len(o) + Len(t)) : (o \o t)[i] = IF i <= Len(o) THEN o[i] ELSE t[i - Len(o)]
    BY <1>1, <2>1, ConcatFacts, Zenon
  <2>3. \A i \in 1..(Len(o) + m) : i > Len(o) => i - Len(o) \in 1..m
    BY <2>2
  <2>4. \A i \in 1..(Len(o) + m) : (o \o t)[i] = IF i <= Len(o) THEN o[i] ELSE "token"
    BY <2>1, <2>2, <2>3
  <2> QED BY <2>1, <2>2, <2>4 DEF t
<1>4. o \o Tokens(0) = o
  <2> DEFINE u == o \o Tokens(0)
  <2>1. u \in Seq(Frame) /\ Len(u) = Len(o) /\ \A i \in 1..Len(o) : u[i] = o[i]
    BY <1>3
  <2> HIDE DEF u
  <2>2. u = o
    BY <1>1, <2>1, SameSeq
  <2> QED BY <2>2 DEF u
<1>5. (o \o Tokens(n)) \o <<"token">> = o \o Tokens(n + 1)
  <2> DEFINE u == o \o Tokens(n)
             v == o \o Tokens(n + 1)
             w == u \o <<"token">>
  <2>1. /\ u \in Seq(Frame) /\ Len(u) = Len(o) + n /\ Len(o) \in Nat
        /\ \A i \in 1..(Len(o) + n) : u[i] = IF i <= Len(o) THEN o[i] ELSE "token"
    BY <1>3, Zenon
  <2>2. /\ v \in Seq(Frame) /\ Len(v) = Len(o) + (n + 1)
        /\ \A i \in 1..(Len(o) + (n + 1)) : v[i] = IF i <= Len(o) THEN o[i] ELSE "token"
    <3>1. n + 1 \in Nat
      OBVIOUS
    <3> QED BY <1>3, <3>1, Zenon
  <2> HIDE DEF u, v
  <2>3. /\ w \in Seq(Frame) /\ Len(w) = Len(o) + n + 1
        /\ \A i \in 1..(Len(o) + n) : w[i] = u[i]
        /\ w[Len(o) + n + 1] = "token"
    BY <1>1, <2>1, ConcatFacts
  <2> HIDE DEF w
  <2>4. \A i \in 1..(Len(o) + n + 1) : w[i] = v[i]
    <3> TAKE i \in 1..(Len(o) + n + 1)
    <3>1. CASE i = Len(o) + n + 1
      BY <2>1, <2>2, <2>3, <3>1
    <3>2. CASE i # Len(o) + n + 1
      BY <2>1, <2>2, <2>3, <3>2
    <3> QED BY <3>1, <3>2
  <2>5. w = v
    BY <2>1, <2>2, <2>3, <2>4, SameSeq
  <2> QED BY <2>5 DEF u, v, w
<1> QED BY <1>1, <1>2, <1>3, <1>4, <1>5, Zenon DEF Body, o

\* Nothing is appended when nothing is to be sent.
LEMMA NothingMore == \A s \in Seq(Frame) : s \o <<>> = s
<1> TAKE s \in Seq(Frame)
<1>1. <<>> \in Seq(Frame) /\ Len(<<>>) = 0
  OBVIOUS
<1>2. s \o <<>> \in Seq(Frame) /\ Len(s \o <<>>) = Len(s) /\ \A i \in 1..Len(s) : (s \o <<>>)[i] = s[i]
  BY <1>1, ConcatFacts
<1> QED BY <1>2, SameSeq

\* The exchanges are independent.
LEMMA OneExchange ==
  ASSUME HttpInv, NEW x \in Exchange, NEW r, ExchangeOK(r), Put(x, r)
  PROVE  HttpInv'
BY DEF HttpInv, Put

\* Frames are to be sent: they are shown for what they show, and if the client is there
\* what it will have been sent then is the beginning of an answer.
LEMMA SendKeeps ==
  ASSUME NEW r \in ExchangeRecord, NEW f \in Seq(Frame), NEW next \in {"pulling", "closing"},
         Shows(r, r.frames), Shows(r, f), r.stream, r.dialect # "none", r.finals = 0,
         next = "pulling" => r.result = "none" /\ ~r.error,
         next = "closing" => (r.result = "complete" <=> ~r.error),
         Begins(r.dialect, r.frames),
         r.here => r.frames \o f = IF next = "pulling" THEN Body(r.dialect, r.tokens)
                                   ELSE Body(r.dialect, r.tokens) \o End(r)
  PROVE  ExchangeOK(Send(r, f, next))
<1> DEFINE n == Send(r, f, next)
<1>1. /\ n \in ExchangeRecord /\ n.pc = "sending" /\ n.todo = f /\ n.next = next /\ n.frames = r.frames
      /\ n.stream = r.stream /\ n.dialect = r.dialect /\ n.finals = r.finals /\ n.result = r.result
      /\ n.error = r.error /\ n.here = r.here /\ n.tokens = r.tokens
  BY ZenonT(30) DEF Send, ExchangeRecord
<1> HIDE DEF n
<1>2. Stands(n)
  BY <1>1, Zenon DEF Stands
<1>3. Shows(n, n.frames) /\ Shows(n, n.todo)
  BY <1>1 DEF Shows
<1>4. Sent(n)
  BY <1>1, Zenon DEF Sent, End
<1> QED BY <1>1, <1>2, <1>3, <1>4 DEF ExchangeOK, n

\* What is sent of a body, or of a body with its ending, is the beginning of an answer.
LEMMA BeginsFacts ==
  ASSUME NEW d \in {"openai", "anthropic"}, NEW n \in 0..MaxTokens, NEW s \in Seq(Frame), NEW t \in Seq(Frame),
         s \o t \in {Body(d, n), Body(d, n) \o Ending(d), Body(d, n) \o Failing(d)}
  PROVE  Begins(d, s)
<1>1. n \in Nat /\ Ending(d) \in Seq(Frame) /\ Failing(d) \in Seq(Frame)
  BY DialectFacts, HttpAssumption
<1>2. CASE s \o t = Body(d, n)
  <2>1. IsPrefixOf(s, (s \o t) \o Ending(d))
    BY <1>1, PrefixOfConcat
  <2>2. IsPrefixOf(s, Opening(d) \o Tokens(n) \o Ending(d))
    BY <1>2, <2>1 DEF Body
  <2> QED BY <2>2 DEF Begins
<1>3. ASSUME NEW e \in {Ending(d), Failing(d)}, s \o t = Body(d, n) \o e PROVE Begins(d, s)
  <2>1. IsPrefixOf(s, s \o t)
    BY PrefixOfConcat
  <2>2. IsPrefixOf(s, Opening(d) \o Tokens(n) \o e)
    BY <1>3, <2>1 DEF Body
  <2> QED BY <2>2 DEF Begins
<1> QED BY <1>2, <1>3, Zenon

\* Nothing is the beginning of every answer.
LEMMA EmptyBegins ==
  ASSUME NEW d \in {"openai", "anthropic"}
  PROVE  Begins(d, <<>>)
<1> DEFINE b == Opening(d)
<1>1. 0 \in 0..MaxTokens /\ <<>> \in Seq(Frame) /\ b \in Seq(Frame) /\ Body(d, 0) = b
  <2>1. 0 \in Nat /\ 0 \in 0..MaxTokens
    BY HttpAssumption
  <2>2. Body(d, 0) = b
    BY <2>1, BodyFacts, Zenon
  <2>3. b \in Seq(Frame)
    BY DialectFacts
  <2> QED BY <2>1, <2>2, <2>3
<1> HIDE DEF b
<1>2. <<>> \o b = b
  <2> DEFINE e == <<>>
  <2>1. e \in Seq(Frame) /\ Len(e) = 0
    OBVIOUS
  <2> HIDE DEF e
  <2>2. e \o b \in Seq(Frame) /\ Len(e \o b) = Len(b) /\ \A i \in 1..Len(b) : (e \o b)[i] = b[i]
    BY <1>1, <2>1, ConcatFacts
  <2>3. e \o b = b
    BY <1>1, <2>2, SameSeq
  <2> QED BY <2>3 DEF e
<1> QED BY <1>1, <1>2, BeginsFacts, Zenon

\* An exchange is refused, served or dropped, and a client leaves.
LEMMA QuietExchange ==
  ASSUME HttpInv, NEW x \in Exchange, Refuse(x) \/ Serve(x) \/ ClientLeaves(x) \/ Drop(x) \/ Disconnected(x)
  PROVE  HttpInv'
<1> DEFINE r == http[x]
<1>0. ExchangeOK(r)
  BY DEF HttpInv
<1> USE <1>0 DEF ExchangeOK
<1> HIDE DEF r
<1>1. PICK n : Put(x, n) /\ \/ r.pc = "new" /\ n = [r EXCEPT !.pc = "refused"]
                            \/ r.pc = "handed" /\ ~r.here /\ n = [r EXCEPT !.pc = "dropped"]
                            \/ /\ r.here /\ r.pc \notin {"done", "refused", "dropped"}
                               /\ n = [r EXCEPT !.here = FALSE]
                            \/ r.pc \in {"pulling", "sending"} /\ ~r.here /\ n = [r EXCEPT !.pc = "closing"]
                            \/ /\ r.pc = "new"
                               /\ \E d \in {"openai", "anthropic"}, s \in BOOLEAN :
                                    n = [r EXCEPT !.dialect = d, !.stream = s,
                                                  !.pc = IF s THEN "handed" ELSE "collecting"]
  BY ZenonT(30) DEF Refuse, Serve, ClientLeaves, Drop, Disconnected, r
<1>2. CASE n = [r EXCEPT !.pc = n.pc] /\ \/ r.pc = "new" /\ n.pc = "refused"
                                         \/ r.pc = "handed" /\ ~r.here /\ n.pc = "dropped"
                                         \/ r.pc \in {"pulling", "sending"} /\ ~r.here /\ n.pc = "closing"
  <2>1. /\ n \in ExchangeRecord /\ n.frames = r.frames /\ n.stream = r.stream /\ n.dialect = r.dialect
        /\ n.finals = r.finals /\ n.result = r.result /\ n.error = r.error /\ n.here = r.here /\ n.tokens = r.tokens
    BY <1>2, Zenon DEF ExchangeRecord
  <2>2. Stands(n)
    BY <1>2, <2>1, Zenon DEF Stands
  <2>3. Shows(n, n.frames) /\ Sent(n)
    BY <1>2, <2>1, ZenonT(30) DEF Shows, Sent, Stands
  <2> QED BY <1>1, <1>2, <2>1, <2>2, <2>3, OneExchange, Zenon
<1>3. CASE r.pc \notin {"done", "refused", "dropped"} /\ n = [r EXCEPT !.here = FALSE]
  <2>1. /\ n \in ExchangeRecord /\ n.frames = r.frames /\ n.stream = r.stream /\ n.dialect = r.dialect
        /\ n.finals = r.finals /\ n.result = r.result /\ n.error = r.error /\ n.here = FALSE /\ n.tokens = r.tokens
        /\ n.pc = r.pc /\ n.todo = r.todo /\ n.next = r.next
    BY <1>3, Zenon DEF ExchangeRecord
  <2>2. Stands(n)
    BY <1>3, <2>1, ZenonT(30) DEF Stands
  <2>3. Shows(n, n.frames) /\ Sent(n) /\ (n.pc = "sending" => Shows(n, n.todo))
    BY <1>3, <2>1 DEF Shows, Sent
  <2> QED BY <1>1, <2>1, <2>2, <2>3, OneExchange, Zenon
<1>4. ASSUME NEW d \in {"openai", "anthropic"}, NEW s \in BOOLEAN, r.pc = "new",
             n = [r EXCEPT !.dialect = d, !.stream = s, !.pc = IF s THEN "handed" ELSE "collecting"]
      PROVE  HttpInv'
  <2>1. /\ n \in ExchangeRecord /\ n.frames = r.frames /\ n.stream = s /\ n.dialect = d
        /\ n.finals = r.finals /\ n.result = r.result /\ n.error = r.error /\ n.here = r.here /\ n.tokens = r.tokens
        /\ n.pc = IF s THEN "handed" ELSE "collecting"
    BY <1>4, Zenon DEF ExchangeRecord
  <2>2. Stands(n)
    BY <1>4, <2>1 DEF Stands
  <2>3. Shows(n, n.frames) /\ Sent(n) /\ n.pc # "sending"
    BY <1>4, <2>1 DEF Shows, Sent
  <2>4. Begins(n.dialect, n.frames)
    BY <1>4, <2>1, EmptyBegins DEF Stands
  <2> QED BY <1>1, <2>1, <2>2, <2>3, <2>4, OneExchange, Zenon
<1>5. n \in {[r EXCEPT !.pc = "refused"], [r EXCEPT !.pc = "dropped"], [r EXCEPT !.pc = "closing"]} =>
        n = [r EXCEPT !.pc = n.pc]
  BY Zenon DEF ExchangeRecord
<1>6. /\ [r EXCEPT !.pc = "refused"].pc = "refused" /\ [r EXCEPT !.pc = "dropped"].pc = "dropped"
      /\ [r EXCEPT !.pc = "closing"].pc = "closing"
  BY Zenon DEF ExchangeRecord
<1> QED BY <1>1, <1>2, <1>3, <1>4, <1>5, <1>6, Zenon

\* What is known of a streamed exchange between two awaits.
LEMMA PullingFacts ==
  ASSUME HttpInv, NEW x \in Exchange, http[x].pc \in {"pulling", "handed"}
  PROVE  LET r == http[x] IN
         /\ r \in ExchangeRecord /\ ExchangeOK(r) /\ r.stream /\ r.dialect \in {"openai", "anthropic"} /\ r.finals = 0
         /\ r.result = "none" /\ ~r.error /\ r.frames \in Seq(Frame) /\ r.tokens \in Nat
         /\ Opening(r.dialect) \in Seq(Frame) /\ Ending(r.dialect) \in Seq(Frame) /\ Failing(r.dialect) \in Seq(Frame)
<1> DEFINE r == http[x]
<1>1. ExchangeOK(r) /\ r \in ExchangeRecord /\ Stands(r) /\ r.pc \in {"pulling", "handed"}
  BY DEF HttpInv, ExchangeOK
<1> HIDE DEF r
<1>2. /\ r.frames \in Seq(Frame) /\ r.tokens \in 0..MaxTokens /\ r.dialect \in {"none", "openai", "anthropic"}
  BY <1>1, Zenon DEF ExchangeRecord
<1>3. r.stream /\ r.dialect # "none" /\ r.finals = 0 /\ r.result = "none" /\ ~r.error
  BY <1>1, Zenon DEF Stands
<1>4. r.tokens \in Nat
  BY <1>2, HttpAssumption
<1> QED BY <1>1, <1>2, <1>3, <1>4, DialectFacts DEF r

\* The generator begins, or takes the next token, the end or the failure of its stream.
LEMMA SendingSteps ==
  ASSUME HttpInv, NEW x \in Exchange, Begin(x) \/ Token(x) \/ Ends(x) \/ Fails(x)
  PROVE  HttpInv'
<1> DEFINE r == http[x]
<1>1. CASE Begin(x)
  <2>1. r.pc = "handed" /\ Put(x, Send(r, Opening(r.dialect), "pulling"))
    BY <1>1 DEF Begin
  <2>2. /\ r \in ExchangeRecord /\ ExchangeOK(r) /\ r.stream /\ r.dialect \in {"openai", "anthropic"} /\ r.finals = 0
        /\ r.result = "none" /\ ~r.error /\ r.frames = <<>> /\ r.tokens = 0 /\ Opening(r.dialect) \in Seq(Frame)
    BY <2>1, PullingFacts, Zenon DEF ExchangeOK, Stands
  <2>3. Shows(r, Opening(r.dialect)) /\ Shows(r, r.frames) /\ Begins(r.dialect, r.frames)
    BY <2>2, DialectFacts DEF Shows, ExchangeOK
  <2>4. r.frames \o Opening(r.dialect) = Body(r.dialect, r.tokens)
    <3> DEFINE d == r.dialect
               b == Opening(d)
               e == r.frames
    <3>0. e = <<>> /\ b \in Seq(Frame) /\ d \in {"openai", "anthropic"}
      BY <2>2
    <3>1. Body(d, 0) = b /\ b \in Seq(Frame) /\ e \in Seq(Frame) /\ Len(e) = 0
      <4>1. 0 \in Nat
        OBVIOUS
      <4>2. Body(d, 0) = b
        BY <3>0, <4>1, BodyFacts, Zenon
      <4> QED BY <3>0, <4>2
    <3> HIDE DEF b, e
    <3>2. e \o b \in Seq(Frame) /\ Len(e \o b) = Len(b) /\ \A i \in 1..Len(b) : (e \o b)[i] = b[i]
      BY <3>1, ConcatFacts
    <3>3. e \o b = b
      BY <3>1, <3>2, SameSeq
    <3> QED BY <2>2, <3>1, <3>3 DEF b, e
  <2> HIDE DEF r
  <2>5. ExchangeOK(Send(r, Opening(r.dialect), "pulling"))
    BY <2>2, <2>3, <2>4, SendKeeps, Zenon
  <2> QED BY <2>1, <2>5, OneExchange
<1>2. CASE Token(x)
  <2> DEFINE q == [r EXCEPT !.tokens = @ + 1]
  <2>1. r.pc = "pulling" /\ r.tokens < MaxTokens /\ Put(x, Send(q, <<"token">>, "pulling"))
    BY <1>2 DEF Token
  <2>2. /\ r \in ExchangeRecord /\ ExchangeOK(r) /\ r.stream /\ r.dialect \in {"openai", "anthropic"} /\ r.finals = 0
        /\ r.result = "none" /\ ~r.error /\ r.frames \in Seq(Frame) /\ r.tokens \in Nat
    BY <2>1, PullingFacts
  <2> HIDE DEF r
  <2>3. /\ q \in ExchangeRecord /\ q.stream /\ q.dialect = r.dialect /\ q.finals = 0 /\ q.result = "none"
        /\ q.error = r.error /\ q.frames = r.frames /\ q.tokens = r.tokens + 1 /\ q.here = r.here
    <3>1. r.tokens + 1 \in 0..MaxTokens
      BY <2>1, <2>2, HttpAssumption
    <3> DEFINE k == r.tokens + 1
    <3>2. q = [r EXCEPT !.tokens = k] /\ k \in 0..MaxTokens
      BY <3>1
    <3> HIDE DEF k, q
    <3>3. q \in ExchangeRecord /\ q.tokens = k
      BY <2>2, <3>2, Zenon DEF ExchangeRecord
    <3>4. q.stream = r.stream /\ q.error = r.error /\ q.here = r.here
      BY <2>2, <3>2, Zenon DEF ExchangeRecord
    <3>5. q.dialect = r.dialect /\ q.finals = r.finals /\ q.result = r.result /\ q.frames = r.frames
      BY <2>2, <3>2, Zenon DEF ExchangeRecord
    <3> QED BY <2>2, <3>3, <3>4, <3>5 DEF k
  <2> HIDE DEF q
  <2>4. <<"token">> \in Seq(Frame) /\ Body(r.dialect, r.tokens) \o <<"token">> = Body(r.dialect, r.tokens + 1)
    BY <2>2, BodyFacts, Zenon
  <2>5. Shows(q, <<"token">>) /\ Shows(q, q.frames) /\ Begins(q.dialect, q.frames)
    BY <2>2, <2>3 DEF Shows, ExchangeOK, Success
  <2>6. q.here => q.frames \o <<"token">> = Body(q.dialect, q.tokens)
    BY <2>1, <2>2, <2>3, <2>4 DEF ExchangeOK, Sent
  <2>7. ExchangeOK(Send(q, <<"token">>, "pulling"))
    BY <2>2, <2>3, <2>4, <2>5, <2>6, SendKeeps, Zenon
  <2> QED BY <2>1, <2>7, OneExchange
<1>3. ASSUME NEW q, NEW f, r.pc = "pulling", Put(x, Send(q, f, "closing")),
             \/ q = [r EXCEPT !.result = "complete"] /\ f = Ending(r.dialect)
             \/ q = [r EXCEPT !.error = TRUE] /\ f = Failing(r.dialect)
      PROVE  HttpInv'
  <2>2. /\ r \in ExchangeRecord /\ ExchangeOK(r) /\ r.stream /\ r.dialect \in {"openai", "anthropic"} /\ r.finals = 0
        /\ r.result = "none" /\ ~r.error /\ f \in Seq(Frame)
    BY <1>3, PullingFacts
  <2> HIDE DEF r
  <2>3. /\ q \in ExchangeRecord /\ q.stream /\ q.dialect = r.dialect /\ q.finals = 0
        /\ q.frames = r.frames /\ q.tokens = r.tokens /\ q.here = r.here
        /\ \/ q.result = "complete" /\ ~q.error /\ f = Ending(q.dialect)
           \/ q.result = "none" /\ q.error /\ f = Failing(q.dialect)
    BY <1>3, <2>2, ZenonT(30) DEF ExchangeRecord
  <2>4. f = End(q)
    BY <2>3 DEF End
  <2>5. Shows(q, f)
    BY <2>2, <2>3, DialectFacts DEF Shows
  <2>6. Shows(q, q.frames) /\ Begins(q.dialect, q.frames)
    BY <2>2, <2>3 DEF Shows, ExchangeOK
  <2>7. q.here => q.frames \o f = Body(q.dialect, q.tokens) \o End(q)
    BY <1>3, <2>2, <2>3, <2>4, Zenon DEF ExchangeOK, Sent
  <2>8. ExchangeOK(Send(q, f, "closing"))
    BY <2>2, <2>3, <2>5, <2>6, <2>7, SendKeeps, Zenon
  <2> QED BY <1>3, <2>8, OneExchange
<1> QED BY <1>1, <1>2, <1>3 DEF Ends, Fails, FailureFrames

\* One frame is yielded, or the next await is reached.
LEMMA YieldKeeps ==
  ASSUME HttpInv, NEW x \in Exchange, Yield(x)
  PROVE  HttpInv'
<1> DEFINE r == http[x]
<1>0. ExchangeOK(r) /\ r.pc = "sending"
  BY DEF HttpInv, Yield
<1>1. PICK n : Put(x, n) /\ IF r.todo = <<>> THEN n = [r EXCEPT !.pc = r.next]
                            ELSE n = [r EXCEPT !.todo = Tail(r.todo),
                                               !.frames = IF r.here THEN Append(r.frames, Head(r.todo)) ELSE r.frames]
  BY DEF Yield
<1> HIDE DEF r
<1>2. /\ r \in ExchangeRecord /\ Stands(r) /\ Shows(r, r.frames) /\ Shows(r, r.todo) /\ Sent(r) /\ r.stream
      /\ Begins(r.dialect, r.frames)
  BY <1>0, Zenon DEF ExchangeOK, Stands
<1>3. /\ r.frames \in Seq(Frame) /\ r.todo \in Seq(Frame) /\ r.tokens \in 0..MaxTokens /\ r.next \in {"pulling", "closing"}
      /\ r.dialect \in {"openai", "anthropic"}
  BY <1>0, <1>2, Zenon DEF ExchangeRecord, Stands
<1>4. CASE r.todo = <<>>
  <2>1. n = [r EXCEPT !.pc = r.next]
    BY <1>1, <1>4
  <2>2. /\ n \in ExchangeRecord /\ n.pc = r.next /\ n.frames = r.frames /\ n.stream = r.stream /\ n.dialect = r.dialect
        /\ n.finals = r.finals /\ n.result = r.result /\ n.error = r.error /\ n.here = r.here /\ n.tokens = r.tokens
    BY <1>2, <1>3, <2>1, Zenon DEF ExchangeRecord
  <2>3. r.frames \o r.todo = r.frames
    BY <1>3, <1>4, NothingMore
  <2>4. Stands(n)
    BY <1>0, <1>2, <1>3, <2>2, Zenon DEF Stands
  <2>5. Shows(n, n.frames)
    BY <1>2, <2>2 DEF Shows
  <2>6. Sent(n)
    BY <1>0, <1>2, <1>3, <2>2, <2>3, Zenon DEF Sent, End
  <2> QED BY <1>1, <1>2, <1>3, <2>2, <2>4, <2>5, <2>6, OneExchange DEF ExchangeOK
<1>5. CASE r.todo # <<>>
  <2> DEFINE t == Tail(r.todo)
             a == Append(r.frames, Head(r.todo))
             f == IF r.here THEN a ELSE r.frames
  <2>1. /\ a \in Seq(Frame) /\ t \in Seq(Frame) /\ a \o t = r.frames \o r.todo
        /\ \A i \in 1..Len(a) : (i \in 1..Len(r.frames) /\ a[i] = r.frames[i]) \/ a[i] = r.todo[1]
        /\ \A i \in 1..Len(t) : t[i] = r.todo[i + 1] /\ i + 1 \in 1..Len(r.todo)
        /\ 1 \in 1..Len(r.todo)
    BY <1>3, <1>5, OneMoreFrame, Zenon
  <2>2. n = [r EXCEPT !.todo = t, !.frames = f] /\ f \in Seq(Frame)
    BY <1>1, <1>3, <1>5, <2>1
  <2> HIDE DEF t, a, f
  <2>3. /\ n \in ExchangeRecord /\ n.pc = r.pc /\ n.frames = f /\ n.todo = t /\ n.stream = r.stream
        /\ n.dialect = r.dialect /\ n.next = r.next
        /\ n.finals = r.finals /\ n.result = r.result /\ n.error = r.error /\ n.here = r.here /\ n.tokens = r.tokens
    BY <1>2, <2>1, <2>2, Zenon DEF ExchangeRecord
  <2>4. Stands(n)
    BY <1>0, <1>2, <2>3, Zenon DEF Stands
  <2>5. Shows(n, t) /\ Shows(n, a)
    BY <1>2, <2>1, <2>3, ZenonT(30) DEF Shows
  <2>6. Shows(n, f)
    BY <1>2, <2>3, <2>5 DEF Shows, f
  <2>7. Sent(n)
    BY <1>0, <1>2, <2>1, <2>3, Zenon DEF Sent, End, f
  <2>8. Begins(n.dialect, f)
    <3>1. CASE ~r.here
      BY <1>2, <2>3, <3>1 DEF f
    <3>2. CASE r.here
      <4>1. a \o t \in {Body(r.dialect, r.tokens), Body(r.dialect, r.tokens) \o Ending(r.dialect),
                        Body(r.dialect, r.tokens) \o Failing(r.dialect)}
        BY <1>0, <1>2, <2>1, <3>2, Zenon DEF Sent, End
      <4>2. Begins(r.dialect, a)
        BY <1>3, <2>1, <4>1, BeginsFacts, Zenon
      <4> QED BY <2>3, <3>2, <4>2 DEF f
    <3> QED BY <3>1, <3>2
  <2> QED BY <1>1, <1>0, <2>3, <2>4, <2>5, <2>6, <2>7, <2>8, OneExchange DEF ExchangeOK
<1> QED BY <1>4, <1>5

\* The answer in one piece, and the end of a stream.
LEMMA EndingSteps ==
  ASSUME HttpInv, NEW x \in Exchange, AnswerWhole(x) \/ CloseStream(x)
  PROVE  HttpInv'
<1> DEFINE r == http[x]
<1>0. ExchangeOK(r)
  BY DEF HttpInv
<1>1. CASE r.pc = "collecting" /\ AnswerWhole(x)
  <2>a. PICK f \in {<<"body">>, <<>>} : \E n :
            Put(x, n) /\ \/ n = [r EXCEPT !.pc = "done", !.result = "complete", !.finals = 1, !.outcome = "ok", !.frames = f]
                         \/ n = [r EXCEPT !.pc = "closing", !.error = TRUE]
    BY <1>1, Zenon DEF AnswerWhole
  <2>0. PICK n :
            Put(x, n) /\ \/ n = [r EXCEPT !.pc = "done", !.result = "complete", !.finals = 1, !.outcome = "ok", !.frames = f]
                         \/ n = [r EXCEPT !.pc = "closing", !.error = TRUE]
    BY <2>a
  <2> HIDE DEF r
  <2>1. r \in ExchangeRecord /\ Stands(r) /\ ~r.stream /\ ~r.error /\ r.frames = <<>> /\ r.finals = 0 /\ r.dialect # "none"
    BY <1>0, <1>1 DEF ExchangeOK, Stands
  <2>2. CASE n = [r EXCEPT !.pc = "closing", !.error = TRUE]
    <3>1. /\ n \in ExchangeRecord /\ n.pc = "closing" /\ n.error /\ ~n.stream /\ n.frames = <<>> /\ n.finals = 0
          /\ n.dialect = r.dialect
      BY <2>1, <2>2, Zenon DEF ExchangeRecord
    <3>2. Stands(n)
      BY <2>1, <3>1, Zenon DEF Stands
    <3>3. Shows(n, n.frames) /\ Sent(n)
      BY <3>1 DEF Shows, Sent
    <3> QED BY <2>0, <3>1, <3>2, <3>3, OneExchange DEF ExchangeOK
  <2>3. CASE n = [r EXCEPT !.pc = "done", !.result = "complete", !.finals = 1, !.outcome = "ok", !.frames = f]
    <3>0. f \in Seq(Frame)
      <4>1. "body" \in Frame
        BY DEF Frame
      <4>2. CASE f = <<"body">>
        BY <4>1, <4>2
      <4>3. CASE f = <<>>
        BY <4>3
      <4> QED BY <4>2, <4>3
    <3>1. /\ n \in ExchangeRecord /\ n.pc = "done" /\ ~n.error /\ ~n.stream /\ n.frames = f /\ n.finals = 1
          /\ n.dialect = r.dialect /\ n.result = "complete" /\ n.outcome = "ok"
      BY <2>1, <2>3, <3>0, ZenonT(30) DEF ExchangeRecord
    <3>2. Stands(n)
      BY <2>1, <3>1, Zenon DEF Stands, OutcomeOf
    <3>3. Shows(n, n.frames) /\ Sent(n)
      BY <3>1 DEF Shows, Sent
    <3> QED BY <2>0, <3>1, <3>2, <3>3, OneExchange DEF ExchangeOK
  <2> QED BY <2>0, <2>2, <2>3
<1>2. CASE CloseStream(x)
  <2>a. PICK result \in {"complete", "cancelled", "none"} : \E n :
          /\ r.pc = "closing" /\ (r.result # "none" => result = r.result) /\ Put(x, n)
          /\ n = [r EXCEPT !.pc = "done", !.result = result, !.outcome = OutcomeOf(r.error, result),
                           !.finals = FinalsAfter(r, result = "none")]
    BY <1>2, Zenon DEF CloseStream
  <2>0. PICK n :
          /\ r.pc = "closing" /\ (r.result # "none" => result = r.result) /\ Put(x, n)
          /\ n = [r EXCEPT !.pc = "done", !.result = result, !.outcome = OutcomeOf(r.error, result),
                           !.finals = FinalsAfter(r, result = "none")]
    BY <2>a
  <2> HIDE DEF r
  <2>1. /\ r \in ExchangeRecord /\ Stands(r) /\ r.finals = 0 /\ Shows(r, r.frames) /\ Sent(r) /\ r.dialect # "none"
        /\ (r.stream => Begins(r.dialect, r.frames)) /\ r.error \in BOOLEAN
    BY <1>0, <2>0, Zenon DEF ExchangeOK, Stands, ExchangeRecord
  <2> DEFINE o == OutcomeOf(r.error, result)
  <2>2. o \in {"ok", "error", "cancelled"} /\ FinalsAfter(r, result = "none") = 1
    BY <2>1 DEF OutcomeOf, FinalsAfter
  <2> HIDE DEF o
  <2>3. n = [r EXCEPT !.pc = "done", !.result = result, !.outcome = o, !.finals = 1]
    BY <2>0, <2>2, Zenon DEF o
  <2>4. /\ n \in ExchangeRecord /\ n.pc = "done" /\ n.error = r.error /\ n.stream = r.stream /\ n.frames = r.frames
        /\ n.finals = 1 /\ n.dialect = r.dialect /\ n.result = result /\ n.outcome = o /\ n.here = r.here /\ n.tokens = r.tokens
    BY <2>1, <2>2, <2>3, ZenonT(30) DEF ExchangeRecord
  <2>5. Stands(n)
    BY <2>0, <2>1, <2>4 DEF Stands, o
  <2>6. Shows(n, n.frames) /\ Sent(n)
    BY <2>0, <2>1, <2>4, ZenonT(30) DEF Shows, Sent, End
  <2> QED BY <2>0, <2>1, <2>4, <2>5, <2>6, OneExchange, Zenon DEF ExchangeOK
<1> QED BY <1>1, <1>2 DEF AnswerWhole

\* HttpInv holds in every state.
LEMMA HttpInvariant == HttpSpec => []HttpInv
<1>1. HttpInit => HttpInv
  <2> SUFFICES ASSUME HttpInit PROVE HttpInv
    OBVIOUS
  <2>1. New \in ExchangeRecord
    BY HttpAssumption DEF New, ExchangeRecord
  <2>2. Stands(New) /\ Shows(New, New.frames) /\ Sent(New) /\ ~New.stream /\ New.pc # "sending"
    BY DEF New, Stands, Shows, Sent
  <2>3. ExchangeOK(New)
    BY <2>1, <2>2 DEF ExchangeOK
  <2> QED BY <2>3 DEF HttpInit, HttpInv
<1>2. HttpInv /\ [HttpNext]_http => HttpInv'
  <2> SUFFICES ASSUME HttpInv, [HttpNext]_http PROVE HttpInv'
    OBVIOUS
  <2>1. CASE UNCHANGED http
    BY <2>1 DEF HttpInv
  <2>2. CASE HttpNext
    BY <2>2, QuietExchange, SendingSteps, YieldKeeps, EndingSteps DEF HttpNext, Answering
  <2> QED BY <2>1, <2>2
<1> QED BY <1>1, <1>2, PTL DEF HttpSpec

\* What is recorded of an exchange is what its client saw (_sse and _stream of the two
\* routers, finish_generation): the beginning of one answer of its dialect, whole if the
\* client stayed, accounted once and with the outcome that the frames show.
THEOREM AnswerRecorded == HttpSpec => []AnswerIsRecorded
<1>1. ASSUME HttpInv, NEW x \in Exchange
      PROVE  LET r == http[x] IN
             /\ r.stream => \E n \in 0..MaxTokens, end \in {Ending(r.dialect), Failing(r.dialect)} :
                               IsPrefixOf(r.frames, Answer(r, n, end))
             /\ r.pc = "done" /\ r.here /\ r.stream =>
                  r.frames = Answer(r, r.tokens, IF r.error
                               THEN IF r.dialect = "openai" THEN <<"error", "DONE">> ELSE <<"error">>
                               ELSE Ending(r.dialect))
             /\ r.finals = (IF r.pc = "done" THEN 1 ELSE 0)
             /\ r.pc = "dropped" => r.stream /\ ~r.here
             /\ r.pc = "done" =>
                  /\ r.outcome = "ok" => r.result = "complete" /\ ~r.error
                  /\ r.outcome = "cancelled" => ~r.here /\ r.stream
                  /\ \A i \in 1..Len(r.frames) :
                       /\ r.frames[i] = "error" => r.outcome = "error"
                       /\ r.frames[i] \in {"finish", "message_delta", "body"} => r.outcome = "ok"
  <2> DEFINE r == http[x]
  <2>1. ExchangeOK(r)
    BY <1>1 DEF HttpInv
  <2> HIDE DEF r
  <2>2. r \in ExchangeRecord /\ Stands(r) /\ Shows(r, r.frames) /\ Sent(r) /\ (r.stream => Begins(r.dialect, r.frames))
    BY <2>1 DEF ExchangeOK
  <2>3. r.stream => \E n \in 0..MaxTokens, end \in {Ending(r.dialect), Failing(r.dialect)} :
                      IsPrefixOf(r.frames, Answer(r, n, end))
    BY <2>2 DEF Begins, Answer
  <2>4. r.pc = "done" /\ r.here /\ r.stream =>
          r.frames = Answer(r, r.tokens, IF r.error
                       THEN IF r.dialect = "openai" THEN <<"error", "DONE">> ELSE <<"error">>
                       ELSE Ending(r.dialect))
    BY <2>2, Zenon DEF Sent, Answer, Body, End, Failing
  <2>5. r.finals = (IF r.pc = "done" THEN 1 ELSE 0) /\ (r.pc = "dropped" => r.stream /\ ~r.here)
    BY <2>2, Zenon DEF Stands
  <2>6. r.pc = "done" => /\ r.outcome = "ok" => r.result = "complete" /\ ~r.error
                         /\ r.outcome = "cancelled" => ~r.here /\ r.stream
    BY <2>2, Zenon DEF Stands, OutcomeOf, ExchangeRecord
  <2>7. ASSUME r.pc = "done", NEW i \in 1..Len(r.frames)
        PROVE  /\ r.frames[i] = "error" => r.outcome = "error"
               /\ r.frames[i] \in {"finish", "message_delta", "body"} => r.outcome = "ok"
    BY <2>2, <2>7 DEF Stands, OutcomeOf, Shows, Success
  <2> QED BY <2>3, <2>4, <2>5, <2>6, <2>7 DEF r
<1>2. HttpInv => AnswerIsRecorded
  BY <1>1 DEF AnswerIsRecorded, FramesFollowDialect, StayingClientIsAnswered, FinishedOnce, RecordMatchesAnswer
<1> QED BY <1>2, HttpInvariant, PTL
-----------------------------------------------------------------------------
(* The release pipeline                                                    *)

ReleaseSpec == ReleaseInit /\ [][ReleaseNext]_releases

RunRecord ==
  [pc : {"none", "tagged", "valid", "candidate", "scanned", "tagging", "released", "failed"},
   source : Version \cup {<<>>}, changelog : BOOLEAN, seen : SUBSET Version, todo : Seq(Seq(Nat)), day : Nat]

\* t is a tag that the run of v may set, having fetched the tags in seen.
MaySet(v, t, seen) == t = v \/ \E n \in 0..2 : t = SubSeq(v, 1, n) /\ Leads(v, seen, n)

\* A run past its validation has its version in source and changelog, one past its scan has
\* every critical finding excepted on the day of the scan; a run has fetched the tags when
\* it sets them.
RunOK(v, r) ==
  /\ r \in RunRecord
  /\ r.pc \in {"valid", "candidate", "scanned"} \/ r.seen # {} => r.source = v /\ r.changelog
  /\ r.pc = "scanned" \/ r.seen # {} => \A f \in Report[v] : \E e \in Exceptions : e.id = f /\ e.expires >= r.day
  /\ r.pc \in {"tagging", "released"} => r.seen # {}
  /\ r.pc \in {"none", "tagged", "valid", "candidate", "scanned"} => r.seen = {}
  /\ r.pc = "tagging" => Len(r.todo) > 0
  /\ r.pc = "released" => Len(r.todo) = 0
  /\ \A i \in 1..Len(r.todo) : MaySet(v, r.todo[i], r.seen)

\* The tag t of a line is to be set by the run, is set, or belongs to a higher version.
Covered(v, n, r, set) ==
  \/ SubSeq(v, 1, n) \in set
  \/ \E i \in 1..Len(r.todo) : r.todo[i] = SubSeq(v, 1, n)
  \/ \E o \in r.seen : InLine(o, SubSeq(v, 1, n)) /\ Less(v, o)

\* The inductive invariant
ReleaseInv ==
  /\ day \in Nat /\ release \in [Version -> RunRecord]
  /\ \A v \in Version : RunOK(v, release[v])
  /\ \A v \in Version : \A o \in release[v].seen : release[o].pc # "none"
  /\ \A v \in Version : release[v].pc \in {"tagging", "released"} =>
       \A n \in 0..2 : Covered(v, n, release[v], DOMAIN registry)
  /\ \A a \in DOMAIN registry :
       registry[a] \in Version /\ release[registry[a]].seen # {} /\ MaySet(registry[a], a, release[registry[a]].seen)

(* A version is in each of its lines, a line's tag is shorter than a version, and of two *)
(* versions one is lower (_vtuple).                                                      *)
LEMMA VersionFacts ==
  ASSUME NEW v \in Version
  PROVE  /\ v \in Seq(Nat) /\ InLine(v, v)
         /\ \A n \in 0..2 : InLine(v, SubSeq(v, 1, n)) /\ SubSeq(v, 1, n) \in Seq(Nat) /\ \A w \in Version : SubSeq(v, 1, n) # w
         /\ \A w \in Version : v # w => Less(v, w) \/ Less(w, v)
<1>1. /\ v \in Seq(Nat) /\ Len(v) = 3 
  BY ReleaseAssumption
<1>2. ASSUME NEW n \in 0..3 PROVE Len(SubSeq(v, 1, n)) = n /\ SubSeq(v, 1, n) \in Seq(Nat)
  BY <1>1, <1>2
<1>3. SubSeq(v, 1, 3) = v
  BY <1>1
<1>4. ASSUME NEW n \in 0..2 PROVE InLine(v, SubSeq(v, 1, n)) /\ SubSeq(v, 1, n) \in Seq(Nat) /\ \A w \in Version : SubSeq(v, 1, n) # w
  <2>1. n \in 0..3 /\ n # 3
    BY <1>4
  <2>2. Len(SubSeq(v, 1, n)) = n /\ SubSeq(v, 1, n) \in Seq(Nat)
    BY <1>2, <2>1
  <2>3. \A w \in Version : SubSeq(v, 1, n) # w
    BY <2>1, <2>2, ReleaseAssumption, Zenon
  <2> QED BY <2>2, <2>3 DEF InLine
<1>5. ASSUME NEW w \in Version, v # w PROVE Less(v, w) \/ Less(w, v)
  <2>1. w \in Seq(Nat) /\ Len(w) = 3
    BY ReleaseAssumption
  <2>2. v[1] \in Nat /\ v[2] \in Nat /\ v[3] \in Nat /\ w[1] \in Nat /\ w[2] \in Nat /\ w[3] \in Nat
    <3>1. \A s \in Seq(Nat) : \A i \in 1..Len(s) : s[i] \in Nat
      OBVIOUS
    <3>2. 1 \in 1..3 /\ 2 \in 1..3 /\ 3 \in 1..3
      OBVIOUS
    <3> QED BY <1>1, <2>1, <3>1, <3>2, Zenon
  <2>3. v[1] # w[1] \/ v[2] # w[2] \/ v[3] # w[3]
    BY <1>1, <1>5, <2>1
  <2> QED BY <2>2, <2>3 DEF Less
<1> QED BY <1>1, <1>3, <1>4, <1>5 DEF InLine

(* Before any tag is pushed there is no run and the registry is empty. *)
LEMMA ReleaseInitially == ReleaseInit => ReleaseInv
<1> SUFFICES ASSUME ReleaseInit PROVE ReleaseInv
  OBVIOUS
<1>1. NoRun \in RunRecord /\ NoRun.pc = "none" /\ NoRun.seen = {} /\ NoRun.todo = <<>>
  BY DEF NoRun, RunRecord
<1>2. \A v \in Version : release[v] = NoRun
  BY DEF ReleaseInit
<1>3. ASSUME NEW v \in Version PROVE RunOK(v, NoRun)
  BY <1>1 DEF RunOK
<1>4. DOMAIN registry = {} /\ day = 0 /\ release \in [Version -> RunRecord]
  BY <1>1 DEF ReleaseInit
<1> QED BY <1>1, <1>2, <1>3, <1>4 DEF ReleaseInv

(* A run that moves on its own, without setting a tag, keeps the invariant if its record  *)
(* stays right, it keeps the tags it has fetched or fetches them now, and is not undone. *)
LEMMA OneRun ==
  ASSUME ReleaseInv, NEW v \in Version, NEW n, Moves(v, n), RunOK(v, n), n.pc # "none",
         release[v].seen # {} => n.seen = release[v].seen,
         \A o \in n.seen : release[o].pc # "none",
         n.pc \in {"tagging", "released"} => \A k \in 0..2 : Covered(v, k, n, DOMAIN registry)
  PROVE  ReleaseInv'
<1>1. /\ release' = [release EXCEPT ![v] = n] /\ day' = day /\ registry' = registry
  BY ZenonT(30) DEF Moves
<1>2. release' \in [Version -> RunRecord] /\ release'[v] = n /\ \A o \in Version \ {v} : release'[o] = release[o]
  BY <1>1, ZenonT(30) DEF ReleaseInv, RunOK
<1>3. \A o \in Version : release[o].pc # "none" => release'[o].pc # "none"
  BY <1>2
<1>4. (day \in Nat)' /\ \A o \in Version : RunOK(o, release'[o])
  BY <1>1, <1>2, ZenonT(30) DEF ReleaseInv
<1>5. ASSUME NEW w \in Version, NEW o \in release'[w].seen PROVE release'[o].pc # "none"
  <2>1. release[o].pc # "none" /\ o \in Version
    <3>1. release'[w] \in RunRecord
      BY <1>2
    <3>2. o \in Version
      BY <1>5, <3>1 DEF RunRecord
    <3>3. CASE w = v
      BY <1>2, <1>5, <3>2, <3>3
    <3>4. CASE w # v
      BY <1>2, <1>5, <3>2, <3>4, ZenonT(30) DEF ReleaseInv
    <3> QED BY <3>3, <3>4
  <2> QED BY <1>3, <2>1
<1>6. ASSUME NEW w \in Version, release'[w].pc \in {"tagging", "released"}, NEW k \in 0..2
      PROVE  Covered(w, k, release'[w], DOMAIN registry')
  BY <1>1, <1>2, <1>6 DEF ReleaseInv
<1>7. ASSUME NEW a \in DOMAIN registry'
      PROVE  /\ registry'[a] \in Version /\ release'[registry'[a]].seen # {}
             /\ MaySet(registry'[a], a, release'[registry'[a]].seen)
  BY <1>1, <1>2, <1>7, Zenon DEF ReleaseInv
<1> QED BY <1>2, <1>4, <1>5, <1>6, <1>7, ZenonT(30) DEF ReleaseInv

(* The tags stable_tags returns: the version's own and those of the lines it leads. *)
LEMMA StableFacts ==
  ASSUME NEW v \in Version, NEW existing \in SUBSET Version, NEW t, t = StableTags(v, existing)
  PROVE  /\ t \in Seq(Seq(Nat)) /\ Len(t) > 0
         /\ \A i \in 1..Len(t) : MaySet(v, t[i], existing)
         /\ \A n \in 0..2 : Leads(v, existing, n) => \E i \in 1..Len(t) : t[i] = SubSeq(v, 1, n)
<1> DEFINE x == LineTag(v, existing, 2)
           y == LineTag(v, existing, 1)
           z == LineTag(v, existing, 0)
           S == {s \in Seq(Nat) : MaySet(v, s, existing)}
<1>1. ASSUME NEW n \in 0..2
      PROVE  /\ LineTag(v, existing, n) \in Seq(S)
             /\ Leads(v, existing, n) => Len(LineTag(v, existing, n)) = 1 /\ LineTag(v, existing, n)[1] = SubSeq(v, 1, n)
  <2>1. SubSeq(v, 1, n) \in Seq(Nat)
    BY <1>1, VersionFacts
  <2>2. Leads(v, existing, n) => SubSeq(v, 1, n) \in S
    BY <1>1, <2>1, Zenon DEF MaySet
  <2> HIDE DEF S
  <2> QED BY <2>2 DEF LineTag
<1>2. v \in S
  BY VersionFacts DEF MaySet
<1>3. x \in Seq(S) /\ y \in Seq(S) /\ z \in Seq(S)
  BY <1>1
<1>4. /\ Leads(v, existing, 2) => Len(x) = 1 /\ x[1] = SubSeq(v, 1, 2)
      /\ Leads(v, existing, 1) => Len(y) = 1 /\ y[1] = SubSeq(v, 1, 1)
      /\ Leads(v, existing, 0) => Len(z) = 1 /\ z[1] = SubSeq(v, 1, 0)
  BY <1>1
<1>5. t = <<v>> \o x \o y \o z
  BY DEF StableTags
<1> HIDE DEF x, y, z, S
<1>6. t \in Seq(S) /\ Len(t) = 1 + Len(x) + Len(y) + Len(z)
  BY <1>2, <1>3, <1>5
<1>7. /\ Leads(v, existing, 2) => Len(t) > 1 /\ t[2] = SubSeq(v, 1, 2)
      /\ Leads(v, existing, 1) => Len(t) > 1 + Len(x) /\ t[2 + Len(x)] = SubSeq(v, 1, 1)
      /\ Leads(v, existing, 0) => Len(t) > 1 + Len(x) + Len(y) /\ t[2 + Len(x) + Len(y)] = SubSeq(v, 1, 0)
  <2> DEFINE a == <<v>> \o x
             b == a \o y
  <2>1. a \in Seq(S) /\ Len(a) = 1 + Len(x) /\ \A i \in 1..Len(x) : a[1 + i] = x[i]
    BY <1>2, <1>3
  <2> HIDE DEF a
  <2>2. b \in Seq(S) /\ Len(b) = Len(a) + Len(y) /\ (\A i \in 1..Len(a) : b[i] = a[i]) /\ (\A i \in 1..Len(y) : b[Len(a) + i] = y[i])
    <3>1. \A p, q \in Seq(S) :
            /\ p \o q \in Seq(S) /\ Len(p \o q) = Len(p) + Len(q)
            /\ (\A i \in 1..Len(p) : (p \o q)[i] = p[i]) /\ (\A i \in 1..Len(q) : (p \o q)[Len(p) + i] = q[i])
      OBVIOUS
    <3> QED BY <1>3, <2>1, <3>1, Zenon
  <2>3. t = b \o z
    BY <1>5 DEF a
  <2> HIDE DEF b
  <2>4. (\A i \in 1..Len(b) : t[i] = b[i]) /\ (\A i \in 1..Len(z) : t[Len(b) + i] = z[i])
    BY <1>3, <2>2, <2>3
  <2>5. Len(x) \in Nat /\ Len(y) \in Nat /\ Len(z) \in Nat
    BY <1>3
  <2>6. ASSUME Leads(v, existing, 2) PROVE Len(t) > 1 /\ t[2] = SubSeq(v, 1, 2)
    <3>1. Len(x) = 1 /\ x[1] = SubSeq(v, 1, 2)
      BY <1>4, <2>6
    <3>2. a[2] = SubSeq(v, 1, 2) /\ 2 \in 1..Len(a)
      BY <2>1, <2>5, <3>1
    <3>3. b[2] = a[2] /\ 2 \in 1..Len(b)
      BY <2>1, <2>2, <2>5, <3>2
    <3> QED BY <1>6, <2>4, <2>5, <3>1, <3>2, <3>3
  <2>7. ASSUME Leads(v, existing, 1) PROVE Len(t) > 1 + Len(x) /\ t[2 + Len(x)] = SubSeq(v, 1, 1)
    <3>1. Len(y) = 1 /\ y[1] = SubSeq(v, 1, 1)
      BY <1>4, <2>7
    <3>2. b[Len(a) + 1] = SubSeq(v, 1, 1)
      BY <2>2, <3>1
    <3>3. Len(a) + 1 = 2 + Len(x) /\ 2 + Len(x) \in 1..Len(b)
      BY <2>1, <2>2, <2>5, <3>1
    <3> QED BY <1>6, <2>4, <2>5, <3>1, <3>2, <3>3
  <2>8. ASSUME Leads(v, existing, 0) PROVE Len(t) > 1 + Len(x) + Len(y) /\ t[2 + Len(x) + Len(y)] = SubSeq(v, 1, 0)
    <3>1. Len(z) = 1 /\ z[1] = SubSeq(v, 1, 0)
      BY <1>4, <2>8
    <3>2. t[Len(b) + 1] = SubSeq(v, 1, 0)
      BY <2>4, <3>1
    <3>3. Len(b) + 1 = 2 + Len(x) + Len(y)
      BY <2>1, <2>2, <2>5
    <3> QED BY <1>6, <2>5, <3>1, <3>2, <3>3
  <2> QED BY <2>6, <2>7, <2>8
<1>8. \A n \in 0..2 : Leads(v, existing, n) => \E i \in 1..Len(t) : t[i] = SubSeq(v, 1, n)
  <2>1. Len(x) \in Nat /\ Len(y) \in Nat /\ Len(z) \in Nat
    BY <1>3
  <2>2. /\ Len(t) > 1 => 2 \in 1..Len(t)
        /\ Len(t) > 1 + Len(x) => 2 + Len(x) \in 1..Len(t)
        /\ Len(t) > 1 + Len(x) + Len(y) => 2 + Len(x) + Len(y) \in 1..Len(t)
    BY <1>6, <2>1
  <2>3. \A n \in 0..2 : n = 0 \/ n = 1 \/ n = 2
    OBVIOUS
  <2> QED BY <1>7, <2>2, <2>3, ZenonT(30)
<1>9. Len(t) > 0 /\ \A i \in 1..Len(t) : t[i] \in S
  BY <1>3, <1>6
<1>10. t \in Seq(Seq(Nat))
  BY <1>6 DEF S
<1> QED BY <1>8, <1>9, <1>10 DEF S

(* The steps of a run before it fetches the tags keep the invariant: the push of its tag, *)
(* check_version, the checks of the candidate, and scan_gate.                             *)
LEMMA EarlySteps ==
  ASSUME ReleaseInv, NEW v \in Version, PushTag(v) \/ Validate(v) \/ Candidate(v) \/ Scan(v)
  PROVE  ReleaseInv'
<1> DEFINE r == release[v]
<1>0. r \in RunRecord /\ RunOK(v, r)
  BY ZenonT(30) DEF ReleaseInv
<1>1. CASE PushTag(v)
  <2>1. PICK s \in Version, c \in BOOLEAN : Moves(v, [r EXCEPT !.pc = "tagged", !.source = s, !.changelog = c]) /\ r.pc = "none"
    BY <1>1, Zenon DEF PushTag
  <2> DEFINE n == [r EXCEPT !.pc = "tagged", !.source = s, !.changelog = c]
  <2> HIDE DEF r
  <2>2. n \in RunRecord /\ n.pc = "tagged" /\ n.seen = r.seen /\ n.todo = r.todo
    BY <1>0, ZenonT(30) DEF RunRecord
  <2>3. r.seen = {} /\ Moves(v, n)
    BY <1>0, <2>1 DEF RunOK
  <2> HIDE DEF n
  <2>4. RunOK(v, n)
    BY <1>0, <2>2, <2>3, Zenon DEF RunOK
  <2> QED BY <2>2, <2>3, <2>4, OneRun, ZenonT(30) DEF r
<1>2. CASE Validate(v)
  <2> DEFINE n == [r EXCEPT !.pc = IF CheckVersion(v) THEN "valid" ELSE "failed"]
  <2>1. r.pc = "tagged" /\ Moves(v, n)
    BY <1>2 DEF Validate
  <2>2. CheckVersion(v) <=> r.source = v /\ r.changelog
    BY DEF CheckVersion
  <2> HIDE DEF r
  <2>3. /\ n \in RunRecord /\ n.pc \in {"valid", "failed"} /\ n.seen = r.seen /\ n.todo = r.todo
        /\ (n.pc = "valid" => CheckVersion(v)) /\ n.source = r.source /\ n.changelog = r.changelog
    BY <1>0 DEF RunRecord
  <2>4. r.seen = {}
    BY <1>0, <2>1 DEF RunOK
  <2> HIDE DEF n
  <2>5. RunOK(v, n)
    BY <1>0, <2>2, <2>3, <2>4, ZenonT(30) DEF RunOK
  <2> QED BY <2>1, <2>3, <2>4, <2>5, OneRun, Zenon DEF r
<1>3. CASE Candidate(v)
  <2>1. PICK pc \in {"candidate", "failed"} : Moves(v, [r EXCEPT !.pc = pc]) /\ r.pc = "valid"
    BY <1>3 DEF Candidate
  <2> DEFINE n == [r EXCEPT !.pc = pc]
  <2> HIDE DEF r
  <2>2. /\ n \in RunRecord /\ n.pc = pc /\ n.seen = r.seen /\ n.todo = r.todo
        /\ n.source = r.source /\ n.changelog = r.changelog
    BY <1>0 DEF RunRecord
  <2>3. r.seen = {} /\ Moves(v, n) /\ r.source = v /\ r.changelog
    BY <1>0, <2>1 DEF RunOK
  <2> HIDE DEF n
  <2>4. RunOK(v, n)
    BY <1>0, <2>2, <2>3, ZenonT(30) DEF RunOK
  <2> QED BY <2>2, <2>3, <2>4, OneRun, Zenon DEF r
<1>4. CASE Scan(v)
  <2> DEFINE n == [r EXCEPT !.day = day, !.pc = IF ExceptionsHold /\ Blocking(v) = {} THEN "scanned" ELSE "failed"]
  <2>1. r.pc = "candidate" /\ Moves(v, n)
    BY <1>4 DEF Scan
  <2>2. ExceptionsHold /\ Blocking(v) = {} => \A f \in Report[v] : \E e \in Exceptions : e.id = f /\ e.expires >= day
    BY DEF ExceptionsHold, Blocking
  <2>3. day \in Nat
    BY ZenonT(30) DEF ReleaseInv
  <2> HIDE DEF r
  <2>4. /\ n \in RunRecord /\ n.pc \in {"scanned", "failed"} /\ n.seen = r.seen /\ n.todo = r.todo
        /\ (n.pc = "scanned" => ExceptionsHold /\ Blocking(v) = {}) /\ n.source = r.source /\ n.changelog = r.changelog
        /\ n.day = day
    BY <1>0, <2>3, Zenon DEF RunRecord
  <2>5. r.seen = {} /\ r.source = v /\ r.changelog
    BY <1>0, <2>1 DEF RunOK
  <2> HIDE DEF n
  <2>6. RunOK(v, n)
    BY <1>0, <2>2, <2>4, <2>5, Zenon DEF RunOK
  <2> QED BY <2>1, <2>4, <2>5, <2>6, OneRun, Zenon DEF r
<1> QED BY <1>1, <1>2, <1>3, <1>4

(* The publish job's checkout, which computes the tags to set, and its failure keep the *)
(* invariant.                                                                           *)
LEMMA PublishSteps ==
  ASSUME ReleaseInv, NEW v \in Version, Checkout(v) \/ PublishFails(v)
  PROVE  ReleaseInv'
<1> DEFINE r == release[v]
<1>0. r \in RunRecord /\ RunOK(v, r)
  BY ZenonT(30) DEF ReleaseInv
<1>1. CASE Checkout(v)
  <2> DEFINE t == StableTags(v, GitTags)
             n == [r EXCEPT !.pc = "tagging", !.seen = GitTags, !.todo = t]
  <2>1. r.pc = "scanned" /\ Moves(v, n)
    BY <1>1 DEF Checkout
  <2>2. v \in GitTags /\ GitTags \in SUBSET Version /\ \A o \in GitTags : release[o].pc # "none"
    BY <2>1 DEF GitTags
  <2>3. /\ t \in Seq(Seq(Nat)) /\ Len(t) > 0
        /\ \A i \in 1..Len(t) : MaySet(v, t[i], GitTags)
        /\ \A k \in 0..2 : Leads(v, GitTags, k) => \E i \in 1..Len(t) : t[i] = SubSeq(v, 1, k)
    BY <2>2, StableFacts, ZenonT(30)
  <2> HIDE DEF r, t
  <2>4. /\ n \in RunRecord /\ n.pc = "tagging" /\ n.seen = GitTags /\ n.todo = t
        /\ n.source = r.source /\ n.changelog = r.changelog /\ n.day = r.day
    BY <1>0, <2>2, <2>3, Zenon DEF RunRecord
  <2>5. r.seen = {}
    BY <1>0, <2>1 DEF RunOK
  <2> HIDE DEF n
  <2>6. RunOK(v, n)
    BY <1>0, <2>1, <2>2, <2>3, <2>4, ZenonT(30) DEF RunOK
  <2>7. \A k \in 0..2 : Covered(v, k, n, DOMAIN registry)
    BY <2>3, <2>4, ZenonT(30) DEF Covered, Leads
  <2> QED BY <2>1, <2>2, <2>4, <2>5, <2>6, <2>7, OneRun, Zenon DEF r
<1>2. CASE PublishFails(v)
  <2> DEFINE n == [r EXCEPT !.pc = "failed"]
  <2>1. r.pc \in {"scanned", "tagging"} /\ Moves(v, n)
    BY <1>2 DEF PublishFails
  <2>2. \A o \in r.seen : release[o].pc # "none"
    BY Zenon DEF ReleaseInv
  <2> HIDE DEF r
  <2>3. /\ n \in RunRecord /\ n.pc = "failed" /\ n.seen = r.seen /\ n.todo = r.todo
        /\ n.source = r.source /\ n.changelog = r.changelog /\ n.day = r.day
    BY <1>0 DEF RunRecord
  <2> HIDE DEF n
  <2>4. RunOK(v, n)
    BY <1>0, <2>1, <2>3, ZenonT(30) DEF RunOK
  <2> QED BY <2>1, <2>2, <2>3, <2>4, OneRun, Zenon DEF r
<1> QED BY <1>1, <1>2

(* Pointing one tag of a run's list at its version keeps the invariant: the tag is one the *)
(* run may set, and what it covered it still covers.                                       *)
LEMMA ApplyStep ==
  ASSUME ReleaseInv, NEW v \in Version, Apply(v)
  PROVE  ReleaseInv'
<1> DEFINE r == release[v]
           t == Head(r.todo)
           n == [r EXCEPT !.todo = Tail(r.todo), !.pc = IF Len(r.todo) = 1 THEN "released" ELSE "tagging"]
<1>0. r \in RunRecord /\ RunOK(v, r) /\ r.pc = "tagging" /\ Len(r.todo) > 0
  BY DEF ReleaseInv, Apply, RunOK
<1>1. /\ release' = [release EXCEPT ![v] = n] /\ day' = day
      /\ registry' = [a \in DOMAIN registry \cup {t} |-> IF a = t THEN v ELSE registry[a]]
  BY DEF Apply, Pointed
<1>2. \A k \in 0..2 : Covered(v, k, r, DOMAIN registry)
  BY <1>0, ZenonT(30) DEF ReleaseInv
<1>3. \A o \in r.seen : release[o].pc # "none"
  BY Zenon DEF ReleaseInv
<1> HIDE DEF r
<1>4. /\ r.todo \in Seq(Seq(Nat)) /\ t = r.todo[1] /\ Tail(r.todo) \in Seq(Seq(Nat)) /\ Len(Tail(r.todo)) = Len(r.todo) - 1
      /\ Len(r.todo) \in Nat
      /\ \A i \in 1..Len(Tail(r.todo)) : Tail(r.todo)[i] = r.todo[i + 1]
  <2>1. r.todo \in Seq(Seq(Nat))
    BY <1>0 DEF RunRecord
  <2>2. r.todo # <<>>
    BY <1>0, <2>1
  <2> QED BY <2>1, <2>2
<1>5. /\ n \in RunRecord /\ n.pc \in {"tagging", "released"} /\ n.seen = r.seen /\ n.todo = Tail(r.todo)
      /\ n.source = r.source /\ n.changelog = r.changelog /\ n.day = r.day
      /\ n.pc = "released" <=> Len(r.todo) = 1
  BY <1>0, <1>4, ZenonT(30) DEF RunRecord
<1>6. MaySet(v, t, r.seen) /\ r.seen # {}
  BY <1>0, <1>4 DEF RunOK
<1> HIDE DEF n, t
<1>7. RunOK(v, n)
  <2>1. \A i \in 1..Len(n.todo) : MaySet(v, n.todo[i], n.seen)
    <3> SUFFICES ASSUME NEW i \in 1..Len(n.todo) PROVE MaySet(v, n.todo[i], n.seen)
      OBVIOUS
    <3>1. i + 1 \in 1..Len(r.todo)
      BY <1>4, <1>5
    <3>2. n.todo[i] = r.todo[i + 1] /\ n.seen = r.seen
      BY <1>4, <1>5
    <3>3. MaySet(v, r.todo[i + 1], r.seen)
      BY <1>0, <3>1, ZenonT(30) DEF RunOK
    <3> QED BY <3>2, <3>3
  <2>a. Len(n.todo) = Len(r.todo) - 1 /\ Len(r.todo) \in Nat /\ Len(r.todo) > 0
    BY <1>0, <1>4, <1>5
  <2>b. Len(r.todo) = 1 <=> Len(n.todo) = 0
    BY <2>a
  <2>c. Len(r.todo) # 1 => Len(n.todo) > 0
    <3>1. \A k \in Nat : k > 0 /\ k # 1 => k - 1 > 0
      OBVIOUS
    <3> QED BY <2>a, <3>1, Zenon
  <2>d. n.pc = "released" <=> Len(r.todo) = 1
    BY <1>5
  <2>2. (n.pc = "tagging" => Len(n.todo) > 0) /\ (n.pc = "released" => Len(n.todo) = 0)
    BY <2>b, <2>c, <2>d
  <2> QED BY <1>0, <1>5, <2>1, <2>2, Zenon DEF RunOK
<1>8. \A k \in 0..2 : Covered(v, k, n, DOMAIN registry')
  <2> SUFFICES ASSUME NEW k \in 0..2 PROVE Covered(v, k, n, DOMAIN registry')
    OBVIOUS
  <2>1. DOMAIN registry' = DOMAIN registry \cup {t}
    BY <1>1
  <2>2. CASE \E i \in 1..Len(r.todo) : r.todo[i] = SubSeq(v, 1, k)
    <3>1. PICK i \in 1..Len(r.todo) : r.todo[i] = SubSeq(v, 1, k)
      BY <2>2
    <3>2. CASE i = 1
      BY <1>4, <2>1, <3>1, <3>2 DEF Covered
    <3>3. CASE i # 1
      <4>1. i - 1 \in 1..Len(n.todo) /\ n.todo[i - 1] = SubSeq(v, 1, k)
        BY <1>4, <1>5, <3>1, <3>3
      <4> QED BY <4>1 DEF Covered
    <3> QED BY <3>2, <3>3
  <2>3. CASE ~ \E i \in 1..Len(r.todo) : r.todo[i] = SubSeq(v, 1, k)
    BY <1>2, <1>5, <2>1, <2>3, ZenonT(30) DEF Covered
  <2> QED BY <2>2, <2>3
<1>9. release' \in [Version -> RunRecord] /\ release'[v] = n /\ \A o \in Version \ {v} : release'[o] = release[o]
  BY <1>1, <1>5, Zenon DEF ReleaseInv
<1>10. \A o \in Version : release[o].pc # "none" => release'[o].pc # "none"
  BY <1>5, <1>9
<1>11. (day \in Nat)' /\ \A o \in Version : RunOK(o, release'[o])
  BY <1>1, <1>7, <1>9, ZenonT(30) DEF ReleaseInv
<1>12. \A o \in Version : release'[o].seen = release[o].seen
  BY <1>5, <1>9 DEF r
<1>13. ASSUME NEW w \in Version, NEW o \in release'[w].seen PROVE release'[o].pc # "none"
  <2>1. o \in Version
    BY <1>9, <1>13 DEF RunRecord
  <2> QED BY <1>10, <1>12, <1>13, <2>1, Zenon DEF ReleaseInv
<1>14. ASSUME NEW w \in Version, release'[w].pc \in {"tagging", "released"}, NEW k \in 0..2
       PROVE  Covered(w, k, release'[w], DOMAIN registry')
  <2>1. CASE w = v
    BY <1>8, <1>9, <2>1
  <2>2. CASE w # v
    <3>1. Covered(w, k, release[w], DOMAIN registry) /\ release'[w] = release[w]
      BY <1>9, <1>14, <2>2, Zenon DEF ReleaseInv
    <3>2. DOMAIN registry \subseteq DOMAIN registry'
      BY <1>1
    <3> QED BY <3>1, <3>2 DEF Covered
  <2> QED BY <2>1, <2>2
<1>15. ASSUME NEW a \in DOMAIN registry'
       PROVE  /\ registry'[a] \in Version /\ release'[registry'[a]].seen # {}
              /\ MaySet(registry'[a], a, release'[registry'[a]].seen)
  <2>1. CASE a = t
    BY <1>1, <1>5, <1>6, <1>9, <2>1, ZenonT(30)
  <2>2. CASE a # t
    <3>1. a \in DOMAIN registry /\ registry'[a] = registry[a]
      BY <1>1, <1>15, <2>2
    <3> QED BY <1>12, <3>1, Zenon DEF ReleaseInv
  <2> QED BY <2>1, <2>2
<1> QED BY <1>9, <1>11, <1>13, <1>14, <1>15, Zenon DEF ReleaseInv

(* The inductive invariant of the pipeline holds in every reachable state. *)
LEMMA ReleaseInvariant == ReleaseSpec => []ReleaseInv
<1>1. ReleaseInv /\ [ReleaseNext]_releases => ReleaseInv'
  <2> SUFFICES ASSUME ReleaseInv, [ReleaseNext]_releases PROVE ReleaseInv'
    OBVIOUS
  <2>1. CASE UNCHANGED releases
    BY <2>1, ZenonT(30) DEF releases, ReleaseInv
  <2>2. CASE NextDay
    BY <2>2 DEF NextDay, ReleaseInv
  <2>3. ASSUME NEW v \in Version,
               PushTag(v) \/ Validate(v) \/ Candidate(v) \/ Scan(v) \/ Checkout(v) \/ Apply(v) \/ PublishFails(v)
        PROVE  ReleaseInv'
    BY <2>3, EarlySteps, PublishSteps, ApplyStep
  <2> QED BY <2>1, <2>2, <2>3 DEF ReleaseNext
<1> QED BY <1>1, ReleaseInitially, PTL DEF ReleaseSpec

(* For any versions, findings and exceptions, and any interleaving of the runs of the      *)
(* tags: what a registry tag points to passed the checks of release.py, and the tag of     *)
(* each line of a released version points to it, to a higher one, or was moved by a run    *)
(* that could not know of it.                                                              *)
THEOREM RegistryRight == ReleaseSpec => []RegistryIsRight
<1>1. ReleaseInv => PublishedIsChecked
  <2> SUFFICES ASSUME ReleaseInv, NEW a \in DOMAIN registry
               PROVE  LET r == release[registry[a]] IN
                      /\ InLine(r.source, a) /\ r.changelog
                      /\ \A f \in Report[registry[a]] : \E e \in Exceptions : e.id = f /\ e.expires >= r.day
    BY DEF PublishedIsChecked
  <2> DEFINE w == registry[a]
  <2>1. w \in Version /\ release[w].seen # {} /\ MaySet(w, a, release[w].seen) /\ RunOK(w, release[w])
    BY ZenonT(30) DEF ReleaseInv
  <2> HIDE DEF w
  <2>2. InLine(w, a)
    BY <2>1, VersionFacts, ZenonT(30) DEF MaySet
  <2> QED BY <2>1, <2>2, ZenonT(30) DEF RunOK, w
<1>2. ReleaseInv => TagIsNewest
  <2> SUFFICES ASSUME ReleaseInv, NEW v \in Version, NEW n \in 0..2, release[v].pc = "released"
               PROVE  LET a == SubSeq(v, 1, n) IN
                      \/ \E o \in GitTags : InLine(o, a) /\ Less(v, o)
                      \/ /\ a \in DOMAIN registry
                         /\ registry[a] = v \/ (Less(registry[a], v) /\ v \notin release[registry[a]].seen)
    BY DEF TagIsNewest
  <2> DEFINE a == SubSeq(v, 1, n)
  <2>1. RunOK(v, release[v]) /\ Covered(v, n, release[v], DOMAIN registry)
    BY DEF ReleaseInv
  <2>2. ~ \E i \in 1..Len(release[v].todo) : release[v].todo[i] = a
    BY <2>1 DEF RunOK
  <2>3. CASE \E o \in release[v].seen : InLine(o, a) /\ Less(v, o)
    <3>1. PICK o \in release[v].seen : InLine(o, a) /\ Less(v, o)
      BY <2>3
    <3>2. o \in Version /\ release[o].pc # "none"
      BY <2>1, <3>1, ZenonT(30) DEF ReleaseInv, RunOK, RunRecord
    <3> QED BY <3>1, <3>2, Zenon DEF GitTags
  <2>4. CASE a \in DOMAIN registry
    <3> DEFINE w == registry[a]
    <3>1. w \in Version /\ release[w].seen # {} /\ MaySet(w, a, release[w].seen) /\ RunOK(w, release[w])
      BY <2>4, ZenonT(30) DEF ReleaseInv
    <3>2. /\ \A u \in Version : a # u
          /\ InLine(v, a)
      BY VersionFacts, ZenonT(30)
    <3>3. v # w => Less(v, w) \/ Less(w, v)
      BY <3>1, VersionFacts, ZenonT(30)
    <3> HIDE DEF a, w
    <3>4. PICK m \in 0..2 : a = SubSeq(w, 1, m) /\ Leads(w, release[w].seen, m)
      BY <3>1, <3>2 DEF MaySet
    <3>5. InLine(w, a)
      BY <3>1, <3>4, VersionFacts, ZenonT(30)
    <3>6. w \in GitTags
      BY <3>1, ZenonT(30) DEF GitTags, RunOK
    <3>7. Less(w, v) => v \notin release[w].seen
      BY <3>2, <3>4 DEF Leads
    <3> QED BY <2>4, <3>3, <3>5, <3>6, <3>7, ZenonT(30) DEF w, a
  <2> QED BY <2>1, <2>2, <2>3, <2>4, Zenon DEF Covered
<1> QED BY <1>1, <1>2, ReleaseInvariant, PTL DEF RegistryIsRight
=============================================================================
