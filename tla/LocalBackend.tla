----------------------------- MODULE LocalBackend -----------------------------
(***************************************************************************)
(* The stream of a generation and the backend that runs it.  Backend sees  *)
(* a stream only by what it does to the backend; ActsAsGeneration says     *)
(* that Stream does just that, whoever closes it.  A behaviour is one of   *)
(* a stream on its own, or one of the backend with its generations.        *)
(***************************************************************************)
EXTENDS Stream

CONSTANTS Gens, Loads, Unloads, JoinMayExpire, NoGen

ASSUME LocalAssumption ==
  /\ NoGen \notin Gens /\ Loads \cap Unloads = {}
  /\ JoinMayExpire \in BOOLEAN

VARIABLES
  side,                                        \* the part that moves
  state, active, llm, task, target,            \* see Backend
  work, closes, closing, fired

B == INSTANCE Backend WITH closed <- closes
backend == <<state, active, llm, task, target, work, closes, closing, fired>>

Streams(A) == side = "stream" /\ A /\ UNCHANGED <<side, backend>>
Manages(A) == side = "backend" /\ A /\ UNCHANGED <<side, vars>>
local == <<side, backend, vars>>

LocalInit == side \in {"stream", "backend"} /\ Init /\ B!Init
LocalNext == Streams(Next) \/ Manages(B!Next)

LocalSpec == LocalInit /\ [][LocalNext]_local

\* The fairness of Stream and that of Backend
LocalFairness ==
  /\ WF_local(Streams(Worker)) /\ WF_local(Streams(Loop)) /\ WF_local(Streams(GetResumes))
  /\ WF_local(Streams(consumer \in {"ended", "gone"} /\ Aclose)) /\ WF_local(Streams(Joined))
  /\ \A t \in Loads : WF_local(Manages(B!LoadRuns(t))) /\ WF_local(Manages(B!LoadResumes(t)))
  /\ \A t \in Unloads : /\ WF_local(Manages(B!UnloadClosed(t))) /\ WF_local(Manages(B!UnloadRuns(t)))
                        /\ WF_local(Manages(B!UnloadResumes(t)))
  /\ \A g \in Gens : /\ WF_local(Manages(B!WorkerStarts(g))) /\ WF_local(Manages(B!WorkerEnds(g)))
                     /\ WF_local(Manages(B!OnDone(g))) /\ WF_local(Manages(B!HandlerClosed(g)))

FairLocalSpec == LocalSpec /\ LocalFairness
-----------------------------------------------------------------------------
\* The stream as the only generation of a backend that has a model
Of(x) == [g \in {"g"} |-> x]
G == INSTANCE Backend WITH
  Gens <- {"g"}, Loads <- {}, Unloads <- {}, JoinMayExpire <- TRUE, NoGen <- "none",
  state <- IF on_done_fired THEN "ready" ELSE "generating",
  active <- IF on_done_fired THEN "none" ELSE "g",
  llm <- TRUE, task <- Of("none"), target <- Of("none"),
  work <- Of(IF worker = "start" THEN "start"
             ELSE IF worker \in {"terminal", "callback", "ended"} THEN "ended" ELSE "native"),
  closed <- Of(closed), closing <- IF closer = "joining" THEN {"g"} ELSE {}, fired <- Of(on_done_fired)

\* Every step of QueueGenerationStream is, for the backend that started it, a step of a
\* generation or none: on_done fires once, after the thread left the model or the join
\* of aclose returned, and makes the backend ready.
ActsAsGeneration == [][G!Next]_(G!vars)

\* At most one worker thread is inside the native model (Backend).
SingleGeneration == B!SingleGeneration

\* A backend that offers itself for work can do it (Backend).
ReadyMeansReady == B!ReadyMeansReady

\* A generation backs the state generating (Backend).
GeneratingIsBacked == B!GeneratingIsBacked

\* The backend is never stuck loading or generating (Backend).
NeverStuck == B!NeverStuck

\* The state of the backend is true, through racing loads, unloads and generations: one
\* generation at a time, ready only with a model, generating only with a generation.
StateIsTrue == B!TypeOK /\ SingleGeneration /\ ReadyMeansReady /\ GeneratingIsBacked

\* Nobody waits for ever on a local generation: the worker is released, the consumer
\* wakes (but for the named exception), and the backend takes the next one.
NobodyIsStuck == WorkerReleased /\ ConsumerWakesOrCut /\ NeverStuck
=============================================================================
