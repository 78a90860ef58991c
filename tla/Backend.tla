------------------------------- MODULE Backend -------------------------------
(***************************************************************************)
(* The lifecycle of a local backend (inference/threaded.py), with the      *)
(* llama.cpp hooks (inference/llamacpp.py): load() and unload() run their  *)
(* blocking part in an executor and suspend meanwhile; generate() starts a *)
(* QueueGenerationStream whose worker thread uses the native model.        *)
(*                                                                         *)
(* A stream appears here by its effect on the backend: its worker enters   *)
(* and leaves the native model, on_done fires once after that (or after    *)
(* the join of an aclose expired, see Stream!OnDoneAfterWorker).           *)
(***************************************************************************)
EXTENDS Naturals, FiniteSets

CONSTANTS
  Gens,           \* calls of generate() that succeed
  Loads, Unloads, \* tasks that call load() and unload() once
  JoinMayExpire,  \* whether a worker may outlive the 5 s join of aclose
  NoGen

VARIABLES
  state,    \* _state
  active,   \* _active
  llm,      \* whether _llm refers to a model
  task,     \* where each load() or unload() call is
  target,   \* the stream an unload() is closing
  work,     \* where each generation's worker thread is
  closed,   \* _closed of each generation's stream
  closing,  \* generations whose handler awaits the join of aclose
  fired     \* _on_done_fired of each generation's stream

vars == <<state, active, llm, task, target, work, closed, closing, fired>>
genVars == <<work, closed, closing, fired>>

States == {"unloaded", "loading", "ready", "generating"}
LoadSteps == {"idle", "loading", "loaded", "failed", "done"}
UnloadSteps == {"idle", "closing", "unloading", "unloaded", "done", "raced"}
WorkSteps == {"none", "start", "native", "ended"}

Running == {g \in Gens : work[g] = "native"}
Unfired == {g \in Gens : work[g] # "none" /\ ~fired[g]}
-----------------------------------------------------------------------------
(* load()                                                                  *)

LoadCall(t) ==
  /\ task[t] = "idle"
  /\ IF state = "unloaded"
       THEN state' = "loading" /\ task' = [task EXCEPT ![t] = "loading"]
       ELSE state' = state /\ task' = [task EXCEPT ![t] = "done"]
  /\ UNCHANGED <<active, llm, target, genVars>>

\* The executor runs _load: the file is read, or is missing or malformed.
LoadRuns(t) ==
  /\ task[t] = "loading"
  /\ \/ task' = [task EXCEPT ![t] = "loaded"] /\ llm' = TRUE
     \/ task' = [task EXCEPT ![t] = "failed"] /\ llm' = llm
  /\ UNCHANGED <<state, active, target, genVars>>

LoadEnds(t, onFailure) ==
  /\ task[t] \in {"loaded", "failed"}
  /\ state' = IF task[t] = "loaded" THEN "ready" ELSE onFailure
  /\ task' = [task EXCEPT ![t] = "done"]
  /\ UNCHANGED <<active, llm, target, genVars>>

\* Fault: a failed load is taken for a success.
LoadResumesReady(t) == LoadEnds(t, "ready")

LoadResumes(t) == LoadEnds(t, "unloaded")
-----------------------------------------------------------------------------
(* unload()                                                                *)

\* After the active stream is closed: return if nothing is loaded, else hand
\* _unload to the executor.
UnloadRest(t, s) == task' = [task EXCEPT ![t] = IF s = "unloaded" THEN "done"
                                                                  ELSE "unloading"]

\* A stream that is already being closed makes aclose return at once.
UnloadCall(t) ==
  /\ task[t] = "idle"
  /\ IF active # NoGen /\ ~closed[active]
       THEN /\ task' = [task EXCEPT ![t] = "closing"]
            /\ target' = [target EXCEPT ![t] = active]
            /\ closed' = [closed EXCEPT ![active] = TRUE]
            /\ UNCHANGED active
       ELSE /\ UnloadRest(t, state)
            /\ active' = NoGen
            /\ UNCHANGED <<target, closed>>
  /\ UNCHANGED <<state, llm, work, closing, fired>>

\* _fire_on_done and _on_generation_done.
FireOnDone(g) ==
  /\ fired' = [fired EXCEPT ![g] = TRUE]
  /\ state' = IF ~fired[g] /\ state = "generating" THEN "ready" ELSE state

JoinReturns(g) == work[g] = "ended" \/ JoinMayExpire

UnloadClosed(t) ==
  /\ task[t] = "closing" /\ JoinReturns(target[t])
  /\ FireOnDone(target[t])
  /\ active' = NoGen
  /\ UnloadRest(t, state')
  /\ UNCHANGED <<llm, target, work, closed, closing>>

UnloadRuns(t) ==
  /\ task[t] = "unloading"
  /\ task' = [task EXCEPT ![t] = "unloaded"] /\ llm' = FALSE
  /\ UNCHANGED <<state, active, target, genVars>>

\* The state is overwritten, whatever became of it during the suspension: "raced"
\* remembers that a load or a generation had begun.
UnloadResumes(t) ==
  /\ task[t] = "unloaded"
  /\ task' = [task EXCEPT ![t] = IF state = "ready" THEN "done" ELSE "raced"]
  /\ state' = "unloaded"
  /\ UNCHANGED <<active, llm, target, genVars>>
-----------------------------------------------------------------------------
(* generate() and the stream it starts                                     *)

StartStream(g) ==
  /\ work[g] = "none" /\ llm
  /\ state' = "generating" /\ active' = g
  /\ work' = [work EXCEPT ![g] = "start"]
  /\ UNCHANGED <<llm, task, target, closed, closing, fired>>

\* Counting the prompt's tokens asserts that a model is there; when it fails,
\* the state is put back and no stream starts.
Generate(g) == state = "ready" /\ StartStream(g)

\* The worker thread calls _token_producer, which asserts the model again and may fail.
WorkerStarts(g) ==
  /\ work[g] = "start"
  /\ \E to \in {"native", "ended"} : (to = "native" => llm) /\ work' = [work EXCEPT ![g] = to]
  /\ UNCHANGED <<state, active, llm, task, target, closed, closing, fired>>

\* The generator ends, fails, or notices the cancel event.
WorkerEnds(g) ==
  /\ work[g] = "native"
  /\ work' = [work EXCEPT ![g] = "ended"]
  /\ UNCHANGED <<state, active, llm, task, target, closed, closing, fired>>

\* The callback the worker scheduled, or the consumer taking the terminal item.
OnDone(g) ==
  /\ work[g] = "ended" /\ ~fired[g]
  /\ FireOnDone(g) /\ active' = NoGen
  /\ UNCHANGED <<llm, task, target, work, closed, closing>>

\* The request's handler closes the stream (disconnect, or its finally clause).
HandlerCloses(g) ==
  /\ work[g] # "none" /\ ~closed[g]
  /\ closed' = [closed EXCEPT ![g] = TRUE] /\ closing' = closing \cup {g}
  /\ UNCHANGED <<state, active, llm, task, target, work, fired>>

HandlerClosed(g) ==
  /\ g \in closing /\ JoinReturns(g)
  /\ closing' = closing \ {g}
  /\ FireOnDone(g) /\ active' = IF fired[g] THEN active ELSE NoGen
  /\ UNCHANGED <<llm, task, target, work, closed>>

\* The handler's task is cancelled during the join; the callback is left.
HandlerInterrupted(g) ==
  /\ g \in closing /\ closing' = closing \ {g}
  /\ UNCHANGED <<state, active, llm, task, target, work, closed, fired>>
-----------------------------------------------------------------------------
Init ==
  /\ state = "unloaded" /\ active = NoGen /\ llm = FALSE
  /\ task = [t \in Loads \cup Unloads |-> "idle"]
  /\ target = [t \in Unloads |-> NoGen]
  /\ work = [g \in Gens |-> "none"]
  /\ closed = [g \in Gens |-> FALSE]
  /\ closing = {}
  /\ fired = [g \in Gens |-> FALSE]

Next ==
  \/ \E t \in Loads : LoadCall(t) \/ LoadRuns(t) \/ LoadResumes(t)
  \/ \E t \in Unloads : UnloadCall(t) \/ UnloadClosed(t) \/ UnloadRuns(t)
                          \/ UnloadResumes(t)
  \/ \E g \in Gens : Generate(g) \/ WorkerStarts(g) \/ WorkerEnds(g) \/ OnDone(g)
                       \/ HandlerCloses(g) \/ HandlerClosed(g)
                       \/ HandlerInterrupted(g)

Spec == Init /\ [][Next]_vars

\* Executor jobs run to their end and suspended calls resume. A worker ends: its
\* handler reads or closes the stream (Stream!WorkerReleased), and the number of
\* tokens is bounded. The callback an ended worker scheduled runs.
Fairness ==
  /\ \A t \in Loads : WF_vars(LoadRuns(t)) /\ WF_vars(LoadResumes(t))
  /\ \A t \in Unloads : /\ WF_vars(UnloadClosed(t)) /\ WF_vars(UnloadRuns(t))
                        /\ WF_vars(UnloadResumes(t))
  /\ \A g \in Gens : /\ WF_vars(WorkerStarts(g)) /\ WF_vars(WorkerEnds(g))
                     /\ WF_vars(OnDone(g)) /\ WF_vars(HandlerClosed(g))

FairSpec == Spec /\ Fairness
-----------------------------------------------------------------------------
TypeOK ==
  /\ state \in States /\ active \in Gens \cup {NoGen} /\ llm \in BOOLEAN
  /\ DOMAIN task = Loads \cup Unloads
  /\ \A t \in Loads : task[t] \in LoadSteps
  /\ \A t \in Unloads : task[t] \in UnloadSteps
  /\ target \in [Unloads -> Gens \cup {NoGen}]
  /\ work \in [Gens -> WorkSteps] /\ closed \in [Gens -> BOOLEAN]
  /\ closing \subseteq Gens /\ fired \in [Gens -> BOOLEAN]

\* No unload() is suspended or has returned over a load or a generation.
Undisturbed == \A t \in Unloads : task[t] \in {"idle", "done"}

\* "the single-model, single-generation invariants": at most one worker thread
\* is inside the native model, but for those that outlived the join of their
\* aclose.
SingleGeneration == Undisturbed => Cardinality(Running \cap Unfired) <= 1

\* "Unload the model and free runtime state": while the backend says unloaded,
\* no worker thread is inside the native model.
UnloadedMeansIdle == state = "unloaded" => Running = {}

\* A backend that offers itself for work has a model and no generation whose
\* handler has not been told, and what it calls active is that generation.
ReadyMeansReady == Undisturbed =>
  /\ state = "ready" => llm /\ Unfired = {} /\ active = NoGen
  /\ state = "generating" => llm /\ Unfired = {active}

\* The state generating is always backed by a generation whose end will reset
\* it, also when unloads and loads race with generations.
GeneratingIsBacked == state = "generating" => Unfired # {}

\* The backend is never stuck: a load ends ready or unloaded, and a generation
\* ends by making room for the next one.
NeverStuck ==
  /\ state = "loading" ~> state # "loading"
  /\ state = "generating" ~> state # "generating"
=============================================================================
