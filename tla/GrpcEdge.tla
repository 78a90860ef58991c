------------------------------- MODULE GrpcEdge -------------------------------
(***************************************************************************)
(* The calls of the gRPC edge and its stop (grpc/server.py).  grpc.aio     *)
(* runs each call in a task that pulls the response generator and writes   *)
(* each chunk outside it; a call cancelled during a write leaves the       *)
(* generator suspended, to be closed by the garbage collector or by        *)
(* close_all.  grpc.aio and the collector are external.                    *)
(***************************************************************************)
EXTENDS Naturals, FiniteSets

CONSTANT Call

VARIABLES
  server,   \* "serving", "stopping", "waiting", "closing", "stopped", "failed"
  round,    \* the handlers close_all has listed and not yet closed
  call      \* each call: phase of its generator, task, tracking, finalizations

edge == <<server, round, call>>

\* phase: "none", "admit" (start_generation_core), "pull" (awaiting a chunk),
\* "write" (suspended at a yield), "drain" (in _drain_and_finish), "last"
\* (suspended at the terminal yield), "over"; "refused" when it never streamed.
\* driver: who closes the stream, and so holds the handler's lock.
NoCall == [phase |-> "none", task |-> "none", driver |-> "none", tracked |-> FALSE, finals |-> 0]
Set(c, r) == call' = [call EXCEPT ![c] = r]
Over(r) ==
  [r EXCEPT !.phase = IF @ = "admit" THEN "refused" ELSE "over",
            !.task = "done", !.driver = "none", !.tracked = FALSE]
-----------------------------------------------------------------------------
\* Generate registers its handler first.
Open(c) ==
  /\ server = "serving" /\ call[c].phase = "none"
  /\ Set(c, [NoCall EXCEPT !.phase = "admit", !.task = "run", !.tracked = TRUE])
  /\ UNCHANGED <<server, round>>

\* start_generation_core answers, or the call is aborted with a status.
Admit(c) ==
  /\ call[c].phase = "admit"
  /\ Set(c, [call[c] EXCEPT !.phase = "pull"]) \/ Set(c, Over(call[c]))
  /\ UNCHANGED <<server, round>>

\* A chunk comes out, or the generation ends or fails and is drained.
Pull(c) ==
  /\ call[c].phase = "pull"
  /\ \/ Set(c, [call[c] EXCEPT !.phase = "write"])
     \/ Set(c, [call[c] EXCEPT !.phase = "drain", !.driver = "task"])
  /\ UNCHANGED <<server, round>>

\* The chunk is written: the generator goes on, or ends after the terminal chunk.
Written(c) ==
  /\ call[c].phase \in {"write", "last"} /\ call[c].task = "run"
  /\ Set(c, IF call[c].phase = "write" THEN [call[c] EXCEPT !.phase = "pull"] ELSE Over(call[c]))
  /\ UNCHANGED <<server, round>>

Finalized(r) == [r EXCEPT !.finals = @ + 1]

\* The call's own task has drained its stream: usage is written (finish_generation), the
\* terminal chunk follows, or the call ends when it failed.
TaskFinishes(c) ==
  /\ call[c].phase = "drain" /\ call[c].driver = "task"
  /\ \/ Set(c, [Finalized(call[c]) EXCEPT !.phase = "last", !.driver = "none"])
     \/ Set(c, Over(Finalized(call[c])))
  /\ UNCHANGED <<server, round>>

\* Fault: an interrupted drain gives up before the request is finalized.
InterruptedDropped(r) == Over(r)

Interrupted(r) == Over(Finalized(r))

\* The client goes away, or the grace of the stop is over: the task is cancelled where
\* it waits.  Inside the generator the request is finalized (at once when its drain is
\* interrupted); during a write the generator stays behind.
CancelCall(c) ==
  LET r == call[c] IN
  /\ r.task = "run"
  /\ \/ r.phase = "admit" /\ Set(c, Over(r))
     \/ r.phase = "pull" /\ Set(c, [r EXCEPT !.phase = "drain", !.driver = "task"])
     \/ r.phase = "drain" /\ r.driver = "task" /\ Set(c, Interrupted(r))
     \/ r.phase \in {"write", "last"} /\ Set(c, [r EXCEPT !.task = "done"])
  /\ UNCHANGED <<server, round>>

\* A generator nobody drives any more, and whose lock is free.
Abandoned(c) ==
  /\ call[c].tracked /\ call[c].task = "done" /\ call[c].phase \in {"write", "last", "over"}
  /\ call[c].driver = "none"

\* close: under the handler's lock the stream is closed, which drains and finalizes it.
CloseBegins(c, who) == [call[c] EXCEPT !.phase = "drain", !.driver = who]

\* The collector closes the generator of an abandoned call.
Collect(c) ==
  /\ Abandoned(c)
  /\ Set(c, IF call[c].phase = "write" THEN CloseBegins(c, "gc") ELSE Over(call[c]))
  /\ UNCHANGED <<server, round>>

\* The collector's close ends; a finalization that fails leaves the handler tracked.
Collected(c) ==
  /\ call[c].driver = "gc"
  /\ \E tracked \in BOOLEAN : Set(c, [Over(Finalized(call[c])) EXCEPT !.tracked = tracked])
  /\ UNCHANGED <<server, round>>
-----------------------------------------------------------------------------
(* GrpcEdge.stop                                                           *)

Stop ==
  server = "serving" /\ server' = "stopping" /\ UNCHANGED <<round, call>>

Tracked == {c \in Call : call[c].tracked}

\* server.stop(grace) returns when the core has no live call; a task may still be in
\* the drain its cancellation began.
CoreStopped ==
  /\ server = "stopping"
  /\ \A c \in Call : call[c].task = "run" => call[c].phase = "drain"
  /\ server' = "waiting" /\ round' = Tracked /\ UNCHANGED call

TasksDone == \A c \in round : call[c].task = "done"

\* close_all: the tasks are awaited, not cancelled, then each handler is closed.
CloseAll ==
  /\ server = "waiting"
  /\ IF round = {} THEN server' = "stopped" ELSE TasksDone /\ server' = "closing"
  /\ UNCHANGED <<round, call>>

\* handler.finish waits for the handler's lock.
HandlerFree(c) == call[c].driver = "none"

CloseHandler(c) ==
  /\ server = "closing" /\ c \in round /\ \A d \in Call : call[d].driver # "all"
  /\ HandlerFree(c)
  /\ IF call[c].phase \in {"write", "drain"}
       THEN Set(c, CloseBegins(c, "all")) /\ UNCHANGED round
       ELSE Set(c, Over(call[c])) /\ round' = round \ {c}
  /\ UNCHANGED server

\* The stream is closed and finalized, or its finalization fails and stop raises.
HandlerClosed(c) ==
  /\ call[c].driver = "all"
  /\ \/ Set(c, Over(Finalized(call[c]))) /\ UNCHANGED server
     \/ Set(c, [Over(Finalized(call[c])) EXCEPT !.tracked = TRUE]) /\ server' = "failed"
  /\ round' = round \ {c}

NextRound ==
  /\ server = "closing" /\ round = {}
  /\ server' = "waiting" /\ round' = Tracked /\ UNCHANGED call

\* The cleanup is cancelled from inside during the stop.
StopCut ==
  /\ server \in {"stopping", "waiting", "closing"}
  /\ \A c \in Call : call[c].driver # "all"
  /\ server' = "failed" /\ UNCHANGED <<round, call>>
-----------------------------------------------------------------------------
EdgeInit == server = "serving" /\ round = {} /\ call = [c \in Call |-> NoCall]

Driven(c) ==
  Admit(c) \/ Pull(c) \/ Written(c) \/ TaskFinishes(c) \/ Collected(c) \/ HandlerClosed(c)
Stopping == CoreStopped \/ CloseAll \/ NextRound \/ \E c \in Call : CloseHandler(c)

EdgeNext ==
  \/ \E c \in Call : Open(c) \/ Driven(c) \/ CancelCall(c) \/ Collect(c)
  \/ Stop \/ Stopping \/ StopCut
-----------------------------------------------------------------------------
\* "Exactly once" (_drain_and_finish): however a call ends, and whoever closes its
\* stream, its usage is written once, and never a second time.
FinalizedOnce ==
  \A c \in Call :
    call[c].finals = IF call[c].phase \in {"last", "over"} THEN 1 ELSE 0

\* GrpcEdge.stop "returns only after" the final usage write of every call has run: then
\* no generator is suspended, no close is under way and no task is running.
StopProvesTheEnd ==
  server = "stopped" =>
    \A c \in Call : call[c].phase \in {"none", "over", "refused"} /\ call[c].task # "run"

\* A request that began to stream is finalized before it is forgotten, also when its
\* generator was left to the collector.
ForgottenIsFinalized ==
  \A c \in Call : call[c].phase \in {"pull", "write", "drain"} => call[c].tracked

\* The stop returns or fails: closing what is left waits for nobody in a circle.
EdgeStops == []<>(server \in {"serving", "stopped", "failed"})

\* Every gRPC call that streamed is finalized, once, and before stop returns, whoever of
\* task, collector and close_all gets to its generator.
CallsAreFinalized == FinalizedOnce /\ ForgottenIsFinalized /\ StopProvesTheEnd
=============================================================================
