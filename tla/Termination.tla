------------------------------ MODULE Termination ------------------------------
(***************************************************************************)
(* How processes, calls, responses and connections end: engine processes   *)
(* on shared stores, the gRPC edge, the HTTP edge and a remote backend of  *)
(* one of them.  Lifecycle's CallEnds and its "grpc" step stand for what   *)
(* GrpcEdge shows in detail; the web server ends its exchanges before it   *)
(* begins the shutdown.  A behaviour follows one of the four.              *)
(***************************************************************************)
EXTENDS Lifecycle, GrpcEdge, HttpEdge, RemoteBackend

VARIABLE side   \* "process", "grpc", "http" or "remote"

vars == <<lifecycle, edge, http, remote, side>>

Init ==
  /\ LifecycleInit /\ EdgeInit /\ HttpInit /\ RemoteInit
  /\ side \in {"process", "grpc", "http", "remote"}
  /\ side # "process" => place = CHOOSE c \in Configured : TRUE

Living(A) == side = "process" /\ A /\ UNCHANGED <<edge, http, remote, side>>
Edging(A) == side = "grpc" /\ A /\ UNCHANGED <<lifecycle, http, remote, side>>
Answers(A) == side = "http" /\ A /\ UNCHANGED <<lifecycle, edge, remote, side>>
Remotely(A) == side = "remote" /\ A /\ UNCHANGED <<lifecycle, edge, http, side>>

Next ==
  Living(LifecycleNext) \/ Edging(EdgeNext) \/ Answers(HttpNext) \/ Remotely(RemoteNext)

\* A batch, a download and a call end; the shutdown task is run; grpc.aio's tasks are
\* run and its grace ends; what is under way in the edge's stop goes on; a generation
\* ends, and its response is written.
Fairness ==
  /\ \A p \in Process :
       /\ WF_vars(Living(DownloadEnds(p))) /\ WF_vars(Living(CallEnds(p)))
       /\ WF_vars(Living(BatchEnds(p))) /\ WF_vars(Living(Closing(p)))
  /\ \A c \in Call :
       /\ WF_vars(Edging(TaskFinishes(c) \/ Collected(c) \/ HandlerClosed(c)))
       /\ SF_vars(Edging(CancelCall(c) /\ server # "serving"))
  /\ WF_vars(Edging(Stopping))
  /\ \A x \in Exchange : WF_vars(Answers(Answering(x)))

Spec == Init /\ [][Next]_vars /\ Fairness

\* All of them end: the shutdown of a process, the stop of the gRPC edge, an exchange.
AllEnds == ShutdownEnds /\ EdgeStops /\ ExchangesEnd
=============================================================================
