----------------------------- MODULE RemoteBackend -----------------------------
(***************************************************************************)
(* A remote backend (inference/remote/openai_compat.py): its connection,   *)
(* opened by load at startup and closed by unload, which an operator and   *)
(* the teardown may both call, and one generation, read line by line.      *)
(* The remote server and httpx are external.                               *)
(***************************************************************************)
EXTENDS Naturals, Sequences, FiniteSets

CONSTANTS
  Unloader,   \* the tasks that may unload the backend
  MaxLines,   \* bound on the lines of an answer
  MaxRetries  \* max_prestream_retries

VARIABLES
  state,      \* BackendState
  client,     \* _client is set
  open,       \* the connection pool exists and is not closed
  loader,     \* where load is: "none", "verifying", "discarding", "ended", "cancelled"
  unloader,   \* where each unload is: "idle", "closing", "ended", "cut"
  gen         \* the generation: pc, lines read, _Outcome, tokens, result

remote == <<state, client, open, loader, unloader, gen>>

NoResult == [finish |-> "none", completion |-> 0]
Fresh == [pc |-> "idle", lines |-> <<>>, index |-> 0, attempts |-> 0, finish |-> "stop", usage_seen |-> FALSE,
          usage |-> 0, result |-> NoResult]
-----------------------------------------------------------------------------
(* The connection                                                          *)

Load ==
  /\ loader = "none"
  /\ loader' = "verifying" /\ state' = "loading" /\ open' = TRUE
  /\ UNCHANGED <<client, unloader, gen>>

\* _verify_model: the server answers and lists the model.
Verified ==
  /\ loader = "verifying"
  /\ loader' = "ended" /\ client' = TRUE /\ state' = "ready"
  /\ UNCHANGED <<open, unloader, gen>>

VerifyFails ==
  /\ loader = "verifying" /\ loader' = "discarding"
  /\ UNCHANGED <<state, client, open, unloader, gen>>

\* Fault: the connection of a failed load is not closed.
DiscardedOpen ==
  /\ loader = "discarding" /\ loader' = "ended"
  /\ state' = "unloaded" /\ UNCHANGED <<client, open, unloader, gen>>

Discarded ==
  /\ loader = "discarding" /\ loader' = "ended"
  /\ open' = FALSE /\ state' = "unloaded" /\ UNCHANGED <<client, unloader, gen>>

\* A cancelled startup: CancelledError is not an Exception, nothing is undone.
LoadCancelled ==
  /\ loader \in {"verifying", "discarding"} /\ loader' = "cancelled"
  /\ UNCHANGED <<state, client, open, unloader, gen>>

\* unload takes the client away at once; the state follows when it is closed.
UnloadBegins(u) ==
  /\ loader = "ended" /\ unloader[u] = "idle" /\ client' = FALSE
  /\ IF client THEN unloader' = [unloader EXCEPT ![u] = "closing"] /\ UNCHANGED state
     ELSE unloader' = [unloader EXCEPT ![u] = "ended"] /\ state' = "unloaded"
  /\ UNCHANGED <<open, loader, gen>>

UnloadEnds(u) ==
  /\ unloader[u] = "closing" /\ unloader' = [unloader EXCEPT ![u] = "ended"]
  /\ open' = FALSE /\ state' = "unloaded" /\ UNCHANGED <<client, loader, gen>>

UnloadCut(u) ==
  /\ unloader[u] = "closing" /\ unloader' = [unloader EXCEPT ![u] = "cut"]
  /\ UNCHANGED <<state, client, open, loader, gen>>
-----------------------------------------------------------------------------
(* The generation                                                          *)

Generate ==
  /\ gen.pc = "idle" /\ state = "ready"
  /\ gen' = [gen EXCEPT !.pc = "fresh"]
  /\ UNCHANGED <<state, client, open, loader, unloader>>

\* _build_result, once: the server's count if it was given, else the tokens seen.
Result(g, finish) ==
  IF g.result # NoResult THEN g
  ELSE [g EXCEPT !.pc = "over",
                 !.result = [finish |-> finish,
                             completion |-> IF g.usage_seen THEN g.usage ELSE g.index]]

Reads(g) == gen' = g /\ UNCHANGED <<state, client, open, loader, unloader>>

\* The first __anext__ posts on the client; without one the generation fails.
FirstLine ==
  gen.pc = "fresh" /\ Reads(IF client THEN [gen EXCEPT !.pc = "reading"] ELSE Result(gen, "error"))

\* Fault: usage is taken as an increment.
ParseAdds(g, line) ==
  CASE line.kind = "token" -> [g EXCEPT !.index = @ + 1]
    [] line.kind \in {"stop", "length"} -> [g EXCEPT !.finish = line.kind]
    [] line.kind = "usage" -> [g EXCEPT !.usage_seen = TRUE, !.usage = @ + line.n]
    [] OTHER -> g

\* _parse_sse_line: a delta, a finish reason, the usage; comments, keepalives and what
\* is not JSON are skipped.
Parse(g, line) ==
  CASE line.kind = "token" -> [g EXCEPT !.index = @ + 1]
    [] line.kind \in {"stop", "length"} -> [g EXCEPT !.finish = line.kind]
    [] line.kind = "usage" -> [g EXCEPT !.usage_seen = TRUE, !.usage = line.n]
    [] OTHER -> g

Line ==
  [kind : {"token", "stop", "length", "skipped", "done"}, n : {0}] \cup [kind : {"usage"}, n : 0..MaxLines]

\* A line arrives; [DONE] ends the answer.
ReadLine ==
  /\ gen.pc = "reading" /\ open /\ Len(gen.lines) < MaxLines
  /\ \E line \in Line :
       LET g == [Parse(gen, line) EXCEPT !.lines = Append(@, line)] IN
       Reads(IF line.kind = "done" THEN Result(g, g.finish) ELSE g)

\* The response ends without [DONE]; that is an end like any other.
ResponseEnds == gen.pc = "reading" /\ open /\ Reads(Result(gen, gen.finish))

\* The transport fails, at the latest when the connection is closed.
Breaks == gen.pc = "reading" /\ Reads(Result(gen, "error"))

\* A retry, only before the first token: on the client of now, with the _Outcome as the
\* broken attempt left it.
Retries ==
  /\ gen.pc = "reading" /\ gen.index = 0 /\ gen.attempts < MaxRetries
  /\ Reads(IF client THEN [gen EXCEPT !.attempts = @ + 1] ELSE Result(gen, "error"))

\* The client has left: aclose.
CloseGeneration == gen.pc \in {"fresh", "reading"} /\ Reads(Result(gen, "cancelled"))
-----------------------------------------------------------------------------
RemoteInit ==
  /\ state = "unloaded" /\ client = FALSE /\ open = FALSE /\ loader = "none"
  /\ unloader = [u \in Unloader |-> "idle"] /\ gen = Fresh

RemoteNext ==
  \/ Load \/ Verified \/ VerifyFails \/ Discarded \/ LoadCancelled
  \/ \E u \in Unloader : UnloadBegins(u) \/ UnloadEnds(u) \/ UnloadCut(u)
  \/ Generate \/ FirstLine \/ ReadLine \/ ResponseEnds \/ Breaks \/ Retries \/ CloseGeneration
-----------------------------------------------------------------------------
\* A backend that says READY can generate; the one exception is an unload that has taken
\* the client and has not come to its end.
ReadyHasClient ==
  state = "ready" => client \/ \E u \in Unloader : unloader[u] \in {"closing", "cut"}

\* The connection is closed when the backend is unloaded and nothing is under way; only a
\* cancelled load and an interrupted unload leave it behind.
ConnectionIsClosed ==
  open => \/ state = "ready" \/ loader \in {"verifying", "discarding", "cancelled"}
          \/ \E u \in Unloader : unloader[u] \in {"closing", "cut"}

Lines(kinds) == {i \in 1..Len(gen.lines) : gen.lines[i].kind \in kinds}
LastOf(kinds) == {i \in Lines(kinds) : \A j \in Lines(kinds) : j <= i}

\* The result is the answer that was sent, however its lines were ordered: the last
\* usage if there was one and else the deltas, the last finish reason, "stop" without.
\* Lines of an attempt that was retried count: the one _Outcome is not reset.
ResultIsTheAnswer ==
  gen.result # NoResult =>
    /\ \A i \in LastOf({"usage"}) : gen.result.completion = gen.lines[i].n
    /\ Lines({"usage"}) = {} => gen.result.completion = Cardinality(Lines({"token"}))
    /\ gen.result.finish \in {"stop", "length"} =>
         /\ \A i \in LastOf({"stop", "length"}) : gen.result.finish = gen.lines[i].kind
         /\ Lines({"stop", "length"}) = {} => gen.result.finish = "stop"

\* The connection of a remote backend is there while the backend is ready, and is closed
\* again; a cancelled load and an interrupted unload are the only exceptions.
ConnectionIsKept == ReadyHasClient /\ ConnectionIsClosed
=============================================================================
