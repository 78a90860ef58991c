------------------------------- MODULE HttpEdge -------------------------------
(***************************************************************************)
(* The HTTP endpoints that generate (api/openai_router.py and              *)
(* api/anthropic_router.py): what the client is sent, frame by frame, and  *)
(* what is recorded when the exchange is over.  Admission and accounting   *)
(* themselves are in Serving.  The framework is external: it runs the      *)
(* response, and throws into its generator when the client has left.       *)
(***************************************************************************)
EXTENDS Naturals, Sequences

CONSTANTS
  Exchange,
  MaxTokens   \* bound on the tokens of a generation

ASSUME HttpAssumption == MaxTokens \in Nat

VARIABLE http \* the state of each exchange

\* pc: "new", "handed" (the response is built, its generator not begun), "pulling",
\* "sending", "collecting", "closing", "done", "refused", "dropped".
\* todo: the frames to be yielded before the next await; next: where pc goes then.
New ==
  [dialect |-> "none", stream |-> FALSE, pc |-> "new", todo |-> <<>>, next |-> "",
   frames |-> <<>>, tokens |-> 0, result |-> "none", error |-> FALSE, finals |-> 0,
   outcome |-> "none", here |-> TRUE]

Put(x, r) == http' = [http EXCEPT ![x] = r]
Send(r, frames, next) == [r EXCEPT !.pc = "sending", !.todo = frames, !.next = next]

Opening(d) ==
  IF d = "openai" THEN <<"role">> ELSE <<"message_start", "content_block_start", "ping">>
Ending(d) ==
  IF d = "openai" THEN <<"finish", "DONE">>
  ELSE <<"content_block_stop", "message_delta", "message_stop">>

Failing(d) == IF d = "openai" THEN <<"error", "DONE">> ELSE <<"error">>
-----------------------------------------------------------------------------
\* The address, the size, the model's name, the response format, or start_generation
\* refuses: an error response.
Refuse(x) == http[x].pc = "new" /\ Put(x, [http[x] EXCEPT !.pc = "refused"])

\* start_generation has returned: a streaming response is built or the whole collected.
Serve(x) ==
  /\ http[x].pc = "new"
  /\ \E d \in {"openai", "anthropic"}, s \in BOOLEAN :
       Put(x, [http[x] EXCEPT !.dialect = d, !.stream = s,
                              !.pc = IF s THEN "handed" ELSE "collecting"])

ClientLeaves(x) ==
  /\ http[x].here /\ http[x].pc \notin {"done", "refused", "dropped"}
  /\ Put(x, [http[x] EXCEPT !.here = FALSE])

\* The client left while the request was queued: the framework may end the response at
\* its headers, and a generator that never began has no finally clause to run.
Drop(x) ==
  http[x].pc = "handed" /\ ~http[x].here /\ Put(x, [http[x] EXCEPT !.pc = "dropped"])

\* _sse begins with the frames that open the answer.
Begin(x) ==
  http[x].pc = "handed" /\ Put(x, Send(http[x], Opening(http[x].dialect), "pulling"))

\* One frame is yielded and taken.
Yield(x) ==
  LET r == http[x] IN
  /\ r.pc = "sending"
  /\ Put(x, IF r.todo = <<>> THEN [r EXCEPT !.pc = r.next]
            ELSE [r EXCEPT !.todo = Tail(@), !.frames = IF r.here THEN Append(@, Head(r.todo)) ELSE @])

Token(x) ==
  /\ http[x].pc = "pulling" /\ http[x].tokens < MaxTokens
  /\ Put(x, Send([http[x] EXCEPT !.tokens = @ + 1], <<"token">>, "pulling"))

\* The stream is exhausted: its result is the final one.
Ends(x) ==
  /\ http[x].pc = "pulling"
  /\ Put(x, Send([http[x] EXCEPT !.result = "complete"], Ending(http[x].dialect), "closing"))

FailureFrames(d) == Failing(d)

\* The stream raises after the headers were sent.
Fails(x) ==
  /\ http[x].pc = "pulling"
  /\ Put(x, Send([http[x] EXCEPT !.error = TRUE], FailureFrames(http[x].dialect), "closing"))

\* GeneratorExit or CancelledError at a suspension; no error frame.
Disconnected(x) ==
  /\ http[x].pc \in {"pulling", "sending"} /\ ~http[x].here
  /\ Put(x, [http[x] EXCEPT !.pc = "closing"])

\* The answer in one piece: collect() returns, or raises, a cancellation included.
AnswerWhole(x) ==
  /\ http[x].pc = "collecting"
  /\ \/ Put(x, [http[x] EXCEPT !.pc = "done", !.result = "complete", !.finals = 1, !.outcome = "ok",
                               !.frames = IF http[x].here THEN <<"body">> ELSE <<>>])
     \/ Put(x, [http[x] EXCEPT !.pc = "closing", !.error = TRUE])

\* Fault: success is what raised nothing.
OutcomeOfError(error, result) == IF error THEN "error" ELSE "ok"

\* finish_generation: an interrupted consumption is a cancellation.
OutcomeOf(error, result) ==
  IF error THEN "error" ELSE IF result = "complete" THEN "ok" ELSE "cancelled"

FinalsAfter(r, interrupted) == r.finals + 1

\* aclose gives the stream a result if it has none (the worker may just have ended);
\* interrupted, it leaves none.  The inner finally finishes the request in any case.
CloseStream(x) ==
  LET r == http[x] IN
  /\ r.pc = "closing"
  /\ \E result \in {"complete", "cancelled", "none"} :
       /\ r.result # "none" => result = r.result
       /\ Put(x, [r EXCEPT !.pc = "done", !.result = result,
                           !.outcome = OutcomeOf(r.error, result),
                           !.finals = FinalsAfter(r, result = "none")])
-----------------------------------------------------------------------------
HttpInit == http = [x \in Exchange |-> New]

Answering(x) ==
  \/ Begin(x) \/ Yield(x) \/ Ends(x) \/ AnswerWhole(x) \/ CloseStream(x)

HttpNext ==
  \E x \in Exchange :
    \/ Refuse(x) \/ Serve(x) \/ ClientLeaves(x) \/ Drop(x) \/ Answering(x)
    \/ Token(x) \/ Fails(x) \/ Disconnected(x)
-----------------------------------------------------------------------------
IsPrefixOf(s, t) == Len(s) <= Len(t) /\ s = SubSeq(t, 1, Len(s))
Tokens(n) == [i \in 1..n |-> "token"]
Answer(r, n, end) == Opening(r.dialect) \o Tokens(n) \o end

\* What a client reads is at every moment the beginning of one answer of its dialect:
\* opening, tokens, and one ending, either the normal one or the failure.
FramesFollowDialect ==
  \A x \in Exchange : http[x].stream =>
    \E n \in 0..MaxTokens, end \in {Ending(http[x].dialect), Failing(http[x].dialect)} :
      IsPrefixOf(http[x].frames, Answer(http[x], n, end))

\* A client that stays is given the whole answer, terminator included, whether the
\* generation succeeds or fails half-way.
StayingClientIsAnswered ==
  \A x \in Exchange : LET r == http[x] IN
    r.pc = "done" /\ r.here /\ r.stream =>
      r.frames = Answer(r, r.tokens, IF r.error
                                       THEN IF r.dialect = "openai" THEN <<"error", "DONE">> ELSE <<"error">>
                                       ELSE Ending(r.dialect))

\* "call it exactly once per Served" (finish_generation): whatever ends an exchange it is
\* accounted once, unless its response was dropped before the generator had begun.
FinishedOnce ==
  \A x \in Exchange :
    /\ http[x].finals = (IF http[x].pc = "done" THEN 1 ELSE 0)
    /\ http[x].pc = "dropped" => http[x].stream /\ ~http[x].here

\* The record agrees with what the client saw: a success frame only on success, a success
\* only for a complete generation, a cancellation only if the client left.
RecordMatchesAnswer ==
  \A x \in Exchange : LET r == http[x] IN
    r.pc = "done" =>
      /\ r.outcome = "ok" => r.result = "complete" /\ ~r.error
      /\ r.outcome = "cancelled" => ~r.here /\ r.stream
      /\ \A i \in 1..Len(r.frames) :
           /\ r.frames[i] = "error" => r.outcome = "error"
           /\ r.frames[i] \in {"finish", "message_delta", "body"} => r.outcome = "ok"

\* Every exchange that is served comes to its end.
ExchangesEnd ==
  \A x \in Exchange : []<>(http[x].pc \in {"new", "done", "refused", "dropped"})

\* What is recorded of an exchange is what its client saw: a well-formed answer, whole if
\* the client stayed, accounted once and with the outcome it shows.
AnswerIsRecorded == FramesFollowDialect /\ StayingClientIsAnswered /\ FinishedOnce /\ RecordMatchesAnswer
=============================================================================
