----------------------------- MODULE StreamProofs -----------------------------
(***************************************************************************)
(* Theorems about the two streams a consumer reads.  The stream of a       *)
(* generation, for every queue size and length of generation, and the      *)
(* backend that runs it, for any number of loads, unloads and generations; *)
(* and that the one acts in the other as a generation.  The stream of a    *)
(* client's account events, for every page size and retention.             *)
(*                                                                         *)
(* For the stream of tokens, the strengthening says which permits exist    *)
(* after a close, that nothing is offered once the worker settled, and what*)
(* the loop has seen of it.                                                *)
(***************************************************************************)
EXTENDS LocalBackend, ClientEvents, FiniteSetTheorems, WellFoundedInduction, TLAPS

\* The limits, in seconds, of a leaf that names no prover.
USE SMTT(30), ZenonT(30)

\* After a close the extra permit is free, or held by a worker that has yet to
\* look at the cancel event: it never buys room for a token.
ExtraPermitUnspent ==
  closed => cancel /\ (capacity >= 1 \/ worker = "check")

\* What was delivered was queued, and what was queued was offered.
Ordered == index <= queued /\ queued <= offered /\ lost = 0

\* The terminal item is offered last, and queued behind every token.
TerminalLast ==
  /\ (term # "none") <=> (worker \in {"callback", "ended"})
  /\ term \in {"queued", "lost", "taken"} => queued = offered
  /\ term = "taken" => index = offered

\* A complete result was read off a terminal item behind the last token.
CompleteIsRead ==
  result = "stop" => term = "taken" /\ completion_tokens = index

\* The on_done callback is the last thing the thread schedules.
CallbackLast == doneCallback # "none" => worker = "ended"

\* The _closed flag lets one aclose call through.
OneCloser == closed <=> (closer # "none")

IInv ==
  /\ TypeOK /\ SlotConservation /\ ExtraPermitUnspent /\ Ordered
  /\ TerminalLast /\ CompleteIsRead /\ CallbackLast /\ OneCloser
  /\ OnDoneAfterWorker

USE StreamAssumption
USE DEF WorkerStates, Finishes, TermStates, ConsumerStates, CloserStates
-----------------------------------------------------------------------------
(* A new stream, before either side has taken a step, satisfies the inductive invariant of
   the token stream. *)
LEMMA InitInv == Init => IInv
<1> SUFFICES ASSUME Init PROVE IInv
  OBVIOUS
<1>1. TypeOK
  BY Zenon DEF Init, TypeOK
<1>2. SlotConservation /\ Ordered
  BY DEF Init, SlotConservation, Reserved, Ordered
<1>3. ExtraPermitUnspent /\ TerminalLast /\ CompleteIsRead /\ OnDoneAfterWorker
      /\ CallbackLast /\ OneCloser
  BY DEF Init, ExtraPermitUnspent, TerminalLast, CompleteIsRead,
         OnDoneAfterWorker, CallbackLast, OneCloser
<1> QED BY <1>1, <1>2, <1>3 DEF IInv

\* A buffer slot stands behind every token on its way.
LEMMA TokensFit ==
  ASSUME IInv
  PROVE  offered - index <= MaxSize
<1>1. CASE closed
  BY <1>1 DEF IInv, TypeOK, SlotConservation, ExtraPermitUnspent, Reserved, Ordered
<1>2. CASE ~closed
  BY <1>2 DEF IInv, TypeOK, SlotConservation, Reserved, Ordered
<1> QED BY <1>1, <1>2

(* Every step of a stream, whether of the worker thread, of the event loop or of the
   consumer, keeps its inductive invariant. *)
LEMMA NextInv == IInv /\ [Next]_vars => IInv'
<1> SUFFICES ASSUME IInv, [Next]_vars PROVE IInv'
  OBVIOUS
<1> USE DEF IInv, TypeOK, workerVars, loopVars, WorkerStep, Settle, Reserved,
        SlotConservation, ExtraPermitUnspent, Ordered, TerminalLast,
        CompleteIsRead, CallbackLast, OneCloser, OnDoneAfterWorker
<1>1. CASE Start
  BY <1>1 DEF Start
<1>2. CASE CheckCancelled
  BY <1>2 DEF CheckCancelled
<1>3. CASE Reserve
  BY <1>3 DEF Reserve
<1>4. CASE Unblock
  BY <1>4 DEF Unblock
<1>5. CASE CheckAgain
  BY <1>5 DEF CheckAgain
<1>6. CASE NextToken
  BY <1>6 DEF NextToken
<1>7. ASSUME NEW why \in {"stop", "cancelled", "error"}, NextEnds(why) PROVE IInv'
  BY <1>7 DEF NextEnds
<1>8. CASE OfferToken
  BY <1>8 DEF OfferToken
<1>9. CASE OfferTerminal
  BY <1>9 DEF OfferTerminal
<1>10. CASE OfferOnDone
  BY <1>10 DEF OfferOnDone
<1>11. CASE PutToken
  BY <1>11, TokensFit DEF PutToken, QueueLength
<1>12. CASE PutTerminal
  BY <1>12 DEF PutTerminal
<1>13. CASE RunOnDone
  BY <1>13 DEF RunOnDone
<1>14. CASE TakeToken
  BY <1>14 DEF TakeToken, TokensInQueue
<1>15. CASE TakeTerminal
  BY <1>15 DEF TakeTerminal, TokensInQueue
<1>16. CASE AnextStop \/ AnextWait \/ ConsumerGone
  BY <1>16 DEF AnextStop, AnextWait, ConsumerGone
<1>17. CASE Aclose
  BY <1>17 DEF Aclose
<1>18. CASE Joined \/ JoinExpires
  <2>1. result' = IF result = "none" THEN "cancelled" ELSE result
    BY <1>18 DEF Joined, JoinExpires, AcloseReturns, Close
  <2>2. result # "none" => completion_tokens' = completion_tokens
    BY <1>18 DEF Joined, JoinExpires, AcloseReturns, Close
  <2>3. completion_tokens' \in Nat
    BY <1>18 DEF Joined, JoinExpires, AcloseReturns, Close
  <2>4. closer = "joining"
        /\ \/ worker = "ended" /\ closer' = "joined"
           \/ worker # "ended" /\ closer' = "expired"
    BY <1>18 DEF Joined, JoinExpires, AcloseReturns, Close
  <2>5. /\ exhausted' = TRUE /\ on_done_fired' = TRUE
        /\ UNCHANGED <<workerVars, queued, lost, index, term, doneCallback,
                       closed, cancel, consumer>>
    BY <1>18 DEF Joined, JoinExpires, AcloseReturns, Close
  <2>6. TypeOK'
    BY <2>1, <2>3, <2>4, <2>5
  <2>7. CompleteIsRead'
    BY <2>1, <2>2, <2>5
  <2> QED BY <2>4, <2>5, <2>6, <2>7
<1>19. CASE AcloseInterrupted
  BY <1>19 DEF AcloseInterrupted
<1>20. CASE UNCHANGED vars
  BY <1>20 DEF vars
<1> QED BY <1>1, <1>2, <1>3, <1>4, <1>5, <1>6, <1>7, <1>8, <1>9, <1>10, <1>11,
           <1>12, <1>13, <1>14, <1>15, <1>16, <1>17, <1>18, <1>19, <1>20, ZenonT(30)
        DEF Next, Worker, Loop, Consumer, Closer, AnextNow, GetResumes

\* The invariant holds in every reachable state.
THEOREM Invariance == Spec => []IInv
<1> QED BY InitInv, NextInv, PTL DEF Spec

\* The stream's state stays well typed: no count becomes negative.
THEOREM TypeCorrect == Spec => []TypeOK
<1>1. IInv => TypeOK
  BY DEF IInv
<1> QED BY <1>1, Invariance, PTL

\* Permits account for queue slots through every end of a generation.
THEOREM SlotsConserved == Spec => []SlotConservation
<1>1. IInv => SlotConservation
  BY DEF IInv
<1> QED BY <1>1, Invariance, PTL

\* For every queue size: tokens in flight never exceed it and none is dropped,
\* although aclose adds a permit of its own.
THEOREM BufferIsBounded == Spec => []BufferBounded
<1>1. IInv => BufferBounded
  BY TokensFit DEF IInv, Ordered, BufferBounded
<1> QED BY <1>1, Invariance, PTL

\* A result that says stop counts every token the worker produced.
THEOREM StopMeansComplete == Spec => []CompleteMeansComplete
<1>1. IInv => CompleteMeansComplete
  BY DEF IInv, CompleteIsRead, TerminalLast, CompleteMeansComplete
<1> QED BY <1>1, Invariance, PTL

\* on_done precedes the end of the generator only when the join expired.
THEOREM OnDoneWaitsForWorker == Spec => []OnDoneAfterWorker
<1>1. IInv => OnDoneAfterWorker
  BY DEF IInv
<1> QED BY <1>1, Invariance, PTL

\* A published result is never replaced, whichever of the terminal item and
\* aclose comes first.
THEOREM ResultNeverChanges == Spec => ResultIsFinal
<1>1. [Next]_vars => [result # "none" => UNCHANGED <<result, completion_tokens>>]_vars
  <2> SUFFICES ASSUME Next, result # "none"
               PROVE  UNCHANGED <<result, completion_tokens>>
    BY Zenon
  <2>1. CASE Worker
    BY <2>1 DEF Worker, Start, CheckCancelled, Reserve, Unblock, CheckAgain,
       NextToken, NextEnds, OfferToken, OfferTerminal, OfferOnDone, loopVars
  <2>2. CASE Loop
    BY <2>2 DEF Loop, PutToken, PutTerminal, RunOnDone
  <2>3. CASE Consumer
    BY <2>3 DEF Consumer, AnextStop, AnextNow, AnextWait, GetResumes,
       ConsumerGone, TakeToken, TakeTerminal, loopVars
  <2>4. CASE Closer
    BY <2>4 DEF Closer, Aclose, Joined, JoinExpires, AcloseReturns, Close,
       AcloseInterrupted, loopVars
  <2> QED BY <2>1, <2>2, <2>3, <2>4 DEF Next
<1> QED BY <1>1, PTL DEF Spec, ResultIsFinal

\* QueueGenerationStream loses no token, for every queue size and length of generation.
THEOREM TokensKept == Spec => []TokensAreKept
BY SlotsConserved, BufferIsBounded, StopMeansComplete, OnDoneWaitsForWorker, PTL DEF TokensAreKept
-----------------------------------------------------------------------------
(* The backend: the inductive invariant                                    *)

HIDE StreamAssumption

\* Nothing is done with a generation that has not begun.
Begun ==
  /\ \A g \in Gens : work[g] = "none" => ~fired[g] /\ g \notin closing /\ g # active
  /\ \A t \in Unloads : task[t] = "closing" => target[t] \in Gens /\ work[target[t]] # "none"

\* No unload has overwritten the state of a load or of a generation.
NoRace == \A t \in Unloads : task[t] # "raced"

Loading == {t \in Loads : task[t] \in {"loading", "loaded", "failed"}}

\* Until then, the state says what goes on: one load, one generation, or neither.  A
\* backend with work to do has a model, unless an unload has taken it and is
\* about to say so.
Exact ==
  /\ \A g, h \in B!Unfired : g = h
  /\ state # "generating" => B!Unfired = {}
  /\ active # NoGen => active \in B!Unfired
  /\ state = "generating" =>
       active # NoGen \/ \E t \in Unloads : task[t] \in {"unloading", "unloaded"}
  /\ \A s, t \in Loading : s = t
  /\ state = "loading" <=> Loading # {}
  /\ state \in {"ready", "generating"} \/ (\E t \in Loads : task[t] = "loaded")
       => llm \/ \E t \in Unloads : task[t] = "unloaded"

BackendInv == B!TypeOK /\ Begun /\ B!GeneratingIsBacked /\ (NoRace => Exact)

USE LocalAssumption
-----------------------------------------------------------------------------
(* The backend: one lemma per step                                         *)

(* A backend that has not been loaded satisfies the inductive invariant of its worker and its
   streams. *)
LEMMA BackendInit == B!Init => BackendInv
<1> SUFFICES ASSUME B!Init PROVE BackendInv
  OBVIOUS
<1> USE DEF B!Init
<1>1. B!TypeOK
  BY Zenon DEF B!TypeOK, B!States, B!LoadSteps, B!UnloadSteps, B!WorkSteps
<1>2. Begun
  BY DEF Begun
<1>3. B!GeneratingIsBacked
  BY DEF B!GeneratingIsBacked
<1>4. Exact
  BY DEF Exact, B!Unfired, Loading
<1> QED BY <1>1, <1>2, <1>3, <1>4 DEF BackendInv

\* load() begins, from unloaded only, and runs and resumes alone.
LEMMA LoadSteps ==
  ASSUME BackendInv, NEW t \in Loads, B!LoadCall(t) \/ B!LoadRuns(t) \/ B!LoadResumes(t)
  PROVE  BackendInv'
<1>0. /\ B!TypeOK /\ Begun /\ B!GeneratingIsBacked /\ (NoRace => Exact) /\ t \notin Unloads
      /\ UNCHANGED <<active, target, work, closes, closing, fired>>
      /\ B!Unfired' = B!Unfired
  BY DEF BackendInv, B!LoadCall, B!LoadRuns, B!LoadResumes, B!LoadEnds, B!genVars, B!Unfired
<1>1. \A u \in Unloads : task'[u] = task[u]
  BY <1>0 DEF B!LoadCall, B!LoadRuns, B!LoadResumes, B!LoadEnds, B!TypeOK
<1>2. B!TypeOK'
  BY <1>0, Zenon DEF B!TypeOK, B!States, B!LoadSteps, B!LoadCall, B!LoadRuns, B!LoadResumes, B!LoadEnds
<1>3. Begun' /\ (NoRace' => NoRace)
  BY <1>0, <1>1 DEF Begun, NoRace
<1>4. B!GeneratingIsBacked'
  BY <1>0 DEF B!GeneratingIsBacked, B!LoadCall, B!LoadRuns, B!LoadResumes, B!LoadEnds
<1>5. ASSUME NoRace' PROVE Exact'
  <2>0. Exact
    BY <1>0, <1>3, <1>5
  <2>1. CASE B!LoadCall(t) /\ state = "unloaded"
    <3>1. state' = "loading" /\ UNCHANGED llm /\ \A s \in Loads : task'[s] = IF s = t THEN "loading" ELSE task[s]
      BY <1>0, <2>1 DEF B!LoadCall, B!TypeOK
    <3>2. Loading = {} /\ Loading' = {t}
      BY <2>0, <2>1, <3>1, Zenon DEF Exact, Loading
    <3> QED BY <1>0, <1>1, <2>0, <2>1, <3>1, <3>2, Zenon DEF Exact
  <2>2. CASE B!LoadCall(t) /\ state # "unloaded"
    <3>1. UNCHANGED <<state, llm>> /\ task[t] = "idle"
          /\ \A s \in Loads : task'[s] = IF s = t THEN "done" ELSE task[s]
      BY <1>0, <2>2 DEF B!LoadCall, B!TypeOK
    <3>2. Loading' = Loading
      BY <3>1 DEF Loading
    <3> QED BY <1>0, <1>1, <2>0, <3>1, <3>2 DEF Exact
  <2>3. CASE B!LoadRuns(t)
    <3>1. UNCHANGED state /\ task[t] = "loading" /\ \A s \in Loads : s # t => task'[s] = task[s]
      BY <1>0, <2>3 DEF B!LoadRuns, B!TypeOK
    <3>2. \/ task'[t] = "loaded" /\ llm' = TRUE
          \/ task'[t] = "failed" /\ llm' = llm
      BY <1>0, <2>3 DEF B!LoadRuns, B!TypeOK
    <3>3. Loading' = Loading
      BY <3>1, <3>2 DEF Loading
    <3> QED BY <1>0, <1>1, <2>0, <3>1, <3>2, <3>3 DEF Exact
  <2>4. CASE B!LoadResumes(t)
    <3>1. /\ UNCHANGED llm /\ task[t] \in {"loaded", "failed"}
          /\ \A s \in Loads : task'[s] = IF s = t THEN "done" ELSE task[s]
          /\ state' = IF task[t] = "loaded" THEN "ready" ELSE "unloaded"
      BY <1>0, <2>4 DEF B!LoadResumes, B!LoadEnds, B!TypeOK
    <3>2. Loading = {t} /\ Loading' = {} /\ state = "loading"
      BY <2>0, <3>1 DEF Exact, Loading
    <3>3. \A s \in Loads : task'[s] # "loaded"
      BY <3>2 DEF Loading
    <3> QED BY <1>0, <1>1, <2>0, <3>1, <3>2, <3>3 DEF Exact
  <2> QED BY <2>1, <2>2, <2>3, <2>4
<1> QED BY <1>2, <1>3, <1>4, <1>5 DEF BackendInv

\* _fire_on_done: the first call makes the state ready, a second one does nothing.
LEMMA FireFacts ==
  ASSUME BackendInv, NEW g \in Gens, work[g] # "none", B!FireOnDone(g), UNCHANGED work
  PROVE  /\ fired' \in [Gens -> BOOLEAN] /\ state' \in B!States
         /\ \A h \in Gens : fired'[h] = (h = g \/ fired[h])
         /\ B!Unfired' = B!Unfired \ {g}
         /\ B!GeneratingIsBacked'
         /\ fired[g] => state' = state /\ B!Unfired' = B!Unfired
         /\ ~fired[g] => g \in B!Unfired /\ (state' = IF state = "generating" THEN "ready" ELSE state)
<1>0. /\ fired \in [Gens -> BOOLEAN] /\ state \in B!States /\ B!GeneratingIsBacked
      /\ fired' = [fired EXCEPT ![g] = TRUE]
      /\ state' = IF ~fired[g] /\ state = "generating" THEN "ready" ELSE state
  BY DEF BackendInv, B!TypeOK, B!FireOnDone
<1>1. fired' \in [Gens -> BOOLEAN] /\ \A h \in Gens : fired'[h] = (h = g \/ fired[h])
  BY <1>0, Zenon
<1>2. state' \in B!States
  BY <1>0 DEF B!States
<1>3. B!Unfired' = B!Unfired \ {g}
  BY <1>1 DEF B!Unfired
<1>4. ~fired[g] => g \in B!Unfired
  BY DEF B!Unfired
<1>5. fired[g] => g \notin B!Unfired
  BY DEF B!Unfired
<1>6. B!GeneratingIsBacked'
  BY <1>0, <1>3, <1>5 DEF B!GeneratingIsBacked
<1> QED BY <1>0, <1>1, <1>2, <1>3, <1>4, <1>5, <1>6, Zenon

\* What firing leaves of the exact state, whoever the unloads and the active stream are.
LEMMA FireExact ==
  ASSUME BackendInv, Exact, NEW g \in Gens, work[g] # "none", B!FireOnDone(g), UNCHANGED work
  PROVE  /\ \A h, k \in B!Unfired' : h = k
         /\ state' # "generating" => B!Unfired' = {}
         /\ state' = "generating" => state = "generating" /\ B!Unfired' = B!Unfired
         /\ state' \in {"ready", "generating"} => state \in {"ready", "generating"}
         /\ state' = "loading" <=> state = "loading"
         /\ state' = "unloaded" <=> state = "unloaded"
         /\ ~fired[g] => B!Unfired' = {} /\ state' = "ready"
BY FireFacts DEF Exact

\* on_done fires: scheduled by the worker, or after the handler's own close.
LEMMA DoneSteps ==
  ASSUME BackendInv, NEW g \in Gens, B!OnDone(g) \/ B!HandlerClosed(g)
  PROVE  BackendInv'
<1>0. /\ B!TypeOK /\ Begun /\ (NoRace => Exact) /\ work[g] # "none" /\ B!FireOnDone(g)
      /\ UNCHANGED <<llm, task, target, work, closes>>
      /\ closing' \subseteq closing /\ active' = IF fired[g] THEN active ELSE NoGen
  BY DEF BackendInv, Begun, B!OnDone, B!HandlerClosed
<1>1. /\ fired' \in [Gens -> BOOLEAN] /\ state' \in B!States /\ B!GeneratingIsBacked'
      /\ \A h \in Gens : fired'[h] = (h = g \/ fired[h])
  BY <1>0, FireFacts
<1>2. B!TypeOK'
  <2>1. active' \in Gens \cup {NoGen} /\ closing' \subseteq Gens
    BY <1>0 DEF B!TypeOK
  <2> QED BY <1>0, <1>1, <2>1 DEF B!TypeOK
<1>3. Begun'
  BY <1>0, <1>1, Zenon DEF Begun
<1>4. ASSUME NoRace' PROVE Exact'
  <2>0. Exact
    BY <1>0, <1>4 DEF NoRace
  <2>1. /\ \A h, k \in B!Unfired' : h = k
        /\ state' # "generating" => B!Unfired' = {}
        /\ state' = "generating" => state = "generating" /\ B!Unfired' = B!Unfired
        /\ state' \in {"ready", "generating"} => state \in {"ready", "generating"}
        /\ state' = "loading" <=> state = "loading"
        /\ ~fired[g] => B!Unfired' = {} /\ state' = "ready"
    BY <1>0, <2>0, FireExact, Zenon
  <2>2. fired[g] => B!Unfired' = B!Unfired
    BY <1>0, FireFacts
  <2>3. Loading' = Loading
    BY <1>0 DEF Loading
  <2>4. active' # NoGen => active' \in B!Unfired'
    BY <1>0, <2>0, <2>2, Zenon DEF Exact
  <2>5. state' = "generating" =>
          active' # NoGen \/ \E t \in Unloads : task'[t] \in {"unloading", "unloaded"}
    BY <1>0, <2>0, <2>1, Zenon DEF Exact
  <2>6. state' \in {"ready", "generating"} \/ (\E t \in Loads : task'[t] = "loaded")
          => llm' \/ \E t \in Unloads : task'[t] = "unloaded"
    BY <1>0, <2>0, <2>1 DEF Exact
  <2> QED BY <2>0, <2>1, <2>3, <2>4, <2>5, <2>6, Zenon DEF Exact
<1> QED BY <1>1, <1>2, <1>3, <1>4, Zenon DEF BackendInv

\* A generation begins, on a ready backend only.
LEMMA GenerateStep ==
  ASSUME BackendInv, NEW g \in Gens, B!Generate(g)
  PROVE  BackendInv'
<1>0. /\ B!TypeOK /\ Begun /\ (NoRace => Exact) /\ state = "ready" /\ state' = "generating" /\ active' = g
      /\ work[g] = "none" /\ work' = [work EXCEPT ![g] = "start"] /\ llm = TRUE
      /\ UNCHANGED <<llm, task, target, closes, closing, fired>> /\ g # NoGen
  BY DEF BackendInv, B!Generate, B!StartStream, B!TypeOK
<1>1. \A h \in Gens : work'[h] = IF h = g THEN "start" ELSE work[h]
  BY <1>0 DEF B!TypeOK
<1>2. B!TypeOK'
  BY <1>0 DEF B!TypeOK, B!States, B!WorkSteps
<1>3. B!Unfired' = B!Unfired \cup {g}
  BY <1>0, <1>1 DEF B!Unfired, Begun
<1>4. Begun' /\ B!GeneratingIsBacked'
  BY <1>0, <1>1, <1>3 DEF Begun, B!GeneratingIsBacked
<1>5. ASSUME NoRace' PROVE Exact'
  <2>0. Exact /\ Loading' = Loading
    BY <1>0, <1>5 DEF NoRace, Loading
  <2> QED BY <1>0, <1>3, <2>0 DEF Exact
<1> QED BY <1>2, <1>4, <1>5, Zenon DEF BackendInv

\* The worker thread moves, or a handler begins or gives up closing the stream.
LEMMA ThreadSteps ==
  ASSUME BackendInv, NEW g \in Gens,
         B!WorkerStarts(g) \/ B!WorkerEnds(g) \/ B!HandlerCloses(g) \/ B!HandlerInterrupted(g)
  PROVE  BackendInv'
<1>0. /\ B!TypeOK /\ Begun /\ (NoRace => Exact) /\ B!GeneratingIsBacked
      /\ UNCHANGED <<state, active, llm, task, target, fired>>
  BY DEF BackendInv, B!WorkerStarts, B!WorkerEnds, B!HandlerCloses, B!HandlerInterrupted
<1>1. /\ B!TypeOK' /\ \A h \in Gens : work'[h] = "none" <=> work[h] = "none"
      /\ \A h \in closing' : h \in closing \/ work[h] # "none"
  BY <1>0, Zenon DEF B!TypeOK, B!WorkSteps, B!WorkerStarts, B!WorkerEnds, B!HandlerCloses, B!HandlerInterrupted
<1>2. B!Unfired' = B!Unfired /\ Loading' = Loading
  BY <1>0, <1>1 DEF B!Unfired, Loading
<1>3. Begun'
  BY <1>0, <1>1 DEF Begun, B!TypeOK
<1>4. B!GeneratingIsBacked' /\ (NoRace' => Exact')
  BY <1>0, <1>2 DEF B!GeneratingIsBacked, NoRace, Exact
<1> QED BY <1>1, <1>3, <1>4 DEF BackendInv

\* unload() begins: it closes the active stream, or goes on at once.
LEMMA UnloadCallStep ==
  ASSUME BackendInv, NEW t \in Unloads, B!UnloadCall(t)
  PROVE  BackendInv'
<1>0. /\ B!TypeOK /\ Begun /\ (NoRace => Exact) /\ B!GeneratingIsBacked /\ task[t] = "idle"
      /\ UNCHANGED <<state, llm, work, closing, fired>> /\ t \notin Loads
      /\ B!Unfired' = B!Unfired
  BY DEF BackendInv, B!UnloadCall, B!Unfired
<1>1. CASE active # NoGen /\ ~closes[active]
  <2>1. /\ UNCHANGED active /\ active \in Gens
        /\ task' = [task EXCEPT ![t] = "closing"] /\ target' = [target EXCEPT ![t] = active]
        /\ closes' = [closes EXCEPT ![active] = TRUE]
    BY <1>0, <1>1 DEF B!UnloadCall, B!TypeOK
  <2>2. /\ \A s \in Loads \cup Unloads : task'[s] = IF s = t THEN "closing" ELSE task[s]
        /\ \A s \in Unloads : target'[s] = IF s = t THEN active ELSE target[s]
    BY <1>0, <2>1 DEF B!TypeOK
  <2>3. B!TypeOK'
    BY <1>0, <2>1 DEF B!TypeOK, B!UnloadSteps
  <2>4. Begun' /\ B!GeneratingIsBacked'
    BY <1>0, <2>1, <2>2 DEF Begun, B!GeneratingIsBacked
  <2>5. ASSUME NoRace' PROVE Exact'
    <3>0. Exact /\ Loading' = Loading
      BY <1>0, <2>2, <2>5 DEF NoRace, Loading
    <3>1. \A s \in Unloads : task[s] \in {"unloading", "unloaded"} => task'[s] = task[s]
      BY <1>0, <2>2
    <3>2. \A s \in Loads : task'[s] = task[s]
      BY <1>0, <2>2
    <3> QED BY <1>0, <2>1, <3>0, <3>1, <3>2, Zenon DEF Exact
  <2> QED BY <2>3, <2>4, <2>5 DEF BackendInv
<1>2. CASE ~(active # NoGen /\ ~closes[active])
  <2>1. /\ active' = NoGen /\ UNCHANGED <<target, closes>>
        /\ task' = [task EXCEPT ![t] = IF state = "unloaded" THEN "done" ELSE "unloading"]
    BY <1>0, <1>2 DEF B!UnloadCall, B!UnloadRest
  <2>2. \A s \in Loads \cup Unloads :
          task'[s] = IF s = t THEN (IF state = "unloaded" THEN "done" ELSE "unloading") ELSE task[s]
    BY <1>0, <2>1 DEF B!TypeOK
  <2>3. B!TypeOK'
    BY <1>0, <2>1 DEF B!TypeOK, B!UnloadSteps
  <2>4. Begun' /\ B!GeneratingIsBacked'
    BY <1>0, <2>1, <2>2 DEF Begun, B!GeneratingIsBacked
  <2>5. ASSUME NoRace' PROVE Exact'
    <3>0. Exact /\ Loading' = Loading
      BY <1>0, <2>2, <2>5 DEF NoRace, Loading
    <3>1. \A s \in Unloads : task[s] = "unloaded" => task'[s] = "unloaded"
      BY <1>0, <2>2
    <3>2. \A s \in Loads : task'[s] = task[s]
      BY <1>0, <2>2
    <3>3. state = "generating" => task'[t] = "unloading"
      BY <2>2
    <3> QED BY <1>0, <2>1, <3>0, <3>1, <3>2, <3>3, Zenon DEF Exact
  <2> QED BY <2>3, <2>4, <2>5 DEF BackendInv
<1> QED BY <1>1, <1>2

\* Its stream is closed: on_done has fired, and the rest of unload() follows.
LEMMA UnloadClosedStep ==
  ASSUME BackendInv, NEW t \in Unloads, B!UnloadClosed(t)
  PROVE  BackendInv'
<1> DEFINE g == target[t]
<1>0. /\ B!TypeOK /\ Begun /\ (NoRace => Exact) /\ task[t] = "closing" /\ B!FireOnDone(g) /\ active' = NoGen
      /\ UNCHANGED <<llm, target, work, closes, closing>> /\ t \notin Loads
      /\ task' = [task EXCEPT ![t] = IF state' = "unloaded" THEN "done" ELSE "unloading"]
  BY DEF BackendInv, B!UnloadClosed, B!UnloadRest
<1>1. g \in Gens /\ work[g] # "none"
  BY <1>0 DEF Begun
<1> HIDE DEF g
<1>2. /\ fired' \in [Gens -> BOOLEAN] /\ state' \in B!States /\ B!GeneratingIsBacked'
      /\ \A h \in Gens : fired'[h] = (h = g \/ fired[h])
  BY <1>0, <1>1, FireFacts
<1>3. \A s \in Loads \cup Unloads :
        task'[s] = IF s = t THEN (IF state' = "unloaded" THEN "done" ELSE "unloading") ELSE task[s]
  BY <1>0 DEF B!TypeOK
<1>4. B!TypeOK'
  BY <1>0, <1>2, <1>3, Zenon DEF B!TypeOK, B!UnloadSteps
<1>5. Begun'
  BY <1>0, <1>1, <1>2, <1>3, Zenon DEF Begun, B!TypeOK
<1>6. ASSUME NoRace' PROVE Exact'
  <2>0. Exact /\ Loading' = Loading
    BY <1>0, <1>3, <1>6, Zenon DEF NoRace, Loading
  <2>1. /\ \A h, k \in B!Unfired' : h = k
        /\ state' # "generating" => B!Unfired' = {}
        /\ state' \in {"ready", "generating"} => state \in {"ready", "generating"}
        /\ state' = "loading" <=> state = "loading"
    BY <1>0, <1>1, <2>0, FireExact
  <2>2. state' = "generating" => task'[t] = "unloading"
    BY <1>3
  <2>3. \A s \in Unloads : task[s] = "unloaded" => task'[s] = "unloaded"
    BY <1>0, <1>3
  <2>4. \A s \in Loads : task'[s] = task[s]
    BY <1>0, <1>3
  <2>5. state' \in {"ready", "generating"} \/ (\E s \in Loads : task'[s] = "loaded")
          => llm' \/ \E s \in Unloads : task'[s] = "unloaded"
    BY <1>0, <2>0, <2>1, <2>3, <2>4 DEF Exact
  <2> QED BY <1>0, <2>0, <2>1, <2>2, <2>5 DEF Exact
<1> QED BY <1>2, <1>4, <1>5, <1>6 DEF BackendInv

\* The model is freed, and the state overwritten when the call resumes.
LEMMA UnloadEndsSteps ==
  ASSUME BackendInv, NEW t \in Unloads, B!UnloadRuns(t) \/ B!UnloadResumes(t)
  PROVE  BackendInv'
<1>0. /\ B!TypeOK /\ Begun /\ (NoRace => Exact) /\ B!GeneratingIsBacked /\ t \notin Loads
      /\ UNCHANGED <<active, target, work, closes, closing, fired>> /\ B!Unfired' = B!Unfired
  BY DEF BackendInv, B!UnloadRuns, B!UnloadResumes, B!genVars, B!Unfired
<1>1. CASE B!UnloadRuns(t)
  <2>1. /\ task[t] = "unloading" /\ llm' = FALSE /\ UNCHANGED state
        /\ \A s \in Loads \cup Unloads : task'[s] = IF s = t THEN "unloaded" ELSE task[s]
    BY <1>0, <1>1 DEF B!UnloadRuns, B!TypeOK
  <2>2. B!TypeOK'
    BY <1>0, <1>1, ZenonT(30) DEF B!UnloadRuns, B!TypeOK, B!UnloadSteps
  <2>3. Begun' /\ B!GeneratingIsBacked'
    BY <1>0, <2>1, Zenon DEF Begun, B!GeneratingIsBacked
  <2>4. ASSUME NoRace' PROVE Exact'
    <3>0. Exact /\ Loading' = Loading
      BY <1>0, <2>1, <2>4, Zenon DEF NoRace, Loading
    <3> QED BY <1>0, <2>1, <3>0, Zenon DEF Exact
  <2> QED BY <2>2, <2>3, <2>4, Zenon DEF BackendInv
<1>2. CASE B!UnloadResumes(t)
  <2>1. /\ task[t] = "unloaded" /\ state' = "unloaded" /\ UNCHANGED llm
        /\ \A s \in Loads \cup Unloads :
             task'[s] = IF s = t THEN (IF state = "ready" THEN "done" ELSE "raced") ELSE task[s]
    BY <1>0, <1>2 DEF B!UnloadResumes, B!TypeOK
  <2>2. B!TypeOK'
    BY <1>0, <1>2 DEF B!UnloadResumes, B!TypeOK, B!UnloadSteps, B!States
  <2>3. Begun' /\ B!GeneratingIsBacked'
    BY <1>0, <2>1, ZenonT(30) DEF Begun, B!GeneratingIsBacked
  <2>4. ASSUME NoRace' PROVE Exact'
    <3>0. state = "ready"
      BY <2>1, <2>4, Zenon DEF NoRace
    <3>1. Exact /\ Loading' = Loading
      BY <1>0, <2>1, <2>4, <3>0, Zenon DEF NoRace, Loading
    <3>2. Loading = {} /\ \A s \in Loads : task'[s] # "loaded"
      BY <1>0, <2>1, <3>0, <3>1 DEF Exact, Loading
    <3> QED BY <1>0, <2>1, <3>0, <3>1, <3>2, Zenon DEF Exact
  <2> QED BY <2>2, <2>3, <2>4 DEF BackendInv
<1> QED BY <1>1, <1>2

(* Every step of the backend, of its worker thread and of its consumers keeps the inductive
   invariant. *)
LEMMA BackendInductive ==
  ASSUME BackendInv, [B!Next]_backend
  PROVE  BackendInv'
<1>1. CASE B!Next
  BY <1>1, LoadSteps, UnloadCallStep, UnloadClosedStep, UnloadEndsSteps, GenerateStep,
     ThreadSteps, DoneSteps, Zenon DEF B!Next
<1>2. CASE UNCHANGED backend
  BY <1>2 DEF backend, BackendInv, B!TypeOK, Begun, B!GeneratingIsBacked, B!Unfired, NoRace, Exact, Loading
<1> QED BY <1>1, <1>2

\* At most one unfired generation: at most one worker in the native model.
LEMMA OneOrNone ==
  ASSUME NEW S, \A x, y \in S : x = y
  PROVE  Cardinality(S) <= 1
<1>1. CASE S = {}
  BY <1>1, FS_EmptySet
<1>2. CASE S # {}
  <2>1. PICK x \in S : TRUE
    BY <1>2
  <2>2. S = {x}
    BY <2>1
  <2>3. Cardinality({x}) = 1
    BY FS_Singleton, Zenon
  <2>4. Cardinality(S) = 1
    BY <2>2, <2>3
  <2> QED BY <2>4
<1> QED BY <1>1, <1>2

(* The cardinality the instance of the backend module counts with is the standard one. *)
LEMMA SameCardinality == \A S : B!Cardinality(S) = Cardinality(S)
BY DEF Cardinality, B!Cardinality

\* ThreadedBackend: for any number of loads, unloads and generations that race, the state
\* is true (StateIsTrue): one generation at a time and ready only with a model, as long as no unload
\* is suspended or has overwritten a load or a generation, and generating always with a generation behind it.
THEOREM StateTrue == LocalSpec => []StateIsTrue
<1>1. LocalInit => BackendInv
  BY BackendInit DEF LocalInit
<1>2. BackendInv /\ [LocalNext]_local => BackendInv'
  BY BackendInductive DEF LocalNext, Streams, Manages, local, backend
<1>3. BackendInv => StateIsTrue
  <2> SUFFICES ASSUME BackendInv PROVE StateIsTrue
    OBVIOUS
  <2>1. B!Undisturbed => Exact
    BY DEF B!Undisturbed, BackendInv, NoRace
  <2>2. SingleGeneration
    <3> SUFFICES ASSUME B!Undisturbed PROVE Cardinality(B!Running \cap B!Unfired) <= 1
      BY SameCardinality DEF SingleGeneration, B!SingleGeneration
    <3> QED BY <2>1, OneOrNone DEF Exact
  <2>3. ReadyMeansReady
    <3> SUFFICES ASSUME B!Undisturbed
                 PROVE  /\ state = "ready" => llm /\ B!Unfired = {} /\ active = NoGen
                        /\ state = "generating" => llm /\ B!Unfired = {active}
      BY DEF ReadyMeansReady, B!ReadyMeansReady
    <3>1. \A t \in Unloads : task[t] \notin {"unloading", "unloaded"}
      BY DEF B!Undisturbed
    <3> QED BY <2>1, <3>1 DEF Exact
  <2> QED BY <2>2, <2>3 DEF BackendInv, StateIsTrue, GeneratingIsBacked
<1> QED BY <1>1, <1>2, <1>3, PTL DEF LocalSpec
-----------------------------------------------------------------------------
(* The stream as a generation of the backend                               *)

\* A behaviour of LocalBackend is one of the stream, with the backend at rest.
LEMMA StreamRuns == LocalSpec => Spec
<1>1. LocalInit => Init
  BY DEF LocalInit
<1>2. [LocalNext]_local => [Next]_vars
  BY DEF LocalNext, Streams, Manages, local
<1> QED BY <1>1, <1>2, PTL DEF LocalSpec, Spec

\* Where the worker thread of the stream is, as the backend sees it.
Where == IF worker = "start" THEN "start"
         ELSE IF worker \in {"terminal", "callback", "ended"} THEN "ended" ELSE "native"

\* A function on one point is changed by changing its value.
LEMMA OfFacts ==
  ASSUME NEW x, NEW y
  PROVE  /\ Of(x)["g"] = x /\ [Of(x) EXCEPT !["g"] = y] = Of(y)
BY DEF Of

\* A step that changes nothing the backend sees.
LEMMA Unseen ==
  ASSUME Where' = Where, UNCHANGED <<on_done_fired, closed, closer>>
  PROVE  UNCHANGED G!vars
BY DEF G!vars, Where, Of

\* The thread enters the native model, or fails at once; or it leaves it.
LEMMA SeenMoving ==
  ASSUME UNCHANGED <<on_done_fired, closed, closer>>,
         \/ Where = "start" /\ Where' \in {"native", "ended"}
         \/ Where = "native" /\ Where' = "ended"
  PROVE  G!WorkerStarts("g") \/ G!WorkerEnds("g")
BY OfFacts DEF G!WorkerStarts, G!WorkerEnds, Where, Of

\* on_done fires once the thread has left the model; a second time it changes nothing.
LEMMA SeenDone ==
  ASSUME on_done_fired \in BOOLEAN, Where = "ended", Where' = Where, on_done_fired' = TRUE,
         UNCHANGED <<closed, closer>>
  PROVE  G!OnDone("g") \/ UNCHANGED G!vars
<1>1. CASE on_done_fired
  BY <1>1, Unseen
<1>2. CASE ~on_done_fired
  BY <1>2, Zenon DEF G!OnDone, G!FireOnDone, Where, Of
<1> QED BY <1>1, <1>2

\* aclose begins; it ends by firing on_done; its task may be cancelled in between.
LEMMA SeenClosing ==
  ASSUME IInv, Aclose \/ Joined \/ JoinExpires \/ AcloseInterrupted
  PROVE  G!HandlerCloses("g") \/ G!HandlerClosed("g") \/ G!HandlerInterrupted("g")
<1>0. closed \in BOOLEAN /\ on_done_fired \in BOOLEAN /\ (closed <=> closer # "none")
  BY DEF IInv, TypeOK, OneCloser
<1>1. CASE Aclose
  <2>1. closed = FALSE /\ closer = "none" /\ closed' = TRUE /\ closer' = "joining" /\ UNCHANGED <<worker, on_done_fired>>
    BY <1>0, <1>1 DEF Aclose
  <2>2. G!HandlerCloses("g")
    BY <2>1, Zenon DEF G!HandlerCloses, Of
  <2> QED BY <2>2
<1>2. CASE Joined \/ JoinExpires
  <2>1. closer = "joining" /\ closer' # "joining" /\ UNCHANGED <<worker, closed>> /\ on_done_fired' = TRUE
    BY <1>2 DEF Joined, JoinExpires, AcloseReturns, Close, workerVars
  <2>2. G!HandlerClosed("g")
    BY <1>0, <2>1, Zenon DEF G!HandlerClosed, G!JoinReturns, G!FireOnDone, Of
  <2> QED BY <2>2, Zenon
<1>3. CASE AcloseInterrupted
  <2>1. closer = "joining" /\ closer' # "joining" /\ UNCHANGED <<worker, closed, on_done_fired>>
    BY <1>3 DEF AcloseInterrupted, workerVars, loopVars
  <2>2. G!HandlerInterrupted("g")
    BY <2>1 DEF G!HandlerInterrupted, Of
  <2> QED BY <2>2
<1> QED BY <1>1, <1>2, <1>3

\* QueueGenerationStream is what ThreadedBackend takes it for: for every queue size and
\* length of generation, each of its steps is a step of one generation, or unseen.
THEOREM StreamIsGeneration == LocalSpec => ActsAsGeneration
<1>1. IInv /\ [Next]_vars => [G!Next]_(G!vars)
  <2> SUFFICES ASSUME IInv, [Next]_vars PROVE G!Next \/ UNCHANGED G!vars
    OBVIOUS
  <2>0. worker \in WorkerStates /\ on_done_fired \in BOOLEAN
    BY DEF IInv, TypeOK
  <2>1. CASE Worker
    <3>1. UNCHANGED <<on_done_fired, closed, closer>>
      BY <2>1, ZenonT(30) DEF Worker, Start, CheckCancelled, Reserve, Unblock, CheckAgain, NextToken, NextEnds,
         OfferToken, OfferTerminal, OfferOnDone, loopVars
    <3>2. \/ Where' = Where
          \/ Where = "start" /\ Where' \in {"native", "ended"}
          \/ Where = "native" /\ Where' = "ended"
      BY <2>0, <2>1 DEF Worker, WorkerStep, Start, CheckCancelled, Reserve, Unblock, CheckAgain, NextToken, NextEnds,
         OfferToken, OfferTerminal, OfferOnDone, Where
    <3>3. CASE Where' = Where
      BY <3>1, <3>3, Unseen
    <3>4. CASE \/ Where = "start" /\ Where' \in {"native", "ended"}
               \/ Where = "native" /\ Where' = "ended"
      <4>1. G!WorkerStarts("g") \/ G!WorkerEnds("g")
        BY <3>1, <3>4, SeenMoving
      <4> QED BY <4>1 DEF G!Next
    <3> QED BY <3>2, <3>3, <3>4
  <2>2. CASE PutToken \/ PutTerminal \/ AnextStop \/ AnextWait \/ ConsumerGone \/ TakeToken
    <3>1. UNCHANGED <<worker, on_done_fired, closed, closer>>
      BY <2>2, Zenon DEF PutToken, PutTerminal, AnextStop, AnextWait, ConsumerGone, TakeToken, workerVars, loopVars
    <3> QED BY <3>1, Unseen DEF Where
  <2>3. CASE RunOnDone \/ TakeTerminal
    <3>1. worker \in {"callback", "ended"}
      BY <2>3 DEF RunOnDone, TakeTerminal, IInv, TerminalLast, CallbackLast
    <3>2. UNCHANGED <<worker, closed, closer>> /\ on_done_fired' = TRUE
      BY <2>3 DEF RunOnDone, TakeTerminal, workerVars
    <3>3. Where = "ended" /\ Where' = Where
      BY <3>1, <3>2 DEF Where
    <3>4. G!OnDone("g") \/ UNCHANGED G!vars
      BY <2>0, <3>2, <3>3, SeenDone, Zenon
    <3> QED BY <3>4 DEF G!Next
  <2>4. CASE Closer
    <3>1. G!HandlerCloses("g") \/ G!HandlerClosed("g") \/ G!HandlerInterrupted("g")
      BY <2>4, SeenClosing, Zenon DEF Closer
    <3> QED BY <3>1 DEF G!Next
  <2>5. CASE UNCHANGED vars
    BY <2>5, Unseen DEF vars, workerVars, loopVars, Where
  <2> QED BY <2>1, <2>2, <2>3, <2>4, <2>5 DEF Next, Loop, Consumer, AnextNow, GetResumes
<1> QED BY <1>1, StreamRuns, Invariance, PTL DEF ActsAsGeneration, Spec

\* The same of a stream in its backend: no token is lost (TokensAreKept).
THEOREM LocalTokensKept == LocalSpec => []TokensAreKept
BY StreamRuns, TokensKept, PTL
-----------------------------------------------------------------------------
(* ClientEvents: the inductive invariant                                   *)

ClientEventsSpec == ClientEventsInit /\ [][ClientEventsNext]_clientEvents

Stream == [step : {"off", "read", "send", "wait"}, cursor : Nat, page : SUBSET Nat,
           full : BOOLEAN, waiter : Nat]

EventTypes ==
  /\ rows \in Nat /\ generation \in Nat /\ stream \in Stream
  /\ DOMAIN log \subseteq 1..rows /\ client \subseteq 1..rows

\* A row above the client's cursor is in the log, or retention has removed it.
RowsAreKept == \A i \in 1..rows : i > Cursor => i \in DOMAIN log \cup missed

\* An open stream goes by the client's cursor.  What it has read and not yet sent
\* is above it and, with the rows that are gone, leaves no gap.
PageIsNext ==
  stream.step # "off" =>
    /\ stream.cursor = Cursor
    /\ \A p \in stream.page : p \in 1..rows /\ p > stream.cursor
    /\ \A p \in stream.page : \A i \in 1..rows :
         i > stream.cursor /\ i < p => i \in stream.page \cup missed

\* A stream whose wakeup has not come has read every row, unless its page was full.
NothingUnread ==
  stream.step \in {"send", "wait"} =>
    /\ stream.waiter <= generation
    /\ stream.waiter = generation /\ ~stream.full =>
         \A i \in DOMAIN log : i > stream.cursor => i \in stream.page
    /\ stream.step = "wait" => stream.page = {}

EventsInv == EventTypes /\ ReceivedIsPrefix /\ RowsAreKept /\ PageIsNext /\ NothingUnread
-----------------------------------------------------------------------------
(* ClientEvents: the least and the greatest row, and a page of the log     *)

\* Every set of row numbers has a least one.
LEMMA LeastRow ==
  ASSUME NEW S \in SUBSET Nat, S # {}
  PROVE  Min(S) \in S /\ \A y \in S : Min(S) <= y
<1>1. PICK x \in S : \A y \in S : ~ (<<y, x>> \in OpToRel(<, Nat))
  BY NatLessThanWellFounded, WFMin, Zenon
<1>2. \A y \in S : y \in Nat /\ x \in Nat
  OBVIOUS
<1>3. \A y \in S : ~ (y < x)
  BY <1>1, <1>2, Zenon DEF OpToRel
<1>4. \A y \in S : x <= y
  BY <1>2, <1>3
<1> QED BY <1>4, Zenon DEF Min

\* ... and, below a bound, a greatest one.
LEMMA GreatestRow ==
  ASSUME NEW n \in Nat, NEW S \in SUBSET (0..n), S # {}
  PROVE  Max(S) \in S /\ \A y \in S : y <= Max(S)
<1> DEFINE T == {n - y : y \in S}
<1>0. \A y \in S : y \in Nat /\ y <= n
  OBVIOUS
<1>1. T \in SUBSET Nat /\ T # {}
  <2>1. \A y \in S : n - y \in Nat
    BY <1>0
  <2> QED BY <2>1, Zenon
<1>2. PICK t \in T : \A u \in T : t <= u
  <2> HIDE DEF T
  <2> QED BY <1>1, LeastRow, Zenon
<1>3. PICK x \in S : t = n - x
  BY <1>2
<1>4. \A y \in S : n - x <= n - y
  BY <1>2, <1>3, Zenon
<1>5. \A y \in S : x >= y
  BY <1>0, <1>4
<1> QED BY <1>5, Zenon DEF Max

\* The cursor is the last row the client has, or zero.
LEMMA CursorFacts ==
  ASSUME EventTypes
  PROVE  /\ Cursor \in Nat /\ Cursor <= rows /\ Cursor \in client \cup {0}
         /\ \A y \in client : y <= Cursor
<1>1. rows \in Nat /\ client \cup {0} \in SUBSET (0..rows) /\ client \cup {0} # {}
  BY DEF EventTypes
<1>2. Cursor \in client \cup {0} /\ \A y \in client \cup {0} : y <= Cursor
  BY <1>1, GreatestRow, Zenon DEF Cursor
<1> QED BY <1>1, <1>2

\* The rows of the log above a cursor, and those of them before a row.
Newer(c) == {i \in DOMAIN log : i > c}
Before(c, i) == {j \in Newer(c) : j < i}

\* Rows in the log can be counted.
LEMMA NewerIsFinite ==
  ASSUME EventTypes, NEW c \in Nat, NEW S \in SUBSET Newer(c)
  PROVE  /\ IsFiniteSet(S) /\ Cardinality(S) \in Nat
         /\ S \in SUBSET (0..rows) /\ S \in SUBSET Nat
         /\ \A i \in S : i \in DOMAIN log /\ i > c /\ i \in 1..rows
<1>1. IsFiniteSet(1..rows)
  BY FS_Interval DEF EventTypes
<1>2. S \subseteq 1..rows /\ \A i \in S : i \in DOMAIN log /\ i > c
  BY DEF Newer, EventTypes
<1>3. IsFiniteSet(S) /\ Cardinality(S) \in Nat
  BY <1>1, <1>2, FS_Subset, FS_CardinalityType, Zenon
<1>4. \A i \in S : i \in 1..rows /\ i \in 0..rows /\ i \in Nat
  BY <1>2 DEF EventTypes
<1> QED BY <1>2, <1>3, <1>4

\* list_since returns the first rows of the log above the cursor: none is left out
\* before one that is returned, and, if there are fewer than a page, none at all.
LEMMA SinceFacts ==
  ASSUME EventTypes, NEW c \in Nat
  PROVE  /\ Since(c, Page) \subseteq Newer(c)
         /\ \A p \in Since(c, Page) : \A i \in Newer(c) : i < p => i \in Since(c, Page)
         /\ Cardinality(Since(c, Page)) # Page => Since(c, Page) = Newer(c)
<1> DEFINE P == Since(c, Page)
<1>1. P = {i \in Newer(c) : Cardinality(Before(c, i)) < Page}
  BY DEF Since, Newer, Before
<1>2. \A i \in Newer(c) : Before(c, i) \in SUBSET Newer(c)
  BY DEF Before
<1>3. ASSUME NEW i \in Newer(c), NEW p \in Newer(c), i <= p
      PROVE  Cardinality(Before(c, i)) <= Cardinality(Before(c, p))
  <2>1. Newer(c) \in SUBSET Nat
    BY NewerIsFinite, Zenon
  <2>2. Before(c, i) \subseteq Before(c, p)
    BY <1>3, <2>1 DEF Before
  <2> QED BY <1>2, <2>2, NewerIsFinite, FS_Subset
<1> HIDE DEF P
<1>4. ASSUME NEW p \in P, NEW i \in Newer(c), i < p
      PROVE  i \in P
  <2>1. p \in Newer(c) /\ Cardinality(Before(c, p)) < Page
    BY <1>1
  <2>2. i \in Nat /\ p \in Nat
    BY <2>1, NewerIsFinite, Zenon
  <2>3. Cardinality(Before(c, i)) <= Cardinality(Before(c, p))
    BY <1>3, <1>4, <2>1, <2>2
  <2>4. Cardinality(Before(c, i)) \in Nat /\ Cardinality(Before(c, p)) \in Nat
    BY <1>2, <2>1, NewerIsFinite
  <2> QED BY <1>1, <2>1, <2>3, <2>4, ClientEventsAssumption
<1>5. ASSUME P # Newer(c) PROVE Cardinality(P) = Page
  <2>0. P \subseteq Newer(c) /\ Newer(c) \ P # {} /\ Newer(c) \ P \in SUBSET Nat
    BY <1>1, <1>5, NewerIsFinite, Zenon
  <2>1. PICK i \in Newer(c) \ P : \A j \in Newer(c) \ P : i <= j
    BY <2>0, LeastRow, Zenon
  <2>2. P = Before(c, i)
    <3>1. \A j \in Newer(c) : j \in Nat
      BY NewerIsFinite
    <3>2. \A j \in P : j < i
      BY <1>4, <2>0, <2>1, <3>1
    <3>3. \A j \in Before(c, i) : j \in P
      BY <2>1, <3>1 DEF Before
    <3> QED BY <2>0, <3>2, <3>3 DEF Before
  <2>3. Cardinality(P) \in Nat /\ ~(Cardinality(P) < Page)
    BY <1>1, <2>0, <2>1, <2>2, NewerIsFinite, Zenon
  <2>4. P # {}
    BY <2>3, FS_EmptySet, ClientEventsAssumption
  <2>5. P \in SUBSET (0..rows) /\ rows \in Nat
    BY <2>0, NewerIsFinite, Zenon DEF EventTypes
  <2>6. PICK m \in P : \A j \in P : j <= m
    BY <2>4, <2>5, GreatestRow, Zenon
  <2>7. P = Before(c, m) \cup {m} /\ m \notin Before(c, m)
    <3>1. \A j \in Newer(c) : j \in Nat
      BY NewerIsFinite
    <3>2. \A j \in Before(c, m) : j \in P
      BY <1>4, <2>6 DEF Before
    <3> QED BY <2>0, <2>6, <3>1, <3>2 DEF Before
  <2>8. Before(c, m) \in SUBSET Newer(c) /\ Cardinality(Before(c, m)) < Page
    BY <1>1, <1>2, <2>6
  <2>9. IsFiniteSet(Before(c, m)) /\ Cardinality(Before(c, m)) \in Nat
    BY <2>8, NewerIsFinite
  <2>10. Cardinality(Before(c, m) \cup {m}) = Cardinality(Before(c, m)) + 1
    BY <2>7, <2>9, FS_AddElement, ZenonT(30)
  <2>11. Cardinality(P) = Cardinality(Before(c, m)) + 1
    BY <2>7, <2>10
  <2> QED BY <2>3, <2>8, <2>9, <2>11, ClientEventsAssumption
<1> QED BY <1>1, <1>4, <1>5 DEF P
-----------------------------------------------------------------------------
(* ClientEvents: one lemma per action                                      *)

\* An empty log and a client that is not connected.
LEMMA EventsInit == ClientEventsInit => EventsInv
<1> SUFFICES ASSUME ClientEventsInit PROVE EventsInv
  BY Zenon
<1> USE DEF ClientEventsInit
<1>1. Off \in Stream /\ Off.step = "off"
  BY DEF Off, Stream
<1>2. EventTypes
  BY <1>1 DEF EventTypes
<1>3. Cursor = 0
  BY <1>2, CursorFacts
<1>4. ReceivedIsPrefix /\ RowsAreKept
  BY <1>3 DEF ReceivedIsPrefix, RowsAreKept
<1>5. PageIsNext /\ NothingUnread
  BY <1>1, Zenon DEF PageIsNext, NothingUnread
<1> QED BY <1>2, <1>4, <1>5 DEF EventsInv

\* append, _prune and notify: what retention removes unsent is missed, and every
\* stream that has not seen the new row has a wakeup coming.
LEMMA EmitStep ==
  ASSUME EventsInv, NEW v \in Happening, Emit(v)
  PROVE  EventsInv'
<1>0. /\ EventTypes /\ ReceivedIsPrefix /\ RowsAreKept /\ PageIsNext /\ NothingUnread
      /\ UNCHANGED <<stream, client>> /\ Cursor' = Cursor /\ Cursor \in Nat /\ rows \in Nat
      /\ Cursor <= rows
  BY CursorFacts, ZenonT(30) DEF EventsInv, Emit, Cursor, EventTypes
<1>1. CASE UNCHANGED <<log, rows, missed>>
  <2>1. generation' = generation
    BY <1>0, <1>1 DEF Emit
  <2> QED BY <1>0, <1>1, <2>1
       DEF EventsInv, EventTypes, ReceivedIsPrefix, RowsAreKept, PageIsNext, NothingUnread
<1>2. ASSUME NEW kept \in Keeps(DOMAIN log \cup {rows + 1}), rows' = rows + 1,
             log' = [i \in kept |-> IF i = rows + 1 THEN v ELSE log[i]],
             missed' = missed \cup {i \in DOMAIN log \ kept : i > Cursor}
      PROVE  EventsInv'
  <2>1. generation' = generation + 1 /\ DOMAIN log' = kept
    BY <1>0, <1>2 DEF Emit
  <2>2. kept \subseteq DOMAIN log \cup {rows + 1} /\ rows + 1 \in kept
    <3>1. kept \subseteq DOMAIN log \cup {rows + 1} /\ Max(DOMAIN log \cup {rows + 1}) \in kept
      BY DEF Keeps
    <3>2. DOMAIN log \cup {rows + 1} \in SUBSET (0..(rows + 1)) /\ rows + 1 \in Nat
      BY <1>0 DEF EventTypes
    <3>3. /\ Max(DOMAIN log \cup {rows + 1}) \in DOMAIN log \cup {rows + 1}
          /\ \A y \in DOMAIN log \cup {rows + 1} : y <= Max(DOMAIN log \cup {rows + 1})
      BY <3>2, GreatestRow
    <3>4. \A i \in DOMAIN log : ~(rows + 1 <= i)
      BY <1>0 DEF EventTypes
    <3>5. Max(DOMAIN log \cup {rows + 1}) = rows + 1
      BY <3>3, <3>4
    <3> QED BY <3>1, <3>5, Zenon
  <2>3. EventTypes'
    <3>1. DOMAIN log' \subseteq 1..rows' /\ client' \subseteq 1..rows'
      BY <1>0, <1>2, <2>1, <2>2 DEF EventTypes
    <3> QED BY <1>0, <1>2, <2>1, <3>1 DEF EventTypes
  <2>4. ReceivedIsPrefix'
    BY <1>0, <1>2 DEF ReceivedIsPrefix
  <2>5. RowsAreKept'
    <3> SUFFICES ASSUME NEW i \in 1..(rows + 1), i > Cursor
                 PROVE  i \in kept \cup missed'
      BY <1>0, <1>2, <2>1 DEF RowsAreKept
    <3>1. CASE i = rows + 1
      BY <2>2, <3>1
    <3>2. CASE i # rows + 1
      <4>1. i \in 1..rows
        BY <1>0, <3>2
      <4>2. i \in DOMAIN log \cup missed
        BY <1>0, <4>1, Zenon DEF RowsAreKept
      <4> QED BY <1>2, <4>2
    <3> QED BY <3>1, <3>2, Zenon
  <2>6. PageIsNext'
    <3>1. ASSUME stream.step # "off", NEW p \in stream.page
          PROVE  /\ p \in 1..rows' /\ p > stream.cursor
                 /\ \A i \in 1..rows' : i > stream.cursor /\ i < p => i \in stream.page \cup missed'
      <4>1. p \in 1..rows /\ p > stream.cursor
        BY <1>0, <3>1, Zenon DEF PageIsNext
      <4>2. \A i \in 1..rows : i > stream.cursor /\ i < p => i \in stream.page \cup missed
        BY <1>0, <3>1, Zenon DEF PageIsNext
      <4>3. \A i \in 1..rows' : i < p => i \in 1..rows
        BY <1>0, <1>2, <4>1
      <4>4. p \in 1..rows'
        BY <1>0, <1>2, <4>1
      <4>5. missed \subseteq missed'
        BY <1>2
      <4> QED BY <4>1, <4>2, <4>3, <4>4, <4>5, ZenonT(30)
    <3> QED BY <1>0, <3>1, Zenon DEF PageIsNext
  <2>7. NothingUnread'
    <3>1. stream.waiter \in Nat /\ generation \in Nat
      BY <1>0, Zenon DEF EventTypes, Stream
    <3>2. stream' = stream /\ generation' \in Nat /\ generation' > generation
      BY <1>0, <1>2, <2>1, <3>1
    <3>3. stream.step \in {"send", "wait"} =>
            stream.waiter <= generation /\ (stream.step = "wait" => stream.page = {})
      BY <1>0, Zenon DEF NothingUnread
    <3>4. stream.step \in {"send", "wait"} => stream.waiter < generation'
      BY <3>1, <3>2, <3>3
    <3>5. stream.step \in {"send", "wait"} => stream.waiter <= generation' /\ stream.waiter # generation'
      BY <3>1, <3>2, <3>4
    <3> QED BY <3>2, <3>3, <3>5, Zenon DEF NothingUnread
  <2> QED BY <2>3, <2>4, <2>5, <2>6, <2>7, Zenon DEF EventsInv
<1> QED BY <1>1, <1>2 DEF Emit

\* A connection begins or ends: no page, and the client's own cursor.
LEMMA ConnectStep ==
  ASSUME EventsInv, Connect \/ Cut
  PROVE  EventsInv'
<1>0. /\ EventTypes /\ ReceivedIsPrefix /\ RowsAreKept
      /\ UNCHANGED <<log, rows, generation, client, missed>> /\ Cursor' = Cursor /\ Cursor \in Nat
  BY CursorFacts DEF EventsInv, Connect, Cut, Cursor
<1>1. /\ stream' \in Stream /\ stream'.page = {} /\ stream'.step \in {"off", "read"}
      /\ stream'.step # "off" => stream'.cursor = Cursor
  <2>1. CASE Connect
    BY <1>0, <2>1, ZenonT(30) DEF Connect, Off, Stream
  <2>2. CASE Cut
    BY <1>0, <2>2, Zenon DEF Cut, Off, Stream
  <2> QED BY <2>1, <2>2
<1>2. EventTypes' /\ ReceivedIsPrefix' /\ RowsAreKept'
  BY <1>0, <1>1, Zenon DEF EventTypes, ReceivedIsPrefix, RowsAreKept
<1>3. PageIsNext' /\ NothingUnread'
  BY <1>0, <1>1 DEF PageIsNext, NothingUnread
<1> QED BY <1>2, <1>3 DEF EventsInv

\* The wakeup is captured with the page: nothing can come between them.
LEMMA ReadStep ==
  ASSUME EventsInv, Read
  PROVE  EventsInv'
<1> DEFINE page == Since(stream.cursor, Page)
<1>0. /\ EventTypes /\ ReceivedIsPrefix /\ RowsAreKept /\ PageIsNext /\ stream \in Stream
      /\ UNCHANGED <<log, rows, generation, client, missed>> /\ Cursor' = Cursor /\ Cursor \in Nat
      /\ stream.step = "read" /\ stream.cursor = Cursor /\ stream.cursor \in Nat
      /\ generation \in Nat /\ rows \in Nat
  BY CursorFacts, Zenon DEF EventsInv, Read, Cursor, EventTypes, PageIsNext, Stream
<1>1. /\ page \subseteq Newer(Cursor)
      /\ \A p \in page : \A i \in Newer(Cursor) : i < p => i \in page
      /\ Cardinality(page) # Page => page = Newer(Cursor)
  BY <1>0, SinceFacts, Zenon
<1>2. page \in SUBSET Nat /\ \A i \in page : i \in DOMAIN log /\ i > Cursor /\ i \in 1..rows
  BY <1>0, <1>1, NewerIsFinite
<1> HIDE DEF page
<1>3. /\ stream'.step = "send" /\ stream'.page = page /\ stream'.waiter = generation
      /\ stream'.cursor = Cursor /\ stream' \in Stream
      /\ stream'.full = (Cardinality(page) = Page)
  <2>1. stream' = [stream EXCEPT !.step = "send", !.page = page, !.waiter = generation,
                                 !.full = Cardinality(page) = Page]
    BY DEF Read, page
  <2>2. stream'.step = "send" /\ stream'.page = page /\ stream'.waiter = generation
        /\ stream'.cursor = Cursor
    BY <1>0, <2>1 DEF Stream
  <2>3. stream'.full = (Cardinality(page) = Page)
    BY <1>0, <2>1 DEF Stream
  <2>4. stream' \in Stream
    <3>1. ASSUME NEW x \in SUBSET Nat, NEW g \in Nat, NEW t \in BOOLEAN
          PROVE  [stream EXCEPT !.step = "send", !.page = x, !.waiter = g, !.full = t] \in Stream
      BY <1>0, Zenon DEF Stream
    <3>2. (Cardinality(page) = Page) \in BOOLEAN
      OBVIOUS
    <3> QED BY <1>0, <1>2, <2>1, <3>1, <3>2, Zenon
  <2> QED BY <2>2, <2>3, <2>4
<1>4. EventTypes' /\ ReceivedIsPrefix' /\ RowsAreKept'
  BY <1>0, <1>3 DEF EventTypes, ReceivedIsPrefix, RowsAreKept
<1>5. PageIsNext'
  <2>1. ASSUME NEW p \in page, NEW i \in 1..rows, i > Cursor, i < p
        PROVE  i \in page \cup missed
    <3>1. CASE i \in DOMAIN log
      BY <1>1, <2>1, <3>1 DEF Newer
    <3>2. CASE i \in missed
      BY <3>2
    <3> QED BY <1>0, <2>1, <3>1, <3>2, Zenon DEF RowsAreKept
  <2> QED BY <1>0, <1>2, <1>3, <2>1, ZenonT(30) DEF PageIsNext
<1>6. NothingUnread'
  <2>1. ~stream'.full => \A i \in DOMAIN log : i > Cursor => i \in page
    BY <1>1, <1>3, ZenonT(30) DEF Newer
  <2>2. stream'.waiter <= generation' /\ stream'.step # "wait"
    BY <1>0, <1>3 DEF EventTypes
  <2>3. log' = log /\ stream'.cursor = Cursor /\ stream'.page = page
    BY <1>0, <1>3
  <2> QED BY <2>1, <2>2, <2>3, Zenon DEF NothingUnread
<1> QED BY <1>4, <1>5, <1>6 DEF EventsInv

\* One frame: the client's next row is the least of the page.
LEMMA SendStep ==
  ASSUME EventsInv, Send
  PROVE  EventsInv'
<1> DEFINE next == Min(stream.page)
<1>0. /\ EventTypes /\ ReceivedIsPrefix /\ RowsAreKept /\ PageIsNext /\ NothingUnread
      /\ UNCHANGED <<log, rows, generation, missed>> /\ stream \in Stream
      /\ Cursor \in Nat /\ (\A y \in client : y <= Cursor) /\ stream.cursor = Cursor
      /\ stream.step = "send" /\ stream.page # {} /\ stream.page \in SUBSET Nat /\ rows \in Nat
  BY CursorFacts, Zenon DEF EventsInv, Send, EventTypes, PageIsNext, Stream
<1>1. /\ next \in stream.page /\ (\A p \in stream.page : next <= p)
      /\ next \in 1..rows /\ next > Cursor
  BY <1>0, LeastRow DEF PageIsNext
<1> HIDE DEF next
<1>2. CASE stream' = Off /\ UNCHANGED client
  <2>1. stream' \in Stream /\ stream'.step = "off"
    BY <1>2, Zenon DEF Off, Stream
  <2> QED BY <1>0, <1>2, <2>1, ZenonT(30)
       DEF EventsInv, EventTypes, ReceivedIsPrefix, RowsAreKept, PageIsNext, NothingUnread, Cursor
<1>3. CASE /\ client' = client \cup {next}
           /\ stream' = [stream EXCEPT !.page = @ \ {next}, !.cursor = next]
  <2>1. /\ stream'.step = "send" /\ stream'.page = stream.page \ {next} /\ stream'.cursor = next
        /\ stream'.waiter = stream.waiter /\ stream'.full = stream.full /\ stream' \in Stream
    BY <1>0, <1>1, <1>3, Zenon DEF Stream
  <2>2. EventTypes'
    BY <1>0, <1>1, <1>3, <2>1 DEF EventTypes
  <2>3. Cursor' = next
    <3>1. Cursor' \in client' \cup {0} /\ \A y \in client' : y <= Cursor'
      <4>1. rows \in Nat /\ client' \cup {0} \in SUBSET (0..rows) /\ client' \cup {0} # {}
        BY <1>0, <2>2 DEF EventTypes
      <4> QED BY <4>1, GreatestRow, Zenon DEF Cursor
    <3>2. client' \subseteq Nat
      BY <1>0, <2>2 DEF EventTypes
    <3> QED BY <1>0, <1>1, <1>3, <3>1, <3>2
  <2>4. ReceivedIsPrefix'
    <3> SUFFICES ASSUME NEW i \in 1..next PROVE i \in client' \cup missed
      BY <1>0, <2>3 DEF ReceivedIsPrefix
    <3>1. CASE i = next
      BY <1>3, <3>1, Zenon
    <3>2. CASE i # next /\ i > Cursor
      <4>1. i \in 1..rows /\ i < next
        BY <1>0, <1>1, <3>2
      <4>2. i \in stream.page \cup missed
        BY <1>0, <1>1, <3>2, <4>1, Zenon DEF PageIsNext
      <4> QED BY <1>1, <4>1, <4>2
    <3>3. CASE ~(i > Cursor)
      <4>1. i \in 1..Cursor
        BY <1>0, <3>3
      <4> QED BY <1>0, <1>3, <4>1, Zenon DEF ReceivedIsPrefix
    <3> QED BY <3>1, <3>2, <3>3, Zenon
  <2>0. \A i \in 1..rows : i > next => i > Cursor /\ i # next
    <3>1. next \in Nat /\ Cursor \in Nat /\ next > Cursor
      BY <1>0, <1>1
    <3> QED BY <3>1
  <2>5. RowsAreKept'
    BY <1>0, <2>0, <2>3, ZenonT(30) DEF RowsAreKept
  <2>6. PageIsNext'
    <3>1. \A p \in stream.page \ {next} : p > next
      <4> SUFFICES ASSUME NEW p \in stream.page, p # next PROVE p > next
        BY Zenon
      <4>1. p \in Nat /\ next \in Nat /\ next <= p
        BY <1>0, <1>1, Zenon
      <4> QED BY <4>1
    <3>2. \A p \in stream.page : p \in 1..rows
      BY <1>0, Zenon DEF PageIsNext
    <3>3. ASSUME NEW p \in stream.page \ {next}, NEW i \in 1..rows, i > next, i < p
          PROVE  i \in (stream.page \ {next}) \cup missed
      <4>1. i \in stream.page \cup missed
        BY <1>0, <2>0, <3>3, ZenonT(30) DEF PageIsNext
      <4> QED BY <2>0, <3>3, <4>1, Zenon
    <3>4. rows' = rows /\ missed' = missed
      BY <1>0, Zenon
    <3> QED BY <2>1, <2>3, <3>1, <3>2, <3>3, <3>4, ZenonT(30) DEF PageIsNext
  <2>7. NothingUnread'
    <3>1. \A i \in DOMAIN log : i > next => i > Cursor /\ i # next
      BY <1>0, <1>1 DEF EventTypes
    <3> QED BY <1>0, <1>1, <2>1, <3>1, Zenon DEF NothingUnread
  <2> QED BY <2>2, <2>4, <2>5, <2>6, <2>7 DEF EventsInv
<1> QED BY <1>2, <1>3 DEF Send, next

\* The stream falls asleep on the wakeup it captured, or wakes.
LEMMA SleepStep ==
  ASSUME EventsInv, Wait \/ \E heartbeat \in BOOLEAN : Wake(heartbeat)
  PROVE  EventsInv'
<1>0. /\ EventTypes /\ ReceivedIsPrefix /\ RowsAreKept /\ PageIsNext /\ NothingUnread /\ stream \in Stream
      /\ UNCHANGED <<log, rows, generation, client, missed>> /\ Cursor' = Cursor
  BY Zenon DEF EventsInv, Wait, Wake, Cursor, EventTypes
<1>1. CASE Wait
  <2>1. stream.step = "send" /\ stream.page = {} /\ stream' = [stream EXCEPT !.step = "wait", !.waiter = stream.waiter]
    BY <1>1 DEF Wait, Waiter
  <2>2. /\ stream'.step = "wait" /\ stream'.page = {} /\ stream'.waiter = stream.waiter
        /\ stream'.cursor = stream.cursor /\ stream' \in Stream
    BY <1>0, <2>1, Zenon DEF Stream
  <2>3. stream'.full = stream.full
    BY <1>0, <2>1 DEF Stream
  <2> QED BY <1>0, <2>1, <2>2, <2>3
       DEF EventsInv, EventTypes, ReceivedIsPrefix, RowsAreKept, PageIsNext, NothingUnread
<1>2. CASE \E heartbeat \in BOOLEAN : Wake(heartbeat)
  <2>1. /\ stream.step = "wait" /\ stream'.step = "read" /\ stream'.page = stream.page
        /\ stream'.cursor = stream.cursor /\ stream' \in Stream
    BY <1>0, <1>2 DEF Wake, Stream
  <2> QED BY <1>0, <2>1, Zenon
       DEF EventsInv, EventTypes, ReceivedIsPrefix, RowsAreKept, PageIsNext, NothingUnread
<1> QED BY <1>1, <1>2

\* get_events hands the client the oldest rows above its cursor.
LEMMA PollStep ==
  ASSUME EventsInv, Poll
  PROVE  EventsInv'
<1> DEFINE page == Since(Cursor, Page)
<1>0. /\ EventTypes /\ ReceivedIsPrefix /\ RowsAreKept
      /\ UNCHANGED <<log, rows, generation, stream, missed>> /\ stream.step = "off"
      /\ Cursor \in Nat /\ (\A y \in client : y <= Cursor) /\ rows \in Nat /\ client' = client \cup page
  BY CursorFacts DEF EventsInv, Poll, EventTypes
<1>1. /\ page \subseteq Newer(Cursor)
      /\ \A p \in page : \A i \in Newer(Cursor) : i < p => i \in page
  BY <1>0, SinceFacts, Zenon
<1>2. \A i \in page : i \in DOMAIN log /\ i > Cursor /\ i \in 1..rows
  BY <1>0, <1>1, NewerIsFinite
<1> HIDE DEF page
<1>3. EventTypes'
  BY <1>0, <1>2, Zenon DEF EventTypes
<1>4. Cursor' \in client' \cup {0} /\ Cursor' \in Nat /\ Cursor' >= Cursor /\ \A y \in client' : y <= Cursor'
  <2>1. rows \in Nat /\ client' \cup {0} \in SUBSET (0..rows) /\ client' \cup {0} # {}
    BY <1>0, <1>3 DEF EventTypes
  <2>2. Cursor' \in client' \cup {0} /\ \A y \in client' \cup {0} : y <= Cursor'
    BY <2>1, GreatestRow, Zenon DEF Cursor
  <2>3. Cursor \in client \cup {0}
    BY CursorFacts DEF EventsInv
  <2> QED BY <1>0, <2>1, <2>2, <2>3
<1>5. ReceivedIsPrefix'
  <2> SUFFICES ASSUME NEW i \in 1..Cursor' PROVE i \in client' \cup missed
    BY <1>0, Zenon DEF ReceivedIsPrefix
  <2>1. CASE i > Cursor
    <3>1. Cursor' \in page
      BY <1>0, <1>4, <2>1
    <3>2. Cursor' \in 1..rows /\ i \in 1..rows
      BY <1>0, <1>2, <3>1
    <3>3. CASE i \in DOMAIN log
      <4>1. i \in Newer(Cursor)
        BY <2>1, <3>3 DEF Newer
      <4>2. CASE i < Cursor'
        BY <1>0, <1>1, <3>1, <4>1, <4>2, Zenon
      <4>3. CASE i = Cursor'
        BY <1>0, <3>1, <4>3
      <4> QED BY <1>4, <4>2, <4>3
    <3> QED BY <1>0, <2>1, <3>2, <3>3, Zenon DEF RowsAreKept
  <2>2. CASE ~(i > Cursor)
    <3>1. i \in 1..Cursor
      BY <1>0, <1>4, <2>2
    <3> QED BY <1>0, <3>1 DEF ReceivedIsPrefix
  <2> QED BY <2>1, <2>2, Zenon
<1>6. RowsAreKept'
  BY <1>0, <1>4 DEF RowsAreKept
<1>7. PageIsNext' /\ NothingUnread'
  BY <1>0 DEF PageIsNext, NothingUnread
<1> QED BY <1>3, <1>5, <1>6, <1>7, Zenon DEF EventsInv

\* Every step keeps the invariant of the event stream.
LEMMA EventsInductive ==
  ASSUME EventsInv, [ClientEventsNext]_clientEvents
  PROVE  EventsInv'
<1>1. CASE UNCHANGED clientEvents
  BY <1>1 DEF EventsInv, EventTypes, ReceivedIsPrefix, RowsAreKept, PageIsNext, NothingUnread,
              Cursor, clientEvents
<1>2. CASE ClientEventsNext
  BY <1>2, EmitStep, ConnectStep, ReadStep, SendStep, SleepStep, PollStep, Zenon DEF ClientEventsNext
<1> QED BY <1>1, <1>2, Zenon

\* The stream of account events misses nothing (StreamMissesNothing): whatever is emitted,
\* pruned, polled or cut, a client has every row up to its cursor, and a stream that
\* waits with rows unread is about to be woken, or read a full page.
THEOREM StreamComplete == ClientEventsSpec => []StreamMissesNothing
<1>1. EventsInv => StreamMissesNothing
  <2> SUFFICES ASSUME EventsInv PROVE StreamMissesNothing
    OBVIOUS
  <2>0. /\ EventTypes /\ ReceivedIsPrefix /\ PageIsNext /\ NothingUnread
        /\ stream \in Stream /\ generation \in Nat
    BY DEF EventsInv, EventTypes
  <2> SUFFICES ASSUME stream.step = "wait", Since(stream.cursor, Page) # {}, ~(stream.waiter < generation)
               PROVE  stream.full
    BY <2>0, Zenon DEF StreamMissesNothing, NoMissedWakeup
  <2>1. stream.waiter = generation /\ stream.page = {}
    BY <2>0 DEF NothingUnread, Stream
  <2>2. \E i \in DOMAIN log : i > stream.cursor
    BY Zenon DEF Since
  <2>3. stream.full \in BOOLEAN
    BY <2>0 DEF Stream
  <2> QED BY <2>0, <2>1, <2>2, <2>3, Zenon DEF NothingUnread
<1>2. EventsInv /\ [ClientEventsNext]_clientEvents => EventsInv'
  BY EventsInductive
<1> QED BY <1>1, EventsInit, <1>2, PTL DEF ClientEventsSpec
=============================================================================
