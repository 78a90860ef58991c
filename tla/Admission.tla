------------------------------ MODULE Admission ------------------------------
(***************************************************************************)
(* What the scheduler promises to the request handlers, without saying how *)
(* permits move: at most Slots requests hold a slot, at most Room wait in  *)
(* line, a newcomer is refused only when the service is closed or both are *)
(* exhausted, and every request holds a slot at most once.                 *)
(***************************************************************************)
EXTENDS Naturals, FiniteSets

CONSTANTS Requests, Slots, Room

VARIABLES
  active,  \* requests that hold a slot
  line,    \* requests that wait for one
  past,    \* requests that are finished, refused or gone
  closed   \* no newcomer is taken any more

vars == <<active, line, past, closed>>

Unseen(r) == r \in Requests \ (active \cup line \cup past)
Full == line # {} \/ Cardinality(active) >= Slots

Init == active = {} /\ line = {} /\ past = {} /\ closed = FALSE

\* A newcomer takes a slot that nobody waits for, waits in line, or is refused.
Start(r) ==
  /\ Unseen(r) /\ ~closed /\ Cardinality(active) < Slots
  /\ active' = active \cup {r}
  /\ UNCHANGED <<line, past, closed>>

Wait(r) ==
  /\ Unseen(r) /\ ~closed /\ Full /\ Cardinality(line) < Room
  /\ line' = line \cup {r}
  /\ UNCHANGED <<active, past, closed>>

Refuse(r) ==
  /\ Unseen(r)
  /\ closed \/ (Full /\ Cardinality(line) >= Room)
  /\ past' = past \cup {r}
  /\ UNCHANGED <<active, line, closed>>

\* A waiting request gets a slot, or gives up.
Promote(r) ==
  /\ r \in line /\ Cardinality(active) < Slots
  /\ line' = line \ {r} /\ active' = active \cup {r}
  /\ UNCHANGED <<past, closed>>

GiveUp(r) ==
  /\ r \in line
  /\ line' = line \ {r} /\ past' = past \cup {r}
  /\ UNCHANGED <<active, closed>>

Leave(r) ==
  /\ r \in active
  /\ active' = active \ {r} /\ past' = past \cup {r}
  /\ UNCHANGED <<line, closed>>

Close == ~closed /\ closed' = TRUE /\ UNCHANGED <<active, line, past>>

Next ==
  \/ \E r \in Requests : \/ Start(r) \/ Wait(r) \/ Refuse(r)
                         \/ Promote(r) \/ GiveUp(r) \/ Leave(r)
  \/ Close

Spec == Init /\ [][Next]_vars
=============================================================================
