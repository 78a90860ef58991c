------------------------------ MODULE StoreProofs ------------------------------
(***************************************************************************)
(* What the event bus, the journals and the database file promise, for     *)
(* every value of their constants.  A behaviour of Store moves one part    *)
(* and leaves the others alone, so each part is proved on its own.         *)
(***************************************************************************)
EXTENDS Feed, Journals, Archive, Bench, FiniteSetTheorems, WellFoundedInduction, TLAPS

\* The limits, in seconds, of a leaf that names no prover.
USE SMTT(30), ZenonT(30)

FeedSpec == FeedInit /\ [][FeedNext]_feed
JournalsSpec == JournalsInit /\ [][JournalsNext]_journals
ArchiveSpec == ArchiveInit /\ [][ArchiveNext]_archive
-----------------------------------------------------------------------------
(* Feed: the three stretches of a subscriber's events (seen, replay,       *)
(* queue) are kept apart in the invariant: each ascends, and lies below    *)
(* the next.                                                               *)

Ascends(s) == \A m, n \in 1..Len(s) : m < n => s[m] < s[n]
Below(s, t) == \A m \in 1..Len(s), n \in 1..Len(t) : s[m] < t[n]
Within(s, k) == \A n \in 1..Len(s) : s[n] <= k

Subscription ==
  [open : BOOLEAN, replay : Seq(Nat), queue : Seq(Nat), dropped : Nat,
   waiting : BOOLEAN, woken : BOOLEAN, from : Nat, seen : Seq(Nat)]

FeedTypes == published \in Nat /\ history \in Seq(Nat) /\ sub \in [Subscriber -> Subscription]

\* The ring holds the latest events, without a gap.
HistoryIsRecent ==
  /\ Len(history) <= published
  /\ \A n \in 1..Len(history) : history[n] = published - Len(history) + n

InOrder(u, k) ==
  /\ Ascends(u.seen) /\ Ascends(u.replay) /\ Ascends(u.queue)
  /\ Below(u.seen, u.replay) /\ Below(u.seen, u.queue) /\ Below(u.replay, u.queue)
  /\ Within(u.seen, k) /\ Within(u.replay, k) /\ Within(u.queue, k)

Balanced(u, k) == Len(u.seen) + Len(u.replay) + Len(u.queue) + u.dropped = k - u.from

FeedInv ==
  /\ FeedTypes /\ HistoryIsRecent
  /\ \A s \in Subscriber : sub[s].open => InOrder(sub[s], published) /\ Balanced(sub[s], published)
-----------------------------------------------------------------------------
(* Sequences                                                               *)

(* A position of a sequence that grew by one is an old position or the new one. *)
LEMMA UpTo ==
  ASSUME NEW l \in Nat, NEW n \in 1..(l + 1)
  PROVE  n \in 1..l \/ n = l + 1
OBVIOUS

(* A position below another of the grown sequence is one of the old positions. *)
LEMMA BelowTop ==
  ASSUME NEW l \in Nat, NEW n \in 1..(l + 1), NEW m \in 1..(l + 1), m < n
  PROVE  m \in 1..l
OBVIOUS

(* Moving one event from one count to another leaves their sum as it was. *)
LEMMA MovedOver ==
  ASSUME NEW a \in Nat, NEW b \in Nat
  PROVE  (a + 1) + (b - 1) = a + b /\ (a + 1) + 0 + (b - 1) = a + 0 + b
OBVIOUS

(* What appending one event does to the length and the positions of a sequence. *)
LEMMA AppendFacts ==
  ASSUME NEW s \in Seq(Nat), NEW e \in Nat
  PROVE  /\ Append(s, e) \in Seq(Nat) /\ Len(Append(s, e)) = Len(s) + 1
         /\ Append(s, e)[Len(s) + 1] = e
         /\ \A n \in 1..Len(s) : Append(s, e)[n] = s[n]
OBVIOUS

(* What taking the first event does to the length and the positions of a sequence. *)
LEMMA TailFacts ==
  ASSUME NEW s \in Seq(Nat), s # <<>>
  PROVE  /\ Tail(s) \in Seq(Nat) /\ Len(s) \in Nat \ {0} /\ Len(Tail(s)) = Len(s) - 1
         /\ Head(s) = s[1] /\ Head(s) \in Nat
         /\ \A n \in 1..Len(Tail(s)) : Tail(s)[n] = s[n + 1]
OBVIOUS

\* The newest n entries are a suffix of length n, or everything.
LEMMA NewestFacts ==
  ASSUME NEW s \in Seq(Nat), NEW n \in Nat
  PROVE  /\ Newest(s, n) \in Seq(Nat)
         /\ Len(Newest(s, n)) = IF Len(s) > n THEN n ELSE Len(s)
         /\ \A m \in 1..Len(Newest(s, n)) : Newest(s, n)[m] = s[Len(s) - Len(Newest(s, n)) + m]
<1>1. CASE Len(s) > n
  <2> DEFINE a == Len(s) - n + 1
  <2>1. a \in 1..(Len(s) + 1)
    BY <1>1
  <2>2. SubSeq(s, a, Len(s)) \in Seq(Nat) /\ Len(SubSeq(s, a, Len(s))) = n
    BY <1>1, <2>1
  <2>3. \A m \in 1..n : SubSeq(s, a, Len(s))[m] = s[a + m - 1]
    BY <1>1, <2>1
  <2> QED BY <1>1, <2>2, <2>3 DEF Newest
<1>2. CASE ~(Len(s) > n)
  BY <1>2 DEF Newest
<1> QED BY <1>1, <1>2

\* An event above all others put at the end.
LEMMA PushKeeps ==
  ASSUME NEW s \in Seq(Nat), NEW k \in Nat, Ascends(s), Within(s, k)
  PROVE  /\ Ascends(Append(s, k + 1)) /\ Within(Append(s, k + 1), k + 1)
         /\ \A x \in Seq(Nat) : Below(x, s) /\ Within(x, k) => Below(x, Append(s, k + 1))
<1> DEFINE a == Append(s, k + 1)
<1>1. /\ a \in Seq(Nat) /\ Len(a) = Len(s) + 1 /\ a[Len(s) + 1] = k + 1 /\ Len(s) \in Nat
      /\ \A n \in 1..Len(s) : a[n] = s[n] /\ s[n] \in Nat
  BY AppendFacts
<1> HIDE DEF a
<1>2. Ascends(a)
  <2> SUFFICES ASSUME NEW m \in 1..Len(a), NEW n \in 1..Len(a), m < n
               PROVE  a[m] < a[n]
    BY DEF Ascends
  <2>1. m \in 1..Len(s)
    <3>1. Len(a) = Len(s) + 1 /\ Len(s) \in Nat
      BY <1>1
    <3> QED BY <3>1, BelowTop
  <2>2. CASE n \in 1..Len(s)
    BY <1>1, <2>1, <2>2 DEF Ascends
  <2>3. CASE n = Len(s) + 1
    <3>1. a[m] = s[m] /\ s[m] \in Nat /\ a[n] = k + 1
      BY <1>1, <2>1, <2>3
    <3>2. s[m] <= k
      BY <2>1 DEF Within
    <3> QED BY <3>1, <3>2
  <2> QED BY <1>1, <2>2, <2>3, UpTo, Zenon
<1>3. Within(a, k + 1)
  <2> SUFFICES ASSUME NEW n \in 1..Len(a) PROVE a[n] <= k + 1
    BY DEF Within
  <2>1. n \in 1..Len(s) \/ n = Len(s) + 1
    BY <1>1
  <2> QED BY <1>1, <2>1 DEF Within
<1>4. ASSUME NEW x \in Seq(Nat), Below(x, s), Within(x, k) PROVE Below(x, a)
  <2> SUFFICES ASSUME NEW m \in 1..Len(x), NEW n \in 1..Len(a) PROVE x[m] < a[n]
    BY DEF Below
  <2>1. CASE n \in 1..Len(s)
    BY <1>1, <1>4, <2>1, Zenon DEF Below
  <2>2. CASE n = Len(s) + 1
    <3>1. x[m] \in Nat /\ x[m] <= k
      BY <1>4 DEF Within
    <3> QED BY <1>1, <2>2, <3>1
  <2> QED BY <1>1, <2>1, <2>2, UpTo
<1> QED BY <1>2, <1>3, <1>4 DEF a

(* Events that are among the first k published are among the first k + 1. *)
LEMMA WithinMore ==
  ASSUME NEW s \in Seq(Nat), NEW k \in Nat, Within(s, k)
  PROVE  Within(s, k + 1)
<1> SUFFICES ASSUME NEW n \in 1..Len(s) PROVE s[n] <= k + 1
  BY DEF Within
<1>1. s[n] \in Nat /\ s[n] <= k
  BY DEF Within
<1> QED BY <1>1

\* The oldest event taken away.
LEMMA PopKeeps ==
  ASSUME NEW s \in Seq(Nat), s # <<>>, NEW k \in Nat, Ascends(s), Within(s, k)
  PROVE  /\ Ascends(Tail(s)) /\ Within(Tail(s), k)
         /\ \A x \in Seq(Nat) : Below(x, s) => Below(x, Tail(s))
         /\ \A y \in Seq(Nat) : Below(s, y) => Below(Tail(s), y)
<1> DEFINE t == Tail(s)
<1>1. /\ t \in Seq(Nat) /\ Len(t) = Len(s) - 1 /\ Len(s) \in Nat \ {0}
      /\ \A n \in 1..Len(t) : t[n] = s[n + 1] /\ n + 1 \in 1..Len(s)
      /\ \A n \in 1..Len(s) : s[n] \in Nat
  BY TailFacts
<1> HIDE DEF t
<1>2. Ascends(t)
  <2> SUFFICES ASSUME NEW m \in 1..Len(t), NEW n \in 1..Len(t), m < n
               PROVE  t[m] < t[n]
    BY DEF Ascends
  <2>1. m + 1 \in 1..Len(s) /\ n + 1 \in 1..Len(s) /\ m + 1 < n + 1
    BY <1>1
  <2> QED BY <1>1, <2>1, Zenon DEF Ascends
<1>3. Within(t, k)
  BY <1>1, Zenon DEF Within
<1>4. ASSUME NEW x \in Seq(Nat), Below(x, s) PROVE Below(x, t)
  BY <1>1, <1>4, Zenon DEF Below
<1>5. ASSUME NEW y \in Seq(Nat), Below(s, y) PROVE Below(t, y)
  BY <1>1, <1>5, Zenon DEF Below
<1> QED BY <1>2, <1>3, <1>4, <1>5 DEF t

\* The oldest event moved to the end of the stretch below.
LEMMA ShiftKeeps ==
  ASSUME NEW x \in Seq(Nat), NEW s \in Seq(Nat), s # <<>>, NEW k \in Nat,
         Ascends(x), Within(x, k), Ascends(s), Within(s, k), Below(x, s)
  PROVE  /\ Append(x, Head(s)) \in Seq(Nat) /\ Len(Append(x, Head(s))) = Len(x) + 1
         /\ Ascends(Append(x, Head(s))) /\ Within(Append(x, Head(s)), k)
         /\ Below(Append(x, Head(s)), Tail(s))
         /\ \A y \in Seq(Nat) : Below(x, y) /\ Below(s, y) => Below(Append(x, Head(s)), y)
<1> DEFINE t == Tail(s)
           a == Append(x, Head(s))
<1>1. /\ t \in Seq(Nat) /\ Len(t) = Len(s) - 1 /\ Len(s) \in Nat \ {0}
      /\ \A n \in 1..Len(t) : t[n] = s[n + 1] /\ n + 1 \in 1..Len(s)
      /\ \A n \in 1..Len(s) : s[n] \in Nat
      /\ Head(s) = s[1] /\ 1 \in 1..Len(s)
  BY TailFacts
<1>2. /\ a \in Seq(Nat) /\ Len(a) = Len(x) + 1 /\ a[Len(x) + 1] = s[1] /\ Len(x) \in Nat
      /\ \A n \in 1..Len(x) : a[n] = x[n] /\ x[n] \in Nat
  BY <1>1, AppendFacts
<1> HIDE DEF t, a
<1>0. \A n \in 1..Len(a) : n \in 1..Len(x) \/ n = Len(x) + 1
  BY <1>2
<1>3. Ascends(a)
  <2> SUFFICES ASSUME NEW m \in 1..Len(a), NEW n \in 1..Len(a), m < n
               PROVE  a[m] < a[n]
    BY DEF Ascends
  <2>1. m \in 1..Len(x)
    BY <1>2, BelowTop
  <2>2. CASE n \in 1..Len(x)
    BY <1>2, <2>1, <2>2 DEF Ascends
  <2>3. CASE n = Len(x) + 1
    BY <1>1, <1>2, <2>1, <2>3 DEF Below
  <2> QED BY <1>0, <2>2, <2>3
<1>4. Within(a, k)
  <2> SUFFICES ASSUME NEW n \in 1..Len(a) PROVE a[n] <= k
    BY DEF Within
  <2> QED BY <1>0, <1>1, <1>2, Zenon DEF Within
<1>5. Below(a, t)
  <2> SUFFICES ASSUME NEW m \in 1..Len(a), NEW n \in 1..Len(t) PROVE a[m] < t[n]
    BY DEF Below
  <2>1. t[n] = s[n + 1] /\ n + 1 \in 1..Len(s) /\ 1 < n + 1
    BY <1>1
  <2>2. CASE m \in 1..Len(x)
    BY <1>2, <2>1, <2>2, Zenon DEF Below
  <2>3. CASE m = Len(x) + 1
    BY <1>1, <1>2, <2>1, <2>3 DEF Ascends
  <2> QED BY <1>0, <2>2, <2>3
<1>6. ASSUME NEW y \in Seq(Nat), Below(x, y), Below(s, y) PROVE Below(a, y)
  <2> SUFFICES ASSUME NEW m \in 1..Len(a), NEW n \in 1..Len(y) PROVE a[m] < y[n]
    BY DEF Below
  <2>2. CASE m \in 1..Len(x)
    BY <1>2, <1>6, <2>2, Zenon DEF Below
  <2>3. CASE m = Len(x) + 1
    BY <1>1, <1>2, <1>6, <2>3 DEF Below
  <2> QED BY <1>0, <2>2, <2>3
<1> QED BY <1>2, <1>3, <1>4, <1>5, <1>6 DEF t, a
-----------------------------------------------------------------------------
(* The steps                                                               *)

\* A new event is above all others: it keeps a queue in order, full or not.
LEMMA OfferKeeps ==
  ASSUME NEW u \in Subscription, NEW k \in Nat, InOrder(u, k), Balanced(u, k)
  PROVE  /\ Offer(u, k + 1) \in Subscription
         /\ InOrder(Offer(u, k + 1), k + 1) /\ Balanced(Offer(u, k + 1), k + 1)
         /\ Offer(u, k + 1).open = u.open
<1> DEFINE v == Offer(u, k + 1)
<1>0. /\ u.seen \in Seq(Nat) /\ u.replay \in Seq(Nat) /\ u.queue \in Seq(Nat)
      /\ u.dropped \in Nat /\ u.from \in Nat
      /\ Len(u.seen) \in Nat /\ Len(u.replay) \in Nat /\ Len(u.queue) \in Nat
  BY DEF Subscription
<1>1a. /\ Ascends(u.seen) /\ Ascends(u.replay) /\ Below(u.seen, u.replay)
       /\ Within(u.seen, k + 1) /\ Within(u.replay, k + 1)
  BY <1>0, WithinMore DEF InOrder
<1>3. /\ Len(u.seen) + Len(u.replay) + Len(u.queue) + (u.dropped + 1) = (k + 1) - u.from
      /\ Len(u.seen) + Len(u.replay) + (Len(u.queue) + 1) + u.dropped = (k + 1) - u.from
  <2> DEFINE a == Len(u.seen)
             b == Len(u.replay)
             c == Len(u.queue)
             d == u.dropped
             f == u.from
  <2>1. a + b + c + d = k - f
    BY Zenon DEF Balanced
  <2>2. a \in Nat /\ b \in Nat /\ c \in Nat /\ d \in Nat /\ f \in Nat
    BY <1>0
  <2>3. a + b + c + (d + 1) = (k + 1) - f /\ a + b + (c + 1) + d = (k + 1) - f
    <3> HIDE DEF a, b, c, d, f
    <3> QED BY <2>1, <2>2
  <2> QED BY <2>3, Zenon
<1>1. CASE QueueSize > 0 /\ Len(u.queue) >= QueueSize
  <2>1. u.queue # <<>>
    BY <1>1, FeedAssumption DEF Subscription
  <2> DEFINE q == u.queue
             t == Tail(q)
             r == Append(t, k + 1)
  <2>2. v = [u EXCEPT !.queue = r, !.dropped = u.dropped + 1, !.woken = TRUE]
    BY <1>1 DEF Offer
  <2>3. /\ v.seen = u.seen /\ v.replay = u.replay /\ v.queue = r /\ v.dropped = u.dropped + 1
        /\ v.from = u.from /\ v.open = u.open
    BY <2>2, Zenon DEF Subscription
  <2>4. /\ t \in Seq(Nat) /\ Len(t) = Len(q) - 1 /\ Len(q) \in Nat \ {0}
        /\ \A n \in 1..Len(t) : t[n] = q[n + 1]
    BY <2>1, TailFacts DEF Subscription
  <2>5. /\ r \in Seq(Nat) /\ Len(r) = Len(q) /\ r[Len(q)] = k + 1
        /\ \A n \in 1..(Len(q) - 1) : r[n] = q[n + 1]
    BY <2>4, AppendFacts
  <2>6. v \in Subscription
    <3>1. r \in Seq(Nat) /\ u.dropped + 1 \in Nat
      BY <1>0, <2>5
    <3> HIDE DEF r
    <3> QED BY <2>2, <3>1, Zenon DEF Subscription
  <2>7. Balanced(v, k + 1)
    <3>1. Len(v.seen) = Len(u.seen) /\ Len(v.replay) = Len(u.replay) /\ Len(v.queue) = Len(r)
      BY <2>3
    <3>2. Len(r) = Len(u.queue) /\ v.dropped = u.dropped + 1 /\ v.from = u.from
      BY <2>3, <2>5
    <3> QED BY <1>3, <3>1, <3>2, Zenon DEF Balanced
  <2>8. InOrder(v, k + 1)
    <3>1. Ascends(t) /\ Within(t, k) /\ Below(u.seen, t) /\ Below(u.replay, t)
      BY <1>0, <2>1, PopKeeps DEF InOrder
    <3>2. Ascends(r) /\ Within(r, k + 1) /\ Below(u.seen, r) /\ Below(u.replay, r)
      BY <1>0, <2>4, <3>1, PushKeeps, Zenon DEF InOrder
    <3> QED BY <1>1a, <2>3, <3>2, Zenon DEF InOrder
  <2> QED BY <2>3, <2>6, <2>7, <2>8 DEF v
<1>2. CASE ~(QueueSize > 0 /\ Len(u.queue) >= QueueSize)
  <2> DEFINE q == u.queue
             r == Append(q, k + 1)
  <2>2. v = [u EXCEPT !.queue = r, !.woken = TRUE]
    BY <1>2 DEF Offer
  <2>3. /\ v.seen = u.seen /\ v.replay = u.replay /\ v.queue = r /\ v.dropped = u.dropped
        /\ v.from = u.from /\ v.open = u.open
    BY <2>2, Zenon DEF Subscription
  <2>5. /\ r \in Seq(Nat) /\ Len(r) = Len(q) + 1 /\ r[Len(q) + 1] = k + 1
        /\ \A n \in 1..Len(q) : r[n] = q[n]
    BY AppendFacts DEF Subscription
  <2>6. v \in Subscription
    BY <2>2, <2>5, Zenon DEF Subscription
  <2>7. Balanced(v, k + 1)
    <3>1. Len(v.seen) = Len(u.seen) /\ Len(v.replay) = Len(u.replay) /\ Len(v.queue) = Len(r)
      BY <2>3
    <3>2. Len(r) = Len(u.queue) + 1 /\ v.dropped = u.dropped /\ v.from = u.from
      BY <2>3, <2>5
    <3> QED BY <1>3, <3>1, <3>2, Zenon DEF Balanced
  <2>8. InOrder(v, k + 1)
    <3>1. Ascends(r) /\ Within(r, k + 1) /\ Below(u.seen, r) /\ Below(u.replay, r)
      BY <1>0, PushKeeps, Zenon DEF InOrder
    <3> QED BY <1>1a, <2>3, <3>1, Zenon DEF InOrder
  <2> QED BY <2>3, <2>6, <2>7, <2>8 DEF v
<1> QED BY <1>1, <1>2

\* The pump is shown the oldest event of the replay, or then of the queue.
LEMMA ReplayKeeps ==
  ASSUME NEW u \in Subscription, NEW k \in Nat, InOrder(u, k), Balanced(u, k), u.replay # <<>>,
         NEW v, v = [u EXCEPT !.seen = Append(u.seen, Head(u.replay)), !.replay = Tail(u.replay)]
  PROVE  v \in Subscription /\ InOrder(v, k) /\ Balanced(v, k)
<1> DEFINE a == Append(u.seen, Head(u.replay))
           t == Tail(u.replay)
<1>0. u.seen \in Seq(Nat) /\ u.replay \in Seq(Nat) /\ u.queue \in Seq(Nat)
  BY DEF Subscription
<1>1. /\ v.seen = a /\ v.replay = t /\ v.queue = u.queue /\ v.dropped = u.dropped /\ v.from = u.from
  BY DEF Subscription
<1>2. /\ a \in Seq(Nat) /\ Len(a) = Len(u.seen) + 1 /\ Ascends(a) /\ Within(a, k)
      /\ Below(a, t) /\ Below(a, u.queue)
  BY <1>0, ShiftKeeps DEF InOrder
<1>3. Ascends(t) /\ Within(t, k) /\ Below(t, u.queue)
  BY <1>0, PopKeeps DEF InOrder
<1>4. t \in Seq(Nat) /\ Len(t) = Len(u.replay) - 1
  BY <1>0, TailFacts
<1>5. v \in Subscription
  <2>1. v = [u EXCEPT !.seen = a, !.replay = t]
    OBVIOUS
  <2> HIDE DEF a, t
  <2> QED BY <1>2, <1>4, <2>1, Zenon DEF Subscription
<1>6. InOrder(v, k)
  BY <1>1, <1>2, <1>3 DEF InOrder
<1>7. Balanced(v, k)
  <2>1. Len(u.seen) \in Nat /\ Len(u.replay) \in Nat
    BY <1>0
  <2>2. (Len(u.seen) + 1) + (Len(u.replay) - 1) = Len(u.seen) + Len(u.replay)
    BY <2>1, MovedOver, Zenon
  <2> QED BY <1>1, <1>2, <1>4, <2>2, Zenon DEF Balanced
<1> QED BY <1>5, <1>6, <1>7

(* Delivering the head of a subscriber's queue keeps its events in order and its balance of
   seen, queued and dropped events. *)
LEMMA QueueKeeps ==
  ASSUME NEW u \in Subscription, NEW k \in Nat, InOrder(u, k), Balanced(u, k),
         u.replay = <<>>, u.queue # <<>>,
         NEW v, v = [u EXCEPT !.seen = Append(u.seen, Head(u.queue)), !.queue = Tail(u.queue)]
  PROVE  v \in Subscription /\ InOrder(v, k) /\ Balanced(v, k)
<1> DEFINE a == Append(u.seen, Head(u.queue))
           t == Tail(u.queue)
<1>0. u.seen \in Seq(Nat) /\ u.replay \in Seq(Nat) /\ u.queue \in Seq(Nat)
  BY DEF Subscription
<1>1. /\ v.seen = a /\ v.replay = u.replay /\ v.queue = t /\ v.dropped = u.dropped /\ v.from = u.from
  BY DEF Subscription
<1>2. /\ a \in Seq(Nat) /\ Len(a) = Len(u.seen) + 1 /\ Ascends(a) /\ Within(a, k) /\ Below(a, t)
  BY <1>0, ShiftKeeps DEF InOrder
<1>3. Ascends(t) /\ Within(t, k)
  BY <1>0, PopKeeps DEF InOrder
<1>4. t \in Seq(Nat) /\ Len(t) = Len(u.queue) - 1
  BY <1>0, TailFacts
<1>5. v \in Subscription
  <2>1. v = [u EXCEPT !.seen = a, !.queue = t]
    OBVIOUS
  <2> HIDE DEF a, t
  <2> QED BY <1>2, <1>4, <2>1, Zenon DEF Subscription
<1>6. InOrder(v, k)
  <2>1. Len(u.replay) = 0
    OBVIOUS
  <2>2. Below(a, u.replay) /\ Below(u.replay, t) /\ Ascends(u.replay) /\ Within(u.replay, k)
    BY <2>1 DEF Below, Ascends, Within
  <2> QED BY <1>1, <1>2, <1>3, <2>2 DEF InOrder
<1>7. Balanced(v, k)
  <2>1. Len(u.seen) \in Nat /\ Len(u.queue) \in Nat /\ Len(u.replay) = 0
    BY <1>0
  <2>2. (Len(u.seen) + 1) + 0 + (Len(u.queue) - 1) = Len(u.seen) + 0 + Len(u.queue)
    BY <2>1, MovedOver, Zenon
  <2> QED BY <1>1, <1>2, <1>4, <2>1, <2>2, Zenon DEF Balanced
<1> QED BY <1>5, <1>6, <1>7

(* Two ascending sequences, the first wholly below the second, make an ascending sequence. *)
LEMMA ConcatAscends ==
  ASSUME NEW s \in Seq(Nat), NEW t \in Seq(Nat), Ascends(s), Ascends(t), Below(s, t)
  PROVE  /\ s \o t \in Seq(Nat) /\ Len(s \o t) = Len(s) + Len(t) /\ Ascends(s \o t)
         /\ \A y \in Seq(Nat) : Below(s, y) /\ Below(t, y) => Below(s \o t, y)
<1> DEFINE a == s \o t
<1>1. /\ a \in Seq(Nat) /\ Len(a) = Len(s) + Len(t) /\ Len(s) \in Nat /\ Len(t) \in Nat
      /\ \A n \in 1..Len(s) : a[n] = s[n]
      /\ \A n \in 1..Len(a) : n \notin 1..Len(s) => a[n] = t[n - Len(s)] /\ n - Len(s) \in 1..Len(t)
  OBVIOUS
<1> HIDE DEF a
<1>2. Ascends(a)
  <2> SUFFICES ASSUME NEW m \in 1..Len(a), NEW n \in 1..Len(a), m < n PROVE a[m] < a[n]
    BY DEF Ascends
  <2>1. CASE n \in 1..Len(s)
    <3>1. m \in 1..Len(s)
      BY <1>1, <2>1
    <3> QED BY <1>1, <2>1, <3>1 DEF Ascends
  <2>2. CASE m \in 1..Len(s) /\ n \notin 1..Len(s)
    BY <1>1, <2>2, Zenon DEF Below
  <2>3. CASE m \notin 1..Len(s) /\ n \notin 1..Len(s)
    <3>1. m - Len(s) < n - Len(s)
      BY <1>1
    <3> QED BY <1>1, <2>3, <3>1, Zenon DEF Ascends
  <2> QED BY <2>1, <2>2, <2>3
<1>3. ASSUME NEW y \in Seq(Nat), Below(s, y), Below(t, y) PROVE Below(a, y)
  <2> SUFFICES ASSUME NEW m \in 1..Len(a), NEW n \in 1..Len(y) PROVE a[m] < y[n]
    BY DEF Below
  <2>1. CASE m \in 1..Len(s)
    BY <1>1, <1>3, <2>1, Zenon DEF Below
  <2>2. CASE m \notin 1..Len(s)
    BY <1>1, <1>3, <2>2, Zenon DEF Below
  <2> QED BY <2>1, <2>2
<1> QED BY <1>1, <1>2, <1>3 DEF a
-----------------------------------------------------------------------------
(* The invariant                                                           *)

(* A subscription that is not open has seen nothing, holds nothing and has dropped nothing. *)
LEMMA ClosedFacts ==
  /\ Closed \in Subscription /\ ~Closed.open /\ ~Closed.waiting
  /\ Closed.seen = <<>> /\ Closed.queue = <<>> /\ Closed.replay = <<>> /\ Closed.dropped = 0
BY DEF Closed, Subscription

(* A bus without subscribers satisfies the inductive invariant of the feed. *)
LEMMA FeedInitially == FeedInit => FeedInv
<1> SUFFICES ASSUME FeedInit PROVE FeedInv
  OBVIOUS
<1>1. published = 0 /\ history = <<>> /\ \A s \in Subscriber : sub[s] = Closed
  BY DEF FeedInit
<1>2. FeedTypes
  BY ClosedFacts DEF FeedInit, FeedTypes
<1>3. HistoryIsRecent
  BY <1>1 DEF HistoryIsRecent
<1> QED BY <1>1, <1>2, <1>3, ClosedFacts DEF FeedInv

\* One step leaves the others' subscriptions alone.
LEMMA OneSubscription ==
  ASSUME FeedInv, NEW s \in Subscriber, NEW v \in Subscription, sub' = [sub EXCEPT ![s] = v],
         UNCHANGED <<published, history>>,
         v.open => InOrder(v, published) /\ Balanced(v, published)
  PROVE  FeedInv'
<1>1. FeedTypes' /\ HistoryIsRecent'
  BY DEF FeedInv, FeedTypes, HistoryIsRecent
<1>2. \A t \in Subscriber : sub'[t] = IF t = s THEN v ELSE sub[t]
  BY DEF FeedInv, FeedTypes
<1>3. \A t \in Subscriber :
        sub'[t].open => InOrder(sub'[t], published') /\ Balanced(sub'[t], published')
  BY <1>2 DEF FeedInv
<1> QED BY <1>1, <1>3 DEF FeedInv

(* publish(), with the drop of the oldest event of a full queue, keeps the invariant of the
   feed. *)
LEMMA PublishKeeps == FeedInv /\ Publish => FeedInv'
<1> SUFFICES ASSUME FeedInv, Publish PROVE FeedInv'
  OBVIOUS
<1> DEFINE e == published + 1
           a == Append(history, e)
           h == Newest(a, HistorySize)
<1>1. /\ published \in Nat /\ e \in Nat /\ published' = e /\ history' = h /\ history \in Seq(Nat)
      /\ sub' = [s \in Subscriber |-> IF sub[s].open THEN Offer(sub[s], e) ELSE sub[s]]
  BY DEF Publish, FeedInv, FeedTypes
<1>2. /\ a \in Seq(Nat) /\ Len(a) = Len(history) + 1 /\ a[Len(history) + 1] = e
      /\ \A n \in 1..Len(history) : a[n] = history[n]
      /\ Len(history) \in Nat
  BY <1>1, AppendFacts
<1>3. Len(a) <= e /\ \A n \in 1..Len(a) : a[n] = e - Len(a) + n
  BY <1>1, <1>2 DEF FeedInv, HistoryIsRecent
<1>4. /\ h \in Seq(Nat) /\ Len(h) = IF Len(a) > HistorySize THEN HistorySize ELSE Len(a)
      /\ \A m \in 1..Len(h) : h[m] = a[Len(a) - Len(h) + m]
  BY <1>2, NewestFacts, FeedAssumption, Zenon
<1>5. HistoryIsRecent'
  <2> HIDE DEF a, h, e
  <2>1. Len(h) \in Nat /\ Len(a) \in Nat /\ Len(h) <= Len(a)
    BY <1>2, <1>4, FeedAssumption
  <2>2. \A m \in 1..Len(h) : h[m] = e - Len(h) + m
    <3> SUFFICES ASSUME NEW m \in 1..Len(h) PROVE h[m] = e - Len(h) + m
      OBVIOUS
    <3>1. Len(a) - Len(h) + m \in 1..Len(a)
      BY <2>1
    <3>2. h[m] = e - Len(a) + (Len(a) - Len(h) + m)
      BY <1>3, <1>4, <3>1
    <3> QED BY <1>1, <2>1, <3>2
  <2> QED BY <1>1, <1>3, <2>1, <2>2 DEF HistoryIsRecent
<1>6. ASSUME NEW s \in Subscriber
      PROVE  /\ sub'[s] \in Subscription
             /\ sub'[s].open => InOrder(sub'[s], e) /\ Balanced(sub'[s], e)
  <2>1. sub[s] \in Subscription
    BY DEF FeedInv, FeedTypes
  <2>2. CASE sub[s].open
    BY <1>1, <2>1, <2>2, OfferKeeps DEF FeedInv
  <2>3. CASE ~sub[s].open
    BY <1>1, <2>1, <2>3
  <2> QED BY <2>2, <2>3
<1>7. FeedTypes'
  BY <1>1, <1>4, <1>6 DEF FeedTypes
<1> QED BY <1>1, <1>5, <1>6, <1>7 DEF FeedInv

(* Subscribing, with or without a replay of the stored events, keeps the invariant of the
   feed. *)
LEMMA JoinKeeps ==
  ASSUME FeedInv, NEW s \in Subscriber, NEW replayed \in BOOLEAN, Join(s, replayed)
  PROVE  FeedInv'
<1> DEFINE r == IF replayed THEN history ELSE <<>>
           f == IF replayed THEN published - Len(history) ELSE published
           v == [Closed EXCEPT !.open = TRUE, !.replay = r, !.from = f]
<1>1. /\ sub' = [sub EXCEPT ![s] = v] /\ UNCHANGED <<published, history>>
  BY DEF Join
<1>2. published \in Nat /\ history \in Seq(Nat) /\ Len(history) \in Nat /\ Len(history) <= published
  BY DEF FeedInv, FeedTypes, HistoryIsRecent
<1>3. r \in Seq(Nat) /\ f \in Nat /\ Len(r) = published - f
  BY <1>2
<1>4. /\ v \in Subscription
      /\ v.seen = <<>> /\ v.queue = <<>> /\ v.replay = r /\ v.dropped = 0 /\ v.from = f
  <2> HIDE DEF r, f
  <2>1. v = [Closed EXCEPT !.open = TRUE, !.replay = r, !.from = f]
    OBVIOUS
  <2> HIDE DEF v
  <2> QED BY <1>3, <2>1, ClosedFacts, Zenon DEF Subscription
<1>5. Ascends(r) /\ Within(r, published)
  <2>1. CASE replayed
    BY <1>2, <2>1 DEF FeedInv, HistoryIsRecent, Ascends, Within
  <2>2. CASE ~replayed
    BY <2>2 DEF Ascends, Within
  <2> QED BY <2>1, <2>2
<1> HIDE DEF v
<1>6. InOrder(v, published)
  BY <1>4, <1>5 DEF InOrder, Ascends, Below, Within
<1>7. Balanced(v, published)
  <2>1. Len(v.seen) = 0 /\ Len(v.queue) = 0 /\ Len(v.replay) = published - f /\ v.dropped = 0
    BY <1>3, <1>4
  <2>2. published - f \in Nat
    BY <1>2, <1>3
  <2> HIDE DEF r, f
  <2>3. 0 + (published - f) + 0 + 0 = published - f
    BY <2>2
  <2> QED BY <1>4, <2>1, <2>3 DEF Balanced
<1> QED BY <1>1, <1>4, <1>6, <1>7, OneSubscription, Zenon

(* A subscriber's read of its next event keeps the invariant of the feed. *)
LEMMA PullKeeps == ASSUME FeedInv, NEW s \in Subscriber, Pull(s) PROVE FeedInv'
<1> DEFINE u == sub[s]
<1>1. /\ u \in Subscription /\ u.open /\ published \in Nat
      /\ InOrder(u, published) /\ Balanced(u, published) /\ UNCHANGED <<published, history>>
  BY DEF FeedInv, FeedTypes, Pull
<1>2. CASE u.replay # <<>>
  <2> DEFINE v == [u EXCEPT !.seen = Append(u.seen, Head(u.replay)), !.replay = Tail(u.replay)]
  <2>1. sub' = [sub EXCEPT ![s] = v]
    BY <1>2, Zenon DEF Pull
  <2>2. v \in Subscription /\ InOrder(v, published) /\ Balanced(v, published)
    BY <1>1, <1>2, ReplayKeeps, Zenon
  <2> QED BY <1>1, <2>1, <2>2, OneSubscription, Zenon
<1>3. CASE u.replay = <<>> /\ u.queue = <<>>
  <2> DEFINE v == [u EXCEPT !.waiting = TRUE, !.woken = FALSE]
  <2>1. sub' = [sub EXCEPT ![s] = v]
    BY <1>3 DEF Pull, Drained
  <2>2. /\ v \in Subscription /\ v.seen = u.seen /\ v.replay = u.replay /\ v.queue = u.queue
        /\ v.dropped = u.dropped /\ v.from = u.from
    BY <1>1, Zenon DEF Subscription
  <2>3. InOrder(v, published) /\ Balanced(v, published)
    BY <1>1, <2>2, Zenon DEF InOrder, Balanced
  <2> QED BY <1>1, <2>1, <2>2, <2>3, OneSubscription, Zenon
<1>4. CASE u.replay = <<>> /\ u.queue # <<>>
  <2> DEFINE v == [u EXCEPT !.seen = Append(u.seen, Head(u.queue)), !.queue = Tail(u.queue)]
  <2>1. sub' = [sub EXCEPT ![s] = v]
    BY <1>4 DEF Pull, Drained
  <2>2. v \in Subscription /\ InOrder(v, published) /\ Balanced(v, published)
    BY <1>1, <1>4, QueueKeeps, Zenon
  <2> QED BY <1>1, <2>1, <2>2, OneSubscription, Zenon
<1> QED BY <1>2, <1>3, <1>4

(* The wake-up of a waiting subscriber keeps the invariant of the feed. *)
LEMMA WakeKeeps == ASSUME FeedInv, NEW s \in Subscriber, Wake(s) PROVE FeedInv'
<1> DEFINE u == sub[s]
           v == [u EXCEPT !.waiting = FALSE]
<1>1. u \in Subscription /\ sub' = [sub EXCEPT ![s] = v] /\ UNCHANGED <<published, history>>
  BY DEF FeedInv, FeedTypes, Wake
<1>2. /\ v \in Subscription /\ v.open = u.open /\ v.seen = u.seen /\ v.replay = u.replay
      /\ v.queue = u.queue /\ v.dropped = u.dropped /\ v.from = u.from
  BY <1>1, Zenon DEF Subscription
<1>3. v.open => InOrder(v, published) /\ Balanced(v, published)
  BY <1>2, Zenon DEF FeedInv, InOrder, Balanced
<1> QED BY <1>1, <1>2, <1>3, OneSubscription, Zenon

(* The inductive invariant of the feed holds in every reachable state. *)
LEMMA FeedInvariant == FeedSpec => []FeedInv
<1>1. FeedInv /\ [FeedNext]_feed => FeedInv'
  <2> SUFFICES ASSUME FeedInv, [FeedNext]_feed PROVE FeedInv'
    OBVIOUS
  <2>1. ASSUME NEW s \in Subscriber, Disconnect(s) PROVE FeedInv'
    BY <2>1, ClosedFacts, OneSubscription, Zenon DEF Disconnect
  <2>2. CASE UNCHANGED feed
    BY <2>2, Zenon DEF feed, FeedInv, FeedTypes, HistoryIsRecent, InOrder, Balanced
  <2> QED BY <2>1, <2>2, PublishKeeps, JoinKeeps, PullKeeps, WakeKeeps DEF FeedNext
<1> QED BY <1>1, FeedInitially, PTL DEF FeedSpec
-----------------------------------------------------------------------------
\* EventBus: for every size of history and queue, a subscriber is shown the events in
\* order and none twice, and what it will not be shown is counted as dropped.
THEOREM SubscribersAreServed == FeedSpec => []FeedIsAccountedFor
<1>1. FeedInv => FeedIsAccountedFor
  <2> SUFFICES ASSUME FeedInv, NEW s \in Subscriber, sub[s].open
               PROVE  /\ Ascends(Coming(sub[s]))
                      /\ Len(Coming(sub[s])) + sub[s].dropped = published - sub[s].from
    BY DEF FeedIsAccountedFor, Ascends
  <2> DEFINE u == sub[s]
             a == u.seen \o u.replay
  <2>1. /\ u.seen \in Seq(Nat) /\ u.replay \in Seq(Nat) /\ u.queue \in Seq(Nat)
        /\ InOrder(u, published) /\ Balanced(u, published)
    BY DEF FeedInv, FeedTypes, Subscription
  <2>2. /\ a \in Seq(Nat) /\ Len(a) = Len(u.seen) + Len(u.replay) /\ Ascends(a) /\ Below(a, u.queue)
    BY <2>1, ConcatAscends DEF InOrder
  <2>3. Ascends(a \o u.queue) /\ Len(a \o u.queue) = Len(a) + Len(u.queue)
    <3> HIDE DEF a
    <3> QED BY <2>1, <2>2, ConcatAscends, Zenon DEF InOrder
  <2> QED BY <2>1, <2>2, <2>3, Zenon DEF Coming, Balanced
<1> QED BY <1>1, FeedInvariant, PTL

\* _Subscription.get: no subscriber waits beside a queued event with its asyncio.Event
\* cleared, whatever was published between its look at the queue and its wait.
THEOREM SubscribersAreWoken == FeedSpec => []NoLostWakeup
<1>1. FeedInit => NoLostWakeup
  BY DEF FeedInit, NoLostWakeup, Closed
<1>2. FeedInv /\ NoLostWakeup /\ [FeedNext]_feed => NoLostWakeup'
  <2> SUFFICES ASSUME FeedInv, NoLostWakeup, [FeedNext]_feed, NEW s \in Subscriber
               PROVE  sub'[s].waiting /\ sub'[s].queue # <<>> => sub'[s].woken
    BY DEF NoLostWakeup
  <2> DEFINE u == sub[s]
  <2>1. sub \in [Subscriber -> Subscription] /\ u \in Subscription
        /\ (u.waiting /\ u.queue # <<>> => u.woken)
    BY DEF FeedInv, FeedTypes, NoLostWakeup
  <2>2. CASE Publish
    <3>1. sub'[s] = u \/ sub'[s] = Offer(u, published + 1)
      BY <2>2 DEF Publish
    <3>2. Offer(u, published + 1).woken
      BY <2>1 DEF Offer, Subscription
    <3> QED BY <2>1, <3>1, <3>2
  <2>3. ASSUME NEW t \in Subscriber, Pull(t) \/ Wake(t) \/ Disconnect(t) \/ \E r \in BOOLEAN : Join(t, r), t # s
        PROVE  sub'[s] = u
    BY <2>1, <2>3, Zenon DEF Pull, Wake, Disconnect, Join
  <2>4. CASE Pull(s)
    BY <2>1, <2>4 DEF Pull, Drained, Subscription
  <2>5. CASE Wake(s)
    BY <2>1, <2>5 DEF Wake, Subscription
  <2>6. CASE Disconnect(s) \/ \E r \in BOOLEAN : Join(s, r)
    <3>1. CASE Disconnect(s)
      BY <2>1, <3>1, ClosedFacts DEF Disconnect
    <3>2. ASSUME NEW r \in BOOLEAN, Join(s, r) PROVE ~sub'[s].waiting
      BY <2>1, <3>2, ClosedFacts DEF Join, Subscription
    <3> QED BY <2>6, <3>1, <3>2
  <2>7. CASE UNCHANGED feed
    BY <2>1, <2>7 DEF feed
  <2> QED BY <2>1, <2>2, <2>3, <2>4, <2>5, <2>6, <2>7 DEF FeedNext
<1> QED BY <1>1, <1>2, FeedInvariant, PTL DEF FeedSpec

\* EventBus: every subscriber is shown or told of every event, and woken for it.
THEOREM FeedSound == FeedSpec => []FeedIsSound
BY SubscribersAreServed, SubscribersAreWoken, PTL DEF FeedIsSound
-----------------------------------------------------------------------------
(* Journals                                                                *)

AuditTypes ==
  /\ chain \in Seq(Nat) /\ read \in [Writer -> Nat \cup {Idle}] /\ overlapped \in BOOLEAN

\* While no two writers have overlapped, at most one is between its read and its insert,
\* and what it read is the last row.
Serial ==
  ~overlapped =>
    /\ \A n \in 1..Len(chain) : chain[n] = n - 1
    /\ \A w \in Writer : read[w] # Idle => read[w] = Len(chain)
    /\ \A v, w \in Writer : read[v] # Idle /\ read[w] # Idle => v = w

LogTypes == logged \in Nat /\ sinceTrim \in Nat /\ missed \in Nat /\ inserts \in Nat

\* A trim leaves at most MaxRows; each row since then is counted in sinceTrim, or in a
\* period that was lost.
RowsAreCounted ==
  /\ sinceTrim <= TrimEvery - 1
  /\ logged <= MaxRows + sinceTrim + (TrimEvery - 1) * missed

JournalsInv == AuditTypes /\ Serial /\ LogTypes /\ RowsAreCounted

(* Empty journals satisfy their inductive invariant. *)
LEMMA InitiallyInv == JournalsInit => JournalsInv
<1> SUFFICES ASSUME JournalsInit PROVE JournalsInv
  OBVIOUS
<1>1. AuditTypes
  <2>1. chain \in Seq(Nat) /\ read \in [Writer -> Nat \cup {Idle}]
    BY DEF JournalsInit
  <2>2. overlapped \in BOOLEAN
    BY Zenon DEF JournalsInit
  <2> QED BY <2>1, <2>2 DEF AuditTypes
<1>2. Serial
  <2>1. Len(chain) = 0 /\ \A w \in Writer : read[w] = Idle
    BY DEF JournalsInit
  <2> QED BY <2>1 DEF Serial
<1>3. LogTypes /\ RowsAreCounted
  <2>1. (TrimEvery - 1) * 0 = 0
    BY JournalsAssumption
  <2> QED BY <2>1, JournalsAssumption DEF JournalsInit, LogTypes, RowsAreCounted
<1> QED BY <1>1, <1>2, <1>3 DEF JournalsInv

\* One more lost period makes room for one more period of rows.
LEMMA OneMorePeriod ==
  ASSUME NEW t \in Nat, NEW m \in Nat
  PROVE  t * (m + 1) = t * m + t /\ t * m \in Nat
OBVIOUS

(* Every step keeps the types of the audit log and its entries serial. *)
LEMMA AuditSteps ==
  ASSUME JournalsInv, [JournalsNext]_journals
  PROVE  AuditTypes' /\ Serial'
<1> USE JournalsAssumption DEF JournalsInv, AuditTypes, Serial
<1>1. ASSUME NEW w \in Writer, ReadHash(w)
      PROVE  AuditTypes' /\ Serial'
  <2>1. /\ chain' = chain /\ read' = [read EXCEPT ![w] = Len(chain)]
        /\ overlapped' = (overlapped \/ \E v \in Writer : read[v] # Idle)
    BY <1>1 DEF ReadHash, LastHash
  <2>2. AuditTypes'
    <3>1. Len(chain) \in Nat
      OBVIOUS
    <3>2. overlapped' \in BOOLEAN
      BY <2>1, Zenon
    <3>3. chain' \in Seq(Nat) /\ read' \in [Writer -> Nat \cup {Idle}]
      BY <2>1, <3>1
    <3> QED BY <3>2, <3>3
  <2>3. CASE overlapped \/ \E v \in Writer : read[v] # Idle
    <3>1. overlapped'
      BY <2>1, <2>3, Zenon
    <3> QED BY <2>2, <3>1, Zenon
  <2>4. CASE ~overlapped /\ \A v \in Writer : read[v] = Idle
    BY <2>1, <2>4
  <2> QED BY <2>2, <2>3, <2>4
<1>2. ASSUME NEW w \in Writer, Insert(w)
      PROVE  AuditTypes' /\ Serial'
  <2>1. /\ chain' = Append(chain, read[w]) /\ read' = [read EXCEPT ![w] = Idle]
        /\ overlapped' = overlapped /\ read[w] \in Nat
    BY <1>2 DEF Insert
  <2>2. AuditTypes'
    BY <2>1
  <2>3. Len(chain') = Len(chain) + 1 /\ chain'[Len(chain) + 1] = read[w]
        /\ \A n \in 1..Len(chain) : chain'[n] = chain[n]
    BY <2>1
  <2>4. Serial'
    BY <1>2, <2>1, <2>3 DEF Insert
  <2> QED BY <2>2, <2>4
<1>3. ASSUME NEW w \in Writer, GiveUp(w)
      PROVE  AuditTypes' /\ Serial'
  BY <1>3 DEF GiveUp
<1>4. CASE WriteRow \/ Restart \/ UNCHANGED journals
  BY <1>4 DEF WriteRow, Restart, journals, audit
<1> QED BY <1>1, <1>2, <1>3, <1>4 DEF JournalsNext

(* Every step keeps the types of the log table and its rows counted. *)
LEMMA LogSteps ==
  ASSUME JournalsInv, [JournalsNext]_journals
  PROVE  LogTypes' /\ RowsAreCounted'
<1> USE JournalsAssumption DEF JournalsInv, LogTypes, RowsAreCounted
<1> DEFINE T == TrimEvery - 1
<1>1. T \in Nat /\ T * (missed + 1) = T * missed + T /\ T * missed \in Nat
  <2>1. T \in Nat
    OBVIOUS
  <2> HIDE DEF T
  <2> QED BY <2>1, OneMorePeriod
<1>2. CASE WriteRow
  <2>1. CASE ~Due
    BY <1>1, <1>2, <2>1 DEF WriteRow, Due
  <2>2. CASE Due /\ logged' = Kept(logged + 1) /\ missed' = 0
    <3>1. T * 0 = 0
      BY <1>1
    <3> QED BY <1>2, <2>2, <3>1 DEF WriteRow, Kept
  <2>3. CASE Due /\ logged' = logged /\ missed' = missed + 1
    BY <1>1, <1>2, <2>3 DEF WriteRow
  <2> QED BY <1>2, <2>1, <2>2, <2>3 DEF WriteRow
<1>3. CASE Restart
  BY <1>1, <1>3 DEF Restart
<1>4. CASE UNCHANGED logs
  BY <1>4 DEF logs
<1> QED
  BY <1>2, <1>3, <1>4 DEF JournalsNext, ReadHash, Insert, GiveUp, journals

(* The inductive invariant of the journals holds in every reachable state. *)
LEMMA JournalsInvariant == JournalsSpec => []JournalsInv
<1>1. JournalsInv /\ [JournalsNext]_journals => JournalsInv'
  BY AuditSteps, LogSteps DEF JournalsInv
<1> QED BY <1>1, InitiallyInv, PTL DEF JournalsSpec

\* AuditLog.record: with any number of writers, rows that were only appended verify
\* unless two records overlapped between the read of the last hash and the insert.
THEOREM ChainVerifies == JournalsSpec => []UntouchedChainVerifies
<1>1. JournalsInv => UntouchedChainVerifies
  BY DEF JournalsInv, AuditTypes, Serial, UntouchedChainVerifies, Verify, Bad
<1> QED BY <1>1, JournalsInvariant, PTL

\* LogBuffer._write_row: for every trim period and table size, the log table is bounded,
\* by one more period for each restart or failed trim since the last one that succeeded.
THEOREM LogTableBounded == JournalsSpec => []LogRowsBounded
<1>1. JournalsInv => LogRowsBounded
  <2> SUFFICES ASSUME JournalsInv PROVE LogRowsBounded
    OBVIOUS
  <2> DEFINE T == TrimEvery - 1
  <2>1. T \in Nat /\ missed \in Nat
    BY JournalsAssumption DEF JournalsInv, LogTypes
  <2>2. T * (missed + 1) = T * missed + T /\ T * missed \in Nat
    <3> HIDE DEF T
    <3> QED BY <2>1, OneMorePeriod
  <2> QED
    BY <2>2, JournalsAssumption DEF JournalsInv, LogTypes, RowsAreCounted, LogRowsBounded
<1> QED BY <1>1, JournalsInvariant, PTL

\* AuditLog and the log table: both promises hold for any number of writers and rows.
THEOREM JournalsKept == JournalsSpec => []JournalsAreKept
BY ChainVerifies, LogTableBounded, PTL DEF JournalsAreKept
-----------------------------------------------------------------------------
(* Archive: the inductive invariant                                        *)

\* A file whose schema is what it records, an initial stretch of the migrations.
Migrated(d) ==
  /\ d = [schema |-> d.schema, tracked |-> d.tracked, data |-> d.data]
  /\ d.schema = d.tracked
  /\ \A v \in d.tracked, w \in Versions : w < v => w \in d.tracked

IsArchive(b) ==
  /\ b = [db |-> b.db, config |-> b.config, dbSound |-> b.dbSound, configSound |-> b.configSound]
  /\ b.dbSound \in BOOLEAN /\ b.configSound \in BOOLEAN /\ Migrated(b.db)

FilesAreMigrated ==
  /\ copying \in BOOLEAN
  /\ Migrated(db) /\ (wal # Nil => Migrated(wal)) /\ (copying \/ backup # Nil => IsArchive(backup))

\* A log is left behind only when nobody runs, and what a runner has seen applied is.
RunnersAreCurrent ==
  /\ runner = [r \in Runner |-> runner[r]]
  /\ \A r \in Runner : runner[r] # Nil => wal = Nil /\ runner[r] \subseteq db.tracked

\* Between the two files of a restore, and until somebody works on after it, nothing moves.
RestoreIsExact ==
  /\ restore \in {"config", "done", "failed"} => Quiet /\ ~copying
  /\ restore = "config" => db = backup.db /\ config = before.config
  /\ restore = "done" =>
       /\ db = backup.db
       /\ config = IF backup.config = Nil THEN before.config ELSE backup.config
  /\ restore = "failed" =>
       /\ db = before.db \/ ~backup.configSound
       /\ config = before.config

ArchiveInv == FilesAreMigrated /\ RunnersAreCurrent /\ RestoreIsExact
-----------------------------------------------------------------------------
(* Archive: one lemma per step                                             *)

\* The first pending migration is one, and nothing below it is pending.
LEMMA FirstPending ==
  ASSUME NEW S \in SUBSET Versions, S # {}
  PROVE  Min(S) \in S /\ \A w \in Versions : w < Min(S) => w \notin S
<1>1. S \in SUBSET Nat
  BY ArchiveAssumption
<1>2. PICK x \in S : \A y \in S : ~ (<<y, x>> \in OpToRel(<, Nat))
  BY <1>1, NatLessThanWellFounded, WFMin, Zenon
<1>3. \A y \in S : y \in Nat /\ x \in Nat
  BY <1>1
<1>4. \A y \in S : ~ (y < x)
  BY <1>2, <1>3, Zenon DEF OpToRel
<1>5. \A y \in S : x <= y
  BY <1>3, <1>4
<1>6. Min(S) \in S /\ \A y \in S : Min(S) <= y
  BY <1>5 DEF Min
<1>7. \A w \in S : w \in Nat /\ Min(S) \in Nat
  BY <1>1, <1>6, Zenon
<1> QED BY <1>6, <1>7

\* The empty database, and one that was half written, are migrated as far as they say.
LEMMA BareFiles == Migrated(Empty) /\ Migrated(Torn)
BY DEF Migrated, Empty, Torn

(* A database before its first migration, with no restore under way, satisfies the inductive
   invariant. *)
LEMMA ArchiveInitially == ArchiveInit => ArchiveInv
<1> SUFFICES ASSUME ArchiveInit PROVE ArchiveInv
  OBVIOUS
<1>1. FilesAreMigrated
  <2>1. copying = FALSE /\ db = Empty /\ wal = Nil /\ backup = Nil
    BY DEF ArchiveInit
  <2> QED BY <2>1, BareFiles, Zenon DEF FilesAreMigrated
<1>2. RunnersAreCurrent /\ RestoreIsExact
  BY DEF ArchiveInit, RunnersAreCurrent, RestoreIsExact
<1> QED BY <1>1, <1>2 DEF ArchiveInv

\* What a connection finds is migrated; a log is applied to a file nobody uses.
LEMMA FoundFacts ==
  ASSUME ArchiveInv
  PROVE  /\ Migrated(Found)
         /\ \A r \in Runner : runner[r] # Nil => Found = db
BY DEF ArchiveInv, FilesAreMigrated, RunnersAreCurrent, Found

\* A runner opens the database: it has seen applied what is applied.
LEMMA OpenKeeps ==
  ASSUME ArchiveInv, NEW r \in Runner, Open(r)
  PROVE  ArchiveInv'
<1>1. /\ db' = Found /\ wal' = Nil /\ runner' = [runner EXCEPT ![r] = Found.tracked]
      /\ restore' = "idle" /\ UNCHANGED <<config, backup, copying, before>>
  BY DEF Open
<1>2. FilesAreMigrated'
  BY <1>1, FoundFacts DEF ArchiveInv, FilesAreMigrated
<1>3. RunnersAreCurrent'
  BY <1>1, FoundFacts DEF ArchiveInv, RunnersAreCurrent
<1>4. RestoreIsExact'
  BY <1>1 DEF RestoreIsExact
<1> QED BY <1>2, <1>3, <1>4 DEF ArchiveInv

\* While somebody runs, no restore is on or has just ended.
LEMMA NoRestoreBeside ==
  ASSUME ArchiveInv, NEW r \in Runner, runner[r] # Nil
  PROVE  restore \notin {"config", "done", "failed"} /\ wal = Nil
BY DEF ArchiveInv, RestoreIsExact, RunnersAreCurrent, Quiet

\* A migration goes on from where its runner is, which is where the file is.
LEMMA MigrateKeeps ==
  ASSUME ArchiveInv, NEW r \in Runner, Migrate(r)
  PROVE  ArchiveInv'
<1> DEFINE v == Min(Pending(r))
<1>0. /\ runner[r] # Nil /\ Pending(r) # {} /\ UNCHANGED <<config, wal, backup, copying, restore, before>>
      /\ FilesAreMigrated /\ RunnersAreCurrent /\ wal = Nil /\ restore \notin {"config", "done", "failed"}
  BY NoRestoreBeside DEF Migrate, ArchiveInv
<1>1. v \in Versions /\ \A w \in Versions : w < v => w \in runner[r]
  <2>1. Pending(r) \in SUBSET Versions
    BY DEF Pending
  <2> QED BY <1>0, <2>1, FirstPending DEF Pending
<1>2. RestoreIsExact'
  BY <1>0 DEF RestoreIsExact
<1>3. CASE db' \in Applied(v) /\ runner' = [runner EXCEPT ![r] = @ \cup {v}]
  <2> HIDE DEF v
  <2>1. db' = [db EXCEPT !.schema = @ \cup {v}, !.tracked = @ \cup {v}]
    BY <1>3 DEF Applied
  <2>2. db = [schema |-> db.schema, tracked |-> db.tracked, data |-> db.data]
    BY <1>0 DEF FilesAreMigrated, Migrated
  <2>3. db' = [schema |-> db.schema \cup {v}, tracked |-> db.tracked \cup {v}, data |-> db.data]
    BY <2>1, <2>2, Zenon
  <2>4. /\ db'.schema = db.schema \cup {v} /\ db'.tracked = db.tracked \cup {v} /\ db'.data = db.data
    BY <2>3
  <2>5. runner[r] \subseteq db.tracked
    BY <1>0 DEF RunnersAreCurrent
  <2>6. Migrated(db')
    BY <1>0, <1>1, <2>3, <2>4, <2>5 DEF FilesAreMigrated, Migrated
  <2>7. FilesAreMigrated'
    BY <1>0, <2>6 DEF FilesAreMigrated
  <2>8. RunnersAreCurrent'
    BY <1>0, <1>3, <2>4 DEF RunnersAreCurrent
  <2> QED BY <1>2, <2>7, <2>8 DEF ArchiveInv
<1>4. CASE runner' = [runner EXCEPT ![r] = Nil] /\ UNCHANGED db
  <2>1. FilesAreMigrated' /\ RunnersAreCurrent'
    BY <1>0, <1>4 DEF FilesAreMigrated, RunnersAreCurrent
  <2> QED BY <1>2, <2>1 DEF ArchiveInv
<1> QED BY <1>3, <1>4 DEF Migrate

\* A write changes the content only; a process that ends may leave a log, if it was alone.
LEMMA WriteAndExitKeep ==
  ASSUME ArchiveInv, NEW r \in Runner, Write(r) \/ Exit(r)
  PROVE  ArchiveInv'
<1>0. /\ runner[r] # Nil /\ UNCHANGED <<config, backup, copying, restore, before>>
      /\ FilesAreMigrated /\ RunnersAreCurrent /\ wal = Nil /\ restore \notin {"config", "done", "failed"}
  <2>1. runner[r] # Nil /\ UNCHANGED <<config, backup, copying, restore, before>>
    BY DEF Write, Exit
  <2> QED BY <2>1, NoRestoreBeside DEF ArchiveInv
<1>1. RestoreIsExact'
  BY <1>0 DEF RestoreIsExact
<1>2. CASE Write(r)
  <2>1. db' = [db EXCEPT !.data = @ + 1] /\ UNCHANGED <<wal, runner>>
    BY <1>2 DEF Write
  <2>2. db = [schema |-> db.schema, tracked |-> db.tracked, data |-> db.data]
    BY <1>0 DEF FilesAreMigrated, Migrated
  <2>3. db' = [schema |-> db.schema, tracked |-> db.tracked, data |-> db.data + 1]
    BY <2>1, <2>2
  <2>4. db'.schema = db.schema /\ db'.tracked = db.tracked /\ db'.data = db.data + 1
    BY <2>3
  <2>5. Migrated(db')
    BY <1>0, <2>3, <2>4 DEF FilesAreMigrated, Migrated
  <2>6. FilesAreMigrated' /\ RunnersAreCurrent'
    BY <1>0, <2>1, <2>4, <2>5 DEF FilesAreMigrated, RunnersAreCurrent
  <2> QED BY <1>1, <2>6 DEF ArchiveInv
<1>3. CASE Exit(r)
  <2> DEFINE alone == Cardinality({s \in Runner : runner[s] # Nil}) = 1
  <2>1. /\ runner' = [runner EXCEPT ![r] = Nil] /\ UNCHANGED db
        /\ wal' = Nil \/ (alone /\ wal' = db)
    BY <1>3 DEF Exit
  <2>2. FilesAreMigrated'
    BY <1>0, <2>1 DEF FilesAreMigrated
  <2>3. ASSUME alone, NEW s \in Runner, s # r PROVE runner[s] = Nil
    <3>1. PICK x : {q \in Runner : runner[q] # Nil} = {x}
      <4>1. IsFiniteSet({q \in Runner : runner[q] # Nil})
        BY ArchiveAssumption, FS_Subset
      <4> QED BY <2>3, <4>1, FS_Singleton, Zenon
    <3> QED BY <1>0, <2>3, <3>1
  <2>4. RunnersAreCurrent'
    BY <1>0, <2>1, <2>3 DEF RunnersAreCurrent
  <2> QED BY <1>1, <2>2, <2>4 DEF ArchiveInv
<1> QED BY <1>2, <1>3

\* The config file is edited: the last restore is history.
LEMMA EditKeeps ==
  ASSUME ArchiveInv, EditConfig
  PROVE  ArchiveInv'
BY DEF ArchiveInv, EditConfig, FilesAreMigrated, RunnersAreCurrent, RestoreIsExact

\* The online copy is of a migrated file, its config member comes later.
LEMMA BackupKeeps ==
  ASSUME ArchiveInv, BackupDatabase \/ BackupConfig
  PROVE  ArchiveInv'
<1>1. CASE BackupDatabase
  <2>1. /\ backup' = [db |-> Found, config |-> Nil, dbSound |-> TRUE, configSound |-> TRUE]
        /\ copying' = TRUE /\ db' = Found /\ wal' = Nil /\ restore' = "idle"
        /\ UNCHANGED <<config, runner, before>>
    BY <1>1 DEF BackupDatabase
  <2>2. Migrated(Found)
    BY FoundFacts
  <2>3. IsArchive(backup')
    BY <2>1, <2>2 DEF IsArchive
  <2>4. FilesAreMigrated'
    BY <2>1, <2>2, <2>3 DEF FilesAreMigrated
  <2>5. RunnersAreCurrent'
    BY <2>1, FoundFacts DEF ArchiveInv, RunnersAreCurrent
  <2>6. RestoreIsExact'
    BY <2>1 DEF RestoreIsExact
  <2> QED BY <2>4, <2>5, <2>6 DEF ArchiveInv
<1>2. CASE BackupConfig
  <2>1. /\ copying /\ copying' = FALSE /\ backup' = [backup EXCEPT !.config = config]
        /\ UNCHANGED <<db, config, wal, runner, restore, before>>
        /\ FilesAreMigrated /\ RunnersAreCurrent /\ RestoreIsExact
    BY <1>2 DEF BackupConfig, ArchiveInv
  <2>2. IsArchive(backup)
    BY <2>1 DEF FilesAreMigrated
  <2>3. backup' = [db |-> backup.db, config |-> config, dbSound |-> backup.dbSound,
                   configSound |-> backup.configSound]
    BY <2>1, <2>2 DEF IsArchive
  <2>4. IsArchive(backup')
    <3>1. backup'.db = backup.db /\ backup'.config = config
      BY <2>3
    <3>2. backup'.dbSound = backup.dbSound /\ backup'.configSound = backup.configSound
      BY <2>3
    <3> QED BY <2>2, <2>3, <3>1, <3>2 DEF IsArchive
  <2>5. FilesAreMigrated' /\ RunnersAreCurrent'
    BY <2>1, <2>4, Zenon DEF FilesAreMigrated, RunnersAreCurrent
  <2>6. restore \notin {"config", "done", "failed"}
    BY <2>1 DEF RestoreIsExact
  <2>7. RestoreIsExact'
    BY <2>1, <2>6 DEF RestoreIsExact
  <2> QED BY <2>5, <2>7 DEF ArchiveInv
<1> QED BY <1>1, <1>2

\* Damage changes no content, only whether it can be trusted.
LEMMA DamageKeeps ==
  ASSUME ArchiveInv, Damage
  PROVE  ArchiveInv'
<1>0. /\ backup # Nil /\ ~copying /\ restore # "config"
      /\ UNCHANGED <<db, config, wal, runner, copying, restore, before>>
      /\ FilesAreMigrated /\ RunnersAreCurrent /\ RestoreIsExact
  BY DEF Damage, ArchiveInv
<1>1. IsArchive(backup)
  BY <1>0 DEF FilesAreMigrated
<1>2. /\ IsArchive(backup') /\ backup'.db = backup.db /\ backup'.config = backup.config
      /\ ~backup.configSound => ~backup'.configSound
  <2>1. CASE backup' = [backup EXCEPT !.dbSound = FALSE]
    <3>1. backup' = [db |-> backup.db, config |-> backup.config, dbSound |-> FALSE,
                     configSound |-> backup.configSound]
      BY <1>1, <2>1, Zenon DEF IsArchive
    <3>2. backup'.db = backup.db /\ backup'.config = backup.config
      BY <3>1
    <3>3. backup'.dbSound = FALSE /\ backup'.configSound = backup.configSound
      BY <3>1
    <3> QED BY <1>1, <3>1, <3>2, <3>3 DEF IsArchive
  <2>2. CASE backup' = [backup EXCEPT !.configSound = FALSE]
    <3>1. backup' = [db |-> backup.db, config |-> backup.config, dbSound |-> backup.dbSound,
                     configSound |-> FALSE]
      BY <1>1, <2>2, Zenon DEF IsArchive
    <3>2. backup'.db = backup.db /\ backup'.config = backup.config
      BY <3>1
    <3>3. backup'.dbSound = backup.dbSound /\ backup'.configSound = FALSE
      BY <3>1
    <3> QED BY <1>1, <3>1, <3>2, <3>3 DEF IsArchive
  <2> QED BY <2>1, <2>2, Zenon DEF Damage
<1>3. FilesAreMigrated' /\ RunnersAreCurrent'
  BY <1>0, <1>2 DEF FilesAreMigrated, RunnersAreCurrent
<1>4. RestoreIsExact'
  BY <1>0, <1>2 DEF RestoreIsExact, Quiet
<1> QED BY <1>3, <1>4 DEF ArchiveInv

\* The database file is replaced, refused, or left half written.
LEMMA RestoreDatabaseKeeps ==
  ASSUME ArchiveInv, RestoreDatabase
  PROVE  ArchiveInv'
<1>0. /\ Quiet /\ backup # Nil /\ ~copying /\ restore # "config"
      /\ before' = [db |-> db, config |-> config]
      /\ UNCHANGED <<config, wal, runner, backup, copying>>
      /\ FilesAreMigrated /\ RunnersAreCurrent
  BY DEF RestoreDatabase, ArchiveInv
<1>1. before'.db = db /\ before'.config = config
  BY <1>0
<1>2. IsArchive(backup)
  BY <1>0 DEF FilesAreMigrated
<1>3. \/ backup.dbSound /\ db' = backup.db /\ restore' = "config"
      \/ db' = db /\ restore' = "failed"
      \/ db' = Torn /\ restore' = "cut"
  BY <1>2 DEF RestoreDatabase, Restored, IsArchive
<1>4. Migrated(db')
  BY <1>0, <1>2, <1>3, BareFiles DEF IsArchive, FilesAreMigrated
<1>5. FilesAreMigrated' /\ RunnersAreCurrent'
  BY <1>0, <1>4 DEF FilesAreMigrated, RunnersAreCurrent, Quiet
<1>6. RestoreIsExact'
  BY <1>0, <1>1, <1>3 DEF RestoreIsExact, Quiet
<1> QED BY <1>5, <1>6 DEF ArchiveInv

\* The config file is replaced, left alone, or refused; or the command is killed first.
LEMMA RestoreConfigKeeps ==
  ASSUME ArchiveInv, RestoreConfig \/ RestoreKilled
  PROVE  ArchiveInv'
<1>0. /\ restore = "config" /\ UNCHANGED <<db, wal, runner, backup, copying, before>>
      /\ FilesAreMigrated /\ RunnersAreCurrent /\ RestoreIsExact
  BY DEF RestoreConfig, RestoreKilled, ArchiveInv
<1>1. FilesAreMigrated' /\ RunnersAreCurrent'
  BY <1>0 DEF FilesAreMigrated, RunnersAreCurrent
<1>2. CASE RestoreConfig
  <2>1. RestoreIsExact'
    BY <1>0, <1>2 DEF RestoreIsExact, RestoreConfig, Quiet
  <2> QED BY <1>1, <2>1 DEF ArchiveInv
<1>3. CASE RestoreKilled
  <2>1. RestoreIsExact'
    BY <1>3 DEF RestoreIsExact, RestoreKilled
  <2> QED BY <1>1, <2>1 DEF ArchiveInv
<1> QED BY <1>2, <1>3

(* The inductive invariant of the archive holds in every reachable state. *)
LEMMA ArchiveInvariant == ArchiveSpec => []ArchiveInv
<1>1. ArchiveInv /\ [ArchiveNext]_archive => ArchiveInv'
  <2> SUFFICES ASSUME ArchiveInv, [ArchiveNext]_archive PROVE ArchiveInv'
    OBVIOUS
  <2>1. CASE ArchiveNext
    BY <2>1, OpenKeeps, MigrateKeeps, WriteAndExitKeep, EditKeeps, BackupKeeps, DamageKeeps,
       RestoreDatabaseKeeps, RestoreConfigKeeps DEF ArchiveNext
  <2>2. CASE UNCHANGED archive
    BY <2>2 DEF archive, ArchiveInv, FilesAreMigrated, RunnersAreCurrent, RestoreIsExact, Quiet
  <2> QED BY <2>1, <2>2
<1> QED BY <1>1, ArchiveInitially, PTL DEF ArchiveSpec

\* apply_migrations: for any migrations and any number of processes that migrate, write,
\* are killed, back up and restore, the schema of the database, of a log left behind and
\* of the archive is what it records, and a prefix of the migrations.
THEOREM SchemaTracked == ArchiveSpec => []SchemaIsTracked
<1>1. ArchiveInv => SchemaIsTracked
  BY DEF ArchiveInv, FilesAreMigrated, IsArchive, Migrated, SchemaIsTracked
<1> QED BY <1>1, ArchiveInvariant, PTL

\* restore_backup: for any content, damage and kills, a restore that finished replaced both
\* files and one that was refused neither, with the two exceptions RestoreIsAllOrNothing names.
THEOREM RestoreExact == ArchiveSpec => []RestoreIsAllOrNothing
<1>1. ArchiveInv => RestoreIsAllOrNothing
  BY DEF ArchiveInv, RestoreIsExact, RestoreIsAllOrNothing, Found
<1> QED BY <1>1, ArchiveInvariant, PTL
-----------------------------------------------------------------------------
(* The benchmark's report (Bench)                                          *)

BenchSpec == BenchInit /\ [][BenchNext]_bench

Sample ==
  [pc : {"queued", "open", "over"}, first : BOOLEAN, outcome : {"ok", "error", "cancelled"},
   failure : {"none", "pre_stream", "post_stream"}, shed : BOOLEAN]

\* How the fields of a sample go together, at every moment of its request.
SampleOK(s) ==
  /\ s.shed => s.outcome = "error" /\ s.failure = "none"
  /\ ~s.shed => (s.outcome = "error" <=> s.failure # "none")
  /\ s.failure = "pre_stream" => ~s.first
  /\ s.failure = "post_stream" \/ s.outcome = "cancelled" => s.first
  /\ s.pc = "queued" => ~s.first
  /\ s.pc # "over" => s.outcome = "ok" /\ ~s.shed

BenchShape ==
  /\ phase \in {"warmup", "before", "main", "burst", "settle", "done"}
  /\ sent \in [Specs -> Sample]
  /\ engine \in [Specs -> {"none", "working", "answered", "recorded"}]
  /\ totals \in Nat /\ snapshots \in [before : Nat, after : Nat]
  /\ noted \subseteq Specs

\* A phase that is over left no sample open.
PhasesAreOver ==
  /\ phase \in {"burst", "settle", "done"} => Over(Main)
  /\ phase \in {"settle", "done"} => Over(Burst)

\* What the engine has recorded since the first snapshot, and the difference of the totals.
DeltaIsNoted ==
  /\ \A r \in noted : engine[r] = "recorded"
  /\ phase \in {"warmup", "before"} => noted = {}
  /\ phase \in {"main", "burst", "settle"} => totals = snapshots.before + Cardinality(noted)
  /\ phase = "done" => snapshots.after = snapshots.before + Cardinality(noted)

\* The engine does not know of a request that was not posted.
QueuedIsUnknown == \A r \in Specs : sent[r].pc = "queued" => engine[r] = "none"

BenchInv ==
  /\ BenchShape /\ QueuedIsUnknown /\ (\A r \in Specs : SampleOK(sent[r])) /\ PhasesAreOver /\ DeltaIsNoted

\* The requests of a run (bench/driver.py) are finitely many.
LEMMA SpecsFinite == IsFiniteSet(Specs) /\ IsFiniteSet(Samples)
BY BenchAssumption, FS_Union, Zenon DEF Specs, Samples

\* What the engine does when a request is posted: it looks at no other one, and one that
\* it has recorded stays recorded.
EngineMoves(r) ==
  /\ engine' \in [Specs -> {"none", "working", "answered", "recorded"}]
  /\ \A q \in Specs \ {r} : engine'[q] = engine[q]
  /\ engine[r] = "recorded" => engine'[r] = "recorded"

\* What a step of a request leaves alone: everything but its sample, which is a sound one
\* and is over if it was over.
LEMMA SampleStep ==
  ASSUME BenchInv, NEW r \in Specs, NEW s \in Sample, Sees(r, s), SampleOK(s),
         sent[r].pc # "over", s.pc # "queued", EngineMoves(r)
  PROVE  BenchInv'
<1>1. /\ sent' = [sent EXCEPT ![r] = s] /\ phase' = phase /\ totals' = totals
      /\ snapshots' = snapshots /\ noted' = noted
  BY DEF Sees
<1>2. sent \in [Specs -> Sample] BY DEF BenchInv, BenchShape
<1>3. BenchShape' BY <1>1, <1>2 DEF BenchInv, BenchShape, EngineMoves
<1>4. \A q \in Specs : SampleOK(sent'[q]) BY <1>1, <1>2 DEF BenchInv
<1>5. \A S \in SUBSET Specs : Over(S) => Over(S)'
  BY <1>1, <1>2 DEF Over
<1>6. PhasesAreOver' BY <1>1, <1>5 DEF BenchInv, PhasesAreOver, Specs
<1>7. noted \subseteq Specs BY DEF BenchInv, BenchShape
<1>8. DeltaIsNoted' BY <1>1, <1>7 DEF BenchInv, DeltaIsNoted, EngineMoves
<1>9. QueuedIsUnknown' BY <1>1, <1>2 DEF BenchInv, QueuedIsUnknown, EngineMoves
<1> QED BY <1>3, <1>4, <1>6, <1>8, <1>9 DEF BenchInv, SampleOK

\* The engine need not move.
LEMMA EngineStays == ASSUME BenchInv, NEW r \in Specs, engine' = engine PROVE EngineMoves(r)
BY DEF BenchInv, BenchShape, EngineMoves

\* The end of a sample, as SampleEnds writes it.
LEMMA EndStep ==
  ASSUME BenchInv, NEW r \in Specs, NEW outcome \in {"ok", "error", "cancelled"},
         NEW failure \in {"none", "pre_stream", "post_stream"}, NEW b \in BOOLEAN,
         SampleEnds(r, outcome, failure, b), sent[r].pc # "over",
         b => outcome = "error" /\ failure = "none",
         ~b => (outcome = "error" <=> failure # "none"),
         failure = "pre_stream" => ~sent[r].first,
         failure = "post_stream" \/ outcome = "cancelled" => sent[r].first,
         EngineMoves(r)
  PROVE  BenchInv'
<1> DEFINE s == [sent[r] EXCEPT !.pc = "over", !.outcome = outcome, !.failure = failure, !.shed = b]
<1>1. sent[r] \in Sample BY DEF BenchInv, BenchShape
<1>2. s \in Sample /\ s.pc = "over" /\ s.outcome = outcome /\ s.failure = failure
      /\ s.first = sent[r].first
  BY <1>1, Zenon DEF Sample
<1>3. s.shed = b BY <1>1, Zenon DEF Sample
<1>4. SampleOK(s) BY <1>2, <1>3 DEF SampleOK
<1>5. Sees(r, s) BY DEF SampleEnds
<1> HIDE DEF s
<1> QED BY <1>2, <1>4, <1>5, SampleStep

\* A request of the driver: it is posted, sees content, and ends.
LEMMA RequestStep ==
  ASSUME BenchInv, NEW r \in Specs, Post(r) \/ Content(r) \/ AnswerEnds(r) \/ CancelAnswer(r)
  PROVE  BenchInv'
<1>1. /\ sent[r] \in Sample /\ SampleOK(sent[r]) /\ sent \in [Specs -> Sample]
      /\ engine \in [Specs -> {"none", "working", "answered", "recorded"}]
  BY DEF BenchInv, BenchShape
<1>2. CASE Post(r)
  <2>1. sent[r].pc = "queued" /\ ~sent[r].first BY <1>1, <1>2 DEF Post, SampleOK
  <2>2. engine[r] = "none" BY <2>1 DEF BenchInv, QueuedIsUnknown
  <2>3. \A e \in {"none", "working", "answered"} : engine' = [engine EXCEPT ![r] = e] => EngineMoves(r)
    BY <1>1, <2>2 DEF EngineMoves
  <2>4. engine' = engine => EngineMoves(r) BY <1>1 DEF EngineMoves
  <2>5. CASE /\ Sees(r, [sent[r] EXCEPT !.pc = "open"])
             /\ engine' = [engine EXCEPT ![r] = "working"]
    <3> DEFINE s == [sent[r] EXCEPT !.pc = "open"]
    <3>1. /\ s \in Sample /\ s.pc = "open" /\ s.outcome = sent[r].outcome
          /\ s.failure = sent[r].failure /\ s.shed = sent[r].shed /\ s.first = sent[r].first
      BY <1>1 DEF Sample
    <3>2. SampleOK(s) BY <1>1, <2>1, <3>1 DEF SampleOK
    <3>3. Sees(r, s) /\ EngineMoves(r) BY <2>3, <2>5
    <3> HIDE DEF s
    <3> QED BY <2>1, <3>1, <3>2, <3>3, SampleStep
  <2>6. CASE SampleEnds(r, "error", "none", TRUE) /\ UNCHANGED engine
    BY <2>1, <2>4, <2>6, EndStep, Zenon
  <2>7. CASE /\ SampleEnds(r, "error", "pre_stream", FALSE)
             /\ \E e \in {"none", "answered"} : engine' = [engine EXCEPT ![r] = e]
    BY <2>1, <2>3, <2>7, EndStep, Zenon
  <2> QED BY <1>2, <2>5, <2>6, <2>7, Zenon DEF Post
<1>3. CASE Content(r)
  <2> DEFINE s == [sent[r] EXCEPT !.first = TRUE]
  <2>1. sent[r].pc = "open" /\ Sees(r, s) /\ engine' = engine BY <1>3 DEF Content
  <2>2. /\ s \in Sample /\ s.pc = sent[r].pc /\ s.outcome = sent[r].outcome
        /\ s.failure = sent[r].failure /\ s.shed = sent[r].shed
    BY <1>1, Zenon DEF Sample
  <2>3. s.first BY <1>1, Zenon DEF Sample
  <2>4. SampleOK(s) BY <1>1, <2>1, <2>2, <2>3 DEF SampleOK
  <2> HIDE DEF s
  <2> QED BY <2>1, <2>2, <2>4, EngineStays, SampleStep
<1>4. CASE AnswerEnds(r)
  <2>1. sent[r].pc = "open" /\ engine' = engine BY <1>4 DEF AnswerEnds
  <2>2. CASE SampleEnds(r, "ok", "none", FALSE) BY <2>1, <2>2, EngineStays, EndStep, Zenon
  <2>3. CASE SampleEnds(r, "error", FailurePhase(r), FALSE)
    BY <1>1, <2>1, <2>3, EngineStays, EndStep, Zenon DEF FailurePhase
  <2> QED BY <1>4, <2>2, <2>3, Zenon DEF AnswerEnds
<1>5. CASE CancelAnswer(r)
  BY <1>1, <1>5, EngineStays, EndStep, Zenon DEF CancelAnswer
<1> QED BY <1>2, <1>3, <1>4, <1>5

\* The engine answers and records on its own.
LEMMA EngineStep ==
  ASSUME BenchInv, NEW r \in Specs, EngineAnswers(r) \/ EngineRecords(r)
  PROVE  BenchInv'
<1>1. /\ sent \in [Specs -> Sample] /\ totals \in Nat /\ noted \subseteq Specs
      /\ engine \in [Specs -> {"none", "working", "answered", "recorded"}]
      /\ snapshots \in [before : Nat, after : Nat]
  BY DEF BenchInv, BenchShape
<1>2. /\ phase' = phase /\ sent' = sent /\ snapshots' = snapshots
      /\ engine[r] \in {"working", "answered"}
      /\ \E e \in {"answered", "recorded"} : engine' = [engine EXCEPT ![r] = e]
  BY DEF EngineAnswers, EngineRecords
<1>3. (\A q \in Specs : SampleOK(sent[q]))' /\ PhasesAreOver'
  BY <1>2 DEF BenchInv, PhasesAreOver, Over, SampleOK
<1>4. QueuedIsUnknown'
  BY <1>1, <1>2 DEF BenchInv, QueuedIsUnknown
<1>5. CASE EngineAnswers(r)
  <2>1. totals' = totals /\ noted' = noted /\ engine' = [engine EXCEPT ![r] = "answered"]
    BY <1>5 DEF EngineAnswers
  <2>2. BenchShape' BY <1>1, <1>2, <2>1 DEF BenchInv, BenchShape
  <2>3. DeltaIsNoted' BY <1>1, <1>2, <2>1 DEF BenchInv, DeltaIsNoted
  <2> QED BY <1>3, <1>4, <2>2, <2>3 DEF BenchInv
<1>6. CASE EngineRecords(r)
  <2>1. /\ totals' = totals + 1 /\ engine' = [engine EXCEPT ![r] = "recorded"]
        /\ noted' = IF phase \in {"main", "burst", "settle"} THEN noted \cup {r} ELSE noted
    BY <1>6 DEF EngineRecords
  <2>2. BenchShape' BY <1>1, <1>2, <2>1 DEF BenchInv, BenchShape
  <2>3. r \notin noted BY <1>2 DEF BenchInv, DeltaIsNoted
  <2>4. IsFiniteSet(noted) /\ Cardinality(noted) \in Nat
    BY <1>1, SpecsFinite, FS_Subset, FS_CardinalityType
  <2>5. Cardinality(noted \cup {r}) = Cardinality(noted) + 1
    BY <2>3, <2>4, FS_AddElement, Zenon
  <2>6. \A q \in noted' : engine'[q] = "recorded"
    BY <1>1, <2>1 DEF BenchInv, DeltaIsNoted
  <2>7. DeltaIsNoted'
    BY <1>1, <1>2, <2>1, <2>4, <2>5, <2>6 DEF BenchInv, DeltaIsNoted
  <2> QED BY <1>3, <1>4, <2>2, <2>7 DEF BenchInv
<1> QED BY <1>5, <1>6

\* The driver goes from phase to phase, and takes the two snapshots.
LEMMA PhaseStep ==
  ASSUME BenchInv, WarmedUp \/ Before \/ MainEnds \/ BurstEnds \/ After
  PROVE  BenchInv'
<1>1. sent' = sent /\ engine' = engine /\ totals' = totals /\ noted' = noted
  BY DEF WarmedUp, Before, MainEnds, BurstEnds, After, Enter
<1>2. (\A q \in Specs : SampleOK(sent[q]))' /\ QueuedIsUnknown'
  BY <1>1 DEF BenchInv, SampleOK, QueuedIsUnknown
<1>3. BenchShape'
  BY <1>1 DEF BenchInv, BenchShape, WarmedUp, Before, MainEnds, BurstEnds, After, Enter
<1>4. PhasesAreOver'
  BY <1>1 DEF BenchInv, PhasesAreOver, Over, WarmedUp, Before, MainEnds, BurstEnds, After, Enter
<1>5. Cardinality({}) = 0 /\ totals \in Nat /\ snapshots \in [before : Nat, after : Nat]
  BY FS_EmptySet DEF BenchInv, BenchShape
<1>6. DeltaIsNoted'
  BY <1>1, <1>5 DEF BenchInv, DeltaIsNoted, WarmedUp, Before, MainEnds, BurstEnds, After, Enter
<1> QED BY <1>2, <1>3, <1>4, <1>6 DEF BenchInv

\* The number of the members of two sets without a common one.
LEMMA CountOfTwo ==
  ASSUME NEW S, NEW A, NEW B, IsFiniteSet(S), A \subseteq S, B \subseteq S, A \cap B = {}
  PROVE  /\ Cardinality(A \cup B) = Cardinality(A) + Cardinality(B)
         /\ Cardinality(A) \in Nat /\ Cardinality(B) \in Nat /\ Cardinality(A \cup B) \in Nat
<1>1. IsFiniteSet(A) /\ IsFiniteSet(B) BY FS_Subset
<1>2. Cardinality(A) \in Nat /\ Cardinality(B) \in Nat BY <1>1, FS_CardinalityType
<1>3. Cardinality(A \cap B) = 0 BY FS_EmptySet
<1>4. Cardinality(A \cup B) = Cardinality(A) + Cardinality(B) - Cardinality(A \cap B)
  BY <1>1, FS_Union
<1> QED BY <1>2, <1>3, <1>4

\* aggregate (bench/metrics.py) adds up, whatever the samples are.
LEMMA ReportFollows == BenchInv => ReportIsMeasured
<1> SUFFICES ASSUME BenchInv, phase = "done" PROVE ReportIsMeasured
  BY DEF ReportIsMeasured, SamplesAddUp, DeltaIsMeasured
<1>1. /\ sent \in [Specs -> Sample] /\ noted \subseteq Specs /\ Samples \subseteq Specs
      /\ snapshots.before \in Nat
  BY DEF BenchInv, BenchShape, Samples, Specs
<1>2. \A r \in Samples : sent[r] \in Sample /\ SampleOK(sent[r])
  BY <1>1 DEF BenchInv
<1>3. IsFiniteSet(Samples) /\ IsFiniteSet(Specs) BY SpecsFinite
<1> DEFINE Sh == {r \in Samples : sent[r].shed}
           Er == {r \in Samples : sent[r].outcome = "error" /\ ~sent[r].shed}
           Ca == {r \in Samples : sent[r].outcome = "cancelled" /\ ~sent[r].shed}
           Ok == {r \in Samples : sent[r].outcome = "ok"}
           Pre == {r \in Samples : sent[r].failure = "pre_stream" /\ ~sent[r].shed}
           Post_ == {r \in Samples : sent[r].failure = "post_stream" /\ ~sent[r].shed}
           Fi == {r \in Samples : sent[r].first}
<1>4. /\ shed = Cardinality(Sh) /\ errors = Cardinality(Er) /\ cancelled = Cardinality(Ca)
      /\ pre_stream_failures = Cardinality(Pre) /\ post_stream_failures = Cardinality(Post_)
  BY Zenon DEF Counted, shed, errors, cancelled, pre_stream_failures, post_stream_failures
<1>5. /\ Counted(LAMBDA s : s.outcome = "ok") = Cardinality(Ok)
      /\ Counted(LAMBDA s : s.first) = Cardinality(Fi)
  BY Zenon DEF Counted
<1>6. /\ Samples = (Sh \cup Er) \cup (Ca \cup Ok) /\ Sh \cap Er = {} /\ Ca \cap Ok = {}
      /\ (Sh \cup Er) \cap (Ca \cup Ok) = {}
  BY <1>2 DEF Sample, SampleOK
<1>7. Er = Pre \cup Post_ /\ Pre \cap Post_ = {}
  BY <1>2 DEF Sample, SampleOK
<1>8. Post_ \cup Ca \subseteq Fi /\ Post_ \cap Ca = {}
  BY <1>2 DEF Sample, SampleOK
<1>9. /\ Sh \subseteq Samples /\ Er \subseteq Samples /\ Ca \subseteq Samples
      /\ Ok \subseteq Samples /\ Pre \subseteq Samples /\ Post_ \subseteq Samples /\ Fi \subseteq Samples
  OBVIOUS
<1>10. Over(Samples) BY DEF BenchInv, PhasesAreOver, Samples, Over
<1>11. \A r \in Samples : sent[r].failure = "pre_stream" => ~sent[r].first
  BY <1>2 DEF SampleOK
<1> HIDE DEF Sh, Er, Ca, Ok, Pre, Post_, Fi
<1>12. attempted = shed + errors + cancelled + Counted(LAMBDA s : s.outcome = "ok")
  <2>1. /\ Cardinality(Sh \cup Er) = Cardinality(Sh) + Cardinality(Er)
        /\ Cardinality(Sh) \in Nat /\ Cardinality(Er) \in Nat
    BY <1>3, <1>6, <1>9, CountOfTwo, Zenon
  <2>2. /\ Cardinality(Ca \cup Ok) = Cardinality(Ca) + Cardinality(Ok)
        /\ Cardinality(Ca) \in Nat /\ Cardinality(Ok) \in Nat
    BY <1>3, <1>6, <1>9, CountOfTwo, Zenon
  <2>3. Sh \cup Er \subseteq Samples /\ Ca \cup Ok \subseteq Samples BY <1>9
  <2>4. Cardinality(Samples) = Cardinality(Sh \cup Er) + Cardinality(Ca \cup Ok)
    BY <1>3, <1>6, <2>3, CountOfTwo
  <2> QED BY <1>4, <1>5, <2>1, <2>2, <2>4 DEF attempted
<1>13. errors = pre_stream_failures + post_stream_failures
  BY <1>3, <1>4, <1>7, <1>9, CountOfTwo
<1>14. post_stream_failures + cancelled <= Counted(LAMBDA s : s.first)
  <2>1. Cardinality(Post_ \cup Ca) = Cardinality(Post_) + Cardinality(Ca)
    BY <1>3, <1>8, <1>9, CountOfTwo
  <2>2. Cardinality(Post_ \cup Ca) <= Cardinality(Fi)
    BY <1>3, <1>8, <1>9, FS_Subset
  <2> QED BY <1>4, <1>5, <2>1, <2>2
<1>15. SamplesAddUp BY <1>10, <1>11, <1>12, <1>13, <1>14 DEF SamplesAddUp
<1>16. DeltaIsMeasured
  <2> DEFINE taken == {r \in Samples : engine[r] # "none"}
             W == Warm \cap noted
             T == taken \cap noted
             U == taken \ noted
  <2>1. noted = W \cup T /\ W \cap T = {}
    BY <1>1, BenchAssumption DEF BenchInv, DeltaIsNoted, Samples, Specs
  <2>2. taken = T \cup U /\ T \cap U = {} OBVIOUS
  <2>3. W \subseteq Specs /\ T \subseteq Specs /\ U \subseteq Specs BY <1>1
  <2>4. snapshots.after = snapshots.before + Cardinality(noted)
    BY DEF BenchInv, DeltaIsNoted
  <2> HIDE DEF W, T, U, taken
  <2>5. /\ Cardinality(noted) = Cardinality(W) + Cardinality(T)
        /\ Cardinality(W) \in Nat /\ Cardinality(T) \in Nat
    BY <1>3, <2>1, <2>3, CountOfTwo, Zenon
  <2>6. Cardinality(taken) = Cardinality(T) + Cardinality(U) /\ Cardinality(U) \in Nat
    BY <1>3, <2>2, <2>3, CountOfTwo, Zenon
  <2>7. snapshots.after + Cardinality(U) = snapshots.before + Cardinality(taken) + Cardinality(W)
    BY <1>1, <2>4, <2>5, <2>6
  <2> QED BY <2>7 DEF DeltaIsMeasured, U, W, taken
<1> QED BY <1>15, <1>16 DEF ReportIsMeasured

\* The report of a benchmark adds up, for any number of requests in each phase and any
\* concurrency: its samples are final and partition the requests, and its route delta
\* counts them up to what the engine recorded too late (bench/driver.py, bench/metrics.py).
THEOREM ReportMeasured == BenchSpec => []ReportIsMeasured
<1>1. BenchInit => BenchInv
  <2> SUFFICES ASSUME BenchInit PROVE BenchInv OBVIOUS
  <2>1. Queued \in Sample BY DEF Queued, Sample
  <2>2. SampleOK(Queued) BY DEF Queued, SampleOK
  <2> QED
    BY <2>1, <2>2 DEF BenchInit, BenchInv, BenchShape, QueuedIsUnknown, PhasesAreOver, DeltaIsNoted
<1>2. BenchInv /\ [BenchNext]_bench => BenchInv'
  <2> SUFFICES ASSUME BenchInv, [BenchNext]_bench PROVE BenchInv' OBVIOUS
  <2>1. CASE UNCHANGED bench
    BY <2>1 DEF bench, BenchInv, BenchShape, SampleOK, QueuedIsUnknown, PhasesAreOver, Over,
                DeltaIsNoted
  <2> QED BY <2>1, RequestStep, EngineStep, PhaseStep DEF BenchNext
<1> QED BY <1>1, <1>2, ReportFollows, PTL DEF BenchSpec
=============================================================================
