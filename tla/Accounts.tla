-------------------------------- MODULE Accounts --------------------------------
(***************************************************************************)
(* Clients, their subscription and their keys (billing/store.py,           *)
(* billing/stripe.py, auth/keys.py, api/billing_router.py): the provider's *)
(* events arrive late, twice or out of order.  The webhook handler runs on *)
(* the event loop without suspending, one delivery at a time, but each of  *)
(* its writes is a transaction of its own: a crash can fall between any    *)
(* two, and so can the writes of the operator's requests, which run in     *)
(* threads.                                                                *)
(***************************************************************************)
EXTENDS Naturals, Sequences, FiniteSets

CONSTANTS
  Customer,   \* a customer has one client and one subscription
  Key,
  Plan,       \* the plans the operator has defined
  MaxEvents,  \* a bound on the events the provider issues
  None

ASSUME AccountsAssumption ==
  MaxEvents \in Nat /\ None \notin Customer \cup Plan

VARIABLES
  clients,    \* the status of a customer's client, None before it exists
  subs,       \* its subscription: plan and status
  keys,       \* api_keys: owner, status = 'revoked', revoked_at set
  ledger,     \* webhook_events: absent, received or processed
  issued,     \* the events of the provider, in the order it made them
  acked,      \* events the provider was answered with 200
  handler,    \* the delivery in process and its next step
  creating,   \* create_key_for_client between its two writes: the client
  emitted,    \* events mirrored to the account's own channels
  disclosed,  \* the client a key's token was handed out for
  applied,    \* events carried out to the end at least once
  cut,        \* events whose handling ended between recording and emission
  reordered,  \* customers for whom an older event was applied after a newer one
  late        \* keys attached to a client that was canceled already

provider == <<issued, acked>>
past == <<applied, cut, reordered, late>>
accounts == <<clients, subs, keys, ledger, provider, handler, creating, emitted,
              disclosed, past>>

Kinds == {"active", "past_due", "payment_failed", "deleted"}
EventIds == 1..MaxEvents
Revoked(k) == keys[k].revoked_at
Owned(c) == {k \in Key : keys[k] # None /\ keys[k].client = c}
-----------------------------------------------------------------------------
(* The provider and the receipt of an event                                *)

Issue(c, kind, plan) ==
  /\ Len(issued) < MaxEvents
  /\ plan # None => kind \in {"active", "past_due"}
  /\ issued' = Append(issued, [customer |-> c, kind |-> kind, plan |-> plan])
  /\ UNCHANGED <<clients, subs, keys, ledger, acked, handler, creating, emitted,
                 disclosed, past>>

\* Fault: an event that was seen before is handled again.
SeenNever(e) == FALSE

\* record_event_once finds the id.
Seen(e) == ledger[e] # "absent"

\* One delivery, of any event, any number of times.
Deliver(e) ==
  /\ handler = None /\ e <= Len(issued)
  /\ IF Seen(e)
       THEN acked' = acked \cup {e} /\ UNCHANGED <<ledger, handler>>
       ELSE /\ ledger' = [ledger EXCEPT ![e] = "received"]
            /\ handler' = [event |-> e, step |-> "look"] /\ UNCHANGED acked
  /\ UNCHANGED <<clients, subs, keys, issued, creating, emitted, disclosed, past>>
-----------------------------------------------------------------------------
(* handle_event                                                            *)

At(step) == handler # None /\ handler.step = step
Event == issued[handler.event]
Goto(step) == handler' = [handler EXCEPT !.step = step]
Upserts == Event.kind \in {"active", "past_due"}

\* The client is looked up by its external reference; only a subscription
\* creates one.
Look ==
  /\ At("look")
  /\ IF clients[Event.customer] = None
       THEN Goto(IF Upserts THEN "create" ELSE "mark")
       ELSE Goto(IF Event.kind = "payment_failed" THEN "status" ELSE "sub")
  /\ UNCHANGED <<clients, subs, keys, ledger, provider, creating, emitted, disclosed,
                 past>>

\* external_ref is unique: the insert fails if the operator was faster (Raise).
EnsureClient ==
  /\ At("create") /\ clients[Event.customer] = None
  /\ clients' = [clients EXCEPT ![Event.customer] = "active"] /\ Goto("sub")
  /\ UNCHANGED <<subs, keys, ledger, provider, creating, emitted, disclosed, past>>

\* upsert_subscription; a deletion keeps the plan, an unknown plan is None.
Subscribe ==
  LET old == subs[Event.customer]
      plan == IF Event.kind # "deleted" THEN Event.plan
              ELSE IF old = None THEN None ELSE old.plan IN
  /\ At("sub")
  /\ subs' = [subs EXCEPT ![Event.customer] = [plan |-> plan, status |-> Event.kind]]
  /\ Goto(IF Event.kind = "past_due" THEN "mark" ELSE "status")
  /\ UNCHANGED <<clients, keys, ledger, provider, creating, emitted, disclosed, past>>

StatusOf(kind) ==
  CASE kind = "active" -> "active" [] kind = "payment_failed" -> "suspended"
    [] kind = "deleted" -> "canceled"

SetStatus ==
  /\ At("status")
  /\ clients' = [clients EXCEPT ![Event.customer] = StatusOf(Event.kind)]
  /\ Goto(IF Event.kind = "deleted" THEN "revoke" ELSE "mark")
  /\ UNCHANGED <<subs, keys, ledger, provider, creating, emitted, disclosed, past>>

RevokedAll(c) ==
  [k \in Key |-> IF k \in Owned(c) /\ ~Revoked(k)
                   THEN [keys[k] EXCEPT !.revoked = TRUE, !.revoked_at = TRUE] ELSE keys[k]]

RevokeKeys ==
  /\ At("revoke") /\ keys' = RevokedAll(Event.customer) /\ Goto("mark")
  /\ UNCHANGED <<clients, subs, ledger, provider, creating, emitted, disclosed, past>>
-----------------------------------------------------------------------------
(* After handle_event                                                      *)

Newer(e) == {f \in applied : f > e /\ issued[f].customer = issued[e].customer}

\* mark_event_processed.
Mark ==
  /\ At("mark") /\ ledger' = [ledger EXCEPT ![handler.event] = "processed"]
  /\ Goto("emit") /\ applied' = applied \cup {handler.event}
  /\ reordered' = IF handler.event \in applied \/ Newer(handler.event) = {} THEN reordered
                  ELSE reordered \cup {Event.customer}
  /\ UNCHANGED <<clients, subs, keys, provider, creating, emitted, disclosed, cut, late>>

\* _emit_lifecycle, and the answer.
Emit ==
  /\ At("emit") /\ emitted' = emitted \cup {handler.event}
  /\ acked' = acked \cup {handler.event} /\ handler' = None
  /\ UNCHANGED <<clients, subs, keys, ledger, issued, creating, disclosed, past>>

\* forget_event.
Forgotten(e) == [ledger EXCEPT ![e] = "absent"]

\* A write of handle_event fails: the event is forgotten and the answer is 500.
\* The write that forgets it may fail too, and so may mark_event_processed.
Raise ==
  /\ handler # None /\ handler' = None
  /\ \/ ~At("mark") /\ ~At("emit") /\ ledger' = Forgotten(handler.event) /\ UNCHANGED cut
     \/ ~At("emit") /\ cut' = cut \cup {handler.event} /\ UNCHANGED ledger
  /\ UNCHANGED <<clients, subs, keys, provider, creating, emitted, disclosed, applied,
                 reordered, late>>

Crash ==
  /\ handler' = None /\ creating' = [k \in Key |-> None]
  /\ cut' = IF handler = None THEN cut ELSE cut \cup {handler.event}
  /\ UNCHANGED <<clients, subs, keys, ledger, provider, emitted, disclosed, applied,
                 reordered, late>>
-----------------------------------------------------------------------------
(* The operator's requests, each in a thread of its own                    *)

NewKey == [client |-> None, revoked |-> FALSE, revoked_at |-> FALSE]

CreateClient(c) ==
  /\ clients[c] = None /\ clients' = [clients EXCEPT ![c] = "active"]
  /\ UNCHANGED <<subs, keys, ledger, provider, handler, creating, emitted, disclosed,
                 past>>

\* create_key: a key of the operator.  create_key_for_client does the same first.
CreateKey(k, c) ==
  /\ keys[k] = None /\ disclosed[k] = None
  /\ c # None => clients[c] # None
  /\ keys' = [keys EXCEPT ![k] = NewKey] /\ creating' = [creating EXCEPT ![k] = c]
  /\ UNCHANGED <<clients, subs, ledger, provider, handler, emitted, disclosed, past>>

\* attach_key, and the answer with the token.
AttachKey(k) ==
  LET c == creating[k] IN
  /\ c # None /\ creating' = [creating EXCEPT ![k] = None]
  /\ keys' = IF keys[k] = None THEN keys ELSE [keys EXCEPT ![k].client = c]
  /\ disclosed' = [disclosed EXCEPT ![k] = c]
  /\ late' = IF clients[c] = "canceled" /\ ~(At("revoke") /\ Event.customer = c)
               THEN late \cup {k} ELSE late
  /\ UNCHANGED <<clients, subs, ledger, provider, handler, emitted, applied, cut, reordered>>

\* DELETE /admin/keys/{id}: the first call revokes, a call with purge deletes.
RevokeOrDelete(k) ==
  /\ keys[k] # None
  /\ keys' = [keys EXCEPT ![k] = IF Revoked(k) THEN None ELSE [@ EXCEPT !.revoked_at = TRUE]]
  /\ UNCHANGED <<clients, subs, ledger, provider, handler, creating, emitted, disclosed,
                 past>>
-----------------------------------------------------------------------------
(* What the gateway makes of a key                                         *)

Verified(k) == keys[k] # None /\ ~Revoked(k)

\* key_access, for a key that exists.
KeyAccess(k) ==
  IF keys[k].revoked THEN "revoked"
  ELSE IF keys[k].client # None /\ clients[keys[k].client] # "active" THEN "suspended"
  ELSE "active"

Role(k) == IF keys[k].client = None THEN "operator" ELSE "client"
Accepted(k) == Verified(k) /\ KeyAccess(k) = "active"
-----------------------------------------------------------------------------
AccountsInit ==
  /\ clients = [c \in Customer |-> None] /\ subs = [c \in Customer |-> None]
  /\ keys = [k \in Key |-> None] /\ ledger = [e \in EventIds |-> "absent"]
  /\ issued = <<>> /\ acked = {} /\ handler = None /\ creating = [k \in Key |-> None]
  /\ emitted = {} /\ disclosed = [k \in Key |-> None]
  /\ applied = {} /\ cut = {} /\ reordered = {} /\ late = {}

AccountsNext ==
  \/ \E c \in Customer, kind \in Kinds, plan \in Plan \cup {None} : Issue(c, kind, plan)
  \/ \E e \in EventIds : Deliver(e)
  \/ Look \/ EnsureClient \/ Subscribe \/ SetStatus \/ RevokeKeys \/ Mark \/ Emit
  \/ Raise \/ Crash
  \/ \E c \in Customer : CreateClient(c)
  \/ \E k \in Key : (\E c \in Customer \cup {None} : CreateKey(k, c))
                     \/ AttachKey(k) \/ RevokeOrDelete(k)
-----------------------------------------------------------------------------
\* An event the provider need not send again was carried out and mirrored, also when
\* its first deliveries failed half-way.  The exception is an event whose handling
\* ended between the ledger and the emission (a crash, or a write that failed while
\* the failure was handled): its redelivery counts as a duplicate.
AckedIsApplied == \A e \in acked : (e \in applied /\ e \in emitted) \/ e \in cut

EventsOf(c) == {e \in 1..Len(issued) : issued[e].customer = c}
Upserting(c) == {e \in EventsOf(c) : issued[e].kind \in {"active", "past_due"}}
Telling(c) == {e \in EventsOf(c) : issued[e].kind # "past_due"}
Last(S) == CHOOSE e \in S : \A f \in S : f <= e
Settled(c) == EventsOf(c) \subseteq acked /\ EventsOf(c) \cap cut = {} /\ c \notin reordered

\* Once every event of a customer is acknowledged, the client has the status of the
\* last event that sets one and the plan of the last event that names one, and its keys
\* are accepted only if that status lets them, through
\* duplicates, failures half-way and the operator's requests.  Two things break it:
\* events applied out of order (nothing compares their age), and a handling cut short.
AccountFollowsProvider ==
  \A c \in Customer : Settled(c) =>
    /\ Telling(c) # {} /\ (\E e \in Upserting(c) : e <= Last(Telling(c)))
         => LET status == StatusOf(issued[Last(Telling(c))].kind) IN
            clients[c] = status /\ \A k \in Owned(c) : Accepted(k) => status = "active"
    /\ Upserting(c) # {} => subs[c].plan = issued[Last(Upserting(c))].plan

CutShort(c) == \E e \in cut : issued[e].customer = c /\ issued[e].kind = "deleted"

\* The keys of a canceled client are revoked once its events are acknowledged, those
\* attached to it later excepted (create_key_for_client does not look at the status)
\* and those of a deletion cut short between the status and the keys.
CanceledKeysRevoked ==
  \A c \in Customer : clients[c] = "canceled" /\ EventsOf(c) \subseteq acked /\ ~CutShort(c)
    => \A k \in Owned(c) : Revoked(k) \/ k \in late

\* The token of a client's key, created in one transaction and attached in another,
\* is never in the client's hands while the key counts as the operator's.
TokenHasOwner ==
  \A k \in Key : disclosed[k] # None /\ Verified(k)
    => Role(k) = "client" /\ keys[k].client = disclosed[k]

\* The account is what the provider's events make it: each acknowledged event took
\* effect, status and plan are those of the last ones, a canceled client has no live keys,
\* and a key in the client's hands is the client's.
AccountIsRight == AckedIsApplied /\ AccountFollowsProvider /\ CanceledKeysRevoked /\ TokenHasOwner
=============================================================================
