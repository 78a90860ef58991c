---------------------------------- MODULE Quota ----------------------------------
(***************************************************************************)
(* Rate, concurrency and compute quotas of one client's keys (gateway.py,  *)
(* quota/): authorize_token reads the recorded usage, the request runs, and *)
(* finalize records what it used.  Between the two, other requests of the  *)
(* key are authorized against the same records.                            *)
(*                                                                         *)
(* Time is counted in minutes.  What a key may do (its client's status, its *)
(* plan) is decided in Accounts and changes here at any moment.            *)
(***************************************************************************)
EXTENDS Naturals, FiniteSets, FiniteSetsExt

CONSTANTS
  QKey, Request,
  Plans,          \* records: five (hours), week, rate; a rate of 0 is no limit
  Estimates,      \* the compute units a request is estimated at
  Slack,          \* how far a request may exceed its estimate
  MaxConcurrent, FiveHours, Week, MaxTime,
  ThresholdHalf,  \* twice the fraction of the weekly quota that is reported
  Nobody

ASSUME QuotaAssumption ==
  /\ Estimates \subseteq Nat \ {0} /\ Slack \in Nat /\ MaxConcurrent \in Nat \ {0}
  /\ FiveHours \in Nat /\ Week \in Nat \ {0} /\ MaxTime \in Nat
  /\ \A p \in Plans : p.five \in Nat \ {0} /\ p.week \in Nat \ {0} /\ p.rate \in Nat

VARIABLES
  now,
  plan,      \* the entitlement of the client's keys
  usage,     \* usage_events: units of each key recorded at each minute
  window,    \* Limiter._windows: minute and count of each key
  inflight,  \* Limiter._inflight
  request,   \* the requests in service: key and estimate
  present,   \* keys with a row in api_keys
  reported,  \* weeks for which the threshold event was emitted
  replanned  \* weeks in which the plan changed, or a key was deleted

quota == <<now, plan, usage, window, inflight, request, present, reported, replanned>>

Minutes == 0..MaxTime
WeekStart(t) == (t \div Week) * Week

SumCU(rows, since) == MapThenSumSet(LAMBDA t : rows[t], {t \in Minutes : t >= since})

FiveHourUsage(k) == SumCU(usage[k], IF now > FiveHours THEN now - FiveHours ELSE 0)
WeekUsage(k) == SumCU(usage[k], WeekStart(now))

\* client_usage_cu joins api_keys.
ClientUsage(rows) == MapThenSumSet(LAMBDA k : SumCU(rows[k], WeekStart(now)), present)

WouldExceed(used, more, limit) == limit > 0 /\ used + more > limit
-----------------------------------------------------------------------------
(* authorize_token                                                         *)

Count(k) == IF window[k].minute = now THEN window[k].count ELSE 0
RateAllows(k) == plan.rate = 0 \/ Count(k) < plan.rate

SlotFree(k) == inflight[k] < MaxConcurrent

\* Fault: only the weekly window is looked at.
QuotaAllowsWeekOnly(k, estimate) == ~WouldExceed(WeekUsage(k), estimate, plan.week)

QuotaAllows(k, estimate) ==
  /\ ~WouldExceed(WeekUsage(k), estimate, plan.week)
  /\ ~WouldExceed(FiveHourUsage(k), estimate, plan.five)

\* The whole of authorize_token runs without suspending.  A refusal for the rate
\* changes nothing, one for concurrency or quota has counted in the rate window.
Authorize(r, k, estimate) ==
  /\ request[r] = Nobody /\ k \in present /\ RateAllows(k)
  /\ window' = IF plan.rate = 0 THEN window
               ELSE [window EXCEPT ![k] = [minute |-> now, count |-> Count(k) + 1]]
  /\ IF SlotFree(k) /\ QuotaAllows(k, estimate)
       THEN /\ inflight' = [inflight EXCEPT ![k] = @ + 1]
            /\ request' = [request EXCEPT ![r] = [key |-> k, estimate |-> estimate]]
       ELSE UNCHANGED <<inflight, request>>
  /\ UNCHANGED <<now, plan, usage, present, reported, replanned>>
-----------------------------------------------------------------------------
(* finalize, abort                                                         *)

\* The usage-threshold hook: the client's usage over all of its keys.
Reached(k, rows) == 2 * ClientUsage(rows) >= ThresholdHalf * plan.week

Free(r) ==
  /\ inflight' = [inflight EXCEPT ![request[r].key] = @ - 1]
  /\ request' = [request EXCEPT ![r] = Nobody]

Finalize(r, used) ==
  LET k == request[r].key IN
  /\ request[r] # Nobody /\ used <= request[r].estimate + Slack
  /\ usage' = [usage EXCEPT ![k][now] = @ + used] /\ Free(r)
  /\ reported' = IF k \in present /\ plan.week > 0 /\ Reached(k, usage')
                   THEN reported \cup {WeekStart(now)} ELSE reported
  /\ UNCHANGED <<now, plan, window, present, replanned>>

\* abort, or a usage write that fails: the slot is returned, nothing is recorded.
Abort(r) ==
  /\ request[r] # Nobody /\ Free(r)
  /\ UNCHANGED <<now, plan, usage, window, present, reported, replanned>>
-----------------------------------------------------------------------------
(* The environment                                                         *)

Tick ==
  /\ now < MaxTime /\ now' = now + 1
  /\ UNCHANGED <<plan, usage, window, inflight, request, present, reported, replanned>>

\* upsert_plan, or a provider event moves the client to another plan.
Replan(p) ==
  /\ p # plan /\ plan' = p /\ replanned' = replanned \cup {WeekStart(now)}
  /\ UNCHANGED <<now, usage, window, inflight, request, present, reported>>

\* A revoked key is purged; its usage rows stay.
Purge(k) ==
  /\ k \in present /\ present' = present \ {k}
  /\ replanned' = replanned \cup {WeekStart(now)}
  /\ UNCHANGED <<now, plan, usage, window, inflight, request, reported>>

\* The limiter lives in memory, and requests die with the process.
QuotaCrash ==
  /\ request' = [r \in Request |-> Nobody] /\ inflight' = [k \in QKey |-> 0]
  /\ window' = [k \in QKey |-> [minute |-> 0, count |-> 0]]
  /\ UNCHANGED <<now, plan, usage, present, reported, replanned>>
-----------------------------------------------------------------------------
QuotaInit ==
  /\ now = 0 /\ plan \in Plans /\ usage = [k \in QKey |-> [t \in Minutes |-> 0]]
  /\ window = [k \in QKey |-> [minute |-> 0, count |-> 0]]
  /\ inflight = [k \in QKey |-> 0] /\ request = [r \in Request |-> Nobody]
  /\ present = QKey /\ reported = {} /\ replanned = {}

QuotaNext ==
  \/ \E r \in Request, k \in QKey, e \in Estimates : Authorize(r, k, e)
  \/ \E r \in Request, n \in 0..(Max(Estimates) + Slack) : Finalize(r, n)
  \/ \E r \in Request : Abort(r)
  \/ Tick \/ QuotaCrash
  \/ \E p \in Plans : Replan(p)
  \/ \E k \in QKey : Purge(k)
-----------------------------------------------------------------------------
LimitOver(f(_)) == Max({f(p) : p \in Plans})
Running(k) == Cardinality({r \in Request : request[r] # Nobody /\ request[r].key = k})

\* The check that precedes the record lets a window be overrun by the requests that
\* run at once, and by no more: whatever interleaving of authorizations, endings,
\* crashes, plan changes and window boundaries, what is recorded together with what
\* may still be recorded stays within the largest limit plus the concurrency limit.
OverrunBounded ==
  LET most == Max(Estimates) + Slack
      over == MaxConcurrent * most - Min(Estimates) IN
  \A k \in QKey :
    /\ FiveHourUsage(k) + Running(k) * most <= LimitOver(LAMBDA p : p.five) + over
    /\ WeekUsage(k) + Running(k) * most <= LimitOver(LAMBDA p : p.week) + over

\* A week in which the client used the reported share of its quota, over all of its
\* keys, has its threshold event, unless the plan changed or a key was deleted in
\* that week.
ThresholdReported ==
  plan.week > 0 /\ 2 * ClientUsage(usage) >= ThresholdHalf * plan.week
    => WeekStart(now) \in reported \cup replanned

\* The quota is kept up to the requests that run at once, and its threshold is reported,
\* over every interleaving of authorize_token and finalize.
QuotaIsKept == OverrunBounded /\ ThresholdReported
=============================================================================
