--------------------------------- MODULE Alerts ---------------------------------
(***************************************************************************)
(* The operator's alert view (telemetry/alerts.py, GET /alerts of          *)
(* api/monitoring_router.py): a list derived from signals recorded         *)
(* elsewhere, checked against what it should hold for all small inputs.    *)
(***************************************************************************)
EXTENDS Naturals, Sequences, FiniteSets

LOCAL INSTANCE SequencesExt

CONSTANTS
  Client,      \* the billing clients
  MaxRecent    \* bound on the recent threshold events

VARIABLE panel \* the alerts last computed, and from what

Alert(severity, kind, target) == [severity |-> severity, kind |-> kind, target |-> target]
ClientAlert(status, c) ==
  IF status[c] = "canceled" THEN <<Alert("critical", "client", c)>>
  ELSE IF status[c] = "suspended" THEN <<Alert("warning", "client", c)>> ELSE <<>>

\* Fault: threshold events are not reduced to one per client.
FirstPerClientAll(events) == events

\* The first event of each client, most recent first; an event without a client is left out.
FirstPerClient(events) ==
  LET First(n) == \A m \in 1..(n - 1) : events[m] # events[n]
      Keep == {n \in 1..Len(events) : First(n)} IN
  [i \in 1..Cardinality(Keep) |-> events[CHOOSE n \in Keep : Cardinality({m \in Keep : m <= n}) = i]]

\* compute_alerts: gathered part by part, then sorted by severity; the sort is stable.
ComputeAlerts(unhealthy, status, dead, events) ==
  LET Of(part, kind) == [i \in 1..Len(part) |-> Alert("warning", kind, part[i])]
      all == (IF unhealthy THEN <<Alert("critical", "backend", "backend")>> ELSE <<>>)
               \o FlattenSeq([i \in 1..Cardinality(Client) |-> ClientAlert(status, SetToSeq(Client)[i])])
               \o (IF dead > 0 THEN <<Alert("warning", "dead", "deliveries")>> ELSE <<>>)
               \o Of(FirstPerClient(events), "threshold") IN
  SelectSeq(all, LAMBDA a : a.severity = "critical") \o SelectSeq(all, LAMBDA a : a.severity = "warning")

\* GET /alerts, over the signals of the moment
ViewAlerts ==
  \E u \in BOOLEAN, st \in [Client -> {"active", "suspended", "canceled"}], d \in 0..1,
     e \in UNION {[1..n -> Client] : n \in 0..MaxRecent} :
    panel' = [unhealthy |-> u, status |-> st, dead |-> d, events |-> e,
              alerts |-> ComputeAlerts(u, st, d, e)]
-----------------------------------------------------------------------------
AlertsInit ==
  panel = [unhealthy |-> FALSE, status |-> [c \in Client |-> "active"], dead |-> 0, events |-> <<>>, alerts |-> <<>>]

AlertsNext == ViewAlerts
-----------------------------------------------------------------------------
Once(p) == IF p THEN 1 ELSE 0

\* The alert view lists every signal exactly once, the critical ones first.
AlertsComplete ==
  LET p == panel
      Index == 1..Len(p.alerts)
      Has(a) == Cardinality({i \in Index : p.alerts[i] = a}) IN
  /\ \A c \in Client :
       /\ Has(Alert("critical", "client", c)) = Once(p.status[c] = "canceled")
       /\ Has(Alert("warning", "client", c)) = Once(p.status[c] = "suspended")
       /\ Has(Alert("warning", "threshold", c)) = Once(\E i \in 1..Len(p.events) : p.events[i] = c)
  /\ \A i, j \in Index : p.alerts[i].severity = "warning" /\ p.alerts[j].severity = "critical" => j < i
=============================================================================
