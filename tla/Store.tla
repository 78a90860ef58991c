--------------------------------- MODULE Store ---------------------------------
(***************************************************************************)
(* The records the engine keeps, what it measures and what a benchmark     *)
(* measures of it, side by side.  The parts share the database and the     *)
(* event loop but none of the state modelled here, so a behaviour moves    *)
(* one of them, the part in focus: this leaves out only interleavings of   *)
(* steps that commute.                                                     *)
(***************************************************************************)
EXTENDS Accounts, Quota, Journals, Archive, Feed, Telemetry, Alerts, Bench

VARIABLE focus

vars == <<focus, accounts, quota, journals, archive, feed, telemetry, panel, bench>>

Init ==
  /\ focus \in {"accounts", "quota", "journals", "archive", "feed", "telemetry", "alerts", "bench"}
  /\ AccountsInit /\ QuotaInit /\ JournalsInit /\ ArchiveInit /\ FeedInit /\ TelemetryInit
  /\ AlertsInit /\ BenchInit
  /\ focus # "quota" => plan = CHOOSE p \in Plans : TRUE
  /\ focus # "archive" => config = 0

Turn(part, A) ==
  /\ focus = part /\ A /\ UNCHANGED focus
  /\ part # "accounts" => UNCHANGED accounts
  /\ part # "quota" => UNCHANGED quota
  /\ part # "journals" => UNCHANGED journals
  /\ part # "archive" => UNCHANGED archive
  /\ part # "feed" => UNCHANGED feed
  /\ part # "telemetry" => UNCHANGED telemetry
  /\ part # "alerts" => UNCHANGED panel
  /\ part # "bench" => UNCHANGED bench

Next ==
  \/ Turn("accounts", AccountsNext) \/ Turn("quota", QuotaNext) \/ Turn("journals", JournalsNext)
  \/ Turn("archive", ArchiveNext) \/ Turn("feed", FeedNext)
  \/ Turn("telemetry", TelemetryNext) \/ Turn("alerts", AlertsNext) \/ Turn("bench", BenchNext)

Spec == Init /\ [][Next]_vars
=============================================================================
