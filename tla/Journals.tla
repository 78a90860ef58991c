------------------------------- MODULE Journals -------------------------------
(***************************************************************************)
(* Two append-only tables: the hash-chained audit log (audit/log.py) and   *)
(* the persisted log records with their trimming (telemetry/logbuffer.py). *)
(*                                                                         *)
(* An audit row is the position of the row whose hash it commits to, 0 for *)
(* the genesis hash.  Operator requests record in threads, the command     *)
(* line in another process; reading the last hash and inserting are two    *)
(* transactions.                                                           *)
(***************************************************************************)
EXTENDS Naturals, Sequences

CONSTANTS
  Writer, MaxAudit,
  TrimEvery, MaxRows,  \* logbuffer: rows between two trims, rows kept
  MaxInserts, Idle

ASSUME JournalsAssumption ==
  /\ TrimEvery \in Nat \ {0} /\ MaxRows \in Nat /\ MaxAudit \in Nat /\ MaxInserts \in Nat
  /\ Idle \notin Nat

VARIABLES
  chain,       \* audit_events
  read,        \* the last hash each writer has read
  overlapped,  \* two writers have been between reading and inserting at once
  logged,      \* the number of log_events
  sinceTrim,   \* _since_trim
  inserts,     \* rows inserted so far, for the bound
  missed       \* restarts and failed trims since the last trim

audit == <<chain, read, overlapped>>
logs == <<logged, sinceTrim, inserts, missed>>
journals == <<audit, logs>>
-----------------------------------------------------------------------------
\* Fault: the first row's hash is read.
LastHashFirst == IF chain = <<>> THEN 0 ELSE 1

LastHash == Len(chain)

\* AuditLog.record up to the insert.
ReadHash(w) ==
  /\ read[w] = Idle /\ Len(chain) < MaxAudit
  /\ read' = [read EXCEPT ![w] = LastHash]
  /\ overlapped' = (overlapped \/ \E v \in Writer : read[v] # Idle)
  /\ UNCHANGED <<chain, logs>>

Insert(w) ==
  /\ read[w] # Idle /\ Len(chain) < MaxAudit
  /\ chain' = Append(chain, read[w]) /\ read' = [read EXCEPT ![w] = Idle]
  /\ UNCHANGED <<overlapped, logs>>

\* The insert fails, or the writer dies before it.
GiveUp(w) ==
  /\ read[w] # Idle /\ read' = [read EXCEPT ![w] = Idle]
  /\ UNCHANGED <<chain, overlapped, logs>>

Bad == {n \in 1..Len(chain) : chain[n] # n - 1}

\* AuditLog.verify: each row must commit to the row before it.
Verify == Bad = {}
-----------------------------------------------------------------------------
\* _write_row: the counter is changed inside the write transaction, so threads take
\* turns.  A failing trim undoes the insert, but not the reset of the counter.
Kept(n) == IF n > MaxRows THEN MaxRows ELSE n

Due == sinceTrim + 1 >= TrimEvery

WriteRow ==
  /\ inserts < MaxInserts /\ inserts' = inserts + 1
  /\ IF Due
       THEN /\ sinceTrim' = 0
            /\ \/ logged' = Kept(logged + 1) /\ missed' = 0
               \/ logged' = logged /\ missed' = missed + 1
       ELSE sinceTrim' = sinceTrim + 1 /\ logged' = logged + 1 /\ UNCHANGED missed
  /\ UNCHANGED audit

Restart ==
  /\ sinceTrim > 0 /\ sinceTrim' = 0 /\ missed' = missed + 1
  /\ UNCHANGED <<audit, logged, inserts>>
-----------------------------------------------------------------------------
JournalsInit ==
  /\ chain = <<>> /\ read = [w \in Writer |-> Idle] /\ overlapped = FALSE
  /\ logged = 0 /\ sinceTrim = 0 /\ inserts = 0 /\ missed = 0

JournalsNext ==
  \/ \E w \in Writer : ReadHash(w) \/ Insert(w) \/ GiveUp(w)
  \/ WriteRow \/ Restart
-----------------------------------------------------------------------------
\* An audit log nobody edited verifies, whatever its writers' interleaving, unless
\* two of them overlapped between reading the last hash and inserting (nothing
\* serialises AuditLog.record): then verify reports a row that was not tampered with.
UntouchedChainVerifies == Verify \/ overlapped

\* log_events holds at most max_rows and the rows of one trim period, plus another
\* period for each restart or failed trim since the last trim that succeeded.
LogRowsBounded == logged <= MaxRows + (TrimEvery - 1) * (missed + 1)

\* Both journals hold what they promise: the chain verifies and the table is bounded.
JournalsAreKept == UntouchedChainVerifies /\ LogRowsBounded
=============================================================================
