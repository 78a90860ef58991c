-------------------------------- MODULE Archive --------------------------------
(***************************************************************************)
(* The database file between processes: migrations (store/migrations.py),   *)
(* backup and restore (backup.py), and the commands that run them (cli.py). *)
(* Two processes may migrate at once (the engine and "keys"); a restore is  *)
(* run with the engine stopped, as docs/deployment.md has it.               *)
(*                                                                         *)
(* SQLite is external: a transaction is atomic, and a process killed with  *)
(* an open connection leaves its committed pages in a write-ahead log that *)
(* the next connection applies to whatever database file it finds.         *)
(***************************************************************************)
EXTENDS Naturals, FiniteSets, FiniteSetsExt

CONSTANTS
  Versions,   \* the migrations, a set of numbers
  Runner,     \* processes that migrate and then write
  MaxWrites,  \* a bound on the writes
  Nil

ASSUME ArchiveAssumption == Versions \subseteq Nat /\ MaxWrites \in Nat /\ IsFiniteSet(Runner)

VARIABLES
  db,        \* schema: migrations in effect; tracked: recorded; data: content
  config,    \* the content of the config file
  wal,       \* committed content of a killed process, not yet in the file
  runner,    \* versions found applied at the start and done since, Nil if not running
  backup,    \* the archive: database, config, and whether a member was damaged
  copying,   \* create_backup between the database and the config file
  restore,   \* "config" between the two files of restore_backup, how the last one
             \* ended ("done", "failed", "cut"), "idle" once somebody worked on
  before     \* database and config when the last restore began

archive == <<db, config, wal, runner, backup, copying, restore, before>>

Empty == [schema |-> {}, tracked |-> {}, data |-> 0]
Torn == [schema |-> {}, tracked |-> {}, data |-> Nil]  \* a half-written file
Quiet == \A r \in Runner : runner[r] = Nil
-----------------------------------------------------------------------------
(* Migrations, and a process that writes once it has migrated              *)

\* What a connection finds: a log that was left behind is applied first.
Found == IF wal = Nil THEN db ELSE wal

\* applied_versions.
Open(r) ==
  /\ runner[r] = Nil /\ restore # "config" /\ Found # Torn
  /\ db' = Found /\ wal' = Nil /\ runner' = [runner EXCEPT ![r] = Found.tracked]
  /\ restore' = "idle" /\ UNCHANGED <<config, backup, copying, before>>

Pending(r) == Versions \ runner[r]

\* The version row is the primary key: inserting it twice fails.
Clashes(v) == v \in db.tracked

\* Fault: the script commits before its version is recorded, which may not happen.
AppliedUnrecorded(v) == {[db EXCEPT !.schema = @ \cup {v}]}

\* The script and its version row are one transaction.
Applied(v) == {[db EXCEPT !.schema = @ \cup {v}, !.tracked = @ \cup {v}]}

\* One migration: applied and recorded, or rolled back, which ends the runner.
Migrate(r) ==
  LET v == Min(Pending(r)) IN
  /\ runner[r] # Nil /\ Pending(r) # {}
  /\ \/ /\ ~Clashes(v) /\ db' \in Applied(v)
        /\ runner' = [runner EXCEPT ![r] = @ \cup {v}]
     \/ runner' = [runner EXCEPT ![r] = Nil] /\ UNCHANGED db
  /\ UNCHANGED <<config, wal, backup, copying, restore, before>>

Write(r) ==
  /\ runner[r] # Nil /\ Pending(r) = {} /\ db.data < MaxWrites
  /\ db' = [db EXCEPT !.data = @ + 1]
  /\ UNCHANGED <<config, wal, runner, backup, copying, restore, before>>

\* A process ends; killed, it may leave what it committed in the log only.
Exit(r) ==
  /\ runner[r] # Nil /\ runner' = [runner EXCEPT ![r] = Nil]
  /\ wal' \in {Nil} \cup (IF Cardinality({s \in Runner : runner[s] # Nil}) = 1 THEN {db} ELSE {})
  /\ UNCHANGED <<db, config, backup, copying, restore, before>>

EditConfig ==
  /\ config = 0 /\ restore # "config" /\ config' = 1 /\ restore' = "idle"
  /\ UNCHANGED <<db, wal, runner, backup, copying, before>>
-----------------------------------------------------------------------------
(* Backup and restore                                                      *)

\* The online copy, beside any number of writers.  Connecting applies a left log.
BackupDatabase ==
  /\ ~copying /\ copying' = TRUE /\ restore # "config" /\ Found # Torn
  /\ backup' = [db |-> Found, config |-> Nil, dbSound |-> TRUE, configSound |-> TRUE]
  /\ db' = Found /\ wal' = Nil /\ restore' = "idle"
  /\ UNCHANGED <<config, runner, before>>

BackupConfig ==
  /\ copying /\ copying' = FALSE /\ backup' = [backup EXCEPT !.config = config]
  /\ UNCHANGED <<db, config, wal, runner, restore, before>>

\* The archive is damaged where it is kept.
Damage ==
  /\ backup # Nil /\ ~copying /\ restore # "config"
  /\ \E m \in {"dbSound", "configSound"} :
       backup[m] /\ backup' = [backup EXCEPT ![m] = FALSE]
  /\ UNCHANGED <<db, config, wal, runner, copying, restore, before>>

\* Fault: the database is written before its checksum is compared.
RestoredUnchecked == backup.db

Restored == IF backup.dbSound THEN backup.db ELSE db

\* restore_backup --force up to the database file, which is overwritten in place.
RestoreDatabase ==
  /\ Quiet /\ backup # Nil /\ ~copying /\ restore # "config"
  /\ before' = [db |-> db, config |-> config]
  /\ \/ db' = Restored /\ restore' = IF backup.dbSound THEN "config" ELSE "failed"
     \/ backup.dbSound /\ db' = Torn /\ restore' = "cut"
  /\ UNCHANGED <<config, wal, runner, backup, copying>>

\* An archive without a config file leaves the present one alone.
RestoreConfig ==
  /\ restore = "config"
  /\ restore' = IF backup.config = Nil \/ backup.configSound THEN "done" ELSE "failed"
  /\ config' = IF backup.config # Nil /\ backup.configSound THEN backup.config ELSE config
  /\ UNCHANGED <<db, wal, runner, backup, copying, before>>

\* The command is killed between the two files.
RestoreKilled ==
  /\ restore = "config" /\ restore' = "cut"
  /\ UNCHANGED <<db, config, wal, runner, backup, copying, before>>
-----------------------------------------------------------------------------
ArchiveInit ==
  /\ db = Empty /\ config \in {Nil, 0} /\ wal = Nil /\ runner = [r \in Runner |-> Nil]
  /\ backup = Nil /\ copying = FALSE /\ restore = "idle"
  /\ before = [db |-> Empty, config |-> Nil]

ArchiveNext ==
  \/ \E r \in Runner : Open(r) \/ Migrate(r) \/ Write(r) \/ Exit(r)
  \/ EditConfig \/ BackupDatabase \/ BackupConfig \/ Damage
  \/ RestoreDatabase \/ RestoreConfig \/ RestoreKilled
-----------------------------------------------------------------------------
\* The migrations in effect are exactly the recorded ones and form a prefix, through
\* two processes that migrate at once, failures, kills, and restores of older files:
\* apply_migrations can always go on from what it finds.
SchemaIsTracked ==
  \A d \in {db} \cup (IF wal = Nil THEN {} ELSE {wal}) \cup (IF backup = Nil THEN {} ELSE {backup.db}) :
    /\ d.schema = d.tracked
    /\ \A v \in d.tracked, w \in Versions : w < v => w \in d.tracked

\* restore_backup replaces both files or neither: a finished one left the archive's
\* content (as the next connection finds it), a refused one what was there.  The
\* exceptions are a write-ahead log left by a killed process, which is applied to the
\* restored file, and a damaged config member, found after the database was replaced.
RestoreIsAllOrNothing ==
  /\ restore = "done" =>
       /\ Found = backup.db \/ wal # Nil
       /\ config = IF backup.config = Nil THEN before.config ELSE backup.config
  /\ restore = "failed" =>
       /\ db = before.db \/ ~backup.configSound
       /\ config = before.config
=============================================================================
