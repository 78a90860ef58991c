------------------------------- MODULE Downloads -------------------------------
(***************************************************************************)
(* Model files and their registry rows (models/service.py,                 *)
(* models/downloader.py, models/registry.py): downloads with cooperative   *)
(* cancellation and a commit point, imports in place, deletion, shutdown,  *)
(* and the reconciliation after a crash.                                   *)
(*                                                                         *)
(* A download is a task on the event loop that owns a worker thread.  Rows *)
(* and files survive a crash, tasks and threads do not.  The content of a  *)
(* file is the sequence of chunks written to it.                           *)
(***************************************************************************)
EXTENDS Naturals, Sequences, FiniteSets

CONSTANTS
  Id,        \* the row ids a behaviour can create; uuids are never reused
  Path,
  Managed,   \* the paths inside models_dir
  Chunks,    \* the number of chunks of a whole model
  Nothing

\* A row of the models table
Table == [path : Path, source : {"download", "import"}, checked : BOOLEAN,
          status : {"downloading", "ready", "cancelled", "error"}]

ASSUME DownloadsAssumption ==
  /\ Managed \subseteq Path /\ Chunks \in Nat \ {0} /\ Nothing \notin Id \cup Path \cup Table

VARIABLES
  rows,        \* the models table: Nothing, or path, source, checked, status
  files,       \* the content at each path, Nothing if there is no file
  parts,       \* the same for its .part file
  task,        \* _tasks
  worker,      \* the worker thread of the download, and how it ended
  body,        \* the next chunk the open response will carry
  cancel,      \* CancelEvent: clear, requested or committed
  importing,   \* _import_paths
  operations,  \* _operations: the models a load holds
  proc,        \* starting means that no process runs
  used,        \* ids created so far
  unrecorded,  \* downloads whose terminal state could not be written
  shared,      \* paths that an import gave a second row
  kept         \* rows that a delete left behind after it removed their file

store == <<rows, files, parts, used, unrecorded, shared, kept>>
service == <<task, worker, body, cancel, importing>>
downloads == <<store, service, operations, proc>>

Whole == [n \in 1..Chunks |-> n]
Rows == {i \in Id : rows[i] # Nothing}
RowsOf(p) == {i \in Rows : rows[i].path = p}
Working == {i \in Id : task[i] # "none"}
Downloading(p) == \E i \in Working : rows[i].path = p
Alive(i) == worker[i] \in {"connect", "read", "verify", "promote"}
Fresh == Id \ used

UpdateStatus(i, s) == rows' = [rows EXCEPT ![i].status = s]
Row(p, source, checked, s) ==
  [path |-> p, source |-> source, checked |-> checked, status |-> s]
Create(i, row) == rows' = [rows EXCEPT ![i] = row] /\ used' = used \cup {i}
-----------------------------------------------------------------------------
(* Import in place                                                         *)

\* import_local up to the hashing, which is awaited.
ImportBegin(p) ==
  /\ proc = "up" /\ p \notin importing /\ ~Downloading(p) /\ files[p] # Nothing
  /\ importing' = importing \cup {p}
  /\ UNCHANGED <<store, task, worker, body, cancel, operations, proc>>

\* The row is written, or hashing or the write failed.
ImportEnd(p) ==
  /\ proc # "starting" /\ p \in importing /\ importing' = importing \ {p}
  /\ \/ UNCHANGED store
     \/ \E i \in Fresh : /\ Create(i, Row(p, "import", FALSE, "ready"))
                         /\ shared' = IF RowsOf(p) = {} THEN shared ELSE shared \cup {p}
                         /\ UNCHANGED <<files, parts, unrecorded, kept>>
  /\ UNCHANGED <<task, worker, body, cancel, operations, proc>>
-----------------------------------------------------------------------------
(* Starting and running a download                                         *)

MayDownload(p) == p \notin importing /\ files[p] = Nothing /\ RowsOf(p) = {}

\* start_download; "checked": the operator gave the expected checksum.
StartDownload(i, p, checked) ==
  /\ proc = "up" /\ i \in Fresh /\ p \in Managed /\ MayDownload(p)
  /\ Create(i, Row(p, "download", checked, "downloading"))
  /\ task' = [task EXCEPT ![i] = "created"]
  /\ UNCHANGED <<files, parts, unrecorded, shared, kept, worker, body, cancel,
                 importing, operations, proc>>

\* The task runs for the first time and hands the download to a thread.
RunDownload(i) ==
  /\ task[i] = "created"
  /\ task' = [task EXCEPT ![i] = "running"]
  /\ worker' = [worker EXCEPT ![i] = "connect"]
  /\ UNCHANGED <<store, body, cancel, importing, operations, proc>>

AtStep(i, step) == task[i] = "running" /\ worker[i] = step
Goes(i, step) == worker' = [worker EXCEPT ![i] = step]
Stopped(i) == cancel[i] = "requested"
thread == <<rows, used, unrecorded, shared, kept, task, importing, operations, proc>>

\* A whole response: the partial file is removed and written from its start.
StartOver(p) == parts' = [parts EXCEPT ![p] = <<>>]

\* The request is answered: refused, with 416 for a stale range, with the rest
\* of the file (206) or with all of it (200).  _check comes after the answer.
Connect(i) ==
  LET p == rows[i].path
      resume == IF parts[p] = Nothing THEN 0 ELSE Len(parts[p]) IN
  /\ AtStep(i, "connect")
  /\ \/ Goes(i, "failed") /\ UNCHANGED <<parts, body>>
     \/ /\ resume > 0 /\ parts' = [parts EXCEPT ![p] = Nothing]
        /\ UNCHANGED <<worker, body>>
     \/ Stopped(i) /\ Goes(i, "cancelled") /\ UNCHANGED <<parts, body>>
     \/ /\ ~Stopped(i) /\ Goes(i, "read")
        /\ \/ StartOver(p) /\ body' = [body EXCEPT ![i] = 1]
           \/ /\ resume > 0 /\ body' = [body EXCEPT ![i] = resume + 1]
              /\ UNCHANGED parts
  /\ UNCHANGED <<thread, files, cancel>>

\* One read: an error, bytes, or the end, which a lost connection looks like
\* too.  What it returned is dropped if a cancellation arrived meanwhile.
Read(i) ==
  LET p == rows[i].path IN
  /\ AtStep(i, "read")
  /\ \/ Goes(i, "failed") /\ UNCHANGED <<parts, body>>
     \/ Stopped(i) /\ Goes(i, "cancelled") /\ UNCHANGED <<parts, body>>
     \/ /\ ~Stopped(i) /\ body[i] <= Chunks
        /\ parts' = [parts EXCEPT ![p] = Append(@, body[i])]
        /\ body' = [body EXCEPT ![i] = @ + 1] /\ UNCHANGED worker
     \/ ~Stopped(i) /\ Goes(i, "verify") /\ UNCHANGED <<parts, body>>
  /\ UNCHANGED <<thread, files, cancel>>

\* Fault: the checksum is not compared.
VerifyNever(i) ==
  /\ AtStep(i, "verify") /\ Goes(i, IF Stopped(i) THEN "cancelled" ELSE "promote")
  /\ UNCHANGED <<thread, files, parts, body, cancel>>

\* sha256_file and the comparison with the expected checksum.
VerifyFile(i) ==
  /\ AtStep(i, "verify")
  /\ Goes(i, IF Stopped(i) THEN "cancelled"
             ELSE IF rows[i].checked /\ parts[rows[i].path] # Whole THEN "failed"
             ELSE "promote")
  /\ UNCHANGED <<thread, files, parts, body, cancel>>

Rename(i) ==
  LET p == rows[i].path IN
  /\ files' = [files EXCEPT ![p] = parts[p]] /\ parts' = [parts EXCEPT ![p] = Nothing]
  /\ cancel' = [cancel EXCEPT ![i] = "committed"] /\ Goes(i, "promoted")

\* Fault: the cancellation was looked at before the lock, not under it.
PromoteUnlocked(i) == AtStep(i, "promote") /\ Rename(i) /\ UNCHANGED <<thread, body>>

\* _promote and CancelEvent.commit: the rename, unless a cancellation won.
Promote(i) ==
  /\ AtStep(i, "promote")
  /\ \/ ~Stopped(i) /\ Rename(i)
     \/ Stopped(i) /\ Goes(i, "cancelled") /\ UNCHANGED <<files, parts, cancel>>
     \/ ~Stopped(i) /\ Goes(i, "failed") /\ UNCHANGED <<files, parts, cancel>>
  /\ UNCHANGED <<thread, body>>

\* The task resumes after its thread: it probes a promoted file, writes the
\* terminal state (one attempt) and releases the download.
Settle(i) ==
  /\ task[i] = "running" /\ worker[i] \in {"promoted", "cancelled", "failed"}
  /\ \/ worker[i] = "promoted" /\ UpdateStatus(i, "ready") /\ UNCHANGED unrecorded
     \/ worker[i] = "cancelled" /\ UpdateStatus(i, "cancelled") /\ UNCHANGED unrecorded
     \/ worker[i] # "cancelled" /\ UpdateStatus(i, "error") /\ UNCHANGED unrecorded
     \/ unrecorded' = unrecorded \cup {i} /\ UNCHANGED rows
  /\ task' = [task EXCEPT ![i] = "none"] /\ Goes(i, "idle")
  /\ cancel' = [cancel EXCEPT ![i] = "clear"] /\ body' = [body EXCEPT ![i] = 1]
  /\ UNCHANGED <<files, parts, used, shared, kept, importing, operations, proc>>
-----------------------------------------------------------------------------
(* Cancellation, deletion                                                  *)

Requested(S) ==
  [i \in Id |-> IF i \in S /\ cancel[i] = "clear" THEN "requested" ELSE cancel[i]]

\* cancel_download and CancelEvent.request, when it is accepted.
Cancel(i) ==
  /\ proc = "up" /\ i \in Rows /\ rows[i].status = "downloading"
  /\ i \in Working /\ cancel[i] = "clear"
  /\ cancel' = Requested({i})
  /\ UNCHANGED <<store, task, worker, body, importing, operations, proc>>

Busy(i) == i \in Working \/ i \in operations \/ rows[i].path \in importing

\* Fault: the partial file is left behind.
DeleteKeepsPart(i) ==
  /\ proc = "up" /\ i \in Rows /\ ~Busy(i)
  /\ files' = [files EXCEPT ![rows[i].path] = Nothing]
  /\ rows' = [rows EXCEPT ![i] = Nothing]
  /\ UNCHANGED <<parts, used, unrecorded, shared, kept, service, operations, proc>>

\* delete_model: the managed files first, then the row.  The row stays if one of
\* the two fails, or the process dies between them.
Delete(i) ==
  LET p == rows[i].path
      unlinks == rows[i].source = "download" \/ p \in Managed IN
  /\ proc = "up" /\ i \in Rows /\ ~Busy(i)
  /\ files' = IF unlinks THEN [files EXCEPT ![p] = Nothing] ELSE files
  /\ \/ /\ parts' = IF unlinks THEN [parts EXCEPT ![p] = Nothing] ELSE parts
        /\ rows' = [rows EXCEPT ![i] = Nothing] /\ UNCHANGED kept
     \/ /\ unlinks /\ parts' \in {parts, [parts EXCEPT ![p] = Nothing]}
        /\ kept' = kept \cup {i} /\ UNCHANGED rows
  /\ UNCHANGED <<used, unrecorded, shared, service, operations, proc>>
-----------------------------------------------------------------------------
(* Shutdown, crash and restart                                             *)

\* shutdown asks every download to stop, and waits.
Shutdown ==
  /\ proc = "up" /\ proc' = "stopping" /\ cancel' = Requested(Working)
  /\ UNCHANGED <<store, task, worker, body, importing, operations>>

\* Fault: a cancelled task ends at once and leaves its thread behind.
TearTaskAbandons(i) ==
  /\ proc = "stopping" /\ task[i] = "running" /\ Alive(i)
  /\ task' = [task EXCEPT ![i] = "none"]
  /\ UNCHANGED <<store, worker, body, cancel, importing, operations, proc>>

\* The event loop cancels the task.  One that never ran ends without its
\* cleanup, one that runs asks its thread to stop and keeps waiting for it.
TearTask(i) ==
  /\ proc = "stopping"
  /\ \/ task[i] = "created" /\ task' = [task EXCEPT ![i] = "dead"] /\ UNCHANGED cancel
     \/ task[i] = "running" /\ Alive(i) /\ cancel' = Requested({i}) /\ UNCHANGED task
  /\ UNCHANGED <<store, worker, body, importing, operations, proc>>

\* No process is left; its tasks, threads and reservations are gone.
NoProcess ==
  /\ proc' = "starting" /\ task' = [i \in Id |-> "none"]
  /\ worker' = [i \in Id |-> "idle"] /\ body' = [i \in Id |-> 1]
  /\ cancel' = [i \in Id |-> "clear"] /\ importing' = {} /\ operations' = {}
  /\ UNCHANGED store

\* shutdown returns once no task is left; a task that never ran is released.
ShutdownEnds ==
  proc = "stopping" /\ (\A i \in Working : task[i] = "dead") /\ NoProcess

ProcessDies == proc # "starting" /\ NoProcess

Interrupted == {i \in Rows : rows[i].status = "downloading"}

Failed(S) == [i \in Id |-> IF i \in S THEN [rows[i] EXCEPT !.status = "error"] ELSE rows[i]]

\* reconcile_interrupted and mark_interrupted; no task of this process owns any.
Reconciled == Failed(Interrupted)
-----------------------------------------------------------------------------
\* The registry may be younger than models_dir (a restored or replaced database),
\* which then may hold a partial file that no row names.
DownloadsInit ==
  /\ rows = [i \in Id |-> Nothing]
  /\ parts \in [Path -> {Nothing} \cup {SubSeq(Whole, 1, n) : n \in 0..Chunks}]
  /\ \A p \in Path \ Managed : parts[p] = Nothing
  /\ \E there \in BOOLEAN :
       files = [p \in Path |-> IF p \in Managed \/ ~there THEN Nothing ELSE Whole]
  /\ task = [i \in Id |-> "none"] /\ worker = [i \in Id |-> "idle"]
  /\ body = [i \in Id |-> 1] /\ cancel = [i \in Id |-> "clear"]
  /\ importing = {} /\ operations = {} /\ proc = "starting"
  /\ used = {} /\ unrecorded = {} /\ shared = {} /\ kept = {}

DownloadStep(i) ==
  RunDownload(i) \/ Connect(i) \/ Read(i) \/ VerifyFile(i) \/ Promote(i) \/ Settle(i)
=============================================================================
