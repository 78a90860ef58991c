-------------------------------- MODULE Models --------------------------------
(***************************************************************************)
(* The model registry together with the backend that serves                *)
(* (api/models_router.py, the model operations of api/admin_router.py and   *)
(* the startup of main.py): a load builds a backend, awaits it and swaps it *)
(* in; an unload awaits the backend and drops it.  Both suspend, so loads  *)
(* of several models, unloads, deletions, downloads and crashes interleave. *)
(*                                                                         *)
(* A backend object is a position in "backends"; what happens inside one   *)
(* while it loads or unloads is the subject of Backend.                    *)
(***************************************************************************)
EXTENDS Downloads

CONSTANTS
  Configured,  \* settings.model_path, or Nothing
  MaxBackends  \* a bound on the backend objects of one process

ASSUME ModelsAssumption ==
  /\ Configured \in (Path \ Managed) \cup {Nothing} /\ MaxBackends \in Nat
  /\ Nothing \notin Nat \cup [new : Nat, previous : Nat \cup {Nothing}]

VARIABLES
  active,    \* the row with active = 1
  backends,  \* the backend objects: the row whose name each serves, and its state
  served,    \* app.state.backend, 0 if it is None
  loads,     \* for each model, the load that holds it: the new object, the previous
  unloads,   \* unload requests that wait for their backend: the object and the API
  orphans,   \* objects dropped by an unload, or replaced, while they were loading
  unflagged  \* the served model was loaded without the flag, or lost it to an
             \* unload of another model

swap == <<active, backends, served, loads, unloads, orphans, unflagged>>
models == <<downloads, swap>>

Loaded(k) == k # 0 /\ backends[k].state = "ready"
\* _is_loaded
IsLoaded(i) == active = i /\ Loaded(served) /\ backends[served].model = i
SetState(k, s) == backends' = [backends EXCEPT ![k].state = s]
NewBackend(i) == Append(backends, [model |-> i, state |-> "loading"])
-----------------------------------------------------------------------------
(* POST /admin/models/{id}/load                                            *)

LoadBegin(i) ==
  /\ proc = "up" /\ i \in Rows /\ rows[i].status = "ready" /\ ~Busy(i)
  /\ Len(backends) < MaxBackends
  /\ operations' = operations \cup {i}
  /\ backends' = NewBackend(i)
  /\ loads' = [loads EXCEPT ![i] = [new |-> Len(backends) + 1, previous |-> Nothing]]
  /\ UNCHANGED <<store, service, proc, active, served, unloads, orphans, unflagged>>

Release(i) == loads' = [loads EXCEPT ![i] = Nothing] /\ operations' = operations \ {i}

LoadFails(i) ==
  /\ loads[i] # Nothing /\ loads[i].previous = Nothing
  /\ SetState(loads[i].new, "unloaded") /\ Release(i)
  /\ UNCHANGED <<store, service, proc, active, served, unloads, orphans, unflagged>>

Replaced(k) == IF k # 0 /\ backends[k].state = "loading" THEN {k} ELSE {}

\* Fault: the backend that served before is forgotten.
LoadSwapForgets(i) ==
  /\ loads[i] # Nothing /\ loads[i].previous = Nothing
  /\ SetState(loads[i].new, "ready")
  /\ served' = loads[i].new /\ active' = i /\ unflagged' = FALSE /\ Release(i)
  /\ UNCHANGED <<store, service, proc, unloads, orphans>>

\* load() returned: the swap and set_active; then previous.unload() is awaited.
LoadSwap(i) ==
  /\ loads[i] # Nothing /\ loads[i].previous = Nothing
  /\ SetState(loads[i].new, "ready")
  /\ served' = loads[i].new /\ active' = i /\ unflagged' = FALSE
  /\ orphans' = orphans \cup Replaced(served)
  /\ IF served = 0
       THEN Release(i)
       ELSE loads' = [loads EXCEPT ![i].previous = served] /\ UNCHANGED operations
  /\ UNCHANGED <<store, service, proc, unloads>>

LoadEnds(i) ==
  /\ loads[i] # Nothing /\ loads[i].previous # Nothing
  /\ SetState(loads[i].previous, "unloaded") /\ Release(i)
  /\ UNCHANGED <<store, service, proc, active, served, unloads, orphans, unflagged>>
-----------------------------------------------------------------------------
(* POST /admin/models/{id}/unload, DELETE /admin/models/{id}               *)

\* A model that is not the loaded one: only the flag is unflagged.
UnloadOther(i) ==
  /\ proc = "up" /\ i \in Rows /\ ~IsLoaded(i)
  /\ active' = Nothing /\ unflagged' = (unflagged \/ Loaded(served))
  /\ UNCHANGED <<downloads, backends, served, loads, unloads, orphans>>

UnloadBegin(i) ==
  /\ proc = "up" /\ i \in Rows /\ IsLoaded(i) /\ [object |-> served, admin |-> FALSE] \notin unloads
  /\ unloads' = unloads \cup {[object |-> served, admin |-> FALSE]}
  /\ UNCHANGED <<downloads, active, backends, served, loads, orphans, unflagged>>

\* unload() returned: whatever serves by now is dropped, and the flag unflagged.
UnloadEnds(u) ==
  /\ ~u.admin
  /\ SetState(u.object, "unloaded") /\ unloads' = unloads \ {u}
  /\ served' = 0 /\ active' = Nothing /\ unflagged' = FALSE
  /\ orphans' = IF served \in {0, u.object} THEN orphans ELSE orphans \cup {served}
  /\ UNCHANGED <<downloads, loads>>

MayDelete(i) == ~IsLoaded(i)

DeleteModel(i) ==
  /\ MayDelete(i) /\ Delete(i)
  /\ active' = IF active = i /\ rows'[i] = Nothing THEN Nothing ELSE active
  /\ UNCHANGED <<backends, served, loads, unloads, orphans, unflagged>>
-----------------------------------------------------------------------------
(* POST /admin/model/load and /unload: the backend of the configured model *)

ConfiguredRow ==
  IF Configured # Nothing /\ RowsOf(Configured) # {}
    THEN CHOOSE i \in RowsOf(Configured) : TRUE ELSE Nothing

ConfiguredFile == Configured # Nothing /\ files[Configured] # Nothing

\* A new object serves before it is loaded; one that was unloaded loads again.
AdminLoad ==
  /\ proc = "up" /\ Configured # Nothing /\ ~Loaded(served)
  /\ \/ /\ served = 0 /\ Len(backends) < MaxBackends
        /\ backends' = NewBackend(ConfiguredRow) /\ served' = Len(backends) + 1
     \/ /\ served # 0 /\ backends[served].state = "unloaded"
        /\ SetState(served, "loading") /\ UNCHANGED served
  /\ UNCHANGED <<downloads, active, loads, unloads, orphans, unflagged>>

AdminLoadEnds(k) ==
  /\ backends[k].state = "loading" /\ \A i \in Id : loads[i] # Nothing => loads[i].new # k \/ loads[i].previous # Nothing
  /\ \/ SetState(k, "unloaded") /\ UNCHANGED unflagged
     \/ /\ ConfiguredFile /\ SetState(k, "ready")
        /\ unflagged' = IF k = served THEN active # backends[k].model ELSE unflagged
  /\ UNCHANGED <<downloads, active, served, loads, unloads, orphans>>

AdminUnload ==
  /\ proc = "up" /\ Loaded(served) /\ [object |-> served, admin |-> TRUE] \notin unloads
  /\ unloads' = unloads \cup {[object |-> served, admin |-> TRUE]}
  /\ UNCHANGED <<downloads, active, backends, served, loads, orphans, unflagged>>

AdminUnloadEnds(u) ==
  /\ u.admin /\ SetState(u.object, "unloaded") /\ unloads' = unloads \ {u}
  /\ UNCHANGED <<downloads, active, served, loads, orphans, unflagged>>
-----------------------------------------------------------------------------
(* Start, stop                                                             *)

\* The startup of main.py after the migrations: reconcile, register_configured,
\* then build and load the configured model.
Start ==
  /\ proc = "starting" /\ proc' = "up" /\ unrecorded' = unrecorded \ Interrupted
  /\ IF ConfiguredFile /\ RowsOf(Configured) = {} /\ Fresh # {}
       THEN \E i \in Fresh :
              /\ rows' = [Reconciled EXCEPT ![i] = Row(Configured, "import", FALSE, "ready")]
              /\ used' = used \cup {i} /\ active' = i
       ELSE rows' = Reconciled /\ UNCHANGED <<used, active>>
  /\ \/ backends' = <<>> /\ served' = 0 /\ UNCHANGED unflagged
     \/ /\ ConfiguredFile /\ served' = 1
        /\ backends' = <<[model |-> ConfiguredRow', state |-> "ready"]>>
        /\ unflagged' = (active' # ConfiguredRow')
  /\ UNCHANGED <<files, parts, shared, kept, service, operations, loads, unloads,
                 orphans>>

\* A process that ends takes its backends with it.
Stop ==
  /\ ShutdownEnds \/ ProcessDies
  /\ backends' = <<>> /\ served' = 0 /\ unloads' = {} /\ orphans' = {}
  /\ loads' = [i \in Id |-> Nothing] /\ unflagged' = FALSE
  /\ UNCHANGED active
-----------------------------------------------------------------------------
ModelsInit ==
  /\ DownloadsInit /\ active = Nothing /\ backends = <<>> /\ served = 0
  /\ loads = [i \in Id |-> Nothing] /\ unloads = {} /\ orphans = {}
  /\ unflagged = FALSE

Downloaded(i) == DownloadStep(i) /\ UNCHANGED swap

ModelsNext ==
  \/ Start \/ Stop
  \/ Shutdown /\ UNCHANGED swap
  \/ \E p \in Path : (ImportBegin(p) \/ ImportEnd(p)) /\ UNCHANGED swap
  \/ \E i \in Id :
       \/ \E p \in Path, c \in BOOLEAN : StartDownload(i, p, c) /\ UNCHANGED swap
       \/ Downloaded(i)
       \/ (Cancel(i) \/ TearTask(i)) /\ UNCHANGED swap
       \/ LoadBegin(i) \/ LoadFails(i) \/ LoadSwap(i) \/ LoadEnds(i)
       \/ UnloadOther(i) \/ UnloadBegin(i) \/ DeleteModel(i)
  \/ \E u \in unloads : UnloadEnds(u) \/ AdminUnloadEnds(u)
  \/ AdminLoad \/ AdminUnload
  \/ \E k \in 1..Len(backends) : AdminLoadEnds(k)

-----------------------------------------------------------------------------
(* Properties                                                              *)

Listed(p) == files[p] # Nothing \/ parts[p] # Nothing => RowsOf(p) # {}

\* No step loses a file or partial file under models_dir to the registry: a row goes
\* on naming it, also after a crash in the middle of a download or of a deletion, so
\* that it can be listed and deleted (delete_model removes the files first).
FilesStayListed == [][\A p \in Managed : Listed(p) => Listed(p)']_models

\* A worker thread is always the thread of a task that _tasks holds and of a row
\* that exists: shutdown waits for it and delete_model refuses (is_busy), whatever
\* cancellations of the request, of the task and of the loop it went through.
WorkerIsOwned ==
  \A i \in Id : Alive(i) => task[i] = "running" /\ i \in Rows /\ proc # "starting"

\* While a thread writes a file nobody else writes, hashes or loads it: downloads,
\* imports and loads of one path exclude each other.
WriterIsAlone ==
  \A i \in Id : Alive(i) =>
    /\ rows[i].path \notin importing
    /\ \A j \in Rows \ {i} : rows[j].path = rows[i].path => ~Alive(j) /\ j \notin operations

\* A partial file is a prefix of the model at every moment, so resuming it after a
\* cancellation, a failure or a crash with a Range request is sound.
PartIsPrefix ==
  \A p \in Path : parts[p] # Nothing =>
    Len(parts[p]) <= Chunks /\ \A n \in 1..Len(parts[p]) : parts[p][n] = n

\* A row that says ready, of a download with an expected checksum, stands for the
\* whole file.  Two exceptions are reachable in the code: a path that an import gave
\* a second row, whose deletion removes the file of both, and a row that a failed
\* deletion left behind.
ReadyIsWhole ==
  \A i \in Rows :
    rows[i].status = "ready" /\ rows[i].source = "download" /\ rows[i].checked
      /\ rows[i].path \notin shared /\ i \notin kept
    => files[rows[i].path] = Whole

\* While the process serves, a row that says downloading has a task that will settle
\* it, except when the one attempt to record the end failed (_persist_terminal).
DownloadingIsOwned ==
  proc = "up" => \A i \in Interrupted : i \in Working \/ i \in unrecorded

\* Every backend that holds a loaded model is the one that serves, or a load or an
\* unload in flight is about to unload it; memory is lost only for a backend that
\* was dropped or replaced while another request was still loading it.
LoadedIsServed ==
  \A k \in 1..Len(backends) : Loaded(k) =>
    \/ k = served \/ k \in orphans
    \/ \E i \in Id : loads[i] # Nothing /\ loads[i].previous = k
    \/ \E u \in unloads : u.object = k

\* The active flag names the model that serves, through any interleaving of loads,
\* unloads, deletions and restarts; _is_loaded, and with it the refusal to delete a
\* loaded model, rests on it.  It fails only for a model that the admin endpoint or
\* the startup loaded without setting the flag, or whose flag was cleared by an
\* unload of a model that was not the loaded one.
ActiveTellsServed ==
  Loaded(served) /\ backends[served].model # Nothing
    => unflagged \/ active = backends[served].model

\* The commit point decides between a cancellation and the rename: an accepted
\* cancellation stays accepted and never ends in a ready row, a committed file is
\* never recorded as cancelled.
CancelDecides ==
  [][\A i \in Id : task[i] = "running" /\ proc' # "starting" =>
       /\ cancel[i] # "clear" => cancel'[i] = cancel[i] \/ task'[i] = "none"
       /\ rows'[i] # rows[i] =>
            rows'[i].status \in (IF cancel[i] = "committed" THEN {"ready", "error"}
                                 ELSE {"cancelled", "error"})]_models

\* What serves is known: the loaded backends, the one that serves and the active flag
\* agree through overlapping loads, unloads, deletions and restarts.
ServingAgrees == LoadedIsServed /\ ActiveTellsServed

\* A download belongs to somebody at every moment: its thread to a task, its file to
\* that thread alone, its row to a task that will settle it, also after a crash.
DownloadsAreOwned == WorkerIsOwned /\ WriterIsAlone /\ DownloadingIsOwned

\* Files are what they seem: a partial file is a prefix, and a row that says ready
\* stands for a whole one, through cancellations, failures and crashes.
FilesAreSound == PartIsPrefix /\ ReadyIsWhole
=============================================================================
