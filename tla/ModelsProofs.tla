----------------------------- MODULE ModelsProofs -----------------------------
(***************************************************************************)
(* What the model service promises, for any number of rows, paths, chunks  *)
(* and backends: downloads exclude whoever else could touch their file, a  *)
(* file is what its row says, and what serves is known.                    *)
(*                                                                         *)
(* The invariant has two halves.  FileInv is about rows, files, tasks and  *)
(* threads, and rests on one fact: a task is the only one with a row for   *)
(* its path.  SwapInv is about the backend objects and who holds them.     *)
(***************************************************************************)
EXTENDS Models, TLAPS

\* The limits, in seconds, of a leaf that names no prover.
USE SMTT(30), ZenonT(30)

ModelsSpec == ModelsInit /\ [][ModelsNext]_models
-----------------------------------------------------------------------------
(* Rows, files, tasks and threads                                          *)

Threads == {"idle", "connect", "read", "verify", "promote", "promoted", "cancelled", "failed"}

IsFile(f) == f = [p \in Path |-> f[p]]

StoreTypes ==
  /\ rows \in [Id -> Table \cup {Nothing}] /\ IsFile(files) /\ IsFile(parts)
  /\ used \subseteq Id /\ Rows \subseteq used
  /\ task \in [Id -> {"none", "created", "running", "dead"}] /\ worker \in [Id -> Threads]
  /\ body \in [Id -> Nat] /\ cancel \in [Id -> {"clear", "requested", "committed"}]
  /\ importing \subseteq Path /\ proc \in {"starting", "up", "stopping"}

\* A task works on a row that says so, and alone: no import and no other row has its path.
Owns(i) ==
  /\ i \in Rows /\ rows[i].status = "downloading" /\ rows[i].source = "download"
  /\ proc # "starting" /\ rows[i].path \notin importing
  /\ \A j \in Rows : rows[j].path = rows[i].path => j = i

TasksOwn ==
  /\ \A i \in Id : task[i] # "none" => Owns(i)
  /\ \A i \in Id : worker[i] # "idle" <=> task[i] = "running"
  /\ \A i \in Id : worker[i] = "promoted" <=> cancel[i] = "committed"
  /\ proc = "starting" => importing = {}

\* The second row of a path was an import's.
SecondIsShared == \A i, j \in Rows : i # j /\ rows[i].path = rows[j].path => rows[i].path \in shared

Prefix(s) == s \in Seq(Nat) /\ Len(s) <= Chunks /\ \A n \in 1..Len(s) : s[n] = n

PartsArePrefixes == \A p \in Path : parts[p] = Nothing \/ Prefix(parts[p])

\* What a thread writes goes on where the partial file ends; what it has checked is whole.
ThreadIsRight(i) ==
  /\ worker[i] = "read" => Prefix(parts[rows[i].path]) /\ body[i] = Len(parts[rows[i].path]) + 1
  /\ worker[i] = "promote" /\ rows[i].checked => parts[rows[i].path] = Whole
  /\ worker[i] = "promoted" /\ rows[i].checked => files[rows[i].path] = Whole

FileInv ==
  /\ StoreTypes /\ TasksOwn /\ SecondIsShared /\ PartsArePrefixes /\ (\A i \in Id : ThreadIsRight(i))
  /\ ReadyIsWhole /\ DownloadingIsOwned

\* A step of a thread: it changes its own state and the files of its own path, which
\* is no other thread's and no finished row's.
LEMMA ThreadStep ==
  ASSUME FileInv, NEW i \in Id, task[i] = "running", UNCHANGED thread,
         NEW p \in Path, p = rows[i].path,
         worker' \in [Id -> Threads], worker'[i] # "idle", \A j \in Id : j # i => worker'[j] = worker[j],
         body' \in [Id -> Nat], \A j \in Id : j # i => body'[j] = body[j],
         cancel' \in [Id -> {"clear", "requested", "committed"}],
         \A j \in Id : j # i => cancel'[j] = cancel[j],
         IsFile(parts'), \A q \in Path : q # p => parts'[q] = parts[q],
         IsFile(files'), \A q \in Path : q # p => files'[q] = files[q],
         worker'[i] = "promoted" <=> cancel'[i] = "committed",
         parts'[p] = Nothing \/ Prefix(parts'[p]), ThreadIsRight(i)'
  PROVE  FileInv'
<1>0. /\ StoreTypes /\ TasksOwn /\ SecondIsShared /\ PartsArePrefixes /\ (\A j \in Id : ThreadIsRight(j))
      /\ ReadyIsWhole /\ DownloadingIsOwned
      /\ UNCHANGED <<rows, used, unrecorded, shared, kept, task, importing, proc>>
  BY DEF FileInv, thread
<1>1. Rows' = Rows /\ Working' = Working /\ Interrupted' = Interrupted
  BY <1>0 DEF Rows, Working, Interrupted
<1>2. StoreTypes'
  BY <1>0, <1>1 DEF StoreTypes
<1>3. Owns(i) /\ \A j \in Id : Owns(j)' <=> Owns(j)
  BY <1>0, <1>1 DEF TasksOwn, Owns
<1>4. TasksOwn'
  BY <1>0, <1>3 DEF TasksOwn
<1>5. SecondIsShared' /\ DownloadingIsOwned'
  BY <1>0, <1>1 DEF SecondIsShared, DownloadingIsOwned
<1>6. PartsArePrefixes'
  BY <1>0 DEF PartsArePrefixes
<1>7. \A j \in Rows : rows[j] \in Table /\ rows[j].path \in Path
  BY <1>0 DEF Rows, StoreTypes, Table
<1>8. ReadyIsWhole'
  BY <1>0, <1>1, <1>3, <1>7 DEF ReadyIsWhole, Owns
<1>9. ASSUME NEW j \in Id PROVE ThreadIsRight(j)'
  <2>1. CASE j = i
    BY <2>1
  <2>2. CASE j # i /\ worker[j] = "idle"
    BY <2>2 DEF ThreadIsRight
  <2>3. CASE j # i /\ worker[j] # "idle"
    <3>1. j \in Rows /\ rows[j].path # p /\ rows[j].path \in Path
      BY <1>0, <1>3, <1>7, <2>3 DEF TasksOwn, Owns
    <3>2. /\ rows'[j] = rows[j] /\ worker'[j] = worker[j] /\ body'[j] = body[j]
          /\ parts'[rows[j].path] = parts[rows[j].path] /\ files'[rows[j].path] = files[rows[j].path]
      BY <1>0, <2>3, <3>1
    <3>3. ThreadIsRight(j)
      BY <1>0
    <3> QED BY <3>2, <3>3 DEF ThreadIsRight
  <2> QED BY <2>1, <2>2, <2>3
<1> QED BY <1>2, <1>4, <1>5, <1>6, <1>8, <1>9 DEF FileInv

\* What is known when a thread moves.
LEMMA ThreadFacts ==
  ASSUME FileInv, NEW i \in Id, task[i] = "running"
  PROVE  /\ i \in Rows /\ rows[i] \in Table /\ rows[i].path \in Path /\ rows[i].checked \in BOOLEAN
         /\ worker[i] # "idle" /\ (worker[i] = "promoted" <=> cancel[i] = "committed")
         /\ (parts[rows[i].path] = Nothing \/ Prefix(parts[rows[i].path])) /\ ThreadIsRight(i)
         /\ worker \in [Id -> Threads] /\ body \in [Id -> Nat]
         /\ cancel \in [Id -> {"clear", "requested", "committed"}]
         /\ IsFile(parts) /\ IsFile(files)
<1>1. i \in Rows /\ rows[i] \in Table
  BY DEF FileInv, TasksOwn, Owns, StoreTypes, Rows
<1>2. rows[i].path \in Path /\ rows[i].checked \in BOOLEAN
  BY <1>1 DEF Table
<1> QED BY <1>1, <1>2 DEF FileInv, TasksOwn, StoreTypes, PartsArePrefixes

\* The empty file and one more chunk.
LEMMA PrefixFacts ==
  /\ Prefix(<<>>) /\ Len(<<>>) = 0
  /\ \A s : Prefix(s) /\ Len(s) + 1 <= Chunks => /\ Prefix(Append(s, Len(s) + 1))
                                                 /\ Len(Append(s, Len(s) + 1)) = Len(s) + 1
<1>1. Prefix(<<>>) /\ Len(<<>>) = 0
  BY DownloadsAssumption DEF Prefix
<1>2. ASSUME NEW s, Prefix(s), Len(s) + 1 <= Chunks
      PROVE  Prefix(Append(s, Len(s) + 1)) /\ Len(Append(s, Len(s) + 1)) = Len(s) + 1
  <2>1. s \in Seq(Nat) /\ Len(s) \in Nat /\ Len(s) + 1 \in Nat
    BY <1>2 DEF Prefix
  <2>2. Append(s, Len(s) + 1) \in Seq(Nat) /\ Len(Append(s, Len(s) + 1)) = Len(s) + 1
    BY <2>1
  <2>3. \A n \in 1..(Len(s) + 1) : Append(s, Len(s) + 1)[n] = n
    <3> TAKE n \in 1..(Len(s) + 1)
    <3>1. CASE n = Len(s) + 1
      BY <2>1, <3>1
    <3>2. CASE n # Len(s) + 1
      <4>1. n \in 1..Len(s)
        BY <2>1, <3>2
      <4> QED BY <1>2, <2>1, <4>1 DEF Prefix
    <3> QED BY <3>1, <3>2
  <2> QED BY <1>2, <2>2, <2>3 DEF Prefix
<1> QED BY <1>1, <1>2

\* The response is answered.
LEMMA ConnectKeeps ==
  ASSUME FileInv, NEW i \in Id, Connect(i)
  PROVE  FileInv'
<1> DEFINE p == rows[i].path
           resume == IF parts[p] = Nothing THEN 0 ELSE Len(parts[p])
<1>0. task[i] = "running" /\ worker[i] = "connect" /\ UNCHANGED <<thread, files, cancel>>
  BY DEF Connect, AtStep
<1>1. /\ p \in Path /\ (parts[p] = Nothing \/ Prefix(parts[p])) /\ worker[i] # "promoted" /\ cancel[i] # "committed"
      /\ worker \in [Id -> Threads] /\ body \in [Id -> Nat]
      /\ cancel \in [Id -> {"clear", "requested", "committed"}]
      /\ IsFile(parts) /\ IsFile(files)
  BY <1>0, ThreadFacts
<1>2. rows'[i] = rows[i]
  BY <1>0 DEF thread
<1>3. CASE worker' = [worker EXCEPT ![i] = "failed"] /\ UNCHANGED <<parts, body>>
  BY <1>0, <1>1, <1>2, <1>3, ThreadStep, Zenon DEF Threads, ThreadIsRight, IsFile
<1>4. CASE parts' = [parts EXCEPT ![p] = Nothing] /\ UNCHANGED <<worker, body>>
  BY <1>0, <1>1, <1>2, <1>4, ThreadStep, Zenon DEF Threads, ThreadIsRight, IsFile
<1>5. CASE worker' = [worker EXCEPT ![i] = "cancelled"] /\ UNCHANGED <<parts, body>>
  BY <1>0, <1>1, <1>2, <1>5, ThreadStep, Zenon DEF Threads, ThreadIsRight, IsFile
<1>6. CASE /\ worker' = [worker EXCEPT ![i] = "read"]
           /\ parts' = [parts EXCEPT ![p] = <<>>] /\ body' = [body EXCEPT ![i] = 1]
  <2>1. parts'[p] = <<>> /\ body'[i] = 1 /\ worker'[i] = "read" /\ worker' \in [Id -> Threads] /\ body' \in [Id -> Nat]
    BY <1>1, <1>6 DEF Threads, IsFile
  <2>2. ThreadIsRight(i)'
    BY <1>2, <2>1, PrefixFacts DEF ThreadIsRight
  <2> QED BY <1>0, <1>1, <1>6, <2>1, <2>2, PrefixFacts, ThreadStep, Zenon DEF IsFile
<1>7. CASE /\ worker' = [worker EXCEPT ![i] = "read"] /\ resume > 0
           /\ body' = [body EXCEPT ![i] = resume + 1] /\ UNCHANGED parts
  <2>1. Prefix(parts[p]) /\ resume = Len(parts[p]) /\ resume \in Nat
    BY <1>1, <1>7 DEF Prefix
  <2>2. body'[i] = Len(parts[p]) + 1 /\ worker'[i] = "read" /\ worker' \in [Id -> Threads] /\ body' \in [Id -> Nat]
    BY <1>1, <1>7, <2>1 DEF Threads
  <2>3. ThreadIsRight(i)'
    BY <1>2, <1>7, <2>1, <2>2 DEF ThreadIsRight
  <2> QED BY <1>0, <1>1, <1>7, <2>1, <2>2, <2>3, ThreadStep
<1> QED BY <1>3, <1>4, <1>5, <1>6, <1>7 DEF Connect, Goes, StartOver

\* One read goes on where the partial file ends.
LEMMA ReadKeeps ==
  ASSUME FileInv, NEW i \in Id, Read(i)
  PROVE  FileInv'
<1> DEFINE p == rows[i].path
<1>0. task[i] = "running" /\ worker[i] = "read" /\ UNCHANGED <<thread, files, cancel>>
  BY DEF Read, AtStep
<1>1. /\ p \in Path /\ Prefix(parts[p]) /\ body[i] = Len(parts[p]) + 1 /\ cancel[i] # "committed"
      /\ worker \in [Id -> Threads] /\ body \in [Id -> Nat]
      /\ cancel \in [Id -> {"clear", "requested", "committed"}] /\ IsFile(parts) /\ IsFile(files)
  BY <1>0, ThreadFacts DEF ThreadIsRight
<1>2. rows'[i] = rows[i]
  BY <1>0 DEF thread
<1>3. CASE \E to \in {"failed", "cancelled", "verify"} :
             worker' = [worker EXCEPT ![i] = to] /\ UNCHANGED <<parts, body>>
  BY <1>0, <1>1, <1>2, <1>3, ThreadStep DEF Threads, ThreadIsRight
<1>4. CASE /\ body[i] <= Chunks /\ parts' = [parts EXCEPT ![p] = Append(@, body[i])]
           /\ body' = [body EXCEPT ![i] = @ + 1] /\ UNCHANGED worker
  <2>a. parts' = [parts EXCEPT ![p] = Append(parts[p], body[i])] /\ body' = [body EXCEPT ![i] = body[i] + 1]
    BY <1>4
  <2>b. /\ parts'[p] = Append(parts[p], Len(parts[p]) + 1) /\ IsFile(parts')
        /\ \A q \in Path : q # p => parts'[q] = parts[q]
    BY <1>1, <2>a, Zenon DEF IsFile
  <2>c. body'[i] = body[i] + 1 /\ body' \in [Id -> Nat] /\ \A j \in Id : j # i => body'[j] = body[j]
    BY <1>1, <2>a
  <2>1. /\ parts'[p] = Append(parts[p], Len(parts[p]) + 1) /\ body'[i] = body[i] + 1 /\ body' \in [Id -> Nat]
        /\ IsFile(parts') /\ \A q \in Path : q # p => parts'[q] = parts[q]
    BY <2>b, <2>c
  <2>2. Prefix(parts'[p]) /\ Len(parts'[p]) = Len(parts[p]) + 1
    BY <1>1, <1>4, <2>1, PrefixFacts, Zenon
  <2>3. ThreadIsRight(i)'
    BY <1>0, <1>1, <1>2, <1>4, <2>1, <2>2 DEF ThreadIsRight
  <2> QED BY <1>0, <1>1, <1>4, <2>1, <2>2, <2>3, ThreadStep, Zenon
<1> QED BY <1>3, <1>4 DEF Read, Goes

\* The partial file is compared with the checksum, and renamed if nobody cancelled.
LEMMA PromoteKeeps ==
  ASSUME FileInv, NEW i \in Id, VerifyFile(i) \/ Promote(i)
  PROVE  FileInv'
<1> DEFINE p == rows[i].path
<1>0. task[i] = "running" /\ worker[i] \in {"verify", "promote"} /\ UNCHANGED <<thread, body>>
  BY DEF VerifyFile, Promote, AtStep
<1>1. /\ p \in Path /\ (parts[p] = Nothing \/ Prefix(parts[p])) /\ cancel[i] # "committed" /\ rows[i].checked \in BOOLEAN
      /\ worker \in [Id -> Threads] /\ body \in [Id -> Nat] /\ ThreadIsRight(i)
      /\ cancel \in [Id -> {"clear", "requested", "committed"}] /\ IsFile(parts) /\ IsFile(files)
  BY <1>0, ThreadFacts
<1>2. rows'[i] = rows[i]
  BY <1>0 DEF thread
<1>3. CASE /\ \E to \in {"failed", "cancelled"} : worker' = [worker EXCEPT ![i] = to]
           /\ UNCHANGED <<files, parts, cancel>>
  BY <1>0, <1>1, <1>2, <1>3, ThreadStep DEF Threads, ThreadIsRight
<1>4. CASE VerifyFile(i) /\ worker' = [worker EXCEPT ![i] = "promote"]
  <2>1. UNCHANGED <<files, parts, cancel>> /\ worker'[i] = "promote" /\ worker' \in [Id -> Threads]
    BY <1>1, <1>4 DEF VerifyFile, Threads
  <2>2. rows[i].checked => parts[p] = Whole
    <3> SUFFICES ASSUME rows[i].checked, parts[p] # Whole PROVE FALSE
      OBVIOUS
    <3>1. worker'[i] \in {"cancelled", "failed"}
      BY <1>0, <1>1, <1>4 DEF VerifyFile, Goes
    <3> QED BY <2>1, <3>1
  <2>3. ThreadIsRight(i)'
    BY <1>2, <2>1, <2>2 DEF ThreadIsRight, Whole
  <2> QED BY <1>0, <1>1, <1>4, <2>1, <2>3, ThreadStep
<1>5. CASE Promote(i) /\ Rename(i)
  <2>1. /\ files' = [files EXCEPT ![p] = parts[p]] /\ parts' = [parts EXCEPT ![p] = Nothing]
        /\ cancel' = [cancel EXCEPT ![i] = "committed"] /\ worker' = [worker EXCEPT ![i] = "promoted"]
        /\ worker[i] = "promote"
    BY <1>5 DEF Rename, Goes, Promote, AtStep
  <2>2. /\ files'[p] = parts[p] /\ parts'[p] = Nothing /\ IsFile(files') /\ IsFile(parts')
        /\ (\A q \in Path : q # p => files'[q] = files[q]) /\ (\A q \in Path : q # p => parts'[q] = parts[q])
    BY <1>1, <2>1, Zenon DEF IsFile
  <2>3. /\ worker'[i] = "promoted" /\ cancel'[i] = "committed" /\ worker' \in [Id -> Threads]
        /\ cancel' \in [Id -> {"clear", "requested", "committed"}]
    BY <1>1, <2>1 DEF Threads
  <2>4. ThreadIsRight(i)'
    BY <1>1, <1>2, <2>1, <2>2, <2>3 DEF ThreadIsRight, Whole
  <2> QED BY <1>0, <1>1, <2>1, <2>2, <2>3, <2>4, ThreadStep, Zenon
<1>6. VerifyFile(i) => \/ /\ \E to \in {"failed", "cancelled"} : worker' = [worker EXCEPT ![i] = to]
                          /\ UNCHANGED <<files, parts, cancel>>
                       \/ worker' = [worker EXCEPT ![i] = "promote"]
  BY <1>1, Zenon DEF VerifyFile, Goes
<1> QED BY <1>3, <1>4, <1>5, <1>6 DEF Promote, Goes

\* A task is handed to its thread.
LEMMA RunKeeps ==
  ASSUME FileInv, NEW i \in Id, RunDownload(i)
  PROVE  FileInv'
<1>0. /\ StoreTypes /\ TasksOwn /\ SecondIsShared /\ PartsArePrefixes /\ (\A j \in Id : ThreadIsRight(j))
      /\ ReadyIsWhole /\ DownloadingIsOwned /\ task[i] = "created"
      /\ task' = [task EXCEPT ![i] = "running"] /\ worker' = [worker EXCEPT ![i] = "connect"]
      /\ UNCHANGED <<rows, files, parts, used, unrecorded, shared, kept, body, cancel, importing, proc>>
  BY DEF FileInv, RunDownload, store
<1>1. /\ \A j \in Id : task'[j] = IF j = i THEN "running" ELSE task[j]
      /\ \A j \in Id : worker'[j] = IF j = i THEN "connect" ELSE worker[j]
      /\ task' \in [Id -> {"none", "created", "running", "dead"}] /\ worker' \in [Id -> Threads]
  BY <1>0 DEF StoreTypes, Threads
<1>2. Rows' = Rows /\ Working' = Working /\ Interrupted' = Interrupted
  BY <1>0, <1>1 DEF Rows, Working, Interrupted
<1>3. StoreTypes'
  BY <1>0, <1>1, <1>2 DEF StoreTypes
<1>4. TasksOwn'
  <2>1. \A j \in Id : Owns(j)' <=> Owns(j)
    BY <1>0, <1>2 DEF Owns
  <2> QED BY <1>0, <1>1, <2>1 DEF TasksOwn
<1>5. SecondIsShared' /\ PartsArePrefixes' /\ ReadyIsWhole' /\ DownloadingIsOwned'
  BY <1>0, <1>2 DEF SecondIsShared, PartsArePrefixes, ReadyIsWhole, DownloadingIsOwned, Whole
<1>6. \A j \in Id : ThreadIsRight(j)'
  BY <1>0, <1>1 DEF ThreadIsRight, Whole
<1> QED BY <1>3, <1>4, <1>5, <1>6 DEF FileInv

\* The parts of the invariant, with the rows that exist named by what they are.
LEMMA FileFacts ==
  ASSUME FileInv
  PROVE  /\ StoreTypes /\ TasksOwn /\ SecondIsShared /\ PartsArePrefixes /\ (\A j \in Id : ThreadIsRight(j))
         /\ ReadyIsWhole /\ DownloadingIsOwned
         /\ \A j \in Rows : j \in Id /\ rows[j] # Nothing /\ rows[j] \in Table /\ rows[j].path \in Path
         /\ \A j \in Id : task[j] # "none" => Owns(j)
         /\ \A j \in Id : worker[j] # "idle" => Owns(j)
<1>1. \A j \in Rows : j \in Id /\ rows[j] # Nothing /\ rows[j] \in Table
  BY DEF FileInv, StoreTypes, Rows
<1>2. \A j \in Rows : rows[j].path \in Path
  BY <1>1 DEF Table
<1> QED BY <1>1, <1>2 DEF FileInv, TasksOwn

\* A row whose status is updated.
LEMMA StatusFacts ==
  ASSUME NEW r \in Table, NEW s \in {"downloading", "ready", "cancelled", "error"},
         NEW n, n = [r EXCEPT !.status = s]
  PROVE  /\ n \in Table /\ n # Nothing /\ n.path = r.path /\ n.source = r.source
         /\ n.checked = r.checked /\ n.status = s
<1>1. n = [path |-> r.path, source |-> r.source, checked |-> r.checked, status |-> s]
  BY DEF Table
<1>2. n \in Table
  BY <1>1 DEF Table
<1> QED BY <1>1, <1>2, DownloadsAssumption, Zenon

\* A thread stays right when its row keeps path and checksum, and its path the files.
LEMMA ThreadStays ==
  ASSUME NEW j \in Id, ThreadIsRight(j), worker'[j] = "idle" \/
           /\ worker'[j] = worker[j] /\ body'[j] = body[j]
           /\ rows'[j].path = rows[j].path /\ rows'[j].checked = rows[j].checked
           /\ parts'[rows[j].path] = parts[rows[j].path] /\ files'[rows[j].path] = files[rows[j].path]
  PROVE  ThreadIsRight(j)'
<1>1. CASE worker'[j] = "idle"
  BY <1>1 DEF ThreadIsRight
<1>2. CASE /\ worker'[j] = worker[j] /\ body'[j] = body[j]
           /\ rows'[j].path = rows[j].path /\ rows'[j].checked = rows[j].checked
           /\ parts'[rows[j].path] = parts[rows[j].path] /\ files'[rows[j].path] = files[rows[j].path]
  BY <1>2 DEF ThreadIsRight, Whole
<1> QED BY <1>1, <1>2

\* What a settling task writes: the status that its thread's end stands for, or nothing.
LEMMA SettledRows ==
  ASSUME FileInv, NEW i \in Id, Settle(i)
  PROVE  /\ rows' \in [Id -> Table \cup {Nothing}] /\ Rows' = Rows
         /\ \A j \in Rows : /\ rows'[j].path = rows[j].path /\ rows'[j].source = rows[j].source
                            /\ rows'[j].checked = rows[j].checked
         /\ \A j \in Id : j # i => rows'[j] = rows[j]
         /\ \/ UNCHANGED rows /\ unrecorded' = unrecorded \cup {i}
            \/ /\ UNCHANGED unrecorded
               /\ rows'[i].status \in IF worker[i] = "promoted" THEN {"ready", "error"} ELSE {"cancelled", "error"}
<1>1. i \in Rows /\ rows[i] \in Table /\ rows \in [Id -> Table \cup {Nothing}]
  BY FileFacts DEF Settle, Owns, StoreTypes
<1>2. CASE unrecorded' = unrecorded \cup {i} /\ UNCHANGED rows
  BY <1>1, <1>2 DEF Rows
<1>3. ASSUME NEW s \in {"ready", "cancelled", "error"},
             rows' = [rows EXCEPT ![i] = [rows[i] EXCEPT !.status = s]], UNCHANGED unrecorded,
             s \in IF worker[i] = "promoted" THEN {"ready", "error"} ELSE {"cancelled", "error"}
      PROVE  /\ rows' \in [Id -> Table \cup {Nothing}] /\ Rows' = Rows
             /\ \A j \in Rows : /\ rows'[j].path = rows[j].path /\ rows'[j].source = rows[j].source
                                /\ rows'[j].checked = rows[j].checked
             /\ (\A j \in Id : j # i => rows'[j] = rows[j]) /\ rows'[i].status = s
  <2> DEFINE r == rows[i]
  <2>1. r \in Table /\ s \in {"downloading", "ready", "cancelled", "error"} /\ rows'[i] = [r EXCEPT !.status = s]
    BY <1>1, <1>3
  <2> HIDE DEF r
  <2>2. /\ rows'[i] \in Table /\ rows'[i] # Nothing /\ rows'[i].path = r.path
        /\ rows'[i].source = r.source /\ rows'[i].checked = r.checked /\ rows'[i].status = s
    BY <2>1, StatusFacts
  <2>3. \A j \in Id : j # i => rows'[j] = rows[j]
    BY <1>1, <1>3
  <2>4. rows' \in [Id -> Table \cup {Nothing}]
    BY <1>1, <1>3, <2>2
  <2>5. Rows' = Rows
    BY <1>1, <2>2, <2>3 DEF Rows
  <2> QED BY <2>2, <2>3, <2>4, <2>5 DEF r, Rows
<1>4. \/ \E s \in {"ready", "cancelled", "error"} :
           /\ rows' = [rows EXCEPT ![i] = [rows[i] EXCEPT !.status = s]] /\ UNCHANGED unrecorded
           /\ s \in IF worker[i] = "promoted" THEN {"ready", "error"} ELSE {"cancelled", "error"}
      \/ unrecorded' = unrecorded \cup {i} /\ UNCHANGED rows
  BY DEF Settle, UpdateStatus
<1> QED BY <1>2, <1>3, <1>4

\* A task settles its row, or fails to, and is released.
LEMMA SettleKeeps ==
  ASSUME FileInv, NEW i \in Id, Settle(i)
  PROVE  FileInv'
<1> USE FileFacts
<1>0. /\ task[i] = "running" /\ worker[i] \in {"promoted", "cancelled", "failed"}
      /\ task' = [task EXCEPT ![i] = "none"] /\ worker' = [worker EXCEPT ![i] = "idle"]
      /\ cancel' = [cancel EXCEPT ![i] = "clear"] /\ body' = [body EXCEPT ![i] = 1]
      /\ UNCHANGED <<files, parts, used, shared, kept, importing, proc>>
  BY DEF Settle, Goes
<1>1. Owns(i) /\ i \in Rows /\ rows[i] \in Table
  BY <1>0 DEF Owns
<1>2. rows[i].status = "downloading"
  BY <1>1 DEF Owns
<1>3. /\ rows' \in [Id -> Table \cup {Nothing}] /\ Rows' = Rows
      /\ \A j \in Rows : /\ rows'[j].path = rows[j].path /\ rows'[j].source = rows[j].source
                         /\ rows'[j].checked = rows[j].checked
      /\ \A j \in Id : j # i => rows'[j] = rows[j]
      /\ rows'[i].status = "ready" => worker[i] = "promoted"
      /\ rows'[i].status = "downloading" => i \in unrecorded'
      /\ \A j \in unrecorded : j \in unrecorded'
  BY <1>2, SettledRows
<1>4. /\ \A j \in Id : task'[j] = IF j = i THEN "none" ELSE task[j]
      /\ \A j \in Id : worker'[j] = IF j = i THEN "idle" ELSE worker[j]
      /\ \A j \in Id : cancel'[j] = IF j = i THEN "clear" ELSE cancel[j]
      /\ \A j \in Id : j # i => body'[j] = body[j]
      /\ task' \in [Id -> {"none", "created", "running", "dead"}] /\ worker' \in [Id -> Threads]
      /\ body' \in [Id -> Nat] /\ cancel' \in [Id -> {"clear", "requested", "committed"}]
  BY <1>0 DEF StoreTypes, Threads
<1>5. StoreTypes'
  BY <1>0, <1>3, <1>4 DEF StoreTypes
<1>6. TasksOwn'
  <2>1. \A j \in Id : j # i /\ Owns(j) => Owns(j)'
    BY <1>0, <1>3 DEF Owns
  <2> QED BY <1>0, <1>4, <2>1 DEF TasksOwn
<1>7. SecondIsShared' /\ PartsArePrefixes'
  BY <1>0, <1>3 DEF SecondIsShared, PartsArePrefixes
<1>8. ReadyIsWhole'
  <2>1. worker[i] = "promoted" /\ rows[i].checked => files[rows[i].path] = Whole
    BY DEF ThreadIsRight
  <2> QED BY <1>0, <1>1, <1>3, <2>1 DEF ReadyIsWhole, Whole
<1>9. DownloadingIsOwned'
  BY <1>0, <1>1, <1>3, <1>4 DEF DownloadingIsOwned, Interrupted, Working, Rows
<1>10. ASSUME NEW j \in Id PROVE ThreadIsRight(j)'
  <2>1. worker'[j] = "idle" \/ (j # i /\ worker'[j] = worker[j])
    BY <1>4
  <2> QED BY <1>0, <1>3, <1>4, <2>1, ThreadStays
<1> QED BY <1>5, <1>6, <1>7, <1>8, <1>9, <1>10 DEF FileInv

\* What a request to stop does to the tasks and their cancellations.
LEMMA RequestKeeps ==
  ASSUME FileInv, UNCHANGED <<rows, files, parts, used, unrecorded, shared, kept, worker, body, importing>>,
         proc' = proc \/ (proc = "up" /\ proc' = "stopping"),
         task' \in [Id -> {"none", "created", "running", "dead"}],
         \A j \in Id : task'[j] = task[j] \/ (task[j] = "created" /\ task'[j] = "dead"),
         cancel' \in [Id -> {"clear", "requested", "committed"}],
         \A j \in Id : cancel'[j] = cancel[j] \/ (cancel[j] = "clear" /\ cancel'[j] = "requested")
  PROVE  FileInv'
<1> USE FileFacts
<1>1. Rows' = Rows /\ Working' = Working /\ Interrupted' = Interrupted
  BY DEF Rows, Working, Interrupted
<1>2. StoreTypes'
  BY <1>1 DEF StoreTypes
<1>3. TasksOwn'
  <2>1. \A j \in Id : Owns(j) => Owns(j)'
    BY <1>1 DEF Owns
  <2> QED BY <2>1 DEF TasksOwn
<1>4. SecondIsShared' /\ PartsArePrefixes' /\ ReadyIsWhole' /\ DownloadingIsOwned'
  BY <1>1 DEF SecondIsShared, PartsArePrefixes, ReadyIsWhole, DownloadingIsOwned, Whole
<1>5. \A j \in Id : ThreadIsRight(j)'
  BY ThreadStays
<1> QED BY <1>2, <1>3, <1>4, <1>5 DEF FileInv

\* cancel_download, shutdown and the cancellation of a task are such requests.
LEMMA RequestsKeep ==
  ASSUME FileInv, Shutdown \/ \E i \in Id : Cancel(i) \/ TearTask(i)
  PROVE  FileInv'
<1>1. /\ UNCHANGED <<rows, files, parts, used, unrecorded, shared, kept, worker, body, importing>>
      /\ proc' = proc \/ (proc = "up" /\ proc' = "stopping")
  BY Zenon DEF Shutdown, Cancel, TearTask, store
<1>2. /\ task \in [Id -> {"none", "created", "running", "dead"}]
      /\ cancel \in [Id -> {"clear", "requested", "committed"}]
  BY FileFacts DEF StoreTypes
<1>3. /\ task' \in [Id -> {"none", "created", "running", "dead"}]
      /\ \A j \in Id : task'[j] = task[j] \/ (task[j] = "created" /\ task'[j] = "dead")
  BY <1>2, Zenon DEF Shutdown, Cancel, TearTask
<1>4. \A S : /\ Requested(S) \in [Id -> {"clear", "requested", "committed"}]
             /\ \A j \in Id : Requested(S)[j] = cancel[j] \/ (cancel[j] = "clear" /\ Requested(S)[j] = "requested")
  BY <1>2 DEF Requested
<1>5. cancel' = cancel \/ \E S : cancel' = Requested(S)
  BY Zenon DEF Shutdown, Cancel, TearTask
<1>6. /\ cancel' \in [Id -> {"clear", "requested", "committed"}]
      /\ \A j \in Id : cancel'[j] = cancel[j] \/ (cancel[j] = "clear" /\ cancel'[j] = "requested")
  BY <1>2, <1>4, <1>5
<1> QED BY <1>1, <1>3, <1>6, RequestKeeps, Zenon

\* The process ends.
LEMMA StopKeeps ==
  ASSUME FileInv, NoProcess
  PROVE  FileInv'
<1> USE FileFacts
<1>0. /\ UNCHANGED <<rows, files, parts, used, unrecorded, shared, kept>> /\ proc' = "starting" /\ importing' = {}
      /\ task' = [j \in Id |-> "none"] /\ worker' = [j \in Id |-> "idle"]
      /\ body' = [j \in Id |-> 1] /\ cancel' = [j \in Id |-> "clear"]
  BY DEF NoProcess, store
<1>1. Rows' = Rows
  BY <1>0 DEF Rows
<1>2. StoreTypes'
  BY <1>0, <1>1 DEF StoreTypes, Threads
<1>3. TasksOwn'
  BY <1>0 DEF TasksOwn
<1>4. SecondIsShared' /\ PartsArePrefixes' /\ ReadyIsWhole' /\ DownloadingIsOwned'
  BY <1>0, <1>1 DEF SecondIsShared, PartsArePrefixes, ReadyIsWhole, DownloadingIsOwned, Whole
<1>5. \A j \in Id : ThreadIsRight(j)'
  BY <1>0 DEF ThreadIsRight
<1> QED BY <1>2, <1>3, <1>4, <1>5 DEF FileInv

\* The loads and unloads leave rows, files and tasks alone.
LEMMA QuietKeeps ==
  ASSUME FileInv, UNCHANGED <<store, service, proc>>
  PROVE  FileInv'
<1>1. UNCHANGED <<rows, files, parts, used, unrecorded, shared, kept, task, worker, body, cancel, importing, proc>>
  BY DEF store, service
<1>2. /\ task \in [Id -> {"none", "created", "running", "dead"}]
      /\ cancel \in [Id -> {"clear", "requested", "committed"}]
  BY FileFacts DEF StoreTypes
<1> QED BY <1>1, <1>2, RequestKeeps

\* A new row: its id is fresh, and nobody works on its path.
LEMMA CreateKeeps ==
  ASSUME FileInv, NEW i \in Fresh, NEW r \in Table, rows' = [rows EXCEPT ![i] = r], used' = used \cup {i},
         \A j \in Id : Owns(j) => rows[j].path # r.path,
         shared \subseteq shared', RowsOf(r.path) = {} \/ r.path \in shared',
         r.source = "import" \/ r.status = "downloading",
         UNCHANGED <<files, parts, unrecorded, kept, worker, body, cancel>>,
         proc # "starting", UNCHANGED proc, importing' \subseteq importing,
         \/ r.status # "downloading" /\ UNCHANGED task
         \/ /\ r.status = "downloading" /\ r.source = "download" /\ RowsOf(r.path) = {} /\ r.path \notin importing
            /\ task' = [task EXCEPT ![i] = "created"]
  PROVE  FileInv'
<1> USE FileFacts
<1>1. i \in Id /\ i \notin Rows /\ i \notin used /\ task[i] = "none" /\ worker[i] = "idle" /\ r.path \in Path /\ r # Nothing
  BY DownloadsAssumption DEF Fresh, StoreTypes, TasksOwn, Owns, Table
<1>2. /\ rows' \in [Id -> Table \cup {Nothing}] /\ rows'[i] = r /\ Rows' = Rows \cup {i}
      /\ \A j \in Id : j # i => rows'[j] = rows[j]
  BY <1>1 DEF StoreTypes, Rows
<1>3. /\ task' \in [Id -> {"none", "created", "running", "dead"}]
      /\ \A j \in Id : j # i => task'[j] = task[j]
      /\ task'[i] = "none" \/ (task'[i] = "created" /\ r.status = "downloading" /\ r.source = "download"
                                /\ RowsOf(r.path) = {} /\ r.path \notin importing)
      /\ r.status = "downloading" => task'[i] # "none"
  BY <1>1 DEF StoreTypes
<1>4. StoreTypes'
  BY <1>1, <1>2, <1>3 DEF StoreTypes
<1>5. TasksOwn'
  <2>1. \A j \in Id : Owns(j) => Owns(j)'
    BY <1>1, <1>2 DEF Owns
  <2>2. task'[i] # "none" => Owns(i)'
    BY <1>1, <1>2, <1>3 DEF Owns, RowsOf
  <2> QED BY <1>1, <1>3, <2>1, <2>2 DEF TasksOwn
<1>6. SecondIsShared'
  BY <1>1, <1>2 DEF SecondIsShared, RowsOf
<1>7. PartsArePrefixes' /\ ReadyIsWhole'
  BY <1>1, <1>2 DEF PartsArePrefixes, ReadyIsWhole, Whole
<1>8. DownloadingIsOwned'
  BY <1>1, <1>2, <1>3, ZenonT(30) DEF DownloadingIsOwned, Interrupted, Working
<1>9. \A j \in Id : ThreadIsRight(j)'
  BY <1>1, <1>2, ThreadStays, Zenon
<1> QED BY <1>4, <1>5, <1>6, <1>7, <1>8, <1>9 DEF FileInv

\* A download starts, an import begins and ends.
LEMMA NewRowsKeep ==
  ASSUME FileInv, NEW p \in Path,
         \/ ImportBegin(p) \/ ImportEnd(p)
         \/ \E i \in Id, c \in BOOLEAN : StartDownload(i, p, c)
  PROVE  FileInv'
<1> USE FileFacts
<1>1. CASE \E i \in Id, c \in BOOLEAN : StartDownload(i, p, c)
  <2>1. PICK i \in Id, c \in BOOLEAN : StartDownload(i, p, c)
    BY <1>1
  <2> DEFINE r == Row(p, "download", c, "downloading")
  <2>2. /\ i \in Fresh /\ rows' = [rows EXCEPT ![i] = r] /\ used' = used \cup {i} /\ proc = "up"
        /\ p \notin importing /\ RowsOf(p) = {} /\ task' = [task EXCEPT ![i] = "created"]
        /\ UNCHANGED <<files, parts, unrecorded, shared, kept, worker, body, cancel, importing, proc>>
    BY <2>1 DEF StartDownload, Create, MayDownload
  <2>3. r \in Table /\ r.path = p /\ r.source = "download" /\ r.status = "downloading"
    BY DEF Row, Table
  <2>4. \A j \in Id : Owns(j) => rows[j].path # r.path
    BY <2>2, <2>3, ZenonT(30) DEF Owns, RowsOf
  <2> HIDE DEF r
  <2> QED BY <2>2, <2>3, <2>4, CreateKeeps, ZenonT(30)
<1>2. CASE ImportEnd(p) /\ rows' # rows
  <2> DEFINE r == Row(p, "import", FALSE, "ready")
  <2>1. PICK i \in Fresh : /\ Create(i, r) /\ shared' = IF RowsOf(p) = {} THEN shared ELSE shared \cup {p}
                           /\ UNCHANGED <<files, parts, unrecorded, kept>>
    BY <1>2, ZenonT(30) DEF ImportEnd, store
  <2>2. /\ rows' = [rows EXCEPT ![i] = r] /\ used' = used \cup {i} /\ proc # "starting" /\ p \in importing
        /\ importing' \subseteq importing /\ UNCHANGED <<task, worker, body, cancel, proc>>
    BY <1>2, <2>1 DEF ImportEnd, Create
  <2>3. r \in Table /\ r.path = p /\ r.source = "import" /\ r.status = "ready"
    BY DEF Row, Table
  <2>4. \A j \in Id : Owns(j) => rows[j].path # r.path
    BY <2>2, <2>3, Zenon DEF Owns
  <2>5. shared \subseteq shared' /\ (RowsOf(p) = {} \/ p \in shared')
    BY <2>1, Zenon
  <2> HIDE DEF r
  <2> QED BY <2>1, <2>2, <2>3, <2>4, <2>5, CreateKeeps, ZenonT(30)
<1>3. CASE ImportBegin(p) \/ (ImportEnd(p) /\ rows' = rows)
  <2>1. CASE UNCHANGED store
    <3>0. /\ UNCHANGED <<rows, files, parts, used, unrecorded, shared, kept, task, worker, body, cancel, proc>>
          /\ proc # "starting" /\ importing' \subseteq Path
          /\ importing' \subseteq importing \/ (importing' = importing \cup {p} /\ ~Downloading(p))
      BY <1>3, <2>1, ZenonT(30) DEF ImportBegin, ImportEnd, store, StoreTypes
    <3>1. Rows' = Rows /\ Working' = Working /\ Interrupted' = Interrupted
      BY <3>0, ZenonT(30) DEF Rows, Working, Interrupted
    <3>2. StoreTypes' /\ SecondIsShared' /\ PartsArePrefixes' /\ ReadyIsWhole' /\ DownloadingIsOwned'
      BY <3>0, <3>1, ZenonT(30) DEF StoreTypes, SecondIsShared, PartsArePrefixes, ReadyIsWhole, DownloadingIsOwned, Whole
    <3>3. \A j \in Id : task[j] # "none" => Owns(j)'
      BY <3>0, <3>1, Zenon DEF Owns, Downloading, Working
    <3>4. TasksOwn'
      BY <3>0, <3>3 DEF TasksOwn
    <3>5. \A j \in Id : ThreadIsRight(j)'
      BY <3>0, ThreadStays
    <3> QED BY <3>2, <3>4, <3>5 DEF FileInv
  <2>2. CASE ImportEnd(p) /\ rows' = rows /\ store' # store
    <3>1. PICK i \in Fresh : rows' = [rows EXCEPT ![i] = Row(p, "import", FALSE, "ready")]
      BY <2>2, Zenon DEF ImportEnd, Create
    <3>2. rows[i] = Nothing /\ rows \in [Id -> Table \cup {Nothing}] /\ i \in Id
      BY DEF Fresh, StoreTypes, Rows
    <3>3. rows'[i] = Row(p, "import", FALSE, "ready") /\ Row(p, "import", FALSE, "ready") \in Table
      BY <3>1, <3>2 DEF Row, Table
    <3> QED BY <2>2, <3>2, <3>3, DownloadsAssumption, Zenon
  <2> QED BY <1>3, <2>1, <2>2, Zenon DEF ImportBegin
<1> QED BY <1>1, <1>2, <1>3

\* A deletion, complete or interrupted.
LEMMA DeleteKeeps ==
  ASSUME FileInv, NEW i \in Id, Delete(i)
  PROVE  FileInv'
<1> DEFINE p == rows[i].path
           unlinks == rows[i].source = "download" \/ p \in Managed
<1> USE FileFacts
<1>0. /\ i \in Rows /\ p \in Path /\ task[i] = "none" /\ worker[i] = "idle"
      /\ UNCHANGED <<used, unrecorded, shared, task, worker, body, cancel, importing, proc>>
      /\ IsFile(files) /\ IsFile(parts) /\ rows \in [Id -> Table \cup {Nothing}]
  BY DEF Delete, Busy, Working, service, StoreTypes, TasksOwn
<1>1. /\ files' = IF unlinks THEN [files EXCEPT ![p] = Nothing] ELSE files
      /\ parts' = parts \/ parts' = [parts EXCEPT ![p] = Nothing]
      /\ \/ rows' = [rows EXCEPT ![i] = Nothing] /\ kept' = kept
         \/ rows' = rows /\ kept' = kept \cup {i}
  BY DEF Delete
<1>2. /\ IsFile(files') /\ IsFile(parts') /\ \A q \in Path : q # p => files'[q] = files[q] /\ parts'[q] = parts[q]
      /\ parts'[p] = parts[p] \/ parts'[p] = Nothing
  BY <1>0, <1>1, Zenon DEF IsFile
<1>3. /\ rows' \in [Id -> Table \cup {Nothing}] /\ Rows' \subseteq Rows /\ kept \subseteq kept'
      /\ \A j \in Rows' : rows'[j] = rows[j]
      /\ \A j \in Id : j # i => rows'[j] = rows[j]
      /\ i \in Rows' => i \in kept'
      /\ Rows \ {i} \subseteq Rows'
  BY <1>0, <1>1, Zenon DEF Rows
<1>4. StoreTypes'
  BY <1>0, <1>2, <1>3, Zenon DEF StoreTypes
<1>5. TasksOwn'
  <2>1. \A j \in Id : j # i /\ Owns(j) => Owns(j)'
    BY <1>0, <1>3 DEF Owns
  <2> QED BY <1>0, <2>1, Zenon DEF TasksOwn
<1>6. SecondIsShared'
  BY <1>0, <1>3, ZenonT(30) DEF SecondIsShared
<1>7. PartsArePrefixes'
  BY <1>0, <1>2, ZenonT(30) DEF PartsArePrefixes
<1>8. ReadyIsWhole'
  <2> SUFFICES ASSUME NEW j \in Rows', rows'[j].status = "ready", rows'[j].source = "download", rows'[j].checked,
                      rows'[j].path \notin shared', j \notin kept'
               PROVE  files'[rows'[j].path] = Whole'
    BY DEF ReadyIsWhole
  <2>1. j \in Rows /\ rows'[j] = rows[j] /\ j # i /\ j \notin kept /\ rows[j].path \notin shared
    BY <1>0, <1>3, Zenon
  <2>2. files[rows[j].path] = Whole /\ rows[j].path # p
    BY <1>0, <2>1 DEF ReadyIsWhole, SecondIsShared
  <2> QED BY <1>2, <2>1, <2>2, ZenonT(30) DEF Whole
<1>9. DownloadingIsOwned'
  BY <1>0, <1>3 DEF DownloadingIsOwned, Interrupted, Working
<1>10. ASSUME NEW j \in Id PROVE ThreadIsRight(j)'
  <2>1. CASE worker[j] = "idle"
    BY <1>0, <2>1, ThreadStays, ZenonT(30)
  <2>2. CASE worker[j] # "idle"
    <3>1. Owns(j) /\ j # i
      BY <1>0, <2>2
    <3>2. rows[j].path # p /\ rows[j].path \in Path /\ rows'[j] = rows[j]
      BY <1>0, <1>3, <3>1, Zenon DEF Owns
    <3> QED BY <1>0, <1>2, <3>2, ThreadStays, ZenonT(30)
  <2> QED BY <2>1, <2>2
<1> QED BY <1>4, <1>5, <1>6, <1>7, <1>8, <1>9, <1>10, Zenon DEF FileInv

\* The first state: partial files may be there, rows are not.
LEMMA FilesInitially ==
  ASSUME DownloadsInit
  PROVE  FileInv
<1>0. /\ rows = [i \in Id |-> Nothing] /\ task = [i \in Id |-> "none"] /\ worker = [i \in Id |-> "idle"]
      /\ body = [i \in Id |-> 1] /\ cancel = [i \in Id |-> "clear"] /\ importing = {} /\ proc = "starting"
      /\ used = {} /\ parts \in [Path -> {Nothing} \cup {SubSeq(Whole, 1, n) : n \in 0..Chunks}]
      /\ IsFile(files)
  BY DEF DownloadsInit, IsFile
<1>1. Rows = {}
  BY <1>0 DEF Rows
<1>2. StoreTypes
  BY <1>0, <1>1 DEF StoreTypes, Threads, IsFile
<1>3. TasksOwn /\ SecondIsShared /\ ReadyIsWhole /\ DownloadingIsOwned /\ \A i \in Id : ThreadIsRight(i)
  BY <1>0, <1>1 DEF TasksOwn, SecondIsShared, ReadyIsWhole, DownloadingIsOwned, ThreadIsRight
<1>4. \A n \in 0..Chunks : Prefix(SubSeq(Whole, 1, n))
  <2> TAKE n \in 0..Chunks
  <2>1. Whole \in Seq(Nat) /\ Len(Whole) = Chunks /\ Chunks \in Nat /\ \A m \in 1..Chunks : Whole[m] = m
    BY DownloadsAssumption DEF Whole
  <2>2. SubSeq(Whole, 1, n) = [m \in 1..n |-> m]
    BY <2>1
  <2> QED BY <2>1, <2>2 DEF Prefix
<1>5. PartsArePrefixes
  BY <1>0, <1>4, Zenon DEF PartsArePrefixes
<1> QED BY <1>2, <1>3, <1>5 DEF FileInv

\* What reconcile_interrupted makes of the rows: one that says downloading says error.
LEMMA ReconciledRows ==
  ASSUME FileInv
  PROVE  /\ Reconciled \in [Id -> Table \cup {Nothing}]
         /\ \A j \in Rows : /\ Reconciled[j] # Nothing /\ Reconciled[j].path = rows[j].path
                            /\ Reconciled[j].source = rows[j].source /\ Reconciled[j].checked = rows[j].checked
                            /\ Reconciled[j].status # "downloading"
                            /\ Reconciled[j].status = "ready" => rows[j].status = "ready"
         /\ \A j \in Id \ Rows : Reconciled[j] = Nothing
<1> USE FileFacts
<1>1. ASSUME NEW j \in Interrupted
      PROVE  /\ Reconciled[j] \in Table /\ Reconciled[j] # Nothing /\ Reconciled[j].path = rows[j].path
             /\ Reconciled[j].source = rows[j].source /\ Reconciled[j].checked = rows[j].checked
             /\ Reconciled[j].status = "error" /\ j \in Id
  <2>1. rows[j] \in Table /\ Reconciled[j] = [rows[j] EXCEPT !.status = "error"] /\ j \in Id
    BY DEF Interrupted, Reconciled, Failed
  <2> HIDE FileFacts
  <2>2. /\ Reconciled[j] \in Table /\ Reconciled[j] # Nothing /\ Reconciled[j].path = rows[j].path
        /\ Reconciled[j].source = rows[j].source /\ Reconciled[j].checked = rows[j].checked
        /\ Reconciled[j].status = "error"
    BY <2>1, StatusFacts
  <2> QED BY <2>1, <2>2
<1>2. \A j \in Id \ Interrupted : Reconciled[j] = rows[j]
  BY DEF Reconciled, Failed
<1>3. Reconciled = [j \in Id |-> Reconciled[j]]
  BY DEF Reconciled, Failed
<1>4. Reconciled \in [Id -> Table \cup {Nothing}]
  BY <1>1, <1>2, <1>3, ZenonT(30) DEF StoreTypes
<1>5. \A j \in Id \ Rows : j \notin Interrupted /\ rows[j] = Nothing
  BY DEF Interrupted, Rows
<1>6. \A j \in Rows \ Interrupted : rows[j].status # "downloading" /\ j \in Id /\ rows[j] # Nothing
  BY DEF Interrupted, Rows
<1> HIDE FileFacts
<1> QED BY <1>1, <1>2, <1>4, <1>5, <1>6

\* A start settles the rows that a process left behind; nobody works yet.
LEMMA StartKeeps ==
  ASSUME FileInv, Start
  PROVE  FileInv'
<1> USE FileFacts
<1>0. /\ proc = "starting" /\ proc' = "up"
      /\ UNCHANGED <<files, parts, shared, kept, task, worker, body, cancel, importing>>
      /\ \A j \in Id : task[j] = "none" /\ worker[j] = "idle"
  BY DEF Start, service, TasksOwn, Owns
<1>1. \/ rows' = Reconciled /\ used' = used
      \/ \E i \in Fresh : /\ rows' = [Reconciled EXCEPT ![i] = Row(Configured, "import", FALSE, "ready")]
                          /\ used' = used \cup {i} /\ RowsOf(Configured) = {} /\ Configured # Nothing
  BY ZenonT(30) DEF Start, ConfiguredFile
<1>2. /\ Reconciled \in [Id -> Table \cup {Nothing}]
      /\ \A j \in Rows : /\ Reconciled[j] # Nothing /\ Reconciled[j].path = rows[j].path
                         /\ Reconciled[j].source = rows[j].source /\ Reconciled[j].checked = rows[j].checked
                         /\ Reconciled[j].status # "downloading"
                         /\ Reconciled[j].status = "ready" => rows[j].status = "ready"
      /\ \A j \in Id \ Rows : Reconciled[j] = Nothing
  BY ReconciledRows, ZenonT(30)
<1>3. /\ rows' \in [Id -> Table \cup {Nothing}] /\ used' \subseteq Id /\ Rows' \subseteq used'
      /\ \A j \in Rows' : rows'[j].status # "downloading"
      /\ \A j \in Rows' : \/ /\ j \in Rows /\ rows'[j].path = rows[j].path /\ rows'[j].source = rows[j].source
                             /\ rows'[j].checked = rows[j].checked
                             /\ rows'[j].status = "ready" => rows[j].status = "ready"
                          \/ /\ rows'[j].path = Configured /\ rows'[j].source = "import"
                             /\ \A k \in Rows : k # j /\ rows[k].path # Configured
      /\ \A j, k \in Rows' : j \notin Rows /\ k \notin Rows => j = k
  <2>1. CASE rows' = Reconciled /\ used' = used
    <3>1. Rows' = Rows
      BY <1>2, <2>1, Zenon DEF Rows
    <3> QED BY <1>2, <2>1, <3>1, Zenon DEF StoreTypes
  <2>2. CASE rows' # Reconciled \/ used' # used
    <3>1. PICK i \in Fresh : /\ rows' = [Reconciled EXCEPT ![i] = Row(Configured, "import", FALSE, "ready")]
                             /\ used' = used \cup {i} /\ RowsOf(Configured) = {} /\ Configured # Nothing
      BY <1>1, <2>2, Zenon
    <3>2. i \in Id /\ i \notin Rows
      BY DEF Fresh, StoreTypes
    <3>3. /\ Row(Configured, "import", FALSE, "ready") \in Table
          /\ Row(Configured, "import", FALSE, "ready").path = Configured
          /\ Row(Configured, "import", FALSE, "ready").source = "import"
          /\ Row(Configured, "import", FALSE, "ready").status = "ready"
      BY <3>1, ModelsAssumption DEF Row, Table
    <3>4. /\ rows'[i] = Row(Configured, "import", FALSE, "ready") /\ rows' \in [Id -> Table \cup {Nothing}]
          /\ \A j \in Id : j # i => rows'[j] = Reconciled[j]
      BY <1>2, <3>1, <3>2, <3>3, Zenon
    <3>5. Rows' = Rows \cup {i}
      <4>1. rows'[i] # Nothing
        BY <3>3, <3>4, DownloadsAssumption, Zenon
      <4>2. \A j \in Id : rows'[j] # Nothing <=> j \in Rows \cup {i}
        BY <1>2, <3>2, <3>4, <4>1, ZenonT(30)
      <4> QED BY <3>2, <4>2 DEF Rows
    <3>6. \A k \in Rows : k # i /\ rows[k].path # Configured
      BY <3>1, <3>2 DEF RowsOf
    <3>7. used' \subseteq Id /\ Rows' \subseteq used'
      BY <3>1, <3>2, <3>5 DEF StoreTypes
    <3>8. rows'[i].path = Configured /\ rows'[i].source = "import" /\ rows'[i].status = "ready"
      BY <3>3, <3>4, Zenon
    <3>9. \A j \in Rows : j \in Id /\ rows'[j] = Reconciled[j]
      BY <3>2, <3>4
    <3> HIDE FileFacts
    <3>a. \A j \in Rows' : rows'[j].status # "downloading"
      BY <1>2, <3>5, <3>8, <3>9, ZenonT(30)
    <3>b. \A j \in Rows : /\ rows'[j].path = rows[j].path /\ rows'[j].source = rows[j].source
                          /\ rows'[j].checked = rows[j].checked
                          /\ rows'[j].status = "ready" => rows[j].status = "ready"
      BY <1>2, <3>9, Zenon
    <3>c. \A j \in Rows' : j \in Rows \/ j = i
      BY <3>5, Zenon
    <3>d. ASSUME NEW j \in Rows'
          PROVE  \/ /\ j \in Rows /\ rows'[j].path = rows[j].path /\ rows'[j].source = rows[j].source
                    /\ rows'[j].checked = rows[j].checked
                    /\ rows'[j].status = "ready" => rows[j].status = "ready"
                 \/ /\ rows'[j].path = Configured /\ rows'[j].source = "import"
                    /\ \A k \in Rows : k # j /\ rows[k].path # Configured
      <4>1. CASE j \in Rows
        BY <3>b, <4>1, Zenon
      <4>2. CASE j = i
        BY <3>6, <3>8, <4>2, Zenon
      <4> QED BY <3>c, <4>1, <4>2, Zenon
    <3>e. \A j, k \in Rows' : j \notin Rows /\ k \notin Rows => j = k
      BY <3>c, Zenon
    <3> QED BY <3>4, <3>7, <3>a, <3>d, <3>e, Zenon
  <2> QED BY <2>1, <2>2, Zenon
<1>4. StoreTypes'
  BY <1>0, <1>3 DEF StoreTypes
<1>5. TasksOwn'
  BY <1>0 DEF TasksOwn
<1>6. SecondIsShared'
  BY <1>0, <1>3 DEF SecondIsShared
<1>7. PartsArePrefixes' /\ ReadyIsWhole'
  BY <1>0, <1>3, ZenonT(30) DEF PartsArePrefixes, ReadyIsWhole, Whole
<1>8. DownloadingIsOwned'
  BY <1>3 DEF DownloadingIsOwned, Interrupted
<1>9. \A j \in Id : ThreadIsRight(j)'
  BY <1>0 DEF ThreadIsRight
<1> QED BY <1>4, <1>5, <1>6, <1>7, <1>8, <1>9, Zenon DEF FileInv

\* Every step of the registry keeps the invariant.
LEMMA FilesInductive ==
  ASSUME FileInv, [ModelsNext]_models
  PROVE  FileInv'
<1>1. CASE Start
  BY <1>1, StartKeeps
<1>2. CASE Stop
  BY <1>2, StopKeeps DEF Stop, ShutdownEnds, ProcessDies
<1>3. CASE Shutdown
  BY <1>3, RequestsKeep
<1>4. CASE \E p \in Path : \/ ImportBegin(p) \/ ImportEnd(p)
                           \/ \E i \in Id, c \in BOOLEAN : StartDownload(i, p, c)
  BY <1>4, NewRowsKeep
<1>5. ASSUME NEW i \in Id, DownloadStep(i) PROVE FileInv'
  BY <1>5, RunKeeps, ConnectKeeps, ReadKeeps, PromoteKeeps, SettleKeeps DEF DownloadStep
<1>6. ASSUME NEW i \in Id, Cancel(i) \/ TearTask(i) PROVE FileInv'
  BY <1>6, RequestsKeep
<1>7. ASSUME NEW i \in Id, DeleteModel(i) PROVE FileInv'
  BY <1>7, DeleteKeeps DEF DeleteModel
<1>8. CASE UNCHANGED <<store, service, proc>>
  BY <1>8, QuietKeeps
<1>9. CASE \/ \E i \in Id : \/ LoadBegin(i) \/ LoadFails(i) \/ LoadSwap(i) \/ LoadEnds(i)
                            \/ UnloadOther(i) \/ UnloadBegin(i)
           \/ \E u \in unloads : UnloadEnds(u) \/ AdminUnloadEnds(u)
           \/ AdminLoad \/ AdminUnload \/ \E k \in 1..Len(backends) : AdminLoadEnds(k)
  BY <1>8, <1>9 DEF LoadBegin, LoadFails, LoadSwap, LoadEnds, UnloadOther, UnloadBegin, UnloadEnds,
     AdminUnloadEnds, AdminLoad, AdminUnload, AdminLoadEnds, downloads
<1>10. CASE UNCHANGED models
  BY <1>8, <1>10 DEF models, downloads
<1> QED BY <1>1, <1>2, <1>3, <1>4, <1>5, <1>6, <1>7, <1>9, <1>10 DEF ModelsNext, Downloaded

\* FileInv holds in every state of the registry.
LEMMA FilesInvariant == ModelsSpec => []FileInv
<1>1. ModelsInit => FileInv
  BY FilesInitially DEF ModelsInit
<1>2. FileInv /\ [ModelsNext]_models => FileInv'
  BY FilesInductive
<1> QED BY <1>1, <1>2, PTL DEF ModelsSpec

\* A worker thread belongs to a task that _tasks holds and to a row; nobody else touches
\* its file; a row that says downloading has a task (ModelService, _run_download).
THEOREM DownloadsOwned == ModelsSpec => []DownloadsAreOwned
<1>1. ASSUME FileInv PROVE WorkerIsOwned
  <2>1. \A i \in Id : Alive(i) => worker[i] # "idle"
    BY DEF Alive
  <2> QED BY <1>1, <2>1, FileFacts, Zenon DEF WorkerIsOwned, TasksOwn, Owns
<1>2. ASSUME FileInv PROVE WriterIsAlone
  <2>1. \A i \in Id : Alive(i) => Owns(i)
    BY <1>2, FileFacts DEF Alive
  <2> QED BY <2>1, Zenon DEF WriterIsAlone, Owns
<1>3. FileInv => DownloadsAreOwned
  BY <1>1, <1>2, FileFacts DEF DownloadsAreOwned
<1> QED BY <1>3, FilesInvariant, PTL

\* A partial file is a prefix of the model, and a ready row stands for a whole file
\* (_download_sync, _promote, delete_model).
THEOREM FilesSound == ModelsSpec => []FilesAreSound
<1>1. FileInv => PartIsPrefix
  BY FileFacts DEF PartIsPrefix, PartsArePrefixes, Prefix
<1>2. FileInv => FilesAreSound
  BY <1>1, FileFacts DEF FilesAreSound
<1> QED BY <1>2, FilesInvariant, PTL

\* Apart from a deletion no step takes a row away or moves it, and the files that a step
\* touches are those of a row.
LEMMA RowsStay ==
  ASSUME FileInv, ModelsNext, \A i \in Id : ~DeleteModel(i)
  PROVE  /\ \A j \in Rows : j \in Rows' /\ rows'[j].path = rows[j].path
         /\ \A q \in Path : UNCHANGED <<files[q], parts[q]>> \/ \E j \in Rows : rows[j].path = q
<1> USE FileFacts
<1>1. CASE Start
  <2>1. UNCHANGED <<files, parts>>
    BY <1>1 DEF Start
  <2>2. \/ rows' = Reconciled
        \/ \E i \in Fresh : rows' = [Reconciled EXCEPT ![i] = Row(Configured, "import", FALSE, "ready")]
    BY <1>1, Zenon DEF Start
  <2>3. \A j \in Rows : j \notin Fresh /\ j \in Id
    BY DEF Fresh, StoreTypes
  <2>4. \A j \in Rows : rows'[j] = Reconciled[j]
    BY <2>2, <2>3, ReconciledRows, Zenon
  <2> QED BY <2>1, <2>3, <2>4, ReconciledRows, ZenonT(30) DEF Rows
<1>2. CASE UNCHANGED <<rows, files, parts>>
  BY <1>2, Zenon DEF Rows
<1>3. CASE \E p \in Path : \/ ImportEnd(p)
                           \/ \E i \in Id, c \in BOOLEAN : StartDownload(i, p, c)
  <2>0. rows \in [Id -> Table \cup {Nothing}]
    BY DEF StoreTypes
  <2>1. /\ UNCHANGED <<files, parts>>
        /\ UNCHANGED rows \/ \E i \in Fresh : \A j \in Id : j # i => rows'[j] = rows[j]
    <3>1. CASE \E p \in Path : ImportEnd(p)
      BY <2>0, <3>1, ZenonT(30) DEF ImportEnd, Create, store
    <3>2. CASE \E p \in Path, i \in Id, c \in BOOLEAN : StartDownload(i, p, c)
      BY <2>0, <3>2 DEF StartDownload, Create
    <3> QED BY <1>3, <3>1, <3>2
  <2>2. \A j \in Rows : j \notin Fresh /\ j \in Id
    BY DEF Fresh, StoreTypes
  <2>3. \A j \in Rows : rows'[j] = rows[j]
    BY <2>1, <2>2, Zenon
  <2> QED BY <2>1, <2>2, <2>3 DEF Rows
<1>4. ASSUME NEW i \in Id, Settle(i)
      PROVE  (\A j \in Rows : j \in Rows' /\ rows'[j].path = rows[j].path) /\ UNCHANGED <<files, parts>>
  BY <1>4, SettledRows, ZenonT(30) DEF Settle
<1>5. ASSUME NEW i \in Id, Connect(i) \/ Read(i) \/ VerifyFile(i) \/ Promote(i)
      PROVE  /\ UNCHANGED rows /\ i \in Rows
             /\ \A q \in Path : q # rows[i].path => UNCHANGED <<files[q], parts[q]>>
  <2>1. task[i] = "running" /\ UNCHANGED rows
    BY <1>5, ZenonT(30) DEF Connect, Read, VerifyFile, Promote, AtStep, thread
  <2>2. i \in Rows
    BY <2>1, Zenon DEF Owns
  <2>3. IsFile(files) /\ IsFile(parts)
    BY DEF StoreTypes
  <2>4. \A q \in Path : q # rows[i].path => files'[q] = files[q] /\ parts'[q] = parts[q]
    BY <1>5, <2>3, ZenonT(30) DEF Connect, Read, VerifyFile, Promote, Rename, StartOver, IsFile
  <2> QED BY <2>1, <2>2, <2>4, Zenon
<1>6. ASSUME NEW i \in Id, Connect(i) \/ Read(i) \/ VerifyFile(i) \/ Promote(i)
      PROVE  /\ \A j \in Rows : j \in Rows' /\ rows'[j].path = rows[j].path
             /\ \A q \in Path : UNCHANGED <<files[q], parts[q]>> \/ \E j \in Rows : rows[j].path = q
  BY <1>5, <1>6, ZenonT(30) DEF Rows
<1>7. CASE Stop \/ Shutdown \/ (\E p \in Path : ImportBegin(p)) \/ (\E i \in Id : RunDownload(i) \/ Cancel(i) \/ TearTask(i))
  BY <1>2, <1>7, ZenonT(30) DEF Stop, ShutdownEnds, ProcessDies, NoProcess, Shutdown, ImportBegin, RunDownload, Cancel, TearTask, store
<1>8. CASE \/ \E i \in Id : \/ LoadBegin(i) \/ LoadFails(i) \/ LoadSwap(i) \/ LoadEnds(i)
                            \/ UnloadOther(i) \/ UnloadBegin(i)
           \/ \E u \in unloads : UnloadEnds(u) \/ AdminUnloadEnds(u)
           \/ AdminLoad \/ AdminUnload \/ \E k \in 1..Len(backends) : AdminLoadEnds(k)
  BY <1>2, <1>8, ZenonT(30) DEF LoadBegin, LoadFails, LoadSwap, LoadEnds, UnloadOther, UnloadBegin, UnloadEnds,
     AdminUnloadEnds, AdminLoad, AdminUnload, AdminLoadEnds, downloads, store
<1>9. CASE \E i \in Id : Settle(i)
  BY <1>4, <1>9
<1> HIDE FileFacts
<1> QED BY <1>1, <1>3, <1>6, <1>7, <1>8, <1>9, ZenonT(30) DEF ModelsNext, Downloaded, DownloadStep

\* No step loses a file under models_dir to the registry (delete_model removes the files
\* before the row; a download's row is written before its file).
THEOREM FilesListed == ModelsSpec => FilesStayListed
<1>1. ASSUME FileInv, [ModelsNext]_models, NEW q \in Managed, Listed(q) PROVE Listed(q)'
  <2> USE FileFacts, <1>1
  <2>0. q \in Path
    BY DownloadsAssumption
  <2>1. CASE UNCHANGED models
    BY <2>1 DEF models, downloads, store, Listed, RowsOf, Rows
  <2>2. CASE ModelsNext /\ \A i \in Id : ~DeleteModel(i)
    <3>1. /\ \A j \in Rows : j \in Rows' /\ rows'[j].path = rows[j].path
          /\ UNCHANGED <<files[q], parts[q]>> \/ \E j \in Rows : rows[j].path = q
      BY <2>0, <2>2, RowsStay
    <3> QED BY <3>1, ZenonT(30) DEF Listed, RowsOf
  <2>3. ASSUME NEW i \in Id, DeleteModel(i) PROVE Listed(q)'
    <3> DEFINE p == rows[i].path
    <3>1. /\ i \in Rows /\ p \in Path /\ rows \in [Id -> Table \cup {Nothing}] /\ IsFile(files) /\ IsFile(parts)
      BY <2>3 DEF DeleteModel, Delete, StoreTypes
    <3>2. CASE p # q
      <4>1. /\ files'[q] = files[q] /\ parts'[q] = parts[q]
            /\ \A j \in Id : j # i => rows'[j] = rows[j]
        BY <2>0, <2>3, <3>1, <3>2 DEF DeleteModel, Delete, IsFile
      <4>2. \A j \in RowsOf(q) : j \in RowsOf(q)'
        BY <3>2, <4>1, ZenonT(30) DEF RowsOf, Rows
      <4> QED BY <4>1, <4>2, ZenonT(30) DEF Listed
    <3>3. CASE p = q /\ rows' = rows
      <4>1. i \in RowsOf(q)'
        BY <3>1, <3>3 DEF RowsOf, Rows
      <4> QED BY <4>1, Zenon DEF Listed
    <3>4. CASE p = q /\ rows' # rows
      <4>1. files' = [files EXCEPT ![p] = Nothing] /\ parts' = [parts EXCEPT ![p] = Nothing]
        BY <2>3, <3>4, Zenon DEF DeleteModel, Delete
      <4>2. files'[q] = Nothing /\ parts'[q] = Nothing
        BY <2>0, <3>1, <3>4, <4>1 DEF IsFile
      <4> QED BY <4>2 DEF Listed
    <3> QED BY <3>2, <3>3, <3>4
  <2> QED BY <2>1, <2>2, <2>3
<1>2. FileInv /\ [ModelsNext]_models => [\A p \in Managed : Listed(p) => Listed(p)']_models
  BY <1>1
<1> QED BY <1>2, FilesInvariant, PTL DEF ModelsSpec, FilesStayListed

\* The commit point decides between a cancellation and the rename (CancelEvent.request,
\* CancelEvent.commit, _run_download).
THEOREM CommitDecides == ModelsSpec => CancelDecides
<1> DEFINE Decides(i) == /\ cancel[i] # "clear" => cancel'[i] = cancel[i] \/ task'[i] = "none"
                         /\ rows'[i] # rows[i] =>
                              rows'[i].status \in (IF cancel[i] = "committed" THEN {"ready", "error"}
                                                   ELSE {"cancelled", "error"})
<1>1. ASSUME FileInv, ModelsNext, NEW i \in Id, task[i] = "running", proc' # "starting" PROVE Decides(i)
  <2> USE FileFacts, <1>1
  <2>0. /\ Owns(i) /\ i \in Rows /\ proc # "starting" /\ i \notin Fresh
        /\ (worker[i] = "promoted" <=> cancel[i] = "committed") /\ rows \in [Id -> Table \cup {Nothing}]
        /\ cancel \in [Id -> {"clear", "requested", "committed"}] /\ task \in [Id -> {"none", "created", "running", "dead"}]
    BY DEF Owns, TasksOwn, Fresh, StoreTypes
  <2>1. CASE UNCHANGED rows /\ cancel'[i] = cancel[i]
    BY <2>1, ZenonT(30)
  <2>2. CASE Shutdown \/ \E j \in Id : Cancel(j) \/ TearTask(j)
    BY <2>0, <2>2 DEF Shutdown, Cancel, TearTask, Requested, store
  <2>3. ASSUME NEW j \in Id, NEW p \in Path, NEW c \in BOOLEAN, StartDownload(j, p, c) PROVE Decides(i)
    <3>1. j # i /\ rows'[i] = rows[i] /\ UNCHANGED cancel
      BY <2>0, <2>3 DEF StartDownload, Create
    <3> QED BY <3>1, Zenon
  <2>4. ASSUME NEW p \in Path, ImportBegin(p) \/ ImportEnd(p) PROVE Decides(i)
    <3>1. rows'[i] = rows[i] /\ UNCHANGED cancel
      BY <2>0, <2>4, ZenonT(30) DEF ImportBegin, ImportEnd, Create, store
    <3> QED BY <3>1, ZenonT(30)
  <2>5. ASSUME NEW j \in Id, DeleteModel(j) PROVE Decides(i)
    <3>1. j # i /\ rows'[i] = rows[i] /\ UNCHANGED cancel
      BY <2>0, <2>5, ZenonT(30) DEF DeleteModel, Delete, Busy, Working, service
    <3> QED BY <3>1, ZenonT(30)
  <2>6. ASSUME NEW j \in Id, RunDownload(j) \/ Connect(j) \/ Read(j) \/ VerifyFile(j) PROVE Decides(i)
    <3>1. rows' = rows /\ UNCHANGED cancel
      BY <2>6, ZenonT(30) DEF RunDownload, Connect, Read, VerifyFile, thread, store
    <3> QED BY <3>1, ZenonT(30)
  <2>7. ASSUME NEW j \in Id, Promote(j) PROVE Decides(i)
    <3>1. rows' = rows /\ (UNCHANGED cancel \/ (cancel' = [cancel EXCEPT ![j] = "committed"] /\ cancel[j] # "requested"))
      BY <2>7, Zenon DEF Promote, Rename, Stopped, thread
    <3>2. i = j => cancel[i] # "committed"
      BY <2>0, <2>7, Zenon DEF Promote, AtStep
    <3> QED BY <2>0, <3>1, <3>2, ZenonT(30)
  <2>8. ASSUME NEW j \in Id, Settle(j) PROVE Decides(i)
    <3>1. CASE j # i
      <4>1. rows'[i] = rows[i] /\ cancel'[i] = cancel[i]
        BY <2>0, <2>8, <3>1, SettledRows, ZenonT(30) DEF Settle
      <4> QED BY <4>1, ZenonT(30)
    <3>2. CASE j = i
      <4>1. task'[i] = "none"
        BY <2>0, <2>8, <3>2 DEF Settle
      <4>2. rows'[i] = rows[i] \/ rows'[i].status \in IF worker[i] = "promoted" THEN {"ready", "error"} ELSE {"cancelled", "error"}
        BY <2>8, <3>2, SettledRows
      <4> QED BY <2>0, <4>1, <4>2, Zenon
    <3> QED BY <3>1, <3>2, Zenon
  <2>9. CASE \/ \E j \in Id : \/ LoadBegin(j) \/ LoadFails(j) \/ LoadSwap(j) \/ LoadEnds(j)
                              \/ UnloadOther(j) \/ UnloadBegin(j)
             \/ \E u \in unloads : UnloadEnds(u) \/ AdminUnloadEnds(u)
             \/ AdminLoad \/ AdminUnload \/ \E k \in 1..Len(backends) : AdminLoadEnds(k)
    BY <2>1, <2>9, ZenonT(30) DEF LoadBegin, LoadFails, LoadSwap, LoadEnds, UnloadOther, UnloadBegin, UnloadEnds,
       AdminUnloadEnds, AdminLoad, AdminUnload, AdminLoadEnds, downloads, store, service
  <2>10. ~Start /\ ~Stop
    BY <2>0, Zenon DEF Start, Stop, ShutdownEnds, ProcessDies, NoProcess
  <2> HIDE FileFacts DEF Decides
  <2> QED BY <2>2, <2>3, <2>4, <2>5, <2>6, <2>7, <2>8, <2>9, <2>10, Zenon DEF ModelsNext, Downloaded, DownloadStep
<1>2. FileInv /\ [ModelsNext]_models => [\A i \in Id : task[i] = "running" /\ proc' # "starting" => Decides(i)]_models
  BY <1>1, Zenon
<1> QED BY <1>2, FilesInvariant, PTL DEF ModelsSpec, CancelDecides
-----------------------------------------------------------------------------
(* Which backend serves.  SwapInv is about the backend objects of the      *)
(* model service and who holds them.                                       *)

Object == 1..Len(backends)
Load == [new : Nat, previous : Nat \cup {Nothing}]

SwapTypes ==
  /\ backends \in Seq([model : Id \cup {Nothing}, state : {"loading", "ready", "unloaded"}])
  /\ served \in 0..Len(backends) /\ loads \in [Id -> Load \cup {Nothing}]
  /\ \A u \in unloads : u.object \in Object
  /\ proc = "starting" => backends = <<>> /\ served = 0 /\ unloads = {} /\ \A i \in Id : loads[i] = Nothing

\* A load holds its model (_operations) and a backend object of that model.
LoadsAreHeld ==
  \A i \in Id : loads[i] # Nothing =>
    /\ loads[i].new \in Object /\ loads[i].previous \in Object \cup {Nothing}
    /\ backends[loads[i].new].model = i /\ i \in operations

\* An object that loads is the one that serves, was dropped meanwhile, or a request loads it.
LoadingIsKnown ==
  \A k \in Object : backends[k].state = "loading" =>
    \/ k = served \/ k \in orphans
    \/ \E i \in Id : loads[i] # Nothing /\ loads[i].new = k /\ loads[i].previous = Nothing

SwapInv == SwapTypes /\ LoadsAreHeld /\ LoadingIsKnown /\ LoadedIsServed /\ ActiveTellsServed

\* One object changes its state, the others and all names stay.
LEMMA StateFacts ==
  ASSUME SwapTypes, NEW k \in Object, NEW s \in {"loading", "ready", "unloaded"}, SetState(k, s)
  PROVE  /\ backends' \in Seq([model : Id \cup {Nothing}, state : {"loading", "ready", "unloaded"}])
         /\ Len(backends') = Len(backends) /\ Len(backends) \in Nat /\ Object' = Object
         /\ \A j \in Object : /\ backends'[j].model = backends[j].model
                              /\ backends'[j].state = IF j = k THEN s ELSE backends[j].state
<1> DEFINE B == [model : Id \cup {Nothing}, state : {"loading", "ready", "unloaded"}]
           b == [model |-> backends[k].model, state |-> s]
<1>1. backends \in Seq(B) /\ Len(backends) \in Nat /\ DOMAIN backends = Object
  BY DEF SwapTypes, Object
<1> HIDE DEF B
<1>2. \A j \in Object : backends[j] \in B
  BY <1>1 DEF Object
<1>3. [backends[k] EXCEPT !.state = s] = b /\ b \in B
  BY <1>2 DEF B
<1>4. backends' = [backends EXCEPT ![k] = b]
  BY <1>3, Zenon DEF SetState
<1>5. Len(backends') = Len(backends) /\ backends' \in Seq(B)
  BY <1>1, <1>3, <1>4 DEF Object
<1>6. \A j \in Object : backends'[j] = IF j = k THEN b ELSE backends[j]
  BY <1>1, <1>4
<1>7. b.model = backends[k].model /\ b.state = s
  OBVIOUS
<1> HIDE DEF b
<1>8. \A j \in Object : /\ backends'[j].model = backends[j].model
                        /\ backends'[j].state = IF j = k THEN s ELSE backends[j].state
  BY <1>6, <1>7
<1> QED BY <1>1, <1>5, <1>8 DEF Object, B

\* A new object is the last one, and loads.
LEMMA NewFacts ==
  ASSUME SwapTypes, NEW m \in Id \cup {Nothing}, backends' = NewBackend(m)
  PROVE  /\ backends' \in Seq([model : Id \cup {Nothing}, state : {"loading", "ready", "unloaded"}])
         /\ Len(backends') = Len(backends) + 1 /\ Len(backends) \in Nat
         /\ Object' = Object \cup {Len(backends) + 1} /\ Len(backends) + 1 \notin Object
         /\ \A j \in Object : backends'[j] = backends[j]
         /\ backends'[Len(backends) + 1].model = m /\ backends'[Len(backends) + 1].state = "loading"
<1> DEFINE B == [model : Id \cup {Nothing}, state : {"loading", "ready", "unloaded"}]
           b == [model |-> m, state |-> "loading"]
<1>1. backends \in Seq(B) /\ Len(backends) \in Nat /\ b \in B /\ backends' = Append(backends, b)
  BY DEF SwapTypes, NewBackend
<1>2. b.model = m /\ b.state = "loading"
  OBVIOUS
<1> HIDE DEF b, B
<1>3. /\ backends' \in Seq(B) /\ Len(backends') = Len(backends) + 1 /\ backends'[Len(backends) + 1] = b
      /\ \A j \in Object : backends'[j] = backends[j]
  BY <1>1 DEF Object
<1>4. Object' = Object \cup {Len(backends) + 1} /\ Len(backends) + 1 \notin Object
  BY <1>1, <1>3 DEF Object
<1> QED BY <1>1, <1>2, <1>3, <1>4, Zenon DEF B

\* The steps of the registry that no backend takes part in.
LEMMA SwapQuiet ==
  ASSUME SwapInv, UNCHANGED <<backends, served, loads, unloads, orphans, operations>>,
         proc' = "starting" => proc = "starting",
         ActiveTellsServed'
  PROVE  SwapInv'
<1>1. Object' = Object /\ \A k : Loaded(k)' <=> Loaded(k)
  BY DEF Object, Loaded
<1>2. SwapTypes'
  BY <1>1, Zenon DEF SwapInv, SwapTypes, Load
<1>3. LoadsAreHeld' /\ LoadingIsKnown'
  BY <1>1, Zenon DEF SwapInv, LoadsAreHeld, LoadingIsKnown
<1>4. LoadedIsServed'
  BY <1>1 DEF SwapInv, LoadedIsServed
<1> QED BY <1>2, <1>3, <1>4, Zenon DEF SwapInv

\* The parts of the invariant, and what a load that runs is.
LEMMA SwapFacts ==
  ASSUME SwapInv
  PROVE  /\ SwapTypes /\ LoadsAreHeld /\ LoadingIsKnown /\ LoadedIsServed /\ ActiveTellsServed
         /\ Object \subseteq Nat /\ 0 \notin Object /\ Nothing \notin Nat /\ served \in Nat
         /\ served # 0 => served \in Object
         /\ loads \in [Id -> Load \cup {Nothing}] /\ Nothing \notin Load
         /\ \A j \in Id : loads[j] # Nothing => loads[j] \in Load
<1>1. SwapTypes /\ LoadsAreHeld /\ LoadingIsKnown /\ LoadedIsServed /\ ActiveTellsServed
  BY DEF SwapInv
<1>2. served \in 0..Len(backends) /\ Len(backends) \in Nat /\ loads \in [Id -> Load \cup {Nothing}]
  BY <1>1 DEF SwapTypes
<1>3. Nothing \notin Nat /\ Nothing \notin Load
  BY ModelsAssumption DEF Load
<1> QED BY <1>1, <1>2, <1>3 DEF Object

\* A load begins: its model was free, so no load of it ran.
LEMMA LoadBegins ==
  ASSUME SwapInv, NEW i \in Id, LoadBegin(i)
  PROVE  SwapInv'
<1> DEFINE K == Len(backends) + 1
           l == [new |-> K, previous |-> Nothing]
<1> USE SwapFacts
<1>0. /\ proc = "up" /\ UNCHANGED <<proc, active, served, unloads, orphans, unflagged>>
      /\ i \notin operations /\ operations' = operations \cup {i}
      /\ backends' = NewBackend(i) /\ loads' = [loads EXCEPT ![i] = l]
  BY Zenon DEF LoadBegin, Busy
<1>1. loads[i] = Nothing
  BY <1>0 DEF LoadsAreHeld
<1>2. /\ backends' \in Seq([model : Id \cup {Nothing}, state : {"loading", "ready", "unloaded"}])
      /\ Len(backends') = Len(backends) + 1 /\ Len(backends) \in Nat
      /\ Object' = Object \cup {K} /\ K \notin Object
      /\ \A j \in Object : backends'[j] = backends[j]
      /\ backends'[K].model = i /\ backends'[K].state = "loading"
  BY <1>0, NewFacts, Zenon
<1>3. l \in Load /\ l # Nothing /\ l.new = K /\ l.previous = Nothing /\ K # 0
  BY <1>2 DEF Load
<1> HIDE DEF l
<1>4. loads' \in [Id -> Load \cup {Nothing}] /\ loads'[i] = l /\ \A j \in Id : j # i => loads'[j] = loads[j]
  BY <1>0, <1>3, Zenon
<1> HIDE DEF K
<1>5. SwapTypes'
  <2>1. served' \in 0..Len(backends') /\ proc' # "starting" /\ \A u \in unloads' : u.object \in Object'
    BY <1>0, <1>2 DEF SwapTypes
  <2> QED BY <1>2, <1>4, <2>1 DEF SwapTypes, Load
<1>6. LoadsAreHeld'
  BY <1>0, <1>1, <1>2, <1>3, <1>4, ZenonT(30) DEF LoadsAreHeld
<1>7. LoadingIsKnown'
  BY <1>0, <1>1, <1>2, <1>3, <1>4 DEF LoadingIsKnown
<1>8. LoadedIsServed'
  <2> SUFFICES ASSUME NEW k \in Object', Loaded(k)'
               PROVE  \/ k = served' \/ k \in orphans'
                      \/ \E j \in Id : loads'[j] # Nothing /\ loads'[j].previous = k
                      \/ \E u \in unloads' : u.object = k
    BY Zenon DEF LoadedIsServed, Object
  <2>1. k \in Object /\ Loaded(k)
    BY <1>2 DEF Loaded
  <2> QED BY <1>0, <1>1, <1>4, <2>1, ZenonT(30) DEF LoadedIsServed, Object
<1>9. ActiveTellsServed'
  BY <1>0, <1>2 DEF ActiveTellsServed, Loaded
<1> QED BY <1>5, <1>6, <1>7, <1>8, <1>9, Zenon DEF SwapInv

\* A load ends, before the swap with a failure, or after it.
LEMMA LoadFinishes ==
  ASSUME SwapInv, NEW i \in Id, LoadFails(i) \/ LoadEnds(i)
  PROVE  SwapInv'
<1> DEFINE K == IF loads[i].previous = Nothing THEN loads[i].new ELSE loads[i].previous
<1> USE SwapFacts
<1>0. /\ UNCHANGED <<proc, active, served, unloads, orphans, unflagged>> /\ loads[i] # Nothing
      /\ loads' = [loads EXCEPT ![i] = Nothing] /\ operations' = operations \ {i} /\ SetState(K, "unloaded")
  BY DEF LoadFails, LoadEnds, Release
<1>1. loads[i].new \in Object /\ K \in Object /\ proc # "starting"
  BY <1>0 DEF LoadsAreHeld, SwapTypes
<1>a. \A j \in Id : j # i /\ loads[j] # Nothing => j \in operations'
  BY <1>0 DEF LoadsAreHeld
<1> HIDE DEF K
<1>2. /\ backends' \in Seq([model : Id \cup {Nothing}, state : {"loading", "ready", "unloaded"}])
      /\ Len(backends') = Len(backends) /\ Len(backends) \in Nat /\ Object' = Object
      /\ \A j \in Object : /\ backends'[j].model = backends[j].model
                           /\ backends'[j].state = IF j = K THEN "unloaded" ELSE backends[j].state
  BY <1>0, <1>1, StateFacts, ZenonT(30)
<1>4. loads' \in [Id -> Load \cup {Nothing}] /\ loads'[i] = Nothing /\ \A j \in Id : j # i => loads'[j] = loads[j]
  BY <1>0, Zenon
<1>5. SwapTypes'
  BY <1>0, <1>1, <1>2, <1>4 DEF SwapTypes, Load
<1>6. LoadsAreHeld'
  BY <1>0, <1>2, <1>4, <1>a, ZenonT(30) DEF LoadsAreHeld
<1>7. LoadingIsKnown'
  <2> SUFFICES ASSUME NEW k \in Object, backends'[k].state = "loading"
               PROVE  \/ k = served' \/ k \in orphans'
                      \/ \E j \in Id : loads'[j] # Nothing /\ loads'[j].new = k /\ loads'[j].previous = Nothing
    BY <1>2, Zenon DEF LoadingIsKnown
  <2>1. k # K /\ backends[k].state = "loading"
    BY <1>2, Zenon
  <2>2. loads[i].previous = Nothing => loads[i].new = K
    BY Zenon DEF K
  <2>3. CASE k = served \/ k \in orphans
    BY <1>0, <2>3, Zenon
  <2>4. CASE \E j \in Id : loads[j] # Nothing /\ loads[j].new = k /\ loads[j].previous = Nothing
    <3>1. PICK j \in Id : loads[j] # Nothing /\ loads[j].new = k /\ loads[j].previous = Nothing
      BY <2>4, Zenon
    <3>2. j # i
      BY <2>1, <2>2, <3>1, Zenon
    <3> QED BY <1>4, <3>1, <3>2, Zenon
  <2> QED BY <2>1, <2>3, <2>4, Zenon DEF LoadingIsKnown
<1>8. LoadedIsServed'
  <2> SUFFICES ASSUME NEW k \in Object, Loaded(k)'
               PROVE  \/ k = served' \/ k \in orphans'
                      \/ \E j \in Id : loads'[j] # Nothing /\ loads'[j].previous = k
                      \/ \E u \in unloads' : u.object = k
    BY <1>2, Zenon DEF LoadedIsServed, Object
  <2>1. k # K /\ Loaded(k)
    BY <1>2, Zenon DEF Loaded
  <2>2. loads[i].previous # Nothing => loads[i].previous = K
    BY DEF K
  <2> QED BY <1>0, <1>4, <2>1, <2>2, Zenon DEF LoadedIsServed, Object
<1>9. ActiveTellsServed'
  BY <1>0, <1>2, Zenon DEF ActiveTellsServed, Loaded
<1> QED BY <1>5, <1>6, <1>7, <1>8, <1>9 DEF SwapInv

\* The swap: what served before is the load's to unload, or an orphan that still loads.
LEMMA LoadSwaps ==
  ASSUME SwapInv, NEW i \in Id, LoadSwap(i)
  PROVE  SwapInv'
<1> DEFINE K == loads[i].new
           l == [new |-> K, previous |-> served]
<1> USE SwapFacts
<1>0. /\ UNCHANGED <<proc, unloads>> /\ loads[i] # Nothing /\ loads[i].previous = Nothing
      /\ SetState(K, "ready") /\ served' = K /\ active' = i /\ orphans' = orphans \cup Replaced(served)
  BY DEF LoadSwap
<1>1. /\ loads[i] \in Load /\ K \in Object /\ K \in Nat /\ K # 0 /\ backends[K].model = i /\ i \in operations
      /\ proc # "starting" /\ \A j \in Id : j # i /\ loads[j] # Nothing => j \in operations'
  BY <1>0 DEF LoadsAreHeld, SwapTypes, LoadSwap, Release
<1>2. /\ backends' \in Seq([model : Id \cup {Nothing}, state : {"loading", "ready", "unloaded"}])
      /\ Len(backends') = Len(backends) /\ Len(backends) \in Nat /\ Object' = Object
      /\ \A j \in Object : /\ backends'[j].model = backends[j].model
                           /\ backends'[j].state = IF j = K THEN "ready" ELSE backends[j].state
  BY <1>0, <1>1, StateFacts, Zenon
<1>3. l \in Load /\ l # Nothing /\ l.new = K /\ l.previous = served
  BY <1>1 DEF Load
<1>b. served # 0 => [loads[i] EXCEPT !.previous = served] = l
  BY <1>1 DEF Load
<1>4. /\ loads' \in [Id -> Load \cup {Nothing}] /\ \A j \in Id : j # i => loads'[j] = loads[j]
      /\ IF served = 0 THEN loads'[i] = Nothing ELSE loads'[i] = l /\ i \in operations'
  <2>1. CASE served = 0
    BY <2>1 DEF LoadSwap, Release
  <2>2. CASE served # 0
    <3>1. loads' = [loads EXCEPT ![i] = [loads[i] EXCEPT !.previous = served]] /\ UNCHANGED operations
      BY <2>2 DEF LoadSwap
    <3>2. loads' = [loads EXCEPT ![i] = l]
      BY <1>b, <2>2, <3>1, ZenonT(30)
    <3> HIDE DEF l
    <3> QED BY <1>1, <1>3, <2>2, <3>1, <3>2
  <2> QED BY <2>1, <2>2
<1>c. served # 0 /\ backends[served].state = "loading" => served \in orphans'
  BY <1>0 DEF Replaced
<1> HIDE DEF l, K
<1>5. SwapTypes'
  <2>1. served' \in 0..Len(backends') /\ \A u \in unloads' : u.object \in Object'
    <3>1. served' \in 0..Len(backends')
      BY <1>0, <1>1, <1>2 DEF Object
    <3>2. \A u \in unloads' : u.object \in Object'
      BY <1>0, <1>2, Zenon DEF SwapTypes
    <3> QED BY <3>1, <3>2, Zenon
  <2> QED BY <1>0, <1>1, <1>2, <1>4, <2>1, Zenon DEF SwapTypes, Load
<1>6. LoadsAreHeld'
  <2> SUFFICES ASSUME NEW j \in Id, loads'[j] # Nothing
               PROVE  /\ loads'[j].new \in Object /\ loads'[j].previous \in Object \cup {Nothing}
                      /\ backends'[loads'[j].new].model = j /\ j \in operations'
    BY <1>2, Zenon DEF LoadsAreHeld
  <2>1. CASE j = i
    BY <1>1, <1>2, <1>3, <1>4, <2>1
  <2>2. CASE j # i
    BY <1>1, <1>2, <1>4, <2>2, ZenonT(30) DEF LoadsAreHeld
  <2> QED BY <2>1, <2>2, Zenon
<1>7. LoadingIsKnown'
  <2> SUFFICES ASSUME NEW k \in Object, backends'[k].state = "loading"
               PROVE  \/ k = served' \/ k \in orphans'
                      \/ \E j \in Id : loads'[j] # Nothing /\ loads'[j].new = k /\ loads'[j].previous = Nothing
    BY <1>2, ZenonT(30) DEF LoadingIsKnown
  <2>1. k # K /\ backends[k].state = "loading" /\ loads[i].new = K
    BY <1>2, ZenonT(30) DEF K
  <2> QED BY <1>0, <1>c, <1>4, <2>1 DEF LoadingIsKnown
<1>8. LoadedIsServed'
  <2> SUFFICES ASSUME NEW k \in Object, Loaded(k)'
               PROVE  \/ k = served' \/ k \in orphans'
                      \/ \E j \in Id : loads'[j] # Nothing /\ loads'[j].previous = k
                      \/ \E u \in unloads' : u.object = k
    BY <1>2, ZenonT(30) DEF LoadedIsServed, Object
  <2>1. k # K => Loaded(k)
    BY <1>2, ZenonT(30) DEF Loaded
  <2> QED BY <1>0, <1>3, <1>4, <2>1 DEF LoadedIsServed, Object
<1>9. ActiveTellsServed'
  BY <1>0, <1>1, <1>2 DEF ActiveTellsServed
<1> QED BY <1>5, <1>6, <1>7, <1>8, <1>9 DEF SwapInv

\* An unload request ends: its object is unloaded, and what serves by then is dropped.
LEMMA Unloads ==
  ASSUME SwapInv, NEW v \in unloads, UnloadEnds(v) \/ AdminUnloadEnds(v)
  PROVE  SwapInv'
<1> DEFINE K == v.object
<1> USE SwapFacts
<1>0. /\ UNCHANGED <<proc, operations, loads>> /\ SetState(K, "unloaded") /\ unloads' = unloads \ {v}
      /\ \/ UNCHANGED <<active, served, unflagged, orphans>>
         \/ /\ served' = 0 /\ orphans' = IF served \in {0, K} THEN orphans ELSE orphans \cup {served}
  BY DEF UnloadEnds, AdminUnloadEnds, downloads
<1>1. K \in Object /\ proc # "starting"
  BY DEF SwapTypes
<1> HIDE DEF K
<1>2. /\ backends' \in Seq([model : Id \cup {Nothing}, state : {"loading", "ready", "unloaded"}])
      /\ Len(backends') = Len(backends) /\ Len(backends) \in Nat /\ Object' = Object
      /\ \A j \in Object : /\ backends'[j].model = backends[j].model
                           /\ backends'[j].state = IF j = K THEN "unloaded" ELSE backends[j].state
  BY <1>0, <1>1, StateFacts, Zenon
<1>5. SwapTypes'
  BY <1>0, <1>1, <1>2 DEF SwapTypes, Load
<1>6. LoadsAreHeld'
  BY <1>0, <1>2, Zenon DEF LoadsAreHeld
<1>7. LoadingIsKnown'
  <2> SUFFICES ASSUME NEW k \in Object, backends'[k].state = "loading"
               PROVE  \/ k = served' \/ k \in orphans'
                      \/ \E j \in Id : loads'[j] # Nothing /\ loads'[j].new = k /\ loads'[j].previous = Nothing
    BY <1>2, Zenon DEF LoadingIsKnown
  <2>1. k # K /\ backends[k].state = "loading"
    BY <1>2, Zenon
  <2> QED BY <1>0, <2>1, ZenonT(30) DEF LoadingIsKnown
<1>8. LoadedIsServed'
  <2> SUFFICES ASSUME NEW k \in Object, Loaded(k)'
               PROVE  \/ k = served' \/ k \in orphans'
                      \/ \E j \in Id : loads'[j] # Nothing /\ loads'[j].previous = k
                      \/ \E u \in unloads' : u.object = k
    BY <1>2 DEF LoadedIsServed, Object
  <2>1. k # K /\ Loaded(k) /\ v.object = K
    BY <1>2, ZenonT(30) DEF Loaded, K
  <2> QED BY <1>0, <2>1, Zenon DEF LoadedIsServed, Object
<1>9. ActiveTellsServed'
  BY <1>0, <1>2 DEF ActiveTellsServed, Loaded
<1> QED BY <1>5, <1>6, <1>7, <1>8, <1>9 DEF SwapInv

\* An unload request begins, or clears the flag of a model that does not serve.
LEMMA UnloadsBegin ==
  ASSUME SwapInv, (\E i \in Id : UnloadBegin(i) \/ UnloadOther(i)) \/ AdminUnload
  PROVE  SwapInv'
<1> USE SwapFacts
<1>1. CASE \E i \in Id : UnloadOther(i)
  <2>1. UNCHANGED <<backends, served, loads, unloads, orphans, operations, proc>>
    BY <1>1 DEF UnloadOther, downloads
  <2>2. unflagged' = (unflagged \/ Loaded(served))
    BY <1>1 DEF UnloadOther
  <2>3. ActiveTellsServed'
    BY <2>1, <2>2, Zenon DEF ActiveTellsServed, Loaded
  <2> QED BY <2>1, <2>3, SwapQuiet
<1>2. CASE (\E i \in Id : UnloadBegin(i)) \/ AdminUnload
  <2>1. /\ UNCHANGED <<active, backends, served, loads, orphans, unflagged, operations, proc>> /\ proc = "up"
        /\ served \in Object /\ \A u \in unloads' : u \in unloads \/ u.object = served
        /\ unloads \subseteq unloads'
    <3>1. CASE AdminUnload
      BY <3>1 DEF AdminUnload, IsLoaded, Loaded, downloads
    <3>2. CASE \E i \in Id : UnloadBegin(i)
      BY <3>2 DEF UnloadBegin, IsLoaded, Loaded, downloads
    <3> QED BY <1>2, <3>1, <3>2, Zenon
  <2>2. Object' = Object /\ \A k : Loaded(k)' <=> Loaded(k)
    BY <2>1, Zenon DEF Object, Loaded
  <2>3. SwapTypes'
    BY <2>1, <2>2, ZenonT(30) DEF SwapTypes, Load
  <2>4. LoadsAreHeld' /\ LoadingIsKnown' /\ ActiveTellsServed'
    <3>1. LoadsAreHeld'
      BY <2>1, <2>2, Zenon DEF LoadsAreHeld
    <3>2. LoadingIsKnown'
      BY <2>1, <2>2, Zenon DEF LoadingIsKnown
    <3>3. ActiveTellsServed'
      BY <2>1, <2>2, Zenon DEF ActiveTellsServed
    <3> QED BY <3>1, <3>2, <3>3
  <2>5. LoadedIsServed'
    BY <2>1, <2>2, Zenon DEF LoadedIsServed
  <2> QED BY <2>3, <2>4, <2>5 DEF SwapInv
<1> QED BY <1>1, <1>2

\* The configured model begins to load: a new object serves, or the one that serves loads again.
LEMMA AdminLoads ==
  ASSUME SwapInv, AdminLoad
  PROVE  SwapInv'
<1> USE SwapFacts
<1>0. /\ proc = "up" /\ UNCHANGED <<proc, operations, active, loads, unloads, orphans, unflagged>> /\ ~Loaded(served)
  BY DEF AdminLoad, downloads
<1>1. CASE served = 0
  <2> DEFINE K == Len(backends) + 1
  <2>0. backends' = NewBackend(ConfiguredRow) /\ served' = K
    BY <1>1, Zenon DEF AdminLoad
  <2>1. ConfiguredRow \in Id \cup {Nothing}
    BY DEF ConfiguredRow, RowsOf, Rows
  <2>2. /\ backends' \in Seq([model : Id \cup {Nothing}, state : {"loading", "ready", "unloaded"}])
        /\ Len(backends') = Len(backends) + 1 /\ Len(backends) \in Nat
        /\ Object' = Object \cup {K} /\ K \notin Object
        /\ \A j \in Object : backends'[j] = backends[j]
        /\ backends'[K].state = "loading"
    BY <2>0, <2>1, NewFacts, ZenonT(30)
  <2>3. served' \in 0..Len(backends')
    BY <2>0, <2>2
  <2> HIDE DEF K
  <2>4. SwapTypes'
    BY <1>0, <2>2, <2>3 DEF SwapTypes, Load
  <2>5. LoadsAreHeld'
    BY <1>0, <2>2, ZenonT(30) DEF LoadsAreHeld
  <2>6. LoadingIsKnown'
    BY <1>0, <1>1, <2>0, <2>2, ZenonT(30) DEF LoadingIsKnown
  <2>7. LoadedIsServed'
    <3> SUFFICES ASSUME NEW k \in Object', Loaded(k)'
                 PROVE  \/ k \in orphans'
                        \/ \E j \in Id : loads'[j] # Nothing /\ loads'[j].previous = k
                        \/ \E u \in unloads' : u.object = k
      BY DEF LoadedIsServed, Object
    <3>1. k \in Object /\ Loaded(k)
      BY <2>2 DEF Loaded
    <3> QED BY <1>0, <1>1, <3>1 DEF LoadedIsServed, Object
  <2>8. ActiveTellsServed'
    BY <2>0, <2>2 DEF ActiveTellsServed, Loaded
  <2> QED BY <2>4, <2>5, <2>6, <2>7, <2>8 DEF SwapInv
<1>2. CASE served # 0
  <2>0. SetState(served, "loading") /\ UNCHANGED served /\ served \in Object
    BY <1>2 DEF AdminLoad
  <2>2. /\ backends' \in Seq([model : Id \cup {Nothing}, state : {"loading", "ready", "unloaded"}])
        /\ Len(backends') = Len(backends) /\ Len(backends) \in Nat /\ Object' = Object
        /\ \A j \in Object : /\ backends'[j].model = backends[j].model
                             /\ backends'[j].state = IF j = served THEN "loading" ELSE backends[j].state
    BY <2>0, StateFacts, ZenonT(30)
  <2>4. SwapTypes'
    BY <1>0, <2>0, <2>2 DEF SwapTypes, Load
  <2>5. LoadsAreHeld'
    BY <1>0, <2>2, Zenon DEF LoadsAreHeld
  <2>6. LoadingIsKnown'
    BY <1>0, <2>0, <2>2, ZenonT(30) DEF LoadingIsKnown
  <2>7. LoadedIsServed'
    <3> SUFFICES ASSUME NEW k \in Object, Loaded(k)'
                 PROVE  \/ k \in orphans'
                        \/ \E j \in Id : loads'[j] # Nothing /\ loads'[j].previous = k
                        \/ \E u \in unloads' : u.object = k
      BY <2>2, Zenon DEF LoadedIsServed, Object
    <3>1. Loaded(k) /\ k # served
      BY <2>2 DEF Loaded
    <3> QED BY <1>0, <3>1 DEF LoadedIsServed, Object
  <2>8. ActiveTellsServed'
    BY <2>0, <2>2 DEF ActiveTellsServed, Loaded
  <2> QED BY <2>4, <2>5, <2>6, <2>7, <2>8 DEF SwapInv
<1> QED BY <1>1, <1>2

\* That load ends: the object serves, or was dropped while it loaded.
LEMMA AdminLoadFinishes ==
  ASSUME SwapInv, NEW K \in Object, AdminLoadEnds(K)
  PROVE  SwapInv'
<1> USE SwapFacts
<1>0. /\ UNCHANGED <<proc, operations, active, served, loads, unloads, orphans>> /\ backends[K].state = "loading"
      /\ \A i \in Id : loads[i] # Nothing => loads[i].new # K \/ loads[i].previous # Nothing
  BY Zenon DEF AdminLoadEnds, downloads
<1>1. PICK s \in {"unloaded", "ready"} : /\ SetState(K, s)
                                         /\ \/ s = "unloaded" /\ UNCHANGED unflagged
                                            \/ unflagged' = IF K = served THEN active # backends[K].model ELSE unflagged
  BY DEF AdminLoadEnds
<1>2. /\ backends' \in Seq([model : Id \cup {Nothing}, state : {"loading", "ready", "unloaded"}])
      /\ Len(backends') = Len(backends) /\ Len(backends) \in Nat /\ Object' = Object
      /\ \A j \in Object : /\ backends'[j].model = backends[j].model
                           /\ backends'[j].state = IF j = K THEN s ELSE backends[j].state
  BY <1>1, StateFacts, ZenonT(30)
<1>3. (K = served \/ K \in orphans) /\ proc # "starting"
  BY <1>0 DEF LoadingIsKnown, SwapTypes, Object
<1>4. SwapTypes'
  BY <1>0, <1>2, <1>3, Zenon DEF SwapTypes, Load
<1>5. LoadsAreHeld'
  BY <1>0, <1>2 DEF LoadsAreHeld
<1>6. LoadingIsKnown'
  BY <1>0, <1>2, <1>3 DEF LoadingIsKnown
<1>7. LoadedIsServed'
  <2> SUFFICES ASSUME NEW k \in Object, Loaded(k)'
               PROVE  \/ k = served' \/ k \in orphans'
                      \/ \E j \in Id : loads'[j] # Nothing /\ loads'[j].previous = k
                      \/ \E u \in unloads' : u.object = k
    BY <1>2, Zenon DEF LoadedIsServed, Object
  <2>1. k = K \/ Loaded(k)
    BY <1>2 DEF Loaded
  <2> QED BY <1>0, <1>3, <2>1, ZenonT(30) DEF LoadedIsServed, Object
<1>8. ActiveTellsServed'
  <2>1. CASE K = served
    <3>1. backends'[served'].model = backends[K].model /\ served' = K /\ active' = active
      BY <1>0, <1>2, <2>1, Zenon
    <3>2. CASE s = "unloaded"
      BY <1>2, <2>1, <3>1, <3>2 DEF ActiveTellsServed, Loaded
    <3>3. CASE unflagged' = (active # backends[K].model)
      BY <3>1, <3>3, ZenonT(30) DEF ActiveTellsServed
    <3> QED BY <1>1, <2>1, <3>2, <3>3, Zenon
  <2>2. CASE K # served
    <3>1. (unflagged' <=> unflagged) /\ served' = served /\ active' = active
      BY <1>0, <1>1, <2>2, ZenonT(30)
    <3>2. served # 0 => /\ backends'[served].model = backends[served].model
                        /\ backends'[served].state = backends[served].state
      BY <1>2, <2>2, ZenonT(30)
    <3> QED BY <3>1, <3>2, ZenonT(30) DEF ActiveTellsServed, Loaded
  <2> QED BY <2>1, <2>2
<1> QED BY <1>4, <1>5, <1>6, <1>7, <1>8, Zenon DEF SwapInv

\* The process starts, with the configured model or without.
LEMMA SwapStarts ==
  ASSUME SwapInv, Start
  PROVE  SwapInv'
<1> USE SwapFacts
<1>0. /\ proc' = "up" /\ UNCHANGED <<operations, loads, unloads, orphans>>
      /\ unloads = {} /\ \A i \in Id : loads[i] = Nothing
  BY ZenonT(30) DEF Start, SwapTypes
<1>1. CASE backends' = <<>> /\ served' = 0
  <2>1. Object' = {} /\ ~Loaded(served)'
    BY <1>1 DEF Object, Loaded
  <2>2. SwapTypes'
    <3>1. Len(backends') = 0 /\ backends' \in Seq([model : Id \cup {Nothing}, state : {"loading", "ready", "unloaded"}])
      BY <1>1
    <3>2. served' \in 0..Len(backends')
      BY <1>1, <3>1
    <3>3. loads' \in [Id -> Load' \cup {Nothing}]
      BY <1>0 DEF Load
    <3> QED BY <1>0, <1>1, <3>1, <3>2, <3>3 DEF SwapTypes
  <2> QED BY <1>0, <2>1, <2>2, Zenon DEF SwapInv, LoadsAreHeld, LoadingIsKnown, LoadedIsServed, ActiveTellsServed, Object
<1>2. CASE served' = 1
  <2> DEFINE m == ConfiguredRow'
             b == [model |-> m, state |-> "ready"]
  <2>0. backends' = <<b>> /\ unflagged' = (active' # m)
    BY <1>2 DEF Start
  <2>1. m \in Id \cup {Nothing}
    BY DEF ConfiguredRow, RowsOf, Rows
  <2> HIDE DEF m
  <2>2. Len(backends') = 1 /\ Object' = {1} /\ backends'[1].model = m /\ backends'[1].state = "ready"
    BY <2>0 DEF Object
  <2>3. SwapTypes'
    <3>1. backends' \in Seq([model : Id \cup {Nothing}, state : {"loading", "ready", "unloaded"}])
      BY <2>0, <2>1
    <3> QED BY <1>0, <1>2, <2>2, <3>1 DEF SwapTypes, Load
  <2>4. LoadsAreHeld' /\ LoadingIsKnown' /\ LoadedIsServed'
    BY <1>0, <1>2, <2>2 DEF LoadsAreHeld, LoadingIsKnown, LoadedIsServed, Object
  <2>5. ActiveTellsServed'
    BY <1>2, <2>0, <2>2, Zenon DEF ActiveTellsServed
  <2> QED BY <2>3, <2>4, <2>5 DEF SwapInv
<1> QED BY <1>1, <1>2 DEF Start

\* The process ends, or has not begun: there are no backends.
LEMMA SwapEmpty ==
  /\ ModelsInit => SwapInv
  /\ Stop => SwapInv'
<1>1. ModelsInit => SwapInv
  BY DEF ModelsInit, SwapInv, SwapTypes, LoadsAreHeld, LoadingIsKnown, LoadedIsServed, ActiveTellsServed, Object,
     Load, Loaded
<1>2. Stop => SwapInv'
  BY DEF Stop, SwapInv, SwapTypes, LoadsAreHeld, LoadingIsKnown, LoadedIsServed, ActiveTellsServed, Object,
     Load, Loaded
<1> QED BY <1>1, <1>2

\* Every step keeps what is known about what serves.
LEMMA SwapInductive ==
  ASSUME SwapInv, [ModelsNext]_models
  PROVE  SwapInv'
<1>1. CASE Start \/ Stop
  BY <1>1, SwapStarts, SwapEmpty
<1>2. CASE UNCHANGED <<swap, operations>> /\ (proc' = "starting" => proc = "starting")
  <2>1. ActiveTellsServed'
    BY <1>2, SwapFacts DEF ActiveTellsServed, Loaded, swap
  <2> QED BY <1>2, <2>1, SwapQuiet DEF swap
<1>3. CASE Shutdown /\ UNCHANGED swap
  BY <1>2, <1>3 DEF Shutdown
<1>4. CASE \E p \in Path : (ImportBegin(p) \/ ImportEnd(p)) /\ UNCHANGED swap
  BY <1>2, <1>4, Zenon DEF ImportBegin, ImportEnd
<1>5. ASSUME NEW i \in Id,
             \/ \E p \in Path, c \in BOOLEAN : StartDownload(i, p, c)
             \/ Cancel(i) \/ TearTask(i), UNCHANGED swap
      PROVE  SwapInv'
  BY <1>2, <1>5, Zenon DEF StartDownload, Cancel, TearTask
<1>6. ASSUME NEW i \in Id, Downloaded(i) PROVE SwapInv'
  <2>1. UNCHANGED <<swap, operations, proc>>
    BY <1>6, Zenon DEF Downloaded, DownloadStep, RunDownload, Connect, Read, VerifyFile, Promote, Settle, thread
  <2> QED BY <1>2, <2>1
<1>7. ASSUME NEW i \in Id, DeleteModel(i) PROVE SwapInv'
  <2>1. UNCHANGED <<backends, served, loads, unloads, orphans, operations, proc, unflagged>>
    BY <1>7, ZenonT(30) DEF DeleteModel, Delete
  <2>2. ~IsLoaded(i) /\ (active' = active \/ active = i)
    BY <1>7, ZenonT(30) DEF DeleteModel, MayDelete
  <2>3. ActiveTellsServed'
    BY <2>1, <2>2, SwapFacts, Zenon DEF ActiveTellsServed, IsLoaded, Loaded
  <2> QED BY <2>1, <2>3, SwapQuiet
<1>8. ASSUME NEW i \in Id, \/ LoadBegin(i) \/ LoadFails(i) \/ LoadSwap(i) \/ LoadEnds(i)
                           \/ UnloadOther(i) \/ UnloadBegin(i)
      PROVE  SwapInv'
  BY <1>8, LoadBegins, LoadFinishes, LoadSwaps, UnloadsBegin
<1>9. CASE \/ \E u \in unloads : UnloadEnds(u) \/ AdminUnloadEnds(u)
           \/ AdminLoad \/ AdminUnload \/ \E k \in 1..Len(backends) : AdminLoadEnds(k)
  BY <1>9, Unloads, AdminLoads, UnloadsBegin, AdminLoadFinishes DEF Object
<1>10. CASE UNCHANGED models
  BY <1>2, <1>10 DEF models, downloads
<1> QED BY <1>1, <1>3, <1>4, <1>5, <1>6, <1>7, <1>8, <1>9, <1>10 DEF ModelsNext

\* The loaded backends, the one that serves and the active flag agree (load_model,
\* unload_model, delete_model of the models router, load and unload of the admin router).
THEOREM ServingAgreed == ModelsSpec => []ServingAgrees
<1>1. ModelsInit => SwapInv
  BY SwapEmpty
<1>2. SwapInv /\ [ModelsNext]_models => SwapInv'
  BY SwapInductive
<1>3. SwapInv => ServingAgrees
  BY DEF SwapInv, ServingAgrees
<1> QED BY <1>1, <1>2, <1>3, PTL DEF ModelsSpec
=============================================================================
