---- MODULE Uploads ----
(* Admission of uploaded files (intake/uploads.py, api/intake.py upload,   *)
(* api/body_limit.py, intake/service.py; IntakeJobs.create of              *)
(* staging/jobs.py).  With the MySQL backend a body is streamed to a file  *)
(* under one of two slots, flushed, and its path queued as a job; an       *)
(* enqueue whose outcome is not known keeps the file, because the job may  *)
(* exist.  With the SQLite backend the body is parsed and saved in the     *)
(* request, under two slots of its own.  Bodies end, stop or grow too      *)
(* long, disks fill up, the database fails on either side of its commit,   *)
(* and the process may crash anywhere.                                     *)
EXTENDS Naturals, FiniteSets

CONSTANTS
    Clients,     \* requests that can be under way
    Slots,       \* upload slots and direct slots (2 each)
    QueueLimit,  \* queued and running jobs (50)
    MaxSize,     \* max_upload_bytes, in chunks
    MaxPaths,    \* bound: files ever written
    None

VARIABLES
    backend,    \* "mysql" or "sqlite"
    slots,      \* free upload slots
    direct,     \* free slots of the direct import
    pc,         \* client -> "idle", "receive", "enqueue", "queued", "parse"
    path,       \* client -> its file, or None
    size,       \* client -> chunks written
    paths,      \* files ever named; names are not used again
    files,      \* files on disk
    jobs,       \* file -> the job that names it: "active" or "ended"
    uncertain,  \* files of enqueues without an answer, or of a crash
    batches     \* bodies saved by direct imports

reqVars == <<pc, path, size>>
vars == <<backend, slots, direct, reqVars, paths, files, jobs, uncertain, batches>>

Init ==
    /\ backend \in {"mysql", "sqlite"}
    /\ slots = Slots /\ direct = Slots
    /\ pc = [c \in Clients |-> "idle"] /\ path = [c \in Clients |-> None]
    /\ size = [c \in Clients |-> 0]
    /\ paths = 0 /\ files = {} /\ jobs = <<>> /\ uncertain = {} /\ batches = 0

Queued == DOMAIN jobs
Active == {p \in Queued : jobs[p] = "active"}

Over(c) ==
    /\ pc' = [pc EXCEPT ![c] = "idle"] /\ path' = [path EXCEPT ![c] = None]
    /\ size' = [size EXCEPT ![c] = 0]

\* The finally block of receive_upload.
Release(c) == Over(c) /\ slots' = slots + 1

----
(* receive_upload.  Without a free slot or disk space nothing happens.     *)

Begin(c) ==
    /\ backend = "mysql" /\ pc[c] = "idle" /\ slots > 0 /\ paths < MaxPaths
    /\ slots' = slots - 1 /\ paths' = paths + 1
    /\ path' = [path EXCEPT ![c] = paths'] /\ files' = files \cup {paths'}
    /\ pc' = [pc EXCEPT ![c] = "receive"]
    /\ UNCHANGED <<backend, direct, size, jobs, uncertain, batches>>

Chunk(c) ==
    /\ pc[c] = "receive" /\ size[c] < MaxSize
    /\ size' = [size EXCEPT ![c] = @ + 1]
    /\ UNCHANGED <<backend, slots, direct, pc, path, paths, files, jobs, uncertain, batches>>

(* Mutant: a refused upload returns before the finally block.              *)
RefuseHolding(c) ==
    /\ pc[c] = "receive" /\ Over(c)
    /\ files' = files \ {path[c]}
    /\ UNCHANGED <<backend, slots, direct, paths, jobs, uncertain, batches>>

\* The body is empty or too long, the client leaves, or the disk is full.
Refuse(c) ==
    /\ pc[c] = "receive" /\ Release(c)
    /\ files' = files \ {path[c]}
    /\ UNCHANGED <<backend, direct, paths, jobs, uncertain, batches>>

\* flush and fsync; from here on the enqueue counts as attempted.
Sync(c) ==
    /\ pc[c] = "receive" /\ size[c] > 0
    /\ pc' = [pc EXCEPT ![c] = "enqueue"]
    /\ UNCHANGED <<backend, slots, direct, path, size, paths, files, jobs, uncertain, batches>>

\* The commit of IntakeJobs.create.
Enqueue(c) ==
    /\ pc[c] = "enqueue" /\ Cardinality(Active) < QueueLimit
    /\ jobs' = [p \in Queued \cup {path[c]} |-> IF p = path[c] THEN "active" ELSE jobs[p]]
    /\ pc' = [pc EXCEPT ![c] = "queued"]
    /\ UNCHANGED <<backend, slots, direct, path, size, paths, files, uncertain, batches>>

(* Mutant: a full queue counts as an attempt.                              *)
QueueFullKeeps(c) ==
    /\ pc[c] = "enqueue" /\ Cardinality(Active) >= QueueLimit /\ Release(c)
    /\ UNCHANGED <<backend, direct, paths, files, jobs, uncertain, batches>>

\* 429 is certain: the file goes.
QueueFull(c) ==
    /\ pc[c] = "enqueue" /\ Cardinality(Active) >= QueueLimit /\ Release(c)
    /\ files' = files \ {path[c]}
    /\ UNCHANGED <<backend, direct, paths, jobs, uncertain, batches>>

(* Mutant: the file of an enqueue that raises is deleted.                  *)
EnqueueRaisesUnlink(c) ==
    /\ pc[c] \in {"enqueue", "queued"} /\ Release(c)
    /\ files' = files \ {path[c]}
    /\ UNCHANGED <<backend, direct, paths, jobs, uncertain, batches>>

\* The database fails before its commit, or afterwards while the job is read.
EnqueueRaises(c) ==
    /\ pc[c] \in {"enqueue", "queued"} /\ Release(c)
    /\ uncertain' = uncertain \cup {path[c]}
    /\ UNCHANGED <<backend, direct, paths, files, jobs, batches>>

Accepted(c) ==
    /\ pc[c] = "queued" /\ Release(c)
    /\ UNCHANGED <<backend, direct, paths, files, jobs, uncertain, batches>>

\* A worker ends the job (IntakeQueue); the original stays for a retry.
End(p) ==
    /\ p \in Active /\ jobs' = [jobs EXCEPT ![p] = "ended"]
    /\ UNCHANGED <<backend, slots, direct, reqVars, paths, files, uncertain, batches>>

Retry(p) ==
    /\ p \in Queued /\ jobs[p] = "ended" /\ Cardinality(Active) < QueueLimit
    /\ jobs' = [jobs EXCEPT ![p] = "active"]
    /\ UNCHANGED <<backend, slots, direct, reqVars, paths, files, uncertain, batches>>

----
(* IntakeService.upload and import_mysql.                                  *)

Admit(c) ==
    /\ backend = "sqlite" /\ pc[c] = "idle" /\ direct > 0 /\ batches < MaxPaths
    /\ direct' = direct - 1 /\ pc' = [pc EXCEPT ![c] = "parse"]
    /\ UNCHANGED <<backend, slots, path, size, paths, files, jobs, uncertain, batches>>

\* Parsed and saved in one transaction, or refused.
Save(c, saved) ==
    /\ pc[c] = "parse" /\ Over(c) /\ direct' = direct + 1
    /\ batches' = IF saved /\ batches < MaxPaths THEN batches + 1 ELSE batches
    /\ UNCHANGED <<backend, slots, paths, files, jobs, uncertain>>

\* The process dies; a commit it had sent may still have been made.
Crash ==
    /\ LET cut == {path[c] : c \in {x \in Clients : pc[x] \in {"receive", "enqueue", "queued"}}}
           sent == {path[c] : c \in {x \in Clients : pc[x] = "enqueue"}}
       IN  \E made \in SUBSET sent :
            /\ Cardinality(Active) + Cardinality(made) <= QueueLimit
            /\ jobs' = [p \in Queued \cup made |-> IF p \in made THEN "active" ELSE jobs[p]]
            /\ uncertain' = uncertain \cup cut
    /\ slots' = Slots /\ direct' = Slots
    /\ pc' = [c \in Clients |-> "idle"] /\ path' = [c \in Clients |-> None]
    /\ size' = [c \in Clients |-> 0]
    /\ UNCHANGED <<backend, paths, files, batches>>

Step(c) ==
    \/ Chunk(c) \/ Refuse(c) \/ Sync(c) \/ Enqueue(c) \/ QueueFull(c)
    \/ EnqueueRaises(c) \/ Accepted(c) \/ \E saved \in BOOLEAN : Save(c, saved)

Next ==
    \/ \E c \in Clients : Begin(c) \/ Admit(c) \/ Step(c)
    \/ \E p \in Queued : End(p) \/ Retry(p)
    \/ Crash

\* A body ends or its connection does; a database call returns or raises.
Spec == Init /\ [][Next]_vars /\ \A c \in Clients : WF_vars(Step(c))

----
(* Properties.                                                             *)

\* The file a job names is there, whenever the client, the database or the
\* process failed (uploads.py:52-59: "an uncertain DB commit may have queued
\* the path").
QueuedHasFile == Queued \subseteq files

\* A file that no job names belongs to an upload under way, or to one whose
\* outcome nobody learnt: refusals leave nothing on the disk.
LeftoversAreUncertain ==
    files \ Queued \subseteq {path[c] : c \in Clients} \cup uncertain

\* Whatever ends an upload, the slot it held is free again.
SlotsReturn == (slots = 0 ~> slots > 0) /\ (direct = 0 ~> direct > 0)
====
