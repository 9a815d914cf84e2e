---- MODULE GraphRagJobs ----
(* The durable indexing job of one GraphRAG dataset (graphrag/jobs.py) and  *)
(* the detached worker processes that run it (graphrag/worker.py).  All     *)
(* state is in files: job.json, replaced atomically; listing.json; the      *)
(* index artifacts; and three flock files.  .job.lock protects read-modify- *)
(* writes of job.json, .ingestion.lock the listing and launches, .run.lock  *)
(* is held by a worker as long as it lives.  Requests (threads of any API   *)
(* process) and workers can die anywhere; the system then drops their locks.*)
(*                                                                          *)
(* Names.  A run_id and the pid of its process are named by the attempt; 0  *)
(* is None.  MaxAttempts bounds the retries of the model, not of the code.  *)
EXTENDS Integers

CONSTANTS MaxAttempts, Requests, None

Attempts == 1 .. MaxAttempts

\* A lock names its holder.
ASSUME GraphRagConstants ==
    /\ MaxAttempts \in Nat \ {0}
    /\ None \notin Requests \cup Attempts /\ Requests \cap Attempts = {}

VARIABLES
    job,        \* job.json: status, attempt, run_id, pid, and whether its
                \* launch_time is less than 120 seconds ago
    listed,     \* the dataset's entry in listing.json
    index,      \* the artifacts: whose they are and whether they are whole
    ingestion,  \* the request that holds .ingestion.lock
    jobLock,    \* the request that holds .job.lock
    runLock,    \* the worker, or probing request, that holds .run.lock
    request,    \* program points of the requests, the job.json they have
    copy,       \* read under the lock, and their answer of _run_busy
    busy,
    worker      \* program points of the worker processes

lockVars == <<ingestion, jobLock, runLock>>
requestVars == <<request, copy, busy>>
vars == <<job, listed, index, lockVars, requestVars, worker>>

ACTIVE == {"queued", "running"}
Job == [status : ACTIVE \cup {"ready", "failed", "succeeded"}, run : 0 .. MaxAttempts,
        pid : 0 .. MaxAttempts, fresh : BOOLEAN]
RequestPoints == {"idle", "start", "get", "locked", "probe", "probing", "decide",
                  "queue", "launch", "note", "gone"}
WorkerPoints == {"none", "boot", "check", "claim", "index", "verify", "register",
                 "succeed", "fail", "exited"}

LockedPoints == RequestPoints \ {"idle", "start", "get", "gone"}
RunningPoints == WorkerPoints \ {"none", "boot", "exited"}

(* Every flock is held exactly where the with statement is.                 *)
LocksAreHeld ==
    /\ \A q \in Requests :
        /\ jobLock = q <=> request[q].pc \in LockedPoints
        /\ ingestion = q <=> request[q].op = "start"
        /\ runLock = q <=> request[q].pc = "probing"
    /\ \A a \in Attempts : runLock = a <=> worker[a] \in RunningPoints

TypeOK ==
    /\ job \in Job
    /\ listed \in BOOLEAN
    /\ index \in [run : 0 .. MaxAttempts, whole : BOOLEAN]
    /\ ingestion \in Requests \cup {None}
    /\ jobLock \in Requests \cup {None}
    /\ runLock \in Requests \cup Attempts \cup {None}
    /\ request \in [Requests -> [pc : RequestPoints, op : {"get", "start"}]]
    /\ copy \in [Requests -> Job] /\ busy \in [Requests -> BOOLEAN]
    /\ worker \in [Attempts -> WorkerPoints]
    /\ LocksAreHeld

(* create_dataset has written the dataset. *)
NewJob == [status |-> "ready", run |-> 0, pid |-> 0, fresh |-> FALSE]
Idle == [pc |-> "idle", op |-> "get"]

Init ==
    /\ job = NewJob
    /\ listed = FALSE
    /\ index = [run |-> 0, whole |-> FALSE]
    /\ ingestion = None /\ jobLock = None /\ runLock = None
    /\ request = [q \in Requests |-> Idle]
    /\ copy = [q \in Requests |-> NewJob]
    /\ busy = [q \in Requests |-> FALSE]
    /\ worker = [a \in Attempts |-> "none"]

At(q, point) == request[q].pc = point
Goto(q, point) == request' = [request EXCEPT ![q].pc = point]

(* Mutant: a request ends and keeps .job.lock. *)
EndLocked(q, point) ==
    /\ request' = [request EXCEPT ![q] = [pc |-> point, op |-> "get"]]
    /\ copy' = [copy EXCEPT ![q] = NewJob]
    /\ busy' = [busy EXCEPT ![q] = FALSE]
    /\ ingestion' = IF ingestion = q THEN None ELSE ingestion
    /\ runLock' = IF runLock = q THEN None ELSE runLock
    /\ UNCHANGED jobLock

(* The end of a request: it drops its locks and forgets its copies. *)
End(q, point) ==
    /\ request' = [request EXCEPT ![q] = [pc |-> point, op |-> "get"]]
    /\ copy' = [copy EXCEPT ![q] = NewJob]
    /\ busy' = [busy EXCEPT ![q] = FALSE]
    /\ ingestion' = IF ingestion = q THEN None ELSE ingestion
    /\ jobLock' = IF jobLock = q THEN None ELSE jobLock
    /\ runLock' = IF runLock = q THEN None ELSE runLock

Return(q) == End(q, "idle")

----
(* get_job takes .job.lock; start_index takes .ingestion.lock before it.    *)

Get(q) ==
    /\ At(q, "idle")
    /\ request' = [request EXCEPT ![q] = [pc |-> "get", op |-> "get"]]
    /\ UNCHANGED <<job, listed, index, lockVars, copy, busy, worker>>

Start(q) ==
    /\ At(q, "idle")
    /\ ingestion = None
    /\ ingestion' = q
    /\ request' = [request EXCEPT ![q] = [pc |-> "start", op |-> "start"]]
    /\ UNCHANGED <<job, listed, index, jobLock, runLock, copy, busy, worker>>

LockJob(q) ==
    /\ request[q].pc \in {"get", "start"}
    /\ jobLock = None
    /\ jobLock' = q
    /\ copy' = [copy EXCEPT ![q] = job]
    /\ Goto(q, "locked")
    /\ UNCHANGED <<job, listed, index, ingestion, runLock, busy, worker>>

(* Mutant: start_index only leaves active jobs alone. *)
RefreshedRebuilt(q, status) ==
    IF request[q].op = "get" \/ status \in ACTIVE
    THEN Return(q)
    ELSE Goto(q, "queue") /\ UNCHANGED <<lockVars, copy, busy>>

(* What follows _refresh_job: get_job returns; start_index launches unless  *)
(* the job is active or has succeeded.                                      *)
Refreshed(q, status) ==
    IF request[q].op = "get" \/ status \in ACTIVE \cup {"succeeded"}
    THEN Return(q)
    ELSE Goto(q, "queue") /\ UNCHANGED <<lockVars, copy, busy>>

(* _refresh_job: only an active job is looked at more closely. *)
Refresh(q) ==
    /\ At(q, "locked")
    /\ IF copy[q].status \in ACTIVE
       THEN Goto(q, "probe") /\ UNCHANGED <<lockVars, copy, busy>>
       ELSE Refreshed(q, copy[q].status)
    /\ UNCHANGED <<job, listed, index, worker>>

(* _run_busy takes .run.lock for a moment to see whether a worker has it.   *)
Probe(q) ==
    /\ At(q, "probe")
    /\ IF runLock = None
       THEN runLock' = q /\ Goto(q, "probing") /\ UNCHANGED busy
       ELSE busy' = [busy EXCEPT ![q] = TRUE] /\ Goto(q, "decide") /\ UNCHANGED runLock
    /\ UNCHANGED <<job, listed, index, ingestion, jobLock, copy, worker>>

ProbeDone(q) ==
    /\ At(q, "probing")
    /\ runLock' = None
    /\ busy' = [busy EXCEPT ![q] = FALSE]
    /\ Goto(q, "decide")
    /\ UNCHANGED <<job, listed, index, ingestion, jobLock, copy, worker>>

(* os.kill(pid, 0): an exited child that was not reaped still answers.      *)
Alive(a) == IF a = 0 THEN {FALSE}
            ELSE IF worker[a] = "exited" THEN BOOLEAN ELSE {TRUE}

(* Mutant: a job without a process is left as it is. *)
DecideNothing(q) ==
    /\ At(q, "decide")
    /\ Refreshed(q, copy[q].status)
    /\ UNCHANGED <<job, listed, index, worker>>

(* A job that nobody runs and that is not just starting has failed. *)
Decide(q) ==
    /\ At(q, "decide")
    /\ \E alive \in Alive(copy[q].pid) :
        IF busy[q] \/ (job.fresh /\ alive)
        THEN Refreshed(q, copy[q].status) /\ UNCHANGED job
        ELSE /\ job' = [copy[q] EXCEPT !.status = "failed", !.pid = 0, !.fresh = job.fresh]
             /\ Refreshed(q, "failed")
    /\ UNCHANGED <<listed, index, worker>>

(* start_index: the new run is written before its process is started. *)
Queue(q) ==
    /\ At(q, "queue")
    /\ job.run < MaxAttempts
    /\ job' = [status |-> "queued", run |-> job.run + 1, pid |-> 0, fresh |-> TRUE]
    /\ copy' = [copy EXCEPT ![q] = job']
    /\ Goto(q, "launch")
    /\ UNCHANGED <<listed, index, lockVars, busy, worker>>

(* Popen, or an OSError. *)
Launch(q) ==
    /\ At(q, "launch")
    /\ \/ /\ worker' = [worker EXCEPT ![copy[q].run] = "boot"]
          /\ copy' = [copy EXCEPT ![q].pid = copy[q].run]
       \/ /\ copy' = [copy EXCEPT ![q].status = "failed"]
          /\ UNCHANGED worker
    /\ Goto(q, "note")
    /\ UNCHANGED <<job, listed, index, lockVars, busy>>

Note(q) ==
    /\ At(q, "note")
    /\ job' = [copy[q] EXCEPT !.fresh = job.fresh]
    /\ Return(q)
    /\ UNCHANGED <<listed, index, worker>>

(* The API process of a request dies, or the request raises; its locks drop.*)
Abort(q) ==
    /\ request[q].pc \notin {"idle", "gone"}
    /\ End(q, "gone")
    /\ UNCHANGED <<job, listed, index, worker>>

(* The caller of a request that died can ask again. *)
Again(q) ==
    /\ At(q, "gone")
    /\ Goto(q, "idle")
    /\ UNCHANGED <<job, listed, index, lockVars, copy, busy, worker>>

----
(* run_job: the worker process of attempt a.                                *)

Steps(a, points) == \E p \in points : worker' = [worker EXCEPT ![a] = p]

(* Leaving the process drops .run.lock. *)
Exit(a) ==
    /\ worker' = [worker EXCEPT ![a] = "exited"]
    /\ runLock' = IF runLock = a THEN None ELSE runLock

(* .run.lock without blocking: BlockingIOError ends the process silently. *)
Boot(a) ==
    /\ worker[a] = "boot"
    /\ IF runLock = None
       THEN runLock' = a /\ Steps(a, {"check"})
       ELSE Exit(a)
    /\ UNCHANGED <<job, listed, index, ingestion, jobLock, requestVars>>

(* job.json is read without .job.lock. *)
Check(a) ==
    /\ worker[a] = "check"
    /\ IF job.run = a /\ job.status \in ACTIVE
       THEN Steps(a, {"claim"}) /\ UNCHANGED runLock
       ELSE Exit(a)
    /\ UNCHANGED <<job, listed, index, ingestion, jobLock, requestVars>>

(* Mutant: any worker may write job.json. *)
MayUpdateAny(a) == jobLock = None

(* _update_job takes .job.lock for one read-modify-write, and raises if     *)
(* the run was replaced; the handler in run_job then raises as well.        *)
MayUpdate(a) == jobLock = None /\ job.run = a
Replaced(a) == jobLock = None /\ job.run # a

Claim(a) ==
    /\ worker[a] = "claim"
    /\ \/ /\ MayUpdate(a)
          /\ job' = [job EXCEPT !.status = "running", !.pid = a]
          /\ Steps(a, {"index", "fail"})
       \/ Steps(a, {"fail"}) /\ UNCHANGED job
    /\ UNCHANGED <<listed, index, lockVars, requestVars>>

(* build_index: artifacts are overwritten, and every progress callback is   *)
(* an _update_job that only changes stage and progress.                     *)
Index(a) ==
    /\ worker[a] = "index"
    /\ \/ index' = [run |-> a, whole |-> FALSE] /\ Steps(a, {"index", "fail"})
       \/ /\ MayUpdate(a)
          /\ index' = [run |-> a, whole |-> TRUE]
          /\ Steps(a, {"verify"})
    /\ UNCHANGED <<job, listed, lockVars, requestVars>>

(* _verify_artifacts reads what is on disk. *)
Verify(a) ==
    /\ worker[a] = "verify"
    /\ Steps(a, {"fail"} \cup IF index.whole THEN {"register"} ELSE {})
    /\ UNCHANGED <<job, listed, index, lockVars, requestVars>>

Register(a) ==
    /\ worker[a] = "register"
    /\ \/ ingestion = None /\ listed' = TRUE /\ Steps(a, {"succeed"})
       \/ Steps(a, {"fail"}) /\ UNCHANGED listed
    /\ UNCHANGED <<job, index, lockVars, requestVars>>

Succeed(a) ==
    /\ worker[a] = "succeed"
    /\ \/ /\ MayUpdate(a)
          /\ job' = [job EXCEPT !.status = "succeeded", !.pid = 0]
          /\ Exit(a)
       \/ Steps(a, {"fail"}) /\ UNCHANGED <<job, runLock>>
    /\ UNCHANGED <<listed, index, ingestion, jobLock, requestVars>>

(* The except clause. *)
Fail(a) ==
    /\ worker[a] = "fail"
    /\ \/ MayUpdate(a) /\ job' = [job EXCEPT !.status = "failed", !.pid = 0]
       \/ Replaced(a) /\ UNCHANGED job
    /\ Exit(a)
    /\ UNCHANGED <<listed, index, ingestion, jobLock, requestVars>>

Crash(a) ==
    /\ worker[a] \notin {"none", "exited"}
    /\ Exit(a)
    /\ UNCHANGED <<job, listed, index, ingestion, jobLock, requestVars>>

(* 120 seconds pass since launch_time. *)
LaunchGrowsOld ==
    /\ job.fresh
    /\ job' = [job EXCEPT !.fresh = FALSE]
    /\ UNCHANGED <<listed, index, lockVars, requestVars, worker>>

----
Served(q) ==
    \/ LockJob(q) \/ Refresh(q) \/ Probe(q) \/ ProbeDone(q) \/ Decide(q)
    \/ Queue(q) \/ Launch(q) \/ Note(q)

Work(a) ==
    \/ Boot(a) \/ Check(a) \/ Claim(a) \/ Verify(a) \/ Register(a) \/ Succeed(a)
    \/ Fail(a) \/ Index(a)

Next ==
    \/ \E q \in Requests : Get(q) \/ Start(q) \/ Served(q) \/ Abort(q) \/ Again(q)
    \/ \E a \in Attempts : Work(a) \/ Crash(a)
    \/ LaunchGrowsOld

Spec == Init /\ [][Next]_vars

(* A page that shows an active job polls it for ever and the API does not   *)
(* die in every poll, build_index ends, and flock lets nobody wait for ever.*)
FairSpec ==
    /\ Spec
    /\ WF_vars(\E q \in Requests : Get(q) \/ Again(q))
    /\ \A q \in Requests : WF_vars(Served(q)) /\ SF_vars(LockJob(q))
    /\ \A a \in Attempts : SF_vars(Work(a))
    /\ WF_vars(LaunchGrowsOld)
    /\ <>[](\A q \in Requests : ~At(q, "gone"))

----
(* Properties.                                                              *)

(* query and the graph pages trust job.status alone (service.py): when it   *)
(* is succeeded, the artifacts are whole, all of them written by the run    *)
(* the job names, and the dataset is listed; whatever retries, refreshes    *)
(* and dying workers came before.                                           *)
SucceededIsWhole ==
    job.status = "succeeded" => index = [run |-> job.run, whole |-> TRUE] /\ listed

(* A success is never taken back, retried or written over, not even by the  *)
(* processes of earlier attempts that still run.                            *)
SucceededIsFinal ==
    [][job.status = "succeeded" =>
        job'.status = "succeeded" /\ job'.run = job.run /\ UNCHANGED index]_vars

(* A job does not stay active for ever when its process is gone: a poll     *)
(* finds out, although probing is itself what can end a starting worker.    *)
JobSettles == job.status \in ACTIVE ~> job.status \notin ACTIVE

(* The docstring of run_job: "failures remain retryable and are never       *)
(* registered".                                                             *)
FailedIsUnregistered == job.status = "failed" => ~listed
====
