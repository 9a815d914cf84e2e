---- MODULE IntakeQueue ----
(* The durable intake queue of staging/jobs.py, the batches its attempts    *)
(* write (staging/store.py) and the worker processes that run it            *)
(* (intake/worker.py).  The API enqueues, retries and cancels jobs.  A      *)
(* worker claims a queued job, inserts an invisible "building" batch, binds *)
(* it to the job, writes its rows in bounded transactions while a second    *)
(* thread keeps the heartbeat alive, and publishes the batch together with  *)
(* the completion of the job.  Every action below is one database           *)
(* transaction, or a local step of a worker thread.                         *)
(*                                                                          *)
(* Names.  A job's key is its position in created_at order.  The owner      *)
(* token (a uuid drawn by claim) and the batch id (a uuid drawn by          *)
(* run_job's writer) are both drawn once per claim, so both are named by    *)
(* the number of the attempt; 0 is SQL's NULL.                              *)
(*                                                                          *)
(* Bounds.  MaxJobs, MaxAttempts (retries per job) and Pages (transactions  *)
(* that store one attempt's tables and rows) bound the model, not the code. *)
(* MaxPending is the code's limit of 50 unfinished jobs.                    *)
EXTENDS Integers, FiniteSets

CONSTANTS MaxJobs, MaxAttempts, MaxPending, Pages, Workers

ASSUME QueueConstants ==
    /\ MaxJobs \in Nat \ {0}
    /\ MaxAttempts \in Nat \ {0}
    /\ MaxPending \in Nat
    /\ Pages \in Nat \ {0}
    /\ IsFiniteSet(Workers)

Jobs == 1 .. MaxJobs
Attempts == 1 .. MaxAttempts

JobStates == {"absent", "queued", "running", "completed", "failed", "cancelled"}
BatchStates == {"absent", "building", "ready", "failed", "gone"}

VARIABLES
    jobState,    \* intake_jobs.state ("absent": no such row)
    owner,       \* intake_jobs.owner
    attempt,     \* intake_jobs.attempt
    bound,       \* intake_jobs.batch_id
    stale,       \* intake_jobs.heartbeat < UNIX_TIMESTAMP() - 90
    batchState,  \* intake_batches.state of the batch of an attempt
    stored,      \* how many of its tables and row groups are in the database
    proc         \* each worker process: its main thread's program point, the job
                 \* dictionary it holds (key and owner), the row groups its
                 \* BatchWriter has flushed, and whether run_job's `lost` list
                 \* holds anything (its heartbeat thread has then ended)

jobVars == <<jobState, owner, attempt, bound, stale>>
batchVars == <<batchState, stored>>
vars == <<jobVars, batchVars, proc>>

(* The program points of a worker's main thread. *)
InJob == {"open", "bind", "parse", "beat", "publish", "exit", "fail"}
OutOfJob == {"claim", "collect", "down"}

Process == [pc : InJob \cup OutOfJob, job : Jobs, owner : 0 .. MaxAttempts,
            written : 0 .. Pages, lost : BOOLEAN]

(* Outside run_job a process holds nothing. *)
At(point) == [pc |-> point, job |-> 1, owner |-> 0, written |-> 0, lost |-> FALSE]

TypeOK ==
    /\ jobState \in [Jobs -> JobStates]
    /\ owner \in [Jobs -> 0 .. MaxAttempts]
    /\ attempt \in [Jobs -> 0 .. MaxAttempts]
    /\ bound \in [Jobs -> 0 .. MaxAttempts]
    /\ stale \in [Jobs -> BOOLEAN]
    /\ batchState \in [Jobs -> [Attempts -> BatchStates]]
    /\ stored \in [Jobs -> [Attempts -> 0 .. Pages]]
    /\ proc \in [Workers -> Process]

Init ==
    /\ jobState = [j \in Jobs |-> "absent"]
    /\ owner = [j \in Jobs |-> 0]
    /\ attempt = [j \in Jobs |-> 0]
    /\ bound = [j \in Jobs |-> 0]
    /\ stale = [j \in Jobs |-> FALSE]
    /\ batchState = [j \in Jobs |-> [a \in Attempts |-> "absent"]]
    /\ stored = [j \in Jobs |-> [a \in Attempts |-> 0]]
    /\ proc = [w \in Workers |-> At("claim")]

----
(* The API: jobs.create, jobs.retry, jobs.cancel.                           *)

Pending == {j \in Jobs : jobState[j] \in {"queued", "running"}}

(* _admit holds the guard row to the end of its transaction, so the count   *)
(* and the insert or update that follows it are one step.                   *)
Admitted == Cardinality(Pending) < MaxPending

(* Mutant: the guard row is locked, but nothing is counted. *)
CreateUncounted(j) ==
    /\ jobState[j] = "absent"
    /\ \A i \in Jobs : i < j => jobState[i] # "absent"
    /\ jobState' = [jobState EXCEPT ![j] = "queued"]
    /\ UNCHANGED <<owner, attempt, bound, stale, batchVars, proc>>

Create(j) ==
    /\ jobState[j] = "absent"
    /\ \A i \in Jobs : i < j => jobState[i] # "absent"
    /\ Admitted
    /\ jobState' = [jobState EXCEPT ![j] = "queued"]
    /\ UNCHANGED <<owner, attempt, bound, stale, batchVars, proc>>

(* Mutant: any job that is not pending can be queued again. *)
RetryFinished(j) ==
    /\ Admitted
    /\ jobState[j] \in {"failed", "cancelled", "completed"}
    /\ attempt[j] < MaxAttempts
    /\ jobState' = [jobState EXCEPT ![j] = "queued"]
    /\ owner' = [owner EXCEPT ![j] = 0]
    /\ UNCHANGED <<attempt, bound, stale, batchVars, proc>>

(* attempt[j] < MaxAttempts is the model's bound on retries; the batch_id   *)
(* of the attempt before stays in the row until the next claim.             *)
Retry(j) ==
    /\ Admitted
    /\ jobState[j] \in {"failed", "cancelled"}
    /\ attempt[j] < MaxAttempts
    /\ jobState' = [jobState EXCEPT ![j] = "queued"]
    /\ owner' = [owner EXCEPT ![j] = 0]
    /\ UNCHANGED <<attempt, bound, stale, batchVars, proc>>

(* What every transaction that takes a job out of "running" does to the     *)
(* row; the heartbeat of a job that is not running is never read.           *)
Release(j, state) ==
    /\ jobState' = [jobState EXCEPT ![j] = state]
    /\ owner' = [owner EXCEPT ![j] = 0]
    /\ stale' = [stale EXCEPT ![j] = FALSE]

Cancel(j) ==
    /\ jobState[j] \in {"queued", "running"}
    /\ Release(j, "cancelled")
    /\ UNCHANGED <<attempt, bound, batchVars, proc>>

----
(* claim: recovery, then the oldest unlocked queued job.                    *)

Unresponsive == {j \in Jobs : jobState[j] = "running" /\ stale[j]}
Responsive == {j \in Jobs : jobState[j] = "running" /\ ~stale[j]}

(* Mutant: recovery gives an unresponsive job back to the queue. *)
RecoveredRequeued(late) ==
    [state |-> [j \in Jobs |->
        IF j \in Unresponsive \cup late THEN "queued" ELSE jobState[j]],
     owner |-> owner, stale |-> [j \in Jobs |-> FALSE], batch |-> batchState]

(* Mutant: recovery fails the batches and forgets their jobs. *)
RecoveredBatches(late) ==
    [state |-> jobState, owner |-> owner, stale |-> [j \in Jobs |-> FALSE],
     batch |-> [j \in Jobs |-> [a \in Attempts |->
        IF j \in Unresponsive /\ bound[j] = a /\ batchState[j][a] = "building"
        THEN "failed" ELSE batchState[j][a]]]]

(* The first UPDATE fails the building batches bound to the jobs that are   *)
(* unresponsive when it starts.  The second fails the jobs; it evaluates    *)
(* UNIX_TIMESTAMP() again, so `late` jobs whose 90 seconds end between the  *)
(* two statements are failed without their batch.  No stale job remains.    *)
Recovered(late) ==
    [state |-> [j \in Jobs |->
        IF j \in Unresponsive \cup late THEN "failed" ELSE jobState[j]],
     owner |-> [j \in Jobs |->
        IF j \in Unresponsive \cup late THEN 0 ELSE owner[j]],
     stale |-> [j \in Jobs |-> FALSE],
     batch |-> [j \in Jobs |-> [a \in Attempts |->
        IF j \in Unresponsive /\ bound[j] = a /\ batchState[j][a] = "building"
        THEN "failed" ELSE batchState[j][a]]]]

(* SKIP LOCKED: rows another transaction holds at that moment are passed    *)
(* over, so the oldest unlocked queued job can be any queued one.           *)
Claim(w) ==
    /\ proc[w].pc = "claim"
    /\ \E late \in SUBSET Responsive, j \in Jobs :
        LET r == Recovered(late)
            token == attempt[j] + 1
        IN  /\ jobState[j] = "queued"
            /\ batchState' = r.batch
            /\ jobState' = [r.state EXCEPT ![j] = "running"]
            /\ owner' = [r.owner EXCEPT ![j] = token]
            /\ attempt' = [attempt EXCEPT ![j] = token]
            /\ bound' = [bound EXCEPT ![j] = 0]
            /\ stale' = r.stale
            /\ proc' = [proc EXCEPT ![w] = [At("open") EXCEPT !.job = j, !.owner = token]]
    /\ UNCHANGED stored

(* Nothing is queued: the recovery commits all the same, and the worker     *)
(* goes on to collect.                                                      *)
ClaimNothing(w) ==
    /\ proc[w].pc = "claim"
    /\ \A j \in Jobs : jobState[j] # "queued"
    /\ \E late \in SUBSET Responsive :
        LET r == Recovered(late)
        IN  /\ batchState' = r.batch
            /\ jobState' = r.state
            /\ owner' = r.owner
            /\ stale' = r.stale
    /\ proc' = [proc EXCEPT ![w] = At("collect")]
    /\ UNCHANGED <<attempt, bound, stored>>

(* Mutant: the collector also takes batches that are being written. *)
CollectableUnready(j, a) == batchState[j][a] \in {"building", "failed"}

(* Mutant: the collector looks for rows, and never at an empty batch. *)
CollectableRows(j, a) == batchState[j][a] = "failed" /\ stored[j][a] > 0

(* SELECT ... WHERE state='failed' LIMIT 1. *)
Collectable(j, a) == batchState[j][a] = "failed"

(* store.collect_failed: one bounded step on one failed batch. *)
CollectFailed(w) ==
    /\ proc[w].pc = "collect"
    /\ proc' = [proc EXCEPT ![w] = At("claim")]
    /\ \/ \E j \in Jobs, a \in Attempts :
            /\ Collectable(j, a)
            /\ \/ /\ stored[j][a] > 0
                  /\ stored' = [stored EXCEPT ![j][a] = @ - 1]
                  /\ UNCHANGED batchState
               \/ /\ stored[j][a] = 0
                  /\ batchState' = [batchState EXCEPT ![j][a] = "gone"]
                  /\ UNCHANGED stored
       \/ /\ \A j \in Jobs, a \in Attempts : ~Collectable(j, a)
          /\ UNCHANGED batchVars
    /\ UNCHANGED jobVars

----
(* run_job: the main thread.  Any database call can also raise, before its  *)
(* commit (DbError) or after it, when only the answer is lost: an action    *)
(* with an effect then still goes to the exception path.                    *)

(* Mutant: any process of a running job may act for it. *)
HoldsUnfenced(w) == jobState[proc[w].job] = "running"

Holds(w) == jobState[proc[w].job] = "running" /\ owner[proc[w].job] = proc[w].owner

(* The state of the batch its writer owns. *)
Batch(w) == batchState[proc[w].job][proc[w].owner]
SetBatch(w, state) ==
    batchState' = [batchState EXCEPT ![proc[w].job][proc[w].owner] = state]

Goto(w, points) == \E p \in points : proc' = [proc EXCEPT ![w].pc = p]

(* with store.writer(...): BatchWriter.__enter__ inserts the batch.  An     *)
(* exception here skips __exit__, even if the insert has committed.         *)
OpenWriter(w) ==
    /\ proc[w].pc = "open"
    /\ SetBatch(w, "building")
    /\ Goto(w, {"bind", "fail"})
    /\ UNCHANGED <<jobVars, stored>>

Bind(w) ==
    /\ proc[w].pc = "bind"
    /\ \/ /\ Holds(w)
          /\ bound' = [bound EXCEPT ![proc[w].job] = proc[w].owner]
          /\ Goto(w, {"parse", "exit"})
       \/ /\ ~Holds(w)
          /\ Goto(w, {"exit"})
          /\ UNCHANGED bound
    /\ UNCHANGED <<jobState, owner, attempt, stale, batchVars>>

(* BatchWriter.start and flush insert tables and rows of this batch; the    *)
(* foreign key refuses them once the batch row is gone.                     *)
Write(w) ==
    /\ proc[w].pc = "parse"
    /\ proc[w].written < Pages
    /\ \/ /\ Batch(w) # "gone"
          /\ stored' = [stored EXCEPT ![proc[w].job][proc[w].owner] = @ + 1]
          /\ \E p \in {"beat", "exit"} :
               proc' = [proc EXCEPT ![w].pc = p, ![w].written = @ + 1]
       \/ /\ Batch(w) = "gone"
          /\ Goto(w, {"exit"})
          /\ UNCHANGED stored
    /\ UNCHANGED <<jobVars, batchState>>

(* flush's progress callback: the lost check, then jobs.heartbeat. *)
Progress(w) ==
    /\ proc[w].pc = "beat"
    /\ \/ /\ ~proc[w].lost /\ Holds(w)
          /\ stale' = [stale EXCEPT ![proc[w].job] = FALSE]
          /\ Goto(w, {"parse", "exit"})
       \/ /\ proc[w].lost \/ ~Holds(w)
          /\ Goto(w, {"exit"})
          /\ UNCHANGED stale
    /\ UNCHANGED <<jobState, owner, attempt, bound, batchVars>>

(* The parser returns; the second lost check. *)
Parsed(w) ==
    /\ proc[w].pc = "parse"
    /\ proc[w].written = Pages
    /\ Goto(w, {IF proc[w].lost THEN "exit" ELSE "publish"})
    /\ UNCHANGED <<jobVars, batchVars>>

(* Mutant: publish only looks at the batch. *)
MayPublishBatch(w) == Batch(w) = "building"

(* Mutant: publish compares the attempt, which outlives the lease. *)
MayPublishLatest(w) == proc[w].owner = attempt[proc[w].job]

(* jobs.publish: the batch becomes visible and the job completes in one     *)
(* transaction that holds the job's row.  If the answer to the commit is    *)
(* lost, writer.published stays False and the exception path runs.          *)
MayPublish(w) == Holds(w) /\ Batch(w) = "building"

Publish(w) ==
    /\ proc[w].pc = "publish"
    /\ \/ /\ MayPublish(w)
          /\ SetBatch(w, "ready")
          /\ Release(proc[w].job, "completed")
          /\ bound' = [bound EXCEPT ![proc[w].job] = proc[w].owner]
          /\ \/ proc' = [proc EXCEPT ![w] = At("claim")]
             \/ Goto(w, {"exit"})
       \/ /\ ~MayPublish(w)
          /\ Goto(w, {"exit"})
          /\ UNCHANGED <<batchState, jobState, owner, stale, bound>>
    /\ UNCHANGED <<attempt, stored>>

(* BatchWriter.__exit__ of an attempt that has not published. *)
Exit(w) ==
    /\ proc[w].pc = "exit"
    /\ SetBatch(w, IF Batch(w) = "building" THEN "failed" ELSE Batch(w))
    /\ Goto(w, {"fail"})
    /\ UNCHANGED <<jobVars, stored>>

(* jobs.fail: only the owner of a running job fails it. *)
Fail(w) ==
    /\ proc[w].pc = "fail"
    /\ \/ Holds(w) /\ Release(proc[w].job, "failed")
       \/ ~Holds(w) /\ UNCHANGED <<jobState, owner, stale>>
    /\ proc' = [proc EXCEPT ![w] = At("claim")]
    /\ UNCHANGED <<attempt, bound, batchVars>>

(* An exception without an effect: decryption or parsing fails, or the      *)
(* database cannot be reached, also from __exit__ and from jobs.fail.       *)
DbError(w) ==
    /\ \/ proc[w].pc \in {"bind", "parse", "beat", "publish"} /\ Goto(w, {"exit"})
       \/ proc[w].pc \in {"open", "exit"} /\ Goto(w, {"fail"})
       \/ proc[w].pc = "fail" /\ proc' = [proc EXCEPT ![w] = At("claim")]
    /\ UNCHANGED <<jobVars, batchVars>>

(* The heartbeat thread wakes every 10 seconds while run_job is in flight;  *)
(* any exception, the database's or the lost ownership, ends it.            *)
HeartbeatThread(w) ==
    /\ proc[w].pc \in InJob
    /\ ~proc[w].lost
    /\ \/ /\ Holds(w)
          /\ stale' = [stale EXCEPT ![proc[w].job] = FALSE]
          /\ UNCHANGED proc
       \/ /\ proc' = [proc EXCEPT ![w].lost = TRUE]
          /\ UNCHANGED stale
    /\ UNCHANGED <<jobState, owner, attempt, bound, batchVars>>

(* The process dies at any point of run_job; compose restarts it. *)
Crash(w) ==
    /\ proc[w].pc \in InJob
    /\ proc' = [proc EXCEPT ![w] = At("down")]
    /\ UNCHANGED <<jobVars, batchVars>>

Restart(w) ==
    /\ proc[w].pc = "down"
    /\ proc' = [proc EXCEPT ![w] = At("claim")]
    /\ UNCHANGED <<jobVars, batchVars>>

(* 90 seconds pass without a heartbeat: the worker is dead, suspended, or   *)
(* cannot reach the database.                                               *)
GoStale(j) ==
    /\ jobState[j] = "running"
    /\ ~stale[j]
    /\ stale' = [stale EXCEPT ![j] = TRUE]
    /\ UNCHANGED <<jobState, owner, attempt, bound, batchVars, proc>>

----
ApiStep == \E j \in Jobs : Create(j) \/ Retry(j) \/ Cancel(j)

MainThread(w) ==
    \/ Claim(w) \/ ClaimNothing(w) \/ CollectFailed(w)
    \/ OpenWriter(w) \/ Bind(w) \/ Write(w) \/ Progress(w) \/ Parsed(w)
    \/ Publish(w) \/ Exit(w) \/ Fail(w) \/ DbError(w)

Next ==
    \/ ApiStep
    \/ \E w \in Workers : MainThread(w) \/ HeartbeatThread(w) \/ Crash(w) \/ Restart(w)
    \/ \E j \in Jobs : GoStale(j)

Spec == Init /\ [][Next]_vars

(* No worker process holds the current attempt of a running job: nothing    *)
(* will ever refresh its heartbeat.                                         *)
Abandoned(j) ==
    /\ jobState[j] = "running"
    /\ ~ \E w \in Workers : 
         proc[w].pc \in InJob /\ proc[w].job = j /\ proc[w].owner = owner[j]

(* A live worker's main thread keeps running (every database call returns   *)
(* within its read_timeout), a dead process is restarted                    *)
(* (restart: unless-stopped), and time passes for an abandoned heartbeat.   *)
(* Nothing is assumed of users, of the heartbeat thread or of crashes.      *)
Fairness ==
    /\ \A w \in Workers : WF_vars(MainThread(w)) /\ WF_vars(Restart(w))
    /\ \A j \in Jobs : WF_vars(Abandoned(j) /\ GoStale(j))

FairSpec == Spec /\ Fairness
----
(* Safety.                                                                  *)

(* A visible batch is the batch of the latest claim of a completed job, the *)
(* one the job's row names; so however often a job was cancelled, retried   *)
(* or recovered while older processes were still parsing it, at most one    *)
(* of its attempts is ever visible (jobs.publish's fencing).                *)
PublishedOnce ==
    \A j \in Jobs, a \in Attempts :
        batchState[j][a] = "ready" =>
            jobState[j] = "completed" /\ bound[j] = a /\ attempt[j] = a

(* A visible batch holds every table and row the parser delivered: nobody   *)
(* collected a part of it, and no half-parsed batch was published.          *)
ReadyIsComplete ==
    \A j \in Jobs, a \in Attempts :
        batchState[j][a] = "ready" => stored[j][a] = Pages

(* Concurrent uploads and retries never push the queue over its limit, and  *)
(* recovery and publication never raise it (jobs._admit's guard row).       *)
QueueBounded == Cardinality(Pending) <= MaxPending

(* What cleanup.py relies on: a completed job is never retried, cancelled,  *)
(* failed or published again, and its batch never changes state or content. *)
CompletedIsFinal ==
    [][\A j \in Jobs : jobState[j] = "completed" =>
          /\ jobState'[j] = "completed" /\ bound'[j] = bound[j]
          /\ \A a \in Attempts : a = bound[j] =>
                /\ batchState'[j][a] = batchState[j][a]
                /\ stored'[j][a] = stored[j][a]]_vars

(* A batch that was failed, by its own process or by another's recovery, is *)
(* never revived by the process that still writes it.                       *)
FailedIsFinal ==
    [][\A j \in Jobs, a \in Attempts :
          batchState[j][a] \in {"failed", "gone"} =>
              batchState'[j][a] \in {"failed", "gone"}]_vars

(* What has ended stays ended.                                              *)
FinishedIsFinal == CompletedIsFinal /\ FailedIsFinal

(* The queue implements publish-once visibility: seen from the batch list,  *)
(* a job has no batch, then for ever the batch of one attempt.              *)
visible == [j \in Jobs |-> {a \in Attempts : batchState[j][a] = "ready"}]
Once == INSTANCE PublishOnce WITH Keys <- Jobs, Values <- Attempts, shown <- visible
ImplementsPublishOnce == Once!Spec

(* Liveness, under Fairness.                                                *)

(* A queued job is eventually completed, failed or cancelled: no crash,     *)
(* lost heartbeat or lost database answer leaves it running forever.        *)
UnfinishedSettles ==
    \A j \in Jobs : jobState[j] = "queued" ~>
                     jobState[j] \in {"completed", "failed", "cancelled"}

(* What is marked failed is eventually removed, rows first, even if its     *)
(* process is still inserting rows.                                         *)
FailedIsCollected ==
    \A j \in Jobs, a \in Attempts :
        batchState[j][a] = "failed" ~> batchState[j][a] = "gone"

(* docs/intake.md:25 says that failed attempts are cleaned up by the worker *)
(* in small batches, and store.py:292 that bounded garbage collection is    *)
(* performed by the worker: no attempt stays "building" for ever.           *)
EveryAttemptEnds ==
    \A j \in Jobs, a \in Attempts :
        batchState[j][a] = "building" ~> batchState[j][a] # "building"
====
