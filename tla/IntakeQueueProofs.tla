---- MODULE IntakeQueueProofs ----
(* Proofs about IntakeQueue, for every number of jobs, attempts, pages and  *)
(* worker processes.  Inv is the inductive invariant: the row of a job, the *)
(* batches of its attempts and the program counters of the processes that   *)
(* still hold one of them agree.  Then about Uploads, for every number of   *)
(* clients, slots, queue places and files.                                  *)
EXTENDS MCIntake, FiniteSetTheorems, TLAPS

(* A claim token is drawn once, so two processes never hold the same one,   *)
(* and none is newer than the job's row.                                    *)
TokensFenced ==
    /\ \A w \in Workers : proc[w].pc \in InJob =>
          /\ proc[w].owner \in Attempts
          /\ proc[w].owner <= attempt[proc[w].job]
    /\ \A v, w \in Workers :
          /\ v # w
          /\ proc[v].pc \in InJob
          /\ proc[w].pc \in InJob
          /\ proc[v].job = proc[w].job
          => proc[v].owner # proc[w].owner

(* The row of a job. *)
RowsAgree ==
    \A j \in Jobs :
        /\ jobState[j] = "absent" => attempt[j] = 0
        /\ jobState[j] = "queued" => attempt[j] < MaxAttempts
        /\ jobState[j] = "running" => owner[j] = attempt[j]
        /\ jobState[j] = "completed" =>
              bound[j] \in Attempts /\ batchState[j][bound[j]] = "ready"
        /\ \A a \in Attempts : a > attempt[j] =>
              batchState[j][a] = "absent" /\ stored[j][a] = 0

(* A process before its writer opens, and one that may still publish. *)
Writing == {"bind", "parse", "beat", "publish"}

WriterAgrees(w) ==
    LET rows == stored[proc[w].job][proc[w].owner] IN
    /\ proc[w].pc = "open" => Batch(w) = "absent" /\ rows = 0 /\ proc[w].written = 0
    /\ proc[w].pc \in InJob => rows <= proc[w].written
    /\ proc[w].pc \in Writing =>
          Batch(w) # "ready" /\ (Batch(w) = "building" => rows = proc[w].written)
    /\ proc[w].pc = "publish" => proc[w].written = Pages

WritersAgree == \A w \in Workers : WriterAgrees(w)

Inv ==
    /\ TypeOK
    /\ TokensFenced
    /\ RowsAgree
    /\ WritersAgree
    /\ PublishedOnce
    /\ ReadyIsComplete
----
(* What the updates of a process, a batch and a job's row do, point by      *)
(* point: the proofs of the steps use these facts, not the EXCEPTs.         *)

LEMMA ProcessType ==
    ASSUME TypeOK, NEW w \in Workers
    PROVE  /\ proc[w] \in Process
           /\ proc[w].job \in Jobs
           /\ proc[w].owner \in 0 .. MaxAttempts
           /\ proc[w].written \in 0 .. Pages
  BY DEF TypeOK, Process

Others(w) == \A v \in Workers : v # w => proc'[v] = proc[v]

KeepsJob(w) ==
    /\ proc'[w].job = proc[w].job
    /\ proc'[w].owner = proc[w].owner
    /\ Others(w)
    /\ proc' \in [Workers -> Process]

LEMMA GotoEffect ==
    ASSUME TypeOK, NEW w \in Workers, NEW points \in SUBSET InJob, Goto(w, points)
    PROVE  KeepsJob(w) /\ proc'[w].pc \in points /\ proc'[w].written = proc[w].written
<1>1. PICK p \in points : proc' = [proc EXCEPT ![w] = [proc[w] EXCEPT !.pc = p]]
  BY DEF Goto
<1>2. [proc[w] EXCEPT !.pc = p] \in Process
  BY ProcessType DEF Process
<1>3. proc'[w] = [proc[w] EXCEPT !.pc = p] /\ Others(w) /\ proc' \in [Workers -> Process]
  BY <1>1, <1>2 DEF TypeOK, Others
<1>4. QED
  BY <1>3, ProcessType DEF KeepsJob, Process

LEMMA LostEffect ==
    ASSUME TypeOK, NEW w \in Workers, proc' = [proc EXCEPT ![w].lost = TRUE]
    PROVE  KeepsJob(w) /\ proc'[w].pc = proc[w].pc /\ proc'[w].written = proc[w].written
<1>1. [proc[w] EXCEPT !.lost = TRUE] \in Process
  BY ProcessType DEF Process
<1>2. proc'[w] = [proc[w] EXCEPT !.lost = TRUE] /\ Others(w) /\ proc' \in [Workers -> Process]
  BY <1>1 DEF TypeOK, Others
<1>3. QED
  BY <1>2, ProcessType DEF KeepsJob, Process

LEMMA WrittenEffect ==
    ASSUME TypeOK, NEW w \in Workers, NEW p \in InJob, proc[w].written < Pages,
           proc' = [proc EXCEPT ![w].pc = p, ![w].written = @ + 1]
    PROVE  KeepsJob(w) /\ proc'[w].pc = p /\ proc'[w].written = proc[w].written + 1
<1>1. proc[w].written + 1 \in 0 .. Pages
  BY ProcessType, QueueConstants
<1> DEFINE r == [proc[w] EXCEPT !.pc = p, !.written = proc[w].written + 1]
<1>2. r \in Process /\ r.pc = p /\ r.written = proc[w].written + 1
        /\ r.job = proc[w].job /\ r.owner = proc[w].owner
  BY ProcessType, <1>1 DEF Process
<1>3. proc' = [proc EXCEPT ![w] = r]
  BY DEF TypeOK
<1>4. proc'[w] = r /\ Others(w) /\ proc' \in [Workers -> Process]
  BY <1>2, <1>3 DEF TypeOK, Others
<1>5. QED
  BY <1>2, <1>4 DEF KeepsJob

LEMMA AtEffect ==
    ASSUME TypeOK, NEW w \in Workers, NEW p \in OutOfJob, proc' = [proc EXCEPT ![w] = At(p)]
    PROVE  Others(w) /\ proc' \in [Workers -> Process] /\ proc'[w].pc = p
<1>1. At(p) \in Process /\ At(p).pc = p
  BY QueueConstants DEF At, Process, OutOfJob, Jobs
<1>2. QED
  BY <1>1 DEF TypeOK, Others

LEMMA OpenEffect ==
    ASSUME TypeOK, NEW w \in Workers, NEW j \in Jobs, NEW a \in 0 .. MaxAttempts,
           proc' = [proc EXCEPT ![w] = [At("open") EXCEPT !.job = j, !.owner = a]]
    PROVE  /\ Others(w)
           /\ proc' \in [Workers -> Process]
           /\ proc'[w].pc = "open" /\ proc'[w].job = j /\ proc'[w].owner = a
           /\ proc'[w].written = 0
<1> DEFINE r == [At("open") EXCEPT !.job = j, !.owner = a]
<1>1. "open" \in InJob \cup OutOfJob /\ 0 \in 0 .. Pages /\ 0 \in 0 .. MaxAttempts /\ 1 \in Jobs
  BY QueueConstants DEF InJob, Jobs
<1>2. At("open") \in Process /\ At("open").pc = "open" /\ At("open").written = 0
  BY <1>1 DEF At, Process
<1>3. /\ r \in Process
      /\ r.pc = "open" /\ r.job = j /\ r.owner = a /\ r.written = 0
  BY <1>2 DEF Process
<1>4. proc'[w] = r /\ Others(w) /\ proc' \in [Workers -> Process]
  BY <1>3 DEF TypeOK, Others
<1>5. QED
  BY <1>3, <1>4

LEMMA SetBatchEffect ==
    ASSUME TypeOK, NEW w \in Workers, proc[w].owner \in Attempts,
           NEW s \in BatchStates, SetBatch(w, s)
    PROVE  /\ batchState' \in [Jobs -> [Attempts -> BatchStates]]
           /\ \A j \in Jobs, a \in Attempts : batchState'[j][a] =
                 IF j = proc[w].job /\ a = proc[w].owner THEN s ELSE batchState[j][a]
  BY ProcessType DEF TypeOK, SetBatch

LEMMA ReleaseEffect ==
    ASSUME TypeOK, NEW j \in Jobs, NEW s \in JobStates, Release(j, s)
    PROVE  /\ jobState' \in [Jobs -> JobStates]
           /\ owner' \in [Jobs -> 0 .. MaxAttempts]
           /\ stale' \in [Jobs -> BOOLEAN]
           /\ \A i \in Jobs : /\ jobState'[i] = IF i = j THEN s ELSE jobState[i]
                              /\ owner'[i] = IF i = j THEN 0 ELSE owner[i]
  BY QueueConstants DEF TypeOK, Release

LEMMA RecoveredEffect ==
    ASSUME TypeOK, NEW late \in SUBSET Responsive
    PROVE  /\ Recovered(late).state \in [Jobs -> JobStates]
           /\ Recovered(late).owner \in [Jobs -> 0 .. MaxAttempts]
           /\ Recovered(late).stale \in [Jobs -> BOOLEAN]
           /\ Recovered(late).batch \in [Jobs -> [Attempts -> BatchStates]]
           /\ \A j \in Jobs :
                 \/ /\ Recovered(late).state[j] = jobState[j]
                    /\ Recovered(late).owner[j] = owner[j]
                 \/ jobState[j] = "running" /\ Recovered(late).state[j] = "failed"
           /\ \A j \in Jobs, a \in Attempts :
                 \/ Recovered(late).batch[j][a] = batchState[j][a]
                 \/ batchState[j][a] = "building" /\ Recovered(late).batch[j][a] = "failed"
<1>1. /\ Recovered(late).state = [j \in Jobs |->
            IF j \in Unresponsive \cup late THEN "failed" ELSE jobState[j]]
      /\ Recovered(late).owner = [j \in Jobs |->
            IF j \in Unresponsive \cup late THEN 0 ELSE owner[j]]
      /\ Recovered(late).stale = [j \in Jobs |-> FALSE]
      /\ Recovered(late).batch = [j \in Jobs |-> [a \in Attempts |->
            IF j \in Unresponsive /\ bound[j] = a /\ batchState[j][a] = "building"
            THEN "failed" ELSE batchState[j][a]]]
  BY DEF Recovered
<1>2. /\ Recovered(late).state \in [Jobs -> JobStates]
      /\ Recovered(late).owner \in [Jobs -> 0 .. MaxAttempts]
      /\ Recovered(late).stale \in [Jobs -> BOOLEAN]
  BY <1>1, QueueConstants DEF TypeOK, JobStates
<1>3. Recovered(late).batch \in [Jobs -> [Attempts -> BatchStates]]
  BY <1>1 DEF TypeOK, BatchStates
<1>4. QED
  BY <1>1, <1>2, <1>3 DEF Unresponsive, Responsive

----
(* Steps that neither claim, publish nor enqueue. *)

(* The row of j keeps what it says, or an unfinished job ends unpublished;  *)
(* bind may name a batch.                                                   *)
JobQuiet(j) ==
    /\ attempt'[j] = attempt[j]
    /\ \/ /\ jobState'[j] = jobState[j] /\ owner'[j] = owner[j]
          /\ bound'[j] = bound[j] \/ jobState[j] = "running"
       \/ jobState[j] \in {"queued", "running"} /\ jobState'[j] \in {"failed", "cancelled"}

(* The batch of attempt a is neither published nor taken back. *)
BatchQuiet(j, a) ==
    \/ batchState'[j][a] = batchState[j][a] /\ stored'[j][a] = stored[j][a]
    \/ /\ a <= attempt[j]
       /\ batchState[j][a] # "ready" /\ batchState'[j][a] # "ready"
       /\ batchState[j][a] \in {"failed", "gone"} =>
             batchState'[j][a] \in {"failed", "gone"}

Quiet ==
    /\ \A j \in Jobs : JobQuiet(j)
    /\ \A j \in Jobs, a \in Attempts : BatchQuiet(j, a)

(* What the other theorems need to know of a step: it settles jobs at most, *)
(* it enqueues one that was admitted, or it publishes one batch.            *)
Unfinished == {"queued", "running"}

Settles ==
    /\ \A j \in Jobs :
          /\ jobState[j] = "completed" => jobState'[j] = "completed" /\ bound'[j] = bound[j]
          /\ jobState'[j] \in Unfinished => jobState[j] \in Unfinished
    /\ \A j \in Jobs, a \in Attempts : BatchQuiet(j, a)

Enqueues(j) ==
    /\ Admitted
    /\ jobState[j] # "completed"
    /\ jobState' = [jobState EXCEPT ![j] = "queued"]
    /\ UNCHANGED <<bound, batchVars>>

Publishes(j, a) ==
    /\ jobState[j] = "running" /\ batchState[j][a] = "building"
    /\ \A b \in Attempts : batchState[j][b] # "ready"
    /\ \A i \in Jobs : jobState'[i] = IF i = j THEN "completed" ELSE jobState[i]
    /\ \A i \in Jobs : i # j => bound'[i] = bound[i]
    /\ \A i \in Jobs, b \in Attempts : batchState'[i][b] =
          IF i = j /\ b = a THEN "ready" ELSE batchState[i][b]
    /\ UNCHANGED stored

Effect ==
    \/ Settles
    \/ \E j \in Jobs : Enqueues(j)
    \/ \E j \in Jobs, a \in Attempts : Publishes(j, a)

LEMMA QuietSettles == Quiet => Settles
  BY DEF Quiet, JobQuiet, Settles, Unfinished

LEMMA QuietRows ==
    ASSUME TypeOK, RowsAgree, PublishedOnce, ReadyIsComplete, Quiet
    PROVE  RowsAgree' /\ PublishedOnce' /\ ReadyIsComplete'
<1>1. RowsAgree'
  <2> SUFFICES ASSUME NEW j \in Jobs
      PROVE  /\ jobState'[j] = "absent" => attempt'[j] = 0
             /\ jobState'[j] = "queued" => attempt'[j] < MaxAttempts
             /\ jobState'[j] = "running" => owner'[j] = attempt'[j]
             /\ jobState'[j] = "completed" =>
                   bound'[j] \in Attempts /\ batchState'[j][bound'[j]] = "ready"
             /\ \A a \in Attempts : a > attempt'[j] =>
                   batchState'[j][a] = "absent" /\ stored'[j][a] = 0
    BY DEF RowsAgree
  <2>1. /\ jobState[j] = "absent" => attempt[j] = 0
        /\ jobState[j] = "queued" => attempt[j] < MaxAttempts
        /\ jobState[j] = "running" => owner[j] = attempt[j]
        /\ jobState[j] = "completed" =>
              bound[j] \in Attempts /\ batchState[j][bound[j]] = "ready"
        /\ \A a \in Attempts : a > attempt[j] =>
              batchState[j][a] = "absent" /\ stored[j][a] = 0
        /\ attempt[j] \in Nat
    BY DEF RowsAgree, TypeOK
  <2>2. JobQuiet(j) /\ \A a \in Attempts : BatchQuiet(j, a)
    BY DEF Quiet
  <2>3. \A a \in Attempts : a > attempt[j] =>
            batchState'[j][a] = batchState[j][a] /\ stored'[j][a] = stored[j][a]
    BY <2>1, <2>2 DEF BatchQuiet, Attempts
  <2>4. jobState'[j] = "completed" =>
            bound'[j] = bound[j] /\ jobState[j] = "completed"
    BY <2>2 DEF JobQuiet
  <2>5. \A a \in Attempts : batchState[j][a] = "ready" => batchState'[j][a] = "ready"
    BY <2>2 DEF BatchQuiet
  <2>6. QED
    BY <2>1, <2>2, <2>3, <2>4, <2>5 DEF JobQuiet
<1>2. \A j \in Jobs, a \in Attempts : batchState'[j][a] = "ready" =>
          batchState[j][a] = "ready" /\ stored'[j][a] = stored[j][a]
  BY DEF Quiet, BatchQuiet
<1>3. \A j \in Jobs : jobState[j] = "completed" =>
          jobState'[j] = "completed" /\ bound'[j] = bound[j] /\ attempt'[j] = attempt[j]
  BY DEF Quiet, JobQuiet
<1>4. QED
  BY <1>1, <1>2, <1>3 DEF PublishedOnce, ReadyIsComplete

(* The process w goes on with its job, or leaves it. *)
Moves(w) ==
    \/ KeepsJob(w) /\ proc[w].pc \in InJob
    \/ Others(w) /\ proc'[w].pc \notin InJob

LEMMA MoveTokens ==
    ASSUME TokensFenced, attempt' = attempt, NEW w \in Workers, Moves(w)
    PROVE  TokensFenced'
<1>1. \A v \in Workers : proc'[v].pc \in InJob =>
          /\ proc[v].pc \in InJob
          /\ proc'[v].job = proc[v].job
          /\ proc'[v].owner = proc[v].owner
  BY DEF Moves, KeepsJob, Others
<1>2. QED
  BY <1>1 DEF TokensFenced

(* The batch of a process that is not w at most loses rows and its state.   *)
BatchDecays(j, a) ==
    \/ batchState'[j][a] = batchState[j][a] /\ stored'[j][a] = stored[j][a]
    \/ /\ batchState[j][a] \in {"building", "failed"}
       /\ batchState'[j][a] \in {"failed", "gone"}
       /\ stored'[j][a] <= stored[j][a]

LEMMA OthersAgree ==
    ASSUME TypeOK, WritersAgree, NEW v \in Workers, proc'[v] = proc[v],
           stored' \in [Jobs -> [Attempts -> 0 .. Pages]],
           proc[v].pc \in InJob => /\ proc[v].owner \in Attempts
                                  /\ BatchDecays(proc[v].job, proc[v].owner)
    PROVE  WriterAgrees(v)'
<1>1. WriterAgrees(v) /\ proc[v].job \in Jobs /\ proc[v].written \in 0 .. Pages
  BY ProcessType DEF WritersAgree
<1>2. CASE proc[v].pc \in InJob
  <2>1. /\ stored[proc[v].job][proc[v].owner] \in 0 .. Pages
        /\ stored'[proc[v].job][proc[v].owner] \in 0 .. Pages
    BY <1>1, <1>2 DEF TypeOK
  <2>2. QED
    BY <1>1, <1>2, <2>1, QueueConstants DEF WriterAgrees, BatchDecays, Batch, Writing, InJob
<1>3. CASE proc[v].pc \notin InJob
  BY <1>3 DEF WriterAgrees, Writing, InJob
<1>4. QED
  BY <1>2, <1>3

LEMMA LeaverAgrees ==
    ASSUME NEW w \in Workers, proc'[w].pc \notin InJob
    PROVE  WriterAgrees(w)'
  BY DEF WriterAgrees, Writing, InJob

(* A step in which w changes at most its own batch leaves those of other    *)
(* processes alone.                                                         *)
OnlyOwnBatch(w) ==
    \A j \in Jobs, a \in Attempts : j # proc[w].job \/ a # proc[w].owner =>
        batchState'[j][a] = batchState[j][a] /\ stored'[j][a] = stored[j][a]

OthersDecay(w) ==
    \A v \in Workers : v # w /\ proc[v].pc \in InJob =>
        BatchDecays(proc[v].job, proc[v].owner)

LEMMA OwnBatch ==
    ASSUME TypeOK, TokensFenced, NEW w \in Workers, proc[w].pc \in InJob, OnlyOwnBatch(w)
    PROVE  OthersDecay(w)
<1>1. \A v \in Workers : v # w /\ proc[v].pc \in InJob =>
          /\ proc[v].job \in Jobs /\ proc[v].owner \in Attempts
          /\ proc[v].job # proc[w].job \/ proc[v].owner # proc[w].owner
  BY ProcessType DEF TokensFenced
<1>2. QED
  BY <1>1 DEF OnlyOwnBatch, OthersDecay, BatchDecays

LEMMA QuietInv ==
    ASSUME Inv, TypeOK', Quiet, attempt' = attempt, NEW w \in Workers, Moves(w),
           OthersDecay(w), WriterAgrees(w)'
    PROVE  Inv' /\ Effect
<1>1. TokensFenced'
  BY MoveTokens DEF Inv
<1>2. RowsAgree' /\ PublishedOnce' /\ ReadyIsComplete'
  BY QuietRows DEF Inv
<1>3. ASSUME NEW v \in Workers, v # w PROVE WriterAgrees(v)'
  <2>1. proc'[v] = proc[v]
    BY <1>3 DEF Moves, KeepsJob, Others
  <2>2. stored' \in [Jobs -> [Attempts -> 0 .. Pages]]
    BY DEF TypeOK
  <2>3. proc[v].pc \in InJob =>
            proc[v].owner \in Attempts /\ BatchDecays(proc[v].job, proc[v].owner)
    BY <1>3 DEF OthersDecay, Inv, TokensFenced
  <2>4. QED
    BY <2>1, <2>2, <2>3, OthersAgree DEF Inv
<1>4. WritersAgree'
  BY <1>3 DEF WritersAgree
<1>5. QED
  BY <1>1, <1>2, <1>4, QuietSettles DEF Inv, Effect

LEMMA InitInv == Init => Inv
<1> SUFFICES ASSUME Init PROVE Inv
  OBVIOUS
<1>1. \A w \in Workers : proc[w] = At("claim") /\ proc[w].pc = "claim"
  BY DEF Init, At
<1>2. At("claim") \in Process
  BY QueueConstants DEF At, Process, OutOfJob, Jobs
<1>3. TypeOK
  BY QueueConstants, <1>2 DEF Init, TypeOK, JobStates, BatchStates
<1>4. QED
  BY <1>1, <1>3, QueueConstants
  DEF Init, Inv, TokensFenced, RowsAgree, WritersAgree, WriterAgrees, Writing, PublishedOnce, ReadyIsComplete, InJob

----
(* The steps, one lemma for each kind. *)

LEMMA CreateInv ==
    ASSUME Inv, NEW j \in Jobs, Create(j)
    PROVE  Inv' /\ Effect
<1>0. /\ TypeOK /\ TokensFenced /\ RowsAgree /\ WritersAgree
      /\ PublishedOnce /\ ReadyIsComplete
  BY DEF Inv
<1>1. TypeOK' /\ TokensFenced' /\ WritersAgree'
  BY <1>0, QueueConstants DEF Create, batchVars, TypeOK, JobStates, TokensFenced, WritersAgree, WriterAgrees, Batch, Writing, InJob
<1>2. RowsAgree'
  BY <1>0, QueueConstants, SMTT(20) DEF Create, batchVars, RowsAgree, TypeOK, PublishedOnce
<1>3. PublishedOnce' /\ ReadyIsComplete'
  BY <1>0, SMTT(20) DEF Create, batchVars, TypeOK, PublishedOnce, ReadyIsComplete
<1>4. Enqueues(j)
  BY DEF Create, batchVars, Enqueues
<1>5. QED
  BY <1>1, <1>2, <1>3, <1>4 DEF Inv, Effect

LEMMA RetryInv ==
    ASSUME Inv, NEW j \in Jobs, Retry(j)
    PROVE  Inv' /\ Effect
<1>0. /\ TypeOK /\ TokensFenced /\ RowsAgree /\ WritersAgree
      /\ PublishedOnce /\ ReadyIsComplete
  BY DEF Inv
<1>1. TypeOK' /\ TokensFenced' /\ WritersAgree'
  BY <1>0, QueueConstants DEF Retry, batchVars, TypeOK, JobStates, TokensFenced, WritersAgree, WriterAgrees, Batch, Writing, InJob
<1>2. RowsAgree'
  BY <1>0, QueueConstants, SMTT(20) DEF Retry, batchVars, RowsAgree, TypeOK, PublishedOnce
<1>3. PublishedOnce' /\ ReadyIsComplete'
  BY <1>0, SMTT(20) DEF Retry, batchVars, TypeOK, PublishedOnce, ReadyIsComplete
<1>4. Enqueues(j)
  BY DEF Retry, batchVars, Enqueues
<1>5. QED
  BY <1>1, <1>2, <1>3, <1>4 DEF Inv, Effect

LEMMA CancelInv ==
    ASSUME Inv, NEW j \in Jobs, Cancel(j)
    PROVE  Inv' /\ Effect
<1>0. /\ TypeOK /\ TokensFenced /\ RowsAgree /\ WritersAgree
      /\ PublishedOnce /\ ReadyIsComplete
  BY DEF Inv
<1>1. TypeOK' /\ TokensFenced' /\ WritersAgree'
  BY <1>0, ReleaseEffect, QueueConstants DEF Cancel, batchVars, TypeOK, JobStates, TokensFenced, WritersAgree, WriterAgrees, Batch, Writing, InJob
<1>2. Quiet
  BY <1>0, ReleaseEffect DEF Cancel, batchVars, JobStates, Quiet, JobQuiet, BatchQuiet
<1>3. RowsAgree' /\ PublishedOnce' /\ ReadyIsComplete'
  BY <1>0, <1>2, QuietRows
<1>4. QED
  BY <1>1, <1>2, <1>3, QuietSettles DEF Inv, Effect

LEMMA GoStaleInv ==
    ASSUME Inv, NEW j \in Jobs, GoStale(j)
    PROVE  Inv' /\ Effect
<1>0. /\ TypeOK /\ TokensFenced /\ RowsAgree /\ WritersAgree
      /\ PublishedOnce /\ ReadyIsComplete
  BY DEF Inv
<1>1. TypeOK' /\ TokensFenced' /\ WritersAgree'
  BY <1>0, ReleaseEffect, QueueConstants DEF GoStale, batchVars, TypeOK, JobStates, TokensFenced, WritersAgree, WriterAgrees, Batch, Writing, InJob
<1>2. Quiet
  BY <1>0 DEF GoStale, batchVars, Quiet, JobQuiet, BatchQuiet
<1>3. RowsAgree' /\ PublishedOnce' /\ ReadyIsComplete'
  BY <1>0, <1>2, QuietRows
<1>4. QED
  BY <1>1, <1>2, <1>3, QuietSettles DEF Inv, Effect

LEMMA CrashInv ==
    ASSUME Inv, NEW w \in Workers, Crash(w)
    PROVE  Inv' /\ Effect
<1>0. /\ TypeOK /\ TokensFenced /\ RowsAgree /\ WritersAgree
      /\ PublishedOnce /\ ReadyIsComplete
  BY DEF Inv
<1>1. Others(w) /\ proc' \in [Workers -> Process] /\ proc'[w].pc = "down"
  BY <1>0, AtEffect DEF Crash, OutOfJob
<1>2. TypeOK' /\ attempt' = attempt
  BY <1>0, <1>1 DEF Crash, jobVars, batchVars, TypeOK
<1>3. Quiet /\ OthersDecay(w)
  BY DEF Crash, jobVars, batchVars, Quiet, JobQuiet, BatchQuiet, OthersDecay, BatchDecays
<1>4. Moves(w) /\ WriterAgrees(w)'
  BY <1>1, LeaverAgrees DEF Moves, InJob
<1>5. QED
  BY <1>2, <1>3, <1>4, QuietInv

LEMMA RestartInv ==
    ASSUME Inv, NEW w \in Workers, Restart(w)
    PROVE  Inv' /\ Effect
<1>0. /\ TypeOK /\ TokensFenced /\ RowsAgree /\ WritersAgree
      /\ PublishedOnce /\ ReadyIsComplete
  BY DEF Inv
<1>1. Others(w) /\ proc' \in [Workers -> Process] /\ proc'[w].pc = "claim"
  BY <1>0, AtEffect DEF Restart, OutOfJob
<1>2. TypeOK' /\ attempt' = attempt
  BY <1>0, <1>1 DEF Restart, jobVars, batchVars, TypeOK
<1>3. Quiet /\ OthersDecay(w)
  BY DEF Restart, jobVars, batchVars, Quiet, JobQuiet, BatchQuiet, OthersDecay, BatchDecays
<1>4. Moves(w) /\ WriterAgrees(w)'
  BY <1>1, LeaverAgrees DEF Moves, InJob
<1>5. QED
  BY <1>2, <1>3, <1>4, QuietInv

LEMMA FailInv ==
    ASSUME Inv, NEW w \in Workers, Fail(w)
    PROVE  Inv' /\ Effect
<1>0. /\ TypeOK /\ TokensFenced /\ RowsAgree /\ WritersAgree
      /\ PublishedOnce /\ ReadyIsComplete
  BY DEF Inv
<1>1. Others(w) /\ proc' \in [Workers -> Process] /\ proc'[w].pc = "claim"
  BY <1>0, AtEffect DEF Fail, OutOfJob
<1>2. /\ jobState' \in [Jobs -> JobStates]
      /\ owner' \in [Jobs -> 0 .. MaxAttempts]
      /\ stale' \in [Jobs -> BOOLEAN]
      /\ \A i \in Jobs : \/ jobState'[i] = jobState[i] /\ owner'[i] = owner[i]
                         \/ jobState[i] = "running" /\ jobState'[i] = "failed"
  BY <1>0, ProcessType, ReleaseEffect DEF Fail, Holds, JobStates, TypeOK
<1>3. TypeOK' /\ attempt' = attempt
  BY <1>0, <1>1, <1>2 DEF Fail, batchVars, TypeOK
<1>4. Quiet /\ OthersDecay(w)
  BY <1>2 DEF Fail, batchVars, Quiet, JobQuiet, BatchQuiet, OthersDecay, BatchDecays
<1>5. Moves(w) /\ WriterAgrees(w)'
  BY <1>1, LeaverAgrees DEF Moves, InJob
<1>6. QED
  BY <1>3, <1>4, <1>5, QuietInv

LEMMA ClaimNothingInv ==
    ASSUME Inv, NEW w \in Workers, ClaimNothing(w)
    PROVE  Inv' /\ Effect
<1>0. /\ TypeOK /\ TokensFenced /\ RowsAgree /\ WritersAgree
      /\ PublishedOnce /\ ReadyIsComplete
  BY DEF Inv
<1>1. Others(w) /\ proc' \in [Workers -> Process] /\ proc'[w].pc = "collect"
  BY <1>0, AtEffect DEF ClaimNothing, OutOfJob
<1>2. PICK late \in SUBSET Responsive :
      /\ batchState' = Recovered(late).batch /\ jobState' = Recovered(late).state
      /\ owner' = Recovered(late).owner /\ stale' = Recovered(late).stale
  BY DEF ClaimNothing
<1>3. TypeOK' /\ attempt' = attempt
  BY <1>0, <1>1, <1>2, RecoveredEffect DEF ClaimNothing, TypeOK
<1>4. /\ \A j \in Jobs, a \in Attempts : BatchDecays(j, a)
      /\ \A j \in Jobs, a \in Attempts :
            \/ batchState'[j][a] = batchState[j][a]
            \/ batchState[j][a] = "building" /\ batchState'[j][a] = "failed"
  <2>1. \A j \in Jobs, a \in Attempts : stored'[j][a] = stored[j][a] /\ stored[j][a] \in 0 .. Pages
    BY <1>0 DEF ClaimNothing, TypeOK
  <2>2. \A j \in Jobs, a \in Attempts :
            \/ batchState'[j][a] = batchState[j][a]
            \/ batchState[j][a] = "building" /\ batchState'[j][a] = "failed"
    BY <1>0, <1>2, RecoveredEffect
  <2>3. \A j \in Jobs, a \in Attempts : stored'[j][a] <= stored[j][a]
    BY <2>1
  <2>4. ASSUME NEW j \in Jobs, NEW a \in Attempts PROVE BatchDecays(j, a)
    BY <2>1, <2>2, <2>3 DEF BatchDecays
  <2>5. QED
    BY <2>2, <2>4
<1>5. \A j \in Jobs, a \in Attempts : batchState[j][a] # "absent" => a <= attempt[j]
  BY <1>0 DEF RowsAgree, TypeOK, Attempts
<1>6. Quiet
  BY <1>0, <1>2, <1>4, <1>5, RecoveredEffect DEF ClaimNothing, Quiet, JobQuiet, BatchQuiet
<1>7. OthersDecay(w)
  BY <1>0, <1>4, ProcessType DEF OthersDecay, TokensFenced
<1>8. Moves(w) /\ WriterAgrees(w)'
  BY <1>1, LeaverAgrees DEF Moves, InJob
<1>9. QED
  BY <1>3, <1>6, <1>7, <1>8, QuietInv

(* What collect_failed does to the batches. *)
Collected ==
    /\ batchState' \in [Jobs -> [Attempts -> BatchStates]]
    /\ stored' \in [Jobs -> [Attempts -> 0 .. Pages]]
    /\ \A j \in Jobs, a \in Attempts :
          \/ batchState'[j][a] = batchState[j][a] /\ stored'[j][a] = stored[j][a]
          \/ /\ batchState[j][a] = "failed" /\ batchState'[j][a] \in {"failed", "gone"}
             /\ stored'[j][a] <= stored[j][a]

LEMMA CollectFailedInv ==
    ASSUME Inv, NEW w \in Workers, CollectFailed(w)
    PROVE  Inv' /\ Effect
<1>0. /\ TypeOK /\ TokensFenced /\ RowsAgree /\ WritersAgree
      /\ PublishedOnce /\ ReadyIsComplete
  BY DEF Inv
<1>1. Others(w) /\ proc' \in [Workers -> Process] /\ proc'[w].pc = "claim"
  BY <1>0, AtEffect DEF CollectFailed, OutOfJob
<1>2. Collected
  <2>1. CASE UNCHANGED batchVars
    BY <1>0, <2>1 DEF batchVars, TypeOK, Collected
  <2>2. ASSUME NEW j \in Jobs, NEW a \in Attempts, batchState[j][a] = "failed",
               stored[j][a] > 0, stored' = [stored EXCEPT ![j][a] = @ - 1], UNCHANGED batchState
        PROVE  Collected
    <3>1. stored[j][a] \in 0 .. Pages /\ stored[j][a] - 1 \in 0 .. Pages
      BY <1>0, <2>2, QueueConstants DEF TypeOK
    <3>2. stored' = [stored EXCEPT ![j] = [stored[j] EXCEPT ![a] = stored[j][a] - 1]]
      BY <2>2
    <3>3. QED
      BY <1>0, <2>2, <3>1, <3>2 DEF TypeOK, Collected
  <2>3. ASSUME NEW j \in Jobs, NEW a \in Attempts, batchState[j][a] = "failed", stored[j][a] = 0,
               batchState' = [batchState EXCEPT ![j][a] = "gone"], UNCHANGED stored
        PROVE  Collected
    BY <1>0, <2>3, QueueConstants DEF TypeOK, BatchStates, Collected
  <2>4. QED
    BY <2>1, <2>2, <2>3 DEF CollectFailed, Collectable
<1>3. TypeOK' /\ attempt' = attempt
  BY <1>0, <1>1, <1>2 DEF CollectFailed, jobVars, TypeOK, Collected
<1>4. \A j \in Jobs, a \in Attempts : BatchDecays(j, a)
  BY <1>2 DEF Collected, BatchDecays
<1>5. \A j \in Jobs, a \in Attempts : batchState[j][a] # "absent" => a <= attempt[j]
  BY <1>0 DEF RowsAgree, TypeOK, Attempts
<1>6. Quiet
  BY <1>2, <1>5 DEF CollectFailed, jobVars, Quiet, JobQuiet, BatchQuiet, Collected
<1>7. OthersDecay(w)
  BY <1>0, <1>4, ProcessType DEF OthersDecay, TokensFenced
<1>8. Moves(w) /\ WriterAgrees(w)'
  BY <1>1, LeaverAgrees DEF Moves, InJob
<1>9. QED
  BY <1>3, <1>6, <1>7, <1>8, QuietInv

LEMMA BindInv ==
    ASSUME Inv, NEW w \in Workers, Bind(w)
    PROVE  Inv' /\ Effect
<1>0. /\ TypeOK /\ TokensFenced /\ RowsAgree /\ WritersAgree
      /\ PublishedOnce /\ ReadyIsComplete
  BY DEF Inv
<1>1. proc[w].job \in Jobs /\ proc[w].owner \in Attempts /\ proc[w].owner <= attempt[proc[w].job]
      /\ WriterAgrees(w) /\ proc[w].pc \in InJob
  BY <1>0, ProcessType DEF Bind, TokensFenced, WritersAgree, InJob
<1>2. KeepsJob(w) /\ proc'[w].pc \in {"parse", "exit"} /\ proc'[w].written = proc[w].written
  BY <1>0, GotoEffect DEF Bind, InJob
<1>3. TypeOK' /\ attempt' = attempt
  BY <1>0, <1>1, <1>2, ProcessType DEF Bind, jobVars, batchVars, TypeOK, KeepsJob
<1>4. Quiet
  BY <1>0, <1>1 DEF Bind, Holds, jobVars, batchVars, TypeOK, Quiet, JobQuiet, BatchQuiet
<1>5. OnlyOwnBatch(w) /\ OthersDecay(w) /\ Moves(w)
  BY <1>0, <1>1, <1>2, OwnBatch DEF Bind, batchVars, OnlyOwnBatch, Moves
<1>6. WriterAgrees(w)'
  BY <1>1, <1>2 DEF Bind, batchVars, KeepsJob, WriterAgrees, Batch, Writing, InJob
<1>7. QED
  BY <1>3, <1>4, <1>5, <1>6, QuietInv

LEMMA ProgressInv ==
    ASSUME Inv, NEW w \in Workers, Progress(w)
    PROVE  Inv' /\ Effect
<1>0. /\ TypeOK /\ TokensFenced /\ RowsAgree /\ WritersAgree
      /\ PublishedOnce /\ ReadyIsComplete
  BY DEF Inv
<1>1. proc[w].job \in Jobs /\ proc[w].owner \in Attempts /\ proc[w].owner <= attempt[proc[w].job]
      /\ WriterAgrees(w) /\ proc[w].pc \in InJob
  BY <1>0, ProcessType DEF Progress, TokensFenced, WritersAgree, InJob
<1>2. KeepsJob(w) /\ proc'[w].pc \in {"parse", "exit"} /\ proc'[w].written = proc[w].written
  BY <1>0, GotoEffect DEF Progress, InJob
<1>3. TypeOK' /\ attempt' = attempt
  BY <1>0, <1>1, <1>2, ProcessType DEF Progress, jobVars, batchVars, TypeOK, KeepsJob
<1>4. Quiet
  BY <1>0, <1>1 DEF Progress, jobVars, batchVars, TypeOK, Quiet, JobQuiet, BatchQuiet
<1>5. OnlyOwnBatch(w) /\ OthersDecay(w) /\ Moves(w)
  BY <1>0, <1>1, <1>2, OwnBatch DEF Progress, batchVars, OnlyOwnBatch, Moves
<1>6. WriterAgrees(w)'
  BY <1>1, <1>2 DEF Progress, batchVars, KeepsJob, WriterAgrees, Batch, Writing, InJob
<1>7. QED
  BY <1>3, <1>4, <1>5, <1>6, QuietInv

LEMMA ParsedInv ==
    ASSUME Inv, NEW w \in Workers, Parsed(w)
    PROVE  Inv' /\ Effect
<1>0. /\ TypeOK /\ TokensFenced /\ RowsAgree /\ WritersAgree
      /\ PublishedOnce /\ ReadyIsComplete
  BY DEF Inv
<1>1. proc[w].job \in Jobs /\ proc[w].owner \in Attempts /\ proc[w].owner <= attempt[proc[w].job]
      /\ WriterAgrees(w) /\ proc[w].pc \in InJob
  BY <1>0, ProcessType DEF Parsed, TokensFenced, WritersAgree, InJob
<1>2. KeepsJob(w) /\ proc'[w].pc \in {"publish", "exit"} /\ proc'[w].written = proc[w].written
  BY <1>0, GotoEffect DEF Parsed, InJob
<1>3. TypeOK' /\ attempt' = attempt
  BY <1>0, <1>1, <1>2, ProcessType DEF Parsed, jobVars, batchVars, TypeOK, KeepsJob
<1>4. Quiet
  BY <1>0, <1>1 DEF Parsed, jobVars, batchVars, TypeOK, Quiet, JobQuiet, BatchQuiet
<1>5. OnlyOwnBatch(w) /\ OthersDecay(w) /\ Moves(w)
  BY <1>0, <1>1, <1>2, OwnBatch DEF Parsed, batchVars, OnlyOwnBatch, Moves
<1>6. WriterAgrees(w)'
  BY <1>1, <1>2 DEF Parsed, batchVars, KeepsJob, WriterAgrees, Batch, Writing, InJob
<1>7. QED
  BY <1>3, <1>4, <1>5, <1>6, QuietInv

LEMMA DbErrorInv ==
    ASSUME Inv, NEW w \in Workers, DbError(w)
    PROVE  Inv' /\ Effect
<1>0. /\ TypeOK /\ TokensFenced /\ RowsAgree /\ WritersAgree
      /\ PublishedOnce /\ ReadyIsComplete
  BY DEF Inv
<1>1. proc[w].job \in Jobs /\ proc[w].owner \in Attempts /\ proc[w].owner <= attempt[proc[w].job]
      /\ WriterAgrees(w) /\ proc[w].pc \in InJob
  BY <1>0, ProcessType DEF DbError, TokensFenced, WritersAgree, InJob
<1>2. \/ /\ KeepsJob(w) /\ proc'[w].pc \in {"exit", "fail"}
         /\ proc'[w].written = proc[w].written
         /\ proc'[w].pc = "exit" => proc[w].pc \in Writing
      \/ Others(w) /\ proc' \in [Workers -> Process] /\ proc'[w].pc = "claim"
  BY <1>0, GotoEffect, AtEffect DEF DbError, InJob, OutOfJob, Writing
<1>3. TypeOK' /\ attempt' = attempt
  BY <1>0, <1>2 DEF DbError, jobVars, batchVars, TypeOK, KeepsJob
<1>4. Quiet
  BY DEF DbError, jobVars, batchVars, Quiet, JobQuiet, BatchQuiet
<1>5. OnlyOwnBatch(w) /\ OthersDecay(w) /\ Moves(w)
  BY <1>0, <1>1, <1>2, OwnBatch DEF DbError, batchVars, OnlyOwnBatch, Moves, InJob
<1>6. WriterAgrees(w)'
  BY <1>1, <1>2, LeaverAgrees DEF DbError, batchVars, KeepsJob, WriterAgrees, Batch, Writing, InJob
<1>7. QED
  BY <1>3, <1>4, <1>5, <1>6, QuietInv

LEMMA HeartbeatThreadInv ==
    ASSUME Inv, NEW w \in Workers, HeartbeatThread(w)
    PROVE  Inv' /\ Effect
<1>0. /\ TypeOK /\ TokensFenced /\ RowsAgree /\ WritersAgree
      /\ PublishedOnce /\ ReadyIsComplete
  BY DEF Inv
<1>1. proc[w].job \in Jobs /\ proc[w].owner \in Attempts /\ proc[w].owner <= attempt[proc[w].job]
      /\ WriterAgrees(w) /\ proc[w].pc \in InJob
  BY <1>0, ProcessType DEF HeartbeatThread, TokensFenced, WritersAgree, InJob
<1>2. KeepsJob(w) /\ proc'[w].pc = proc[w].pc /\ proc'[w].written = proc[w].written
  BY <1>0, LostEffect DEF HeartbeatThread, KeepsJob, Others, TypeOK
<1>3. TypeOK' /\ attempt' = attempt
  BY <1>0, <1>1, <1>2 DEF HeartbeatThread, batchVars, TypeOK, KeepsJob
<1>4. Quiet
  BY DEF HeartbeatThread, batchVars, Quiet, JobQuiet, BatchQuiet
<1>5. OnlyOwnBatch(w) /\ OthersDecay(w) /\ Moves(w)
  BY <1>0, <1>1, <1>2, OwnBatch DEF HeartbeatThread, batchVars, OnlyOwnBatch, Moves
<1>6. WriterAgrees(w)'
  BY <1>1, <1>2 DEF HeartbeatThread, batchVars, KeepsJob, WriterAgrees, Batch, Writing, InJob
<1>7. QED
  BY <1>3, <1>4, <1>5, <1>6, QuietInv

LEMMA OpenWriterInv ==
    ASSUME Inv, NEW w \in Workers, OpenWriter(w)
    PROVE  Inv' /\ Effect
<1>0. /\ TypeOK /\ TokensFenced /\ RowsAgree /\ WritersAgree
      /\ PublishedOnce /\ ReadyIsComplete
  BY DEF Inv
<1>1. proc[w].job \in Jobs /\ proc[w].owner \in Attempts /\ proc[w].owner <= attempt[proc[w].job]
      /\ WriterAgrees(w) /\ proc[w].pc \in InJob
  BY <1>0, ProcessType DEF OpenWriter, TokensFenced, WritersAgree, InJob
<1>2. KeepsJob(w) /\ proc'[w].pc \in {"bind", "fail"} /\ proc'[w].written = proc[w].written
  BY <1>0, GotoEffect DEF OpenWriter, InJob
<1>3. /\ batchState' \in [Jobs -> [Attempts -> BatchStates]]
      /\ \A j \in Jobs, a \in Attempts : batchState'[j][a] =
            IF j = proc[w].job /\ a = proc[w].owner THEN "building" ELSE batchState[j][a]
  <2>1. "building" \in BatchStates
    BY <1>0, <1>1 DEF Batch, TypeOK, BatchStates
  <2>2. QED
    BY <1>0, <1>1, <2>1, SetBatchEffect DEF OpenWriter
<1>4. TypeOK' /\ attempt' = attempt
  BY <1>0, <1>2, <1>3 DEF OpenWriter, jobVars, TypeOK, KeepsJob
<1>5. Quiet
  BY <1>0, <1>1, <1>3 DEF OpenWriter, jobVars, Quiet, JobQuiet, BatchQuiet, Batch, WriterAgrees
<1>6. OnlyOwnBatch(w) /\ OthersDecay(w) /\ Moves(w)
  BY <1>0, <1>1, <1>2, <1>3, OwnBatch DEF OpenWriter, OnlyOwnBatch, Moves
<1>7. WriterAgrees(w)'
  BY <1>0, <1>1, <1>2, <1>3 DEF OpenWriter, KeepsJob, WriterAgrees, Batch, Writing, InJob, TypeOK
<1>8. QED
  BY <1>4, <1>5, <1>6, <1>7, QuietInv

LEMMA ExitInv ==
    ASSUME Inv, NEW w \in Workers, Exit(w)
    PROVE  Inv' /\ Effect
<1>0. /\ TypeOK /\ TokensFenced /\ RowsAgree /\ WritersAgree
      /\ PublishedOnce /\ ReadyIsComplete
  BY DEF Inv
<1>1. proc[w].job \in Jobs /\ proc[w].owner \in Attempts /\ proc[w].owner <= attempt[proc[w].job]
      /\ WriterAgrees(w) /\ proc[w].pc \in InJob
  BY <1>0, ProcessType DEF Exit, TokensFenced, WritersAgree, InJob
<1>2. KeepsJob(w) /\ proc'[w].pc \in {"fail"} /\ proc'[w].written = proc[w].written
  BY <1>0, GotoEffect DEF Exit, InJob
<1>3. /\ batchState' \in [Jobs -> [Attempts -> BatchStates]]
      /\ \A j \in Jobs, a \in Attempts : batchState'[j][a] =
            IF j = proc[w].job /\ a = proc[w].owner THEN (IF Batch(w) = "building" THEN "failed" ELSE Batch(w)) ELSE batchState[j][a]
  <2>1. (IF Batch(w) = "building" THEN "failed" ELSE Batch(w)) \in BatchStates
    BY <1>0, <1>1 DEF Batch, TypeOK, BatchStates
  <2>2. QED
    BY <1>0, <1>1, <2>1, SetBatchEffect DEF Exit
<1>4. TypeOK' /\ attempt' = attempt
  BY <1>0, <1>2, <1>3 DEF Exit, jobVars, TypeOK, KeepsJob
<1>5. Quiet
  BY <1>0, <1>1, <1>3 DEF Exit, jobVars, Quiet, JobQuiet, BatchQuiet, Batch, WriterAgrees
<1>6. OnlyOwnBatch(w) /\ OthersDecay(w) /\ Moves(w)
  BY <1>0, <1>1, <1>2, <1>3, OwnBatch DEF Exit, OnlyOwnBatch, Moves
<1>7. WriterAgrees(w)'
  BY <1>0, <1>1, <1>2, <1>3 DEF Exit, KeepsJob, WriterAgrees, Batch, Writing, InJob, TypeOK
<1>8. QED
  BY <1>4, <1>5, <1>6, <1>7, QuietInv

LEMMA WriteInv ==
    ASSUME Inv, NEW w \in Workers, Write(w)
    PROVE  Inv' /\ Effect
<1>0. /\ TypeOK /\ TokensFenced /\ RowsAgree /\ WritersAgree
      /\ PublishedOnce /\ ReadyIsComplete
  BY DEF Inv
<1>1. proc[w].job \in Jobs /\ proc[w].owner \in Attempts /\ proc[w].owner <= attempt[proc[w].job]
      /\ WriterAgrees(w) /\ proc[w].pc \in InJob
  BY <1>0, ProcessType DEF Write, TokensFenced, WritersAgree, InJob
<1>2. CASE UNCHANGED stored /\ Goto(w, {"exit"})
  <2>1. KeepsJob(w) /\ proc'[w].pc = "exit" /\ proc'[w].written = proc[w].written
    BY <1>0, <1>2, GotoEffect DEF InJob
  <2>2. TypeOK' /\ attempt' = attempt
    BY <1>0, <1>2, <2>1 DEF Write, jobVars, TypeOK, KeepsJob
  <2>3. Quiet
    BY <1>2 DEF Write, jobVars, Quiet, JobQuiet, BatchQuiet
  <2>4. OnlyOwnBatch(w) /\ OthersDecay(w) /\ Moves(w)
    BY <1>0, <1>1, <1>2, <2>1, OwnBatch DEF Write, OnlyOwnBatch, Moves
  <2>5. WriterAgrees(w)'
    BY <1>1, <1>2, <2>1 DEF Write, KeepsJob, WriterAgrees, Batch, Writing, InJob
  <2>6. QED
    BY <2>2, <2>3, <2>4, <2>5, QuietInv
<1>3. ASSUME stored' = [stored EXCEPT ![proc[w].job][proc[w].owner] = @ + 1],
             NEW p \in {"beat", "exit"},
             proc' = [proc EXCEPT ![w].pc = p, ![w].written = @ + 1]
      PROVE  Inv' /\ Effect
  <2> DEFINE rows == stored[proc[w].job][proc[w].owner]
  <2>1. KeepsJob(w) /\ proc'[w].pc = p /\ proc'[w].written = proc[w].written + 1
    BY <1>0, <1>3, WrittenEffect DEF Write, InJob
  <2>2. rows \in 0 .. Pages /\ rows <= proc[w].written /\ proc[w].written < Pages
          /\ proc[w].written \in 0 .. Pages /\ rows + 1 \in 0 .. Pages
    BY <1>0, <1>1, ProcessType, QueueConstants DEF Write, TypeOK, WriterAgrees, InJob
  <2>3. /\ stored' \in [Jobs -> [Attempts -> 0 .. Pages]]
        /\ \A j \in Jobs, a \in Attempts : stored'[j][a] =
              IF j = proc[w].job /\ a = proc[w].owner THEN rows + 1 ELSE stored[j][a]
    BY <1>0, <1>1, <1>3, <2>2 DEF TypeOK
  <2>4. TypeOK' /\ attempt' = attempt
    BY <1>0, <2>1, <2>3 DEF Write, jobVars, TypeOK, KeepsJob
  <2>5. Quiet
    BY <1>1, <2>3 DEF Write, jobVars, Quiet, JobQuiet, BatchQuiet, WriterAgrees, Batch, Writing
  <2>6. OnlyOwnBatch(w) /\ OthersDecay(w) /\ Moves(w)
    BY <1>0, <1>1, <2>1, <2>3, OwnBatch DEF Write, OnlyOwnBatch, Moves
  <2>7. WriterAgrees(w)'
    <3>1. proc[w].pc = "parse" /\ batchState' = batchState /\ Batch(w) # "ready"
      BY <1>1 DEF Write, WriterAgrees, Batch, Writing
    <3>2. Batch(w) = "building" => rows = proc[w].written
      BY <1>1, <3>1 DEF WriterAgrees, Writing
    <3>3. Batch(w)' = Batch(w)
      BY <2>1, <3>1 DEF KeepsJob, Batch
    <3>4. stored'[proc'[w].job][proc'[w].owner] = rows + 1
      BY <1>1, <2>1, <2>3 DEF KeepsJob
    <3>5. rows + 1 <= proc'[w].written /\ (rows = proc[w].written => rows + 1 = proc'[w].written)
      BY <2>1, <2>2
    <3>6. QED
      BY <2>1, <3>1, <3>2, <3>3, <3>4, <3>5 DEF WriterAgrees, Writing, InJob
  <2>8. QED
    BY <2>4, <2>5, <2>6, <2>7, QuietInv
<1>4. QED
  BY <1>2, <1>3 DEF Write

LEMMA ClaimInv ==
    ASSUME Inv, NEW w \in Workers, Claim(w)
    PROVE  Inv' /\ Effect
<1>0. /\ TypeOK /\ TokensFenced /\ RowsAgree /\ WritersAgree
      /\ PublishedOnce /\ ReadyIsComplete
  BY DEF Inv
<1>1. PICK late \in SUBSET Responsive, j \in Jobs :
      /\ jobState[j] = "queued"
      /\ batchState' = Recovered(late).batch
      /\ jobState' = [Recovered(late).state EXCEPT ![j] = "running"]
      /\ owner' = [Recovered(late).owner EXCEPT ![j] = attempt[j] + 1]
      /\ attempt' = [attempt EXCEPT ![j] = attempt[j] + 1]
      /\ bound' = [bound EXCEPT ![j] = 0]
      /\ stale' = Recovered(late).stale
      /\ proc' = [proc EXCEPT ![w] =
                    [At("open") EXCEPT !.job = j, !.owner = attempt[j] + 1]]
      /\ UNCHANGED stored
  BY DEF Claim
<1>2. attempt[j] \in Nat /\ attempt[j] + 1 \in 0 .. MaxAttempts /\ attempt[j] + 1 \in Attempts
  BY <1>0, <1>1, QueueConstants DEF TypeOK, RowsAgree, Attempts
<1>3. /\ Others(w)
      /\ proc' \in [Workers -> Process]
      /\ proc'[w].pc = "open" /\ proc'[w].job = j /\ proc'[w].owner = attempt[j] + 1
      /\ proc'[w].written = 0
  BY <1>0, <1>1, <1>2, OpenEffect
<1>4. /\ jobState'[j] = "running" /\ owner'[j] = attempt[j] + 1 /\ attempt'[j] = attempt[j] + 1
      /\ \A i \in Jobs : i # j =>
            /\ attempt'[i] = attempt[i] /\ bound'[i] = bound[i]
            /\ \/ jobState'[i] = jobState[i] /\ owner'[i] = owner[i]
               \/ jobState[i] = "running" /\ jobState'[i] = "failed"
  BY <1>0, <1>1, RecoveredEffect DEF TypeOK
<1>5. \A i \in Jobs, a \in Attempts :
          \/ batchState'[i][a] = batchState[i][a]
          \/ batchState[i][a] = "building" /\ batchState'[i][a] = "failed"
  BY <1>0, <1>1, RecoveredEffect
<1>6. TypeOK'
  BY <1>0, <1>1, <1>2, <1>3, RecoveredEffect, QueueConstants DEF TypeOK, JobStates
<1>7. TokensFenced'
  <2>1. ASSUME NEW v \in Workers, v # w, proc'[v].pc \in InJob
        PROVE  /\ proc'[v] = proc[v]
               /\ proc[v].owner \in Attempts
               /\ proc[v].owner <= attempt[proc[v].job]
               /\ attempt[proc[v].job] <= attempt'[proc[v].job]
               /\ proc[v].job = j => proc[v].owner < attempt[j] + 1
    <3>1. proc'[v] = proc[v] /\ proc[v].pc \in InJob /\ proc[v].job \in Jobs
      BY <1>0, <1>3, <2>1, ProcessType DEF Others
    <3>2. proc[v].owner \in Attempts /\ proc[v].owner <= attempt[proc[v].job]
      BY <1>0, <3>1 DEF TokensFenced
    <3>3. attempt[proc[v].job] \in Nat /\ attempt[proc[v].job] <= attempt'[proc[v].job]
      <4>1. attempt[proc[v].job] \in Nat
        BY <1>0, <3>1, QueueConstants DEF TypeOK
      <4>2. \/ attempt'[proc[v].job] = attempt[proc[v].job]
            \/ attempt'[proc[v].job] = attempt[proc[v].job] + 1
        BY <1>4, <3>1
      <4>3. QED
        BY <4>1, <4>2
    <3>4. QED
      BY <1>2, <3>1, <3>2, <3>3 DEF Attempts
  <2>2. attempt' \in [Jobs -> 0 .. MaxAttempts] /\ attempt \in [Jobs -> 0 .. MaxAttempts]
    BY <1>0, <1>6 DEF TypeOK
  <2>3. ASSUME NEW v \in Workers, proc'[v].pc \in InJob
        PROVE  proc'[v].owner \in Attempts /\ proc'[v].owner <= attempt'[proc'[v].job]
    <3>1. CASE v = w
      BY <1>2, <1>3, <1>4, <3>1
    <3>2. CASE v # w
      BY <2>1, <2>2, <2>3, <3>2, <1>0, ProcessType DEF Attempts
    <3>3. QED
      BY <3>1, <3>2
  <2>4. ASSUME NEW u \in Workers, NEW v \in Workers, u # v, proc'[u].pc \in InJob,
               proc'[v].pc \in InJob, proc'[u].job = proc'[v].job
        PROVE  proc'[u].owner # proc'[v].owner
    <3>1. CASE u # w /\ v # w
      BY <1>0, <2>1, <2>4, <3>1 DEF TokensFenced
    <3>2. CASE u = w
      BY <1>2, <1>3, <2>1, <2>4, <3>2 DEF Attempts
    <3>3. CASE v = w
      BY <1>2, <1>3, <2>1, <2>4, <3>3 DEF Attempts
    <3>4. QED
      BY <3>1, <3>2, <3>3
  <2>5. QED
    BY <2>3, <2>4 DEF TokensFenced
<1>8. RowsAgree'
  <2>1. ASSUME NEW i \in Jobs, i # j
        PROVE  JobQuiet(i) /\ \A a \in Attempts : a > attempt[i] =>
                   batchState'[i][a] = "absent" /\ stored'[i][a] = 0
    BY <1>0, <1>1, <1>4, <1>5, <2>1 DEF JobQuiet, RowsAgree
  <2>2. \A i \in Jobs, a \in Attempts : batchState[i][a] = "ready" => batchState'[i][a] = "ready"
    BY <1>5
  <2>3. \A a \in Attempts : a > attempt'[j] => batchState'[j][a] = "absent" /\ stored'[j][a] = 0
    BY <1>0, <1>1, <1>2, <1>4, <1>5 DEF RowsAgree, Attempts
  <2>4. QED
    BY <1>0, <1>4, <2>1, <2>2, <2>3 DEF RowsAgree, JobQuiet
<1>9. WritersAgree'
  <2>1. stored' \in [Jobs -> [Attempts -> 0 .. Pages]] /\ UNCHANGED stored
    BY <1>1, <1>6 DEF TypeOK
  <2>2. \A i \in Jobs, a \in Attempts : stored[i][a] <= stored[i][a]
    BY <1>0 DEF TypeOK
  <2>3. \A i \in Jobs, a \in Attempts : BatchDecays(i, a)
    BY <1>5, <2>1, <2>2 DEF BatchDecays
  <2>4. ASSUME NEW v \in Workers, v # w PROVE WriterAgrees(v)'
    <3>1. proc'[v] = proc[v]
      BY <1>3, <2>4 DEF Others
    <3>2. proc[v].pc \in InJob => /\ proc[v].owner \in Attempts
                                  /\ BatchDecays(proc[v].job, proc[v].owner)
      BY <1>0, <2>3, ProcessType DEF TokensFenced
    <3>3. QED
      BY <1>0, <2>1, <3>1, <3>2, OthersAgree
  <2>5. batchState[j][attempt[j] + 1] = "absent" /\ stored[j][attempt[j] + 1] = 0
    BY <1>0, <1>2 DEF RowsAgree
  <2>6. batchState'[j][attempt[j] + 1] = "absent"
    BY <1>2, <1>5, <2>5
  <2>7. WriterAgrees(w)'
    BY <1>3, <2>1, <2>5, <2>6, QueueConstants DEF WriterAgrees, Batch, Writing, InJob
  <2>8. QED
    BY <2>4, <2>7 DEF WritersAgree
<1>10. PublishedOnce' /\ ReadyIsComplete'
  <2>1. \A i \in Jobs, a \in Attempts : batchState'[i][a] = "ready" => batchState[i][a] = "ready"
    BY <1>5
  <2>2. \A i \in Jobs, a \in Attempts : batchState[i][a] = "ready" => i # j
    BY <1>0, <1>1 DEF PublishedOnce
  <2>3. QED
    BY <1>0, <1>1, <1>4, <2>1, <2>2 DEF PublishedOnce, ReadyIsComplete
<1>11. Settles
  <2>1. \A i \in Jobs : jobState[i] = "completed" => i # j /\ jobState'[i] = "completed"
                                                        /\ bound'[i] = bound[i]
    BY <1>1, <1>4
  <2>2. \A i \in Jobs : jobState'[i] \in Unfinished => jobState[i] \in Unfinished
    BY <1>1, <1>4 DEF Unfinished
  <2>3. \A i \in Jobs, a \in Attempts : batchState[i][a] # "absent" => a <= attempt[i]
    BY <1>0 DEF RowsAgree, TypeOK, Attempts
  <2>4. \A i \in Jobs, a \in Attempts : BatchQuiet(i, a)
    BY <1>1, <1>5, <2>3 DEF BatchQuiet
  <2>5. QED
    BY <2>1, <2>2, <2>4 DEF Settles
<1>12. QED
  BY <1>6, <1>7, <1>8, <1>9, <1>10, <1>11 DEF Inv, Effect

LEMMA PublishInv ==
    ASSUME Inv, NEW w \in Workers, Publish(w)
    PROVE  Inv' /\ Effect
<1>0. /\ TypeOK /\ TokensFenced /\ RowsAgree /\ WritersAgree
      /\ PublishedOnce /\ ReadyIsComplete
  BY DEF Inv
<1>1. proc[w].job \in Jobs /\ proc[w].owner \in Attempts /\ proc[w].owner <= attempt[proc[w].job]
      /\ WriterAgrees(w) /\ proc[w].pc \in InJob
  BY <1>0, ProcessType DEF Publish, TokensFenced, WritersAgree, InJob
<1>2. CASE ~MayPublish(w)
  <2>1. UNCHANGED <<jobVars, batchVars>> /\ Goto(w, {"exit"})
    BY <1>2 DEF Publish, jobVars, batchVars
  <2>2. KeepsJob(w) /\ proc'[w].pc = "exit" /\ proc'[w].written = proc[w].written
    BY <1>0, <2>1, GotoEffect DEF InJob
  <2>3. TypeOK' /\ attempt' = attempt
    BY <1>0, <2>1, <2>2 DEF jobVars, batchVars, TypeOK, KeepsJob
  <2>4. Quiet
    BY <2>1 DEF jobVars, batchVars, Quiet, JobQuiet, BatchQuiet
  <2>5. OnlyOwnBatch(w) /\ OthersDecay(w) /\ Moves(w)
    BY <1>0, <1>1, <2>1, <2>2, OwnBatch DEF batchVars, OnlyOwnBatch, Moves
  <2>6. WriterAgrees(w)'
    BY <1>1, <2>1, <2>2 DEF Publish, batchVars, KeepsJob, WriterAgrees, Batch, Writing, InJob
  <2>7. QED
    BY <2>3, <2>4, <2>5, <2>6, QuietInv
<1>3. CASE MayPublish(w)
  <2> DEFINE job == proc[w].job
             token == proc[w].owner
  <2>1. /\ jobState[job] = "running" /\ owner[job] = token /\ attempt[job] = token
        /\ batchState[job][token] = "building" /\ stored[job][token] = Pages
    BY <1>0, <1>1, <1>3
    DEF MayPublish, Holds, Batch, RowsAgree, Publish, WriterAgrees, Writing, InJob
  <2>2. /\ SetBatch(w, "ready") /\ Release(job, "completed")
        /\ bound' = [bound EXCEPT ![job] = token]
        /\ UNCHANGED <<attempt, stored>>
    BY <1>3 DEF Publish
  <2>3. /\ batchState' \in [Jobs -> [Attempts -> BatchStates]]
        /\ \A j \in Jobs, a \in Attempts : batchState'[j][a] =
              IF j = job /\ a = token THEN "ready" ELSE batchState[j][a]
    BY <1>0, <1>1, <2>2, SetBatchEffect DEF BatchStates
  <2>4. /\ jobState' \in [Jobs -> JobStates]
        /\ owner' \in [Jobs -> 0 .. MaxAttempts]
        /\ stale' \in [Jobs -> BOOLEAN]
        /\ \A i \in Jobs : /\ jobState'[i] = IF i = job THEN "completed" ELSE jobState[i]
                           /\ owner'[i] = IF i = job THEN 0 ELSE owner[i]
    BY <1>0, <1>1, <2>2, ReleaseEffect DEF JobStates
  <2>5. /\ bound' \in [Jobs -> 0 .. MaxAttempts]
        /\ \A i \in Jobs : bound'[i] = IF i = job THEN token ELSE bound[i]
    BY <1>0, <1>1, <2>2 DEF TypeOK, Attempts
  <2>6. /\ Others(w) /\ proc' \in [Workers -> Process]
        /\ \/ KeepsJob(w) /\ proc'[w].pc = "exit" /\ proc'[w].written = proc[w].written
           \/ proc'[w].pc = "claim"
    BY <1>0, <1>3, GotoEffect, AtEffect DEF Publish, InJob, OutOfJob, KeepsJob
  <2>7. TypeOK'
    BY <1>0, <2>2, <2>3, <2>4, <2>5, <2>6 DEF TypeOK
  <2>8. TokensFenced'
    BY <1>0, <1>1, <2>2, <2>6, MoveTokens DEF Moves, InJob
  <2>9. RowsAgree'
    <3>1. \A i \in Jobs : i # job => JobQuiet(i)
      BY <2>2, <2>4, <2>5 DEF JobQuiet
    <3>2. \A a \in Attempts : a > attempt[job] => a # token
      BY <1>1, <2>1 DEF Attempts
    <3>3. ASSUME NEW i \in Jobs, i # job
          PROVE  \A a \in Attempts : batchState'[i][a] = batchState[i][a]
      BY <2>3, <3>3
    <3>4. ASSUME NEW i \in Jobs, i # job, jobState[i] = "completed"
          PROVE  bound[i] \in Attempts /\ batchState'[i][bound[i]] = "ready"
      BY <1>0, <3>3, <3>4 DEF RowsAgree
    <3>5. ASSUME NEW i \in Jobs, NEW a \in Attempts, a > attempt[i]
          PROVE  batchState'[i][a] = "absent" /\ stored'[i][a] = 0
      BY <1>0, <2>2, <2>3, <3>2, <3>5 DEF RowsAgree
    <3>6. batchState'[job][bound'[job]] = "ready" /\ bound'[job] \in Attempts
          /\ jobState'[job] = "completed"
      BY <1>1, <2>3, <2>4, <2>5
    <3>7. QED
      BY <1>0, <2>2, <3>1, <3>4, <3>5, <3>6 DEF RowsAgree, JobQuiet
  <2>10. WritersAgree'
    <3>1. OnlyOwnBatch(w) /\ OthersDecay(w)
      BY <1>0, <1>1, <2>2, <2>3, OwnBatch DEF OnlyOwnBatch
    <3>2. ASSUME NEW v \in Workers, v # w PROVE WriterAgrees(v)'
      <4>1. proc'[v] = proc[v] /\ stored' \in [Jobs -> [Attempts -> 0 .. Pages]]
        BY <2>6, <2>7, <3>2 DEF Others, TypeOK
      <4>2. proc[v].pc \in InJob => /\ proc[v].owner \in Attempts
                                    /\ BatchDecays(proc[v].job, proc[v].owner)
        BY <1>0, <3>1, <3>2 DEF OthersDecay, TokensFenced
      <4>3. QED
        BY <1>0, <4>1, <4>2, OthersAgree
    <3>3. WriterAgrees(w)'
      BY <1>1, <2>2, <2>6 DEF KeepsJob, WriterAgrees, Writing, InJob
    <3>4. QED
      BY <3>2, <3>3 DEF WritersAgree
  <2>11. PublishedOnce' /\ ReadyIsComplete'
    <3>1. \A a \in Attempts : batchState[job][a] # "ready"
      BY <1>0, <1>1, <2>1 DEF PublishedOnce
    <3>2. ASSUME NEW i \in Jobs, NEW a \in Attempts, batchState'[i][a] = "ready"
          PROVE  /\ jobState'[i] = "completed" /\ bound'[i] = a /\ attempt'[i] = a
                 /\ stored'[i][a] = Pages
      <4>1. CASE i = job /\ a = token
        BY <1>1, <2>1, <2>2, <2>4, <2>5, <4>1
      <4>2. CASE ~(i = job /\ a = token)
        <5>1. batchState[i][a] = "ready" /\ i # job
          BY <2>3, <3>1, <3>2, <4>2
        <5>2. QED
          BY <1>0, <2>2, <2>4, <2>5, <5>1 DEF PublishedOnce, ReadyIsComplete
      <4>3. QED
        BY <4>1, <4>2
    <3>3. QED
      BY <3>2 DEF PublishedOnce, ReadyIsComplete
  <2>12. Publishes(job, token)
    BY <1>0, <1>1, <2>1, <2>2, <2>3, <2>4, <2>5 DEF Publishes, PublishedOnce
  <2>13. QED
    BY <1>1, <2>7, <2>8, <2>9, <2>10, <2>11, <2>12 DEF Inv, Effect
<1>4. QED
  BY <1>2, <1>3

LEMMA NextInv == Inv /\ [Next]_vars => Inv' /\ Effect
<1> SUFFICES ASSUME Inv, [Next]_vars PROVE Inv' /\ Effect
  OBVIOUS
<1>1. ASSUME NEW j \in Jobs, Create(j) PROVE Inv' /\ Effect
  BY <1>1, CreateInv
<1>2. ASSUME NEW j \in Jobs, Retry(j) PROVE Inv' /\ Effect
  BY <1>2, RetryInv
<1>3. ASSUME NEW j \in Jobs, Cancel(j) PROVE Inv' /\ Effect
  BY <1>3, CancelInv
<1>4. ASSUME NEW w \in Workers, Claim(w) PROVE Inv' /\ Effect
  BY <1>4, ClaimInv
<1>5. ASSUME NEW w \in Workers, ClaimNothing(w) PROVE Inv' /\ Effect
  BY <1>5, ClaimNothingInv
<1>6. ASSUME NEW w \in Workers, CollectFailed(w) PROVE Inv' /\ Effect
  BY <1>6, CollectFailedInv
<1>7. ASSUME NEW w \in Workers, OpenWriter(w) PROVE Inv' /\ Effect
  BY <1>7, OpenWriterInv
<1>8. ASSUME NEW w \in Workers, Bind(w) PROVE Inv' /\ Effect
  BY <1>8, BindInv
<1>9. ASSUME NEW w \in Workers, Write(w) PROVE Inv' /\ Effect
  BY <1>9, WriteInv
<1>10. ASSUME NEW w \in Workers, Progress(w) PROVE Inv' /\ Effect
  BY <1>10, ProgressInv
<1>11. ASSUME NEW w \in Workers, Parsed(w) PROVE Inv' /\ Effect
  BY <1>11, ParsedInv
<1>12. ASSUME NEW w \in Workers, Publish(w) PROVE Inv' /\ Effect
  BY <1>12, PublishInv
<1>13. ASSUME NEW w \in Workers, Exit(w) PROVE Inv' /\ Effect
  BY <1>13, ExitInv
<1>14. ASSUME NEW w \in Workers, Fail(w) PROVE Inv' /\ Effect
  BY <1>14, FailInv
<1>15. ASSUME NEW w \in Workers, DbError(w) PROVE Inv' /\ Effect
  BY <1>15, DbErrorInv
<1>16. ASSUME NEW w \in Workers, HeartbeatThread(w) PROVE Inv' /\ Effect
  BY <1>16, HeartbeatThreadInv
<1>17. ASSUME NEW w \in Workers, Crash(w) PROVE Inv' /\ Effect
  BY <1>17, CrashInv
<1>18. ASSUME NEW w \in Workers, Restart(w) PROVE Inv' /\ Effect
  BY <1>18, RestartInv
<1>19. ASSUME NEW j \in Jobs, GoStale(j) PROVE Inv' /\ Effect
  BY <1>19, GoStaleInv
<1>20. CASE UNCHANGED vars
  <2>1. TypeOK' /\ RowsAgree' /\ PublishedOnce' /\ ReadyIsComplete'
    BY <1>20 DEF vars, jobVars, batchVars, Inv, TypeOK, RowsAgree, PublishedOnce, ReadyIsComplete
  <2>2. TokensFenced' /\ WritersAgree'
    BY <1>20 DEF vars, jobVars, batchVars, Inv, TokensFenced, WritersAgree, WriterAgrees, Batch
  <2>3. Quiet
    BY <1>20 DEF vars, jobVars, batchVars, Quiet, JobQuiet, BatchQuiet
  <2>4. QED
    BY <2>1, <2>2, <2>3, QuietSettles DEF Inv, Effect
<1>21. QED
  BY <1>1, <1>2, <1>3, <1>4, <1>5, <1>6, <1>7, <1>8, <1>9, <1>10, <1>11, <1>12, <1>13, <1>14, <1>15, <1>16, <1>17, <1>18, <1>19, <1>20 DEF Next, ApiStep, MainThread

----
(* The theorems. *)

THEOREM InvHolds == Spec => []Inv
  BY InitInv, NextInv, PTL DEF Spec

(* Every reachable state has the types declared: no owner token, attempt or *)
(* row count leaves its range, whatever the interleaving.                   *)
THEOREM TypeCorrect == Spec => []TypeOK
<1>1. Inv => TypeOK
  BY DEF Inv
<1>2. QED
  BY <1>1, InvHolds, PTL

(* jobs.publish's fencing, for any number of processes, retries and         *)
(* recoveries: a visible batch is that of the last claim of a completed     *)
(* job, so no two attempts of a job are ever both visible.                  *)
THEOREM PublishesOnce == Spec => []PublishedOnce
<1>1. Inv => PublishedOnce
  BY DEF Inv
<1>2. QED
  BY <1>1, InvHolds, PTL

(* A visible batch holds every row group the parser delivered: the          *)
(* collector and a publication never overlap on a batch.                    *)
THEOREM PublishesWhole == Spec => []ReadyIsComplete
<1>1. Inv => ReadyIsComplete
  BY DEF Inv
<1>2. QED
  BY <1>1, InvHolds, PTL

(* Once completed a job and its batch never change again, which is what     *)
(* lets cleanup delete the stored upload.                                   *)
THEOREM CompletionIsFinal == Spec => CompletedIsFinal
<1> DEFINE Kept == \A j \in Jobs : jobState[j] = "completed" =>
                      /\ jobState'[j] = "completed" /\ bound'[j] = bound[j]
                      /\ \A a \in Attempts : a = bound[j] =>
                            /\ batchState'[j][a] = batchState[j][a]
                            /\ stored'[j][a] = stored[j][a]
<1>1. Inv /\ Effect => Kept
  <2> SUFFICES ASSUME Inv, Effect PROVE Kept
    OBVIOUS
  <2>1. \A j \in Jobs : jobState[j] = "completed" =>
            bound[j] \in Attempts /\ batchState[j][bound[j]] = "ready"
    BY DEF Inv, RowsAgree
  <2>2. CASE Settles
    BY <2>1, <2>2 DEF Settles, BatchQuiet
  <2>3. ASSUME NEW i \in Jobs, Enqueues(i) PROVE Kept
    BY <2>3 DEF Enqueues, batchVars, Inv, TypeOK
  <2>4. ASSUME NEW i \in Jobs, NEW b \in Attempts, Publishes(i, b) PROVE Kept
    BY <2>4 DEF Publishes
  <2>5. QED
    BY <2>2, <2>3, <2>4 DEF Effect
<1>2. Inv /\ [Next]_vars => [Kept]_vars
  BY <1>1, NextInv
<1>3. QED
  BY <1>2, InvHolds, PTL DEF Spec, CompletedIsFinal

(* No process revives a batch that was failed, whoever failed it.           *)
THEOREM FailureIsFinal == Spec => FailedIsFinal
<1> DEFINE Kept == \A j \in Jobs, a \in Attempts :
                      batchState[j][a] \in {"failed", "gone"} =>
                          batchState'[j][a] \in {"failed", "gone"}
<1>1. Effect => Kept
  <2>1. Settles => Kept
    BY DEF Settles, BatchQuiet
  <2>2. ASSUME NEW i \in Jobs, Enqueues(i) PROVE Kept
    BY <2>2 DEF Enqueues, batchVars
  <2>3. ASSUME NEW i \in Jobs, NEW b \in Attempts, Publishes(i, b) PROVE Kept
    BY <2>3 DEF Publishes
  <2>4. QED
    BY <2>1, <2>2, <2>3 DEF Effect
<1>2. Inv /\ [Next]_vars => [Kept]_vars
  BY <1>1, NextInv
<1>3. QED
  BY <1>2, InvHolds, PTL DEF Spec, FailedIsFinal

(* What has ended stays ended, whatever older processes still do.           *)
THEOREM EndIsFinal == Spec => FinishedIsFinal
BY CompletionIsFinal, FailureIsFinal DEF FinishedIsFinal

(* The queue never holds more unfinished jobs than _admit allows, for every *)
(* limit and every number of jobs.                                          *)
THEOREM QueueStaysBounded == Spec => []QueueBounded
<1>1. Init => QueueBounded
  <2> SUFFICES ASSUME Init PROVE QueueBounded
    OBVIOUS
  <2>1. Pending = {}
    BY DEF Init, Pending
  <2>2. QED
    BY <2>1, FS_EmptySet, QueueConstants DEF QueueBounded
<1>2. IsFiniteSet(Pending) /\ Cardinality(Pending) \in Nat
  <2>1. IsFiniteSet(Jobs)
    BY QueueConstants, FS_Interval DEF Jobs
  <2>2. QED
    BY <2>1, FS_Subset, FS_CardinalityType DEF Pending
<1>3. Inv /\ QueueBounded /\ Effect => QueueBounded'
  <2> SUFFICES ASSUME Inv, QueueBounded, Effect PROVE Cardinality(Pending') <= MaxPending
    BY DEF QueueBounded
  <2>1. CASE Pending' \subseteq Pending
    BY <1>2, <2>1, FS_Subset, FS_CardinalityType, QueueConstants DEF QueueBounded
  <2>2. CASE Settles
    BY <2>1, <2>2 DEF Settles, Pending, Unfinished
  <2>3. ASSUME NEW j \in Jobs, Enqueues(j) PROVE Cardinality(Pending') <= MaxPending
    <3>1. Pending' = Pending \cup {j}
      BY <2>3 DEF Enqueues, Pending, Inv, TypeOK
    <3>2. \/ Cardinality(Pending \cup {j}) = Cardinality(Pending)
          \/ Cardinality(Pending \cup {j}) = Cardinality(Pending) + 1
      BY <1>2, FS_AddElement, Zenon
    <3>3. Cardinality(Pending') \in Nat
      BY <1>2, <3>1, FS_AddElement, FS_CardinalityType
    <3>4. QED
      BY <1>2, <2>3, <3>1, <3>2, <3>3, QueueConstants DEF Enqueues, Admitted
  <2>4. ASSUME NEW j \in Jobs, NEW a \in Attempts, Publishes(j, a)
        PROVE  Cardinality(Pending') <= MaxPending
    BY <2>1, <2>4 DEF Publishes, Pending
  <2>5. QED
    BY <2>2, <2>3, <2>4 DEF Effect
<1>4. Inv /\ QueueBounded /\ [Next]_vars => QueueBounded'
  BY <1>3, NextInv
<1>5. QED
  BY <1>1, <1>4, InvHolds, PTL DEF Spec

(* The queue implements PublishOnce: a reader sees no batch of a job, and   *)
(* then for ever exactly one.                                               *)
THEOREM Refinement == Spec => ImplementsPublishOnce
<1>1. Init => Once!Init
  BY DEF Init, Once!Init, visible
<1>2. Inv /\ Effect => [Once!Next]_visible
  <2> SUFFICES ASSUME Inv, Effect PROVE Once!Next \/ visible' = visible
    OBVIOUS
  <2>1. CASE Settles
    BY <2>1 DEF Settles, BatchQuiet, visible
  <2>2. ASSUME NEW j \in Jobs, Enqueues(j) PROVE visible' = visible
    BY <2>2 DEF Enqueues, batchVars, visible
  <2>3. ASSUME NEW j \in Jobs, NEW a \in Attempts, Publishes(j, a) PROVE Once!Next
    <3>1. visible[j] = {}
      BY <2>3 DEF Publishes, visible
    <3>2. visible' = [visible EXCEPT ![j] = {a}]
      <4>1. {b \in Attempts : batchState'[j][b] = "ready"} = {a}
        BY <2>3 DEF Publishes
      <4>2. \A i \in Jobs : i # j => {b \in Attempts : batchState'[i][b] = "ready"}
                                       = {b \in Attempts : batchState[i][b] = "ready"}
        BY <2>3 DEF Publishes
      <4>3. QED
        BY <4>1, <4>2 DEF visible
    <3>3. QED
      BY <2>3, <3>1, <3>2 DEF Once!Next, Once!Publish
  <2>4. QED
    BY <2>1, <2>2, <2>3 DEF Effect
<1>3. Inv /\ [Next]_vars => [Once!Next]_visible
  BY <1>2, NextInv
<1>4. QED
  BY <1>1, <1>3, InvHolds, PTL DEF Spec, ImplementsPublishOnce, Once!Spec

(* Admission (Uploads).  What its two properties rest on is the way of a    *)
(* file: the upload under way that holds it is the only one, no job names   *)
(* it before the commit, and one does afterwards.                           *)

\* The upload of c is under way, with a file of its own.
Holding(c) == pc[c] \in {"receive", "enqueue", "queued"}

FilesAreNamed == paths \in Nat /\ files \subseteq 1 .. paths

HeldExists == \A c \in Clients : Holding(c) => path[c] \in files

HeldAlone == \A c, d \in Clients : Holding(c) /\ Holding(d) /\ c # d => path[c] # path[d]

HeldIsQueuedLast ==
    \A c \in Clients :
        /\ pc[c] \in {"receive", "enqueue"} => path[c] \notin U!Queued
        /\ pc[c] = "queued" => path[c] \in U!Queued

\* A file without a job is of an upload under way, or of one that was cut off.
LeftoversAreHeld ==
    \A p \in files \ U!Queued : p \in uncertain \/ \E c \in Clients : Holding(c) /\ p = path[c]

IsMap == DOMAIN pc = Clients /\ DOMAIN path = Clients

UploadInv ==
    /\ IsMap /\ FilesAreNamed /\ HeldExists /\ HeldAlone /\ HeldIsQueuedLast
    /\ U!QueuedHasFile /\ LeftoversAreHeld

LEMMA UploadInit == U!Init => UploadInv
BY DEF U!Init, UploadInv, IsMap, FilesAreNamed, HeldExists, HeldAlone, HeldIsQueuedLast, Holding,
       U!QueuedHasFile, LeftoversAreHeld, U!Queued

(* An upload begins with a name that was never used.                       *)
LEMMA BeginInv == ASSUME UploadInv, NEW c \in Clients, U!Begin(c) PROVE UploadInv'
<1> USE DEF UploadInv, IsMap, FilesAreNamed, HeldExists, HeldAlone, HeldIsQueuedLast, Holding,
            U!QueuedHasFile, LeftoversAreHeld, U!Queued, U!Begin
<1>1. paths + 1 \notin files /\ paths' = paths + 1 /\ files' = files \cup {paths + 1}
  OBVIOUS
<1>2. path'[c] = paths + 1 /\ \A d \in Clients \ {c} : path'[d] = path[d] /\ pc'[d] = pc[d]
  OBVIOUS
<1>3. pc'[c] = "receive" /\ jobs' = jobs /\ uncertain' = uncertain
  OBVIOUS
<1>4. (IsMap /\ FilesAreNamed)'
  OBVIOUS
<1>5. (HeldExists /\ HeldAlone /\ HeldIsQueuedLast)'
  BY <1>1, <1>2, <1>3
<1>6. (U!QueuedHasFile /\ LeftoversAreHeld)'
  BY <1>1, <1>2, <1>3
<1> QED
  BY <1>4, <1>5, <1>6

(* The steps of an upload that neither name, write nor release a file.     *)
LEMMA UploadQuiet ==
    ASSUME UploadInv, NEW c \in Clients, U!Chunk(c) \/ U!Sync(c) \/ U!Admit(c)
    PROVE  UploadInv'
<1>1. UNCHANGED <<path, paths, files, jobs, uncertain>>
  BY DEF U!Chunk, U!Sync, U!Admit
<1>2. /\ IsMap' /\ \A d \in Clients \ {c} : pc'[d] = pc[d]
      /\ pc'[c] = pc[c] \/ (pc[c] = "receive" /\ pc'[c] = "enqueue")
           \/ (pc[c] = "idle" /\ pc'[c] = "parse")
  BY DEF U!Chunk, U!Sync, U!Admit, UploadInv, IsMap
<1>3. \A d \in Clients :
        /\ Holding(d)' <=> Holding(d)
        /\ pc'[d] \in {"receive", "enqueue"} <=> pc[d] \in {"receive", "enqueue"}
        /\ pc'[d] = "queued" <=> pc[d] = "queued"
  BY <1>2 DEF Holding
<1>4. (FilesAreNamed /\ HeldExists /\ HeldAlone /\ HeldIsQueuedLast)'
  BY <1>1, <1>3 DEF UploadInv, FilesAreNamed, HeldExists, HeldAlone, HeldIsQueuedLast, U!Queued
<1>5. (U!QueuedHasFile /\ LeftoversAreHeld)'
  BY <1>1, <1>3 DEF UploadInv, U!QueuedHasFile, LeftoversAreHeld, U!Queued
<1> QED
  BY <1>2, <1>4, <1>5 DEF UploadInv

(* What a finished request leaves to the others.                           *)
LEMMA OverFrees ==
    ASSUME UploadInv, NEW c \in Clients, U!Over(c)
    PROVE  /\ IsMap' /\ pc'[c] = "idle"
           /\ \A d \in Clients \ {c} : path'[d] = path[d] /\ pc'[d] = pc[d]
BY DEF UploadInv, IsMap, U!Over

(* A refusal takes the file, which no job names.                           *)
LEMMA RefuseInv ==
    ASSUME UploadInv, NEW c \in Clients, U!Refuse(c) \/ U!QueueFull(c)
    PROVE  UploadInv'
<1>1. /\ IsMap' /\ pc'[c] = "idle"
      /\ \A d \in Clients \ {c} : path'[d] = path[d] /\ pc'[d] = pc[d]
  BY OverFrees DEF U!Refuse, U!QueueFull, U!Release
<1>2. /\ files' = files \ {path[c]} /\ pc[c] \in {"receive", "enqueue"}
      /\ jobs' = jobs /\ paths' = paths /\ uncertain' = uncertain
  BY DEF U!Refuse, U!QueueFull
<1>3. \A d \in Clients : Holding(d)' => Holding(d) /\ d # c /\ path[d] # path[c]
  BY <1>1, <1>2 DEF Holding, UploadInv, HeldAlone
<1>4. (FilesAreNamed /\ HeldExists /\ HeldAlone)'
  BY <1>1, <1>2, <1>3 DEF UploadInv, FilesAreNamed, HeldExists, HeldAlone
<1>5. (HeldIsQueuedLast /\ U!QueuedHasFile)'
  BY <1>1, <1>2, <1>3 DEF UploadInv, HeldIsQueuedLast, U!QueuedHasFile, Holding, U!Queued
<1>6. LeftoversAreHeld'
  BY <1>1, <1>2, <1>3 DEF UploadInv, LeftoversAreHeld, Holding, U!Queued
<1> QED
  BY <1>1, <1>4, <1>5, <1>6 DEF UploadInv

(* An answer, or its loss, leaves the file where it is.                    *)
LEMMA EndInv ==
    ASSUME UploadInv, NEW c \in Clients,
           U!EnqueueRaises(c) \/ U!Accepted(c) \/ \E saved \in BOOLEAN : U!Save(c, saved)
    PROVE  UploadInv'
<1>1. /\ IsMap' /\ pc'[c] = "idle"
      /\ \A d \in Clients \ {c} : path'[d] = path[d] /\ pc'[d] = pc[d]
  BY OverFrees DEF U!EnqueueRaises, U!Accepted, U!Save, U!Release
<1>2. files' = files /\ jobs' = jobs /\ paths' = paths
  BY DEF U!EnqueueRaises, U!Accepted, U!Save
<1>3. CASE U!EnqueueRaises(c)
  BY <1>1, <1>2, <1>3 DEF U!EnqueueRaises, UploadInv, IsMap, FilesAreNamed, HeldExists, HeldAlone,
       HeldIsQueuedLast, Holding, U!QueuedHasFile, LeftoversAreHeld, U!Queued
<1>4. CASE U!Accepted(c)
  BY <1>1, <1>2, <1>4 DEF U!Accepted, UploadInv, IsMap, FilesAreNamed, HeldExists, HeldAlone,
       HeldIsQueuedLast, Holding, U!QueuedHasFile, LeftoversAreHeld, U!Queued
<1>5. CASE \E saved \in BOOLEAN : U!Save(c, saved)
  BY <1>1, <1>2, <1>5 DEF U!Save, UploadInv, IsMap, FilesAreNamed, HeldExists, HeldAlone,
       HeldIsQueuedLast, Holding, U!QueuedHasFile, LeftoversAreHeld, U!Queued
<1> QED
  BY <1>3, <1>4, <1>5

(* The commit names a file that is there, and that nobody else holds.       *)
LEMMA EnqueueInv == ASSUME UploadInv, NEW c \in Clients, U!Enqueue(c) PROVE UploadInv'
<1>1. U!Queued' = U!Queued \cup {path[c]} /\ path[c] \in files
  BY DEF U!Enqueue, U!Queued, UploadInv, HeldExists, Holding
<1>2. /\ pc[c] = "enqueue" /\ pc'[c] = "queued" /\ path' = path /\ IsMap'
      /\ files' = files /\ paths' = paths /\ uncertain' = uncertain
      /\ \A d \in Clients \ {c} : pc'[d] = pc[d]
  BY DEF U!Enqueue, UploadInv, IsMap
<1>3. \A d \in Clients \ {c} : Holding(d) => path[d] # path[c]
  BY <1>2 DEF UploadInv, HeldAlone, Holding
<1>4. \A d \in Clients : Holding(d)' <=> Holding(d)
  BY <1>2 DEF Holding
<1>5. (FilesAreNamed /\ HeldExists /\ HeldAlone)'
  BY <1>2, <1>4 DEF UploadInv, FilesAreNamed, HeldExists, HeldAlone
<1>6. HeldIsQueuedLast'
  BY <1>1, <1>2, <1>3 DEF UploadInv, HeldIsQueuedLast, Holding
<1>7. (U!QueuedHasFile /\ LeftoversAreHeld)'
  BY <1>1, <1>2, <1>4 DEF UploadInv, U!QueuedHasFile, LeftoversAreHeld
<1> QED
  BY <1>2, <1>5, <1>6, <1>7 DEF UploadInv

(* A worker changes what a job is, not which file it names.                 *)
LEMMA WorkerInv == ASSUME UploadInv, NEW p \in U!Queued, U!End(p) \/ U!Retry(p) PROVE UploadInv'
<1>1. U!Queued' = U!Queued
  BY DEF U!End, U!Retry, U!Queued
<1>2. UNCHANGED <<pc, path, paths, files, uncertain>>
  BY DEF U!End, U!Retry, U!reqVars
<1> QED
  BY <1>1, <1>2 DEF UploadInv, IsMap, FilesAreNamed, HeldExists, HeldAlone, HeldIsQueuedLast,
       Holding, U!QueuedHasFile, LeftoversAreHeld

(* A crash makes every held file uncertain; a commit that was made all the  *)
(* same names one of them.                                                  *)
LEMMA CutOffInv == ASSUME UploadInv, U!Crash PROVE UploadInv'
<1> DEFINE cut == {path[c] : c \in {x \in Clients : pc[x] \in {"receive", "enqueue", "queued"}}}
           sent == {path[c] : c \in {x \in Clients : pc[x] = "enqueue"}}
<1>1. PICK made \in SUBSET sent : U!Queued' = U!Queued \cup made /\ uncertain' = uncertain \cup cut
  BY DEF U!Crash, U!Queued
<1>2. made \subseteq files
  BY DEF UploadInv, HeldExists, Holding
<1>3. files' = files /\ paths' = paths /\ IsMap' /\ \A c \in Clients : pc'[c] = "idle"
  BY DEF U!Crash, IsMap
<1>4. U!QueuedHasFile'
  BY <1>1, <1>2, <1>3 DEF UploadInv, U!QueuedHasFile
<1>5. LeftoversAreHeld'
  <2> SUFFICES ASSUME NEW p \in files', p \notin U!Queued' PROVE p \in uncertain'
    BY DEF LeftoversAreHeld
  <2>1. p \in uncertain \/ \E c \in Clients : Holding(c) /\ p = path[c]
    BY <1>1, <1>3 DEF UploadInv, LeftoversAreHeld
  <2> QED
    BY <1>1, <2>1 DEF Holding
<1> QED
  BY <1>3, <1>4, <1>5 DEF UploadInv, FilesAreNamed, HeldExists, HeldAlone, HeldIsQueuedLast, Holding

\* The disjuncts of U!Next, by who acts, and the stutter.
LEMMA UploadStutter == ASSUME UploadInv, UNCHANGED U!vars PROVE UploadInv'
BY DEF U!vars, U!reqVars, UploadInv, IsMap, FilesAreNamed, HeldExists, HeldAlone, HeldIsQueuedLast,
       Holding, U!QueuedHasFile, LeftoversAreHeld, U!Queued

LEMMA UploadNext == UploadInv /\ [U!Next]_(U!vars) => UploadInv'
<1> HAVE UploadInv /\ [U!Next]_(U!vars)
<1>client. ASSUME NEW c \in Clients, U!Begin(c) \/ U!Admit(c) \/ U!Step(c) PROVE UploadInv'
  BY <1>client, BeginInv, UploadQuiet, RefuseInv, EndInv, EnqueueInv DEF U!Step
<1>worker. ASSUME NEW p \in U!Queued, U!End(p) \/ U!Retry(p) PROVE UploadInv'
  BY <1>worker, WorkerInv
<1> QED
  BY <1>client, <1>worker, CutOffInv, UploadStutter DEF U!Next

(* The way of a file holds in every reachable state, for every number of    *)
(* clients, slots, places in the queue and files.                           *)
THEOREM UploadInvHolds == U!Spec => []UploadInv
<1> QED
  BY UploadInit, UploadNext, PTL DEF U!Spec

(* The file a job names is on the disk, whatever failed (intake/uploads.py: *)
(* 52-59).                                                                  *)
THEOREM JobsKeepTheirFile == U!Spec => []U!QueuedHasFile
<1>1. UploadInv => U!QueuedHasFile
  BY DEF UploadInv
<1> QED
  BY <1>1, UploadInvHolds, PTL

(* A refused upload leaves nothing on the disk.                             *)
THEOREM NothingIsLeftBehind == U!Spec => []U!LeftoversAreUncertain
<1>1. UploadInv => U!LeftoversAreUncertain
  BY DEF UploadInv, LeftoversAreHeld, U!LeftoversAreUncertain, Holding
<1> QED
  BY <1>1, UploadInvHolds, PTL

\* The way of a file, in the behaviours of the composition that run admission.
AdmissionInv == part = "uploads" => UploadInv

LEMMA AdmissionStep == ASSUME AdmissionInv, [MCNext]_allVars PROVE AdmissionInv'
<1>1. CASE part' # "uploads"
  BY <1>1 DEF AdmissionInv
<1>2. CASE part' = "uploads"
  <2>admission. part = "uploads" /\ (U!Next \/ UNCHANGED U!vars)
    BY <1>2 DEF MCNext, allVars, uploadsVars, U!vars, U!reqVars
  <2> QED
    BY <2>admission, UploadNext DEF AdmissionInv
<1> QED
  BY <1>1, <1>2

LEMMA AdmissionKeeps == AdmissionInv => UploadsAreKept
BY DEF AdmissionInv, UploadsAreKept, UploadInv, LeftoversAreHeld, Holding, U!LeftoversAreUncertain

(* The two properties of an upload, in the system that composes admission   *)
(* with the queue: the queue's behaviours leave the variables of Uploads alone. *)
THEOREM UploadsStayKept == MCSpec => []UploadsAreKept
<1>keeps. ASSUME MCInit PROVE AdmissionInv
  BY <1>keeps, UploadInit DEF AdmissionInv, MCInit
<1> QED
  BY <1>keeps, AdmissionStep, AdmissionKeeps, PTL DEF MCSpec
====
