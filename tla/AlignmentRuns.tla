---- MODULE AlignmentRuns ----
(* Analysis runs, the single leased job (alignment/store.py), the task that *)
(* executes it in an API process (alignment/service.py) and the publication *)
(* of a graph version in Neo4j (alignment/graph.py).  Run records and jobs  *)
(* live in SQLite, versions and the current pointer in Neo4j; no            *)
(* transaction spans both.  A job is executed by a coroutine, which waits   *)
(* for its heartbeat and its work, and by the work itself: for a graph, a   *)
(* thread that nobody can cancel and that outlives the coroutine.           *)
(*                                                                          *)
(* Names.  A run's key is its place in creation order.  A job is its        *)
(* jobs.sequence; its owner uuid and the version uuid its publication draws *)
(* are drawn once per job and named by the sequence; 0 is NULL.             *)
(*                                                                          *)
(* Bounds.  MaxRuns runs, MaxJobs jobs, Tables checkpoints of an analysis   *)
(* and Chunks writes of a version bound the model, not the code.            *)
EXTENDS Integers

CONSTANTS MaxRuns, MaxJobs, Tables, Chunks

ASSUME RunConstants ==
    /\ MaxRuns \in Nat \ {0} /\ MaxJobs \in Nat \ {0}
    /\ Tables \in Nat \ {0} /\ Chunks \in Nat \ {0}

Runs == 1 .. MaxRuns
Jobs == 1 .. MaxJobs

VARIABLES
    status, graphStatus,   \* of each run
    result,                \* tables in its stored result; Tables when finished
    graphVersion,          \* Run.graph_version, 0 when None
    kind, runOf,           \* of each job ever claimed
    last,                  \* the highest jobs.sequence
    active,                \* the job with active=1, or 0: the unique index
    expired,               \* its lease has run out
    main, work,            \* program points of a job's coroutine and of its work
    ticket, pointer,       \* BankAlignmentState: s.ticket and s.version
    version,               \* BankAlignmentVersion.status of a job's version
    stored, sent           \* its chunks in Neo4j, and those publish has counted

runVars == <<status, graphStatus, result, graphVersion>>
jobVars == <<kind, runOf, last, active, expired>>
taskVars == <<main, work>>
graphVars == <<ticket, pointer, version, stored, sent>>
vars == <<runVars, jobVars, taskVars, graphVars>>

Statuses == {"absent", "analyzing", "ready", "failed"}
GraphStatuses == {"none", "building", "ready", "failed"}
MainPoints == {"waiting", "finish", "fail", "gone"}
Publishing == {"begin", "ticket", "create", "lease", "write", "switch"}
WorkPoints == {"analyze", "late", "returned", "raised", "gone"} \cup Publishing

TypeOK ==
    /\ status \in [Runs -> Statuses] /\ graphStatus \in [Runs -> GraphStatuses]
    /\ result \in [Runs -> 0 .. Tables] /\ graphVersion \in [Runs -> 0 .. MaxJobs]
    /\ kind \in [Jobs -> {"none", "analyze", "graph"}] /\ runOf \in [Jobs -> Runs]
    /\ last \in 0 .. MaxJobs /\ active \in 0 .. MaxJobs /\ expired \in BOOLEAN
    /\ main \in [Jobs -> MainPoints] /\ work \in [Jobs -> WorkPoints]
    /\ ticket \in 0 .. MaxJobs /\ pointer \in 0 .. MaxJobs
    /\ version \in [Jobs -> {"absent", "building", "ready"}]
    /\ stored \in [Jobs -> 0 .. Chunks] /\ sent \in [Jobs -> 0 .. Chunks]

Init ==
    /\ status = [r \in Runs |-> "absent"] /\ graphStatus = [r \in Runs |-> "none"]
    /\ result = [r \in Runs |-> 0] /\ graphVersion = [r \in Runs |-> 0]
    /\ kind = [s \in Jobs |-> "none"] /\ runOf = [s \in Jobs |-> 1]
    /\ last = 0 /\ active = 0 /\ expired = FALSE
    /\ main = [s \in Jobs |-> "gone"] /\ work = [s \in Jobs |-> "gone"]
    /\ ticket = 0 /\ pointer = 0
    /\ version = [s \in Jobs |-> "absent"]
    /\ stored = [s \in Jobs |-> 0] /\ sent = [s \in Jobs |-> 0]

----
(* RunStore: every operation is one BEGIN IMMEDIATE transaction; one that   *)
(* raises rolls back, what _expire did included, and changes nothing.       *)

(* Mutant: an expired job of either kind fails the run itself. *)
ExpireRun ==
    [status |-> [r \in Runs |->
        IF active # 0 /\ expired /\ runOf[active] = r THEN "failed" ELSE status[r]],
     graph |-> graphStatus,
     active |-> IF expired THEN 0 ELSE active]

(* _expire: what the tables say once an expired job has been failed.        *)
Expire ==
    LET hit(k, r) == active # 0 /\ expired /\ runOf[active] = r /\ kind[active] = k
    IN  [status |-> [r \in Runs |-> IF hit("analyze", r) THEN "failed" ELSE status[r]],
         graph |-> [r \in Runs |-> IF hit("graph", r) THEN "failed" ELSE graphStatus[r]],
         active |-> IF expired THEN 0 ELSE active]

(* _claim, and the task that service.py spawns for the job.                 *)
Claim(r, k) ==
    /\ Expire.active = 0
    /\ last < MaxJobs
    /\ last' = last + 1
    /\ active' = last + 1
    /\ expired' = FALSE
    /\ kind' = [kind EXCEPT ![last + 1] = k]
    /\ runOf' = [runOf EXCEPT ![last + 1] = r]
    /\ main' = [main EXCEPT ![last + 1] = "waiting"]
    /\ work' = [work EXCEPT ![last + 1] = IF k = "analyze" THEN "analyze" ELSE "begin"]

NextRun(r) == status[r] = "absent" /\ \A q \in Runs : q < r => status[q] # "absent"

(* create_from: the run and its claim, or neither. *)
Analyze(r) ==
    /\ NextRun(r)
    /\ Claim(r, "analyze")
    /\ status' = [Expire.status EXCEPT ![r] = "analyzing"]
    /\ graphStatus' = Expire.graph
    /\ UNCHANGED <<result, graphVersion, graphVars>>

(* start_graph of a stored run. That its result has a mapped table is left  *)
(* to the data.                                                             *)
StartGraph(r) ==
    /\ Expire.status[r] = "ready"
    /\ Expire.graph[r] # "ready"
    /\ Claim(r, "graph")
    /\ status' = Expire.status
    /\ graphStatus' = [Expire.graph EXCEPT ![r] = "building"]
    /\ UNCHANGED <<result, graphVersion, graphVars>>

(* _revise: a new run beside a reviewable one. *)
Reviewable(r) == Expire.status[r] = "ready" /\ Expire.graph[r] # "building"

Forked(r) ==
    /\ status' = [Expire.status EXCEPT ![r] = "ready"]
    /\ result' = [result EXCEPT ![r] = Tables]
    /\ UNCHANGED <<graphVersion, graphVars>>

Revise(original, r) ==
    /\ Reviewable(original)
    /\ NextRun(r)
    /\ Forked(r)
    /\ graphStatus' = Expire.graph
    /\ active' = Expire.active
    /\ UNCHANGED <<kind, runOf, last, expired, taskVars>>

(* start_graph with an adopted template: fork and claim, or neither. *)
AdoptAndGenerate(original, r) ==
    /\ Reviewable(original)
    /\ NextRun(r)
    /\ Claim(r, "graph")
    /\ Forked(r)
    /\ graphStatus' = [Expire.graph EXCEPT ![r] = "building"]

(* Mutant: get reads without expiring. *)
ReadOnly == UNCHANGED vars

(* get and list, which the page repeats while a run is in progress. *)
Read ==
    /\ status' = Expire.status
    /\ graphStatus' = Expire.graph
    /\ active' = Expire.active
    /\ UNCHANGED <<result, graphVersion, kind, runOf, last, expired, taskVars, graphVars>>

(* Sixty seconds have passed since the last heartbeat. *)
LeaseRunsOut ==
    /\ active # 0 /\ ~expired
    /\ expired' = TRUE
    /\ UNCHANGED <<runVars, kind, runOf, last, active, taskVars, graphVars>>

----
(* AlignmentService._execute: the coroutine of a job.                       *)

(* Mutant: the owner token alone is compared, and outlives the lease. *)
LeasedToOwner(s) == kind[s] # "none"

(* heartbeat's and update's WHERE: the job is active and its lease runs.    *)
Leased(s) == active = s /\ ~expired

Goto(at, s, point) == at' = [at EXCEPT ![s] = point]

(* The heartbeat task raises, or close() cancels the coroutine. A heartbeat *)
(* that succeeds only prolongs the lease.                                   *)
Interrupt(s) ==
    /\ main[s] = "waiting"
    /\ Goto(main, s, "fail")
    /\ UNCHANGED <<runVars, jobVars, work, graphVars>>

WorkDone(s) ==
    /\ main[s] = "waiting"
    /\ \/ work[s] = "returned" /\ Goto(main, s, "finish")
       \/ work[s] = "raised" /\ Goto(main, s, "fail")
    /\ UNCHANGED <<runVars, jobVars, work, graphVars>>

(* store.update(finish=True) with the result of the work. Losing the lease, *)
(* a locked database or a cancellation leads to the failure branch; after a *)
(* cancellation the update may still have been made.                        *)
Finish(s) ==
    /\ main[s] = "finish"
    /\ \/ /\ Leased(s)
          /\ active' = 0
          /\ IF kind[s] = "analyze"
             THEN /\ status' = [status EXCEPT ![runOf[s]] = "ready"]
                  /\ result' = [result EXCEPT ![runOf[s]] = Tables]
                  /\ UNCHANGED <<graphStatus, graphVersion>>
             ELSE /\ graphStatus' = [graphStatus EXCEPT ![runOf[s]] = "ready"]
                  /\ graphVersion' = [graphVersion EXCEPT ![runOf[s]] = s]
                  /\ UNCHANGED <<status, result>>
          /\ \E p \in {"gone", "fail"} : Goto(main, s, p)
       \/ Goto(main, s, "fail") /\ UNCHANGED <<runVars, active>>
    /\ UNCHANGED <<kind, runOf, last, expired, work, graphVars>>

(* The except and finally clauses: record the failure if the lease still    *)
(* runs and the database answers; cancel the work. A coroutine ends, except *)
(* for an update a helper thread is already making; a thread goes on.       *)
Fail(s) ==
    /\ main[s] = "fail"
    /\ \/ /\ Leased(s)
          /\ active' = 0
          /\ IF kind[s] = "analyze"
             THEN status' = [status EXCEPT ![runOf[s]] = "failed"] /\ UNCHANGED graphStatus
             ELSE graphStatus' = [graphStatus EXCEPT ![runOf[s]] = "failed"] /\ UNCHANGED status
       \/ UNCHANGED <<active, status, graphStatus>>
    /\ Goto(main, s, "gone")
    /\ IF work[s] = "analyze" THEN \E p \in {"late", "gone"} : Goto(work, s, p)
                              ELSE UNCHANGED work
    /\ UNCHANGED <<result, graphVersion, kind, runOf, last, expired, graphVars>>

(* The API process dies with everything it runs. *)
Crash(s) ==
    /\ main[s] # "gone" \/ work[s] # "gone"
    /\ Goto(main, s, "gone")
    /\ Goto(work, s, "gone")
    /\ UNCHANGED <<runVars, jobVars, graphVars>>

----
(* The work of an analysis: checkpoints of the result so far.               *)

AnalyzeTable(s) ==
    /\ work[s] \in {"analyze", "late"}
    /\ \/ /\ Leased(s)
          /\ result[runOf[s]] < Tables
          /\ result' = [result EXCEPT ![runOf[s]] = @ + 1]
          /\ Goto(work, s, IF work[s] = "late" THEN "gone" ELSE "analyze")
       \/ Goto(work, s, IF work[s] = "late" THEN "gone" ELSE "raised") /\ UNCHANGED result
    /\ UNCHANGED <<status, graphStatus, graphVersion, jobVars, main, graphVars>>

AnalysisDone(s) ==
    /\ work[s] = "analyze"
    /\ Goto(work, s, "returned")
    /\ UNCHANGED <<runVars, jobVars, main, graphVars>>

----
(* VersionedGraph.publish: the work of a graph job. A query can also raise  *)
(* after it was committed, when its answer is lost.                         *)

Query(s, next) == \E p \in {next, "raised"} : Goto(work, s, p)

(* check_lease, before the ticket, before each chunk and before the switch. *)
CheckLease(s) ==
    /\ work[s] \in {"begin", "lease"}
    /\ \/ /\ Leased(s)
          /\ Goto(work, s, IF work[s] = "begin" THEN "ticket"
                           ELSE IF sent[s] < Chunks THEN "write" ELSE "switch")
       \/ Goto(work, s, "raised")
    /\ UNCHANGED <<runVars, jobVars, main, graphVars>>

(* MERGE ... WHERE ticket < $ticket SET ticket = $ticket. *)
TakeTicket(s) ==
    /\ work[s] = "ticket"
    /\ \/ ticket < s /\ ticket' = s /\ Query(s, "create")
       \/ Goto(work, s, "raised") /\ UNCHANGED ticket
    /\ UNCHANGED <<runVars, jobVars, main, pointer, version, stored, sent>>

CreateVersion(s) ==
    /\ work[s] = "create"
    /\ version' = [version EXCEPT ![s] = "building"]
    /\ Query(s, "lease")
    /\ UNCHANGED <<runVars, jobVars, main, ticket, pointer, stored, sent>>

(* Mutant: a chunk that the driver sends again is counted again. *)
WriteCountedTwice(s) ==
    /\ work[s] = "write"
    /\ stored' = [stored EXCEPT ![s] = @ + 1]
    /\ \E n \in {1, 2} : sent' = [sent EXCEPT ![s] = @ + n]
    /\ Goto(work, s, "lease")
    /\ UNCHANGED <<runVars, jobVars, main, ticket, pointer, version>>

(* One UNWIND ... CREATE. An edge whose endpoint is not in the version      *)
(* matches nothing and creates nothing, but is counted as sent.             *)
Write(s) ==
    /\ work[s] = "write"
    /\ \E n \in {0, 1} : stored' = [stored EXCEPT ![s] = @ + n]
    /\ \/ sent' = [sent EXCEPT ![s] = @ + 1] /\ Goto(work, s, "lease")
       \/ UNCHANGED sent /\ Goto(work, s, "raised")
    /\ UNCHANGED <<runVars, jobVars, main, ticket, pointer, version>>

(* Mutants: the publishing transaction forgets the ticket, or the counts.   *)
MaySwitchUnfenced(s) == version[s] = "building" /\ stored[s] = sent[s]
MaySwitchUncounted(s) == ticket = s /\ version[s] = "building"

MaySwitch(s) == ticket = s /\ version[s] = "building" /\ stored[s] = sent[s]

(* The publishing transaction: counts, ownership and pointer in one. *)
Switch(s) ==
    /\ work[s] = "switch"
    /\ \/ /\ MaySwitch(s)
          /\ version' = [version EXCEPT ![s] = "ready"]
          /\ pointer' = s
          /\ Query(s, "returned")
       \/ Goto(work, s, "raised") /\ UNCHANGED <<version, pointer>>
    /\ UNCHANGED <<runVars, jobVars, main, ticket, stored, sent>>

----
Request ==
    \/ \E r \in Runs : Analyze(r) \/ StartGraph(r)
    \/ \E original, r \in Runs : Revise(original, r) \/ AdoptAndGenerate(original, r)
    \/ Read

Coroutine(s) == WorkDone(s) \/ Finish(s) \/ Fail(s)

Work(s) ==
    \/ AnalyzeTable(s) \/ AnalysisDone(s)
    \/ CheckLease(s) \/ TakeTicket(s) \/ CreateVersion(s) \/ Write(s) \/ Switch(s)

Next ==
    \/ Request
    \/ LeaseRunsOut
    \/ \E s \in Jobs : Coroutine(s) \/ Work(s) \/ Interrupt(s) \/ Crash(s)

Spec == Init /\ [][Next]_vars

(* Nobody refreshes the lease of the active job any more. *)
Abandoned ==
    /\ active # 0
    /\ main[active] = "gone"
    /\ work[active] \notin Publishing

(* The event loop and its threads run, time passes for a lease that nobody  *)
(* refreshes, and a page that shows a run in progress keeps asking for it   *)
(* (frontend/src/hooks/useTaskResource.ts).                                 *)
Fairness ==
    /\ \A s \in Jobs : WF_vars(Coroutine(s)) /\ WF_vars(Work(s))
    /\ WF_vars(Abandoned /\ LeaseRunsOut)
    /\ WF_vars(Read)

FairSpec == Spec /\ Fairness
----
(* Safety.                                                                  *)

(* A run says "analyzing" or "building" exactly while the one active job is *)
(* its job of that kind: no run is stuck without a job that can expire, and *)
(* no job works for a run that shows something else.                        *)
StatusMatchesJob ==
    \A r \in Runs :
        /\ status[r] = "analyzing" <=>
              active # 0 /\ runOf[active] = r /\ kind[active] = "analyze"
        /\ graphStatus[r] = "building" <=>
              active # 0 /\ runOf[active] = r /\ kind[active] = "graph"

(* What the current pointer names is a published version with everything    *)
(* publish sent, whoever wrote it and whatever became of its job.           *)
CurrentIsWhole ==
    pointer # 0 => version[pointer] = "ready" /\ stored[pointer] = Chunks

(* A run that reports success was published, by a job of its own, and only  *)
(* a newer publication has replaced it.                                     *)
SuccessIsPublished ==
    \A r \in Runs : graphStatus[r] = "ready" =>
        /\ graphVersion[r] # 0 /\ runOf[graphVersion[r]] = r
        /\ version[graphVersion[r]] = "ready"
        /\ graphVersion[r] <= pointer

(* A process whose lease ended long ago never puts its older version in     *)
(* place of a newer one (the fencing ticket).                               *)
PointerAdvances == [][pointer' >= pointer]_vars

(* A finished run is immutable evidence, as revise and its caller's earlier *)
(* reads assume: no late checkpoint, expiry or failure of another job       *)
(* changes its status or result, and no failure takes back its graph.       *)
ReadyIsFinal ==
    [][\A r \in Runs :
          /\ status[r] = "ready" => status'[r] = "ready" /\ result'[r] = result[r]
          /\ graphStatus[r] = "ready" =>
                graphStatus'[r] = "ready" /\ graphVersion'[r] = graphVersion[r]]_vars

(* Liveness, under Fairness: no run stays in progress for ever, however its *)
(* processes die, and the job slot becomes free again.                      *)
RunsSettle ==
    \A r \in Runs : status[r] = "analyzing" \/ graphStatus[r] = "building" ~>
                     status[r] # "analyzing" /\ graphStatus[r] # "building"

(* store.py:100 tells the user of an expired graph job that the published   *)
(* graph is unchanged, and graph.py:257 that staged versions stay           *)
(* invisible: the pointer only moves to a version whose run is building.    *)
FailedLeavesGraph ==
    [][pointer' # pointer => graphStatus[runOf[pointer']] = "building"]_vars
====
