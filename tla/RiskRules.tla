---- MODULE RiskRules ----
(* WHY risk rules: generation jobs, the human review of the rules they     *)
(* find and the read-only executions of approved rules (risk/service.py,   *)
(* risk/store.py).  One API process owns the SQLite file.  Jobs are tasks  *)
(* of its event loop that keep their record in memory and save it at       *)
(* chosen points; reviews and the beginning of an execution are immediate  *)
(* transactions.  The process may be closed (its tasks are cancelled) or   *)
(* crash, and opening the store again fails whatever was still running.    *)
(*                                                                         *)
(* A rule stands for the content hash of a case; the traversal, the prompt *)
(* and the query behind a rule are in RuleTraversal and RiskExecution.     *)
EXTENDS Naturals, FiniteSets, SequencesExt, FiniteSetsExt

CONSTANTS
    Jobs,           \* generation jobs that may be submitted
    Rules,          \* rule contents (content hashes) the model may answer
    Incomplete,     \* the rules saved with validation issues
    Malformed,      \* a raw candidate _case refuses
    Answers,        \* the candidate lists the model may answer
    Clients,        \* browsers reviewing cases and asking for executions
    Anchors,        \* anchors per request
    WhyCoverage,    \* what coverage_complete of a WHY import may say
    Slots,          \* alignment_model_concurrency
    MaxRaw,         \* candidates taken per anchor (10 in the code)
    MaxVersion,     \* bound: reviews per case
    MaxExecutions,  \* bound: execution rows
    MaxStops,       \* bound: closes and crashes
    MaxActors,      \* bound: jobs submitted and clients that opened a page
    None

ASSUME RiskAssumption ==
    /\ Incomplete \subseteq Rules /\ Malformed \notin Rules
    /\ WhyCoverage \subseteq BOOLEAN
    /\ Answers \subseteq Seq(Rules \cup {Malformed})
    /\ {Anchors, Slots, MaxRaw, MaxVersion} \subseteq Nat \ {0}
    /\ {MaxExecutions, MaxStops, MaxActors} \subseteq Nat

VARIABLES
    api,        \* "up", "closing" (tasks cancelled, still saving) or "down"
    stops,      \* closes and crashes so far
    basis,      \* snapshot files and policy versions are those the rules pin
    jobs,       \* job rows: None, or what the last save wrote
    task,       \* the task of a job and the record it holds in memory
    adrift,     \* inserts a cancelled task left running in a worker thread
    cases,      \* case rows in insertion order
    view,       \* what a client's page shows: a case and its version
    request,    \* the execution request a client has in flight
    executions  \* execution rows in insertion order

vars == <<api, stops, basis, jobs, task, adrift, cases, view, request, executions>>
jobVars == <<jobs, task, adrift>>
reviewVars == <<view, request, executions>>

----
(* Rows and tasks.                                                         *)

Working == {"anchor", "asking", "case", "insert"}

NoTask == [pc |-> "none"]

\* The record start() saves and hands to the task; why is the coverage flag
\* of the WHY import.  base (how many cases there were) is history only, as
\* is unsaved: the row is behind its task, whose last save failed.
NewTask(why) ==
    [pc |-> "new", status |-> "running", anchors |-> <<>>, left |-> <<>>,
     cases |-> {}, rejected |-> 0, complete |-> why, answered |-> {},
     base |-> Len(cases)]

\* _save_job: what of the task's record the row holds.  coverage.complete is
\* FALSE until the job succeeded.
Row(t) ==
    [status |-> t.status, anchors |-> t.anchors, cases |-> t.cases,
     rejected |-> t.rejected, answered |-> t.answered, base |-> t.base,
     unsaved |-> FALSE,
     complete |-> t.status = "succeeded" /\ t.complete]

Save(j, t) == jobs' = [jobs EXCEPT ![j] = Row(t)]
Become(j, t) == task' = [task EXCEPT ![j] = t]

\* The rows with this content hash, and the newest of them (rowid DESC).
CasesOf(rule) == {i \in DOMAIN cases : cases[i].rule = rule}

NewCase(j, rule) ==
    [rule |-> rule, job |-> j, base |-> task[j].base, version |-> 1,
     review |-> "pending_review", execution |-> "blocked", audits |-> <<>>]

Init ==
    /\ api = "up" /\ stops = 0 /\ basis = TRUE
    /\ jobs = [j \in Jobs |-> None] /\ task = [j \in Jobs |-> NoTask] /\ adrift = {}
    /\ cases = <<>>
    /\ view = [u \in Clients |-> None] /\ request = [u \in Clients |-> None]
    /\ executions = <<>>

\* Named bound: who takes part in a behaviour.
Room ==
    Cardinality({j \in Jobs : jobs[j] # None}) + Cardinality({u \in Clients : view[u] # None})
        < MaxActors

----
(* Generation.                                                             *)

\* start: the row is inserted and the task created.
Start(j) ==
    /\ api = "up" /\ jobs[j] = None /\ Room
    /\ \E why \in WhyCoverage : Become(j, NewTask(why)) /\ Save(j, NewTask(why))
    /\ UNCHANGED <<api, stops, basis, adrift, cases, reviewVars>>

\* The request is cancelled inside its insert: the thread inserts the row and
\* no task is created.
StartCut(j) ==
    /\ api = "up" /\ jobs[j] = None /\ Room
    /\ Save(j, NewTask(TRUE))
    /\ UNCHANGED <<api, stops, basis, task, adrift, cases, reviewVars>>

\* The coroutine first runs, and waits for a slot.
Enter(j) ==
    /\ task[j].pc = "new"
    /\ Become(j, [task[j] EXCEPT !.pc = "queue"])
    /\ UNCHANGED <<api, stops, basis, jobs, adrift, cases, reviewVars>>

Acquire(j) ==
    /\ task[j].pc = "queue"
    /\ Cardinality({k \in Jobs : task[k].pc \in Working}) < Slots
    /\ Become(j, [task[j] EXCEPT !.pc = "anchor"])
    /\ UNCHANGED <<api, stops, basis, jobs, adrift, cases, reviewVars>>

\* One anchor is propagated and its record saved.  An oversized scope skips
\* it; a cut (of the paths, the candidates or the prompt) is remembered; when
\* no candidate with a WHY text is left, cut or not, the model is not asked.
Propagate(j) ==
    LET t == task[j] IN
    /\ t.pc = "anchor" /\ Len(t.anchors) < Anchors
    /\ \E outcome \in {"oversized", "cut", "cut_no_sources", "no_sources", "whole"} :
        LET seen == [t EXCEPT !.anchors = Append(@, outcome),
                              !.complete = @ /\ outcome \in {"whole", "no_sources"}]
        IN  /\ Save(j, seen)
            /\ Become(j, CASE outcome = "oversized" -> [seen EXCEPT !.rejected = @ + 1]
                           [] outcome \in {"cut_no_sources", "no_sources"} -> seen
                           [] OTHER -> [seen EXCEPT !.pc = "asking"])
    /\ UNCHANGED <<api, stops, basis, adrift, cases, reviewVars>>

(* Mutant: candidates beyond the tenth are dropped without a mark.         *)
AnswerCut(j) ==
    LET t == task[j] IN
    /\ t.pc = "asking"
    /\ \E raws \in Answers :
        Become(j, [t EXCEPT !.pc = "case", !.left = SubSeq(raws, 1, Min({Len(raws), MaxRaw})),
                            !.answered = @ \cup ToSet(raws)])
    /\ UNCHANGED <<api, stops, basis, jobs, adrift, cases, reviewVars>>

\* The model answered a list; candidates beyond MaxRaw are rejected together.
Answer(j) ==
    LET t == task[j] IN
    /\ t.pc = "asking"
    /\ \E raws \in Answers :
        Become(j, [t EXCEPT !.pc = "case", !.left = SubSeq(raws, 1, Min({Len(raws), MaxRaw})),
                            !.answered = @ \cup ToSet(raws),
                            !.complete = @ /\ Len(raws) <= MaxRaw,
                            !.rejected = IF Len(raws) > MaxRaw THEN @ + 1 ELSE @])
    /\ UNCHANGED <<api, stops, basis, jobs, adrift, cases, reviewVars>>

\* A candidate _case refuses.
Reject(j) ==
    LET t == task[j] IN
    /\ t.pc = "case" /\ t.left # <<>> /\ Head(t.left) = Malformed
    /\ Become(j, [t EXCEPT !.left = Tail(@), !.complete = FALSE, !.rejected = @ + 1])
    /\ UNCHANGED <<api, stops, basis, jobs, adrift, cases, reviewVars>>

(* Mutant: the look-up is skipped, so every retry inserts the rule again.  *)
FindUnchecked(j) ==
    LET t == task[j] IN
    /\ t.pc = "case" /\ t.left # <<>> /\ Head(t.left) # Malformed
    /\ Become(j, [t EXCEPT !.pc = "insert"])
    /\ UNCHANGED <<api, stops, basis, jobs, adrift, cases, reviewVars>>

\* The candidate is looked up by its content hash on the event loop: the
\* newest case that holds it is listed, else an insert is begun.
Find(j) ==
    LET t == task[j]
        same == CasesOf(Head(t.left))
    IN
    /\ t.pc = "case" /\ t.left # <<>> /\ Head(t.left) # Malformed
    /\ Become(j, IF same = {} THEN [t EXCEPT !.pc = "insert"]
                 ELSE [t EXCEPT !.left = Tail(@), !.cases = @ \cup {Max(same)}])
    /\ UNCHANGED <<api, stops, basis, jobs, adrift, cases, reviewVars>>

\* The worker thread inserts the case, whatever was inserted meanwhile.
Insert(j) ==
    LET t == task[j] IN
    /\ t.pc = "insert"
    /\ cases' = Append(cases, NewCase(j, Head(t.left)))
    /\ Become(j, [t EXCEPT !.pc = "case", !.left = Tail(@), !.cases = @ \cup {Len(cases) + 1}])
    /\ UNCHANGED <<api, stops, basis, jobs, adrift, reviewVars>>

EndAnchor(j) ==
    LET t == [task[j] EXCEPT !.pc = "anchor"] IN
    /\ task[j].pc = "case" /\ task[j].left = <<>>
    /\ Become(j, t) /\ Save(j, t)
    /\ UNCHANGED <<api, stops, basis, adrift, cases, reviewVars>>

\* The last anchor is done: the slot is freed, the final save is begun.
Succeed(j) ==
    /\ task[j].pc = "anchor" /\ Len(task[j].anchors) = Anchors
    /\ Become(j, [task[j] EXCEPT !.pc = "saving", !.status = "succeeded"])
    /\ UNCHANGED <<api, stops, basis, jobs, adrift, cases, reviewVars>>

\* The model call, the response, a thread or the store raises.
Break(j) ==
    /\ task[j].pc \in Working
    /\ Become(j, [task[j] EXCEPT !.pc = "saving", !.status = "failed"])
    /\ UNCHANGED <<api, stops, basis, jobs, adrift, cases, reviewVars>>

\* finally: the record is saved as it now is, and the task ends.
Finish(j) ==
    /\ task[j].pc = "saving"
    /\ Save(j, task[j]) /\ Become(j, NoTask)
    /\ UNCHANGED <<api, stops, basis, adrift, cases, reviewVars>>

\* The last save fails: the row stays as an earlier save left it, running,
\* and nothing of this process looks at it again.
FinishUnsaved(j) ==
    /\ task[j].pc = "saving"
    /\ jobs' = [jobs EXCEPT ![j].unsaved = TRUE] /\ Become(j, NoTask)
    /\ UNCHANGED <<api, stops, basis, adrift, cases, reviewVars>>

\* An insert whose task was cancelled still runs to its end.
LateInsert(a) ==
    /\ a \in adrift
    /\ adrift' = adrift \ {a} /\ cases' = Append(cases, a.case)
    /\ UNCHANGED <<api, stops, basis, jobs, task, reviewVars>>

----
(* The process.                                                            *)

\* close: every task is cancelled.  One that never ran just ends, its row
\* still running; one inside an insert leaves it to the worker thread.
Close ==
    /\ api = "up" /\ stops < MaxStops
    /\ api' = "closing" /\ stops' = stops + 1
    /\ adrift' = adrift \cup {[job |-> j, case |-> NewCase(j, Head(task[j].left))] :
                              j \in {k \in Jobs : task[k].pc = "insert"}}
    /\ task' = [j \in Jobs |->
            IF task[j].pc = "new" THEN NoTask
            ELSE IF task[j].pc \in Working \cup {"queue"}
                 THEN [task[j] EXCEPT !.pc = "saving", !.status = "failed"]
            ELSE task[j]]
    /\ UNCHANGED <<basis, jobs, cases, reviewVars>>

\* The process ends: close has awaited its tasks, the executor its threads.
\* What a cut request had not saved is lost.
Exit ==
    /\ api = "closing" /\ \A j \in Jobs : task[j] = NoTask
    /\ adrift = {}
    /\ api' = "down" /\ request' = [u \in Clients |-> None]
    /\ UNCHANGED <<stops, basis, jobs, task, adrift, cases, view, executions>>

Crash ==
    /\ api # "down" /\ stops < MaxStops
    /\ api' = "down" /\ stops' = stops + 1
    /\ task' = [j \in Jobs |-> NoTask] /\ adrift' = {}
    /\ request' = [u \in Clients |-> None]
    /\ UNCHANGED <<basis, jobs, cases, view, executions>>

Interrupted(row) ==
    IF row.status = "running" THEN [row EXCEPT !.status = "failed", !.unsaved = FALSE] ELSE row

\* RiskStore.__init__: rows still running are failed by the restart.
Open ==
    /\ api = "down"
    /\ api' = "up"
    /\ jobs' = [j \in Jobs |-> IF jobs[j] = None THEN None ELSE Interrupted(jobs[j])]
    /\ executions' = [i \in DOMAIN executions |-> Interrupted(executions[i])]
    /\ UNCHANGED <<stops, basis, task, adrift, cases, view, request>>

\* A snapshot file is changed or lost, or a build with other policies serves.
BasisChanges ==
    /\ basis /\ basis' = FALSE
    /\ UNCHANGED <<api, stops, jobs, task, adrift, cases, reviewVars>>

----
(* Review and execution.                                                   *)

\* A client loads a case; what the page shows may be stale when it is sent.
Load(u, i) ==
    /\ api = "up" /\ i \in DOMAIN cases /\ (view[u] = None => Room)
    /\ view' = [view EXCEPT ![u] = [case |-> i, version |-> cases[i].version]]
    /\ UNCHANGED <<api, stops, basis, jobVars, cases, request, executions>>

(* Mutant: the version is not compared, only the content hash.             *)
ExpectHash(v) == v.case \in DOMAIN cases

\* expect: the case still has the version (and content hash) of the page.
Expect(v) == cases[v.case].version = v.version

\* _validate: no issue, and the evidence can be derived again from the
\* pinned snapshot under the pinned policies.
Valid(i) == basis /\ cases[i].rule \notin Incomplete

\* The row of a case once a person has decided it.
Decided(c, action, confirmed) ==
    [c EXCEPT !.version = @ + 1, !.review = action,
              !.execution = IF action = "approved" THEN "ready" ELSE "blocked",
              !.audits = Append(@, [action |-> action, confirmed |-> confirmed])]

\* review: one immediate transaction; the answer shows the new version.
Review(u, action, confirmed) ==
    LET i == view[u].case IN
    /\ api = "up" /\ view[u] # None /\ cases[i].version < MaxVersion
    /\ Expect(view[u])
    /\ action = "approved" => confirmed /\ Valid(i)
    /\ cases' = [cases EXCEPT ![i] = Decided(@, action, confirmed)]
    /\ view' = [view EXCEPT ![u].version = @ + 1]
    /\ UNCHANGED <<api, stops, basis, jobVars, request, executions>>

\* execute: the gate is handed to a worker thread, shielded from the request.
Execute(u) ==
    /\ api = "up" /\ view[u] # None /\ request[u] = None
    /\ request' = [request EXCEPT ![u] =
            [pc |-> "begin", cut |-> FALSE, case |-> view[u].case, version |-> view[u].version,
             row |-> 0, status |-> "failed"]]
    /\ UNCHANGED <<api, stops, basis, jobVars, cases, view, executions>>

(* Mutant: the gate is not shielded, so a cut request forgets its row.     *)
BeginUnshielded(u) ==
    LET r == request[u] IN
    /\ api # "down" /\ r # None /\ r.pc = "begin" /\ Expect(r)
    /\ cases[r.case].review = "approved" /\ cases[r.case].execution = "ready"
    /\ Valid(r.case) /\ Len(executions) < MaxExecutions
    /\ executions' = Append(executions,
            [case |-> r.case, version |-> cases[r.case].version, asked |-> r.version,
             status |-> "running", unsaved |-> FALSE])
    /\ request' = [request EXCEPT ![u] =
            IF r.cut THEN None
            ELSE [@ EXCEPT !.pc = "query", !.row = Len(executions) + 1]]
    /\ UNCHANGED <<api, stops, basis, jobVars, cases, view>>

\* begin_execution: the gate and the insert of the row, one transaction.  A
\* request cut meanwhile goes on to record that it failed.
Begin(u) ==
    LET r == request[u] IN
    /\ api # "down" /\ r # None /\ r.pc = "begin" /\ Expect(r)
    /\ cases[r.case].review = "approved" /\ cases[r.case].execution = "ready"
    /\ Valid(r.case) /\ Len(executions) < MaxExecutions
    /\ executions' = Append(executions,
            [case |-> r.case, version |-> cases[r.case].version, asked |-> r.version,
             status |-> "running", unsaved |-> FALSE])
    /\ request' = [request EXCEPT ![u] = [@ EXCEPT !.pc = IF r.cut THEN "saving" ELSE "query",
                                                       !.row = Len(executions) + 1]]
    /\ UNCHANGED <<api, stops, basis, jobVars, cases, view>>

\* The gate refuses, or its transaction fails.
Refuse(u) ==
    /\ request[u] # None /\ request[u].pc = "begin"
    /\ request' = [request EXCEPT ![u] = None]
    /\ UNCHANGED <<api, stops, basis, jobVars, cases, view, executions>>

\* The HTTP request is cancelled: inside the gate, or inside the query.
Cut(u) ==
    /\ request[u] # None /\ request[u].pc \in {"begin", "query"}
    /\ request' = [request EXCEPT ![u] = IF @.pc = "begin" THEN [@ EXCEPT !.cut = TRUE]
                                         ELSE [@ EXCEPT !.pc = "saving"]]
    /\ UNCHANGED <<api, stops, basis, jobVars, cases, view, executions>>

\* The executor returns the whole result, or raises.
Query(u) ==
    /\ request[u] # None /\ request[u].pc = "query"
    /\ \E status \in {"succeeded", "failed"} :
        request' = [request EXCEPT ![u] = [@ EXCEPT !.pc = "saving", !.status = status]]
    /\ UNCHANGED <<api, stops, basis, jobVars, cases, view, executions>>

\* finally: the execution row is saved.
Record(u) ==
    /\ request[u] # None /\ request[u].pc = "saving"
    /\ executions' = [executions EXCEPT ![request[u].row].status = request[u].status]
    /\ request' = [request EXCEPT ![u] = None]
    /\ UNCHANGED <<api, stops, basis, jobVars, cases, view>>

\* That save fails: the request ends, its row stays running.
RecordUnsaved(u) ==
    /\ request[u] # None /\ request[u].pc = "saving"
    /\ executions' = [executions EXCEPT ![request[u].row].unsaved = TRUE]
    /\ request' = [request EXCEPT ![u] = None]
    /\ UNCHANGED <<api, stops, basis, jobVars, cases, view>>

----
Generate(j) ==
    \/ Start(j) \/ StartCut(j) \/ Enter(j) \/ Acquire(j) \/ Propagate(j) \/ Answer(j)
    \/ Reject(j) \/ Find(j) \/ Insert(j) \/ EndAnchor(j) \/ Succeed(j) \/ Break(j)
    \/ Finish(j) \/ FinishUnsaved(j)

Serve(u) ==
    \/ \E i \in DOMAIN cases : Load(u, i)
    \/ \E action \in {"approved", "rejected"}, confirmed \in BOOLEAN :
            Review(u, action, confirmed)
    \/ Execute(u) \/ Begin(u) \/ Refuse(u) \/ Cut(u) \/ Query(u) \/ Record(u)
    \/ RecordUnsaved(u)

Process == Close \/ Exit \/ Crash \/ Open \/ BasisChanges \/ \E a \in adrift : LateInsert(a)

Next == Process \/ (\E j \in Jobs : Generate(j)) \/ (\E u \in Clients : Serve(u))

\* A task and a request keep running while the process lives: model calls,
\* graph reads and SQLite waits have timeouts.  A stopped process is started
\* again.  Nothing makes a client send anything.
Fairness ==
    /\ \A j \in Jobs :
        WF_vars(Enter(j) \/ Acquire(j) \/ Propagate(j) \/ Answer(j) \/ Reject(j) \/ Find(j)
                \/ Insert(j) \/ EndAnchor(j) \/ Succeed(j) \/ Break(j) \/ Finish(j)
                \/ FinishUnsaved(j))
    /\ \A u \in Clients :
        WF_vars(Begin(u) \/ Refuse(u) \/ Query(u) \/ Record(u) \/ RecordUnsaved(u))
    /\ WF_vars(\E a \in adrift : LateInsert(a))
    /\ WF_vars(Exit) /\ WF_vars(Open)

Spec == Init /\ [][Next]_vars /\ Fairness

----
(* Properties.                                                             *)

TypeOK ==
    /\ api \in {"up", "closing", "down"} /\ stops \in 0..MaxStops /\ basis \in BOOLEAN
    /\ \A j \in Jobs :
        /\ jobs[j] = None \/ jobs[j].status \in {"running", "succeeded", "failed"}
        /\ task[j].pc \in Working \cup {"none", "new", "queue", "saving"}
    /\ \A i \in DOMAIN cases :
        /\ cases[i].rule \in Rules
        /\ cases[i].version \in 1..MaxVersion
        /\ cases[i].review \in {"pending_review", "approved", "rejected"}
        /\ cases[i].execution \in {"blocked", "ready"}
    /\ \A u \in Clients : view[u] = None \/ view[u].case \in DOMAIN cases
    /\ \A i \in DOMAIN executions : executions[i].status \in {"running", "succeeded", "failed"}

\* An execution row exists only for a rule a person approved with the
\* evidence confirmed, and it runs the very decision its requester had on
\* screen: a case re-decided between the page and the gate (even back to
\* approved) is refused (begin_execution, expect; docs/risk.md).
ExecutedWasApproved ==
    \A e \in ToSet(executions) :
        /\ e.version = e.asked /\ e.version > 1
        /\ LET audit == cases[e.case].audits[e.version - 1]
           IN  audit.action = "approved" /\ audit.confirmed
        /\ cases[e.case].rule \notin Incomplete

\* A job submitted after a rule was stored never opens a second case for it:
\* two cases share a content hash only if the later one's job was already
\* running when the earlier was inserted ("keep the existing review
\* history", _generate).
RetryKeepsHistory ==
    \A i, k \in DOMAIN cases :
        i < k /\ cases[i].rule = cases[k].rule => i > cases[k].base

\* coverage.complete is a promise: no anchor was skipped or cut, no candidate
\* dropped, and every rule the model answered is among the job's cases, which
\* are stored (_generate's complete flag).
CompleteMeansWhole ==
    \A j \in Jobs : jobs[j] # None /\ jobs[j].complete =>
        /\ Len(jobs[j].anchors) = Anchors
        /\ ToSet(jobs[j].anchors) \subseteq {"whole", "no_sources"}
        /\ jobs[j].rejected = 0
        /\ jobs[j].cases \subseteq DOMAIN cases
        /\ jobs[j].answered = {cases[i].rule : i \in jobs[j].cases}

\* A settled job or execution is never rewritten: not by a task that still
\* saves while its process closes, nor by the next opening of the store; and
\* what was left running, for whichever reason, that opening settles (__init__).
SettledIsFinal ==
    [][/\ \A j \in Jobs : jobs[j] # None /\ jobs[j].status # "running" => jobs'[j] = jobs[j]
       /\ \A i \in DOMAIN executions :
            executions[i].status # "running" => executions'[i] = executions[i]
       /\ api = "down" /\ api' = "up" =>
            \A row \in {jobs'[j] : j \in Jobs} \cup ToSet(executions') :
                row # None => row.status # "running"]_vars

\* A job that has a task and an execution that has a row both settle, whatever
\* is cancelled, closed or crashes, unless the store refuses their last save
\* (finally, shield).
WorkSettles ==
    /\ \A j \in Jobs :
        task[j] # NoTask ~> jobs[j] # None /\ (jobs[j].status # "running" \/ jobs[j].unsaved)
    /\ \A n \in 1..MaxExecutions :
        Len(executions) >= n ~>
            Len(executions) >= n /\ (executions[n].status # "running" \/ executions[n].unsaved)
====
