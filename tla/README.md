# A TLA+ model of the bank data preparation platform

This project specifies `bank_project`, a FastAPI service with a queue worker and
detached indexing processes that stages bank data (files, MySQL tables), aligns it
with an ontology, publishes an alignment graph to Neo4j, builds GraphRAG indexes, and
lets people review matches, entity links and risk rules. The specifications
concentrate on what the code's tests can hardly reach: what happens when requests,
worker threads, leases, model calls, crashes and lost database answers interleave, and
what the pure algorithms in between compute on inputs nobody wrote a test for.

Paths below are relative to the repository, `bp/` stands for `src/bank_project/`.

## 1. The system

### 1.1 Components

| Component | State it keeps | Operations | Hard behaviour | What makes it correct | Module |
|---|---|---|---|---|---|
| Upload admission, `bp/intake/uploads.py`, `bp/api/intake.py` | two slots, upload files | receive, enqueue, retry | uncertain enqueue, cut-off bodies | no queued job without its file, slots come back | Uploads |
| Intake queue, `bp/staging/jobs.py` | MySQL `intake_jobs`, guard row | create, retry, cancel, claim (with recovery), bind, heartbeat, publish, fail | several workers, 90 s heartbeats, claims taken over while the old process still runs | one attempt per job is ever visible; the queue limit; every job settles | IntakeQueue |
| Intake worker, `bp/intake/worker.py` | per process: job, writer, `lost` list, heartbeat thread | run_job, main loop | two threads, crash anywhere, commits whose answer is lost | only the holder of the latest claim writes | IntakeQueue |
| Readers, `bp/intake/streaming.py`, `xlsx_stream.py`, `files.py`, `mysql.py` | one document being read | read rows, refuse, summarise types | gaps, misplaced cells, limits hit exactly | a table is stored whole or refused for a cause | SourceReaders |
| Batch store and writer, `bp/staging/store.py` | MySQL `intake_batches/tables/rows` | writer, collect_failed, get, preview, delete, restore, purge | collection beside a live writer; purge beside readers | ready batches are whole; failed ones go away | IntakeQueue, SourceLifecycle |
| Batch lifecycle and cleanup, `bp/intake/lifecycle.py`, `bp/staging/cleanup.py` | SQLite `run_batches`, MySQL batches, upload files | remove, restore, purge, collect | three stores that commit separately | a referenced batch is never purged; a purge finishes and leaves nothing | SourceLifecycle |
| Alignment analysis, `bp/alignment/analyzer.py`, `interpretation.py`, `retrieval.py` | batches in flight, search cache | interpret, split, search, fail | concurrent batches, cut answers, a service that changes its revision | every column once, one revision, nothing outlives its table | AlignmentAnalysis |
| Templates and edits, `bp/alignment/templates.py`, `relations.py`, `editing.py` | versions of a run's template | draft, edit, save, adopt | groups that contradict each other, stale approvals | drafts are adoptable and keep every column; only what was approved is compiled | AlignmentTemplates |
| Template compiler, `bp/staging/compile.py`, `keys.py` | MySQL drafts, shared key sets | compile, ensure, collect | two compilations share a key set; collection beside a live compilation | a compiled graph has exactly its rows' nodes and joins, or is refused for a cause (not if its draft was collected: finding 5) | TemplateCompile |
| Alignment runs, `bp/alignment/store.py`, `service.py` | SQLite `runs`, `jobs` (one active), leases | analyze, generate, edit, expiry, heartbeat, close | cancelled coroutines whose threads go on | run records agree with the one leased job | AlignmentRuns |
| Graph publication, `bp/alignment/graph.py` | Neo4j state node, version nodes | publish, current | zombie publishers, lost answers, two stores | the current graph is whole and never goes back | AlignmentRuns |
| Graph browsing, `bp/alignment/browsing.py` | cursor of a client | overview, next page | versions are published between pages | pages are of one version, complete, without repeats | GraphBrowser |
| GraphRAG documents, `bp/graphrag/parsers.py`, `records.py` | dataset rows, captured records | parse, create, capture, verify | partly unreadable archives, records of earlier attempts | an upload is imported whole or refused; records say where they are from | DocumentRecords |
| GraphRAG jobs, `bp/graphrag/jobs.py`, `worker.py` | `job.json`, `listing.json`, three flocks, artifacts | create, get, start, run_job | flocks of dying processes, probing, replaced runs | success names whole artifacts and is final | GraphRagJobs |
| GraphRAG queries, `bp/graphrag/service.py`, `exploration.py` | process-wide model cache and lock | query, stream, evidence | abandoned streams, model clients of other datasets | answers use the dataset's own models; evidence names what exists; the lock returns | GraphQueries |
| Ontology access, `bp/ontology/` | catalogue, dimension and risk caches, snapshot archive | current, for_risk, dimensions, pinned | the service switches while it is read | what is handed out is whole, of one revision and archived | OntologyAccess |
| Import of explanations, `bp/risk/import_why.py` | the output file | fetch, verify, publish | racing processes, a service that switches | verified, nothing overwritten | WhyImport |
| Risk rules, `bp/risk/service.py`, `store.py` | SQLite jobs, cases, executions; tasks | generate, review, execute, close | cancellation, shutdown and restart at every await | only the approved version runs; a retry keeps histories; jobs settle | RiskRules |
| Risk traversal and execution, `bp/risk/propagation.py`, `compiler.py`, `execution.py` | labels; pages of a version | propagate, scope, validate, total | depth limits; pages that must add up to the count | strongest paths, told truncation, no partial totals | RuleTraversal, RiskExecution |
| Knowledge matching, `bp/knowledge/` | SQLite nodes, edges with revisions | match, review node, review edge, propose | two reviewers on one revision | nobody decides on what they did not see; edges stay typed by their endpoints | MatchReview |
| Resolution engine, `bp/resolution/engine/` | decisions, budgets, shared requests | recall, expand, compare, merge | concurrency, time limits, shared requests, limits | budgets hold, clusters are confirmed pair by pair, losses are told | CandidateRecall, ResolutionEngine |
| Entity resolution, `bp/resolution/store.py`, `projection.py`, `adapter.py` | SQLite runs, lease, decisions | create, finish, decide, project | late finishers; long decision sequences; graphs resolved again | what is kept apart never ends in one entity; every decision can be undone; nothing is lost | ResolutionRuns, ResolvedGraphs |
| Comparison of methods, `bp/resolution/engine/runner.py`, `evaluation.py`, `experiments.py` | a directory of artifacts | compare, evaluate, show | interruption, two writers, exchanged files | what is shown is one sealed run; scores are exact | ResolutionExperiments |
| Marketing tables, `src/scripts/marketing_refresh/database.py`, `summary_database.py` | MySQL tables, marker files | backup, stage, publish; sync | dies anywhere and is run again; others write | tables are exchanged together, once, after a restorable backup | DatasetRefresh, SummarySync |
| HTTP layer, frontend, mock data and other scripts | - | routing, pages, generators | - | - | not modelled (1.3) |

### 1.2 How they interact

* The **API** streams an upload to a file and admits a job into MySQL (`IntakeJobs.create`);
  **workers** claim jobs, parse into a `BatchWriter` and publish the batch and the job's completion
  in one transaction. The only messages are rows of `intake_jobs`; the fencing token is `owner`,
  drawn by each claim.
* **Alignment** reads staged batches and registers the run that refers to them under SQLite's
  write lock (`source_guard`); **removal, restoring and purging** take the same lock, and the
  cleanup thread of every worker then deletes purging batches from MySQL and disk.
* An **analysis** asks a model and the ontology service, and drafts a template; people edit and
  adopt it; a graph job **compiles** it into a private draft in MySQL and copies that to Neo4j. The
  job holds the one row with `active=1` and refreshes its lease; its **publishing thread** writes
  under a monotonic ticket that fences older jobs.
* **GraphRAG** workers are detached processes; they share files with the API under three flocks.
  Queries of all datasets share one asyncio lock, because GraphRAG caches models per process.
* **Knowledge** matches a graph (aligned, from GraphRAG, or resolved before) with the ontology;
  **resolution** finds and merges records of one entity and derives a new graph.
* **Risk** generates rules from the ontology's explanations (WHY), has them approved and runs them
  on a published graph version.
* The **frontend** polls tasks in progress, which is what expires leases and notices dead workers.

### 1.3 Not modelled

* The wording of prompts, similarity scores and embeddings, Cypher and SQL texts, layouts,
  identifier formats: where a property needs to tell two of them apart they are levels or values.
* The HTTP layer (routing, validation, error mapping, settings): each route calls one operation of
  a store or service. Startup and shutdown appear as actions of the modules they concern.
* The frontend, except that it polls.
* Mock data (`src/scripts/source_mock`, `mock_data`, most of `marketing_refresh`), evaluations and
  one-shot tools: single processes that compute straight through from fixed inputs, without shared state,
  retries or recovery. They are a large part of the repository's lines, and nothing in them
  is hard in the sense of this project.
* `MysqlBatchStore.save`, `list`, `samples`; the SQLite compatibility store beyond the one transaction
  that `Uploads` needs.
* Real time is abstracted to "the lease, heartbeat or time limit has run out", which may happen at
  any moment. Two heartbeats within one second (`bp/staging/jobs.py:160`) are not told apart.

## 2. Modules

| Module | Models | Checked in run | Proved in |
|---|---|---|---|
| `PublishOnce` | abstract: every key shows one value once and for ever | `intake_fencing` | - |
| `IntakeQueue` | queue, worker processes, batch writer, collection | `intake_fencing`, `intake` | `IntakeQueueProofs` |
| `Uploads` | upload slots, files, uncertain enqueues | `intake` | `IntakeQueueProofs` |
| `Retention` | abstract: what remove, restore, purge and analyze promise | `sources` | - |
| `SourceLifecycle` | lifecycle requests, source guard, cleaners, previews | `sources`, `source_preview` | `SourceLifecycleProofs` |
| `SourceReaders` | CSV, XLSX and MySQL readers | `sources` | `SourceLifecycleProofs` |
| `AlignmentTemplates` | drafts, joins, edits and adoption of templates | `sources` | `SourceLifecycleProofs` |
| `TemplateCompile` | compilation to a draft, key sets, collection | `sources` | `SourceLifecycleProofs` |
| `AlignmentAnalysis` | model and search calls of one analysis | `publishing` | `AlignmentAnalysisProofs` |
| `AlignmentRuns` | run store, leases, job coroutines, publishing threads, Neo4j | `publishing`, `graphrag` | `AlignmentRunsProofs` |
| `DatasetRefresh`, `SummarySync` | replacement of live tables by two scripts | `publishing` | `AlignmentRunsProofs` |
| `GraphBrowser` | pages of a graph version | `graphrag` | `GraphRagJobsProofs` |
| `GraphRagJobs` | one dataset's job files, flocks, requests and workers | `graphrag` | `GraphRagJobsProofs` |
| `DocumentRecords` | documents of a dataset and the records extracted from them | `graphrag` | `GraphRagJobsProofs` |
| `GraphQueries` | questions, streams, model cache, evidence | `graphrag` | `GraphRagJobsProofs` |
| `RiskRules` | generation, review and execution of rules | `risk` | `RiskRulesProofs` |
| `RuleTraversal` | label-correcting search over the ontology | `risk` | `RiskRulesProofs` |
| `RiskExecution` | admissible rules, paged reading, totals | `risk` | `RiskRulesProofs` |
| `OntologyAccess` | catalogue, caches, archive, lock | `risk` | `RiskRulesProofs` |
| `WhyImport` | several imports towards one output | `risk` | `RiskRulesProofs` |
| `MatchReview` | one matching of a graph with the ontology, and its reviewers | `review` | `ReviewProofs` |
| `ResolutionRuns` | leased analyses, decisions on candidates and their replay | `review` | `ReviewProofs` |
| `CandidateRecall` | which pairs are compared, alias expansion | `review` | `ReviewProofs` |
| `ResolutionEngine` | concurrent comparisons, budgets, merging | `review` | `ReviewProofs` |
| `ResolvedGraphs` | records, conflicts and quotes of graphs resolved again and again | `review` | `ResolvedGraphsProofs` |
| `ResolutionExperiments` | paired comparisons, metrics, the viewer | `review` | `ResolvedGraphsProofs` |
| `MC*` | the finite sets, inputs and symmetry for TLC | | |

Definitions introduced by `Mutant: ...` in the modules are deliberately wrong variants of the definition
that follows them; no specification uses them. They show that each property fails when
the code is wrong in a plausible way.

**Composed runs.** Several `MC` modules put components side by side: a variable `part` says which
component a behaviour is of, the variables of the others stand still, and the
fairness of each is guarded by `part`. The state space is the sum of the components', not
their product, so each of them is explored as thoroughly as on its own. A conjunct of a property belongs to
one component and names its properties one by one. Components that do interact through shared state are in one
module (queue and workers; requests and cleaners; requests, workers and files; the run store, threads and
Neo4j). `CHECK_DEADLOCK FALSE` is set in these runs because most components end: an import is done, an
analysis returned, a document is read. The sets, inputs and bounds are constants of the `MC` modules;
a `.cfg` gives them their values, if need be as `<-` of a definition in the `MC` module (`RunGraphs <- RGraphs`). So
`MCReview`, `MCRisk`, `MCSources`, `MCPublishing` and `MCIntake` are specifications like the others, and the theorems about
them hold for every choice of inputs that satisfies their `ASSUME`.

### 2.1 IntakeQueue

`jobState, owner, attempt, bound, stale` are the columns of `intake_jobs`; `batchState, stored` the
rows of the batch an attempt writes; `proc[w]` the program point, job dictionary, flushed row
groups and `lost` list of a worker process. A claim token (`uuid4`) is named by the attempt that
drew it, since a claim increments `attempt` and sets `owner` in the same row update. Every action of
a process is one database transaction: it may commit and lose its answer (the process then takes the
exception path), or fail without effect (`DbError`). `Claim` contains recovery: the two UPDATEs of
`jobs.claim` read the clock separately, so a job that becomes stale between them is failed while
its batch is not (`late`). The heartbeat thread runs beside the main thread; `publish` re-reads
ownership under a row lock. `Crash` is possible at every point, `Restart` brings up a new process.

### 2.2 Uploads

`files` and the jobs' paths are what survives a crash; a request is streaming, syncing, or enqueuing.
`EnqueueRaises` chooses whether the commit happened. The `finally` of `receive_upload` is part of each
ending: the file goes unless an enqueue was attempted, the slot always returns. `direct` counts the
slots of the mode that parses in the request.

### 2.3 SourceReaders

One row is read per step; `sink` is what has been handed on. Workbooks carry cells with coordinates and
gaps, so `Layout` is the padding the streaming reader computes, and the buffered reader (openpyxl) gets the same
document. The reference states what a source holds from the whole document at once, without reading it in order: `IsTableOf` a table (header,
padded rows under their numbers, types), `FileIsSound` and `TablesAreSound` what may be wrong with a source and which limits it must keep.

Three things set the buffered reader of workbooks apart, and `RefusedForCause` names causes by the kind of reader:

* Before it reads anything `_check_archive` counts the cells of *every* sheet against `MaxCells`, those of description pages that are skipped
  afterwards too, and looks at the row numbers and columns that the archive states (`ArchiveCells`, `ArchiveFits`). Only then the number of sheets is looked at.
* openpyxl yields no row whose number was passed before (`Skipped`, `SkipRow`), and of a row the cells up to the column of the last one; of two cells in one
  column the later one counts. The streaming reader refuses rows and cells out of order, and cells whose coordinate names another row (`astray`).
* The buffered reader looks at formulas and the width of a row from the header row on; the streaming reader in every row.

What is whole is therefore relative to the reader: for a buffered workbook `TablesAreWhole` speaks of the rows that openpyxl yields. That it drops a
misordered row without a word concerns files whose producer numbers rows out of order, which the format does not allow.

### 2.4 SourceLifecycle

A request walks through the statements of `BatchLifecycle` or of `RunStore.create_from` while it
holds `guard` (BEGIN IMMEDIATE); MySQL transactions inside it are separate steps. `Leave` is every
way out, exceptions and dying processes included; it is possible everywhere, also between a MySQL
commit and the SQLite one. A cleaner deletes rows portion by portion; `Unlink` and `DeleteBatch`
are two steps because the file system does not roll back when MySQL does (`Rollback`). `Revise`
copies the references of an older run. `LookUp`/`ReadPage` are the two transactions of `preview`.

### 2.5 AlignmentAnalysis, AlignmentTemplates and TemplateCompile

*AlignmentAnalysis.* `pending` are the field batches in flight; an answer is whole, cut, partial, or
an error, and `SplitBatch` halves a cut one as `interpret` recurses. `RetryBatch` and `RetryTable` are the model
client's retries; `begun` and `left` say how far the task group has come, `Due` what it starts next. `Fail` is the `finally` that cancels siblings. Searches go through a bounded cache (`Remember`) and
check the revision the service answers with; `Synchronize` lets the service take another one.

*AlignmentTemplates.* The analysis may find any of `Outcomes` for a table; the module then computes joins
(`MapRelations`), groups, and the draft as the code does, lets reviewers fork, edit, save and adopt,
and validates what `validate_template` validates. Two limits of the code came up. Joins that are ready
plus suggested ones beyond `MaxEdges` (240) make the analysis fail instead of being cut. And a
custom template whose objects share a scope can become invalid by a mapping edit; it is then refused when it is
saved, not when it is edited (so `DraftIsAdoptable` asks a custom template for `OwnIdentities`; the reviewer of the run
makes such a template too).

*TemplateCompile.* The draft is written row by row (`WriteNode`, `WriteEdge`), key sets are shared between
publishers (`Ensure`, `FillKeys`, `Announce`), and a worker may collect what was not touched for 3600
seconds (`Linger`) while the compilation is alive; `collected` remembers whose draft that befell. `Instances` and `Links` say from the rows alone what a compiled graph has.
A node's `concept` stands for its identity scope together with the concept.

### 2.6 AlignmentRuns and GraphBrowser

A job is named by `jobs.sequence`, which is also its Neo4j ticket and names its version. `main` is
the coroutine of `_execute` (with heartbeat and exception handling), `work` the helper thread or
the publishing thread: cancelling the coroutine does not stop the thread, so they are separate
program points. `LeaseRunsOut` can happen at any time, and each reader of the store expires such a
job (`Expire` inside `Read`, `Claim`). Every Neo4j query may be executed and its answer lost. `GraphBrowser` takes
over where versions are published (none is ever removed), and pages through one of them by identifier.

### 2.7 GraphRagJobs, DocumentRecords and GraphQueries

*GraphRagJobs.* One dataset. A request is a thread of an API process in `get_job` or `start_index`; it takes the
flocks in the code's order, reads `job.json` into `copy`, probes `.run.lock`, and writes the copy
back. A worker reads `job.json` once without the lock, then every update re-reads it under
`.job.lock` and raises if `run_id` was replaced. `Abort` and `Crash` end a request or a worker at any
point and drop its flocks. `busy` workers of earlier runs go on writing artifacts.

*DocumentRecords.* An upload is a sequence of files whose entries may be unreadable; documents, their
deduplication and the rows of the dataset follow. Each attempt captures its records and points
`latest.json` at them; `Verify` is what the worker checks before it reports success.

*GraphQueries.* `models` is GraphRAG's process-wide cache, `holder` and `queue` the asyncio lock. A stream
holds the lock between pieces; its client reads on or leaves, and the suspended generator is closed later. The
evidence is the induced part of the graph that an answer cites, with both ends of every relationship. While a client
neither reads nor leaves, nobody else is answered: the fairness below assumes it does one of the two.

### 2.8 RiskRules, RuleTraversal, RiskExecution, OntologyAccess and WhyImport

*RiskRules.* `jobs` are SQLite rows, `task[j]` the coroutine `_generate`; a cancelled coroutine whose
`to_thread` insert goes on is in `adrift`. `Close`, `Exit`, `Crash` and `Open` are shutdown, the end of the process and the
next `RiskStore.__init__`, which fails running rows. Saving the end of a job or an execution can itself fail (`FinishUnsaved`,
`RecordUnsaved`): the row then stays running, `unsaved` remembers it, and only the next opening of the store settles it, which
`SettledIsFinal` asks for. `Propagate` covers every way an anchor goes: skipped as oversized, cut, left without candidates, or both. A review sends the version and hash it saw; `Begin` compares them in the inserting
transaction. One thing came up: two jobs that run *at the same time* can both look for a rule before either has inserted it,
and then both open a case, although the comment at `bp/risk/service.py:200` promises
to keep the existing review history. `RetryKeepsHistory` says what holds: a job never opens a second case for a rule that
had one when the job began.

*RuleTraversal* pops one label per step, as the priority queue does, and compares the result with all walks up to
the depth. *RiskExecution* reads a published version, which nothing changes, page by page and
compares totals with those of the whole version; a query that fails or a row outside the scope refuses the run (`Refuse`). *OntologyAccess* has one lock,
a current catalogue, a risk catalogue and dimension answers. `Switch` is the remote service taking another dataset, and threads may find another
digest at every request. Besides matching and risk jobs, a person may read the texts of one concept of an archived catalogue (`Browse`, `Check`, `ReadConcept`):
that fills the same dimension cache under the same lock. *WhyImport* are several processes that write one output name through `os.link`. An offline file is
believed as far as it agrees with itself: an answer must name the revision and carry the hash of its own text, which need not be the service's text (`Vouched`).

### 2.9 MatchReview

A match is one JSON value in SQLite and each change of it is `MatchStore.mutate` (read, compare the
revision, change, write under `BEGIN IMMEDIATE`), hence one action. `task` is the coroutine `_match`;
`Cancel` followed by `LateThread` is `close()` cancelling it while `asyncio.to_thread` still carries out
a mutation, and `Reopen` a new process whose `MatchStore.__init__` fails a running match. `copy[c]` is
the page reviewer `c` looks at; decisions send its revision. `ReviewNode` and `Accept` contain
`refresh_edges`, so candidates and types of the edges at a changed node change in the same step. A
concept or a type is an uninterpreted value; a node's retrieval trace is its best candidate and whether it
was confident; what the raw edges declare and what a derived graph brings along are inputs. Re-reading the
ontology is not in the model: a match keeps the catalog it was made with.

### 2.10 CandidateRecall, ResolutionEngine, ResolutionRuns, ResolvedGraphs and ResolutionExperiments

*CandidateRecall.* Names and terms are values, similarity a level; blocks, frequency limits, constraints, the
identity filter, ranks and the cut are the code's. Alias expansion runs in `Workers` beside each other under one budget.

*ResolutionEngine.* Every worker is at a program point of `compare`; a model request may be shared by the comparisons of
one catalogue, and the time limit of one waiter cancels it for all (`Expire`). The budget is of requests as `compare` charges them: the model client may repeat one
in transport (`bp/alignment/model_client.py:52`), which neither the code nor `sent` counts. After the comparisons the
matches in `todo` are merged in the code's order (`Precedes`); a merge asks for every cross pair first (`Open`, `Obstacles`).
`OneRivalWins` is about the model only: a rule decides a pair without the competition, so a located mention can match one rival by
a rule and another by the model; the cluster is then refused pair by pair (`ClustersAreConfirmed`).

*ResolutionRuns.* `lease` is the column `expires` (live, run out but unnoticed, 0) and `task` the coroutine `_execute`; `Read`
is the expiry in `get` and `list`, and `Create` contains it too. `Cancel` and `LateThread` are, as above, a
coroutine cancelled while its thread is in `finish`; because both share the run object, the thread may
write either status. A candidate is a set of nodes, which is what its identifier digests. `Decide` is
`store.decide`: the guards on the state it read, the change, and the replay (`Owner`, the loop of
`memberships` as a recursive function over decision numbers) that refuses what joins a rejected candidate or
grows beyond 100 nodes. The engine's own merges (policy `apply`) are any
set of compared pairs that is complete-linked. `decide` compares all records of the affected groups,
those of earlier resolutions included, while the engine compares names only (`corpus_from_graph` keeps
the other names as aliases, which the guard does not look at). `BlockedStayApart` therefore says what the
code does guarantee: an entity holds two such records only through merges the engine applied by itself.

*ResolvedGraphs.* A graph node may be a merge of merges; `SourceRecords`, `Conflicts`, quotes and edges are computed as the
code walks them, and compared with the records the node stands for. *ResolutionExperiments.* A writer produces artifacts one
by one and seals them in a manifest; the viewer reads while it is stopped, runs again or somebody exchanges
a file. Scores are compared with counts over all pairs.

### 2.11 DatasetRefresh and SummarySync

Every command may raise or die between two statements (`Break`) and is started again by an operator; marker files and the
tables themselves are what survives. Others write the auxiliary tables (`Write`) and somebody may change a business table
(`Change`). MySQL's `RENAME TABLE` is one step. Three observations, none of which breaks a property: `check_original_tables` compares row counts only; `publish`
does not compare the staged digest with the workbook, but `readback.install` refuses a second version; and `refresh_catalog`
refuses an entry a person manages only after the `RENAME`, so the sync then stays half done, with the prior tables kept.

## 3. Runs

| Run | Bounds | Shows |
|---|---|---|
| `intake_fencing` | 1 job, 3 attempts, 2 workers, 2 row groups | TypeOK, PublishedOnce, ReadyIsComplete, FinishedIsFinal, refinement of PublishOnce |
| `intake` | 2 jobs for 1 place, 1 attempt each, 2 workers; 3 uploads for 2 slots | QueueBounded, UploadsAreKept, WorkEnds |
| `publishing` | 2 runs, 3 jobs, 2 chunks; 2 business and 1 auxiliary table; 2 operators, 2 syncs each; analysed tables of up to 5 columns, batches of 2, 2 in flight, 1 retry, 2 revisions | RecordsAgree, CurrentIsWhole, TablesAreReplacedOnce, AnalysisIsSound, PointerAdvances, ReadyIsFinal, AnalysisEnds |
| `sources` | 2 batches, 3 runs, 2 requests, 2 cleaners, 1 reader; all sheets of up to 3 rows from 6 kinds of row; 2 tables with 6 and 3 outcomes; 7 inputs for 2 publishers | CompilationIsExact, SourcesAreKept, TablesAreWhole, DraftsAreExact, refinement of Retention, WorkEnds |
| `graphrag` | 2 attempts, 2 requests; 2 datasets, 2 clients; 2 versions; uploads of up to 2 files | SucceededIsWhole, AnswersAreGrounded, SucceededIsFinal, WorkEnds |
| `risk` | 2 jobs, 2 rules, 1 client, 1 stop; small graphs and versions; 2 importers | ExecutedWasApproved, GenerationIsSound, RulesAreComputed, CatalogueIsWhole, ImportIsVerified, WorkEnds |
| `review` | 2 nodes, an edge each way, 2 concepts, 2 types, 2 reviewers, 3 revisions; 3 nodes and 4 decisions; 4 mentions; scores in twelfths | RevisionNamesContent, EdgesStayTyped, ClustersFollowDecisions, EngineIsSound, RecallIsSound, WhatIsShownIsExact, NobodyIsOverwritten, DecisionsStand, AnalysisEnds |
| `intake_leak` | 1 job, 2 attempts | **violated** EveryAttemptEnds (finding 1) |
| `alignment_late_switch` | 1 run, 2 jobs | **violated** FailedLeavesGraph (finding 2) |
| `source_preview` | 1 batch, 1 request, 1 cleaner, 1 reader | **violated** PagesAreWhole (finding 3) |
| `graphrag_registered` | 2 attempts, 1 request | **violated** FailedIsUnregistered (finding 4) |
| `compile_late_collect` | 7 inputs, 1 publisher | **violated** CompiledIsWhole (finding 5) |

What the composite properties consist of, one named property per question:

* `RecordsAgree`: types; a run is in progress exactly while the active job works on it; a success was published.
* `TablesAreReplacedOnce`: new tables appear together and whole, and nothing is dropped that was not saved; summaries are exchanged
  once, backed up, and a half-done sync keeps the prior tables.
* `CompilationIsExact`: a compiled graph has no node, field or join that its rows do not give, and all they give unless its draft was collected; a refusal has a cause.
* `SourcesAreKept`: a referenced batch is intact; what is gone left nothing.
* `TablesAreWhole`: a table is stored as it is in the document (as openpyxl yields it, for a buffered workbook), or the document refused for a cause.
* `DraftsAreExact`: ready joins are exact, groups keep every column, drafts can be adopted, graphs were approved as they are.
* `AnalysisIsSound`: every column is explained once; no batch or search outlives its table; one revision per run.
* `AnswersAreGrounded`: flocks are held where the code holds them; pages show one version; answers use their dataset's models and
  evidence that exists; imports and records are whole.
* `GenerationIsSound`: a retry keeps review histories; a job that calls itself complete left nothing out.
* `RulesAreComputed`: strongest paths, told truncation, scope; pages add up to the counted scope, and rows are skipped for a cause.
* `CatalogueIsWhole`: what is recorded is archived; a risk catalogue has every explanation of its revision.
* `ImportIsVerified`: the output is vouched for by the service or by the import's own file, its author's, and contradicts nothing the snapshot had.
* `ClustersFollowDecisions`: clusters are components of merges, rejected and blocked records stay apart, every decision can be reset.
* `EngineIsSound`: budgets, no request outlives the analysis, clusters are confirmed pairwise, one of several rivals wins, a cluster is applied whole or not.
* `RecallIsSound`: strong pairs are compared or their loss is told, the strongest survive a cut, aliases are grounded in the record.
* `WhatIsShownIsExact`: no source record, conflict or quote is lost through nested merges; an experiment shown is one sealed run with exact scores.
* `WorkEnds`, `AnalysisEnds`: the liveness properties of the components of the run, and that what settled stays.

Why these bounds suffice to meet the interesting cases: fencing needs an old process and a new
one on the same job, and a third claim for the old process to meet a finished retry; different jobs
share no row except the guard, which `intake` contends for. Two row groups tell "some" from
"all". The alignment fence needs two zombies and a current job. Retention needs two requests to race
for the guard, a multi-batch analysis that sees one batch before the other is removed, and two
cleaners that meet on one batch. GraphRAG needs an old worker beside a new run and two requests; the model cache needs
two datasets and two clients. A lost update
in a review needs two reviewers on one revision; three revisions are the match, a decision and a second one
that meets it; the edge each way makes one node's change touch an edge as its source and another as its target.
Three nodes and four decisions allow a chain
of merges, a merge or a reset in its middle and a decision again on any of it; the
limit of 100 nodes in an entity is not reached (`MaxCluster` is 3). A key set needs two compilations, a stale one
a collector. A batch that is split needs two columns, one that is split twice more. Two
generation jobs race for one rule; a stop at every point needs one stop. The limits of readers, recall and
engine are set so low that inputs lie below, on and above them.
The proofs of section 5 remove the bounds for the components they are about.

### Fairness

* **IntakeQueue.** Main threads of live workers run (database calls end within `read_timeout`),
  dead processes are restarted (`restart: unless-stopped`, `compose.yaml`), and the 90 seconds pass
  for a job nobody holds. Nothing is assumed of users, heartbeats or the absence of crashes.
* **Uploads.** A request takes its next step (bodies end or time out; `finally` runs).
* **SourceLifecycle.** `BatchCleanup.run` repeats `collect` for ever (weak fairness), and a
  transaction that is rolled back again and again commits in the end (strong fairness of
  `DeleteBatch`). Requests need no fairness: `purge` only marks the batch.
* **TemplateCompile.** A compilation that is not stopped goes on, 3600 seconds pass, and workers collect.
* **AlignmentAnalysis, ResolutionEngine.** The event loop takes the next step that is possible; model and search calls have
  time limits and bounded retries.
* **AlignmentRuns.** Coroutine and threads run, an abandoned lease runs out, and somebody reads
  (`useTaskResource.ts` polls while a task is in progress): expiry happens in readers, so
  without a reader a dead run stays "analyzing" and no fairness of the server would help.
* **GraphRagJobs.** The page polls; a request that waits for `.job.lock` gets it in the end; a
  worker that can step again and again does (`build_index` ends); 120 seconds pass; and API
  processes do not die in every poll for ever (`<>[]` no request is gone).
* **GraphQueries.** A client of a stream reads on or leaves; the event loop closes abandoned generators.
* **RiskRules, OntologyAccess.** Tasks and requests go on while their process lives (calls have time limits), and a process
  that stopped is started again.
* The other modules claim no liveness. If the write of a match's failure fails, the match stays "running" until
  the process is started again; nobody's decision is owed.

## 4. Findings

1. `EveryAttemptEnds`: batches that stay `building`. The batch row is inserted before `jobs.bind`
   ties it to the job; recovery only finds bound batches and `collect_failed` only failed ones.
2. `FailedLeavesGraph`: a publishing thread past its last lease check switches the graph after the
   run was failed with "the published graph is unchanged".
3. `PagesAreWhole`: `preview` checks `purging` in one transaction and reads the page in another.
4. `FailedIsUnregistered`: a worker that stops between `_register` and its last `_update_job` leaves a
   failed dataset in `listing.json`, against `run_job`'s docstring.
5. `CompiledIsWhole`: `collect` takes what a draft holds when it was not touched for an hour, although its compilation lives: building a key set
   between the nodes and the edges refreshes the lease but not the draft. The bindings go first, the compilation then finds no pairs, and a
   graph without its relations is published: the counts compared at the switch are those of the rows that were sent. `docs/alignment.md` promises
   that all nodes and relations are counted before the switch, and a heartbeat of the running compilation.

What held, and was not obvious: a queue worker suspended past its heartbeat cannot publish, however its
job was retried since; `_run_busy`'s probe can end a starting worker, but the job is then found
out and can be retried; an unlink inside a transaction that rolls back never leaves a batch half gone; a draft collected
under a live compilation may lose rows (finding 5) but its graph never holds what the rows do not say; the shared catalogue request
is charged once and its cancellation reaches every waiter; no order of nested merges loses a source record.

## 5. Proofs

Every theorem holds for all values of the constants that satisfy the named assumption: any number of jobs, workers,
requests and revisions, and any inputs. A theorem that names a property of section 3 proves the very invariant the run checks.

| Module | Assumption | Theorems (and the run's property each states) |
|---|---|---|
| `IntakeQueueProofs` | `QueueConstants` (admission: none) | TypeCorrect, PublishesOnce, PublishesWhole, EndIsFinal, QueueStaysBounded, Refinement of `PublishOnce`; JobsKeepTheirFile, NothingIsLeftBehind; UploadsStayKept (`UploadsAreKept`) |
| `SourceLifecycleProofs` | `LifecycleConstants`; `CompileAssumption`, `ReaderAssumption`, `TemplateAssumption` | TypeCorrect, ReferencesAreSafe, PurgesAreComplete, Refinement of `Retention`; SourcesStayKept (`SourcesAreKept`), CompilationStaysExact (`CompilationIsExact`), DraftsStayExact (`DraftsAreExact`), TablesStayWhole (`TablesAreWhole`) |
| `AlignmentRunsProofs` | `RunConstants`; `SyncAssumption` | TypeCorrect, RecordsAgreeWithJob, SuccessIsReal, CurrentGraphIsWhole, GraphNeverGoesBack, ReadyRunsAreFinal; RecordsStayAgreed (`RecordsAgree`), TablesStayReplacedOnce (`TablesAreReplacedOnce`) |
| `AlignmentAnalysisProofs` | `AnalysisAssumption` | AnalysisStaysSound (`AnalysisIsSound`) |
| `GraphRagJobsProofs` | `GraphRagConstants`; `InputsAssumption` | TypeCorrect, SuccessIsWhole, SuccessIsFinal; AnswersStayGrounded (`AnswersAreGrounded`) |
| `RiskRulesProofs` | `RiskAssumption`; `TraversalAssumption`, `ExecutionAssumption`, `AccessAssumption`, `ImportAssumption` | OnlyApprovedIsExecuted; GenerationStaysSound (`GenerationIsSound`), CatalogueStaysWhole (`CatalogueIsWhole`), ImportStaysVerified (`ImportIsVerified`), RulesStayComputed (`RulesAreComputed`) |
| `ReviewProofs` | `MatchConstants`; `ResolutionAssumption` | TypeCorrect, RevisionsName, NoLostUpdate, CandidatesAreFresh, EdgesAreTyped, NoInventedFacts, DecisionsAreKept; ClustersStayDecided (`ClustersFollowDecisions`), SettledRunsStay, EngineStaysSound (`EngineIsSound`), RecallStaysSound (`RecallIsSound`) |
| `ResolvedGraphsProofs` | `ResolutionAssumption` | ShownStaysExact (`WhatIsShownIsExact`) |

What the assumptions ask of the constants, and why the code grants it:

* `AccessAssumption`: an identifier and a revision name one dataset (both are digests of it), and `None` is no thread or dataset.
* `ImportAssumption`: `None`, which stands for no file, is none of the files that may be read or are left behind. Nothing is asked of what files say.
* `ExecutionAssumption`: page size and limits are positive, the range of dates is not empty, a version is finite and its rows
  differ in their identifiers.
* `TraversalAssumption`: an export is a finite document whose keys are numbers for their order, and depths and the candidate limit are numbers.
* `CompileAssumption`: rows, nodes and edges are sequences; templates name tables and objects that exist (`validate_template`).
* `ReaderAssumption`: limits are numbers, the header row is positive (`api/intake.py` asks for 1 to 100), and a source is as it is parsed: sequences of sheets, rows
  and cells, with a number where a workbook states one (0 where it does not) and none in a CSV file; a table has a number of columns. Nothing is asked
  of the values, nor that stated numbers grow. That the sheets left after the description pages were skipped are again a sequence is
  asked too, since it is `SelectSeq` that drops them.
* `TemplateAssumption`: tables, columns, declared keys, objects found and proposals are finitely many, and a key is some of its table's columns.
  Nothing is asked of what reviewers submit: `IsTemplate` is what parsing a request leaves of it.
* `SyncAssumption`: there is a table to exchange. `AnalysisAssumption`: the limits of the settings are positive, a table's queries are its own and one for
  each column.
* `InputsAssumption`: `None` is no version and no client, page size is positive, instances are numbered from 1 on, versions and relationships are
  finite, every query method uses a model, files, entries and records are sequences, and a text has a size or cannot be read.
* `ResolutionAssumption`: nodes and mentions are finite sets of numbers (their identifiers in order), a retrieved pair comes once, no mention is its own
  rival, names that are kept apart are records that are kept apart, and a vector neighbour is a mention (the sidecar is searched among the
  corpus' own vectors). Graphs are finite, and what is loaded first carries no merges or projections yet; every record has a title, `None` is none
  of the answers, and a score is counted in parts of `Unit`, which every size of a group divides (so that the division that the code does in
  floating point is exact).

### Arguments

None of the safety properties is inductive; each component first gets a strengthening (`Inv`, or `SyncInv`, `CompileInv`, ... for the components of
a composition), with one lemma per action or per group of actions that leave the same things alone, and `PTL` combines the step facts
into the temporal theorems. TLC checked each strengthening on the component's run before it was proved. In a composition the strengthening is guarded by `part`, so
that the composed step is the component's step or leaves its variables alone.

* **IntakeQueue.** `PublishedOnce` says nothing of a process that is about to publish. `Inv` adds
  `TokensFenced` (the claim a process holds is not newer than the job's row, and no two processes
  hold the same claim: what comparing `owner` under the row lock rests on),
  `RowsAgree` (a running job is owned by its latest attempt, later attempts have left no trace, and a
  completed job's bound batch is ready) and `WritersAgree` (as long as a writer's batch is "building", the database has
  exactly what the writer flushed; if it was failed meanwhile, at most that; a process that publishes has flushed all).
  `Effect` collects the step facts the action properties and the refinement need. `QueueBounded` is proved
  separately from `FiniteSetTheorems`.
* **Uploads.** A request that enqueues still has its file, paths are never reused, and a file nobody names is held by a request or uncertain.
* **SourceLifecycle.** What a holder of the guard has read is still true: a batch that was looked up cannot be condemned, and
  one without references gains none, as long as the guard is held. A cleaner's batch is purging; a batch that is purging is
  referenced by nobody; upload, rows and job go in the order that lets another cleaner take over.
* **TemplateCompile.** `CompileAt` says where a publisher is (which item, row and side, and which key sets it has seen ready), `DraftIs` what its draft
  holds there: exactly the nodes and edges of the rows before that point, unless it was collected. `KeysAreKept` is what lets
  publishers share key sets: a set holds only keys of its table, and all of them once it is announced, whoever filled it. Even a draft that was collected
  and written on has only fields of its rows (`FieldsAreGiven`): what the counts at the switch cannot find is what is missing, and that is finding 5.
* **AlignmentRuns.** At most one job is active and it is claimed (`ActiveIsClaimed`, `FreshJobs`); what a publishing thread has sent is
  stored or it will not pass its count (`Staged`); tickets order versions (`Fenced`); a run's graph needs its result (`GraphNeedsResult`).
* **DatasetRefresh, SummarySync.** The tables are all fresh or all replaced, and which of the two is what the marker files can tell (`Marked`,
  `SyncExchanged`); what a command does next, were it started again at any statement, fits that (`CommandIsAt`, `SyncAt`).
* **AlignmentAnalysis.** Tables before `at` are settled, those after it untouched; the batches in flight are of the current table and as many as the
  limit allows; while a table is searched each query is found, asked for or still to be started (`Covered`, stated for representatives of equal queries,
  since the code asks once for several columns that need the same).
* **GraphRagJobs.** What a live worker may write is decided by what it last read under the lock (`Informed`): its run's artifacts are its own
  (`OwnArtifacts`), later attempts have left nothing (`LaterAreNone`), a succeeded job's run has settled (`SettledSuccess`).
* **GraphBrowser.** `ViewSound` says which instances the pages so far have (those of the view's version, concept and focus up to the last identifier
  shown) and which are still to come (`Rest`), and that identifiers only grow from page to page (`Ordered`, `PagesGrow`).
* **GraphQueries.** Who is inside the lock is its holder, models are cleared before a search starts, and an answer was searched with one dataset
  (`QueryInv`); that evidence is closed is a property of the operator for every context (`EvidenceClosed`), which needs that a finite set has a best
  subset of every size (`BestExist`).
* **DocumentRecords.** An invariant of a line (the dataset is that of the upload's documents, the pointer that of this attempt's records), and lemmas on
  the operators: a file is refused exactly if it is broken (`FileIsWhole`), the texts of the documents are those of the files one after the other
  (`FlatTexts`), the first documents of the texts are as many as there are texts (`DatasetIsWhole`), records have different marks (`MarksDiffer`).
* **RiskRules.** Every row of `executions` is `Audited`: the case it names had been approved with its hash; pages and calls carry
  contents that some version of the case had. `GenInv` follows a generation rule by rule (`Progress`, `Stored`) and knows the insert that goes on after a
  cancellation (`Late`).
* **RuleTraversal.** Every state the search keeps is the label of a walk, and a state it has expanded has its extensions kept at no more IS_A hops, or
  marked as blocked (`Found`, `Settled`): when the heap is empty every walk is therefore covered (by its length). Conversely no cycle makes a path stronger: of
  all walks that are as good, the shortest visits no node twice (`CyclesAreCut`), so the walks of fewer edges than nodes that `StrongestPath` looks at are
  enough. What the cut at `MaxCandidates` keeps are the first in the code's order (`FirstOnes`); that a node was blocked means that an unlimited search
  reaches more (`UnblockedIsReached`); and the scope, found level by level from a concept down, is that of the walks from the anchor up (`ScopeIsBelow`).
* **RiskExecution.** What was counted is the scope, and the pages read so far are part of it
  (`Counted`): a run that has read as many rows as it counted has read all of them.
* **OntologyAccess.** Who is in the lock reads one dataset to the end, and both caches are of one revision (`CacheAgrees`). **WhyImport.** Each importer is followed from
  its answers, which its source vouches for (`Imports`), to its temporary file and the link.
* **MatchReview.** `Stages` says what the coroutine, its cancelled thread, the status and the revision can be at the
  same time: before the match is complete the revision is 0 and nothing is typed, and the completing
  mutation happens at most once, even when it is a cancelled thread that carries it out. `PagesAreOld`: no page is newer
  than the match, so that the next revision number is fresh. Mutations by reviewers share `RevisedInv`, steps that
  leave the content alone `QuietInv`; `MayEditSees` is what a matching revision buys: the reviewer
  has the current content. The edge properties rest on lemmas about `edge_matches` and `refresh_edges`
  (`SelectedFrom`, `RefreshedFrom`, `AcceptedEdges`).
* **ResolutionRuns.** The heart is `OwnerFollows`: after its first k decisions the replay has built the connected components of the first k merges (`Follows`).
  A merge then moves exactly the nodes whose component it reaches, because a component is kept by one of its own nodes (`OwnerInside`, `JoinFollows`).
  From there on everything is said of components: what `memberships` accepts (`ValidMeans`), that fewer merges make smaller components
  (`SmallerComponent`, hence `ValidShrinks`: a decision can always be taken back), and that a merge which passes the identity guard leaves no
  entity with records kept apart, other than those whose merges are all the analysis' own (`Excused`). The numbers the analysis gives its merges differ
  because the pairs are strictly ordered (`RanksDiffer`).
* **ResolutionEngine.** `Waiting` says whom each worker waits for, so that no shared request runs alone; `Budget` relates what was charged to the pairs
  taken and to those denied a request; `Ruled` says what a decision rests on; `Clustered` that all pairs within a group match and that each
  accepted pair lies within one.

* **SourceReaders.** `FileInv` says where the reader is (`Waiting` between two sheets, `InSheet`, `Complete`) and that what it holds is what the reference says of
  the rows so far: `OpenSheet` relates row number, header, kinds, nulls and rows of the open table to the sheet's first n rows, `CellsRead` the count to the
  set of the cells read. One row more is either ignored, the header or data (`RowIgnored`, `HeaderRead`, `DataRead`), and the test that refuses it fails exactly
  when the sheet is not sound (`RowRefused`, `RowAccepted`): that is where one may go wrong with a limit reached exactly, a blank row below the header, or a
  gap at the end. The row numbers are a recursion over the sheet (`PositionsStep`), the place of a data row in the table is its rank among them (`RankFacts`). For
  MySQL, `TablesInv` counts rows times columns, and `FetchedFacts` shows that asking for one row more than the quotient is enough to tell
  a table that fits from one that does not.
* **AlignmentTemplates.** `Staged` describes the draft after any number of tables: some tables `D` are shown as the groups found for them,
  which are valid on their own, and the others as one object each. `SuggestKeeps` is one table's step, so the order of the selection does not matter;
  objects are named for their table, so groups, table objects and joins cannot clash (`DraftEdges`, `DraftIsWhole`). `Parts` is what a mapping edit
  keeps of any template, and `Reviewed` ties an approval to the mappings of an earlier version.
* **CandidateRecall.** `AliasInv` counts the budget: the records that were asked about and the workers that wait are together at most the calls made,
  and a record no worker has taken is in the queue, settled or waited for. `SeenOf` says of each record recalled so far what it is compared with, what it has
  disclosed, and that no identifier it shares was cut for a weaker record. What a record is recalled by depends on corpus and aliases only
  (`SameRecall`), so it no longer moves once retrieval begins. A pair is then looked at from both of its records (`BothSee`, `StrongShares`).
* **ResolvedGraphs.** `GraphInv` says of the last run's graph that it carries the first one whole (`KeptWhole`): each node stands for the first records
  carried to it and shows what they disagree on, each edge can be followed back to a first edge, no two to the same, and both within as many levels as there
  were runs. Reading a node or an edge back goes level by level (`Level`, `Form`); those of a merged node are those of its members, one further down
  (`MergedLevels`, `ProjectedForms`), which makes a projection keep all of it (`ProjectKept`). A decision only changes marks and owners.
* **ResolutionExperiments.** `ExperimentInv` follows the writers: at most one writes, the directory has exactly what it wrote so far (`Writes`), a complete
  manifest is of one comparison that ended (`WholeManifest`), and what a viewer has read is what the manifest it opened seals (`Viewed`). The scores need no
  invariant: a sum is the size of a set sorted into classes (`TotalCounts`), so the code's sums over pairs of groups are the counts over all
  records and pairs (`PairsOfGroups`, `SharesOfGroups`), and the differences are those of every two records (`DifferencesAreExact`).

### What stays with TLC

* Liveness (`WorkEnds`, `AnalysisEnds`, ...): the prover has no rules for fairness here.
* What `SelectSeq` makes of a source's sheets: `ReaderAssumption` asks that it is a sequence, and TLC evaluates that on the run. An induction over data
  is not available (the installed provers cannot instantiate the induction theorems); what recursion over *numbers* computes is proved by a least
  counterexample (`LeastNat`): the replay of decisions, the walks and levels of the traversal, the sequences of the analysis, the drafts of templates, the
  documents of an upload and the row numbers of a sheet.

Every safety property of section 3 is therefore a theorem.
