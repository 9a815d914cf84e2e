---- MODULE SourceLifecycle ----
(* How published batches are analysed, removed, restored and purged         *)
(* (intake/lifecycle.py, staging/store.py, alignment/store.py) and          *)
(* physically deleted by the workers' cleanup threads (staging/cleanup.py). *)
(* Batches are in MySQL, references to them in the run store's SQLite, and  *)
(* uploads on disk.  The only thing that ties the two databases together is *)
(* source_guard: the SQLite write lock, held by an API request across its   *)
(* MySQL transactions.  A request is a thread of an API process; the        *)
(* cleanup threads, and the readers of a preview, do not take the guard.    *)
(*                                                                          *)
(* Bounds.  The instance's Batches, Requests, Cleaners and Runs are small;  *)
(* Portions is the number of bounded deletes that empty a batch.            *)
EXTENDS Integers, FiniteSets

CONSTANTS Batches, Runs, Requests, Cleaners, Readers, Portions, None

LifecycleConstants ==
    /\ Portions \in Nat
    /\ None \notin Requests /\ None \notin Batches
    /\ IsFiniteSet(Batches) /\ IsFiniteSet(Runs)

VARIABLES
    state,     \* intake_batches.state of a published batch; "gone": no row
    deleted,   \* intake_batches.deleted
    rows,      \* portions of its tables and rows that are still stored
    upload,    \* its server-side file exists
    jobRow,    \* its completed intake job exists
    refs,      \* run_batches: the batches each registered run refers to
    guard,     \* the request that holds SQLite's write lock
    request,   \* each request's program point, the batches it asked for, and
               \* those of them it has read
    cleaning,  \* the batch a cleaner has locked while it unlinks the upload
    reader,    \* the batch a preview has looked up, and the page it returned last
    page

batchVars == <<state, deleted, rows, upload, jobRow>>
pageVars == <<reader, page>>
vars == <<batchVars, refs, guard, request, cleaning, pageVars>>

Points == {"idle", "read", "register", "remove", "mark", "restore", "purge", "count",
           "condemn", "leave"}
Thread == [pc : Points, wants : SUBSET Batches, seen : SUBSET Batches]
Idle == [pc |-> "idle", wants |-> {}, seen |-> {}]

TypeOK ==
    /\ state \in [Batches -> {"ready", "purging", "gone"}]
    /\ deleted \in [Batches -> BOOLEAN] /\ rows \in [Batches -> 0 .. Portions]
    /\ upload \in [Batches -> BOOLEAN] /\ jobRow \in [Batches -> BOOLEAN]
    /\ refs \in [Runs -> SUBSET Batches]
    /\ guard \in Requests \cup {None}
    /\ request \in [Requests -> Thread]
    /\ cleaning \in [Cleaners -> Batches \cup {None}]
    /\ reader \in [Readers -> Batches \cup {None}]
    /\ page \in [Readers -> {"none", "whole", "torn"}]

Init ==
    /\ state = [b \in Batches |-> "ready"] /\ deleted = [b \in Batches |-> FALSE]
    /\ rows = [b \in Batches |-> Portions]
    /\ upload = [b \in Batches |-> TRUE] /\ jobRow = [b \in Batches |-> TRUE]
    /\ refs = [r \in Runs |-> {}]
    /\ guard = None /\ request = [q \in Requests |-> Idle]
    /\ cleaning = [c \in Cleaners |-> None]
    /\ reader = [v \in Readers |-> None] /\ page = [v \in Readers |-> "none"]

(* store.get: a ready or purging batch, hidden unless include_deleted.      *)
Listed(b) == state[b] # "gone" /\ ~deleted[b]
Known(b) == state[b] # "gone"

(* batch_references. *)
Referenced(b) == \E r \in Runs : b \in refs[r]

(* A row that another connection has locked: FOR UPDATE and UPDATE wait.    *)
Locked(b) == \E c \in Cleaners : cleaning[c] = b

----
(* source_guard: BEGIN IMMEDIATE waits for the lock; leaving the block, by  *)
(* return, exception or the death of the process, gives it back.            *)

(* Mutant: the guard is a deferred transaction, which locks nothing yet. *)
AcquireDeferred(q, point, S) ==
    /\ request[q].pc = "idle"
    /\ guard' = q
    /\ request' = [request EXCEPT ![q] = [pc |-> point, wants |-> S, seen |-> {}]]

Acquire(q, point, S) ==
    /\ request[q].pc = "idle"
    /\ guard = None
    /\ guard' = q
    /\ request' = [request EXCEPT ![q] = [pc |-> point, wants |-> S, seen |-> {}]]

Release(q) ==
    /\ guard' = IF guard = q THEN None ELSE guard
    /\ request' = [request EXCEPT ![q] = Idle]

Goto(q, point) ==
    /\ request' = [request EXCEPT ![q].pc = point]
    /\ UNCHANGED guard

Begin(q) ==
    /\ \/ \E S \in SUBSET Batches : S # {} /\ Acquire(q, "read", S)
       \/ \E b \in Batches, op \in {"remove", "restore", "purge"} : Acquire(q, op, {b})
    /\ UNCHANGED <<batchVars, refs, cleaning, pageVars>>

(* A request fails or its process dies: SQLite rolls back. "leave" stands   *)
(* for the way out after a MySQL commit.                                    *)
Leave(q) ==
    /\ request[q].pc # "idle"
    /\ Release(q)
    /\ UNCHANGED <<batchVars, refs, cleaning, pageVars>>

----
(* create_from: read every selected batch from MySQL, then register the run *)
(* and its references; that claim succeeds is left to AlignmentRuns.        *)

ReadSource(q, b) ==
    /\ request[q].pc = "read"
    /\ b \in request[q].wants \ request[q].seen
    /\ Listed(b)
    /\ request' = [request EXCEPT
          ![q].seen = @ \cup {b},
          ![q].pc = IF request[q].wants \subseteq request[q].seen \cup {b}
                    THEN "register" ELSE "read"]
    /\ UNCHANGED <<batchVars, refs, guard, cleaning, pageVars>>

Register(q, r) ==
    /\ request[q].pc = "register"
    /\ refs[r] = {}
    /\ refs' = [refs EXCEPT ![r] = request[q].seen]
    /\ Release(q)
    /\ UNCHANGED <<batchVars, cleaning, pageVars>>

(* _revise copies the references of the original in one transaction. *)
Revise(original, r) ==
    /\ guard = None
    /\ refs[original] # {} /\ refs[r] = {}
    /\ refs' = [refs EXCEPT ![r] = refs[original]]
    /\ UNCHANGED <<batchVars, guard, request, cleaning, pageVars>>

----
(* remove, restore, purge.                                                  *)

CheckListed(q, b) ==
    /\ request[q].pc = "remove" /\ b \in request[q].wants
    /\ Listed(b)
    /\ Goto(q, "mark")
    /\ UNCHANGED <<batchVars, refs, cleaning, pageVars>>

MarkDeleted(q, b) ==
    /\ request[q].pc = "mark" /\ b \in request[q].wants
    /\ ~Locked(b)
    /\ deleted' = [deleted EXCEPT ![b] = TRUE]
    /\ Goto(q, "leave")
    /\ UNCHANGED <<state, rows, upload, jobRow, refs, cleaning, pageVars>>

(* Mutant: any batch that still exists can be brought back. *)
RestoreExisting(q, b) ==
    /\ request[q].pc = "restore" /\ b \in request[q].wants
    /\ ~Locked(b)
    /\ state[b] # "gone"
    /\ deleted' = [deleted EXCEPT ![b] = FALSE]
    /\ state' = [state EXCEPT ![b] = "ready"]
    /\ Goto(q, "leave")
    /\ UNCHANGED <<rows, upload, jobRow, refs, cleaning, pageVars>>

Restore(q, b) ==
    /\ request[q].pc = "restore" /\ b \in request[q].wants
    /\ ~Locked(b)
    /\ state[b] = "ready"
    /\ deleted' = [deleted EXCEPT ![b] = FALSE]
    /\ Goto(q, "leave")
    /\ UNCHANGED <<state, rows, upload, jobRow, refs, cleaning, pageVars>>

CheckKnown(q, b) ==
    /\ request[q].pc = "purge" /\ b \in request[q].wants
    /\ Known(b)
    /\ Goto(q, "count")
    /\ UNCHANGED <<batchVars, refs, cleaning, pageVars>>

CountReferences(q, b) ==
    /\ request[q].pc = "count" /\ b \in request[q].wants
    /\ ~Referenced(b)
    /\ Goto(q, "condemn")
    /\ UNCHANGED <<batchVars, refs, cleaning, pageVars>>

(* store.purge. *)
Condemn(q, b) ==
    /\ request[q].pc = "condemn" /\ b \in request[q].wants
    /\ ~Locked(b)
    /\ deleted[b] /\ state[b] \in {"ready", "purging"}
    /\ state' = [state EXCEPT ![b] = "purging"]
    /\ Goto(q, "leave")
    /\ UNCHANGED <<deleted, rows, upload, jobRow, refs, cleaning, pageVars>>

----
(* BatchCleanup.collect: one transaction, at most one purging batch.        *)

Cleanable(c, b) == cleaning[c] = None /\ state[b] = "purging" /\ deleted[b] /\ ~Locked(b)

(* Mutant: a portion is counted off whether or not anything is left. *)
DeletePortionBlind(c, b) ==
    /\ Cleanable(c, b)
    /\ rows' = [rows EXCEPT ![b] = @ - 1]
    /\ UNCHANGED <<state, deleted, upload, jobRow, refs, guard, request, cleaning, pageVars>>

DeletePortion(c, b) ==
    /\ Cleanable(c, b)
    /\ rows[b] > 0
    /\ rows' = [rows EXCEPT ![b] = @ - 1]
    /\ UNCHANGED <<state, deleted, upload, jobRow, refs, guard, request, cleaning, pageVars>>

(* Mutant: the upload goes before the tables and rows. *)
UnlinkEarly(c, b) ==
    /\ Cleanable(c, b)
    /\ upload' = [upload EXCEPT ![b] = FALSE]
    /\ cleaning' = [cleaning EXCEPT ![c] = b]
    /\ UNCHANGED <<state, deleted, rows, jobRow, refs, guard, request, pageVars>>

(* The upload is unlinked inside the transaction that deletes its rows, and *)
(* stays unlinked if that transaction rolls back.                           *)
Unlink(c, b) ==
    /\ Cleanable(c, b)
    /\ rows[b] = 0
    /\ upload' = [upload EXCEPT ![b] = FALSE]
    /\ cleaning' = [cleaning EXCEPT ![c] = b]
    /\ UNCHANGED <<state, deleted, rows, jobRow, refs, guard, request, pageVars>>

(* Mutant: the last transaction only deletes the job. *)
DeleteJob(c) ==
    /\ cleaning[c] # None
    /\ jobRow' = [jobRow EXCEPT ![cleaning[c]] = FALSE]
    /\ cleaning' = [cleaning EXCEPT ![c] = None]
    /\ UNCHANGED <<state, deleted, rows, upload, refs, guard, request, pageVars>>

DeleteBatch(c) ==
    /\ cleaning[c] # None
    /\ state' = [state EXCEPT ![cleaning[c]] = "gone"]
    /\ jobRow' = [jobRow EXCEPT ![cleaning[c]] = FALSE]
    /\ cleaning' = [cleaning EXCEPT ![c] = None]
    /\ UNCHANGED <<deleted, rows, upload, refs, guard, request, pageVars>>

(* The worker or its connection dies before the commit. *)
Rollback(c) ==
    /\ cleaning[c] # None
    /\ cleaning' = [cleaning EXCEPT ![c] = None]
    /\ UNCHANGED <<batchVars, refs, guard, request, pageVars>>

----
(* store.preview: the batch is looked up in one transaction, the page is    *)
(* read in another.                                                         *)

LookUp(v, b) ==
    /\ reader[v] = None
    /\ state[b] = "ready"
    /\ reader' = [reader EXCEPT ![v] = b]
    /\ page' = [page EXCEPT ![v] = "none"]
    /\ UNCHANGED <<batchVars, refs, guard, request, cleaning>>

ReadPage(v) ==
    /\ reader[v] # None
    /\ page' = [page EXCEPT ![v] = IF rows[reader[v]] = Portions THEN "whole" ELSE "torn"]
    /\ reader' = [reader EXCEPT ![v] = None]
    /\ UNCHANGED <<batchVars, refs, guard, request, cleaning>>

----
Step(q) ==
    \/ Begin(q) \/ Leave(q)
    \/ \E r \in Runs : Register(q, r)
    \/ \E b \in Batches :
        \/ ReadSource(q, b) \/ CheckListed(q, b) \/ MarkDeleted(q, b)
        \/ Restore(q, b) \/ CheckKnown(q, b) \/ CountReferences(q, b) \/ Condemn(q, b)

Collect(c) ==
    \/ \E b \in Batches : DeletePortion(c, b) \/ Unlink(c, b)
    \/ DeleteBatch(c)

Next ==
    \/ \E q \in Requests : Step(q)
    \/ \E original, r \in Runs : Revise(original, r)
    \/ \E c \in Cleaners : Collect(c) \/ Rollback(c)
    \/ \E v \in Readers : ReadPage(v) \/ \E b \in Batches : LookUp(v, b)

Spec == Init /\ [][Next]_vars

(* cleanup.run repeats collect for ever; a transaction that is retried      *)
(* again and again commits in the end.                                      *)
Fairness ==
    \A c \in Cleaners : WF_vars(Collect(c)) /\ SF_vars(DeleteBatch(c))

FairSpec == Spec /\ Fairness
----
(* A batch some analysis refers to keeps every row and its upload: history  *)
(* can be read, rebuilt and published again whatever is removed or purged   *)
(* beside it (docs/intake.md:27).                                           *)
ReferencedIsIntact ==
    \A b \in Batches : Referenced(b) => state[b] = "ready" /\ rows[b] = Portions /\ upload[b]

(* A batch that is gone has left no row, upload or job behind, although the *)
(* file system and MySQL commit separately and a cleaner can die between.   *)
GoneLeavesNothing ==
    \A b \in Batches : state[b] = "gone" => rows[b] = 0 /\ ~upload[b] /\ ~jobRow[b]

(* The guard makes every request atomic: the page sees Retention.           *)
shelf == [b \in Batches |-> IF state[b] # "ready" THEN "purged"
                            ELSE IF deleted[b] THEN "removed" ELSE "active"]
used == {b \in Batches : Referenced(b)}
Abstract == INSTANCE Retention
ImplementsRetention == Abstract!Spec

(* store.py:164 refuses to preview data that is being purged: a page that   *)
(* is returned has all its rows.                                            *)
PagesAreWhole == \A v \in Readers : page[v] # "torn"

(* What is condemned is deleted, across restarts of the cleaners.           *)
PurgeFinishes == \A b \in Batches : state[b] = "purging" ~> state[b] = "gone"
====
