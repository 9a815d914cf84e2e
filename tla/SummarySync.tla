---- MODULE SummarySync ----
(* Replacing two tables of a live database by their summaries, together    *)
(* with the catalog entries that describe their columns                    *)
(* (scripts/marketing_refresh/summary_database.py, sync).  A sync may      *)
(* raise or die between any two steps, and operators may start it again or *)
(* twice; others keep writing the tables and managing the catalog.         *)
(*                                                                         *)
(* The old and the new rows have different columns: reading the columns of *)
(* the one from the other raises.                                          *)
EXTENDS FiniteSets, Naturals

CONSTANTS
    Tables,      \* the tables that change
    Operators,   \* who runs sync
    MaxRuns,     \* bound: syncs that got as far as naming their tables
    MaxWrites,   \* bound: writes by others
    None

\* There is something to replace, and no backup is not a backup.
SyncAssumption ==
    /\ Tables # {}
    /\ None \notin [Tables -> [columns : {"old"}, extra : Nat]]

VARIABLES
    db,          \* name -> [columns, extra]: extra counts the others' rows
    catalog,     \* table -> [columns, managed]
    backup,      \* backup.json: table -> content, or None
    renamed,     \* renamed.json exists
    published,   \* published.json exists
    task,        \* operator -> its sync
    runs,        \* syncs so far; each names its tables by its own time
    swaps,       \* history: how often the tables were exchanged
    dropped,     \* history: the old tables that were dropped
    writes       \* writes by others so far

vars == <<db, catalog, backup, renamed, published, task, runs, swaps, dropped, writes>>

Main(t) == <<"main", 0, t>>
Stage(r, t) == <<"stage", r, t>>
Prior(r, t) == <<"prior", r, t>>

Content(columns) == [columns |-> columns, extra |-> 0]
Idle == [at |-> "idle"]
Put(f, x, v) == [y \in DOMAIN f \cup {x} |-> IF y = x THEN v ELSE f[y]]
Restrict(f, S) == [x \in S |-> f[x]]

Init ==
    /\ db = [n \in {Main(t) : t \in Tables} |-> Content("old")]
    /\ catalog = [t \in Tables |-> [columns |-> "old", managed |-> FALSE]]
    /\ backup = None /\ renamed = FALSE /\ published = FALSE
    /\ task = [p \in Operators |-> Idle] /\ runs = 0
    /\ swaps = 0 /\ dropped = {} /\ writes = 0

Goto(p, at) == task' = [task EXCEPT ![p].at = at]
At(p, at) == task[p].at = at

\* The named lock is held until the connection closes.
Migrating(p) == task[p].at \notin {"idle", "start"}
Locked == \E p \in Operators : task[p].at \in {"verify", "rename", "note", "catalog"}

\* Neither marker exists.
Begin(p) ==
    /\ At(p, "idle") /\ ~published /\ ~renamed
    /\ task' = [task EXCEPT ![p] = [at |-> "start"]]
    /\ UNCHANGED <<db, catalog, backup, renamed, published, runs, swaps, dropped, writes>>

\* GET_LOCK with no wait; another sync keeps it until its connection ends.
GetLock(p) ==
    /\ At(p, "start") /\ \A o \in Operators : ~Migrating(o)
    /\ runs < MaxRuns /\ runs' = runs + 1
    /\ task' = [task EXCEPT ![p] = [at |-> IF backup = None THEN "backup" ELSE "stage", run |-> runs + 1]]
    /\ UNCHANGED <<db, catalog, backup, renamed, published, swaps, dropped, writes>>

\* backup_table, of one consistent snapshot; then backup.json.
Snapshot(p) ==
    /\ At(p, "backup")
    /\ task' = [task EXCEPT ![p] = [at |-> "saved", run |-> @.run, seen |-> [t \in Tables |-> db[Main(t)]]]]
    /\ UNCHANGED <<db, catalog, backup, renamed, published, runs, swaps, dropped, writes>>

EndBackup(p) ==
    /\ At(p, "saved")
    /\ backup' = task[p].seen
    /\ task' = [task EXCEPT ![p] = [at |-> "stage", run |-> @.run]]
    /\ UNCHANGED <<db, catalog, renamed, published, runs, swaps, dropped, writes>>

\* create_stage: a staging table that does not read back raises and stays.
CreateStage(p) ==
    /\ At(p, "stage")
    /\ \E t \in Tables, columns \in {"new", "garbled"} :
        /\ Stage(task[p].run, t) \notin DOMAIN db
        /\ db' = Put(db, Stage(task[p].run, t), Content(columns))
        /\ task' = IF columns = "new" THEN task ELSE [task EXCEPT ![p] = Idle]
    /\ UNCHANGED <<catalog, backup, renamed, published, runs, swaps, dropped, writes>>

\* LOCK TABLES: the two, their staging tables and the catalog.
Lock(p) ==
    /\ At(p, "stage") /\ \A t \in Tables : Stage(task[p].run, t) \in DOMAIN db
    /\ Goto(p, "verify")
    /\ UNCHANGED <<db, catalog, backup, renamed, published, runs, swaps, dropped, writes>>

(* Mutant: the columns of the backup are taken to be still there.          *)
SameRows == \A t \in Tables : db[Main(t)].extra = backup[t].extra

\* database_fingerprint of the backup's columns, under the lock.
Same == \A t \in Tables : db[Main(t)] = backup[t]

Verify(p) ==
    /\ At(p, "verify")
    /\ IF Same THEN Goto(p, "rename") ELSE task' = [task EXCEPT ![p] = Idle]
    /\ UNCHANGED <<db, catalog, backup, renamed, published, runs, swaps, dropped, writes>>

(* Mutant: the old tables are not set aside.                               *)
RenameOver(p) ==
    /\ At(p, "rename")
    /\ LET r == task[p].run
       IN  db' = [n \in DOMAIN db \ {Stage(r, t) : t \in Tables} |->
                    IF n[1] = "main" THEN db[Stage(r, n[3])] ELSE db[n]]
    /\ swaps' = swaps + 1 /\ Goto(p, "note")
    /\ UNCHANGED <<catalog, backup, renamed, published, runs, dropped, writes>>

\* One RENAME TABLE.
Rename(p) ==
    /\ At(p, "rename")
    /\ LET r == task[p].run
       IN  db' = [n \in (DOMAIN db \ {Stage(r, t) : t \in Tables}) \cup {Prior(r, t) : t \in Tables} |->
                    CASE n[1] = "main" -> db[Stage(r, n[3])]
                      [] n[1] = "prior" /\ n[2] = r -> db[Main(n[3])]
                      [] OTHER -> db[n]]
    /\ swaps' = swaps + 1 /\ Goto(p, "note")
    /\ UNCHANGED <<catalog, backup, renamed, published, runs, dropped, writes>>

Note(p) ==
    /\ At(p, "note")
    /\ renamed' = TRUE /\ Goto(p, "catalog")
    /\ UNCHANGED <<db, catalog, backup, published, runs, swaps, dropped, writes>>

\* refresh_catalog: both entries in one transaction, neither of which a
\* person may manage; then UNLOCK TABLES.
RefreshCatalog(p) ==
    /\ At(p, "catalog")
    /\ IF \E t \in Tables : catalog[t].managed
       THEN task' = [task EXCEPT ![p] = Idle] /\ UNCHANGED catalog
       ELSE /\ catalog' = [t \in Tables |-> [catalog[t] EXCEPT !.columns = db[Main(t)].columns]]
            /\ Goto(p, "check")
    /\ UNCHANGED <<db, backup, renamed, published, runs, swaps, dropped, writes>>

\* What another connection sees: the staged rows, and their columns listed.
Visible == \A t \in Tables : db[Main(t)] = Content("new") /\ catalog[t].columns = "new"

Check(p) ==
    /\ At(p, "check")
    /\ IF Visible THEN Goto(p, "drop") ELSE task' = [task EXCEPT ![p] = Idle]
    /\ UNCHANGED <<db, catalog, backup, renamed, published, runs, swaps, dropped, writes>>

Drop(p) ==
    /\ At(p, "drop")
    /\ LET old == {Prior(task[p].run, t) : t \in Tables}
       IN  /\ db' = Restrict(db, DOMAIN db \ old)
           /\ dropped' = dropped \cup {[table |-> n[3], content |-> db[n]] : n \in old}
    /\ Goto(p, "publish")
    /\ UNCHANGED <<catalog, backup, renamed, published, runs, swaps, writes>>

Publish(p) ==
    /\ At(p, "publish")
    /\ published' = TRUE /\ task' = [task EXCEPT ![p] = Idle]
    /\ UNCHANGED <<db, catalog, backup, renamed, runs, swaps, dropped, writes>>

\* A step raises, or the operator's process dies: the connection closes.
Break(p) ==
    /\ task[p] # Idle /\ task' = [task EXCEPT ![p] = Idle]
    /\ UNCHANGED <<db, catalog, backup, renamed, published, runs, swaps, dropped, writes>>

\* Others write a table, or take over or return a catalog entry.
Write(t) ==
    /\ ~Locked /\ writes < MaxWrites /\ writes' = writes + 1
    /\ db' = [db EXCEPT ![Main(t)].extra = @ + 1]
    /\ UNCHANGED <<catalog, backup, renamed, published, task, runs, swaps, dropped>>

Manage(t) ==
    /\ ~Locked /\ writes < MaxWrites /\ writes' = writes + 1
    /\ catalog' = [catalog EXCEPT ![t].managed = ~@]
    /\ UNCHANGED <<db, backup, renamed, published, task, runs, swaps, dropped>>

Next ==
    \/ \E p \in Operators :
        \/ Begin(p) \/ GetLock(p) \/ Snapshot(p) \/ EndBackup(p) \/ CreateStage(p) \/ Lock(p)
        \/ Verify(p) \/ Rename(p) \/ Note(p) \/ RefreshCatalog(p) \/ Check(p) \/ Drop(p)
        \/ Publish(p) \/ Break(p)
    \/ \E t \in Tables : Write(t) \/ Manage(t)

Spec == Init /\ [][Next]_vars

----
\* However often sync is started, and wherever it died before its markers
\* were written, the tables are exchanged once: a second exchange would set
\* the summaries aside as if they were the old tables
\* (summary_database.py:374-379, 443-445).
SwappedOnce == swaps <= 1

\* Every row of a table that is gone is in the backup: also one that others
\* wrote after the backup was made (docs/five-table-summary.md:67).
DroppedIsBackedUp ==
    \A d \in dropped : backup[d.table] = d.content

\* Where a sync stopped between the exchange and the catalog, a reader finds
\* columns that the catalog does not list: the old tables are still there
\* then, to go back to (summary_database.py:454-484).
HalfDoneKeepsPrior ==
    ~Locked /\ (\E t \in Tables : catalog[t].columns # db[Main(t)].columns) =>
        \E r \in 1..runs : \A t \in Tables : Prior(r, t) \in DOMAIN db
====
