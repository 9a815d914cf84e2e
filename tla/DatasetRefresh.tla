---- MODULE DatasetRefresh ----
(* Replacing the business tables of a live database by the verified        *)
(* workbooks (scripts/marketing_refresh/database.py): backup, stage and    *)
(* publish are three commands of an operator.  Each may raise or die at    *)
(* any step and is run again; its progress is in marker files and in the   *)
(* tables themselves.  Meanwhile an application keeps writing the          *)
(* auxiliary tables that publish removes, and somebody may change a        *)
(* business table.                                                         *)
(*                                                                         *)
(* readback.install refuses a desktop file that is neither the original    *)
(* nor the verified one, so there is one workbook version.                 *)
EXTENDS FiniteSets, Naturals

CONSTANTS
    Tables,      \* the business tables
    Auxiliary,   \* the application's other tables
    Rows,        \* the rows of a verified workbook (the same in each)
    OldRows,     \* what every table holds at first
    NewRows,     \* rows that others write
    Garbled,     \* a row the server stored otherwise than it was sent
    MaxWrites,   \* bound: changes by others
    None

VARIABLES
    db,          \* the tables the database has, with their rows
    desktop,     \* "old", "new" or "edited": the operator's workbooks
    backup,      \* backup.json: the database as it was, or None
    staged,      \* database_staged.json: table -> fingerprint read back
    saved,       \* auxiliary tables saved under the lock
    command,     \* the running command
    dropped,     \* history: tables publish dropped, with their rows
    writes       \* changes by others so far

vars == <<db, desktop, backup, staged, saved, command, dropped, writes>>

\* Names: of the old tables, the staging tables, the old ones set aside, and
\* the published ones.
Names(kind) == {<<kind, t>> : t \in Tables}
Source == Names("source")
Stage == Names("stage")
Before == Names("before")
Final == Names("final")
Other == {<<"auxiliary", a>> : a \in Auxiliary}

Idle == [at |-> "idle"]
Present == DOMAIN db
Restrict(f, S) == [x \in S |-> f[x]]
Put(f, x, v) == [y \in DOMAIN f \cup {x} |-> IF y = x THEN v ELSE f[y]]

Init ==
    /\ db = [n \in Source \cup Other |-> OldRows]
    /\ desktop = "old" /\ backup = None /\ staged = <<>> /\ saved = {}
    /\ command = Idle /\ dropped = {} /\ writes = 0

----
(* backup: one consistent snapshot of every table; the marker is last.      *)

Snapshot ==
    /\ command = Idle /\ backup = None
    /\ command' = [at |-> "backup", seen |-> db]
    /\ UNCHANGED <<db, desktop, backup, staged, saved, dropped, writes>>

EndBackup ==
    /\ command.at = "backup"
    /\ backup' = command.seen /\ command' = Idle
    /\ UNCHANGED <<db, desktop, staged, saved, dropped, writes>>

\* readback.install: the verified workbooks replace the operator's, unless
\* somebody edited those.
Install ==
    /\ command = Idle /\ backup # None /\ desktop = "old"
    /\ desktop' = "new"
    /\ UNCHANGED <<db, backup, staged, saved, command, dropped, writes>>

----
(* stage.                                                                   *)

\* verify_prerequisites.
Prerequisites == command = Idle /\ backup # None /\ desktop = "new"

\* check_original_tables: every table of the backup is there, the business
\* tables have as many rows, and only staging tables have appeared.
Original ==
    /\ DOMAIN backup \subseteq Present
    /\ \A n \in Source : Cardinality(db[n]) = Cardinality(backup[n])
    /\ Present \subseteq DOMAIN backup \cup Stage

BeginStage ==
    /\ Prerequisites /\ Original
    /\ command' = [at |-> "tables", left |-> Tables]
    /\ UNCHANGED <<db, desktop, backup, staged, saved, dropped, writes>>

\* A table that was staged and reads back the same is left alone.
Skip ==
    /\ command.at = "tables"
    /\ \E t \in command.left \cap DOMAIN staged :
        /\ <<"stage", t>> \in Present /\ db[<<"stage", t>>] = staged[t]
        /\ command' = [command EXCEPT !.left = @ \ {t}]
    /\ UNCHANGED <<db, desktop, backup, staged, saved, dropped, writes>>

DropStage ==
    /\ command.at = "tables"
    /\ \E t \in command.left :
        /\ ~(t \in DOMAIN staged /\ <<"stage", t>> \in Present /\ db[<<"stage", t>>] = staged[t])
        /\ db' = Restrict(db, Present \ {<<"stage", t>>})
        /\ command' = [at |-> "create", left |-> command.left, table |-> t, todo |-> Rows]
    /\ UNCHANGED <<desktop, backup, staged, saved, dropped, writes>>

CreateStage ==
    /\ command.at = "create" /\ <<"source", command.table>> \in Present
    /\ db' = Put(db, <<"stage", command.table>>, {})
    /\ command' = [command EXCEPT !.at = "load"]
    /\ UNCHANGED <<desktop, backup, staged, saved, dropped, writes>>

\* flush: every batch is committed.
Flush ==
    /\ command.at = "load"
    /\ \E row \in command.todo : \E stored \in {row, Garbled} :
        /\ db' = [db EXCEPT ![<<"stage", command.table>>] = @ \cup {stored}]
        /\ command' = [command EXCEPT !.todo = @ \ {row}]
    /\ UNCHANGED <<desktop, backup, staged, saved, dropped, writes>>

(* Mutant: the fingerprint of whatever is there is recorded.               *)
ReadbackUnchecked ==
    /\ command.at = "load" /\ command.todo = {}
    /\ staged' = Put(staged, command.table, db[<<"stage", command.table>>])
    /\ command' = [at |-> "tables", left |-> command.left \ {command.table}]
    /\ UNCHANGED <<db, desktop, backup, saved, dropped, writes>>

\* The rows are read back in full; a difference raises.
Readback ==
    /\ command.at = "load" /\ command.todo = {}
    /\ LET t == command.table
           actual == db[<<"stage", t>>]
       IN  IF actual = Rows
           THEN /\ staged' = Put(staged, t, actual)
                /\ command' = [at |-> "tables", left |-> command.left \ {t}]
           ELSE command' = Idle /\ UNCHANGED staged
    /\ UNCHANGED <<db, desktop, backup, saved, dropped, writes>>

EndStage ==
    /\ command.at = "tables" /\ command.left = {}
    /\ command' = Idle
    /\ UNCHANGED <<db, desktop, backup, staged, saved, dropped, writes>>

----
(* publish.                                                                 *)

BeginPublish ==
    /\ Prerequisites /\ DOMAIN staged = Tables
    /\ command' = [at |-> "lock", locked |-> {}, names |-> Present]
    /\ UNCHANGED <<db, desktop, backup, staged, saved, dropped, writes>>

\* LOCK TABLES ... WRITE of every table listed a moment ago.
Lock ==
    /\ command.at = "lock" /\ command.names \subseteq Present
    /\ command' = [command EXCEPT !.at = "save", !.locked = command.names]
    /\ UNCHANGED <<db, desktop, backup, staged, saved, dropped, writes>>

(* Mutant: the first backup is taken to be enough.                         *)
SaveNothing ==
    /\ command.at = "save"
    /\ command' = [command EXCEPT !.at = "swap"]
    /\ UNCHANGED <<db, desktop, backup, staged, saved, dropped, writes>>

\* refresh_auxiliary_backup, under the lock.
SaveAuxiliary ==
    /\ command.at = "save"
    /\ saved' = saved \cup {[name |-> n, rows |-> db[n]] : n \in Other \cap command.names}
    /\ command' = [command EXCEPT !.at = "swap"]
    /\ UNCHANGED <<db, desktop, backup, staged, dropped, writes>>

\* What is left to drop, the auxiliary tables before the old ones.
Dropping(names) == names \cap (Other \cup Before)

Swapped(S) ==
    [n \in (Present \ {<<k, t>> : k \in {"source", "stage"}, t \in S}) \cup
           {<<k, t>> : k \in {"before", "final"}, t \in S} |->
        CASE n[1] = "before" /\ n[2] \in S -> db[<<"source", n[2]>>]
          [] n[1] = "final" /\ n[2] \in S -> db[<<"stage", n[2]>>]
          [] OTHER -> db[n]]

Swappable ==
    /\ Original
    /\ \A t \in Tables : /\ <<"stage", t>> \in Present
                         /\ Cardinality(db[<<"stage", t>>]) = Cardinality(staged[t])

(* Mutant: the tables are renamed one after the other.                     *)
SwapEach ==
    /\ command.at = "swap"
    /\ \E t \in Tables :
        IF Swappable
        THEN /\ db' = Swapped({t})
             /\ command' = [at |-> "drop", locked |-> command.locked \cup Before \cup Final,
                            names |-> Dropping(Present) \cup {<<"before", t>>}]
        ELSE command' = Idle /\ UNCHANGED db
    /\ UNCHANGED <<desktop, backup, staged, saved, dropped, writes>>

\* One RENAME TABLE for all, unless an earlier publication has done it; the
\* locks move with the tables.
Swap ==
    /\ command.at = "swap"
    /\ IF Final \subseteq command.names
       THEN command' = [command EXCEPT !.at = "drop", !.names = Dropping(Present)] /\ UNCHANGED db
       ELSE IF Swappable
       THEN /\ db' = Swapped(Tables)
            /\ command' = [at |-> "drop", locked |-> command.locked \cup Before \cup Final,
                           names |-> Dropping(Present) \cup Before]
       ELSE command' = Idle /\ UNCHANGED db
    /\ UNCHANGED <<desktop, backup, staged, saved, dropped, writes>>

\* A table that appeared after LOCK TABLES cannot be dropped: MySQL raises.
Drop ==
    /\ command.at = "drop"
    /\ \E n \in command.names :
        /\ n \in Before => command.names \cap Other = {}
        /\ IF n \in command.locked
           THEN /\ db' = Restrict(db, Present \ {n})
                /\ dropped' = dropped \cup {[name |-> n, rows |-> db[n]]}
                /\ command' = [command EXCEPT !.names = @ \ {n}]
           ELSE command' = Idle /\ UNCHANGED <<db, dropped>>
    /\ UNCHANGED <<desktop, backup, staged, saved, writes>>

\* Exactly the published tables are left, or an error says so.
EndPublish ==
    /\ command.at = "drop" /\ command.names = {}
    /\ command' = Idle
    /\ UNCHANGED <<db, desktop, backup, staged, saved, dropped, writes>>

----
(* The others, and what goes wrong.                                         *)

\* A command raises or dies: the connection closes and its locks with it.
Break ==
    /\ command # Idle /\ command' = Idle
    /\ UNCHANGED <<db, desktop, backup, staged, saved, dropped, writes>>

Locked == IF command.at \in {"save", "swap", "drop"} THEN command.locked ELSE {}

\* The application writes an auxiliary table, or creates it again.
Write ==
    /\ writes < MaxWrites /\ writes' = writes + 1
    /\ \E n \in Other \ Locked, row \in NewRows :
        db' = IF n \in Present THEN [db EXCEPT ![n] = @ \cup {row}] ELSE Put(db, n, {})
    /\ UNCHANGED <<desktop, backup, staged, saved, command, dropped>>

\* Somebody adds a row to a business table.
Change ==
    /\ writes < MaxWrites /\ writes' = writes + 1
    /\ \E n \in (Source \cap Present) \ Locked, row \in NewRows : db' = [db EXCEPT ![n] = @ \cup {row}]
    /\ UNCHANGED <<desktop, backup, staged, saved, command, dropped>>

\* The operator edits a workbook.
Edit ==
    /\ writes < MaxWrites /\ writes' = writes + 1
    /\ desktop = "new" /\ desktop' = "edited"
    /\ UNCHANGED <<db, backup, staged, saved, command, dropped>>

Next ==
    \/ Snapshot \/ EndBackup \/ Install
    \/ BeginStage \/ Skip \/ DropStage \/ CreateStage \/ Flush \/ Readback \/ EndStage
    \/ BeginPublish \/ Lock \/ SaveAuxiliary \/ Swap \/ Drop \/ EndPublish
    \/ Break \/ Write \/ Change \/ Edit

Spec == Init /\ [][Next]_vars

----
\* A reader finds either all of the old tables or all of the new ones,
\* whenever publish dies or is run again (database.py:421-458).
SwappedTogether ==
    {t \in Tables : <<"source", t>> \in Present} =
        IF Final \cap Present = {} THEN Tables ELSE {}

\* What is published are the workbooks' rows in full: not a staging table a
\* died or diverging load left behind (database.py:306-313, 379-381, 425-428).
PublishedIsWhole ==
    \A n \in Final \cap Present : db[n] = Rows

\* Nothing is dropped that no backup has: an auxiliary table is saved as it
\* was when it was dropped, however often publish was started, and an old
\* table has as many rows as in the first backup (database.py:217, 233).
DroppedIsSaved ==
    \A d \in dropped :
        IF d.name \in Other THEN d \in saved
        ELSE Cardinality(d.rows) = Cardinality(backup[<<"source", d.name[2]>>])
====
