---- MODULE WhyImport ----
(* Completing a pinned ontology snapshot with WHY texts                    *)
(* (risk/import_why.py): every selected node is fetched and verified       *)
(* against the snapshot's revision, from the ontology service or from a    *)
(* file of its answers; then one new snapshot file is written, or none.    *)
(* Nothing locks: several imports may aim at the same file, the service    *)
(* may switch its dataset, a request may fail and a process may die.       *)
(* A file is believed as far as it agrees with itself: its answers must    *)
(* name the revision and carry their own text's hash, and may differ from  *)
(* what the service would say.                                             *)
(*                                                                         *)
(* A text is a value, its hash is the text; Empty stands for no WHY.       *)
EXTENDS FiniteSets, Naturals

CONSTANTS
    Nodes,       \* the concepts of the snapshot
    Importers,   \* processes that run import_why with one output path
    Revisions,   \* datasets of the ontology service
    Pinned,      \* the snapshot's revision
    Why,         \* revision -> node -> its WHY at the service
    Snapshots,   \* node -> the WHY the snapshot has (None: not retrieved)
    Copies,      \* properties a node's WHY is repeated in
    Files,       \* what an offline file may hold: sets of answers
    Empty, None

VARIABLES
    snapshot,    \* the snapshot file that is enriched
    service,     \* the dataset the service has
    task,        \* importer -> its selection, source and progress
    output,      \* the output file, or None
    temps        \* importers whose temporary file exists

vars == <<snapshot, service, task, output, temps>>

\* source is None for the service, or the offline file's answers.
NewTask == [stage |-> "new", selected |-> {}, imported |-> <<>>, source |-> None]

Init ==
    /\ snapshot \in Snapshots /\ service \in Revisions
    /\ task = [i \in Importers |-> NewTask]
    /\ output = None /\ temps = {}

Move(i, stage) == task' = [task EXCEPT ![i].stage = stage]

\* An answer names its node and revision, and carries the text with its hash.
Answer(n, r, why, hash) == [node |-> n, revision |-> r, why |-> why, hash |-> hash]

(* Mutant: an answer of any revision is taken.                             *)
VerifiedAnyRevision(a, n) == a.node = n /\ a.hash = a.why

\* verify_why_response.
Verified(a, n) == a.node = n /\ a.revision = Pinned /\ a.hash = a.why

\* None stands for no file: it is none of the files that may be read, and none
\* that a finished import leaves behind.
Texts == {Why[Pinned][n] : n \in Nodes} \cup {a.why : a \in UNION Files}
         \cup UNION {{s[n] : n \in Nodes} : s \in Snapshots}

ImportAssumption ==
    /\ None \notin Files
    /\ None \notin [by : Importers, content : [Nodes -> [Copies -> Texts]]]

\* import_why: the output must not exist; the selected nodes are of the
\* snapshot.  A file's answers are all verified here, and cover the selection.
Begin(i) ==
    /\ task[i].stage = "new"
    /\ \E selected \in (SUBSET Nodes) \ {{}} :
        IF output # None THEN Move(i, "failed")
        ELSE task' = [task EXCEPT ![i].stage = "fetch", ![i].selected = selected]
    /\ UNCHANGED <<snapshot, service, output, temps>>

BeginOffline(i) ==
    /\ task[i].stage = "new"
    /\ \E selected \in (SUBSET Nodes) \ {{}}, file \in Files :
        LET usable ==
                /\ \A a \in file : a.node \in Nodes /\ Verified(a, a.node)
                /\ \A a, b \in file : a.node = b.node => a = b
                /\ selected \subseteq {a.node : a \in file}
            text(n) == (CHOOSE a \in file : a.node = n).why
        IN  IF output # None \/ ~usable THEN Move(i, "failed")
            ELSE task' = [task EXCEPT ![i] = [stage |-> "build", selected |-> selected,
                                              imported |-> [n \in selected |-> text(n)],
                                              source |-> file]]
    /\ UNCHANGED <<snapshot, service, output, temps>>

\* What the service answers for a node: it refuses a revision it does not
\* have, or (an older build of it) answers with the dataset it has; a text may
\* arrive with another hash.
Responses(n) ==
    {Answer(n, service, Why[service][n], h) : h \in {Why[service][n], None}}

\* fetch_why and verify_why_response, one node after the other; a failed
\* request or answer ends the import.
Fetch(i) ==
    /\ task[i].stage = "fetch"
    /\ \E n \in task[i].selected \ DOMAIN task[i].imported : \E a \in Responses(n) :
        IF Verified(a, n)
        THEN task' = [task EXCEPT ![i].imported = [x \in DOMAIN @ \cup {n} |-> IF x = n THEN a.why ELSE @[x]],
                                  ![i].stage = IF DOMAIN task[i].imported \cup {n} = task[i].selected
                                               THEN "build" ELSE "fetch"]
        ELSE Move(i, "failed")
    /\ UNCHANGED <<snapshot, service, output, temps>>

(* Mutant: a text that differs from the snapshot's replaces it.            *)
AgreesAlways(i) == TRUE

\* A WHY the snapshot already has is never contradicted, nor removed.
Agrees(i) ==
    \A n \in task[i].selected : snapshot[n] \in {None, Empty, task[i].imported[n]}

Build(i) ==
    /\ task[i].stage = "build"
    /\ Move(i, IF Agrees(i) THEN "write" ELSE "failed")
    /\ UNCHANGED <<snapshot, service, output, temps>>

\* _apply: the node's WHY and every copy of it; other nodes are left alone.
Applied(i) ==
    [n \in Nodes |-> [c \in Copies |->
        IF n \in task[i].selected THEN task[i].imported[n] ELSE snapshot[n]]]

\* _publish_new: the file is complete, and synchronized, before it is named.
Write(i) ==
    /\ task[i].stage = "write"
    /\ temps' = temps \cup {i} /\ Move(i, "link")
    /\ UNCHANGED <<snapshot, service, output>>

(* Mutant: the file is renamed into place.                                 *)
LinkOver(i) ==
    /\ task[i].stage = "link"
    /\ output' = [by |-> i, content |-> Applied(i)] /\ Move(i, "done")
    /\ temps' = temps \ {i}
    /\ UNCHANGED <<snapshot, service>>

\* A hard link fails when the name exists; the temporary name goes either way.
Link(i) ==
    /\ task[i].stage = "link"
    /\ IF output = None
       THEN output' = [by |-> i, content |-> Applied(i)] /\ Move(i, "done")
       ELSE UNCHANGED output /\ Move(i, "failed")
    /\ temps' = temps \ {i}
    /\ UNCHANGED <<snapshot, service>>

\* The request fails or times out, or the disk refuses the file.
Fail(i) ==
    /\ task[i].stage \in {"fetch", "write", "link"}
    /\ Move(i, "failed") /\ temps' = temps \ {i}
    /\ UNCHANGED <<snapshot, service, output>>

\* The process dies; its temporary file stays.
Crash(i) ==
    /\ task[i].stage \in {"fetch", "build", "write", "link"}
    /\ Move(i, "dead")
    /\ UNCHANGED <<snapshot, service, output, temps>>

Switch ==
    /\ \E r \in Revisions \ {service} : service' = r
    /\ UNCHANGED <<snapshot, task, output, temps>>

Next ==
    \/ \E i \in Importers :
        \/ Begin(i) \/ BeginOffline(i) \/ Fetch(i) \/ Build(i)
        \/ Write(i) \/ Link(i) \/ Fail(i) \/ Crash(i)
    \/ Switch

Spec == Init /\ [][Next]_vars

----
\* What an import took for a node: the service's text of the pinned revision,
\* however often the service switched, or the one its file gives for it.
Vouched(t, n, why) ==
    IF t.source = None THEN why = Why[Pinned][n]
    ELSE \E a \in t.source : Verified(a, n) /\ a.why = why

\* The file that appears is whole: every selected node has, in every copy, the
\* text its source vouches for as the pinned revision's, and every other node
\* what the snapshot had (import_why.py: validate all requested nodes, then
\* create a separate enriched snapshot).
OutputIsVerified ==
    output # None =>
        \A n \in Nodes, c \in Copies :
            IF n \in task[output.by].selected
            THEN Vouched(task[output.by], n, output.content[n][c])
            ELSE output.content[n][c] = snapshot[n]

\* Nobody's snapshot is replaced: an import that reports success left the file
\* that is there, also when two imports found the name free (import_why.py:138,
\* without overwriting races); only a dead import leaves a temporary file.
SuccessIsMine ==
    /\ \A i \in Importers : task[i].stage = "done" => output # None /\ output.by = i
    /\ \A i \in temps : task[i].stage \in {"link", "dead"}

\* A WHY the snapshot had is in the file as it was (import_why.py:217-220).
NothingIsContradicted ==
    output # None =>
        \A n \in Nodes, c \in Copies :
            snapshot[n] \notin {None, Empty} => output.content[n][c] = snapshot[n]
====
