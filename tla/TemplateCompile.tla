---- MODULE TemplateCompile ----
(* Compiling a confirmed graph template (staging/compile.py, keys.py).     *)
(* Each publisher writes a private draft page by page: nodes merged by     *)
(* their identity, bindings of source rows to nodes, and edges, within a   *)
(* row or joined through key sets that all publishers share and build on   *)
(* demand.  The draft is then copied into the graph version.  Workers      *)
(* collect drafts that are finished, or that nobody touched for an hour.   *)
(*                                                                         *)
(* Source rows are immutable.  Digests are modelled as the bytes they      *)
(* stand for, and a page is one row.                                       *)
EXTENDS Naturals, FiniteSets, Sequences, SequencesExt

CONSTANTS
    Publishers,  \* publications, one compilation each
    Inputs,      \* the staged rows and templates compiled (see below)
    None,        \* a missing value
    MaxFaults    \* bound on publishers that are stopped, die or linger

\* An input has rows: table -> sequence of rows (column -> value or None);
\* nodes: a sequence of [table, concept, key, fields] with key a sequence of
\* columns and fields a set of <<property, column>>; edges: a sequence of
\* [join, source, target, left, right] with source and target positions in
\* nodes, left and right sequences of columns.
CompileAssumption ==
    /\ MaxFaults \in Nat
    /\ \A i \in Inputs :
        /\ \A x \in Range(i.rows) \cup {i.nodes, i.edges} : x \in Seq(Range(x))
        /\ \A n \in DOMAIN i.nodes : i.nodes[n].table \in DOMAIN i.rows
        /\ \A e \in DOMAIN i.edges : {i.edges[e].source, i.edges[e].target} \subseteq DOMAIN i.nodes

VARIABLES
    input,
    pc,       \* publisher -> "idle", "nodes", "keys", "edges", "read", "copied",
              \* "published", "refused", "stopped" or "dead"
    item,     \* the position of the node or edge being compiled
    row,      \* the last row of it that was written
    side,     \* the side of the join whose key set is ensured, 3 after both
    filled,   \* rows of that key set this publisher wrote, None before it looked
    runs,     \* graph_draft_runs: "none", "building", "finished" or "gone"
    idle,     \* the draft was not touched for an hour
    drafts,   \* publisher -> [bindings, nodes, edges]
    sets,     \* shared key sets: <<table, columns>> -> [ready, keys]
    graph,    \* publisher -> [nodes, edges] copied into its version
    lingered, \* publishers that were ever idle while compiling (history)
    collected \* publishers whose draft was collected while compiling (history)

jobVars == <<item, row, side, filled>>
vars == <<input, pc, jobVars, runs, idle, drafts, sets, graph, lingered, collected>>

Node(n) == input.nodes[n]
RowsOf(n) == input.rows[Node(n).table]

\* encoded_key: the values of the columns, or None if one of them is missing.
Encoded(r, columns) ==
    IF \E c \in DOMAIN columns : r[columns[c]] = None THEN None
    ELSE [c \in DOMAIN columns |-> r[columns[c]]]

\* A node's identity: its concept and key, or the row itself if it has no key.
Identity(n, pos) ==
    <<Node(n).concept,
      IF Node(n).key = <<>> THEN <<Node(n).table, pos>> ELSE Encoded(RowsOf(n)[pos], Node(n).key)>>

\* The properties a row gives its node, as pairs of property and value.
Fields(n, pos) ==
    {<<f[1], RowsOf(n)[pos][f[2]]>> : f \in {g \in Node(n).fields : RowsOf(n)[pos][g[2]] # None}}

\* merge_fields: a property has one value.
Consistent(fields) == \A f, g \in fields : f[1] = g[1] => f = g

FieldsOf(nodes, id) == UNION {x[2] : x \in {y \in nodes : y[1] = id}}

Empty == [bindings |-> {}, nodes |-> {}, edges |-> {}]

\* The key sets of the template's joins: of a table, by columns.
KeySets ==
    {<<Node(e.source).table, e.left>> : e \in Range(input.edges)}
    \cup {<<Node(e.target).table, e.right>> : e \in Range(input.edges)}

Init ==
    /\ input \in Inputs
    /\ pc = [p \in Publishers |-> "idle"]
    /\ item = [p \in Publishers |-> 1] /\ row = [p \in Publishers |-> 0]
    /\ side = [p \in Publishers |-> 1] /\ filled = [p \in Publishers |-> None]
    /\ runs = [p \in Publishers |-> "none"] /\ idle = [p \in Publishers |-> FALSE]
    /\ drafts = [p \in Publishers |-> Empty]
    /\ sets = [s \in KeySets |-> [ready |-> FALSE, keys |-> {}]]
    /\ graph = [p \in Publishers |-> [nodes |-> {}, edges |-> {}]]
    /\ lingered = {} /\ collected = {}

Touched(p) == idle' = [idle EXCEPT ![p] = FALSE]
Goto(p, where) == pc' = [pc EXCEPT ![p] = where]
Released(p) == runs' = [runs EXCEPT ![p] = IF @ = "building" THEN "finished" ELSE @]

\* compile: a fresh version.
Begin(p) ==
    /\ pc[p] = "idle" /\ Goto(p, "nodes")
    /\ runs' = [runs EXCEPT ![p] = "building"]
    /\ UNCHANGED <<input, jobVars, idle, drafts, sets, graph, lingered, collected>>

\* The template or the data are at fault: raise, and release the draft.
Refuse(p) ==
    /\ Goto(p, "refused") /\ Released(p)
    /\ UNCHANGED <<input, jobVars, idle, drafts, sets, graph, lingered, collected>>

----
(* Nodes.                                                                  *)

NextRow(p) == row[p] + 1

(* Mutant: a node that is there already keeps its fields, the row's are    *)
(* dropped without comparing them.                                         *)
MergedFirst(nodes, id, fields) ==
    IF FieldsOf(nodes, id) = {} THEN fields ELSE FieldsOf(nodes, id)

Merged(nodes, id, fields) == FieldsOf(nodes, id) \cup fields

\* flush: the next rows are merged into the draft's nodes and bound to them.
WriteNode(p) ==
    /\ pc[p] = "nodes" /\ item[p] <= Len(input.nodes) /\ NextRow(p) <= Len(RowsOf(item[p]))
    /\ LET n == item[p]
           id == Identity(n, NextRow(p))
           fields == Merged(drafts[p].nodes, id, Fields(n, NextRow(p)))
       IN  IF id[2] = None \/ ~Consistent(fields) THEN Refuse(p)
           ELSE /\ drafts' = [drafts EXCEPT
                     ![p].nodes = {x \in @ : x[1] # id} \cup {<<id, fields>>},
                     ![p].bindings = @ \cup {<<n, NextRow(p), id>>}]
                /\ row' = [row EXCEPT ![p] = NextRow(p)]
                /\ Touched(p)
                /\ UNCHANGED <<input, pc, item, side, filled, runs, sets, graph, lingered, collected>>

\* The next node, and the edges after the last one.
EndNode(p) ==
    /\ pc[p] = "nodes" /\ item[p] <= Len(input.nodes) /\ NextRow(p) > Len(RowsOf(item[p]))
    /\ IF item[p] < Len(input.nodes) THEN item' = [item EXCEPT ![p] = @ + 1] /\ UNCHANGED pc
       ELSE item' = [item EXCEPT ![p] = 1] /\ Goto(p, "keys")
    /\ row' = [row EXCEPT ![p] = 0]
    /\ UNCHANGED <<input, side, filled, runs, idle, drafts, sets, graph, lingered, collected>>

----
(* Key sets.                                                               *)

Edge(p) == input.edges[item[p]]

\* The key set of one side of the join: the table and the columns.
KeySet(p, s) ==
    IF s = 1 THEN <<Node(Edge(p).source).table, Edge(p).left>>
    ELSE <<Node(Edge(p).target).table, Edge(p).right>>

KeyOf(set, pos) == Encoded(input.rows[set[1]][pos], set[2])

Ensuring(p) == pc[p] = "keys" /\ item[p] <= Len(input.edges) /\ Edge(p).join /\ side[p] < 3

NextSide(p) == side' = [side EXCEPT ![p] = @ + 1] /\ filled' = [filled EXCEPT ![p] = None]

(* Mutant: a key set somebody else has created is used as it is.           *)
EnsureCreated(p) ==
    LET set == KeySet(p, side[p]) IN
    /\ Ensuring(p) /\ filled[p] = None
    /\ IF sets[set].ready \/ sets[set].keys # {} THEN NextSide(p)
       ELSE filled' = [filled EXCEPT ![p] = 0] /\ UNCHANGED side
    /\ UNCHANGED <<input, pc, item, row, runs, idle, drafts, sets, graph, lingered, collected>>

\* ensure: a ready key set is used, any other one is written.
Ensure(p) ==
    LET set == KeySet(p, side[p]) IN
    /\ Ensuring(p) /\ filled[p] = None
    /\ IF sets[set].ready THEN NextSide(p)
       ELSE filled' = [filled EXCEPT ![p] = 0] /\ UNCHANGED side
    /\ UNCHANGED <<input, pc, item, row, runs, idle, drafts, sets, graph, lingered, collected>>

\* flush of a key page; another publisher may have written the same keys.
FillKeys(p) ==
    LET set == KeySet(p, side[p]) IN
    /\ Ensuring(p) /\ filled[p] # None /\ filled[p] < Len(input.rows[set[1]])
    /\ LET pos == filled[p] + 1 IN
       /\ filled' = [filled EXCEPT ![p] = pos]
       /\ sets' = IF KeyOf(set, pos) = None THEN sets
                  ELSE [sets EXCEPT ![set].keys = @ \cup {<<pos, KeyOf(set, pos)>>}]
    /\ UNCHANGED <<input, pc, item, row, side, runs, idle, drafts, graph, lingered, collected>>

\* All rows are written: the set is ready for everyone.
Announce(p) ==
    LET set == KeySet(p, side[p]) IN
    /\ Ensuring(p) /\ filled[p] # None /\ filled[p] = Len(input.rows[set[1]])
    /\ sets' = [sets EXCEPT ![set].ready = TRUE]
    /\ NextSide(p)
    /\ UNCHANGED <<input, pc, item, row, runs, idle, drafts, graph, lingered, collected>>

----
(* Edges.                                                                  *)

SourceKeys(p) == sets[KeySet(p, 1)].keys
TargetKeys(p) == sets[KeySet(p, 2)].keys

\* stats: the target's keys must be unique, and every source key matched.
Sound(p) ==
    /\ \A a, b \in TargetKeys(p) : a[2] = b[2] => a = b
    /\ \A a \in SourceKeys(p) : \E b \in TargetKeys(p) : a[2] = b[2]

CheckJoin(p) ==
    /\ pc[p] = "keys" /\ item[p] <= Len(input.edges) /\ ~Ensuring(p)
    /\ IF Edge(p).join /\ ~Sound(p) THEN Refuse(p)
       ELSE /\ Goto(p, "edges")
            /\ UNCHANGED <<input, jobVars, runs, idle, drafts, sets, graph, lingered, collected>>

\* Two bound rows are linked if they are the same row, or their keys join.
Joined(p, source, target) ==
    IF ~Edge(p).join THEN source = target
    ELSE \E a \in SourceKeys(p), b \in TargetKeys(p) :
            <<a[1], b[1], a[2]>> = <<source, target, b[2]>>

\* A page of edges: those of the next source row.
WriteEdge(p) ==
    /\ pc[p] = "edges" /\ NextRow(p) <= Len(RowsOf(Edge(p).source))
    /\ drafts' = [drafts EXCEPT ![p].edges = @ \cup
         {<<item[p], y[1][3], y[2][3]>> :
            y \in {x \in drafts[p].bindings \X drafts[p].bindings :
                /\ x[1][1] = Edge(p).source /\ x[1][2] = NextRow(p)
                /\ x[2][1] = Edge(p).target /\ Joined(p, NextRow(p), x[2][2])}}]
    /\ row' = [row EXCEPT ![p] = NextRow(p)]
    /\ Touched(p)
    /\ UNCHANGED <<input, pc, item, side, filled, runs, sets, graph, lingered, collected>>

EndEdge(p) ==
    /\ pc[p] = "edges" /\ NextRow(p) > Len(RowsOf(Edge(p).source))
    /\ item' = [item EXCEPT ![p] = @ + 1] /\ row' = [row EXCEPT ![p] = 0]
    /\ side' = [side EXCEPT ![p] = 1]
    /\ Goto(p, "keys") /\ Touched(p)
    /\ UNCHANGED <<input, filled, runs, drafts, sets, graph, lingered, collected>>

\* rows: the draft is copied into the version, nodes first.
CopyNodes(p) ==
    /\ pc[p] = "keys" /\ item[p] > Len(input.edges)
    /\ graph' = [graph EXCEPT ![p].nodes = drafts[p].nodes]
    /\ Goto(p, "read") /\ Touched(p)
    /\ UNCHANGED <<input, jobVars, runs, drafts, sets, lingered, collected>>

CopyEdges(p) ==
    /\ pc[p] = "read"
    /\ graph' = [graph EXCEPT ![p].edges = drafts[p].edges]
    /\ Goto(p, "copied") /\ Touched(p)
    /\ UNCHANGED <<input, jobVars, runs, drafts, sets, lingered, collected>>

\* publish: an edge whose ends are not both there was not created, and the
\* counts then differ; in either case the draft is released.
Publish(p) ==
    /\ pc[p] = "copied"
    /\ Goto(p, IF \A e \in graph[p].edges : {e[2], e[3]} \subseteq {n[1] : n \in graph[p].nodes}
               THEN "published" ELSE "stopped")
    /\ Released(p)
    /\ UNCHANGED <<input, jobVars, idle, drafts, sets, graph, lingered, collected>>

----
(* Interruption and collection.                                            *)

Compiling(p) == pc[p] \in {"nodes", "keys", "edges", "read", "copied"}

Faults == Cardinality(lingered \cup {p \in Publishers : pc[p] \in {"stopped", "dead"}})

\* check_lease raises before a page, and the draft is released.
Stop(p) ==
    /\ Compiling(p) /\ Faults < MaxFaults /\ Goto(p, "stopped") /\ Released(p)
    /\ UNCHANGED <<input, jobVars, idle, drafts, sets, graph, lingered, collected>>

\* The process dies; its draft stays.
Crash(p) ==
    /\ Compiling(p) /\ Faults < MaxFaults /\ Goto(p, "dead")
    /\ UNCHANGED <<input, jobVars, runs, idle, drafts, sets, graph, lingered, collected>>

\* An hour passes and no page of the draft is written or read.
Linger(p) ==
    /\ runs[p] = "building" /\ ~idle[p] /\ (Compiling(p) => Faults < MaxFaults \/ p \in lingered)
    /\ idle' = [idle EXCEPT ![p] = TRUE]
    /\ lingered' = IF Compiling(p) THEN lingered \cup {p} ELSE lingered
    /\ UNCHANGED <<input, pc, jobVars, runs, drafts, sets, graph, collected>>

(* Mutant: only finished drafts are collected.                             *)
CollectableFinished(p) == runs[p] = "finished"

Collectable(p) == runs[p] = "finished" \/ (runs[p] = "building" /\ idle[p])

\* collect: a page of bindings, or if there are none a page of nodes, then of
\* edges; the run when nothing is left.  A page holds what the instance has.
Collect(p) ==
    /\ Collectable(p)
    /\ IF drafts[p] = Empty THEN runs' = [runs EXCEPT ![p] = "gone"] /\ UNCHANGED drafts
       ELSE LET d == drafts[p] IN
            /\ drafts' = [drafts EXCEPT ![p] =
                    IF d.bindings # {} THEN [d EXCEPT !.bindings = {}]
                    ELSE IF d.nodes # {} THEN [d EXCEPT !.nodes = {}] ELSE Empty]
            /\ UNCHANGED runs
    /\ collected' = IF Compiling(p) THEN collected \cup {p} ELSE collected
    /\ UNCHANGED <<input, pc, jobVars, idle, sets, graph, lingered>>

Compile(p) ==
    \/ Begin(p) \/ WriteNode(p) \/ EndNode(p) \/ Ensure(p) \/ FillKeys(p)
    \/ Announce(p) \/ CheckJoin(p) \/ WriteEdge(p) \/ EndEdge(p)
    \/ CopyNodes(p) \/ CopyEdges(p) \/ Publish(p)

Next == \E p \in Publishers : Compile(p) \/ Stop(p) \/ Crash(p) \/ Linger(p) \/ Collect(p)

\* Publishers that live make progress, time passes and workers collect.
Spec ==
    /\ Init /\ [][Next]_vars
    /\ \A p \in Publishers : WF_vars(Compile(p)) /\ WF_vars(Linger(p)) /\ WF_vars(Collect(p))

----
(* Properties.                                                             *)

\* What the template says of all rows at once, in no order.
Bound == UNION {{<<n, pos, Identity(n, pos)>> : pos \in DOMAIN RowsOf(n)} : n \in DOMAIN input.nodes}

Instances ==
    {<<b[3], UNION {Fields(c[1], c[2]) : c \in {d \in Bound : d[3] = b[3]}}>> : b \in Bound}

SameKey(e, s, t) ==
    LET key == Encoded(RowsOf(e.source)[s], e.left) IN
    key # None /\ key = Encoded(RowsOf(e.target)[t], e.right)

Linked(e, s, t) ==
    s[1] = e.source /\ t[1] = e.target /\ IF e.join THEN SameKey(e, s[2], t[2]) ELSE s[2] = t[2]

Links ==
    UNION {{<<e, x[1][3], x[2][3]>> : x \in {y \in Bound \X Bound : Linked(input.edges[e], y[1], y[2])}} :
            e \in DOMAIN input.edges}

\* A published graph is exactly what the template says of the rows, whoever
\* wrote the shared key sets and however pages of publishers, collectors and
\* crashes interleaved (compile.py:107, 165, 193; keys.py:37), unless its draft
\* was collected while it compiled, see PublishedIsWhole; even then it holds
\* nothing the rows do not say.
CompiledIsExact ==
    \A p \in Publishers : pc[p] = "published" =>
        /\ \A x \in graph[p].nodes : \E i \in Instances : x[1] = i[1] /\ x[2] \subseteq i[2]
        /\ graph[p].edges \subseteq Links
        /\ p \notin collected => graph[p].nodes = Instances /\ graph[p].edges = Links

Faulty ==
    \/ \E b \in Bound : b[3][2] = None
    \/ \E i \in Instances : ~Consistent(i[2])
    \/ \E e \in {x \in Range(input.edges) : x.join} :
        \/ \E t, u \in DOMAIN RowsOf(e.target) : t # u /\ 
            Encoded(RowsOf(e.target)[t], e.right) = Encoded(RowsOf(e.target)[u], e.right) /\ Encoded(RowsOf(e.target)[t], e.right) # None
        \/ \E s \in DOMAIN RowsOf(e.source) :
            Encoded(RowsOf(e.source)[s], e.left) # None /\ ~\E t \in DOMAIN RowsOf(e.target) : SameKey(e, s, t)

\* A template is refused only when the rows contradict it, never because a key
\* set another publisher is still writing lacks a target (keys.py:37,
\* compile.py:168-173).
RefusedForCause == \A p \in Publishers : pc[p] = "refused" => Faulty

\* Whatever becomes of a compilation, its draft is collected in the end, unless
\* it went on writing after it had been collected (compile.py:62-75).
DraftsAreCollected ==
    \A p \in Publishers : <>[](p \notin collected => drafts[p] = Empty /\ runs[p] = "gone")

\* A published graph is the whole one, as docs/alignment.md:76 says: all nodes
\* and relations are counted before the current version is switched.  The
\* counts are of what the draft still held, so a draft that was collected
\* while its compilation stood still is published with rows missing.
PublishedIsWhole ==
    \A p \in Publishers : pc[p] = "published" => graph[p].nodes = Instances /\ graph[p].edges = Links
====
