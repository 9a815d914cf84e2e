---- MODULE ResolvedGraphs ----
(* What becomes of a graph's records as resolution is applied to its own   *)
(* results (resolution/adapter.py, projection.py; knowledge/service.py     *)
(* load_graph).  A run snapshots a graph, reads every record a node stands *)
(* for, annotates the model's judgements, and its accepted merges are      *)
(* projected to a derived graph; that graph, at the revision its reference *)
(* names, can be the source of the next run.                               *)
(*                                                                         *)
(* Which node a cluster keeps is the last decision's choice and left open  *)
(* here (ResolutionRuns replays the decisions); texts are values.          *)
EXTENDS Naturals, FiniteSets, Sequences, FiniteSetsExt

CONSTANTS
    Sources,       \* the graphs that can be loaded
    Quotes,        \* text -> the identifier values it contains
    Apart,         \* pairs of names the identity guard keeps apart
    MaxDepth,      \* runs of a chain, each of the result of the one before
    MaxDecisions,  \* decisions a run sees
    Joined,        \* a quote that runs across the join of two contexts
    None

\* A node: its own record, the members it was merged from, and the conflicts
\* shown with it.  A record: id, name, the text it was extracted from and
\* where in it the name is, fields, and whether it is an event.
Node(r) == [rec |-> r, sources |-> {}, conflicts |-> {}]

\* A relation, and what it was projected from, if it was.
Edge(id, from, to, of) == [id |-> id, from |-> from, to |-> to, of |-> of]

\* Graphs are finite, and what is loaded first was not resolved yet.
GraphAssumption ==
    /\ MaxDepth \in Nat
    /\ \A g \in Sources :
        /\ IsFiniteSet(g.nodes) /\ \A n \in g.nodes : n = Node(n.rec)
        /\ IsFiniteSet(g.edges) /\ \A e \in g.edges : e.of = <<>>

VARIABLES
    source,   \* the graph loaded first
    run,      \* the last run of the chain, or None: a run keeps its snapshot,
              \* so what is decided on an earlier one no longer matters to it
    depth     \* runs so far

vars == <<source, run, depth>>

----
(* Reading a node.                                                         *)

(* Mutant: only the members of the last merge are read.                    *)
SourceRecordsOfLast(n) == {n.rec} \cup {m.rec : m \in n.sources}

\* source_records: the node's own record and those of all earlier merges.
SourceRecords(n) ==
    LET members[k \in 0 .. MaxDepth] ==
            IF k = 0 THEN {n} ELSE UNION {m.sources : m \in members[k - 1]}
    IN  {m.rec : m \in UNION {members[k] : k \in 0 .. MaxDepth}}

\* corpus_from_graph: what the record can be quoted from.
Context(kind, r) == IF kind = "graphrag" THEN r.text ELSE r.id
Contexts(kind, n) == {Context(kind, r) : r \in SourceRecords(n)} \ {None}

\* A record's own identifiers; a participant of an event does not identify it.
OwnIds(kind, r) ==
    {<<f, r.fields[f]>> : f \in {g \in DOMAIN r.fields :
        /\ g = IF kind = "database" /\ r.event THEN "event_id" ELSE "cust_id"
        /\ kind = "graphrag" => r.text # None /\ r.fields[g] \in Quotes[r.text]}}

Ids(kind, n) == UNION {OwnIds(kind, r) : r \in SourceRecords(n)}

(* Mutant: the place of any record's name is taken for the node's.         *)
SpanOfAny(kind, n) ==
    LET located == {r \in SourceRecords(n) : kind = "graphrag" /\ r.text # None /\ r.at # None}
    IN  IF located # {} THEN LET r == CHOOSE r \in located : TRUE IN <<r.text, r.at>> ELSE None

\* The one place in the source the node's name is at, or None.
Span(kind, n) ==
    LET located == {r \in SourceRecords(n) : kind = "graphrag" /\ r.text # None /\ r.at # None}
        places == {<<r.text, r.at>> : r \in located}
    IN  IF Cardinality(places) = 1 /\ n.rec.name \in {r.name : r \in located}
        THEN CHOOSE s \in places : TRUE ELSE None

(* Mutant: the nodes are compared, not what was merged into them before.    *)
ConflictsOfNodes(nodes) ==
    LET values(f) == {n.rec.fields[f] : n \in {x \in nodes : f \in DOMAIN x.rec.fields}}
    IN  {<<f, values(f)>> : f \in {g \in UNION {DOMAIN n.rec.fields : n \in nodes} :
                                     Cardinality(values(g)) > 1}}

\* conflicts: a field, with every value the records of the nodes give it.
Conflicts(nodes) ==
    LET records == UNION {SourceRecords(n) : n \in nodes}
        values(f) == {r.fields[f] : r \in {x \in records : f \in DOMAIN x.fields}}
    IN  {<<f, values(f)>> : f \in {g \in UNION {DOMAIN r.fields : r \in records} :
                                     Cardinality(values(g)) > 1}}

----
(* Judgements.  An evidence is what the analysis said of a pair: who said  *)
(* it, what, and the two quotes; a quote is a context, or Joined.          *)

Evidence(origin, verdict, left, right) ==
    [origin |-> origin, verdict |-> verdict, left |-> left, right |-> right]

NodeIn(id) == CHOOSE n \in run.graph.nodes : n.rec.id = id

\* quote_location: the quote is literally in one record's text or row.
Located(id, quote) == quote \in Contexts(run.graph.kind, NodeIn(id))

\* model_recommends_merge, with the guard and the quotes annotate_* computed.
Blocked(p) == {NodeIn(p[1]).rec.name, NodeIn(p[2]).rec.name} \in Apart
Supported(p) ==
    run.evidence[p].origin = "model" =>
        Located(p[1], run.evidence[p].left) /\ Located(p[2], run.evidence[p].right)

(* Mutant: the model's verdict is a recommendation, whatever it quotes.    *)
RecommendsUnquoted(p) ==
    run.evidence[p].origin = "model" /\ run.evidence[p].verdict = "same" /\ ~Blocked(p)

Recommends(p) ==
    /\ run.evidence[p].origin = "model" /\ run.evidence[p].verdict = "same"
    /\ ~Blocked(p) /\ Supported(p)

\* annotate_identity: only undecided candidates are given a status anew.
Annotated(p) ==
    IF run.decided[p] # "open" THEN run.decided[p]
    ELSE IF Blocked(p) THEN "excluded"
    ELSE IF Recommends(p) THEN "pending" ELSE "not_recommended"

----
(* Projection.                                                             *)

MergedPairs(r) == {p \in DOMAIN r.decided : r.decided[p] = "merged"}
NodeIds(r) == {n.rec.id : n \in r.graph.nodes}

\* The nodes merged with a node, directly or through others.
Cluster(r, id) ==
    LET linked == {{p[1], p[2]} : p \in MergedPairs(r)}
    IN  {m \in NodeIds(r) : \A S \in SUBSET NodeIds(r) :
            id \in S /\ (\A l \in linked : l \cap S # {} => l \subseteq S) => m \in S}

\* memberships: every node has an owner, one of its own cluster.
Memberships(r) ==
    {owner \in [NodeIds(r) -> NodeIds(r)] :
        \A i \in NodeIds(r) :
            /\ owner[i] \in Cluster(r, i)
            /\ \A j \in Cluster(r, i) : owner[j] = owner[i]}

\* A canonical node keeps its own record; the members are kept whole.
ProjectedNode(id) ==
    LET members == {n \in run.graph.nodes : run.owner[n.rec.id] = id}
    IN  IF Cardinality(members) = 1 THEN NodeIn(id)
        ELSE [rec |-> NodeIn(id).rec, sources |-> members, conflicts |-> Conflicts(members)]

(* Mutant: relations that became parallel, or lead nowhere, are dropped.   *)
ProjectedEdgesOnce ==
    {Edge(e.id, run.owner[e.from], run.owner[e.to], <<e>>) :
        e \in {x \in run.graph.edges : run.owner[x.from] # run.owner[x.to]}}

\* An edge follows its ends and remembers what it was.
ProjectedEdges ==
    {IF run.owner[e.from] = e.from /\ run.owner[e.to] = e.to THEN e
     ELSE Edge(e.id, run.owner[e.from], run.owner[e.to], <<e>>) :
        e \in run.graph.edges}

Project ==
    [kind |-> run.graph.kind, truncated |-> FALSE,
     nodes |-> {ProjectedNode(run.owner[i]) : i \in NodeIds(run)},
     edges |-> ProjectedEdges]

\* validate_graph: complete, ids unique, no dangling relation, spans where
\* their name is (the last is required by corpus_from_graph).
ValidGraph(g) ==
    LET ids == {n.rec.id : n \in g.nodes} IN
    /\ ~g.truncated /\ g.nodes # {}
    /\ Cardinality(ids) = Cardinality(g.nodes)
    /\ Cardinality({e.id : e \in g.edges}) = Cardinality(g.edges)
    /\ \A e \in g.edges : {e.from, e.to} \subseteq ids
    /\ g.kind = "graphrag" => \A n \in g.nodes : \A r \in SourceRecords(n) :
            r.at # None /\ r.text # None => r.name \in Quotes[r.text]

----
Init == source \in Sources /\ run = None /\ depth = 0

\* What an analysis finds: at most one pair is judged the same (the bound),
\* with quotes the judge found in the joined contexts.
Analyses(g) ==
    LET pairs == {<<a.rec.id, b.rec.id>> : a, b \in g.nodes}
        quotes(id) ==
            LET cs == Contexts(g.kind, CHOOSE n \in g.nodes : n.rec.id = id)
            IN  cs \cup IF Cardinality(cs) > 1 THEN {Joined} ELSE {}
    IN  {<<>>} \cup UNION {{[x \in {p} |-> Evidence("model", "same", l, r)] :
            l \in quotes(p[1]), r \in quotes(p[2])} : p \in {q \in pairs : q[1] < q[2]}}

\* A run, once it is analysed; an incomplete graph is refused.
Start(g, carrier) ==
    /\ depth < MaxDepth /\ depth' = depth + 1
    /\ ValidGraph(g)
    /\ \E evidence \in Analyses(g) :
        run' = [graph |-> g, carrier |-> carrier, evidence |-> evidence,
                decided |-> [p \in DOMAIN evidence |-> "open"],
                owner |-> [i \in {n.rec.id : n \in g.nodes} |-> i], revision |-> 0]
    /\ UNCHANGED source

\* A run of the graph as it was first loaded.
StartFirst == run = None /\ Start(source, [i \in {n.rec.id : n \in source.nodes} |-> i])

\* A run of the last run's result, at the revision the reference names.
StartDerived ==
    /\ run # None /\ run.revision > 0
    /\ Start(Project, [o \in DOMAIN run.carrier |-> run.owner[run.carrier[o]]])

\* decide: the candidate's mark, and the memberships that follow from it.
Decide(p, mark) ==
    LET marked == [run EXCEPT
            !.evidence = [x \in DOMAIN @ \cup {p} |->
                            IF x \in DOMAIN @ THEN @[x] ELSE Evidence("manual", "uncertain", None, None)],
            !.decided = [x \in DOMAIN @ \cup {p} |-> IF x = p THEN mark ELSE @[x]],
            !.revision = @ + 1]
    IN  /\ run.revision < MaxDecisions
        /\ \E owner \in Memberships(marked) : run' = [marked EXCEPT !.owner = owner]
        /\ UNCHANGED <<source, depth>>

\* No record of the clusters that would meet is kept apart from another.
Mergeable(p) ==
    LET records == UNION {SourceRecords(NodeIn(i)) : i \in Cluster(run, p[1]) \cup Cluster(run, p[2])}
    IN  \A a, b \in records : {a.name, b.name} \notin Apart

Known(p) == p \in DOMAIN run.decided
Closed(p) == Known(p) /\ Annotated(p) = "excluded"

Merge(p) == Known(p) /\ ~Closed(p) /\ Supported(p) /\ Mergeable(p) /\ Decide(p, "merged")

\* A manual merge names any two nodes; the candidate may be new.
Manual(p) == p[1] < p[2] /\ ~Closed(p) /\ Mergeable(p) /\ Decide(p, "merged")

Reset(p) == Known(p) /\ ~Closed(p) /\ Decide(p, "open")

Review == run # None /\ \E p \in NodeIds(run) \X NodeIds(run) : Merge(p) \/ Manual(p) \/ Reset(p)

Next == StartFirst \/ StartDerived \/ Review

Spec == Init /\ [][Next]_vars

----
\* The edge of the first graph that an edge was projected from, run by run.
FirstForm(e) ==
    LET form[k \in 0 .. MaxDepth] ==
            IF k = 0 THEN e ELSE IF form[k - 1].of = <<>> THEN form[k - 1] ELSE form[k - 1].of[1]
    IN  form[MaxDepth]

StandsFor(n) == {o \in DOMAIN run.carrier : run.carrier[o] = n.rec.id}

\* However often results were merged again, a run's graph holds every record
\* and every relation of the first graph once: the records with the node that
\* carries them, the relations between the carriers of their first ends
\* (projection.py: undo never loses evidence; parallel and self edges stay).
NothingIsLost ==
    run # None =>
        /\ \A n \in run.graph.nodes :
            SourceRecords(n) = {m.rec : m \in {x \in source.nodes : x.rec.id \in StandsFor(n)}}
        /\ {FirstForm(e) : e \in run.graph.edges} = source.edges
        /\ Cardinality(run.graph.edges) = Cardinality(source.edges)
        /\ \A e \in run.graph.edges :
            e.from = run.carrier[FirstForm(e).from] /\ e.to = run.carrier[FirstForm(e).to]

\* Values the records of a merged node disagree on are all shown with it, also
\* after the node was merged again (adapter.py conflicts).
DisagreementsAreShown ==
    run # None => \A n \in run.graph.nodes :
        LET records == {m.rec : m \in {x \in source.nodes : x.rec.id \in StandsFor(n)}}
        IN  \A a, b \in records : \A f \in DOMAIN a.fields \cap DOMAIN b.fields :
                a.fields[f] # b.fields[f] =>
                    \E c \in n.conflicts : c[1] = f /\ {a.fields[f], b.fields[f]} \subseteq c[2]

\* What a node is identified by never comes from its place in a chain of
\* merges: a span is the place of its own name, in its only located text, and
\* identifiers are those its first records had (adapter.py:115-175).
IdentityIsGrounded ==
    run # None => \A n \in run.graph.nodes :
        LET kind == source.kind
            first == {x \in source.nodes : x.rec.id \in StandsFor(n)}
        IN  /\ Ids(kind, n) = UNION {OwnIds(kind, x.rec) : x \in first}
            /\ Span(kind, n) # None =>
                \A x \in first : Span(kind, x) # None =>
                    Span(kind, x) = Span(kind, n)
            /\ Span(kind, n) # None =>
                \E x \in first : x.rec.name = n.rec.name /\ Span(kind, x) = Span(kind, n)

\* What is put to a reviewer as the model's recommendation is quoted, on both
\* sides, from one record the node carries since the first graph, and is not
\* kept apart by the identity guard (adapter.py:model_recommends_merge).
PendingIsQuoted ==
    run # None => \A p \in DOMAIN run.decided :
        Annotated(p) = "pending" =>
            /\ ~Blocked(p)
            /\ \A side \in {<<p[1], run.evidence[p].left>>, <<p[2], run.evidence[p].right>>} :
                \E x \in source.nodes :
                    run.carrier[x.rec.id] = side[1] /\ Context(source.kind, x.rec) = side[2]
====
