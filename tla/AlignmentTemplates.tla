---- MODULE AlignmentTemplates ----
(* From an analysed mapping to an approved graph template                  *)
(* (alignment/analyzer.py _proposal and _columns, templates.py,            *)
(* relations.py, editing.py, presets.py, service.py, models.py).  The      *)
(* analysis drafts a template from the matched tables, the entity groups   *)
(* the model proposed and the joins that are exact.  Reviewers edit        *)
(* mappings, take the row preset, change the template or adopt it; each    *)
(* change makes a version of its own, and only an adopted template is      *)
(* compiled into a graph.                                                  *)
EXTENDS Naturals, FiniteSets, Sequences

CONSTANTS
    Tables,      \* table -> [batch, name, columns, keys, fks, rows, count]
    Concepts,    \* concepts of the catalogue
    Outcomes,    \* table -> what the analysis may have found for it
    Proposals,   \* joins the model may have proposed
    Changes(_),  \* templates a reviewer may make of one
    MaxNodes, MaxSuggested, MaxEdges,  \* 120, 200, 240
    MaxVersions, \* bound: versions of the run
    None

TableIds == DOMAIN Tables

\* Selected tables are few, and a key is some of a table's columns; whatever the
\* analysis finds is a mapping and a list of objects and relations.
TemplateAssumption ==
    /\ IsFiniteSet(TableIds) /\ IsFiniteSet(Proposals)
    /\ \A t \in TableIds :
        /\ IsFiniteSet(Tables[t].columns) /\ Tables[t].keys \subseteq Tables[t].columns /\ IsFiniteSet(Tables[t].fks)
        /\ \A o \in Outcomes[t] : IsFiniteSet(o.entities) /\ IsFiniteSet(o.edges)

VARIABLES
    versions,  \* <<[maps, relations, template]>>, versions are immutable
    failed,    \* the analysis ended without a result
    graphs     \* versions compiled, or refused by the compiler

vars == <<versions, failed, graphs>>

(* A template is [nodes, edges, confirmed, mode]; a node [id, table, concept, *)
(* scope, keys, props (<<column, name>>)]; an edge [id, source, target, mode, *)
(* left, right].  An id is <<table>>, or <<table, group>> for a fresh uuid.      *)

----
(* Exact joins (relations.py).                                             *)

KeyOf(r, cols) == [i \in DOMAIN cols |-> r[cols[i]]]
Whole(k) == \A i \in DOMAIN k : k[i] # None
Rng(s) == {s[i] : i \in DOMAIN s}
Distinct(s) == Cardinality(Rng(s)) = Len(s)

\* A declared key's target: the one selected table of the batch it names.
FkTarget(t, fk) ==
    LET named == {u \in TableIds : Tables[u].batch = Tables[t].batch /\ Tables[u].name = fk.target}
    IN  IF Cardinality(named) = 1 THEN CHOOSE u \in named : TRUE ELSE None

Declared ==
    UNION {{[source |-> t, target |-> FkTarget(t, fk), left |-> fk.left, right |-> fk.right] :
            fk \in Tables[t].fks} : t \in TableIds}

(* Mutant: the first of several target rows is taken.                      *)
UniqueAlways(t, cols) == TRUE

\* No two rows of the target share a complete key.
Unique(t, cols) ==
    \A i, j \in DOMAIN Tables[t].rows :
        LET k == KeyOf(Tables[t].rows[i], cols)
        IN  i # j /\ Whole(k) => k # KeyOf(Tables[t].rows[j], cols)

MatchedRows(c) ==
    {i \in DOMAIN Tables[c.source].rows :
        LET k == KeyOf(Tables[c.source].rows[i], c.left)
        IN  Whole(k) /\ \E j \in DOMAIN Tables[c.target].rows : KeyOf(Tables[c.target].rows[j], c.right) = k}

Joinable(c, maps) ==
    /\ c.target \in TableIds
    /\ maps[c.source].status = "mapped" /\ maps[c.target].status = "mapped"
    /\ c.left # <<>> /\ Len(c.left) = Len(c.right) /\ Distinct(c.left) /\ Distinct(c.right)
    /\ Rng(c.left) \subseteq Tables[c.source].columns /\ Rng(c.right) \subseteq Tables[c.target].columns

\* map_relations: a join is ready if it is unambiguous and matches some row.
MapRelations(maps, proposed) ==
    {[cand |-> c,
      ready |-> Joinable(c, maps) /\ Unique(c.target, c.right) /\ MatchedRows(c) # {}] :
        c \in Declared \cup proposed}

----
(* Templates.                                                              *)

\* validate_template
Valid(T) ==
    LET ids == {n.id : n \in T.nodes}
        node(id) == CHOOSE n \in T.nodes : n.id = id
        cols(id) == Tables[node(id).table].columns
    IN  /\ T.nodes # {} /\ Cardinality(ids) = Cardinality(T.nodes)
        /\ Cardinality({e.id : e \in T.edges}) = Cardinality(T.edges)
        /\ \A n \in T.nodes :
            /\ n.table \in TableIds /\ n.concept \in Concepts
            /\ n.keys \subseteq Tables[n.table].columns
            /\ Cardinality({p[2] : p \in n.props}) = Cardinality(n.props)
            /\ {p[1] : p \in n.props} \subseteq Tables[n.table].columns
            /\ \A m \in T.nodes : m.scope = n.scope =>
                m.concept = n.concept /\ Cardinality(m.keys) = Cardinality(n.keys)
        /\ \A e \in T.edges :
            /\ {e.source, e.target} \subseteq ids
            /\ IF e.mode = "same_row" THEN node(e.source).table = node(e.target).table
               ELSE /\ e.left # <<>> /\ Len(e.left) = Len(e.right) /\ Distinct(e.left) /\ Distinct(e.right)
                    /\ Rng(e.left) \subseteq cols(e.source) /\ Rng(e.right) \subseteq cols(e.target)
        /\ T.mode = "row_records" =>
            /\ T.edges = {} /\ Cardinality({n.table : n \in T.nodes}) = Cardinality(T.nodes)
            /\ \A n \in T.nodes :
                n.keys = {} /\ n.scope = <<"row", n.table>> /\ n.props = {<<c, c>> : c \in Tables[n.table].columns}

(* Mutant: groups may leave columns out.                                   *)
GroupsPartial(t, o) ==
    LET kept == {e \in o.entities : e.concept # None}
        missing == Tables[t].columns \ UNION {{p[1] : p \in e.props} : e \in kept}
        owner(e) == e.primary /\ kept = o.entities
    IN  {[e EXCEPT !.props = IF owner(e) THEN @ \cup {<<c, c>> : c \in missing} ELSE @] : e \in kept}

\* Analyzer._proposal: the groups with a concept; columns of no group go to the
\* primary object; an incomplete grouping is not used at all.
Groups(t, o) ==
    LET kept == {e \in o.entities : e.concept # None}
        missing == Tables[t].columns \ UNION {{p[1] : p \in e.props} : e \in kept}
        owner(e) == e.primary /\ kept = o.entities
        grown == {[e EXCEPT !.props = IF owner(e) THEN @ \cup {<<c, c>> : c \in missing} ELSE @] : e \in kept}
        covered == UNION {{p[1] : p \in e.props} : e \in grown}
    IN  IF kept # o.entities \/ ~(Tables[t].columns \subseteq covered) THEN {} ELSE grown

Usable(m) ==
    /\ m.status \in {"mapped", "review"} /\ m.verification \notin {"mismatch", "unavailable"}
    /\ m.concept \in Concepts

\* The node of a whole table; ignored columns are not its properties.
TableNode(t, m) ==
    [id |-> <<t>>, table |-> t, concept |-> m.concept, scope |-> <<t>>, keys |-> Tables[t].keys,
     props |-> {<<c, c>> : c \in Tables[t].columns \ m.ignored}]

GroupNodes(t, groups) ==
    IF Cardinality(groups) = 1
    THEN {[id |-> <<t>>, table |-> t, concept |-> g.concept, scope |-> <<t>>, keys |-> Tables[t].keys,
           props |-> {<<c, c>> : c \in Tables[t].columns}] : g \in groups}
    ELSE {[id |-> <<t, g.id>>, table |-> t, concept |-> g.concept, scope |-> <<t, g.id>>,
           keys |-> g.keys, props |-> g.props] : g \in groups}

GroupEdges(t, o, groups) ==
    LET local(e) == IF Cardinality(groups) = 1 THEN <<t>> ELSE <<t, e>>
        ids == {g.id : g \in groups}
    IN  {[id |-> <<t, x>>, source |-> local(x[1]), target |-> local(x[2]), mode |-> "same_row",
          left |-> <<>>, right |-> <<>>] : x \in {y \in o.edges : {y[1], y[2]} \subseteq ids}}

(* Mutant: groups replace the table's node before they are validated.      *)
SuggestUnchecked(state, t, o) ==
    LET groups == Groups(t, o)
        nodes == GroupNodes(t, groups)
        others == {n \in state.nodes : n.table # t}
    IN  IF groups = {} THEN state
        ELSE [nodes |-> others \cup nodes, suggested |-> state.suggested \cup GroupEdges(t, o, groups)]

\* One table of draft_template: valid groups that fit replace its node.
Suggest(state, t, o) ==
    LET groups == Groups(t, o)
        nodes == GroupNodes(t, groups)
        edges == GroupEdges(t, o, groups)
        others == {n \in state.nodes : n.table # t}
    IN  IF \/ groups = {}
           \/ ~Valid([nodes |-> nodes, edges |-> edges, mode |-> "suggested"])
           \/ Cardinality(others) + Cardinality(nodes) > MaxNodes
           \/ Cardinality(state.suggested) + Cardinality(edges) > MaxSuggested
        THEN state
        ELSE [nodes |-> others \cup nodes, suggested |-> state.suggested \cup edges]

JoinEdge(c) ==
    [id |-> <<c>>, source |-> <<c.source>>, target |-> <<c.target>>, mode |-> "join",
     left |-> c.left, right |-> c.right]

(* Mutant: the joins of a table that is now several objects stay.          *)
JoinEdgesOfTables(relations, nodes) ==
    {JoinEdge(r.cand) : r \in {x \in relations : x.ready}}

\* The ready joins between tables that are one object each.
JoinEdges(relations, nodes) ==
    LET ids == {n.id : n \in nodes}
    IN  {JoinEdge(r.cand) :
            r \in {x \in relations : x.ready /\ {<<x.cand.source>>, <<x.cand.target>>} \subseteq ids}}

\* draft_template, table by table in the order of the selection.
Draft(order, maps, relations, found) ==
    LET start == [nodes |-> {TableNode(t, maps[t]) : t \in {u \in TableIds : Usable(maps[u])}},
                  suggested |-> {}]
        upTo[i \in 0 .. Len(order)] ==
            IF i = 0 THEN start ELSE Suggest(upTo[i - 1], order[i], found[order[i]])
        end == upTo[Len(order)]
    IN  [nodes |-> end.nodes, edges |-> JoinEdges(relations, end.nodes) \cup end.suggested,
         confirmed |-> FALSE, mode |-> "suggested"]

\* row_record_template: every table with rows is one object per row.
RowTemplate(maps, T) ==
    LET own(t) == {n \in T.nodes : n.table = t}
        single(t) == Cardinality(own(t)) = 1 /\ \A n \in own(t) : n.concept \in Concepts
        concept(t) == IF single(t) THEN (CHOOSE n \in own(t) : TRUE).concept ELSE maps[t].concept
        taken == {t \in TableIds : Tables[t].count > 0 /\ (single(t) \/ Usable(maps[t]))}
    IN  [nodes |-> {[id |-> <<t>>, table |-> t, concept |-> concept(t), scope |-> <<"row", t>>, keys |-> {},
                     props |-> {<<c, c>> : c \in Tables[t].columns}] : t \in taken},
         edges |-> {}, confirmed |-> FALSE, mode |-> "row_records"]

----
(* Versions.                                                               *)

\* The analysis; more edges than a template can hold end it.
Analysis(order, found, proposed) ==
    LET maps == [t \in TableIds |-> found[t].map]
        relations == MapRelations(maps, proposed)
    IN  [maps |-> maps, relations |-> relations, template |-> Draft(order, maps, relations, found)]

Init ==
    \E found \in [TableIds -> UNION {Outcomes[t] : t \in TableIds}],
       proposed \in SUBSET Proposals,
       order \in {s \in [1 .. Cardinality(TableIds) -> TableIds] : Distinct(s)} :
        /\ \A t \in TableIds : found[t] \in Outcomes[t]
        /\ LET run == Analysis(order, found, proposed)
           IN  /\ failed = (Cardinality(run.template.edges) > MaxEdges)
               /\ versions = IF failed THEN <<>> ELSE <<run>>
        /\ graphs = {}

Fork(run) == Len(versions) < MaxVersions /\ versions' = Append(versions, run) /\ UNCHANGED <<failed, graphs>>

(* Mutant: an edited template stays confirmed.                             *)
EditKeepsApproval(v, t, c) ==
    LET run == versions[v]
        maps == [run.maps EXCEPT ![t].concept = c, ![t].status = "mapped", ![t].verification = "manual"]
        nodes == {IF n.id = <<t>> THEN [n EXCEPT !.concept = c] ELSE n : n \in run.template.nodes}
    IN  /\ Tables[t].count > 0
        /\ Fork([maps |-> maps,
                 relations |-> MapRelations(maps, {r.cand : r \in run.relations}),
                 template |-> [run.template EXCEPT !.nodes = nodes]])

\* revise_mapping of a table: its own node takes the concept, or is added if
\* the table has none; joins are recomputed from the same candidates.
EditTable(v, t, c) ==
    LET run == versions[v]
        maps == [run.maps EXCEPT ![t].concept = c, ![t].status = "mapped", ![t].verification = "manual"]
        added == IF \E n \in run.template.nodes : n.table = t THEN {}
                 ELSE {[TableNode(t, maps[t]) EXCEPT !.keys = {}]}
        nodes == {IF n.id = <<t>> THEN [n EXCEPT !.concept = c] ELSE n : n \in run.template.nodes \cup added}
    IN  /\ Tables[t].count > 0
        /\ Fork([maps |-> maps,
                 relations |-> MapRelations(maps, {r.cand : r \in run.relations} \ Declared),
                 template |-> [run.template EXCEPT !.nodes = nodes, !.confirmed = FALSE, !.mode = "custom"]])

\* revise_mapping of a column: only the template's approval is affected.
EditColumn(v, t) ==
    /\ Tables[t].count > 0
    /\ Fork([versions[v] EXCEPT !.template.confirmed = FALSE, !.template.mode = "custom"])

\* GraphTemplate: what a request is parsed to, before its content is looked at.
IsTemplate(T) ==
    /\ T = [nodes |-> T.nodes, edges |-> T.edges, confirmed |-> T.confirmed, mode |-> T.mode]
    /\ IsFiniteSet(T.nodes)
    /\ \A n \in T.nodes :
        n = [id |-> n.id, table |-> n.table, concept |-> n.concept, scope |-> n.scope, keys |-> n.keys, props |-> n.props]

\* The templates a reviewer may submit for a version.
Submitted(run) ==
    {T \in Changes(run.template) \cup {run.template, RowTemplate(run.maps, run.template)} : IsTemplate(T)}

\* save_template: validated and approved, or refused.
Save(v, T) ==
    /\ Valid(T) /\ Fork([versions[v] EXCEPT !.template = [T EXCEPT !.confirmed = TRUE]])

\* generate: the version as it is, if approved.
Generate(v) ==
    /\ versions[v].template.confirmed /\ graphs' = graphs \cup {v}
    /\ UNCHANGED <<versions, failed>>

\* generate with a template: adopted and compiled in one transaction.
AdoptAndGenerate(v, T) ==
    /\ Valid(T) /\ Len(versions) < MaxVersions
    /\ versions' = Append(versions, [versions[v] EXCEPT !.template = [T EXCEPT !.confirmed = TRUE]])
    /\ graphs' = graphs \cup {Len(versions')} /\ UNCHANGED failed

Next ==
    \E v \in DOMAIN versions :
        \/ \E t \in TableIds : EditColumn(v, t) \/ \E c \in Concepts : EditTable(v, t, c)
        \/ \E T \in Submitted(versions[v]) : Save(v, T) \/ AdoptAndGenerate(v, T)
        \/ Generate(v)

Spec == Init /\ [][Next]_vars

----
(* Properties.                                                             *)

\* No two objects have one name, or one scope of identity.
OwnIdentities(T) == \A n, m \in T.nodes : n.id = m.id \/ n.scope = m.scope => n = m

\* What the analysis drafts, and what that or an adopted template becomes by
\* editing mappings, can be adopted as it stands, and so can the row preset:
\* groups, joins and table objects from three sources never contradict each
\* other (templates.py:77-175).  Only objects that a reviewer let share an
\* identity may have to be reviewed again, since an edit changes one of them.
DraftIsAdoptable ==
    \A v \in DOMAIN versions :
        LET run == versions[v]
            preset == RowTemplate(run.maps, run.template)
        IN  /\ run.template.nodes # {} /\ (run.template.mode = "custom" => OwnIdentities(run.template)) =>
                    Valid(run.template)
            /\ preset.nodes # {} => Valid(preset)

\* A table shown as entity groups has every column in one of them: partial
\* grouping must not drop columns (analyzer.py:227-240).
GroupsKeepColumns ==
    \A v \in DOMAIN versions :
        \A t \in TableIds :
            LET nodes == {n \in versions[v].template.nodes : n.table = t}
            IN  versions[v].template.mode # "custom" /\ ~versions[v].template.confirmed /\ nodes # {}
                    /\ (\A n \in nodes : n.id # <<t>>) =>
                    UNION {{p[1] : p \in n.props} : n \in nodes} = Tables[t].columns

\* Drafted and recomputed joins are exact: a row is joined to at most one other,
\* and editing a concept invents no join (relations.py:116; editing.py:75).
JoinsAreExact ==
    \A v \in DOMAIN versions :
        \A r \in versions[v].relations :
            /\ r.cand \in Declared \cup Proposals
            /\ r.ready =>
                /\ MatchedRows(r.cand) # {}
                /\ \A i \in DOMAIN Tables[r.cand.source].rows :
                    LET k == KeyOf(Tables[r.cand.source].rows[i], r.cand.left)
                    IN  Whole(k) => Cardinality({j \in DOMAIN Tables[r.cand.target].rows :
                                        KeyOf(Tables[r.cand.target].rows[j], r.cand.right) = k}) <= 1

\* A graph is only made of a template a reviewer adopted over mappings that were
\* already there to be reviewed: a mapping edit never carries an earlier approval
\* over to what it changed (editing.py:27-29; docs/alignment.md:5).
GraphsAreApproved ==
    \A v \in graphs :
        /\ versions[v].template.confirmed /\ Valid(versions[v].template)
        /\ \E u \in 1 .. v - 1 : versions[u].maps = versions[v].maps
====
