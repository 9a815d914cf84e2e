---- MODULE RuleTraversal ----
(* Which WHY sources apply to an anchor concept, and which concepts an     *)
(* approved rule may be executed on (risk/catalog.py, risk/propagation.py).*)
(* The catalogue of one revision is built from an ontology export; the     *)
(* label-correcting search of propagate() then runs over it, one popped    *)
(* label per step.  A label is the cost of a walk from the anchor: the     *)
(* weakest strength on it, its relation hops and its IS_A hops.  Routes    *)
(* only break ties between equal costs and are left out.                   *)
EXTENDS Integers, FiniteSets, FiniteSetsExt

CONSTANTS
    Exports,        \* the exports a catalogue may be built from
    Revision,       \* the revision the catalogue is pinned to
    Anchor,         \* anchor_node_id
    Depths,         \* values of max_depth
    MaxCandidates,  \* max_candidates
    None

\* An export is a document: it ends, and its concepts' keys are in an order
\* (numbers stand for them).
TraversalAssumption ==
    /\ Depths \subseteq Nat /\ MaxCandidates \in Nat \ {0}
    /\ \A e \in Exports : IsFiniteSet(e.nodes) /\ \A n \in e.nodes : n.id \in Nat

VARIABLES
    export,     \* [nodes, edges]: what the ontology service exported
    maxDepth,   \* the request's max_depth
    pc,         \* "load", "search", "done" or "refused"
    graph,      \* ConceptGraph: nodes, why, is_a and relations
    best,       \* state <<node, worst, relation hops>> -> fewest IS_A hops
    heap,       \* labels to expand
    blocked     \* depth_blocked

vars == <<export, maxDepth, pc, graph, best, heap, blocked>>

----
(* The catalogue.                                                          *)

\* Nodes of the pinned revision, by their exported keys.
Own(e) == {n \in e.nodes : n.revision = Revision}

KeyOf(n) == <<n.revision, n.id>>

\* What makes RiskCatalog refuse an export: a WHY whose supplied hash is not
\* its own, or a relationship of this revision that leaves it.
Consistent(e) ==
    /\ \A n \in Own(e) : n.hash # None => n.hash = n.why
    /\ \A r \in e.edges : r.revision = Revision =>
            {r.start, r.end} \subseteq {KeyOf(n) : n \in Own(e)}

\* The pinned graph: other revisions are not part of it, and a relation of a
\* concept to itself transmits nothing.
Pinned(e) ==
    LET mine == {r \in e.edges : r.revision = Revision}
    IN  [nodes |-> {n.id : n \in Own(e)},
         why   |-> {n.id : n \in {k \in Own(e) : k.why # None}},
         isA   |-> {<<r.start[2], r.end[2]>> : r \in {q \in mine : q.type = "is_a"}},
         rel   |-> {<<r.type, r.start[2], r.end[2]>> :
                        r \in {q \in mine : q.type # "is_a" /\ q.start # q.end}}]

----
(* The rule flow.                                                          *)

Strength == [deductive |-> 0, strong |-> 1, weak |-> 2]

\* RELATION_RULE_FLOW: strength from source to target and back; a relation
\* that is not registered transmits nothing either way.
Flow(relation) ==
    CASE relation \in {"inheres_in", "continuant_part_of", "occurrent_part_of"} ->
            [forward |-> "strong", reverse |-> None]
      [] relation = "has_participant" -> [forward |-> "strong", reverse |-> "weak"]
      [] relation = "preceded_by" -> [forward |-> None, reverse |-> "weak"]
      [] relation \in {"located_in", "derives_from"} -> [forward |-> None, reverse |-> "strong"]
      [] OTHER -> [forward |-> None, reverse |-> None]

\* _neighbors: up to the parents of a node, back along the relations into it
\* that flow forward, out along those that flow in reverse.
Neighbors(g, n) ==
    {[node |-> e[2], hop |-> 0, strength |-> 0] : e \in {x \in g.isA : x[1] = n}} \cup
    {[node |-> r[2], hop |-> 1, strength |-> Strength[Flow(r[1]).forward]] :
        r \in {x \in g.rel : x[3] = n /\ Flow(x[1]).forward # None}} \cup
    {[node |-> r[3], hop |-> 1, strength |-> Strength[Flow(r[1]).reverse]] :
        r \in {x \in g.rel : x[2] = n /\ Flow(x[1]).reverse # None}}

----
(* The search.                                                             *)

\* A label <<worst, relation hops, is_a hops, node>>.
Cheaper(a, b) ==
    \/ a[1] < b[1]
    \/ a[1] = b[1] /\ a[2] < b[2]
    \/ a[1] = b[1] /\ a[2] = b[2] /\ a[3] < b[3]

Extend(label, e) ==
    <<Max({label[1], e.strength}), label[2] + e.hop, label[3] + 1 - e.hop, e.node>>

(* Mutant: labels are kept per node and strength, not per relation depth.  *)
StateShallow(label) == <<label[4], label[1], 0>>

\* What a label competes for.
State(label) == <<label[4], label[1], label[2]>>

Improves(label) == State(label) \notin DOMAIN best \/ label[3] < best[State(label)]

Init ==
    /\ export \in Exports /\ maxDepth \in Depths
    /\ pc = "load" /\ graph = None
    /\ best = <<>> /\ heap = {} /\ blocked = {}

\* RiskCatalog(content, revision), and the anchor's own label.
Load ==
    /\ pc = "load"
    /\ IF Consistent(export) /\ Anchor \in Pinned(export).nodes
       THEN /\ pc' = "search" /\ graph' = Pinned(export)
            /\ heap' = {<<0, 0, 0, Anchor>>}
            /\ best' = [s \in {State(<<0, 0, 0, Anchor>>)} |-> 0]
       ELSE pc' = "refused" /\ UNCHANGED <<graph, heap, best>>
    /\ UNCHANGED <<export, maxDepth, blocked>>

\* heappop: a label no other is cheaper than.
Pop(label) == label \in heap /\ \A other \in heap : ~Cheaper(other, label)

\* A label that was improved since it was pushed.
Skip(label) ==
    /\ pc = "search" /\ Pop(label) /\ best[State(label)] # label[3]
    /\ heap' = heap \ {label}
    /\ UNCHANGED <<export, maxDepth, pc, graph, best, blocked>>

(* Mutant: a relation beyond max_depth is skipped without a mark.          *)
ExpandSilently(label) ==
    LET next == {Extend(label, e) : e \in {x \in Neighbors(graph, label[4]) :
                                            x.hop = 0 \/ label[2] # maxDepth}}
        better == {l \in next : Improves(l)}
    IN
    /\ pc = "search" /\ Pop(label) /\ best[State(label)] = label[3]
    /\ best' = [s \in DOMAIN best \cup {State(l) : l \in better} |->
                    IF \E l \in better : State(l) = s
                    THEN Min({l[3] : l \in {x \in better : State(x) = s}})
                    ELSE best[s]]
    /\ heap' = (heap \ {label}) \cup better
    /\ UNCHANGED <<export, maxDepth, pc, graph, blocked>>

\* The label's neighbours are reached, or blocked by the depth.
Expand(label) ==
    LET around == Neighbors(graph, label[4])
        over == {e \in around : e.hop = 1 /\ label[2] = maxDepth}
        better == {l \in {Extend(label, e) : e \in around \ over} : Improves(l)}
    IN
    /\ pc = "search" /\ Pop(label) /\ best[State(label)] = label[3]
    /\ best' = [s \in DOMAIN best \cup {State(l) : l \in better} |->
                    IF \E l \in better : State(l) = s
                    THEN Min({l[3] : l \in {x \in better : State(x) = s}})
                    ELSE best[s]]
    /\ heap' = (heap \ {label}) \cup better
    /\ blocked' = blocked \cup {e.node : e \in over}
    /\ UNCHANGED <<export, maxDepth, pc, graph>>

Finish ==
    /\ pc = "search" /\ heap = {}
    /\ pc' = "done"
    /\ UNCHANGED <<export, maxDepth, graph, best, heap, blocked>>

Next == Load \/ (\E label \in heap : Skip(label) \/ Expand(label)) \/ Finish

Spec == Init /\ [][Next]_vars

----
(* What propagate and derive_bo_scope return.                              *)

\* by_node: the cheapest label of every node reached.
Reached == {s[1] : s \in DOMAIN best}

LabelsOf(n) == {<<s[2], s[3], best[s]>> : s \in {x \in DOMAIN best : x[1] = n}}

CostOf(n) == CHOOSE c \in LabelsOf(n) : \A d \in LabelsOf(n) : ~Cheaper(d, c)

\* The order of the sources: by cost, then by key.
Before(a, b) ==
    \/ Cheaper(CostOf(a), CostOf(b))
    \/ CostOf(a) = CostOf(b) /\ a < b

(* Mutant: the sources are cut by key.                                     *)
CandidatesByKey ==
    LET sources == Reached \cap graph.why
    IN  {n \in sources : Cardinality({s \in sources : s < n}) < MaxCandidates}

\* The sources that come before the cut at max_candidates.
Candidates ==
    LET sources == Reached \cap graph.why
    IN  {n \in sources : Cardinality({s \in sources : Before(s, n)}) < MaxCandidates}

TruncatedByDepth == blocked \ Reached # {}

(* Mutant: the scope stops at the children.                                *)
ScopeOfChildren(g, n) == {n} \cup {e[1] : e \in {x \in g.isA : x[2] = n}}

\* derive_bo_scope: the anchor and all its IS_A descendants, by levels.
Scope(g, n) ==
    LET level[k \in 0..Cardinality(g.nodes)] ==
            IF k = 0 THEN {n}
            ELSE level[k - 1] \cup {e[1] : e \in {x \in g.isA : x[2] \in level[k - 1]}}
    IN  level[Cardinality(g.nodes)]

----
(* Reference: the walks themselves.                                        *)

\* Costs of all walks of at most k edges from the anchor that stay within
\* the depth.
WalksUpTo(k, depth) ==
    LET walk[i \in 0..k] ==
            IF i = 0 THEN {<<0, 0, 0, Anchor>>}
            ELSE walk[i - 1] \cup
                 UNION {{l \in {Extend(w, e) : e \in Neighbors(graph, w[4])} : l[2] <= depth} :
                            w \in walk[i - 1]}
    IN  walk[k]

\* Cutting a cycle out of a walk raises none of its costs, so the best walk
\* to a node visits no node twice.
LongestNeeded == Cardinality(graph.nodes) - 1

\* Every source is found with the strength, relation depth and IS_A hops of
\* the best walk to it within max_depth, no other node is reached, and what
\* max_candidates cuts is never stronger than what is kept: a weaker or
\* longer prefix is never dropped too early (docstring of propagate).
StrongestPath ==
    pc = "done" =>
        LET walks == WalksUpTo(LongestNeeded, maxDepth) IN
        /\ Reached = {w[4] : w \in walks}
        /\ \A n \in Reached : \E w \in walks : w[4] = n /\ <<w[1], w[2], w[3]>> = CostOf(n)
        /\ \A w \in walks : ~Cheaper(w, CostOf(w[4]))
        /\ \A n \in (Reached \cap graph.why) \ Candidates :
                /\ Cardinality(Candidates) = MaxCandidates
                /\ \A k \in Candidates : ~Cheaper(CostOf(n), CostOf(k))

\* truncated_by_depth is exact: it is raised if and only if some concept that
\* rules flow from was missed because of max_depth (_generate takes it for
\* the completeness of the job).
DepthIsTold ==
    pc = "done" =>
        LET free == {w[4] : w \in WalksUpTo(LongestNeeded, LongestNeeded)}
        IN  TruncatedByDepth <=> free # Reached

\* The two traversals agree: the WHY of a concept holds for the anchor by
\* deduction alone exactly if the anchor lies in the scope on which a rule of
\* that concept would be executed (propagate up, derive_bo_scope down).
ScopeInheritsWhy ==
    pc = "done" =>
        \A n \in graph.nodes :
            Anchor \in Scope(graph, n) <=> n \in Reached /\ CostOf(n)[1] = 0 /\ CostOf(n)[2] = 0
====
