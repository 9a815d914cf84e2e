---- MODULE MatchReview ----
(* One matching of a GraphRAG graph with the ontology, and its review       *)
(* (knowledge/service.py, knowledge/store.py).  The run is one JSON value   *)
(* in SQLite; every change of it is MatchStore.mutate: read, compare the    *)
(* revision, change and write under BEGIN IMMEDIATE, hence one action.      *)
(* Reviewers look at the run, decide, and send the revision they looked at. *)
(*                                                                          *)
(* Data.  A concept is a BOID, a type an ontology relation's type; a trace  *)
(* is the candidate it offers for review and whether it was confident       *)
(* enough to be taken at once.  The graph's own annotations (inherited from *)
(* the derived version it was loaded from) and the types its raw edges      *)
(* declare are inputs.  MaxRevision bounds the model, not the code.         *)
EXTENDS Integers

CONSTANTS Nodes, Edges, Source, Target, Concepts, Types, Relations,
          Graphs, Reviewers, MaxRevision, None

ASSUME MatchConstants ==
    /\ Source \in [Edges -> Nodes] /\ Target \in [Edges -> Nodes]
    /\ Relations \subseteq Concepts \X Concepts \X Types
    /\ Nodes \cap Edges = {} /\ None \notin Concepts \cup Types
    /\ Graphs \subseteq [boid : [Nodes -> Concepts \cup {None}],
                         type : [Edges -> Types \cup {None}],
                         declared : [Edges -> SUBSET Types]]
    /\ MaxRevision \in Nat \ {0}

Trace == [candidate : Concepts, confident : BOOLEAN] \cup
         {[candidate |-> None, confident |-> FALSE]}
Audit == [item : Nodes \cup Edges, action : {"review", "accept_proposal", "refresh_endpoints"}]

VARIABLES
    graph,       \* value["graph"]: never changed
    status, revision,
    nodes,       \* the nodes in value["nodes"], and their traces
    trace,
    boid,        \* of each node
    edgeType,    \* of each edge, and its candidate types; both empty until
    candidates,  \* the match is ready
    audits,      \* value["audits"], without their order and repetitions
    task,        \* the coroutine _match
    late,        \* the mutation its cancelled thread still carries out
    copy         \* what each reviewer has on the page

content == <<boid, edgeType, candidates>>
vars == <<graph, status, revision, nodes, trace, content, audits, task, late, copy>>

NoTrace == [candidate |-> None, confident |-> FALSE]
Annotations == [boid : [Nodes -> Concepts \cup {None}], edgeType : [Edges -> Types \cup {None}],
                candidates : [Edges -> SUBSET Types]]
Pages == [revision : 0 .. MaxRevision, of : Annotations]

TypeOK ==
    /\ graph \in Graphs
    /\ status \in {"running", "ready", "failed"} /\ revision \in 0 .. MaxRevision
    /\ nodes \subseteq Nodes /\ trace \in [Nodes -> Trace]
    /\ boid \in [Nodes -> Concepts \cup {None}]
    /\ edgeType \in [Edges -> Types \cup {None}]
    /\ candidates \in [Edges -> SUBSET Types]
    /\ audits \subseteq Audit
    /\ task \in {"match", "finish", "fail", "gone"} /\ late \in {"none", "match", "finish"}
    /\ copy \in [Reviewers -> Pages]
    /\ status = "ready" => revision >= 1

Shown == [boid |-> boid, edgeType |-> edgeType, candidates |-> candidates]

Init ==
    /\ graph \in Graphs
    /\ status = "running" /\ revision = 0
    /\ nodes = {} /\ trace = [n \in Nodes |-> NoTrace]
    /\ boid = [n \in Nodes |-> None]
    /\ edgeType = [e \in Edges |-> None]
    /\ candidates = [e \in Edges |-> {}]
    /\ audits = {}
    /\ task = "match" /\ late = "none"
    /\ copy = [c \in Reviewers |-> [revision |-> 0, of |-> Shown]]

----
(* edge_matches: the types the ontology has from the source's concept to    *)
(* the target's, and the one of them that would be proposed.                *)

Allowed(b, e) == {t \in Types : <<b[Source[e]], b[Target[e]], t>> \in Relations}
Only(S) == IF S = {} THEN None ELSE CHOOSE t \in S : TRUE
Exact(S, e) == LET exact == S \cap graph.declared[e]
               IN  {t \in exact : exact = {t}}

Selected(b, e) ==
    IF graph.type[e] # None THEN graph.type[e] ELSE Only(Exact(Allowed(b, e), e))

Proposed(b, e) ==
    LET S == Allowed(b, e)
    IN  IF Exact(S, e) # {} THEN Exact(S, e) ELSE {t \in S : S = {t}}

(* The concept a node starts with: inherited, or a confident candidate. *)
Matched(n, t) ==
    IF graph.boid[n] # None THEN graph.boid[n]
    ELSE IF t.confident THEN t.candidate ELSE None

----
(* The coroutine _match.                                                    *)

(* A batch of nodes is retrieved and decided, then a checkpoint stores it.  *)
Checkpoint(n, t) ==
    /\ n \notin nodes
    /\ nodes' = nodes \cup {n}
    /\ trace' = [trace EXCEPT ![n] = t]
    /\ boid' = [boid EXCEPT ![n] = Matched(n, t)]
    /\ UNCHANGED <<graph, status, revision, edgeType, candidates, audits, copy>>

MatchBatch ==
    /\ task = "match"
    /\ \E n \in Nodes, t \in Trace : Checkpoint(n, t)
    /\ task' = IF nodes' = Nodes THEN "finish" ELSE "match"
    /\ UNCHANGED late

(* The last mutate: edges, status and revision, with all of the nodes; and  *)
(* the empty audits the value was created with.                             *)
Complete ==
    /\ status' = "ready" /\ revision' = 1 /\ audits' = {}
    /\ candidates' = [e \in Edges |-> Allowed(boid, e)]
    /\ edgeType' = [e \in Edges |-> Selected(boid, e)]
    /\ UNCHANGED <<graph, nodes, trace, boid, copy>>

Finish ==
    /\ task = "finish"
    /\ Complete
    /\ task' = "gone"
    /\ UNCHANGED late

Raise ==
    /\ task \in {"match", "finish"}
    /\ task' = "fail"
    /\ UNCHANGED <<graph, status, revision, nodes, trace, content, audits, late, copy>>

Fail ==
    /\ task = "fail"
    /\ status' = "failed"
    /\ task' = "gone"
    /\ UNCHANGED <<graph, revision, nodes, trace, content, audits, late, copy>>

(* close cancels the task while asyncio.to_thread waits for a mutate: the   *)
(* thread goes on, and the failure is written before it or after it.        *)
Cancel ==
    /\ task \in {"match", "finish"}
    /\ task' = "fail"
    /\ late' = task
    /\ UNCHANGED <<graph, status, revision, nodes, trace, content, audits, copy>>

LateThread ==
    /\ \/ late = "match" /\ \E n \in Nodes, t \in Trace : Checkpoint(n, t)
       \/ late = "finish" /\ Complete
    /\ late' = "none"
    /\ UNCHANGED task

(* The process ends, anywhere; MatchStore.__init__ of the next one fails a  *)
(* run that still says running.                                             *)
Reopen ==
    /\ task' = "gone" /\ late' = "none"
    /\ status' = IF status = "running" THEN "failed" ELSE status
    /\ UNCHANGED <<graph, revision, nodes, trace, content, audits, copy>>

----
(* Reviewers.                                                               *)

Now == [revision |-> revision, of |-> Shown]
Page(c) == copy' = [copy EXCEPT ![c] = Now']

Look(c) ==
    /\ UNCHANGED <<graph, status, revision, nodes, trace, content, audits, task, late>>
    /\ Page(c)

(* Mutant: the revision the reviewer looked at is not compared. *)
MayEditAny(c) == status = "ready" /\ copy[c].revision >= 1

(* mutate's require_revision, with expected_revision >= 1, and editable.    *)
MayEdit(c) ==
    /\ status = "ready"
    /\ copy[c].revision = revision
    /\ revision >= 1

(* Mutant: only a single decision counts as a revision. *)
RevisedByReview(c, records) ==
    /\ revision < MaxRevision
    /\ revision' = IF \E r \in records : r.action = "review" THEN revision + 1 ELSE revision
    /\ audits' = audits \cup records
    /\ UNCHANGED <<graph, status, nodes, trace, task, late>>
    /\ Page(c)

(* What a mutate that changed something leaves behind. *)
Revised(c, records) ==
    /\ revision < MaxRevision
    /\ revision' = revision + 1
    /\ audits' = audits \cup records
    /\ UNCHANGED <<graph, status, nodes, trace, task, late>>
    /\ Page(c)

Touches(e, S) == Source[e] \in S \/ Target[e] \in S

(* reviewed_items, and the reviewed flag that review and acceptance set.    *)
Reviewed == {a.item : a \in {r \in audits : r.action # "refresh_endpoints"}}

(* refresh_edges: what the edges at the changed nodes become. *)
RefreshedCandidates(b, S) ==
    [e \in Edges |-> IF Touches(e, S) THEN Allowed(b, e) ELSE candidates[e]]

(* Mutant: a type that was reviewed stays, whatever its endpoints become. *)
RefreshedTypeReviewed(b, S) ==
    [e \in Edges |-> IF /\ Touches(e, S) /\ edgeType[e] \notin Allowed(b, e)
                        /\ e \notin Reviewed
                     THEN None ELSE edgeType[e]]

RefreshedType(b, S) ==
    [e \in Edges |-> IF Touches(e, S) /\ edgeType[e] \notin Allowed(b, e)
                     THEN None ELSE edgeType[e]]

ReviewNode(c, n, b) ==
    /\ MayEdit(c)
    /\ boid' = [boid EXCEPT ![n] = b]
    /\ candidates' = RefreshedCandidates(boid', {n})
    /\ edgeType' = RefreshedType(boid', {n})
    /\ Revised(c, {[item |-> n, action |-> "review"]})

ReviewEdge(c, e, t) ==
    /\ MayEdit(c)
    /\ t \in candidates[e] \cup {None}
    /\ edgeType' = [edgeType EXCEPT ![e] = t]
    /\ UNCHANGED <<boid, candidates>>
    /\ Revised(c, {[item |-> e, action |-> "review"]})

(* Mutant: what is empty is open to proposals, reviewed or not. *)
OpenNodesEmpty == {n \in Nodes : boid[n] = None /\ trace[n].candidate # None}

OpenNodes == {n \in Nodes \ Reviewed : boid[n] = None /\ trace[n].candidate # None}

(* accept_proposals: first the nodes, then the edges between their concepts.*)
Accepted == [n \in Nodes |-> IF n \in OpenNodes THEN trace[n].candidate ELSE boid[n]]
Kept == RefreshedType(Accepted, OpenNodes)
OpenEdges == {e \in Edges \ Reviewed : Kept[e] = None /\ Proposed(Accepted, e) # {}}

Records(action, items) == [item : items, action : {action}]

Accept(c) ==
    /\ MayEdit(c)
    /\ boid' = Accepted
    /\ candidates' = [e \in Edges |-> Allowed(Accepted, e)]
    /\ edgeType' = [e \in Edges |->
          IF e \in OpenEdges THEN Only(Proposed(Accepted, e)) ELSE Kept[e]]
    /\ LET reset == {e \in Edges \ OpenEdges : Kept[e] # edgeType[e]}
       IN  IF OpenNodes \cup OpenEdges \cup reset = {}
           THEN UNCHANGED <<graph, status, revision, nodes, trace, audits, task, late>>
                /\ Page(c)
           ELSE Revised(c, Records("accept_proposal", OpenNodes \cup OpenEdges)
                           \cup Records("refresh_endpoints", reset))

----
Match == MatchBatch \/ Finish \/ Raise \/ Fail \/ Cancel \/ LateThread \/ Reopen

Review(c) ==
    \/ Look(c) \/ Accept(c)
    \/ \E n \in Nodes, b \in Concepts \cup {None} : ReviewNode(c, n, b)
    \/ \E e \in Edges, t \in Types \cup {None} : ReviewEdge(c, e, t)

Next == Match \/ \E c \in Reviewers : Review(c)

Spec == Init /\ [][Next]_vars

----
(* Properties.                                                              *)

(* A revision names one content: who looked at a revision that is still the *)
(* current one has seen what there is, so comparing revisions (mutate, and  *)
(* result_graph for a derived graph) never lets anybody act on, or derive   *)
(* from, a content that is not the one they chose.                          *)
RevisionNamesContent ==
    \A c \in Reviewers :
        copy[c].revision = revision /\ revision >= 1 => copy[c].of = Shown

(* A reviewer's change applies to what the reviewer had on the page.        *)
NobodyIsOverwritten ==
    [][revision >= 1 /\ content' # content =>
        \E c \in Reviewers : copy[c].of = Shown /\ copy'[c].of = Shown']_vars

(* A ready match has every node and checked every edge, and each edge's     *)
(* candidates belong to the concepts its endpoints have now.                *)
CandidatesFollow ==
    status = "ready" => nodes = Nodes /\ \A e \in Edges : candidates[e] = Allowed(boid, e)

(* Once somebody has decided on an endpoint, the edge has a type that the   *)
(* ontology has from source to target, or none; before that, at most the    *)
(* type it came with (docs/knowledge-workflow.md: after a BOID was changed, *)
(* the types of the edges at the node are checked again).                   *)
EdgesStayTyped ==
    \A e \in Edges :
        edgeType[e] # None =>
            \/ edgeType[e] \in Allowed(boid, e)
            \/ edgeType[e] = graph.type[e] /\ {Source[e], Target[e]} \cap Reviewed = {}

(* A relation the ontology has is not taken for a fact: without a decision  *)
(* on the edge, its type is the one it came with or its raw edge declares.  *)
NothingIsInvented ==
    \A e \in Edges \ Reviewed :
        edgeType[e] # None => edgeType[e] \in {graph.type[e]} \cup graph.declared[e]

(* What a person decided, clearing included, is only changed by another     *)
(* decision on it; an edge also loses a type its endpoints no longer allow. *)
Decided == {a.item : a \in {r \in audits : r.action = "review"}}
DecisionsStand ==
    [][/\ \A n \in Nodes \cap Decided : boid'[n] # boid[n] =>
            \E c \in Reviewers, b \in Concepts \cup {None} : ReviewNode(c, n, b)
       /\ \A e \in Edges \cap Decided : edgeType'[e] \notin {edgeType[e], None} =>
            \E c \in Reviewers, t \in Types : ReviewEdge(c, e, t)]_vars
====
