---- MODULE ReviewProofs ----
(* Proofs about MatchReview, ResolutionRuns, ResolutionEngine and           *)
(* CandidateRecall, for every graph, ontology and corpus, and every number  *)
(* of reviewers, runs, workers, requests and revisions.                     *)
EXTENDS MCReview, Sequences, FiniteSets, FiniteSetTheorems, WellFoundedInduction, TLAPS

(* Knowledge matching and its review.                                       *)

(* Nothing is annotated or reviewed before the match is complete, and only  *)
(* an unfinished match is completed, with all of its nodes.                 *)
Stages ==
    /\ task \in {"match", "finish"} => revision = 0 /\ late = "none"
    /\ late # "none" => revision = 0
    /\ status = "ready" => nodes = Nodes
    /\ "finish" \in {task, late} => nodes = Nodes
    /\ revision = 0 => audits = {} /\ \A e \in Edges : edgeType[e] = None

(* No page is newer than the run. *)
PagesAreOld == \A c \in Reviewers : copy[c].revision <= revision

Inv ==
    /\ TypeOK
    /\ Stages
    /\ PagesAreOld
    /\ RevisionNamesContent
    /\ CandidatesFollow
    /\ EdgesStayTyped
    /\ NothingIsInvented

(* What the action properties say of a step. *)
NobodyOverwritten ==
    revision >= 1 /\ content' # content =>
        \E c \in Reviewers : copy[c].of = Shown /\ copy'[c].of = Shown'

DecisionsKept ==
    /\ \A n \in Nodes \cap Decided : boid'[n] # boid[n] =>
          \E c \in Reviewers, b \in Concepts \cup {None} : ReviewNode(c, n, b)
    /\ \A e \in Edges \cap Decided : edgeType'[e] \notin {edgeType[e], None} =>
          \E c \in Reviewers, t \in Types : ReviewEdge(c, e, t)

Effect == NobodyOverwritten /\ DecisionsKept

----
(* Only, Exact, Selected and Proposed choose among the types given to them. *)

LEMMA OnlyFrom ==
    ASSUME NEW S, S \subseteq Types
    PROVE  /\ Only(S) \in Types \cup {None}
           /\ Only(S) # None => Only(S) \in S
BY DEF Only

LEMMA SelectedFrom ==
    ASSUME TypeOK, NEW b, NEW e \in Edges
    PROVE  /\ Selected(b, e) \in Types \cup {None}
           /\ Selected(b, e) # None =>
                 \/ Selected(b, e) = graph.type[e]
                 \/ Selected(b, e) \in Allowed(b, e) \cap graph.declared[e]
<1>1. graph.type[e] \in Types \cup {None}
  BY MatchConstants DEF TypeOK
<1>2. Exact(Allowed(b, e), e) \subseteq Allowed(b, e) \cap graph.declared[e]
  BY DEF Exact
<1>3. Exact(Allowed(b, e), e) \subseteq Types
  BY <1>2 DEF Allowed
<1>. DEFINE S == Exact(Allowed(b, e), e)
<1>4. /\ Only(S) \in Types \cup {None}
      /\ Only(S) # None => Only(S) \in S
  BY <1>3, OnlyFrom
<1>. HIDE DEF S
<1>5. S \subseteq Allowed(b, e) \cap graph.declared[e]
  BY <1>2 DEF S
<1>6. Selected(b, e) = IF graph.type[e] # None THEN graph.type[e] ELSE Only(S)
  BY DEF Selected, S
<1>. QED
  BY <1>1, <1>4, <1>5, <1>6

LEMMA ProposedFrom ==
    ASSUME NEW b, NEW e \in Edges
    PROVE  Proposed(b, e) \subseteq Allowed(b, e) /\ Allowed(b, e) \subseteq Types
BY DEF Proposed, Exact, Allowed

(* A node's concept, and a type two unchanged concepts allow.               *)
LEMMA MatchedFrom ==
    ASSUME TypeOK, NEW n \in Nodes, NEW t \in Trace
    PROVE  Matched(n, t) \in Concepts \cup {None}
<1>1. graph.boid[n] \in Concepts \cup {None}
  BY MatchConstants DEF TypeOK
<1>. QED
  BY <1>1 DEF Matched, Trace

LEMMA SameAllowed ==
    ASSUME NEW a, NEW b, NEW e \in Edges, a[Source[e]] = b[Source[e]], a[Target[e]] = b[Target[e]]
    PROVE  Allowed(a, e) = Allowed(b, e)
BY DEF Allowed

LEMMA InitInv == Init => Inv
<1>. SUFFICES ASSUME Init PROVE Inv
  OBVIOUS
<1>1. TypeOK
  BY MatchConstants DEF Init, TypeOK, Pages, Annotations, Shown, Trace, NoTrace
<1>. QED
  BY <1>1 DEF Init, Inv, Stages, PagesAreOld, RevisionNamesContent, CandidatesFollow,
              EdgesStayTyped, NothingIsInvented, Shown

----
(* The steps of the match.                                                  *)

(* Steps that leave the run's content, audits and pages as they are. *)
LEMMA QuietInv ==
    ASSUME Inv, UNCHANGED <<graph, revision, nodes, trace, content, audits, copy>>,
           status' = "ready" => status = "ready", TypeOK', Stages'
    PROVE  Inv' /\ Effect
<1>. USE DEF content
<1>1. Shown' = Shown
  BY DEF Shown
<1>2. \A e \in Edges : Allowed(boid', e) = Allowed(boid, e)
  BY DEF Allowed
<1>3. Reviewed' = Reviewed
  BY DEF Reviewed
<1>4. Inv'
  BY <1>1, <1>2, <1>3
     DEF Inv, PagesAreOld, RevisionNamesContent, CandidatesFollow, EdgesStayTyped, NothingIsInvented
<1>5. Effect
  BY DEF Effect, NobodyOverwritten, DecisionsKept
<1>. QED
  BY <1>4, <1>5

LEMMA RaiseInv ==
    ASSUME Inv, Raise
    PROVE  Inv' /\ Effect
<1>1. TypeOK'
  BY DEF Inv, TypeOK, Raise, content
<1>2. Stages'
  BY DEF Inv, Stages, Raise, content
<1>. QED
  BY <1>1, <1>2, QuietInv DEF Raise

LEMMA FailInv ==
    ASSUME Inv, Fail
    PROVE  Inv' /\ Effect
<1>1. TypeOK'
  BY DEF Inv, TypeOK, Fail, content
<1>2. Stages'
  BY DEF Inv, Stages, Fail, content
<1>. QED
  BY <1>1, <1>2, QuietInv DEF Fail

LEMMA CancelInv ==
    ASSUME Inv, Cancel
    PROVE  Inv' /\ Effect
<1>1. TypeOK'
  BY DEF Inv, TypeOK, Cancel, content
<1>2. Stages'
  BY DEF Inv, Stages, Cancel, content
<1>. QED
  BY <1>1, <1>2, QuietInv DEF Cancel

LEMMA ReopenInv ==
    ASSUME Inv, Reopen
    PROVE  Inv' /\ Effect
<1>1. TypeOK'
  BY DEF Inv, TypeOK, Reopen, content
<1>2. Stages'
  BY DEF Inv, Stages, Reopen, content
<1>. QED
  BY <1>1, <1>2, QuietInv DEF Reopen

(* A checkpoint, in time or late: the run has no revision yet. *)
LEMMA CheckpointInv ==
    ASSUME Inv, NEW n \in Nodes, NEW t \in Trace, Checkpoint(n, t), "match" \in {task, late},
           task' = task \/ (task = "match" /\ task' = "finish" /\ nodes' = Nodes),
           late' = late \/ (late = "match" /\ late' = "none")
    PROVE  Inv' /\ Effect
<1>1. revision = 0 /\ revision' = 0 /\ audits = {} /\ audits' = {} /\ status' = status
  BY DEF Inv, Stages, Checkpoint
<1>2. status # "ready"
  BY <1>1 DEF Inv, TypeOK
<1>3. TypeOK'
  <2>1. Matched(n, t) \in Concepts \cup {None}
    BY MatchedFrom DEF Inv
  <2>. QED
    BY <2>1 DEF Inv, TypeOK, Checkpoint
<1>4. Stages'
  BY <1>1, <1>2 DEF Inv, TypeOK, Stages, Checkpoint
<1>5. PagesAreOld'
  BY DEF Inv, PagesAreOld, Checkpoint
<1>6. RevisionNamesContent' /\ CandidatesFollow'
  BY <1>1, <1>2 DEF RevisionNamesContent, CandidatesFollow
<1>7. EdgesStayTyped' /\ NothingIsInvented'
  BY <1>1, <1>4 DEF EdgesStayTyped, NothingIsInvented, Stages
<1>8. Effect
  BY <1>1 DEF Effect, NobodyOverwritten, DecisionsKept, Decided
<1>. QED
  BY <1>3, <1>4, <1>5, <1>6, <1>7, <1>8 DEF Inv

(* The completion, in time or late. *)
LEMMA CompleteInv ==
    ASSUME Inv, Complete, "finish" \in {task, late}, "finish" \notin {task', late'},
           task' = "gone" \/ task' = task, late' = "none" \/ late' = late
    PROVE  Inv' /\ Effect
<1>1. /\ revision = 0 /\ revision' = 1 /\ audits = {} /\ audits' = {}
      /\ status' = "ready" /\ nodes = Nodes
  BY DEF Inv, Stages, Complete
<1>2. /\ candidates' = [e \in Edges |-> Allowed(boid, e)]
      /\ edgeType' = [e \in Edges |-> Selected(boid, e)]
      /\ boid' = boid /\ graph' = graph /\ nodes' = nodes /\ trace' = trace /\ copy' = copy
  BY DEF Complete
<1>3. TypeOK'
  <2>1. edgeType' \in [Edges -> Types \cup {None}]
    BY <1>2, SelectedFrom DEF Inv
  <2>2. candidates' \in [Edges -> SUBSET Types]
    BY <1>2, ProposedFrom
  <2>3. MaxRevision >= 1 /\ MaxRevision \in Nat
    BY MatchConstants
  <2>. QED
    BY <1>1, <1>2, <2>1, <2>2, <2>3 DEF Inv, TypeOK
<1>4. Stages'
  BY <1>1, <1>2 DEF Inv, TypeOK, Stages
<1>5. \A c \in Reviewers : copy[c].revision = 0
  BY <1>1 DEF Inv, TypeOK, PagesAreOld, Pages
<1>6. PagesAreOld' /\ RevisionNamesContent'
  BY <1>1, <1>2, <1>5 DEF PagesAreOld, RevisionNamesContent
<1>7. CandidatesFollow'
  BY <1>1, <1>2 DEF CandidatesFollow
<1>8. EdgesStayTyped' /\ NothingIsInvented'
  <2>1. Reviewed' = {}
    BY <1>1 DEF Reviewed
  <2>. QED
    BY <1>2, <2>1, SelectedFrom DEF Inv, EdgesStayTyped, NothingIsInvented
<1>9. Effect
  BY <1>1 DEF Effect, NobodyOverwritten, DecisionsKept, Decided
<1>. QED
  BY <1>3, <1>4, <1>6, <1>7, <1>8, <1>9 DEF Inv

LEMMA MatchInv ==
    ASSUME Inv, Match
    PROVE  Inv' /\ Effect
<1>1. CASE MatchBatch
  <2>1. PICK n \in Nodes, t \in Trace : Checkpoint(n, t)
    BY <1>1 DEF MatchBatch
  <2>. QED
    BY <1>1, <2>1, CheckpointInv DEF MatchBatch
<1>2. CASE Finish
  BY <1>2, CompleteInv DEF Finish, Inv, Stages
<1>3. CASE LateThread
  <2>1. CASE late = "match"
    <3>1. PICK n \in Nodes, t \in Trace : Checkpoint(n, t)
      BY <1>3, <2>1 DEF LateThread
    <3>. QED
      BY <1>3, <2>1, <3>1, CheckpointInv DEF LateThread
  <2>2. CASE late = "finish"
    <3>1. task # "finish"
      BY <2>2 DEF Inv, Stages
    <3>. QED
      BY <1>3, <2>2, <3>1, CompleteInv DEF LateThread
  <2>. QED
    BY <1>3, <2>1, <2>2 DEF LateThread
<1>. QED
  BY <1>1, <1>2, <1>3, RaiseInv, FailInv, CancelInv, ReopenInv DEF Match

----
(* The steps of reviewers.                                                  *)

Typed ==
    /\ boid \in [Nodes -> Concepts \cup {None}]
    /\ edgeType \in [Edges -> Types \cup {None}]
    /\ candidates \in [Edges -> SUBSET Types]

(* A ready match that somebody may change: its page is what there is. *)
LEMMA MayEditSees ==
    ASSUME Inv, NEW c \in Reviewers, MayEdit(c)
    PROVE  /\ status = "ready" /\ revision >= 1 /\ copy[c].of = Shown
           /\ task \notin {"match", "finish"} /\ late = "none"
           /\ \A e \in Edges : candidates[e] = Allowed(boid, e)
BY DEF Inv, MayEdit, Stages, RevisionNamesContent, CandidatesFollow, TypeOK

(* A page that is taken after a step shows what the step left.              *)
LEMMA PageShows ==
    ASSUME TypeOK, Typed', revision' \in 0 .. MaxRevision, NEW c \in Reviewers, Page(c)
    PROVE  /\ copy' \in [Reviewers -> Pages]
           /\ copy'[c].revision = revision' /\ copy'[c].of = Shown'
           /\ \A d \in Reviewers \ {c} : copy'[d] = copy[d]
<1>1. Now' = [revision |-> revision', of |-> Shown']
  BY DEF Now
<1>2. Shown' \in Annotations
  BY DEF Typed, Shown, Annotations
<1>3. Now' \in Pages
  BY <1>1, <1>2 DEF Pages
<1>4. copy' = [copy EXCEPT ![c] = Now'] /\ copy \in [Reviewers -> Pages]
  BY DEF Page, TypeOK
<1>. HIDE DEF Now, Shown
<1>. QED
  BY <1>1, <1>3, <1>4

LEMMA LookInv ==
    ASSUME Inv, NEW c \in Reviewers, Look(c)
    PROVE  Inv' /\ Effect
<1>. USE DEF content
<1>1. UNCHANGED <<graph, status, revision, nodes, trace, boid, edgeType, candidates, audits,
                  task, late>> /\ Page(c)
  BY DEF Look
<1>2. TypeOK /\ Typed' /\ revision' \in 0 .. MaxRevision
  BY <1>1 DEF Inv, TypeOK, Typed
<1>3. /\ copy' \in [Reviewers -> Pages]
      /\ copy'[c].revision = revision' /\ copy'[c].of = Shown'
      /\ \A d \in Reviewers \ {c} : copy'[d] = copy[d]
  BY <1>1, <1>2, PageShows
<1>4. Shown' = Shown /\ Reviewed' = Reviewed /\ \A e \in Edges : Allowed(boid', e) = Allowed(boid, e)
  BY <1>1 DEF Shown, Reviewed, Allowed
<1>5. TypeOK'
  BY <1>1, <1>3 DEF Inv, TypeOK
<1>6. Stages' /\ CandidatesFollow' /\ EdgesStayTyped' /\ NothingIsInvented'
  BY <1>1, <1>4 DEF Inv, Stages, CandidatesFollow, EdgesStayTyped, NothingIsInvented
<1>7. PagesAreOld' /\ RevisionNamesContent'
  BY <1>1, <1>2, <1>3, <1>4 DEF Inv, PagesAreOld, RevisionNamesContent
<1>8. Effect
  BY <1>1 DEF Effect, NobodyOverwritten, DecisionsKept
<1>. QED
  BY <1>5, <1>6, <1>7, <1>8 DEF Inv

(* A change that becomes a revision: what is left to show is what it makes  *)
(* of the edges.                                                            *)
LEMMA RevisedInv ==
    ASSUME Inv, NEW c \in Reviewers, MayEdit(c),
           NEW stored \in SUBSET Audit, Revised(c, stored), Typed',
           CandidatesFollow', EdgesStayTyped', NothingIsInvented'
    PROVE  Inv' /\ NobodyOverwritten
<1>1. /\ revision' = revision + 1 /\ revision < MaxRevision
      /\ audits' = audits \cup stored
      /\ UNCHANGED <<graph, status, nodes, trace, task, late>> /\ Page(c)
  BY DEF Revised
<1>2. /\ status = "ready" /\ revision >= 1 /\ copy[c].of = Shown
      /\ task \notin {"match", "finish"} /\ late = "none"
  BY MayEditSees
<1>3. revision \in 0 .. MaxRevision /\ MaxRevision \in Nat /\ revision' \in 0 .. MaxRevision
  BY <1>1, MatchConstants DEF Inv, TypeOK
<1>4. /\ copy' \in [Reviewers -> Pages]
      /\ copy'[c].revision = revision' /\ copy'[c].of = Shown'
      /\ \A d \in Reviewers \ {c} : copy'[d] = copy[d]
  BY <1>1, <1>3, PageShows DEF Inv
<1>5. TypeOK'
  BY <1>1, <1>2, <1>3, <1>4 DEF Inv, TypeOK, Typed
<1>6. Stages'
  BY <1>1, <1>2, <1>3 DEF Inv, Stages
<1>7. \A d \in Reviewers : copy[d].revision \in 0 .. MaxRevision /\ copy[d].revision <= revision
  BY DEF Inv, TypeOK, Pages, PagesAreOld
<1>8. PagesAreOld'
  <2>. SUFFICES ASSUME NEW d \in Reviewers PROVE copy'[d].revision <= revision'
    BY DEF PagesAreOld
  <2>. QED
    BY <1>1, <1>3, <1>4, <1>7
<1>9. RevisionNamesContent'
  <2>. SUFFICES ASSUME NEW d \in Reviewers, copy'[d].revision = revision'
                PROVE  copy'[d].of = Shown'
    BY DEF RevisionNamesContent
  <2>. QED
    BY <1>1, <1>3, <1>4, <1>7
<1>10. NobodyOverwritten
  BY <1>2, <1>4 DEF NobodyOverwritten
<1>. QED
  BY <1>5, <1>6, <1>8, <1>9, <1>10 DEF Inv

(* Records of a decision add exactly its item to what has been reviewed. *)
LEMMA ReviewedGrows ==
    ASSUME NEW stored \in SUBSET Audit, audits' = audits \cup stored
    PROVE  Reviewed' = Reviewed \cup
              {a.item : a \in {r \in stored : r.action # "refresh_endpoints"}}
BY DEF Reviewed

LEMMA OneReview ==
    ASSUME NEW i
    PROVE  {a.item : a \in {r \in {[item |-> i, action |-> "review"]} :
                               r.action # "refresh_endpoints"}} = {i}
<1>. DEFINE record == [item |-> i, action |-> "review"]
<1>1. record.item = i /\ record.action = "review"
  OBVIOUS
<1>. HIDE DEF record
<1>2. {r \in {record} : r.action # "refresh_endpoints"} = {record}
  BY <1>1
<1>3. {a.item : a \in {record}} = {i}
  BY <1>1
<1>. QED
  BY <1>2, <1>3, Zenon DEF record

LEMMA AcceptRecords ==
    ASSUME NEW S, NEW rel
    PROVE  {a.item : a \in {r \in Records("accept_proposal", S)
                                     \cup Records("refresh_endpoints", rel) :
                               r.action # "refresh_endpoints"}} = S
<1>. DEFINE P == Records("accept_proposal", S)
            Q == Records("refresh_endpoints", rel)
<1>1. \A r \in P : r.action # "refresh_endpoints" /\ r.item \in S
  BY DEF Records
<1>2. \A r \in Q : r.action = "refresh_endpoints"
  BY DEF Records
<1>3. \A x \in S : [item |-> x, action |-> "accept_proposal"] \in P
  BY DEF Records
<1>4. \A x \in S : \E r \in P : r.item = x
  <2>. SUFFICES ASSUME NEW x \in S PROVE \E r \in P : r.item = x
    OBVIOUS
  <2>1. [item |-> x, action |-> "accept_proposal"].item = x
    OBVIOUS
  <2>. HIDE DEF P
  <2>. QED
    BY <1>3, <2>1
<1>. HIDE DEF P, Q
<1>5. {r \in P \cup Q : r.action # "refresh_endpoints"} = P
  BY <1>1, <1>2
<1>6. {a.item : a \in P} = S
  BY <1>1, <1>4
<1>. QED
  BY <1>5, <1>6, Zenon DEF P, Q

LEMMA RefreshedFrom ==
    ASSUME TypeOK, NEW b, NEW S, NEW e \in Edges
    PROVE  /\ RefreshedType(b, S)[e] \in {edgeType[e], None}
           /\ Touches(e, S) /\ RefreshedType(b, S)[e] # None =>
                 RefreshedType(b, S)[e] \in Allowed(b, e)
BY DEF RefreshedType

LEMMA ReviewNodeInv ==
    ASSUME Inv, NEW c \in Reviewers, NEW n \in Nodes, NEW b \in Concepts \cup {None},
           ReviewNode(c, n, b)
    PROVE  Inv' /\ Effect
<1>. DEFINE stored == {[item |-> n, action |-> "review"]}
<1>1. /\ MayEdit(c) /\ boid' = [boid EXCEPT ![n] = b]
      /\ candidates' = RefreshedCandidates(boid', {n})
      /\ edgeType' = RefreshedType(boid', {n})
      /\ Revised(c, stored)
  BY DEF ReviewNode
<1>2. stored \in SUBSET Audit
  BY DEF Audit
<1>3. graph' = graph /\ nodes' = nodes /\ status' = status /\ audits' = audits \cup stored
  BY <1>1 DEF Revised
<1>4. \A e \in Edges : Touches(e, {n}) \/ Allowed(boid', e) = Allowed(boid, e)
  <2>. TAKE e \in Edges
  <2>1. Source[e] \in Nodes /\ Target[e] \in Nodes
    BY MatchConstants
  <2>2. SUFFICES ASSUME ~Touches(e, {n}) PROVE Allowed(boid', e) = Allowed(boid, e)
    OBVIOUS
  <2>3. boid'[Source[e]] = boid[Source[e]] /\ boid'[Target[e]] = boid[Target[e]]
    BY <1>1, <2>1, <2>2 DEF Touches, Inv, TypeOK
  <2>. QED
    BY <2>3, SameAllowed
<1>5. Typed'
  <2>1. boid' \in [Nodes -> Concepts \cup {None}]
    BY <1>1 DEF Inv, TypeOK
  <2>2. edgeType' \in [Edges -> Types \cup {None}]
    BY <1>1 DEF Inv, TypeOK, RefreshedType
  <2>3. candidates' \in [Edges -> SUBSET Types]
    BY <1>1, ProposedFrom DEF Inv, TypeOK, RefreshedCandidates
  <2>. QED
    BY <2>1, <2>2, <2>3 DEF Typed
<1>6. CandidatesFollow'
  <2>1. nodes = Nodes /\ \A e \in Edges : candidates[e] = Allowed(boid, e)
    BY <1>1, MayEditSees DEF Inv, Stages
  <2>. QED
    BY <1>1, <1>3, <1>4, <2>1 DEF CandidatesFollow, RefreshedCandidates
<1>7. Reviewed' = Reviewed \cup {n}
  <2>1. {a.item : a \in {r \in stored : r.action # "refresh_endpoints"}} = {n}
    BY OneReview
  <2>2. Reviewed' = Reviewed \cup
              {a.item : a \in {r \in stored : r.action # "refresh_endpoints"}}
    BY <1>2, <1>3, ReviewedGrows
  <2>. QED
    BY <2>1, <2>2
<1>8. EdgesStayTyped'
  <2>. SUFFICES ASSUME NEW e \in Edges, edgeType'[e] # None
                PROVE  \/ edgeType'[e] \in Allowed(boid', e)
                       \/ /\ edgeType'[e] = graph'.type[e]
                          /\ {Source[e], Target[e]} \cap Reviewed' = {}
    BY DEF EdgesStayTyped
  <2>1. CASE Touches(e, {n})
    BY <1>1, <2>1, RefreshedFrom DEF Inv
  <2>2. CASE ~Touches(e, {n})
    <3>1. edgeType'[e] = edgeType[e] /\ Allowed(boid', e) = Allowed(boid, e)
      BY <1>1, <1>4, <2>2, RefreshedFrom DEF Inv
    <3>. QED
      BY <1>3, <1>7, <2>2, <3>1 DEF Inv, EdgesStayTyped, Touches
  <2>. QED
    BY <2>1, <2>2
<1>9. NothingIsInvented'
  BY <1>1, <1>3, <1>7, RefreshedFrom DEF Inv, NothingIsInvented
<1>10. DecisionsKept
  <2>1. \A m \in Nodes : boid'[m] # boid[m] => m = n
    BY <1>1 DEF Inv, TypeOK
  <2>2. \A e \in Edges : edgeType'[e] \in {edgeType[e], None}
    BY <1>1, RefreshedFrom DEF Inv
  <2>. QED
    BY <2>1, <2>2 DEF DecisionsKept
<1>. HIDE DEF stored
<1>11. Inv' /\ NobodyOverwritten
  BY <1>1, <1>2, <1>5, <1>6, <1>8, <1>9, RevisedInv
<1>. QED
  BY <1>10, <1>11 DEF Effect

LEMMA ReviewEdgeInv ==
    ASSUME Inv, NEW c \in Reviewers, NEW e \in Edges, NEW t \in Types \cup {None},
           ReviewEdge(c, e, t)
    PROVE  Inv' /\ Effect
<1>. DEFINE stored == {[item |-> e, action |-> "review"]}
<1>1. /\ MayEdit(c) /\ t \in candidates[e] \cup {None}
      /\ edgeType' = [edgeType EXCEPT ![e] = t]
      /\ boid' = boid /\ candidates' = candidates
      /\ Revised(c, stored)
  BY DEF ReviewEdge
<1>2. stored \in SUBSET Audit
  BY DEF Audit
<1>3. graph' = graph /\ nodes' = nodes /\ status' = status /\ audits' = audits \cup stored
  BY <1>1 DEF Revised
<1>4. \A f \in Edges : Allowed(boid', f) = Allowed(boid, f) /\ candidates[f] = Allowed(boid, f)
  BY <1>1, MayEditSees DEF Allowed
<1>5. Typed'
  BY <1>1 DEF Inv, TypeOK, Typed
<1>6. CandidatesFollow'
  BY <1>1, <1>3, <1>4 DEF Inv, CandidatesFollow
<1>7. Reviewed' = Reviewed \cup {e}
  <2>1. {a.item : a \in {r \in stored : r.action # "refresh_endpoints"}} = {e}
    BY OneReview
  <2>2. Reviewed' = Reviewed \cup
              {a.item : a \in {r \in stored : r.action # "refresh_endpoints"}}
    BY <1>2, <1>3, ReviewedGrows
  <2>. QED
    BY <2>1, <2>2
<1>8. \A f \in Edges : edgeType'[f] = IF f = e THEN t ELSE edgeType[f]
  BY <1>1 DEF Inv, TypeOK
<1>9. EdgesStayTyped'
  <2>1. \A f \in Edges : e \notin {Source[f], Target[f]}
    BY MatchConstants
  <2>. QED
    BY <1>1, <1>3, <1>4, <1>7, <1>8, <2>1 DEF Inv, EdgesStayTyped
<1>10. NothingIsInvented'
  BY <1>3, <1>7, <1>8 DEF Inv, NothingIsInvented
<1>11. DecisionsKept
  <2>. USE <1>1, <1>8
  <2>1. \A f \in Edges : edgeType'[f] \notin {edgeType[f], None} => f = e /\ t \in Types
    OBVIOUS
  <2>. QED
    BY <2>1 DEF DecisionsKept
<1>. HIDE DEF stored
<1>12. Inv' /\ NobodyOverwritten
  BY <1>1, <1>2, <1>5, <1>6, <1>9, <1>10, RevisedInv
<1>. QED
  BY <1>11, <1>12 DEF Effect

(* What an acceptance makes of the content, changed or not.                 *)
AcceptedContent ==
    /\ boid' = Accepted
    /\ candidates' = [e \in Edges |-> Allowed(Accepted, e)]
    /\ edgeType' = [e \in Edges |->
          IF e \in OpenEdges THEN Only(Proposed(Accepted, e)) ELSE Kept[e]]

LEMMA AcceptedTyped ==
    ASSUME Inv, AcceptedContent
    PROVE  Typed'
<1>1. Accepted \in [Nodes -> Concepts \cup {None}]
  BY DEF Inv, TypeOK, Accepted, Trace
<1>2. \A e \in Edges : Only(Proposed(Accepted, e)) \in Types \cup {None}
  BY OnlyFrom, ProposedFrom
<1>3. \A e \in Edges : Kept[e] \in Types \cup {None}
  BY DEF Inv, TypeOK, Kept, RefreshedType
<1>4. \A e \in Edges : Allowed(Accepted, e) \in SUBSET Types
  BY ProposedFrom
<1>. QED
  BY <1>1, <1>2, <1>3, <1>4 DEF AcceptedContent, Typed

(* An edge away from the accepted nodes has the endpoints it had. *)
LEMMA AcceptedAway ==
    ASSUME Inv, NEW e \in Edges, ~Touches(e, OpenNodes)
    PROVE  Allowed(Accepted, e) = Allowed(boid, e) /\ Kept[e] = edgeType[e]
<1>1. Source[e] \in Nodes \ OpenNodes /\ Target[e] \in Nodes \ OpenNodes
  BY MatchConstants DEF Touches
<1>2. Accepted[Source[e]] = boid[Source[e]] /\ Accepted[Target[e]] = boid[Target[e]]
  BY <1>1 DEF Accepted
<1>3. Kept[e] = edgeType[e]
  BY DEF Kept, RefreshedType
<1>. QED
  BY <1>2, <1>3, SameAllowed

LEMMA AcceptedEdges ==
    ASSUME Inv, NEW e \in Edges
    PROVE  /\ e \in OpenEdges => Only(Proposed(Accepted, e)) \in Allowed(Accepted, e)
           /\ Kept[e] \in {edgeType[e], None}
           /\ Touches(e, OpenNodes) /\ Kept[e] # None => Kept[e] \in Allowed(Accepted, e)
<1>1. e \in OpenEdges => Proposed(Accepted, e) # {}
  BY DEF OpenEdges
<1>2. Proposed(Accepted, e) \subseteq Allowed(Accepted, e)
  BY ProposedFrom
<1>3. e \in OpenEdges => Only(Proposed(Accepted, e)) \in Allowed(Accepted, e)
  <2>. DEFINE P == Proposed(Accepted, e)
  <2>1. P # {} => Only(P) \in P
    BY DEF Only
  <2>. QED
    BY <1>1, <1>2, <2>1
<1>. QED
  BY <1>3, RefreshedFrom DEF Kept, Inv

LEMMA AcceptInv ==
    ASSUME Inv, NEW c \in Reviewers, Accept(c)
    PROVE  Inv' /\ Effect
<1>. DEFINE reset == {e \in Edges \ OpenEdges : Kept[e] # edgeType[e]}
            stored == Records("accept_proposal", OpenNodes \cup OpenEdges)
                           \cup Records("refresh_endpoints", reset)
<1>1. MayEdit(c) /\ AcceptedContent
  BY DEF Accept, AcceptedContent
<1>2. Typed'
  BY <1>1, AcceptedTyped
<1>3. /\ status = "ready" /\ revision >= 1 /\ copy[c].of = Shown
      /\ \A e \in Edges : candidates[e] = Allowed(boid, e)
  BY <1>1, MayEditSees
<1>4. OpenNodes \subseteq Nodes \ Reviewed /\ OpenEdges \subseteq Edges \ Reviewed
  BY DEF OpenNodes, OpenEdges
<1>5. DecisionsKept
  <2>1. Decided \subseteq Reviewed
    BY DEF Decided, Reviewed
  <2>2. \A n \in Nodes \cap Decided : boid'[n] = boid[n]
    BY <1>1, <1>4, <2>1 DEF AcceptedContent, Accepted
  <2>3. \A e \in Edges \cap Decided : edgeType'[e] \in {edgeType[e], None}
    BY <1>1, <1>4, <2>1, AcceptedEdges DEF AcceptedContent
  <2>. QED
    BY <2>2, <2>3 DEF DecisionsKept
<1>6. CASE OpenNodes \cup OpenEdges \cup reset = {}
  <2>1. UNCHANGED <<graph, status, revision, nodes, trace, audits, task, late>> /\ Page(c)
    BY <1>6 DEF Accept
  <2>2. boid' = boid
    BY <1>1, <1>6 DEF AcceptedContent, Accepted, Inv, TypeOK
  <2>3. edgeType' = edgeType
    BY <1>1, <1>6 DEF AcceptedContent, Inv, TypeOK
  <2>4. candidates' = candidates
    <3>1. Accepted = boid
      BY <1>1, <2>2 DEF AcceptedContent
    <3>. QED
      BY <1>1, <1>3, <3>1 DEF AcceptedContent, Inv, TypeOK
  <2>5. Look(c)
    BY <2>1, <2>2, <2>3, <2>4 DEF Look, content
  <2>. QED
    BY <2>5, LookInv
<1>7. CASE OpenNodes \cup OpenEdges \cup reset # {}
  <2>1. Revised(c, stored)
    BY <1>7 DEF Accept
  <2>2. stored \in SUBSET Audit
    BY <1>4 DEF Audit, Records
  <2>3. graph' = graph /\ nodes' = nodes /\ status' = status /\ audits' = audits \cup stored
    BY <2>1 DEF Revised
  <2>4. Reviewed' = Reviewed \cup OpenNodes \cup OpenEdges
    <3>1. Reviewed' = Reviewed \cup
              {a.item : a \in {r \in stored : r.action # "refresh_endpoints"}}
      BY <2>2, <2>3, ReviewedGrows
    <3>2. {a.item : a \in {r \in stored : r.action # "refresh_endpoints"}} =
              OpenNodes \cup OpenEdges
      BY AcceptRecords
    <3>. QED
      BY <3>1, <3>2
  <2>. HIDE DEF stored, reset
  <2>5. CandidatesFollow'
    BY <1>1, <1>3, <2>3 DEF Inv, CandidatesFollow, AcceptedContent
  <2>6. EdgesStayTyped'
    <3>. SUFFICES ASSUME NEW e \in Edges, edgeType'[e] # None
                  PROVE  \/ edgeType'[e] \in Allowed(boid', e)
                         \/ /\ edgeType'[e] = graph'.type[e]
                            /\ {Source[e], Target[e]} \cap Reviewed' = {}
      BY DEF EdgesStayTyped
    <3>1. CASE e \in OpenEdges \/ Touches(e, OpenNodes)
      BY <1>1, <3>1, AcceptedEdges DEF AcceptedContent
    <3>2. CASE e \notin OpenEdges /\ ~Touches(e, OpenNodes)
      <4>1. edgeType'[e] = edgeType[e] /\ Allowed(boid', e) = Allowed(boid, e)
        BY <1>1, <3>2, AcceptedAway DEF AcceptedContent
      <4>2. {Source[e], Target[e]} \cap (OpenNodes \cup OpenEdges) = {}
        BY <1>4, <3>2, MatchConstants DEF Touches
      <4>. QED
        BY <2>3, <2>4, <4>1, <4>2 DEF Inv, EdgesStayTyped
    <3>. QED
      BY <3>1, <3>2
  <2>7. NothingIsInvented'
    BY <1>1, <2>3, <2>4, AcceptedEdges DEF Inv, NothingIsInvented, AcceptedContent
  <2>8. Inv' /\ NobodyOverwritten
    BY <1>1, <1>2, <2>1, <2>2, <2>5, <2>6, <2>7, RevisedInv
  <2>. QED
    BY <1>5, <2>8 DEF Effect
<1>. QED
  BY <1>6, <1>7

LEMMA NextInv == Inv /\ [Next]_vars => Inv' /\ Effect
<1>. SUFFICES ASSUME Inv, [Next]_vars PROVE Inv' /\ Effect
  OBVIOUS
<1>1. CASE Match
  BY <1>1, MatchInv
<1>2. ASSUME NEW c \in Reviewers, Review(c) PROVE Inv' /\ Effect
  BY <1>2, LookInv, AcceptInv, ReviewNodeInv, ReviewEdgeInv DEF Review
<1>3. CASE UNCHANGED vars
  <2>1. TypeOK' /\ Stages'
    BY <1>3 DEF vars, content, Inv, TypeOK, Stages
  <2>. QED
    BY <1>3, <2>1, QuietInv DEF vars
<1>. QED
  BY <1>1, <1>2, <1>3 DEF Next

----
(* The inductive invariant: content changes only under a new revision, and  *)
(* before the first revision nothing is annotated or reviewed.              *)
THEOREM InvHolds == Spec => []Inv
<1>. QED
  BY InitInv, NextInv, PTL DEF Spec

(* Type correctness. *)
THEOREM TypeCorrect == Spec => []TypeOK
<1>1. Inv => TypeOK
  BY DEF Inv
<1>. QED
  BY <1>1, InvHolds, PTL

(* Comparing revisions is enough: a page with the current revision shows    *)
(* the current content (require_revision in mutate and result_graph).       *)
THEOREM RevisionsName == Spec => []RevisionNamesContent
<1>1. Inv => RevisionNamesContent
  BY DEF Inv
<1>. QED
  BY <1>1, InvHolds, PTL

(* Every change is made by a reviewer who saw what was changed. *)
THEOREM NoLostUpdate == Spec => NobodyIsOverwritten
<1>1. Inv /\ [Next]_vars =>
          [revision >= 1 /\ content' # content =>
              \E c \in Reviewers : copy[c].of = Shown /\ copy'[c].of = Shown']_vars
  BY NextInv DEF Effect, NobodyOverwritten
<1>. QED
  BY <1>1, InvHolds, PTL DEF Spec, NobodyIsOverwritten

(* The candidates of an edge are those of its endpoints (refresh_edges).    *)
THEOREM CandidatesAreFresh == Spec => []CandidatesFollow
<1>1. Inv => CandidatesFollow
  BY DEF Inv
<1>. QED
  BY <1>1, InvHolds, PTL

(* However node decisions, edge decisions and acceptances alternate, an     *)
(* edge with a reviewed endpoint has a type the ontology allows, or none.   *)
THEOREM EdgesAreTyped == Spec => []EdgesStayTyped
<1>1. Inv => EdgesStayTyped
  BY DEF Inv
<1>. QED
  BY <1>1, InvHolds, PTL

(* No relation becomes a fact by being the ontology's only one.             *)
THEOREM NoInventedFacts == Spec => []NothingIsInvented
<1>1. Inv => NothingIsInvented
  BY DEF Inv
<1>. QED
  BY <1>1, InvHolds, PTL

(* Wholesale acceptance never changes what a person has decided or cleared. *)
THEOREM DecisionsAreKept == Spec => DecisionsStand
<1>1. Inv /\ [Next]_vars => [DecisionsKept]_vars
  BY NextInv DEF Effect
<1>. QED
  BY <1>1, InvHolds, PTL DEF Spec, DecisionsStand, DecisionsKept

----
(* Entity resolution: whatever is merged, rejected and reset, in whatever   *)
(* order, the replay of the decisions gives the components of the merges.   *)

Merged(b) == R!MergedIn(b)
Upto(b, k) == {c \in Merged(b) : b[c].order <= k}

\* A run's decisions: every merge keeps one of its nodes, no two were made at once.
Sound(b) ==
    /\ b \in [R!Candidates -> R!Entry]
    /\ \A c \in Merged(b) : b[c].keep \in c /\ b[c].order >= 1
    /\ \A c, d \in Merged(b) : b[c].order = b[d].order => c = d

\* What the replay has come to after the first k decisions.
Follows(b, k, o) ==
    /\ o \in [RunNodes -> RunNodes]
    /\ \A n \in RunNodes :
        /\ R!Group(o, n) = R!Component(Upto(b, k), n)
        /\ \/ o[n] = n /\ R!Group(o, n) = {n}
           \/ \E c \in Upto(b, k) :
                /\ c \subseteq R!Component(Upto(b, k), n) /\ o[n] = b[c].keep
                /\ \A d \in Upto(b, k) : d \subseteq R!Component(Upto(b, k), n) =>
                      b[d].order <= b[c].order

\* The pairs of records kept apart that one entity holds.  It may hold some only
\* if all of its merges are the analysis' own.
Held(g, b, n) == {p \in g.records : p \subseteq R!Component(Merged(b), n)}
Excused(g, b, a) ==
    \A n \in RunNodes : Held(g, b, n) # {} =>
        \A c \in Merged(b) : c \subseteq R!Component(Merged(b), n) => b[c].order <= a

\* A run of graph g: its decisions, revision, applied revision and status.
HistoryIs(g, b, k, a, st) ==
    /\ Sound(b) /\ R!Valid(b)
    /\ \A c \in Merged(b) : b[c].order <= k
    /\ \A c \in R!Candidates : b[c].mark # "absent" => st = "ready"
    /\ Excused(g, b, a)

RunsInv ==
    /\ R!TypeOK
    /\ \A r \in RunIds :
          HistoryIs(runsGraph, book[r], runsRevision[r], applied[r], runsStatus[r])


----
(* Components.                                                              *)

LEMMA ComponentFacts ==
    ASSUME NEW M \in SUBSET SUBSET RunNodes, NEW n \in RunNodes
    PROVE  /\ R!Component(M, n) \subseteq RunNodes /\ n \in R!Component(M, n)
           /\ R!Closed(R!Component(M, n), M)
           /\ \A S \in SUBSET RunNodes : n \in S /\ R!Closed(S, M) => R!Component(M, n) \subseteq S
<1>1. R!Component(M, n) \subseteq RunNodes /\ n \in R!Component(M, n)
  BY DEF R!Component
<1>2. \A S \in SUBSET RunNodes : n \in S /\ R!Closed(S, M) => R!Component(M, n) \subseteq S
  BY DEF R!Component
<1>3. ASSUME NEW c \in M, NEW x \in c, x \in R!Component(M, n), NEW y \in c
      PROVE  y \in R!Component(M, n)
  <2>1. y \in RunNodes
    OBVIOUS
  <2>2. ASSUME NEW S \in SUBSET RunNodes, n \in S, R!Closed(S, M) PROVE y \in S
    <3>1. x \in S
      BY <1>2, <1>3, <2>2
    <3>2. c \subseteq S
      BY <2>2, <3>1 DEF R!Closed
    <3> QED
      BY <3>2
  <2> QED
    BY <2>1, <2>2 DEF R!Component
<1>4. R!Closed(R!Component(M, n), M)
  BY <1>3 DEF R!Closed
<1> QED
  BY <1>1, <1>2, <1>4

\* A component is the component of each of its nodes.
LEMMA SameComponent ==
    ASSUME NEW M \in SUBSET SUBSET RunNodes, NEW n \in RunNodes, NEW m \in R!Component(M, n)
    PROVE  m \in RunNodes /\ R!Component(M, m) = R!Component(M, n)
<1>1. m \in RunNodes
  BY ComponentFacts
<1>2. R!Component(M, m) \subseteq R!Component(M, n)
  BY <1>1, ComponentFacts
<1>3. n \in R!Component(M, m)
  <2> SUFFICES ASSUME n \notin R!Component(M, m) PROVE FALSE
    OBVIOUS
  <2> DEFINE others == RunNodes \ R!Component(M, m)
  <2>1. R!Closed(R!Component(M, m), M) /\ m \in R!Component(M, m)
    BY <1>1, ComponentFacts
  <2>2. ASSUME NEW c \in M, c \cap others # {} PROVE c \subseteq others
    <3>1. c \cap R!Component(M, m) = {}
      BY <2>1, <2>2 DEF R!Closed
    <3> QED
      BY <3>1
  <2>3. R!Closed(others, M)
    BY <2>2 DEF R!Closed
  <2>4. R!Component(M, n) \subseteq others
    BY <2>3, ComponentFacts
  <2> QED
    BY <2>1, <2>4
<1>4. R!Component(M, n) \subseteq R!Component(M, m)
  BY <1>1, <1>3, ComponentFacts
<1> QED
  BY <1>1, <1>2, <1>4

\* With fewer merges components are smaller.
LEMMA SmallerComponent ==
    ASSUME NEW M \in SUBSET SUBSET RunNodes, NEW N \in SUBSET M, NEW n \in RunNodes
    PROVE  R!Component(N, n) \subseteq R!Component(M, n)
<1>1. R!Closed(R!Component(M, n), N)
  BY ComponentFacts DEF R!Closed
<1> QED
  BY <1>1, ComponentFacts

\* What a merge brings together.
Reach(M, c) == UNION {R!Component(M, x) : x \in c}

LEMMA ReachFacts ==
    ASSUME NEW M \in SUBSET SUBSET RunNodes, NEW c \in SUBSET RunNodes, NEW n \in RunNodes
    PROVE  /\ n \in Reach(M, c) <=> \E x \in c : x \in R!Component(M, n)
           /\ n \in Reach(M, c) => R!Component(M \cup {c}, n) = Reach(M, c)
           /\ n \notin Reach(M, c) =>
                R!Component(M \cup {c}, n) = R!Component(M, n)
<1>1. n \in Reach(M, c) <=> \E x \in c : x \in R!Component(M, n)
  <2>1. ASSUME NEW x \in c PROVE n \in R!Component(M, x) <=> x \in R!Component(M, n)
    BY SameComponent, ComponentFacts
  <2> QED
    BY <2>1 DEF Reach
<1>2. M \cup {c} \in SUBSET SUBSET RunNodes /\ M \in SUBSET (M \cup {c})
  OBVIOUS
<1>3. ASSUME n \in Reach(M, c)
      PROVE  R!Component(M \cup {c}, n) = Reach(M, c)
  <2>1. \A x \in c : R!Closed(R!Component(M, x), M) /\ x \in R!Component(M, x)
    BY ComponentFacts
  <2>2. ASSUME NEW d \in M, d \cap Reach(M, c) # {} PROVE d \subseteq Reach(M, c)
    <3>1. PICK x \in c : d \cap R!Component(M, x) # {}
      BY <2>2 DEF Reach
    <3>2. d \subseteq R!Component(M, x)
      BY <2>1, <3>1 DEF R!Closed
    <3> QED
      BY <3>2 DEF Reach
  <2>3. c \subseteq Reach(M, c)
    BY <2>1 DEF Reach
  <2>4. R!Closed(Reach(M, c), M \cup {c})
    BY <2>2, <2>3 DEF R!Closed
  <2>5. Reach(M, c) \subseteq RunNodes
    BY ComponentFacts DEF Reach
  <2>6. R!Component(M \cup {c}, n) \subseteq Reach(M, c)
    BY <1>2, <1>3, <2>4, <2>5, ComponentFacts
  <2>7. PICK y \in c : y \in R!Component(M, n)
    BY <1>1, <1>3
  <2>8. y \in R!Component(M \cup {c}, n)
    BY <1>2, <2>7, SmallerComponent
  <2>9. c \subseteq R!Component(M \cup {c}, n)
    BY <1>2, <2>8, ComponentFacts DEF R!Closed
  <2>10. ASSUME NEW x \in c PROVE R!Component(M, x) \subseteq R!Component(M \cup {c}, n)
    <3>1. R!Component(M \cup {c}, x) = R!Component(M \cup {c}, n)
      BY <1>2, <2>9, SameComponent
    <3> QED
      BY <1>2, <3>1, SmallerComponent
  <2>11. Reach(M, c) \subseteq R!Component(M \cup {c}, n)
    BY <2>10 DEF Reach
  <2> QED
    BY <2>6, <2>11
<1>4. ASSUME n \notin Reach(M, c)
      PROVE  R!Component(M \cup {c}, n) = R!Component(M, n)
  <2>1. c \cap R!Component(M, n) = {}
    BY <1>1, <1>4
  <2>2. R!Closed(R!Component(M, n), M \cup {c})
    BY <2>1, ComponentFacts DEF R!Closed
  <2>3. R!Component(M \cup {c}, n) \subseteq R!Component(M, n)
    BY <1>2, <2>2, ComponentFacts
  <2> QED
    BY <1>2, <2>3, SmallerComponent
<1> QED
  BY <1>1, <1>3, <1>4

----
(* The replay.                                                              *)

(* A set of numbers has a least one.                                        *)
Less == {p \in Nat \X Nat : p[1] < p[2]}

LEMMA LessWF == IsWellFoundedOn(Less, Nat)
BY NatLessThanWellFounded DEF OpToRel, Less

LEMMA LeastNat ==
    ASSUME NEW numbers, numbers \subseteq Nat, numbers # {}
    PROVE  \E x \in numbers : \A y \in numbers : x <= y
<1>1. PICK x \in numbers : \A y \in numbers : ~(<<y, x>> \in Less)
  BY LessWF, WFMin
<1>2. ASSUME NEW a \in Nat, NEW b \in Nat, a < b PROVE <<a, b>> \in Less
  <2>1. <<a, b>>[1] = a /\ <<a, b>>[2] = b /\ <<a, b>> \in Nat \X Nat
    OBVIOUS
  <2> QED
    BY <1>2, <2>1 DEF Less
<1>3. ASSUME NEW y \in numbers PROVE x <= y
  <2>1. ~(y < x)
    BY <1>1, <1>2, <1>3
  <2> QED
    BY <2>1
<1> QED
  BY <1>3

(* The facts about the constants that the proofs below use.                 *)
LEMMA RunConstants ==
    /\ IsFiniteSet(RunNodes) /\ RunNodes \subseteq Nat /\ None \notin RunNodes
    /\ MaxDecisions \in Nat /\ MaxCluster \in Nat
    /\ \A g \in RunGraphs : g.records \subseteq SUBSET RunNodes /\ g.names \subseteq g.records
<1>1. R!ResolutionConstants
  BY ResolutionAssumption
<1>2. \A g \in RunGraphs : g \in [names : SUBSET R!Pairs, records : SUBSET SUBSET RunNodes,
                               retrieved : SUBSET R!Pairs, unquoted : SUBSET R!Pairs]
  BY <1>1 DEF R!ResolutionConstants
<1>3. \A g \in RunGraphs : g.records \subseteq SUBSET RunNodes /\ g.names \subseteq g.records
  BY <1>1, <1>2 DEF R!ResolutionConstants
<1> QED
  BY <1>1, <1>3 DEF R!ResolutionConstants, R!IsFiniteSet, IsFiniteSet

Self == [n \in RunNodes |-> n]

\* Nodes whose groups the decision of number k joins; there is one at most.
Replayed(b, k, prior) ==
    LET now == {c \in R!MergedIn(b) : b[c].order = k}
    IN  IF now = {} THEN prior
        ELSE LET c == CHOOSE c \in now : TRUE IN R!Join(prior, c, b[c].keep)

Replays(b, m, g) == g = [k \in 0 .. m |-> IF k = 0 THEN Self ELSE Replayed(b, k, g[k - 1])]

LEMMA ReplayExists ==
    ASSUME NEW b, NEW m \in Nat PROVE \E g : Replays(b, m, g)
<1> DEFINE stuck == {k \in Nat : ~ \E g : Replays(b, k, g)}
<1> SUFFICES ASSUME stuck # {} PROVE FALSE
  OBVIOUS
<1>1. PICK k \in stuck : \A j \in stuck : k <= j
  BY LeastNat
<1>2. CASE k = 0
  <2> DEFINE g == [j \in 0 .. 0 |-> Self]
  <2>1. g = [j \in 0 .. 0 |-> IF j = 0 THEN Self ELSE Replayed(b, j, g[j - 1])]
    OBVIOUS
  <2> QED
    BY <1>2, <2>1 DEF Replays
<1>3. CASE k # 0
  <2>1. k - 1 \in Nat /\ k - 1 < k
    BY <1>3
  <2>2. PICK g : Replays(b, k - 1, g)
    BY <1>1, <2>1
  <2> DEFINE h == [j \in 0 .. k |-> IF j = k THEN Replayed(b, k, g[k - 1]) ELSE g[j]]
  <2>3. ASSUME NEW j \in 0 .. k
        PROVE  h[j] = IF j = 0 THEN Self ELSE Replayed(b, j, h[j - 1])
    <3>1. CASE j = k
      <4>1. h[j] = Replayed(b, j, g[j - 1])
        BY <3>1
      <4>2. h[j - 1] = g[j - 1]
        BY <1>3, <3>1
      <4> QED
        BY <1>3, <3>1, <4>1, <4>2
    <3>2. CASE j # k
      <4>1. h[j] = g[j]
        BY <3>2
      <4>2. j \in 0 .. (k - 1)
        BY <3>2
      <4>3. g[j] = IF j = 0 THEN Self ELSE Replayed(b, j, g[j - 1])
        BY <2>2, <4>2 DEF Replays
      <4>4. j # 0 => h[j - 1] = g[j - 1]
        BY <3>2
      <4> QED
        BY <4>1, <4>3, <4>4
    <3> QED
      BY <3>1, <3>2
  <2>4. Replays(b, k, h)
    BY <2>3 DEF Replays
  <2> QED
    BY <2>4
<1> QED
  BY <1>2, <1>3

----
(* One more decision.                                                       *)

LEMMA UptoFacts ==
    ASSUME NEW b, Sound(b), NEW k \in Nat
    PROVE  Upto(b, k) \subseteq Merged(b) /\ Merged(b) \in SUBSET SUBSET RunNodes
BY DEF Upto, Merged, R!MergedIn, R!Candidates

\* A node's group is kept by one of the nodes in it.
LEMMA OwnerInside ==
    ASSUME NEW b, NEW k \in Nat, NEW o, Sound(b), Follows(b, k, o), NEW n \in RunNodes
    PROVE  o[n] \in R!Component(Upto(b, k), n)
<1>1. CASE o[n] = n
  BY <1>1, UptoFacts, ComponentFacts
<1>2. CASE \E c \in Upto(b, k) : c \subseteq R!Component(Upto(b, k), n) /\ o[n] = b[c].keep
  <2>1. PICK c \in Upto(b, k) : c \subseteq R!Component(Upto(b, k), n) /\ o[n] = b[c].keep
    BY <1>2
  <2>2. b[c].keep \in c
    BY UptoFacts DEF Sound
  <2> QED
    BY <2>1, <2>2
<1> QED
  BY <1>1, <1>2 DEF Follows

\* The nodes a merge moves are those whose component it reaches.
LEMMA JoinMoves ==
    ASSUME NEW b, NEW k \in Nat, NEW o, Sound(b), Follows(b, k, o),
           NEW c \in SUBSET RunNodes, NEW keep \in c, NEW n \in RunNodes
    PROVE  /\ n \in Reach(Upto(b, k), c) => R!Join(o, c, keep)[n] = keep
           /\ n \notin Reach(Upto(b, k), c) => R!Join(o, c, keep)[n] = o[n] /\ o[n] # keep
           /\ R!Join(o, c, keep) \in [RunNodes -> RunNodes]
<1> DEFINE M == Upto(b, k)
           anchors == {o[x] : x \in c}
<1>0. M \in SUBSET SUBSET RunNodes
  BY UptoFacts
<1>6. n \in Reach(M, c) <=> \E x \in c : x \in R!Component(M, n)
  BY <1>0, ReachFacts
<1>1. R!Join(o, c, keep) = [m \in RunNodes |-> IF o[m] \in anchors THEN keep ELSE o[m]]
  BY DEF R!Join
<1>2. o[n] \in anchors <=> \E x \in c : x \in R!Group(o, n)
  BY DEF R!Group
<1>3. o[n] \in anchors <=> n \in Reach(M, c)
  <2>1. R!Group(o, n) = R!Component(M, n)
    BY DEF Follows
  <2> QED
    BY <1>2, <1>6, <2>1
<1>4. n \notin Reach(M, c) => o[n] # keep
  <2>1. o[n] \in R!Component(M, n)
    BY OwnerInside
  <2> QED
    BY <1>6, <2>1
<1>5. R!Join(o, c, keep) \in [RunNodes -> RunNodes]
  <2>1. o \in [RunNodes -> RunNodes] /\ keep \in RunNodes
    BY DEF Follows
  <2> QED
    BY <1>1, <2>1
<1> QED
  BY <1>1, <1>3, <1>4, <1>5

LEMMA FollowsNothing == ASSUME NEW b, Sound(b) PROVE Follows(b, 0, Self)
<1>1. Upto(b, 0) = {}
  <2>1. \A c \in Merged(b) : b[c].order \in Nat
    BY RunConstants DEF Sound, Merged, R!MergedIn, R!Entry
  <2> QED
    BY <2>1 DEF Upto, Sound
<1>2. ASSUME NEW n \in RunNodes PROVE R!Component({}, n) = {n} /\ R!Group(Self, n) = {n}
  <2>1. R!Component({}, n) = {n}
    BY DEF R!Component, R!Closed
  <2>2. R!Group(Self, n) = {n}
    BY DEF R!Group, Self
  <2> QED
    BY <2>1, <2>2
<1>3. Self \in [RunNodes -> RunNodes] /\ \A n \in RunNodes : Self[n] = n
  BY DEF Self
<1> QED
  BY <1>1, <1>2, <1>3 DEF Follows

LEMMA JoinFollows ==
    ASSUME NEW b, Sound(b), NEW k \in 1 .. MaxDecisions, NEW o, Follows(b, k - 1, o)
    PROVE  Follows(b, k, Replayed(b, k, o))
<1> DEFINE now == {c \in R!MergedIn(b) : b[c].order = k}
           M == Upto(b, k - 1)
<1>0. k \in Nat /\ k - 1 \in Nat /\ M \in SUBSET SUBSET RunNodes
  BY RunConstants, UptoFacts
<1>1. \A c \in Merged(b) : b[c].order \in Nat /\ b[c].order >= 1
  BY RunConstants DEF Sound, Merged, R!MergedIn, R!Entry
<1>2. CASE now = {}
  <2>1. Upto(b, k) = M
    BY <1>0, <1>1, <1>2 DEF Upto, Merged
  <2>2. Replayed(b, k, o) = o
    BY <1>2 DEF Replayed
  <2> QED
    BY <2>1, <2>2 DEF Follows
<1>3. CASE now # {}
  <2> DEFINE c == CHOOSE d \in now : TRUE
             keep == b[c].keep
             join == R!Join(o, c, keep)
  <2>1. c \in Merged(b) /\ b[c].order = k
    BY <1>3 DEF Merged
  <2>2. Replayed(b, k, o) = join
    BY <1>3 DEF Replayed
  <2> HIDE DEF c
  <2>3. keep \in c /\ c \in SUBSET RunNodes
    BY <2>1, UptoFacts DEF Sound
  <2>4. Upto(b, k) = M \cup {c}
    <3>1. ASSUME NEW d \in Upto(b, k) PROVE d \in M \cup {c}
      <4>1. d \in Merged(b) /\ b[d].order <= k
        BY DEF Upto
      <4>2. CASE b[d].order = k
        BY <2>1, <4>1, <4>2 DEF Sound
      <4>3. CASE b[d].order # k
        BY <1>0, <1>1, <4>1, <4>3 DEF Upto
      <4> QED
        BY <4>2, <4>3
    <3>2. M \cup {c} \subseteq Upto(b, k)
      BY <1>0, <1>1, <2>1 DEF Upto
    <3> QED
      BY <3>1, <3>2
  <2>5. /\ \A m \in RunNodes : m \in Reach(M, c) => join[m] = keep
        /\ \A m \in RunNodes : m \notin Reach(M, c) => join[m] = o[m] /\ o[m] # keep
    BY <1>0, <2>3, JoinMoves
  <2>6. join \in [RunNodes -> RunNodes]
    <3>1. o \in [RunNodes -> RunNodes] /\ keep \in RunNodes
      BY <2>3 DEF Follows
    <3> QED
      BY <3>1 DEF R!Join
  <2>7. c \subseteq Reach(M, c) /\ Reach(M, c) \subseteq RunNodes
    BY <1>0, <2>3, ComponentFacts DEF Reach
  <2> HIDE DEF keep, join, M, now
  <2>8. ASSUME NEW n \in RunNodes, n \in Reach(M, c)
        PROVE  /\ R!Group(join, n) = R!Component(Upto(b, k), n)
               /\ \E d \in Upto(b, k) :
                    /\ d \subseteq R!Component(Upto(b, k), n) /\ join[n] = b[d].keep
                    /\ \A e \in Upto(b, k) : e \subseteq R!Component(Upto(b, k), n) =>
                          b[e].order <= b[d].order
    <3>1. R!Component(Upto(b, k), n) = Reach(M, c)
      <4>1. R!Component(M \cup {c}, n) = Reach(M, c)
        BY <1>0, <2>3, <2>8, ReachFacts
      <4> QED
        BY <2>4, <4>1
    <3>2. R!Group(join, n) = Reach(M, c)
      <4>1. \A m \in RunNodes : join[m] = join[n] <=> m \in Reach(M, c)
        <5>1. join[n] = keep
          BY <2>5, <2>8
        <5> QED
          BY <2>5, <5>1
      <4> QED
        BY <2>7, <4>1 DEF R!Group
    <3>3. join[n] = b[c].keep
      BY <2>5, <2>8 DEF keep
    <3>4. \A e \in Upto(b, k) : b[e].order <= b[c].order
      BY <2>1 DEF Upto
    <3>5. c \in Upto(b, k)
      BY <2>4
    <3> QED
      BY <2>7, <3>1, <3>2, <3>3, <3>4, <3>5
  <2>9. ASSUME NEW n \in RunNodes, n \notin Reach(M, c)
        PROVE  /\ R!Group(join, n) = R!Component(Upto(b, k), n)
               /\ \/ join[n] = n /\ R!Group(join, n) = {n}
                  \/ \E d \in Upto(b, k) :
                       /\ d \subseteq R!Component(Upto(b, k), n) /\ join[n] = b[d].keep
                       /\ \A e \in Upto(b, k) : e \subseteq R!Component(Upto(b, k), n) =>
                             b[e].order <= b[d].order
    <3>1. R!Component(Upto(b, k), n) = R!Component(M, n)
      BY <1>0, <2>3, <2>4, <2>9, ReachFacts
    <3>2. join[n] = o[n] /\ o[n] # keep
      BY <2>5, <2>9
    <3>3. R!Group(o, n) = R!Component(M, n)
      BY DEF Follows, M
    <3>4. \A m \in R!Component(M, n) : m \notin Reach(M, c)
      <4>1. ASSUME NEW m \in R!Component(M, n) PROVE m \notin Reach(M, c)
        <5>1. m \in RunNodes /\ R!Component(M, m) = R!Component(M, n)
          BY <1>0, SameComponent
        <5> QED
          BY <1>0, <2>3, <2>9, <5>1, ReachFacts
      <4> QED
        BY <4>1
    <3>5. R!Group(join, n) = R!Component(M, n)
      <4>1. \A m \in RunNodes : join[m] = join[n] <=> m \in R!Component(M, n)
        <5>1. ASSUME NEW m \in RunNodes PROVE join[m] = join[n] <=> m \in R!Component(M, n)
          <6>1. CASE m \in Reach(M, c)
            BY <2>5, <3>2, <3>4, <6>1
          <6>2. CASE m \notin Reach(M, c)
            <7>1. join[m] = o[m]
              BY <2>5, <6>2
            <7>2. m \in R!Group(o, n) <=> o[m] = o[n]
              BY DEF R!Group
            <7> QED
              BY <3>2, <3>3, <7>1, <7>2
          <6> QED
            BY <6>1, <6>2
        <5> QED
          BY <5>1
      <4>2. R!Component(M, n) \subseteq RunNodes
        BY <1>0, ComponentFacts
      <4> QED
        BY <4>1, <4>2 DEF R!Group
    <3>6. CASE o[n] = n /\ R!Group(o, n) = {n}
      BY <3>1, <3>2, <3>3, <3>5, <3>6
    <3>7. CASE \E d \in M :
                  /\ d \subseteq R!Component(M, n) /\ o[n] = b[d].keep
                  /\ \A e \in M : e \subseteq R!Component(M, n) => b[e].order <= b[d].order
      <4>1. PICK d \in M :
                  /\ d \subseteq R!Component(M, n) /\ o[n] = b[d].keep
                  /\ \A e \in M : e \subseteq R!Component(M, n) => b[e].order <= b[d].order
        BY <3>7
      <4>2. ~(c \subseteq R!Component(M, n))
        BY <2>3, <2>7, <3>4
      <4> QED
        BY <2>4, <3>1, <3>2, <3>5, <4>1, <4>2
    <3> QED
      BY <3>6, <3>7 DEF Follows, M
  <2>10. Follows(b, k, join)
    BY <2>6, <2>8, <2>9 DEF Follows
  <2> QED
    BY <2>2, <2>10
<1> QED
  BY <1>2, <1>3

LEMMA OwnerFollows ==
    ASSUME NEW b, Sound(b)
    PROVE  Follows(b, MaxDecisions, R!Owner(b)) /\ Upto(b, MaxDecisions) = Merged(b)
<1> DEFINE replay == CHOOSE g : Replays(b, MaxDecisions, g)
           wrong == {k \in 0 .. MaxDecisions : ~Follows(b, k, replay[k])}
<1>0. MaxDecisions \in Nat
  BY RunConstants
<1>1. R!Owner(b) = replay[MaxDecisions]
  BY DEF R!Owner, Replayed, Self, Replays
<1>2. Replays(b, MaxDecisions, replay)
  BY <1>0, ReplayExists
<1> HIDE DEF replay
<1>3. wrong = {}
  <2> SUFFICES ASSUME wrong # {} PROVE FALSE
    OBVIOUS
  <2>1. wrong \subseteq Nat
    BY <1>0
  <2> HIDE DEF wrong
  <2>2. PICK k \in wrong : \A j \in wrong : k <= j
    BY <2>1, LeastNat
  <2>3. k \in 0 .. MaxDecisions /\ ~Follows(b, k, replay[k])
    BY <2>2 DEF wrong
  <2>4. replay[k] = IF k = 0 THEN Self ELSE Replayed(b, k, replay[k - 1])
    BY <1>2, <2>3 DEF Replays
  <2>5. k # 0
    BY <2>3, <2>4, FollowsNothing
  <2>6. k - 1 \in 0 .. MaxDecisions /\ ~(k <= k - 1) /\ k \in 1 .. MaxDecisions
    BY <1>0, <2>3, <2>5
  <2>7. Follows(b, k - 1, replay[k - 1])
    <3>1. k - 1 \notin wrong
      BY <2>2, <2>6
    <3> QED
      BY <2>6, <3>1 DEF wrong
  <2> QED
    BY <2>3, <2>4, <2>5, <2>6, <2>7, JoinFollows
<1>4. Upto(b, MaxDecisions) = Merged(b)
  BY <1>0 DEF Upto, Sound, Merged, R!MergedIn, R!Entry
<1> QED
  BY <1>0, <1>1, <1>3, <1>4

----
(* What memberships accepts, in terms of the components.                    *)

Rejected(b) == R!RejectedIn(b)

LEMMA RunsCardinality == \A S : R!Cardinality(S) = Cardinality(S)
BY DEF R!Cardinality, Cardinality

LEMMA SubsetsFinite ==
    ASSUME NEW S \in SUBSET RunNodes
    PROVE  IsFiniteSet(S) /\ Cardinality(S) \in Nat
BY RunConstants, FS_Subset, FS_CardinalityType

\* A set is as large as what its nodes are owned by if no two share an owner.
LEMMA OwnersDiffer ==
    ASSUME NEW c \in SUBSET RunNodes, NEW o \in [RunNodes -> RunNodes]
    PROVE  R!Cardinality({o[n] : n \in c}) = R!Cardinality(c)
              <=> \A x, y \in c : o[x] = o[y] => x = y
<1> DEFINE T == {o[n] : n \in c}
           f == [n \in c |-> o[n]]
<1>1. f \in Surjection(c, T)
  <2>1. f \in [c -> T] /\ \A t \in T : \E s \in c : f[s] = t
    OBVIOUS
  <2> QED
    BY <2>1 DEF Surjection
<1>2. f \in Injection(c, T) <=> \A x, y \in c : o[x] = o[y] => x = y
  <2>1. f \in [c -> T] /\ DOMAIN f = c
    OBVIOUS
  <2>2. f \in Injection(c, T) <=> \A x, y \in c : f[x] = f[y] => x = y
    BY <2>1 DEF Injection, IsInjective
  <2> QED
    BY <2>2
<1> HIDE DEF f, T
<1>3. Cardinality(T) = Cardinality(c) <=> f \in Injection(c, T)
  BY <1>1, SubsetsFinite, FS_Surjection
<1>4. R!Cardinality(T) = Cardinality(T) /\ R!Cardinality(c) = Cardinality(c)
  BY RunsCardinality
<1> QED
  BY <1>2, <1>3, <1>4 DEF T

LEMMA ValidMeans ==
    ASSUME NEW b, Sound(b)
    PROVE  R!Valid(b) <=>
              /\ \A n \in RunNodes : Cardinality(R!Component(Merged(b), n)) <= MaxCluster
              /\ \A c \in Rejected(b) : \A x, y \in c :
                    y \in R!Component(Merged(b), x) => x = y
<1> DEFINE o == R!Owner(b)
<1>1. /\ o \in [RunNodes -> RunNodes]
      /\ \A n \in RunNodes : R!Group(o, n) = R!Component(Merged(b), n)
  BY OwnerFollows DEF Follows
<1>2. R!Valid(b) <=>
        /\ \A n \in RunNodes : R!Cardinality(R!Group(o, n)) <= MaxCluster
        /\ \A c \in Rejected(b) : R!Cardinality({o[n] : n \in c}) = R!Cardinality(c)
  BY DEF R!Valid, R!Consistent, Rejected
<1> HIDE DEF o
<1>3. \A n \in RunNodes : R!Cardinality(R!Group(o, n)) = Cardinality(R!Component(Merged(b), n))
  BY <1>1, RunsCardinality
<1>4. ASSUME NEW c \in Rejected(b)
      PROVE  R!Cardinality({o[n] : n \in c}) = R!Cardinality(c) <=>
                \A x, y \in c : y \in R!Component(Merged(b), x) => x = y
  <2>1. c \in SUBSET RunNodes
    BY DEF Rejected, R!RejectedIn, R!Candidates
  <2>2. \A x, y \in c : y \in R!Component(Merged(b), x) <=> o[x] = o[y]
    <3>1. \A x, y \in c : y \in R!Group(o, x) <=> o[x] = o[y]
      BY <2>1 DEF R!Group
    <3> QED
      BY <1>1, <2>1, <3>1
  <2>3. R!Cardinality({o[n] : n \in c}) = R!Cardinality(c) <=>
           \A x, y \in c : o[x] = o[y] => x = y
    BY <1>1, <2>1, OwnersDiffer
  <2> QED
    BY <2>2, <2>3
<1> QED
  BY <1>2, <1>3, <1>4

\* Taking merges and rejections back is always accepted.
LEMMA ValidShrinks ==
    ASSUME NEW b, Sound(b), R!Valid(b), NEW d, Sound(d),
           Merged(d) \subseteq Merged(b), Rejected(d) \subseteq Rejected(b)
    PROVE  R!Valid(d)
<1>0. Merged(b) \in SUBSET SUBSET RunNodes /\ Merged(d) \in SUBSET Merged(b)
  BY DEF Merged, R!MergedIn, R!Candidates
<1>1. \A n \in RunNodes : R!Component(Merged(d), n) \subseteq R!Component(Merged(b), n)
  BY <1>0, SmallerComponent
<1>2. \A n \in RunNodes : Cardinality(R!Component(Merged(b), n)) <= MaxCluster
  BY ValidMeans
<1>3. ASSUME NEW n \in RunNodes PROVE Cardinality(R!Component(Merged(d), n)) <= MaxCluster
  <2>1. R!Component(Merged(b), n) \in SUBSET RunNodes
    BY <1>0, ComponentFacts
  <2>2. Cardinality(R!Component(Merged(d), n)) <= Cardinality(R!Component(Merged(b), n))
    BY <1>1, <2>1, SubsetsFinite, FS_Subset
  <2>3. /\ Cardinality(R!Component(Merged(d), n)) \in Nat
        /\ Cardinality(R!Component(Merged(b), n)) \in Nat
    BY <1>1, <2>1, SubsetsFinite
  <2> QED
    BY <1>2, <2>2, <2>3, RunConstants
<1>4. \A c \in Rejected(d) : \A x, y \in c : y \in R!Component(Merged(d), x) => x = y
  <2>1. \A c \in Rejected(b) : c \subseteq RunNodes
    BY DEF Rejected, R!RejectedIn, R!Candidates
  <2>2. \A c \in Rejected(b) : \A x, y \in c : y \in R!Component(Merged(b), x) => x = y
    BY ValidMeans
  <2> QED
    BY <1>1, <2>1, <2>2
<1> QED
  BY <1>3, <1>4, ValidMeans

----
(* A decision.                                                              *)

LEMMA EnteredSound ==
    ASSUME NEW b, Sound(b), NEW k \in Nat, k < MaxDecisions, \A c \in Merged(b) : b[c].order <= k,
           NEW c \in R!Candidates, NEW e \in R!Entry,
           e.mark = "merged" => e.keep \in c /\ e.order = k + 1
    PROVE  LET d == [b EXCEPT ![c] = e]
           IN  /\ Sound(d) /\ \A x \in Merged(d) : d[x].order <= k + 1
               /\ Merged(d) = IF e.mark = "merged" THEN Merged(b) \cup {c} ELSE Merged(b) \ {c}
               /\ Rejected(d) = IF e.mark = "rejected" THEN Rejected(b) \cup {c} ELSE Rejected(b) \ {c}
<1> DEFINE d == [b EXCEPT ![c] = e]
<1>1. /\ d \in [R!Candidates -> R!Entry] /\ d[c] = e
      /\ \A x \in R!Candidates : x # c => d[x] = b[x]
  BY DEF Sound
<1> HIDE DEF d
<1>2. Merged(d) = IF e.mark = "merged" THEN Merged(b) \cup {c} ELSE Merged(b) \ {c}
  BY <1>1 DEF Merged, R!MergedIn
<1>3. Rejected(d) = IF e.mark = "rejected" THEN Rejected(b) \cup {c} ELSE Rejected(b) \ {c}
  BY <1>1 DEF Rejected, R!RejectedIn
<1>4. \A x \in Merged(b) : x \in R!Candidates /\ b[x].order \in Nat
  BY RunConstants DEF Sound, Merged, R!MergedIn, R!Entry
<1>5. ASSUME NEW x \in Merged(d)
      PROVE  /\ x = c => d[x].keep \in x /\ d[x].order = k + 1
             /\ x # c => d[x] = b[x] /\ x \in Merged(b)
  <2>1. CASE x = c
    BY <1>1, <1>2, <2>1
  <2>2. CASE x # c
    BY <1>1, <1>2, <1>4, <2>2
  <2> QED
    BY <2>1, <2>2
<1>6. \A x \in Merged(d) : d[x].keep \in x /\ d[x].order \in Nat /\ d[x].order >= 1 /\ d[x].order <= k + 1
  BY <1>4, <1>5 DEF Sound
<1>7. \A x, y \in Merged(d) : d[x].order = d[y].order => x = y
  <2>1. \A x, y \in Merged(b) : b[x].order = b[y].order => x = y
    BY DEF Sound
  <2>2. \A x \in Merged(b) : b[x].order # k + 1
    BY <1>4
  <2> QED
    BY <1>5, <2>1, <2>2
<1>8. Sound(d)
  BY <1>1, <1>6, <1>7 DEF Sound
<1> QED
  BY <1>2, <1>3, <1>6, <1>8 DEF d

\* A merge that the identity guard lets through brings no two such records together.
LEMMA MergeExcused ==
    ASSUME NEW g, NEW b, Sound(b), NEW a \in Nat, Excused(g, b, a), NEW c \in R!Candidates, c # {},
           ~ \E p \in g.records : p \subseteq R!Affected(b, c),
           NEW d, Sound(d), Merged(d) = Merged(b) \cup {c},
           \A x \in R!Candidates : x # c => d[x] = b[x]
    PROVE  Excused(g, d, a)
<1> DEFINE M == Merged(b)
<1>0. /\ M \in SUBSET SUBSET RunNodes /\ c \in SUBSET RunNodes
      /\ \A x \in Merged(b) : x \in R!Candidates
  BY DEF Merged, R!MergedIn, R!Candidates
<1>1. R!Affected(b, c) = Reach(M, c)
  <2>1. \A n \in RunNodes : R!Group(R!Owner(b), n) = R!Component(M, n)
    BY OwnerFollows DEF Follows
  <2> QED
    BY <1>0, <2>1 DEF R!Affected, Reach
<1>2. c \subseteq Reach(M, c)
  BY <1>0, ComponentFacts DEF Reach
<1> HIDE DEF M
<1>3. ASSUME NEW n \in RunNodes, n \in Reach(M, c) PROVE Held(g, d, n) = {}
  <2>1. R!Component(M \cup {c}, n) = Reach(M, c)
    BY <1>0, <1>3, ReachFacts
  <2> QED
    BY <1>1, <2>1 DEF Held, M
<1>4. ASSUME NEW n \in RunNodes, n \notin Reach(M, c), Held(g, d, n) # {},
             NEW x \in Merged(d), x \subseteq R!Component(Merged(d), n)
      PROVE  d[x].order <= a
  <2>1. R!Component(M \cup {c}, n) = R!Component(M, n)
    BY <1>0, <1>4, ReachFacts
  <2>2. Held(g, b, n) # {} /\ x \subseteq R!Component(M, n)
    BY <1>4, <2>1 DEF Held, M
  <2>3. \A m \in R!Component(M, n) : m \notin Reach(M, c)
    <3>1. ASSUME NEW m \in R!Component(M, n) PROVE m \notin Reach(M, c)
      <4>1. m \in RunNodes /\ R!Component(M, m) = R!Component(M, n)
        BY <1>0, SameComponent
      <4>2. m \in Reach(M, c) <=> \E y \in c : y \in R!Component(M, m)
        BY <1>0, <4>1, ReachFacts
      <4>3. n \in Reach(M, c) <=> \E y \in c : y \in R!Component(M, n)
        BY <1>0, ReachFacts
      <4> QED
        BY <1>4, <4>1, <4>2, <4>3
    <3> QED
      BY <3>1
  <2>4. x # c
    BY <1>2, <2>2, <2>3
  <2>5. x \in M /\ d[x] = b[x]
    BY <1>0, <2>4 DEF M
  <2> QED
    BY <2>2, <2>5 DEF Excused, M
<1> QED
  BY <1>3, <1>4 DEF Excused

LEMMA OthersExcused ==
    ASSUME NEW g, NEW b, Sound(b), NEW a \in Nat, Excused(g, b, a), NEW c \in R!Candidates,
           NEW d, Sound(d), Merged(d) = Merged(b) \ {c},
           \A x \in R!Candidates : x # c => d[x] = b[x]
    PROVE  Excused(g, d, a)
<1>0. /\ Merged(b) \in SUBSET SUBSET RunNodes /\ Merged(d) \in SUBSET Merged(b)
      /\ \A x \in Merged(b) : x \in R!Candidates
  BY DEF Merged, R!MergedIn, R!Candidates
<1>1. ASSUME NEW n \in RunNodes, Held(g, d, n) # {},
             NEW x \in Merged(d), x \subseteq R!Component(Merged(d), n)
      PROVE  d[x].order <= a
  <2>1. R!Component(Merged(d), n) \subseteq R!Component(Merged(b), n)
    BY <1>0, SmallerComponent
  <2>2. Held(g, b, n) # {} /\ x \subseteq R!Component(Merged(b), n)
    BY <1>1, <2>1 DEF Held
  <2>3. x \in Merged(b) /\ d[x] = b[x]
    BY <1>0
  <2> QED
    BY <2>2, <2>3 DEF Excused
<1> QED
  BY <1>1 DEF Excused

----
(* What the analysis applies: pairs, numbered in their order.               *)

Lo(c) == R!Min(c)
Hi(c) == R!Max(c)

LEMMA PairEnds ==
    ASSUME NEW c \in R!Pairs
    PROVE  Lo(c) \in Nat /\ Hi(c) \in Nat /\ c = {Lo(c), Hi(c)} /\ c \in R!Candidates /\ c # {}
<1>1. c \in SUBSET RunNodes /\ Cardinality(c) = 2 /\ IsFiniteSet(c) /\ c \subseteq Nat
  BY RunsCardinality, RunConstants, SubsetsFinite DEF R!Pairs
<1>2. c # {}
  BY <1>1, FS_EmptySet
<1>3. PICK x \in c : TRUE
  BY <1>2
<1>4. Cardinality(c \ {x}) = 1 /\ IsFiniteSet(c \ {x})
  BY <1>1, <1>3, FS_RemoveElement
<1>5. PICK y : c \ {x} = {y}
  BY <1>4, FS_Singleton
<1>6. c = {x, y} /\ x # y /\ x \in Nat /\ y \in Nat
  BY <1>1, <1>3, <1>5
<1>7. \E z \in c : \A t \in c : z <= t
  BY <1>6
<1>8. \E z \in c : \A t \in c : z >= t
  BY <1>6
<1>9. Lo(c) \in c /\ \A t \in c : Lo(c) <= t
  BY <1>7 DEF Lo, R!Min
<1>10. Hi(c) \in c /\ \A t \in c : Hi(c) >= t
  BY <1>8 DEF Hi, R!Max
<1>11. c = {Lo(c), Hi(c)}
  BY <1>6, <1>9, <1>10
<1>12. c \in R!Candidates
  BY <1>1, RunsCardinality DEF R!Candidates
<1> QED
  BY <1>1, <1>2, <1>9, <1>10, <1>11, <1>12

LEMMA BeforeOrders ==
    ASSUME NEW c \in R!Pairs, NEW d \in R!Pairs
    PROVE  /\ ~R!Before(c, c)
           /\ c # d => R!Before(c, d) \/ R!Before(d, c)
           /\ \A e \in R!Pairs : R!Before(e, c) /\ R!Before(c, d) => R!Before(e, d)
<1>1. /\ Lo(c) \in Nat /\ Hi(c) \in Nat /\ c = {Lo(c), Hi(c)}
      /\ Lo(d) \in Nat /\ Hi(d) \in Nat /\ d = {Lo(d), Hi(d)}
  BY PairEnds
<1>2. \A x, y : R!Before(x, y) <=> Lo(x) < Lo(y) \/ (Lo(x) = Lo(y) /\ Hi(x) < Hi(y))
  BY DEF R!Before, Lo, Hi
<1>3. ~R!Before(c, c)
  BY <1>1, <1>2
<1>4. c # d => R!Before(c, d) \/ R!Before(d, c)
  <2>1. Lo(c) = Lo(d) /\ Hi(c) = Hi(d) => c = d
    BY <1>1
  <2> QED
    BY <1>1, <1>2, <2>1
<1>5. ASSUME NEW e \in R!Pairs, R!Before(e, c), R!Before(c, d) PROVE R!Before(e, d)
  <2>1. Lo(e) \in Nat /\ Hi(e) \in Nat
    BY PairEnds
  <2> QED
    BY <1>1, <1>2, <1>5, <2>1
<1> QED
  BY <1>3, <1>4, <1>5

\* Numbers are given in the order of the pairs, from 1 to how many there are.
LEMMA RanksDiffer ==
    ASSUME NEW S \in SUBSET R!Pairs
    PROVE  LET rank(c) == 1 + R!Cardinality({d \in S : R!Before(d, c)})
           IN  /\ \A c \in S : rank(c) \in Nat /\ rank(c) >= 1 /\ rank(c) <= R!Cardinality(S)
               /\ \A c, d \in S : rank(c) = rank(d) => c = d
<1> DEFINE first(c) == {d \in S : R!Before(d, c)}
<1>1. IsFiniteSet(S) /\ Cardinality(S) \in Nat
  <2>1. IsFiniteSet(SUBSET RunNodes)
    BY RunConstants, FS_SUBSET
  <2>2. S \in SUBSET (SUBSET RunNodes)
    BY DEF R!Pairs
  <2> QED
    BY <2>1, <2>2, FS_Subset, FS_CardinalityType
<1>2. ASSUME NEW T \in SUBSET S
      PROVE  IsFiniteSet(T) /\ Cardinality(T) \in Nat /\ Cardinality(T) <= Cardinality(S)
  BY <1>1, FS_Subset, FS_CardinalityType
<1>3. ASSUME NEW c \in S
      PROVE  Cardinality(first(c)) \in Nat /\ Cardinality(first(c)) < Cardinality(S)
  <2>1. first(c) \in SUBSET S /\ c \notin first(c)
    BY BeforeOrders
  <2>2. Cardinality(first(c)) # Cardinality(S)
    BY <1>1, <1>3, <2>1, FS_Subset
  <2> QED
    BY <1>1, <1>2, <2>1, <2>2
<1>4. ASSUME NEW c \in S, NEW d \in S, R!Before(c, d)
      PROVE  Cardinality(first(c)) # Cardinality(first(d))
  <2>1. first(c) \in SUBSET first(d) /\ first(c) # first(d)
    BY <1>4, BeforeOrders
  <2>2. IsFiniteSet(first(d))
    BY <1>2
  <2> QED
    BY <2>1, <2>2, FS_Subset
<1>5. \A c \in S : R!Cardinality(first(c)) = Cardinality(first(c))
  BY RunsCardinality
<1>6. R!Cardinality(S) = Cardinality(S)
  BY RunsCardinality
<1>7. ASSUME NEW c \in S, NEW d \in S, Cardinality(first(c)) = Cardinality(first(d)) PROVE c = d
  BY <1>4, <1>7, BeforeOrders
<1> HIDE DEF first
<1>8. \A c \in S : /\ 1 + R!Cardinality(first(c)) \in Nat /\ 1 + R!Cardinality(first(c)) >= 1
                   /\ 1 + R!Cardinality(first(c)) <= R!Cardinality(S)
  BY <1>1, <1>3, <1>5, <1>6
<1>9. \A c, d \in S : 1 + R!Cardinality(first(c)) = 1 + R!Cardinality(first(d)) => c = d
  BY <1>3, <1>5, <1>7
<1> QED
  BY <1>8, <1>9 DEF first

LEMMA AnalyzedDecided ==
    ASSUME RunsInv, NEW S \in SUBSET runsGraph.retrieved,
           R!Cardinality(R!Applied(S)) <= MaxDecisions, R!Valid(R!Analyzed(S))
    PROVE  LET k == R!Cardinality(R!Applied(S))
           IN  /\ k \in 0 .. MaxDecisions /\ R!Analyzed(S) \in [R!Candidates -> R!Entry]
               /\ \A c \in R!Candidates :
                     R!Analyzed(S)[c].mark = "merged" => R!Analyzed(S)[c].keep \in c
               /\ HistoryIs(runsGraph, R!Analyzed(S), k, k, "ready")
<1> DEFINE T == R!Applied(S)
           k == R!Cardinality(T)
           rank(c) == 1 + R!Cardinality({d \in T : R!Before(d, c)})
           b == R!Analyzed(S)
<1>1. T \in SUBSET R!Pairs
  <2>1. runsGraph \in RunGraphs
    BY DEF RunsInv, R!TypeOK
  <2>2. runsGraph.retrieved \subseteq R!Pairs
    BY <2>1, ResolutionAssumption DEF R!ResolutionConstants
  <2> QED
    BY <2>2 DEF R!Applied
<1>2. /\ \A c \in T : rank(c) \in Nat /\ rank(c) >= 1 /\ rank(c) <= k
      /\ \A c, d \in T : rank(c) = rank(d) => c = d
  BY <1>1, RanksDiffer
<1>3. k \in Nat
  <2>1. IsFiniteSet(SUBSET RunNodes)
    BY RunConstants, FS_SUBSET
  <2>2. T \in SUBSET (SUBSET RunNodes)
    BY <1>1 DEF R!Pairs
  <2> QED
    BY <2>1, <2>2, FS_Subset, FS_CardinalityType, RunsCardinality
<1>4. k \in 0 .. MaxDecisions
  BY <1>3, RunConstants
<1>5. \A c \in T : c \in R!Candidates /\ R!Min(c) \in c /\ R!Min(c) \in RunNodes
  <2>1. \A c \in R!Pairs : c \in SUBSET RunNodes /\ c \in R!Candidates /\ R!Min(c) \in c
    BY PairEnds DEF R!Pairs, Lo
  <2> QED
    BY <1>1, <2>1
<1>6. \A c \in R!Candidates :
        b[c] = IF c \in T
               THEN [mark |-> "merged", keep |-> R!Min(c), order |-> rank(c)]
               ELSE IF c \in runsGraph.retrieved THEN R!Open ELSE R!Absent
  BY DEF R!Analyzed
<1>7. DOMAIN b = R!Candidates /\ b = [c \in R!Candidates |-> b[c]]
  BY DEF R!Analyzed
<1> HIDE DEF T, k, rank, b
<1>8. \A c \in R!Candidates : c \notin T => b[c] \in {R!Open, R!Absent}
  BY <1>6
<1>9. R!Open \in R!Entry /\ R!Absent \in R!Entry /\ R!Open.mark = "open" /\ R!Absent.mark = "absent"
  BY RunConstants DEF R!Open, R!Absent, R!Entry
<1>10. \A c \in T : b[c] = [mark |-> "merged", keep |-> R!Min(c), order |-> rank(c)]
  BY <1>5, <1>6
<1>11. \A c \in T : b[c] \in R!Entry /\ b[c].mark = "merged" /\ b[c].keep \in c /\ b[c].order = rank(c)
  <2>1. ASSUME NEW c \in T
        PROVE  b[c] \in R!Entry /\ b[c].mark = "merged" /\ b[c].keep \in c /\ b[c].order = rank(c)
    <3>1. b[c] = [mark |-> "merged", keep |-> R!Min(c), order |-> rank(c)]
      BY <1>10
    <3>2. rank(c) \in 0 .. MaxDecisions
      BY <1>2, <1>4, RunConstants
    <3>3. R!Min(c) \in RunNodes \cup {None} /\ R!Min(c) \in c
      BY <1>5
    <3> QED
      BY <3>1, <3>2, <3>3 DEF R!Entry
  <2> QED
    BY <2>1
<1>12. Merged(b) = T
  <2>1. Merged(b) \subseteq T
    BY <1>8, <1>9 DEF Merged, R!MergedIn
  <2>2. T \subseteq Merged(b)
    BY <1>5, <1>11 DEF Merged, R!MergedIn
  <2> QED
    BY <2>1, <2>2
<1>13. b \in [R!Candidates -> R!Entry]
  <2>1. \A c \in R!Candidates : b[c] \in R!Entry
    BY <1>8, <1>9, <1>11
  <2> QED
    BY <1>7, <2>1
<1>14. Sound(b)
  BY <1>2, <1>11, <1>12, <1>13 DEF Sound
<1>15. \A c \in Merged(b) : b[c].order <= k
  BY <1>2, <1>11, <1>12
<1>16. \A c \in R!Candidates : b[c].mark = "merged" => b[c].keep \in c
  BY <1>8, <1>9, <1>11
<1>17. Excused(runsGraph, b, k)
  BY <1>15 DEF Excused
<1>18. R!Valid(b)
  BY DEF b
<1>19. HistoryIs(runsGraph, b, k, k, "ready")
  BY <1>14, <1>15, <1>17, <1>18 DEF HistoryIs
<1> QED
  BY <1>4, <1>13, <1>16, <1>19 DEF T, k, b

----
(* Every step keeps the invariant.                                          *)

\* What leaves the decisions of every run alone, and a ready run ready.
LEMMA RunsKept ==
    ASSUME RunsInv, R!TypeOK', UNCHANGED <<runsGraph, runsRevision, book, applied>>,
           \A r \in RunIds : runsStatus[r] = "ready" => runsStatus'[r] = "ready"
    PROVE  RunsInv'
<1>1. ASSUME NEW r \in RunIds
      PROVE  HistoryIs(runsGraph, book[r], runsRevision[r], applied[r], runsStatus'[r])
  BY DEF RunsInv, HistoryIs
<1>2. \A r \in RunIds : HistoryIs(runsGraph, book[r], runsRevision[r], applied[r], runsStatus[r])'
  BY <1>1
<1> QED
  BY <1>2 DEF RunsInv

LEMMA LeaseKeeps ==
    ASSUME RunsInv, NEW r \in RunIds,
           R!Create(r) \/ R!Read \/ R!Lapse(r) \/ R!Raise(r) \/ R!Cancel(r) \/ R!Fail(r) \/ R!Crash
    PROVE  RunsInv'
<1>0. R!TypeOK
  BY DEF RunsInv
<1>1. /\ UNCHANGED <<runsGraph, runsRevision, book, applied>>
      /\ \A q \in RunIds : runsStatus[q] = "ready" => runsStatus'[q] = "ready"
  <2>1. CASE R!Create(r)
    BY <1>0, <2>1 DEF R!Create, R!AfterExpiry, R!Expired, R!TypeOK
  <2>2. CASE R!Read
    BY <1>0, <2>2 DEF R!Read, R!AfterExpiry, R!Expired, R!TypeOK
  <2>3. CASE R!Lapse(r)
    BY <2>3 DEF R!Lapse
  <2>4. CASE R!Raise(r)
    BY <2>4 DEF R!Raise
  <2>5. CASE R!Cancel(r)
    BY <2>5 DEF R!Cancel
  <2>6. CASE R!Fail(r)
    BY <1>0, <2>6 DEF R!Fail, R!MayFinish, R!Write, R!TypeOK
  <2>7. CASE R!Crash
    BY <2>7 DEF R!Crash
  <2> QED
    BY <2>1, <2>2, <2>3, <2>4, <2>5, <2>6, <2>7
<1>2. R!TypeOK'
  <2>1. CASE R!Create(r)
    BY <1>0, <2>1 DEF R!Create, R!AfterExpiry, R!Expired, R!TypeOK
  <2>2. CASE R!Read
    BY <1>0, <2>2 DEF R!Read, R!AfterExpiry, R!Expired, R!TypeOK
  <2>3. CASE R!Lapse(r)
    BY <1>0, <2>3 DEF R!Lapse, R!TypeOK
  <2>4. CASE R!Raise(r)
    BY <1>0, <2>4 DEF R!Raise, R!TypeOK
  <2>5. CASE R!Cancel(r)
    BY <1>0, <2>5 DEF R!Cancel, R!TypeOK
  <2>6. CASE R!Fail(r)
    BY <1>0, <2>6 DEF R!Fail, R!MayFinish, R!Write, R!TypeOK
  <2>7. CASE R!Crash
    BY <1>0, <2>7 DEF R!Crash, R!TypeOK
  <2> QED
    BY <2>1, <2>2, <2>3, <2>4, <2>5, <2>6, <2>7
<1> QED
  BY <1>1, <1>2, RunsKept

\* One run's decisions change.
LEMMA OneRunKept ==
    ASSUME RunsInv, R!TypeOK', UNCHANGED runsGraph, NEW r \in RunIds,
           \A q \in RunIds \ {r} : /\ book'[q] = book[q] /\ runsRevision'[q] = runsRevision[q]
                                   /\ applied'[q] = applied[q] /\ runsStatus'[q] = runsStatus[q],
           HistoryIs(runsGraph, book'[r], runsRevision'[r], applied'[r], runsStatus'[r])
    PROVE  RunsInv'
<1>1. ASSUME NEW q \in RunIds
      PROVE  HistoryIs(runsGraph, book'[q], runsRevision'[q], applied'[q], runsStatus'[q])
  BY DEF RunsInv
<1>2. \A q \in RunIds : HistoryIs(runsGraph, book[q], runsRevision[q], applied[q], runsStatus[q])'
  BY <1>1
<1> QED
  BY <1>2 DEF RunsInv

LEMMA ReadyKeeps ==
    ASSUME RunsInv, NEW r \in RunIds, lease[r] = "live", R!Ready(r), UNCHANGED runsGraph,
           runsTask' \in [RunIds -> {"analyze", "fail", "gone"}], runsLate' \in [RunIds -> BOOLEAN],
           \A q \in RunIds \ {r} : runsTask'[q] = runsTask[q]
    PROVE  RunsInv'
<1>0. R!TypeOK
  BY DEF RunsInv
<1>1. PICK S \in SUBSET runsGraph.retrieved :
        /\ R!Cardinality(R!Applied(S)) <= MaxDecisions /\ R!Valid(R!Analyzed(S))
        /\ book' = [book EXCEPT ![r] = R!Analyzed(S)]
        /\ runsRevision' = [runsRevision EXCEPT ![r] = R!Cardinality(R!Applied(S))]
        /\ applied' = [applied EXCEPT ![r] = R!Cardinality(R!Applied(S))]
        /\ runsStatus' = [runsStatus EXCEPT ![r] = "ready"] /\ lease' = [lease EXCEPT ![r] = "none"]
  BY DEF R!Ready, R!Write
<1> DEFINE k == R!Cardinality(R!Applied(S))
           b == R!Analyzed(S)
<1>2. /\ k \in 0 .. MaxDecisions /\ b \in [R!Candidates -> R!Entry]
      /\ \A c \in R!Candidates : b[c].mark = "merged" => b[c].keep \in c
      /\ HistoryIs(runsGraph, b, k, k, "ready")
  BY <1>1, AnalyzedDecided
<1> HIDE DEF k, b
<1>3. /\ book' = [book EXCEPT ![r] = b] /\ runsRevision' = [runsRevision EXCEPT ![r] = k]
      /\ applied' = [applied EXCEPT ![r] = k]
  BY <1>1 DEF k, b
<1>4. /\ book'[r] = b /\ runsRevision'[r] = k /\ applied'[r] = k /\ runsStatus'[r] = "ready"
      /\ \A q \in RunIds \ {r} : /\ book'[q] = book[q] /\ runsRevision'[q] = runsRevision[q]
                                 /\ applied'[q] = applied[q] /\ runsStatus'[q] = runsStatus[q]
  BY <1>0, <1>1, <1>3 DEF R!TypeOK
<1>5. R!TypeOK'
  BY <1>0, <1>1, <1>2, <1>3 DEF R!TypeOK
<1> QED
  BY <1>2, <1>4, <1>5, OneRunKept

LEMMA FinishKeeps ==
    ASSUME RunsInv, NEW r \in RunIds, R!Finish(r) PROVE RunsInv'
<1>1. R!TypeOK
  BY DEF RunsInv
<1>2. runsTask' \in [RunIds -> {"analyze", "fail", "gone"}] /\ runsLate' \in [RunIds -> BOOLEAN]
  BY <1>1 DEF R!Finish, R!TypeOK
<1>3. \A q \in RunIds \ {r} : runsTask'[q] = runsTask[q]
  BY <1>1 DEF R!Finish, R!TypeOK
<1> QED
  BY <1>2, <1>3, ReadyKeeps DEF R!Finish, R!MayFinish

LEMMA LateThreadKeeps ==
    ASSUME RunsInv, NEW r \in RunIds, R!LateThread(r) PROVE RunsInv'
<1>1. R!TypeOK
  BY DEF RunsInv
<1>2. runsTask' \in [RunIds -> {"analyze", "fail", "gone"}] /\ runsLate' \in [RunIds -> BOOLEAN]
  BY <1>1 DEF R!LateThread, R!TypeOK
<1>3. CASE lease[r] = "live" /\ R!Ready(r)
  BY <1>2, <1>3, ReadyKeeps DEF R!LateThread
<1>4. CASE /\ UNCHANGED <<runsRevision, book, applied>>
           /\ \/ R!MayFinish(r) /\ R!Write(r, "failed")
              \/ UNCHANGED <<runsStatus, lease>>
  <2>1. R!TypeOK'
    BY <1>1, <1>4 DEF R!LateThread, R!TypeOK, R!Write, R!MayFinish
  <2>2. \A q \in RunIds : runsStatus[q] = "ready" => runsStatus'[q] = "ready"
    BY <1>1, <1>4 DEF R!TypeOK, R!Write, R!MayFinish
  <2>3. UNCHANGED runsGraph
    BY DEF R!LateThread
  <2> QED
    BY <1>4, <2>1, <2>2, <2>3, RunsKept
<1> QED
  BY <1>3, <1>4 DEF R!LateThread, R!MayFinish

\* What a decision may enter of candidate c when k were made before.
Enterable(c, e, k) ==
    /\ e \in R!Entry /\ e.mark \in {"open", "merged", "rejected"}
    /\ e.mark = "merged" => e.keep \in c /\ e.order = k + 1

LEMMA DecideKeeps ==
    ASSUME RunsInv, NEW r \in RunIds, NEW c \in R!Candidates, NEW e,
           Enterable(c, e, runsRevision[r]), R!Decide(r, c, e)
    PROVE  RunsInv'
<1> DEFINE b == book[r]
           k == runsRevision[r]
           d == [book[r] EXCEPT ![c] = e]
           a == applied[r]
<1>0. R!TypeOK /\ HistoryIs(runsGraph, b, k, a, runsStatus[r])
  BY DEF RunsInv
<1>1. /\ k < MaxDecisions /\ runsStatus[r] = "ready" /\ R!Valid(d)
      /\ e.mark = "merged" => ~ \E p \in runsGraph.records : p \subseteq R!Affected(b, c)
      /\ book' = [book EXCEPT ![r] = d] /\ runsRevision' = [runsRevision EXCEPT ![r] = k + 1]
      /\ UNCHANGED <<runsGraph, runsStatus, lease, runsTask, runsLate, applied>>
  BY DEF R!Decide, R!MayDecide, R!Entered, R!Mergeable
<1>2. k \in Nat /\ a \in Nat /\ k + 1 \in 0 .. MaxDecisions
  BY <1>0, <1>1, RunConstants DEF R!TypeOK
<1>3. Sound(b) /\ \A x \in Merged(b) : b[x].order <= k
  BY <1>0 DEF HistoryIs
<1>4. /\ Sound(d) /\ \A x \in Merged(d) : d[x].order <= k + 1
      /\ Merged(d) = IF e.mark = "merged" THEN Merged(b) \cup {c} ELSE Merged(b) \ {c}
  BY <1>1, <1>2, <1>3, EnteredSound DEF Enterable
<1>5. d[c] = e /\ \A x \in R!Candidates : x # c => d[x] = b[x]
  BY <1>3 DEF Sound
<1>6. Excused(runsGraph, b, a)
  BY <1>0 DEF HistoryIs
<1>7. c # {}
  <2>1. Cardinality(c) >= 2
    BY RunsCardinality DEF R!Candidates
  <2> QED
    BY <2>1, FS_EmptySet
<1> HIDE DEF d, b, k, a
<1>8. Excused(runsGraph, d, a)
  <2>1. CASE e.mark = "merged"
    BY <1>1, <1>2, <1>3, <1>4, <1>5, <1>6, <1>7, <2>1, MergeExcused
  <2>2. CASE e.mark # "merged"
    BY <1>2, <1>3, <1>4, <1>5, <1>6, <2>2, OthersExcused
  <2> QED
    BY <2>1, <2>2
<1>9. HistoryIs(runsGraph, d, k + 1, a, "ready")
  BY <1>1, <1>4, <1>8 DEF HistoryIs
<1>10. R!TypeOK'
  <2>1. d \in [R!Candidates -> R!Entry]
    BY <1>4 DEF Sound
  <2>2. \A x \in R!Candidates : d[x].mark = "merged" => d[x].keep \in x
    BY <1>4 DEF Sound, Merged, R!MergedIn
  <2> QED
    BY <1>0, <1>1, <1>2, <2>1, <2>2 DEF R!TypeOK
<1>11. /\ book'[r] = d /\ runsRevision'[r] = k + 1 /\ applied'[r] = a /\ runsStatus'[r] = "ready"
       /\ \A q \in RunIds \ {r} : /\ book'[q] = book[q] /\ runsRevision'[q] = runsRevision[q]
                                  /\ applied'[q] = applied[q] /\ runsStatus'[q] = runsStatus[q]
  BY <1>0, <1>1 DEF R!TypeOK, a
<1>12. UNCHANGED runsGraph
  BY <1>1
<1> QED
  BY <1>9, <1>10, <1>11, <1>12, OneRunKept

LEMMA ReviewKeeps ==
    ASSUME RunsInv, NEW r \in RunIds, NEW c \in R!Candidates, R!Review(r, c)
    PROVE  RunsInv'
<1> DEFINE k == runsRevision[r]
<1>1. k \in 0 .. MaxDecisions /\ MaxDecisions \in Nat
  BY RunConstants DEF RunsInv, R!TypeOK
<1>2. c \in SUBSET RunNodes
  BY DEF R!Candidates
<1>3. CASE \E n \in c : R!Decide(r, c, R!MergeEntry(r, n))
  <2>1. PICK n \in c : R!Decide(r, c, R!MergeEntry(r, n))
    BY <1>3
  <2>2. k < MaxDecisions
    BY <2>1 DEF R!Decide
  <2>3. R!MergeEntry(r, n) = [mark |-> "merged", order |-> k + 1, keep |-> n]
    BY DEF R!MergeEntry
  <2>4. k + 1 \in 0 .. MaxDecisions /\ n \in RunNodes \cup {None}
    BY <1>1, <1>2, <2>2
  <2>5. Enterable(c, R!MergeEntry(r, n), k)
    BY <2>3, <2>4 DEF Enterable, R!Entry
  <2> QED
    BY <2>1, <2>5, DecideKeeps
<1>4. CASE R!Reject(r, c)
  <2>1. Enterable(c, [R!Open EXCEPT !.mark = "rejected"], k)
    BY RunConstants DEF Enterable, R!Entry, R!Open
  <2> QED
    BY <1>4, <2>1, DecideKeeps DEF R!Reject
<1>5. CASE R!Reset(r, c)
  <2>1. Enterable(c, R!Open, k)
    BY RunConstants DEF Enterable, R!Entry, R!Open
  <2> QED
    BY <1>5, <2>1, DecideKeeps DEF R!Reset
<1> QED
  BY <1>3, <1>4, <1>5 DEF R!Review, R!Merge, R!Manual

LEMMA RunsNext == RunsInv /\ R!Next => RunsInv'
<1> SUFFICES ASSUME RunsInv, R!Next PROVE RunsInv'
  OBVIOUS
<1>1. CASE \E r \in RunIds : R!Analyze(r)
  <2>1. PICK r \in RunIds : R!Analyze(r)
    BY <1>1
  <2> QED
    BY <2>1, LeaseKeeps, FinishKeeps, LateThreadKeeps DEF R!Analyze
<1>2. CASE \E r \in RunIds, c \in R!Candidates : R!Review(r, c)
  BY <1>2, ReviewKeeps
<1>3. CASE R!Read
  <2>1. PICK r \in RunIds : TRUE
    BY <1>3 DEF R!Read
  <2> QED
    BY <1>3, <2>1, LeaseKeeps
<1>4. CASE R!Crash
  <2>1. CASE RunIds = {}
    <3>1. R!TypeOK'
      BY <1>4 DEF RunsInv, R!TypeOK, R!Crash
    <3> QED
      BY <2>1, <3>1 DEF RunsInv
  <2>2. CASE RunIds # {}
    BY <1>4, <2>2, LeaseKeeps
  <2> QED
    BY <2>1, <2>2
<1> QED
  BY <1>1, <1>2, <1>3, <1>4 DEF R!Next

LEMMA RunsInit == R!Init => RunsInv
<1> SUFFICES ASSUME R!Init PROVE RunsInv
  OBVIOUS
<1> DEFINE b == [c \in R!Candidates |-> R!Absent]
<1>1. R!Absent \in R!Entry /\ R!Absent.mark = "absent"
  BY RunConstants DEF R!Absent, R!Entry
<1>2. b \in [R!Candidates -> R!Entry] /\ \A c \in R!Candidates : b[c].mark = "absent"
  BY <1>1
<1> HIDE DEF b
<1>3. Merged(b) = {} /\ Rejected(b) = {}
  BY <1>2 DEF Merged, R!MergedIn, Rejected, R!RejectedIn
<1>4. Sound(b)
  BY <1>2, <1>3 DEF Sound
<1>5. R!Valid(b)
  <2>1. ASSUME NEW n \in RunNodes PROVE Cardinality(R!Component(Merged(b), n)) <= MaxCluster
    <3>1. R!Component(Merged(b), n) = {n}
      BY <1>3 DEF R!Component, R!Closed
    <3>2. Cardinality(R!Component(Merged(b), n)) = 1
      BY <3>1, FS_Singleton
    <3>3. MaxCluster \in Nat \ {0}
      BY ResolutionAssumption DEF R!ResolutionConstants
    <3> QED
      BY <3>2, <3>3
  <2> QED
    BY <1>3, <1>4, <2>1, ValidMeans
<1>6. Excused(runsGraph, b, 0)
  BY <1>3 DEF Excused
<1>7. book = [r \in RunIds |-> b]
  BY DEF R!Init, b
<1>8. R!TypeOK
  <2>1. 0 \in 0 .. MaxDecisions
    BY RunConstants
  <2> QED
    BY <1>2, <1>7, <2>1 DEF R!Init, R!TypeOK
<1>9. ASSUME NEW r \in RunIds
      PROVE  HistoryIs(runsGraph, book[r], runsRevision[r], applied[r], runsStatus[r])
  <2>1. book[r] = b /\ runsRevision[r] = 0 /\ applied[r] = 0
    BY <1>7 DEF R!Init
  <2> QED
    BY <1>2, <1>3, <1>4, <1>5, <1>6, <2>1 DEF HistoryIs
<1> QED
  BY <1>8, <1>9 DEF RunsInv

----
(* What the invariant says.                                                 *)

LEMMA ClustersFollow == RunsInv => R!ClustersAreComponents
<1> SUFFICES ASSUME RunsInv, NEW r \in RunIds, NEW n \in RunNodes
             PROVE  LET o == R!Owner(book[r])  M == R!MergedIn(book[r]) IN
                      /\ R!Group(o, n) = R!Component(M, n)
                      /\ \/ o[n] = n /\ R!Group(o, n) = {n}
                         \/ \E c \in M :
                              /\ c \subseteq R!Component(M, n) /\ o[n] = book[r][c].keep
                              /\ \A d \in M : d \subseteq R!Component(M, n) =>
                                    book[r][d].order <= book[r][c].order
  BY DEF R!ClustersAreComponents
<1>1. Sound(book[r])
  BY DEF RunsInv, HistoryIs
<1>2. /\ Follows(book[r], MaxDecisions, R!Owner(book[r]))
      /\ Upto(book[r], MaxDecisions) = R!MergedIn(book[r])
  BY <1>1, OwnerFollows DEF Merged
<1> QED
  BY <1>2 DEF Follows

LEMMA RejectedApart == RunsInv => R!RejectedStayApart
<1> SUFFICES ASSUME RunsInv, NEW r \in RunIds, NEW n \in RunNodes, NEW c \in R!RejectedIn(book[r])
             PROVE  R!Cardinality(c \cap R!Component(R!MergedIn(book[r]), n)) <= 1
  BY DEF R!RejectedStayApart
<1> DEFINE b == book[r]
           S == c \cap R!Component(Merged(b), n)
<1>1. Sound(b) /\ R!Valid(b) /\ Merged(b) \in SUBSET SUBSET RunNodes /\ c \in SUBSET RunNodes
  BY DEF RunsInv, HistoryIs, Merged, R!MergedIn, R!RejectedIn, R!Candidates
<1>2. \A x, y \in c : y \in R!Component(Merged(b), x) => x = y
  BY <1>1, ValidMeans DEF Rejected
<1>3. \A x, y \in S : x = y
  <2>1. ASSUME NEW x \in S PROVE R!Component(Merged(b), x) = R!Component(Merged(b), n)
    BY <1>1, SameComponent
  <2> QED
    BY <1>2, <2>1
<1>4. Cardinality(S) <= 1
  <2>1. CASE S = {}
    BY <2>1, FS_EmptySet
  <2>2. CASE S # {}
    <3>1. PICK x \in S : S = {x}
      BY <1>3, <2>2
    <3> QED
      BY <3>1, FS_Singleton
  <2> QED
    BY <2>1, <2>2
<1> QED
  BY <1>4, RunsCardinality DEF Merged

\* Without a merge of its own a node is alone.
LEMMA AloneOrMerged ==
    ASSUME NEW M \in SUBSET SUBSET RunNodes, NEW n \in RunNodes
    PROVE  R!Component(M, n) = {n} \/ \E c \in M : n \in c
<1> SUFFICES ASSUME \A c \in M : n \notin c PROVE R!Component(M, n) = {n}
  OBVIOUS
<1>1. R!Closed({n}, M)
  BY DEF R!Closed
<1> QED
  BY <1>1, ComponentFacts

LEMMA BlockedApart == RunsInv => R!BlockedStayApart
<1> SUFFICES ASSUME RunsInv, NEW r \in RunIds, NEW n \in RunNodes, NEW p \in runsGraph.records,
                    p \subseteq R!Component(Merged(book[r]), n),
                    R!Cardinality(R!Component(Merged(book[r]), n)) # 1
             PROVE  \E c \in R!Automatic(r) : \E m \in c :
                        p \subseteq R!Component(R!Automatic(r), m)
  BY DEF R!BlockedStayApart, Merged
<1> DEFINE b == book[r]
           M == Merged(b)
           own == {c \in M : b[c].order <= applied[r]}
<1>1. Sound(b) /\ Excused(runsGraph, b, applied[r]) /\ M \in SUBSET SUBSET RunNodes /\ own \in SUBSET M
  BY DEF RunsInv, HistoryIs, Merged, R!MergedIn, R!Candidates
<1>2. R!Automatic(r) = own
  BY DEF R!Automatic, Merged
<1>3. \A c \in M : c \subseteq R!Component(M, n) => c \in own
  BY <1>1 DEF Excused, Held
<1>4. PICK c \in M : n \in c
  <2>1. R!Component(M, n) # {n}
    <3>1. Cardinality(R!Component(M, n)) # 1
      BY RunsCardinality
    <3>2. Cardinality({n}) = 1
      BY FS_Singleton
    <3> QED
      BY <3>1, <3>2
  <2> QED
    BY <1>1, <2>1, AloneOrMerged
<1>5. /\ R!Component(M, n) \subseteq RunNodes /\ n \in R!Component(M, n)
      /\ R!Closed(R!Component(M, n), M)
  BY <1>1, ComponentFacts
<1>6. c \in own
  BY <1>3, <1>4, <1>5 DEF R!Closed
<1>7. R!Component(M, n) \subseteq R!Component(own, n)
  <2>1. /\ n \in R!Component(own, n) /\ R!Component(own, n) \subseteq R!Component(M, n)
        /\ R!Closed(R!Component(own, n), own)
    BY <1>1, ComponentFacts, SmallerComponent
  <2>2. ASSUME NEW e \in M, e \cap R!Component(own, n) # {} PROVE e \subseteq R!Component(own, n)
    <3>1. e \subseteq R!Component(M, n)
      BY <1>5, <2>1, <2>2 DEF R!Closed
    <3>2. e \in own
      BY <1>3, <3>1
    <3> QED
      BY <2>1, <2>2, <3>2 DEF R!Closed
  <2>3. R!Closed(R!Component(own, n), M)
    BY <2>2 DEF R!Closed
  <2>4. R!Component(own, n) \in SUBSET RunNodes
    BY <1>5, <2>1
  <2>5. \A S \in SUBSET RunNodes : n \in S /\ R!Closed(S, M) => R!Component(M, n) \subseteq S
    BY <1>1, ComponentFacts
  <2> HIDE DEF M, own
  <2> QED
    BY <2>1, <2>3, <2>4, <2>5
<1> QED
  BY <1>2, <1>4, <1>6, <1>7

LEMMA CanBeTakenBack == RunsInv => R!Reversible
<1> SUFFICES ASSUME RunsInv, NEW r \in RunIds, NEW c \in R!Candidates,
                    book[r][c].mark \in {"merged", "rejected"}
             PROVE  R!MayDecide(r, c, R!Open)
  BY DEF R!Reversible
<1> DEFINE b == book[r]
           d == [book[r] EXCEPT ![c] = R!Open]
<1>1. Sound(b) /\ R!Valid(b) /\ runsStatus[r] = "ready"
  BY DEF RunsInv, HistoryIs
<1>2. R!Open \in R!Entry /\ R!Open.mark = "open"
  BY RunConstants DEF R!Open, R!Entry
<1>3. /\ d \in [R!Candidates -> R!Entry] /\ d[c] = R!Open
      /\ \A x \in R!Candidates : x # c => d[x] = b[x]
  BY <1>1, <1>2 DEF Sound
<1> HIDE DEF d
<1>4. Merged(d) = Merged(b) \ {c} /\ Rejected(d) = Rejected(b) \ {c}
  BY <1>2, <1>3 DEF Merged, R!MergedIn, Rejected, R!RejectedIn
<1>5. \A x \in Merged(d) : x \in Merged(b) /\ d[x] = b[x]
  BY <1>3, <1>4 DEF Merged, R!MergedIn
<1>6. Sound(d)
  BY <1>1, <1>3, <1>5 DEF Sound
<1>7. R!Valid(d)
  BY <1>1, <1>4, <1>6, ValidShrinks
<1> QED
  BY <1>1, <1>2, <1>7 DEF R!MayDecide, R!Excluded, R!Entered, d

----
(* The theorem.                                                             *)

RunsKeptSound == part = "runs" => RunsInv

LEMMA RunsStay == RunsKeptSound /\ [MCNext]_allVars => RunsKeptSound'
<1> SUFFICES ASSUME RunsKeptSound, [MCNext]_allVars, part' = "runs" PROVE RunsInv'
  BY DEF RunsKeptSound
<1>1. CASE part = "runs" /\ R!Next
  BY <1>1, RunsNext DEF RunsKeptSound
<1>2. CASE part' = part /\ UNCHANGED runsVars
  <2>1. UNCHANGED <<runsGraph, runsRevision, book, applied, runsStatus, lease, runsTask, runsLate>>
    BY <1>2 DEF runsVars
  <2>2. RunsInv
    BY <1>2 DEF RunsKeptSound
  <2>3. R!TypeOK'
    BY <2>1, <2>2 DEF RunsInv, R!TypeOK
  <2> QED
    BY <2>1, <2>2, <2>3, RunsKept
<1> QED
  BY <1>1, <1>2 DEF MCNext, allVars, runsVars

(* Whatever people merge, reject and reset on whatever graphs, in any order *)
(* and with the analysis failing, expiring or being cancelled at any point: *)
(* the replay of the decisions gives the connected components of the merges *)
(* under their latest merge, nothing brings together what was rejected or   *)
(* what the identity guard keeps apart, and every decision can be taken     *)
(* back (projection.memberships, store.decide).                             *)
THEOREM ClustersStayDecided == MCSpec => []ClustersFollowDecisions
<1>1. MCInit => RunsKeptSound
  BY RunsInit DEF MCInit, RunsKeptSound
<1>2. RunsKeptSound => ClustersFollowDecisions
  BY ClustersFollow, RejectedApart, BlockedApart, CanBeTakenBack
     DEF RunsKeptSound, RunsInv, ClustersFollowDecisions
<1> QED
  BY <1>1, <1>2, RunsStay, PTL DEF MCSpec

\* Only decisions change what a settled run says, and nothing unsettles it.
LEMMA SettledStep ==
    ASSUME R!TypeOK, R!Next \/ UNCHANGED runsVars PROVE R!SettledStays
<1> DEFINE Stays(q) ==
        /\ runsStatus[q] \in {"ready", "failed"} => runsStatus'[q] = runsStatus[q]
        /\ runsStatus[q] # "analyzing" /\ book'[q] # book[q] => runsRevision'[q] = runsRevision[q] + 1
<1> SUFFICES ASSUME NEW q \in RunIds PROVE Stays(q)
  BY DEF R!SettledStays
<1>1. ASSUME NEW r \in RunIds, lease[r] = "live", R!Ready(r) \/ (R!Write(r, "failed") /\ UNCHANGED book)
      PROVE  Stays(q)
  <2>1. runsStatus[r] = "analyzing"
    BY <1>1 DEF R!TypeOK
  <2>2. q # r => runsStatus'[q] = runsStatus[q] /\ book'[q] = book[q]
    BY <1>1 DEF R!TypeOK, R!Ready, R!Write
  <2> QED
    BY <2>1, <2>2
<1>2. CASE \E r \in RunIds : R!Analyze(r)
  <2>1. PICK r \in RunIds : R!Analyze(r)
    BY <1>2
  <2>2. CASE R!Create(r)
    BY <2>2 DEF R!Create, R!AfterExpiry, R!Expired, R!TypeOK
  <2>3. CASE R!Lapse(r) \/ R!Raise(r) \/ R!Cancel(r)
    BY <2>3 DEF R!Lapse, R!Raise, R!Cancel
  <2>4. CASE R!Finish(r)
    BY <1>1, <2>4 DEF R!Finish, R!MayFinish
  <2>5. CASE R!LateThread(r)
    <3>1. \/ lease[r] = "live" /\ (R!Ready(r) \/ (R!Write(r, "failed") /\ UNCHANGED book))
          \/ UNCHANGED <<runsStatus, book>>
      BY <2>5 DEF R!LateThread, R!MayFinish
    <3> QED
      BY <1>1, <3>1
  <2>6. CASE R!Fail(r)
    <3>1. \/ lease[r] = "live" /\ R!Write(r, "failed") /\ UNCHANGED book
          \/ UNCHANGED <<runsStatus, book>>
      BY <2>6 DEF R!Fail, R!MayFinish
    <3> QED
      BY <1>1, <3>1
  <2> QED
    BY <2>1, <2>2, <2>3, <2>4, <2>5, <2>6 DEF R!Analyze
<1>3. CASE \E r \in RunIds, c \in R!Candidates : R!Review(r, c)
  <2>1. PICK r \in RunIds : \E c, e : R!Decide(r, c, e)
    BY <1>3 DEF R!Review, R!Merge, R!Manual, R!Reject, R!Reset
  <2> QED
    BY <2>1 DEF R!Decide, R!TypeOK
<1>4. CASE R!Read \/ R!Crash \/ UNCHANGED runsVars
  BY <1>4 DEF R!Read, R!AfterExpiry, R!Expired, R!Crash, R!TypeOK, runsVars
<1> QED
  BY <1>2, <1>3, <1>4 DEF R!Next

(* A run that failed, by its lease for one, never becomes ready, a ready    *)
(* one is never failed or analyzed again, and what either says of its       *)
(* candidates changes with its revision only (resolution/store.py:119).     *)
THEOREM SettledRunsStay == MCSpec => [][part = "runs" => R!SettledStays]_runsVars
<1>1. MCInit => RunsKeptSound
  BY RunsInit DEF MCInit, RunsKeptSound
<1>2. RunsKeptSound /\ [MCNext]_allVars => [part = "runs" => R!SettledStays]_runsVars
  <2> SUFFICES ASSUME RunsKeptSound, [MCNext]_allVars, part = "runs" PROVE R!SettledStays
    OBVIOUS
  <2>1. R!TypeOK
    BY DEF RunsKeptSound, RunsInv
  <2>2. R!Next \/ UNCHANGED runsVars
    BY DEF MCNext, allVars
  <2> QED
    BY <2>1, <2>2, SettledStep
<1> QED
  BY <1>1, <1>2, RunsStay, PTL DEF MCSpec

----
(* The engine.  Of the five parts of the invariant, Waiting says whom a     *)
(* worker waits for, Budget what was charged and who was denied a request,  *)
(* Ruled what a decision rests on, Clustered what the groups rest on.       *)

Verdicts == {"same", "different", "uncertain"}
Decision == [verdict : Verdicts, origin : {"rule", "exhausted", "model", "failed"},
             proposal : BOOLEAN]
Race == [state : {"none", "running", "chosen", "uncertain", "failed"}, choice : SUBSET Mentions]

\* Contest, Key and Group, of a corpus and of a partition.
ContestIn(i, p) ==
    IF p[2] \in i.rivals[p[1]] THEN p[1] ELSE IF p[1] \in i.rivals[p[2]] THEN p[2] ELSE None
KeyIn(i, p) == IF ContestIn(i, p) # None THEN <<ContestIn(i, p)>> ELSE p
GroupIn(o, m) == {x \in Mentions : o[x] = o[m]}

\* The pairs workers have taken.
Taken(i, n) == {i.order[k] : k \in 1 .. n - 1}

\* The only worker that compares pairs nobody retrieved.
Main == CHOOSE w \in Workers : TRUE

EngineTyped ==
    /\ input \in EngineInputs
    /\ phase \in {"compare", "merge", "done", "stopped"}
    /\ next \in 1 .. Len(input.order) + 1
    /\ worker \in [Workers -> E!Pairs \cup {None}]
    /\ shared \in [Mentions -> Race]
    /\ DOMAIN decisions \subseteq E!Pairs
    /\ \A p \in DOMAIN decisions : decisions[p] \in Decision
    /\ owner \in [Mentions -> Mentions] /\ accepted \subseteq E!Pairs /\ todo \subseteq E!Pairs

Waiting ==
    /\ \A w \in Workers : worker[w] # None =>
        /\ worker[w] \notin DOMAIN decisions /\ input.rule[worker[w]] = None
        /\ KeyIn(input, worker[w]) \in charged
        /\ phase \in {"compare", "merge"}
        /\ \A v \in Workers : worker[v] = worker[w] => v = w
        /\ phase = "compare" => worker[w] \in Taken(input, next)
        /\ phase = "merge" => w = Main /\ Cardinality(DOMAIN decisions) < MaxPairs
    /\ \A m \in Mentions : shared[m].state = "running" =>
        \E w \in Workers : worker[w] # None /\ ContestIn(input, worker[w]) = m
    /\ phase = "compare" =>
        /\ DOMAIN decisions \subseteq Taken(input, next)
        /\ Taken(input, next) \subseteq DOMAIN decisions \cup {worker[w] : w \in Workers}
    /\ phase = "merge" =>
        /\ next = Len(input.order) + 1
        /\ Taken(input, next) \subseteq DOMAIN decisions

Budget ==
    /\ IsFiniteSet(charged) /\ calls = Cardinality(charged) /\ calls <= MaxCalls
    /\ sent \subseteq charged
    /\ IsFiniteSet(DOMAIN decisions) /\ Cardinality(DOMAIN decisions) <= MaxPairs
    /\ phase = "compare" => charged \subseteq {KeyIn(input, p) : p \in Taken(input, next)}
    /\ \A p \in DOMAIN decisions :
        decisions[p].origin \in {"model", "failed"} => KeyIn(input, p) \in charged
    /\ \A i \in 1 .. Len(input.order) :
        input.order[i] \in DOMAIN decisions /\ decisions[input.order[i]].origin = "exhausted" =>
            /\ calls >= MaxCalls
            /\ \A k \in charged : \E h \in 1 .. i - 1 : KeyIn(input, input.order[h]) = k

Ruled ==
    /\ \A m \in Mentions : shared[m].choice # {} =>
        shared[m].state = "chosen" /\ \E c \in input.rivals[m] : shared[m].choice = {c}
    /\ \A p \in DOMAIN decisions :
        /\ input.rule[p] # None => decisions[p].verdict = input.rule[p]
        /\ decisions[p].origin = "model" /\ decisions[p].verdict = "same" =>
            input.policy = "apply" /\ {p[1], p[2]} \cap input.overflow = {}
        /\ decisions[p].origin = "model" /\ (decisions[p].verdict = "same" \/ decisions[p].proposal)
           /\ ContestIn(input, p) # None =>
            /\ shared[ContestIn(input, p)].choice # {}
            /\ shared[ContestIn(input, p)].choice \subseteq {p[1], p[2]}

Clustered ==
    /\ \A m, n \in Mentions : m < n /\ owner[m] = owner[n] =>
        <<m, n>> \in DOMAIN decisions /\ decisions[<<m, n>>].verdict = "same"
    /\ \A m \in Mentions : Cardinality(GroupIn(owner, m)) <= MaxCluster
    /\ \A q \in accepted : owner[q[1]] = owner[q[2]]
    /\ \A m, n \in Mentions : m # n /\ owner[m] = owner[n] =>
        \E q \in accepted : m \in {q[1], q[2]}

EngineInv == EngineTyped /\ Waiting /\ Budget /\ Ruled /\ Clustered

----
(* Corpora and pairs.                                                       *)

LEMMA SameCardinality == \A S : E!Cardinality(S) = Cardinality(S)
BY DEF E!Cardinality, Cardinality

LEMMA EngineConstants ==
    /\ Mentions \subseteq Nat /\ IsFiniteSet(Mentions) /\ IsFiniteSet(Workers) /\ Workers # {}
    /\ MaxCalls \in Nat /\ MaxPairs \in Nat /\ MaxCluster \in Nat \ {0}
    /\ None \notin E!Pairs /\ None \notin Mentions /\ None \notin Verdicts
BY ResolutionAssumption
   DEF ResolutionAssumption, E!EngineAssumption, E!IsFiniteSet, IsFiniteSet, Verdicts

LEMMA CorpusFacts ==
    ASSUME NEW i \in EngineInputs
    PROVE  /\ Len(i.order) \in Nat /\ Len(i.order) <= MaxPairs
           /\ \A k \in 1 .. Len(i.order) : i.order[k] \in E!Pairs
           /\ \A j, k \in 1 .. Len(i.order) : i.order[j] = i.order[k] => j = k
           /\ i.rule \in [E!Pairs -> Verdicts \cup {"raise", None}]
           /\ i.rivals \in [Mentions -> SUBSET Mentions]
           /\ \A m \in Mentions : m \notin i.rivals[m]
           /\ \A p \in i.apart : p \in E!Pairs /\ i.rule[p] \in {"different", "uncertain"}
<1>1. /\ i.order \in Seq(E!Pairs) /\ E!IsInjective(i.order) /\ Len(i.order) <= MaxPairs
      /\ i.rule \in [E!Pairs -> {"same", "different", "uncertain", "raise", None}]
      /\ i.rivals \in [Mentions -> SUBSET Mentions] /\ \A m \in Mentions : m \notin i.rivals[m]
      /\ i.apart \subseteq {p \in E!Pairs : i.rule[p] \in {"different", "uncertain"}}
  BY ResolutionAssumption DEF ResolutionAssumption, E!EngineAssumption
<1>2. Len(i.order) \in Nat /\ i.order \in [1 .. Len(i.order) -> E!Pairs]
  BY <1>1
<1> QED
  BY <1>1, <1>2 DEF E!IsInjective, Verdicts

LEMMA PairFacts ==
    ASSUME NEW p \in E!Pairs
    PROVE  /\ p = <<p[1], p[2]>> /\ p[1] \in Mentions /\ p[2] \in Mentions
           /\ p[1] \in Nat /\ p[2] \in Nat /\ p[1] < p[2]
<1>1. p \in Mentions \X Mentions /\ p[1] < p[2]
  BY DEF E!Pairs
<1>2. p = <<p[1], p[2]>> /\ p[1] \in Mentions /\ p[2] \in Mentions
  BY <1>1
<1> QED
  BY <1>1, <1>2, EngineConstants

\* A competition is a mention's, one of the pair's, for the other.
LEMMA ContestFacts ==
    ASSUME NEW i \in EngineInputs, NEW p \in E!Pairs
    PROVE  /\ ContestIn(i, p) \in Mentions \cup {None}
           /\ ContestIn(i, p) \in Mentions =>
                ContestIn(i, p) \in {p[1], p[2]} /\ ContestIn(i, p) # None
BY PairFacts, CorpusFacts, EngineConstants DEF ContestIn

LEMMA OfInput ==
    /\ \A p : E!Contest(p) = ContestIn(input, p) /\ E!Key(p) = KeyIn(input, p)
    /\ \A m : E!Group(m) = GroupIn(owner, m)
    /\ \A m : E!Runs(m) <=> shared[m].state = "running"
BY DEF E!Contest, ContestIn, E!Key, KeyIn, E!Group, GroupIn, E!Runs

\* The pairs taken: finite, fewer than there are, and none twice.
LEMMA TakenFacts ==
    ASSUME NEW i \in EngineInputs, NEW n \in 1 .. Len(i.order) + 1
    PROVE  /\ Taken(i, n) \subseteq E!Pairs
           /\ IsFiniteSet(Taken(i, n)) /\ Cardinality(Taken(i, n)) <= MaxPairs
           /\ n <= Len(i.order) =>
                /\ i.order[n] \in E!Pairs /\ i.order[n] \notin Taken(i, n)
                /\ Taken(i, n + 1) = Taken(i, n) \cup {i.order[n]}
<1>0. /\ Len(i.order) \in Nat /\ Len(i.order) <= MaxPairs
      /\ \A k \in 1 .. Len(i.order) : i.order[k] \in E!Pairs
      /\ \A j, k \in 1 .. Len(i.order) : i.order[j] = i.order[k] => j = k
  BY CorpusFacts
<1>1. IsFiniteSet(1 .. n - 1) /\ Cardinality(1 .. n - 1) <= MaxPairs
  <2>1. n \in Int /\ n - 1 \in Int /\ n - 1 <= MaxPairs /\ 0 <= MaxPairs /\ MaxPairs \in Int
    BY <1>0, EngineConstants
  <2>2. \A k \in Int : IsFiniteSet(1 .. k) /\ Cardinality(1 .. k) = IF 1 > k THEN 0 ELSE k - 1 + 1
    BY FS_Interval
  <2> QED
    BY <2>1, <2>2
<1>2. IsFiniteSet(Taken(i, n)) /\ Cardinality(Taken(i, n)) <= Cardinality(1 .. n - 1)
  <2> DEFINE place == [k \in 1 .. n - 1 |-> i.order[k]]
  <2>1. place \in Surjection(1 .. n - 1, Taken(i, n))
    BY DEF Surjection, Taken
  <2> QED
    BY <1>1, <2>1, FS_Surjection
<1>3. Cardinality(Taken(i, n)) \in Nat /\ Cardinality(1 .. n - 1) \in Nat
  BY <1>1, <1>2, FS_CardinalityType
<1>4. Cardinality(Taken(i, n)) <= MaxPairs
  BY <1>1, <1>2, <1>3, EngineConstants
<1>5. Taken(i, n) \subseteq E!Pairs
  <2>1. \A k \in 1 .. n - 1 : k \in 1 .. Len(i.order)
    BY <1>0
  <2> QED
    BY <1>0, <2>1 DEF Taken
<1>6. ASSUME n <= Len(i.order)
      PROVE  i.order[n] \notin Taken(i, n) /\ Taken(i, n + 1) = Taken(i, n) \cup {i.order[n]}
  <2>1. n \in 1 .. Len(i.order) /\ 1 .. (n + 1) - 1 = (1 .. n - 1) \cup {n}
    BY <1>0, <1>6
  <2>2. \A k \in 1 .. n - 1 : k \in 1 .. Len(i.order) /\ k # n
    BY <1>0, <1>6
  <2>3. i.order[n] \notin Taken(i, n)
    BY <1>0, <2>1, <2>2 DEF Taken
  <2>4. Taken(i, n + 1) = Taken(i, n) \cup {i.order[n]}
    BY <2>1 DEF Taken
  <2> QED
    BY <2>3, <2>4
<1> QED
  BY <1>0, <1>2, <1>4, <1>5, <1>6

----
(* Deciding a pair.                                                         *)

Grows(p) ==
    /\ DOMAIN decisions' = DOMAIN decisions \cup {p}
    /\ \A q \in DOMAIN decisions : decisions'[q] = decisions[q]

\* What a decision may rest on: a rule, or an answer that says so.
Rests(p) ==
    /\ decisions'[p] \in Decision
    /\ input.rule[p] # None => decisions'[p].verdict = input.rule[p]
    /\ decisions'[p].origin = "model" /\ decisions'[p].verdict = "same" =>
        input.policy = "apply" /\ {p[1], p[2]} \cap input.overflow = {}

LEMMA DecideFacts ==
    ASSUME NEW p, p \notin DOMAIN decisions, NEW v \in Verdicts,
           NEW o \in {"rule", "exhausted", "model", "failed"}, E!Decide(p, v, o),
           input.rule[p] = IF o = "rule" THEN v ELSE None
    PROVE  /\ Grows(p) /\ Rests(p) /\ decisions'[p].origin = o
           /\ decisions'[p].verdict = "same" \/ decisions'[p].proposal => v = "same"
<1>1. /\ DOMAIN decisions' = DOMAIN decisions \cup {p}
      /\ \A q \in DOMAIN decisions : q # p => decisions'[q] = decisions[q]
      /\ decisions'[p] = E!Settle(p, v, o)
  BY DEF E!Decide
<1>2. Grows(p)
  BY <1>1 DEF Grows
<1> DEFINE proposed == /\ v = "same" /\ o = "model"
                       /\ input.policy # "apply" \/ {p[1], p[2]} \cap input.overflow # {}
<1>3. decisions'[p] = [verdict |-> IF proposed THEN "uncertain" ELSE v, origin |-> o, proposal |-> proposed]
  BY <1>1 DEF E!Settle
<1>4. proposed \in BOOLEAN /\ (IF proposed THEN "uncertain" ELSE v) \in Verdicts
  BY DEF Verdicts
<1>5. decisions'[p] \in Decision
  <2> HIDE DEF proposed
  <2> QED
    BY <1>3, <1>4 DEF Decision
<1>6. /\ decisions'[p].origin = o
      /\ decisions'[p].verdict = IF proposed THEN "uncertain" ELSE v
      /\ decisions'[p].proposal = proposed
  <2> HIDE DEF proposed
  <2> QED
    BY <1>3
<1>7. CASE proposed
  <2>1. v = "same" /\ o = "model" /\ decisions'[p].verdict = "uncertain"
    BY <1>6, <1>7
  <2>2. input.rule[p] = None
    BY <2>1
  <2> QED
    BY <1>2, <1>5, <1>6, <2>1, <2>2 DEF Rests
<1>8. CASE ~proposed
  <2>1. decisions'[p].verdict = v /\ ~decisions'[p].proposal
    <3> HIDE DEF proposed
    <3> QED
      BY <1>6, <1>8
  <2> QED
    BY <1>2, <1>5, <1>6, <1>8, <2>1 DEF Rests
<1> QED
  BY <1>7, <1>8

\* Groups rest on decisions that stay as they are.
LEMMA ClusteredStays ==
    ASSUME Clustered, UNCHANGED <<owner, accepted>>,
           \/ UNCHANGED decisions
           \/ \E p : Grows(p)
    PROVE  Clustered'
BY ZenonT(40) DEF Clustered, Grows, GroupIn

\* What the competitions must not do to the pairs they decided.
Settled ==
    /\ shared' \in [Mentions -> Race]
    /\ \A m \in Mentions : shared'[m].choice # {} =>
        shared'[m].state = "chosen" /\ \E c \in input.rivals[m] : shared'[m].choice = {c}
    /\ \A m \in Mentions : shared[m].choice # {} => shared'[m] = shared[m]

LEMMA RuledStays ==
    ASSUME EngineTyped, Ruled, UNCHANGED <<input, decisions>>, Settled
    PROVE  Ruled'
<1>1. \A p \in DOMAIN decisions : ContestIn(input, p) \in Mentions \cup {None}
  BY ContestFacts DEF EngineTyped
<1> QED
  BY <1>1 DEF Ruled, Settled

LEMMA RuledGrows ==
    ASSUME EngineTyped, Ruled, UNCHANGED input, Settled,
           NEW p, p \in E!Pairs, p \notin DOMAIN decisions, Grows(p), Rests(p),
           /\ decisions'[p].origin = "model" /\ ContestIn(input, p) # None
           /\ decisions'[p].verdict = "same" \/ decisions'[p].proposal
           => /\ shared'[ContestIn(input, p)].choice # {}
              /\ shared'[ContestIn(input, p)].choice \subseteq {p[1], p[2]}
    PROVE  Ruled'
<1>1. \A q \in DOMAIN decisions : ContestIn(input, q) \in Mentions \cup {None}
  BY ContestFacts DEF EngineTyped
<1>2. ASSUME NEW q \in DOMAIN decisions'
      PROVE  /\ input.rule[q] # None => decisions'[q].verdict = input.rule[q]
             /\ decisions'[q].origin = "model" /\ decisions'[q].verdict = "same" =>
                 input.policy = "apply" /\ {q[1], q[2]} \cap input.overflow = {}
             /\ decisions'[q].origin = "model"
                /\ (decisions'[q].verdict = "same" \/ decisions'[q].proposal)
                /\ ContestIn(input, q) # None =>
                 /\ shared'[ContestIn(input, q)].choice # {}
                 /\ shared'[ContestIn(input, q)].choice \subseteq {q[1], q[2]}
  <2>1. CASE q = p
    BY <2>1 DEF Rests
  <2>2. CASE q # p
    <3>1. q \in DOMAIN decisions /\ decisions'[q] = decisions[q]
      BY <2>2 DEF Grows
    <3> QED
      BY <1>1, <3>1 DEF Ruled, Settled
  <2> QED
    BY <2>1, <2>2
<1> QED
  BY <1>2 DEF Ruled, Settled

\* A step that opens a competition or fails one.
LEMMA SettledBy ==
    ASSUME EngineTyped, Ruled, NEW m \in Mentions, shared[m].choice = {},
           NEW s \in {"running", "failed"}, shared' = [shared EXCEPT ![m] = E!Competition(s, {})]
    PROVE  Settled
<1>1. E!Competition(s, {}) \in Race /\ E!Competition(s, {}).choice = {}
  BY DEF E!Competition, Race
<1>2. shared \in [Mentions -> Race]
  BY DEF EngineTyped
<1>3. shared' \in [Mentions -> Race] /\ shared'[m].choice = {}
  BY <1>1, <1>2
<1>4. \A x \in Mentions : x # m => shared'[x] = shared[x]
  BY <1>2
<1> QED
  BY <1>3, <1>4 DEF Ruled, Settled

LEMMA SettledSame ==
    ASSUME EngineTyped, Ruled, UNCHANGED shared
    PROVE  Settled
BY DEF EngineTyped, Ruled, Settled

----
(* Asking for a pair.                                                       *)

\* What take and compare know of the pair before they ask or answer.
Turn(w, p) ==
    /\ w \in Workers /\ worker[w] = None
    /\ p \in E!Pairs /\ p \notin DOMAIN decisions /\ \A v \in Workers : worker[v] # p
    /\ phase \in {"compare", "merge"} /\ UNCHANGED <<input, phase, owner, accepted, todo>>
    /\ phase = "compare" =>
        next <= Len(input.order) /\ p = input.order[next] /\ next' = next + 1
    /\ phase = "merge" =>
        /\ next' = next /\ w = Main /\ \A v \in Workers : worker[v] = None
        /\ Cardinality(DOMAIN decisions) < MaxPairs

LEMMA TurnTakes ==
    ASSUME EngineInv, NEW w, NEW p, Turn(w, p)
    PROVE  /\ next' \in 1 .. Len(input.order) + 1
           /\ Taken(input, next') \subseteq E!Pairs
           /\ phase = "compare" => Taken(input, next') = Taken(input, next) \cup {p}
           /\ phase = "compare" => Cardinality(Taken(input, next')) <= MaxPairs
                                   /\ IsFiniteSet(Taken(input, next'))
<1>1. input \in EngineInputs /\ next \in 1 .. Len(input.order) + 1
  BY DEF EngineInv, EngineTyped
<1>2. Len(input.order) \in Nat
  BY <1>1, CorpusFacts
<1>3. next' \in 1 .. Len(input.order) + 1
  BY <1>1, <1>2 DEF Turn
<1> QED
  BY <1>1, <1>3, TakenFacts DEF Turn

LEMMA AskKeeps ==
    ASSUME EngineInv, NEW w, NEW p, Turn(w, p), E!Ask(w, p)
    PROVE  EngineInv'
<1> DEFINE key == KeyIn(input, p)
           race == ContestIn(input, p)
<1>1. EngineTyped /\ Waiting /\ Budget /\ Ruled /\ Clustered
  BY DEF EngineInv
<1>2. /\ w \in Workers /\ worker[w] = None /\ p \in E!Pairs /\ p \notin DOMAIN decisions
      /\ \A v \in Workers : worker[v] # p
      /\ p # None /\ input \in EngineInputs
      /\ UNCHANGED <<input, phase, owner, accepted, todo, decisions>>
  BY <1>1, EngineConstants DEF Turn, EngineTyped, E!Ask
<1>3. /\ input.rule[p] = None /\ (key \in charged \/ calls < MaxCalls)
      /\ worker' = [worker EXCEPT ![w] = p]
      /\ charged' = charged \cup {key}
      /\ calls' = IF key \in charged THEN calls ELSE calls + 1
      /\ sent' \subseteq sent \cup {key}
  BY OfInput DEF E!Ask
<1>4. \/ shared' = shared
      \/ /\ race # None /\ shared[race].state = "none"
         /\ shared' = [shared EXCEPT ![race] = E!Competition("running", {})]
  BY OfInput DEF E!Ask, E!Opens
<1> HIDE DEF key, race
<1>5. race \in Mentions \cup {None}
  BY <1>2, ContestFacts DEF race
<1>6. Settled
  <2>1. CASE shared' = shared
    BY <1>1, <2>1, SettledSame
  <2>2. CASE shared' # shared
    <3>1. race \in Mentions /\ shared[race].state = "none"
      BY <1>4, <1>5, <2>2
    <3>2. shared[race].choice = {}
      BY <1>1, <3>1 DEF Ruled
    <3> QED
      BY <1>1, <1>4, <2>2, <3>1, <3>2, SettledBy
  <2> QED
    BY <2>1, <2>2
<1>7. /\ worker' \in [Workers -> E!Pairs \cup {None}]
      /\ worker'[w] = p /\ \A v \in Workers : v # w => worker'[v] = worker[v]
  BY <1>1, <1>2, <1>3 DEF EngineTyped
<1>8. EngineTyped'
  BY <1>1, <1>2, <1>6, <1>7, TurnTakes DEF EngineTyped, Settled
<1>9. Waiting'
  <2>1. ASSUME NEW v \in Workers, worker'[v] # None
        PROVE  /\ worker'[v] \notin DOMAIN decisions /\ input.rule[worker'[v]] = None
               /\ KeyIn(input, worker'[v]) \in charged'
               /\ \A u \in Workers : worker'[u] = worker'[v] => u = v
               /\ phase = "compare" => worker'[v] \in Taken(input, next')
               /\ phase = "merge" => v = Main /\ Cardinality(DOMAIN decisions) < MaxPairs
    <3>1. CASE v = w
      BY <1>2, <1>3, <1>7, <3>1, TurnTakes DEF Turn, key
    <3>2. CASE v # w
      BY <1>1, <1>2, <1>3, <1>7, <2>1, <3>2, TurnTakes DEF Turn, Waiting
    <3> QED
      BY <3>1, <3>2
  <2>2. ASSUME NEW m \in Mentions, shared'[m].state = "running"
        PROVE  \E v \in Workers : worker'[v] # None /\ ContestIn(input, worker'[v]) = m
    <3>1. CASE shared[m].state = "running"
      <4>1. PICK v \in Workers : worker[v] # None /\ ContestIn(input, worker[v]) = m
        BY <1>1, <3>1 DEF Waiting
      <4> QED
        BY <1>2, <1>7, <4>1
    <3>2. CASE shared[m].state # "running"
      <4>1. shared \in [Mentions -> Race]
        BY <1>1 DEF EngineTyped
      <4>2. m = race
        BY <1>4, <2>2, <3>2, <4>1
      <4> QED
        BY <1>2, <1>7, <4>2 DEF race
    <3> QED
      BY <3>1, <3>2
  <2>3. ASSUME phase = "compare"
        PROVE  /\ DOMAIN decisions \subseteq Taken(input, next')
               /\ Taken(input, next') \subseteq DOMAIN decisions \cup {worker'[v] : v \in Workers}
    <3>1. Taken(input, next') = Taken(input, next) \cup {p}
      BY <2>3, TurnTakes
    <3>2. \A v \in Workers : worker[v] \in Taken(input, next) => worker[v] \in {worker'[u] : u \in Workers}
      BY <1>1, <1>2, <1>7, TakenFacts, EngineConstants DEF EngineTyped
    <3> QED
      BY <1>1, <1>2, <1>7, <2>3, <3>1, <3>2 DEF Waiting
  <2>4. phase = "merge" => next' = Len(input.order) + 1 /\ Taken(input, next') \subseteq DOMAIN decisions
    BY <1>1 DEF Turn, Waiting
  <2> QED
    BY <1>2, <2>1, <2>2, <2>3, <2>4 DEF Waiting, Turn
<1>10. Budget'
  <2>1. IsFiniteSet(charged) /\ calls = Cardinality(charged) /\ calls <= MaxCalls /\ calls \in Nat
    BY <1>1, FS_CardinalityType DEF Budget
  <2>2. /\ IsFiniteSet(charged') /\ calls' = Cardinality(charged') /\ calls' <= MaxCalls
        /\ sent' \subseteq charged'
    BY <1>1, <1>3, <2>1, FS_AddElement, EngineConstants DEF Budget
  <2>3. phase = "compare" => charged' \subseteq {KeyIn(input, q) : q \in Taken(input, next')}
    BY <1>1, <1>3, TurnTakes DEF Budget, key
  <2>4. ASSUME NEW i \in 1 .. Len(input.order), input.order[i] \in DOMAIN decisions,
               decisions[input.order[i]].origin = "exhausted"
        PROVE  /\ calls' >= MaxCalls
               /\ \A k \in charged' : \E h \in 1 .. i - 1 : KeyIn(input, input.order[h]) = k
    <3>1. calls >= MaxCalls /\ \A k \in charged : \E h \in 1 .. i - 1 : KeyIn(input, input.order[h]) = k
      BY <1>1, <2>4 DEF Budget
    <3>2. key \in charged
      BY <1>3, <2>1, <3>1, EngineConstants
    <3>3. calls' = calls /\ charged' = charged
      BY <1>3, <3>2
    <3> QED
      BY <3>1, <3>3
  <2> QED
    BY <1>1, <1>2, <1>3, <2>2, <2>3, <2>4 DEF Budget
<1>11. Ruled' /\ Clustered'
  BY <1>1, <1>2, <1>6, RuledStays, ClusteredStays
<1> QED
  BY <1>8, <1>9, <1>10, <1>11 DEF EngineInv

\* As many pairs are decided as may be.
LEMMA FewPairs ==
    ASSUME EngineInv, NEW p, Grows(p), NEW n \in 1 .. Len(input.order) + 1,
           \/ phase = "compare" /\ DOMAIN decisions' \subseteq Taken(input, n)
           \/ Cardinality(DOMAIN decisions) < MaxPairs
    PROVE  IsFiniteSet(DOMAIN decisions') /\ Cardinality(DOMAIN decisions') <= MaxPairs
<1>1. IsFiniteSet(DOMAIN decisions) /\ Cardinality(DOMAIN decisions) \in Nat /\ MaxPairs \in Nat
  BY FS_CardinalityType, EngineConstants DEF EngineInv, Budget
<1>2. CASE phase = "compare" /\ DOMAIN decisions' \subseteq Taken(input, n)
  <2>1. IsFiniteSet(Taken(input, n)) /\ Cardinality(Taken(input, n)) <= MaxPairs
    BY TakenFacts DEF EngineInv, EngineTyped
  <2>2. /\ IsFiniteSet(DOMAIN decisions')
        /\ Cardinality(DOMAIN decisions') <= Cardinality(Taken(input, n))
    BY <1>2, <2>1, FS_Subset
  <2>3. Cardinality(DOMAIN decisions') \in Nat /\ Cardinality(Taken(input, n)) \in Nat
    BY <2>1, <2>2, FS_CardinalityType
  <2> QED
    BY <1>1, <2>1, <2>2, <2>3
<1>3. CASE Cardinality(DOMAIN decisions) < MaxPairs
  <2>1. /\ IsFiniteSet(DOMAIN decisions \cup {p})
        /\ Cardinality(DOMAIN decisions \cup {p}) =
             IF p \in DOMAIN decisions THEN Cardinality(DOMAIN decisions) ELSE Cardinality(DOMAIN decisions) + 1
    BY <1>1, FS_AddElement
  <2> QED
    BY <1>1, <1>3, <2>1 DEF Grows
<1> QED
  BY <1>2, <1>3

LEMMA AnswerKeeps ==
    ASSUME EngineInv, NEW w, NEW p, Turn(w, p), E!Answer(p)
    PROVE  EngineInv'
<1>1. EngineTyped /\ Waiting /\ Budget /\ Ruled /\ Clustered
  BY DEF EngineInv
<1>2. /\ w \in Workers /\ worker[w] = None /\ p \in E!Pairs /\ p \notin DOMAIN decisions
      /\ \A v \in Workers : worker[v] # p
      /\ p # None /\ input \in EngineInputs
      /\ UNCHANGED <<input, phase, owner, accepted, todo, worker, calls, charged, shared, sent>>
  BY <1>1, EngineConstants DEF Turn, EngineTyped, E!Answer
<1>3. PICK v \in Verdicts, o \in {"rule", "exhausted"} :
        /\ E!Decide(p, v, o) /\ input.rule[p] = IF o = "rule" THEN v ELSE None
        /\ o = "exhausted" => calls >= MaxCalls
  BY OfInput DEF E!Answer, Verdicts
<1>4. Grows(p) /\ Rests(p) /\ decisions'[p].origin = o
  BY <1>2, <1>3, DecideFacts
<1>5. /\ DOMAIN decisions' = DOMAIN decisions \cup {p}
      /\ \A q \in DOMAIN decisions : decisions'[q] = decisions[q]
  BY <1>4 DEF Grows
<1>6. EngineTyped'
  <2>1. \A q \in DOMAIN decisions' : q \in E!Pairs /\ decisions'[q] \in Decision
    BY <1>1, <1>2, <1>4, <1>5 DEF EngineTyped, Rests
  <2> QED
    BY <1>1, <1>2, <2>1, TurnTakes DEF EngineTyped
<1>7. phase = "compare" => DOMAIN decisions' \subseteq Taken(input, next')
  BY <1>1, <1>5, TurnTakes DEF Waiting
<1>8. Waiting'
  <2>1. ASSUME NEW x \in Workers, worker[x] # None
        PROVE  /\ worker[x] \notin DOMAIN decisions'
               /\ phase = "compare" => worker[x] \in Taken(input, next')
               /\ phase # "merge"
    BY <1>1, <1>2, <1>5, <2>1, TurnTakes DEF Turn, Waiting
  <2>2. ASSUME phase = "compare"
        PROVE  Taken(input, next') \subseteq DOMAIN decisions' \cup {worker[x] : x \in Workers}
    BY <1>1, <1>5, <2>2, TurnTakes DEF Waiting
  <2>3. phase = "merge" => next' = Len(input.order) + 1 /\ Taken(input, next') \subseteq DOMAIN decisions'
    BY <1>1, <1>5 DEF Turn, Waiting
  <2> QED
    BY <1>1, <1>2, <1>7, <2>1, <2>2, <2>3 DEF Waiting
<1>9. Budget'
  <2>1. IsFiniteSet(DOMAIN decisions') /\ Cardinality(DOMAIN decisions') <= MaxPairs
    BY <1>4, <1>7, FewPairs, TurnTakes DEF Turn
  <2>2. phase = "compare" => charged \subseteq {KeyIn(input, q) : q \in Taken(input, next')}
    BY <1>1, TurnTakes DEF Budget
  <2>3. ASSUME NEW i \in 1 .. Len(input.order), input.order[i] \in DOMAIN decisions',
               decisions'[input.order[i]].origin = "exhausted"
        PROVE  /\ calls >= MaxCalls
               /\ \A k \in charged : \E h \in 1 .. i - 1 : KeyIn(input, input.order[h]) = k
    <3>1. CASE input.order[i] = p
      <4>1. next \in 1 .. Len(input.order) + 1 /\ Len(input.order) \in Nat
        BY <1>1, <1>2, CorpusFacts DEF EngineTyped
      <4>2. phase # "merge"
        <5>1. i \in 1 .. (Len(input.order) + 1) - 1
          BY <4>1
        <5>2. p \in Taken(input, Len(input.order) + 1)
          BY <3>1, <5>1 DEF Taken
        <5> QED
          BY <1>1, <1>2, <5>2 DEF Waiting
      <4>3. phase = "compare" /\ next \in 1 .. Len(input.order) /\ input.order[next] = p
        BY <4>1, <4>2 DEF Turn
      <4>4. i = next
        BY <1>2, <3>1, <4>3, CorpusFacts
      <4>5. charged \subseteq {KeyIn(input, q) : q \in Taken(input, i)}
        BY <1>1, <4>3, <4>4 DEF Budget
      <4>6. calls >= MaxCalls
        BY <1>3, <1>4, <2>3, <3>1
      <4> QED
        BY <4>5, <4>6 DEF Taken
    <3>2. CASE input.order[i] # p
      BY <1>1, <1>5, <2>3, <3>2 DEF Budget
    <3> QED
      BY <3>1, <3>2
  <2>4. \A q \in DOMAIN decisions' :
          decisions'[q].origin \in {"model", "failed"} => KeyIn(input, q) \in charged
    BY <1>1, <1>4, <1>5 DEF Budget
  <2> QED
    BY <1>1, <1>2, <2>1, <2>2, <2>3, <2>4 DEF Budget
<1>10. Ruled' /\ Clustered'
  BY <1>1, <1>2, <1>4, SettledSame, RuledGrows, ClusteredStays
<1> QED
  BY <1>6, <1>8, <1>9, <1>10 DEF EngineInv

----
(* A request ends.                                                          *)

\* The worker's pair is decided, by an answer or a failure.
Ends(w) ==
    /\ w \in Workers /\ worker[w] # None /\ worker' = [worker EXCEPT ![w] = None]
    /\ Grows(worker[w]) /\ Rests(worker[w])
    /\ decisions'[worker[w]].origin \in {"model", "failed"}
    /\ Settled
    /\ \A m \in Mentions : shared'[m].state = "running" =>
        shared[m].state = "running" /\ ContestIn(input, worker[w]) # m
    /\ /\ decisions'[worker[w]].origin = "model" /\ ContestIn(input, worker[w]) # None
       /\ decisions'[worker[w]].verdict = "same" \/ decisions'[worker[w]].proposal
       => /\ shared'[ContestIn(input, worker[w])].choice # {}
          /\ shared'[ContestIn(input, worker[w])].choice \subseteq {worker[w][1], worker[w][2]}
    /\ UNCHANGED <<input, phase, next, calls, charged, sent, owner, accepted, todo>>

LEMMA EndKeeps ==
    ASSUME EngineInv, NEW w, Ends(w)
    PROVE  EngineInv'
<1> DEFINE p == worker[w]
<1>1. EngineTyped /\ Waiting /\ Budget /\ Ruled /\ Clustered
  BY DEF EngineInv
<1>2. /\ w \in Workers /\ p # None /\ p \in E!Pairs /\ p \notin DOMAIN decisions
      /\ KeyIn(input, p) \in charged /\ phase \in {"compare", "merge"}
      /\ \A v \in Workers : v # w => worker[v] # p
      /\ phase = "merge" => w = Main /\ Cardinality(DOMAIN decisions) < MaxPairs
      /\ phase = "compare" => p \in Taken(input, next)
      /\ input \in EngineInputs /\ next \in 1 .. Len(input.order) + 1
      /\ UNCHANGED <<input, phase, next, calls, charged, sent, owner, accepted, todo>>
  BY <1>1 DEF Ends, EngineTyped, Waiting
<1>3. /\ worker' \in [Workers -> E!Pairs \cup {None}]
      /\ worker'[w] = None /\ \A v \in Workers : v # w => worker'[v] = worker[v]
  BY <1>1, <1>2 DEF EngineTyped, Ends
<1>4. /\ DOMAIN decisions' = DOMAIN decisions \cup {p}
      /\ \A q \in DOMAIN decisions : decisions'[q] = decisions[q]
      /\ Grows(p) /\ Rests(p) /\ decisions'[p].origin \in {"model", "failed"} /\ Settled
  BY DEF Ends, Grows
<1>5. /\ \A m \in Mentions : shared'[m].state = "running" =>
           shared[m].state = "running" /\ ContestIn(input, p) # m
      /\ /\ decisions'[p].origin = "model" /\ ContestIn(input, p) # None
         /\ decisions'[p].verdict = "same" \/ decisions'[p].proposal
         => /\ shared'[ContestIn(input, p)].choice # {}
            /\ shared'[ContestIn(input, p)].choice \subseteq {p[1], p[2]}
  BY DEF Ends
<1> HIDE DEF p
<1>6. EngineTyped'
  <2>1. \A q \in DOMAIN decisions' : q \in E!Pairs /\ decisions'[q] \in Decision
    BY <1>1, <1>2, <1>4 DEF EngineTyped, Rests
  <2> QED
    BY <1>1, <1>2, <1>3, <1>4, <2>1 DEF EngineTyped, Settled
<1>7. phase = "compare" => DOMAIN decisions' \subseteq Taken(input, next)
  BY <1>1, <1>2, <1>4 DEF Waiting
<1>8. Waiting'
  <2>1. ASSUME NEW v \in Workers, worker'[v] # None
        PROVE  v # w /\ worker'[v] = worker[v] /\ worker[v] # p /\ phase # "merge"
    BY <1>1, <1>2, <1>3, <2>1 DEF Waiting
  <2>2. ASSUME NEW v \in Workers, worker'[v] # None
        PROVE  /\ worker'[v] \notin DOMAIN decisions' /\ input.rule[worker'[v]] = None
               /\ KeyIn(input, worker'[v]) \in charged
               /\ \A x \in Workers : worker'[x] = worker'[v] => x = v
               /\ phase = "compare" => worker'[v] \in Taken(input, next)
    BY <1>1, <1>3, <1>4, <2>1, <2>2 DEF Waiting
  <2>3. ASSUME NEW m \in Mentions, shared'[m].state = "running"
        PROVE  \E v \in Workers : worker'[v] # None /\ ContestIn(input, worker'[v]) = m
    <3>1. shared[m].state = "running" /\ ContestIn(input, p) # m
      BY <1>5, <2>3
    <3>2. PICK v \in Workers : worker[v] # None /\ ContestIn(input, worker[v]) = m
      BY <1>1, <3>1 DEF Waiting
    <3>3. v # w
      BY <3>1, <3>2 DEF p
    <3> QED
      BY <1>3, <3>2, <3>3
  <2>4. ASSUME phase = "compare"
        PROVE  Taken(input, next) \subseteq DOMAIN decisions' \cup {worker'[v] : v \in Workers}
    <3>1. ASSUME NEW q \in Taken(input, next), q \notin DOMAIN decisions'
          PROVE  q \in {worker'[v] : v \in Workers}
      <4>1. q \notin DOMAIN decisions /\ q # p
        BY <1>4, <3>1
      <4>2. PICK v \in Workers : q = worker[v]
        BY <1>1, <2>4, <3>1, <4>1 DEF Waiting
      <4>3. v # w
        BY <4>1, <4>2 DEF p
      <4> QED
        BY <1>3, <4>2, <4>3
    <3> QED
      BY <3>1
  <2>5. phase = "merge" => next = Len(input.order) + 1 /\ Taken(input, next) \subseteq DOMAIN decisions'
    BY <1>1, <1>4 DEF Waiting
  <2> QED
    BY <1>2, <1>7, <2>1, <2>2, <2>3, <2>4, <2>5 DEF Waiting
<1>9. Budget'
  <2>1. IsFiniteSet(DOMAIN decisions') /\ Cardinality(DOMAIN decisions') <= MaxPairs
    BY <1>2, <1>4, <1>7, FewPairs
  <2>2. ASSUME NEW i \in 1 .. Len(input.order), input.order[i] \in DOMAIN decisions',
               decisions'[input.order[i]].origin = "exhausted"
        PROVE  /\ calls >= MaxCalls
               /\ \A k \in charged : \E h \in 1 .. i - 1 : KeyIn(input, input.order[h]) = k
    BY <1>1, <1>4, <2>2 DEF Budget
  <2>3. \A q \in DOMAIN decisions' :
          decisions'[q].origin \in {"model", "failed"} => KeyIn(input, q) \in charged
    BY <1>1, <1>2, <1>4 DEF Budget
  <2> QED
    BY <1>1, <1>2, <2>1, <2>2, <2>3 DEF Budget
<1>10. Ruled' /\ Clustered'
  BY <1>1, <1>2, <1>4, <1>5, RuledGrows, ClusteredStays
<1> QED
  BY <1>6, <1>8, <1>9, <1>10 DEF EngineInv

LEMMA ReplyEnds ==
    ASSUME EngineInv, NEW w \in Workers, E!Reply(w)
    PROVE  Ends(w)
<1>1. EngineTyped /\ Waiting /\ Ruled
  BY DEF EngineInv
<1>2. /\ worker[w] # None /\ ContestIn(input, worker[w]) = None
      /\ worker' = [worker EXCEPT ![w] = None]
      /\ UNCHANGED <<input, phase, next, calls, charged, shared, sent, owner, accepted, todo>>
  BY OfInput DEF E!Reply
<1>3. PICK v \in Verdicts, o \in {"model", "failed"} : E!Decide(worker[w], v, o)
  BY DEF E!Reply, Verdicts
<1>4. worker[w] \notin DOMAIN decisions /\ input.rule[worker[w]] = None
  BY <1>1, <1>2 DEF Waiting
<1>5. Grows(worker[w]) /\ Rests(worker[w]) /\ decisions'[worker[w]].origin = o
  BY <1>3, <1>4, DecideFacts
<1>6. \A m \in Mentions : ContestIn(input, worker[w]) # m
  BY <1>2, EngineConstants
<1> QED
  BY <1>1, <1>2, <1>5, <1>6, SettledSame DEF Ends

LEMMA CollectEnds ==
    ASSUME EngineInv, NEW w \in Workers, E!Collect(w)
    PROVE  Ends(w)
<1> DEFINE race == ContestIn(input, worker[w])
<1>1. EngineTyped /\ Waiting /\ Ruled
  BY DEF EngineInv
<1>2. /\ worker[w] # None /\ race # None /\ shared[race].state # "running"
      /\ worker' = [worker EXCEPT ![w] = None]
      /\ UNCHANGED <<input, phase, next, calls, charged, shared, sent, owner, accepted, todo>>
  BY OfInput DEF E!Collect
<1>3. worker[w] \notin DOMAIN decisions /\ input.rule[worker[w]] = None
  BY <1>1, <1>2 DEF Waiting
<1>4. \A m \in Mentions : shared[m].state = "running" => race # m
  BY <1>2
<1>5. /\ E!Projected(worker[w]) \in Verdicts
      /\ E!Projected(worker[w]) = "same" =>
           shared[race].choice # {} /\ shared[race].choice \subseteq {worker[w][1], worker[w][2]}
  BY OfInput DEF E!Projected, Verdicts
<1>6. PICK v \in Verdicts, o \in {"model", "failed"} :
        E!Decide(worker[w], v, o) /\ (v = "same" => v = E!Projected(worker[w]))
  <2>1. CASE shared[race].state = "failed"
    <3>1. E!Decide(worker[w], "uncertain", "failed")
      BY <2>1, OfInput DEF E!Collect
    <3> QED
      BY <3>1 DEF Verdicts
  <2>2. CASE shared[race].state # "failed"
    <3>1. E!Decide(worker[w], E!Projected(worker[w]), "model")
      BY <2>2, OfInput DEF E!Collect
    <3> QED
      BY <1>5, <3>1
  <2> QED
    BY <2>1, <2>2
<1>7. /\ Grows(worker[w]) /\ Rests(worker[w]) /\ decisions'[worker[w]].origin = o
      /\ decisions'[worker[w]].verdict = "same" \/ decisions'[worker[w]].proposal => v = "same"
  BY <1>3, <1>6, DecideFacts
<1>8. decisions'[worker[w]].verdict = "same" \/ decisions'[worker[w]].proposal =>
        /\ shared'[race].choice # {}
        /\ shared'[race].choice \subseteq {worker[w][1], worker[w][2]}
  BY <1>2, <1>5, <1>6, <1>7
<1> QED
  BY <1>1, <1>2, <1>4, <1>7, <1>8, SettledSame DEF Ends

LEMMA ExpireEnds ==
    ASSUME EngineInv, NEW w \in Workers, E!Expire(w)
    PROVE  Ends(w)
<1> DEFINE race == ContestIn(input, worker[w])
<1>1. EngineTyped /\ Waiting /\ Ruled
  BY DEF EngineInv
<1>2. /\ worker[w] # None /\ race # None /\ shared[race].state = "running"
      /\ worker' = [worker EXCEPT ![w] = None]
      /\ shared' = [shared EXCEPT ![race] = E!Competition("failed", {})]
      /\ E!Decide(worker[w], "uncertain", "failed")
      /\ UNCHANGED <<input, phase, next, calls, charged, sent, owner, accepted, todo>>
  BY OfInput DEF E!Expire
<1>3. worker[w] \notin DOMAIN decisions /\ input.rule[worker[w]] = None
  BY <1>1, <1>2 DEF Waiting
<1>4. worker[w] \in E!Pairs /\ input \in EngineInputs /\ shared \in [Mentions -> Race]
  BY <1>1, <1>2 DEF EngineTyped
<1>5. race \in Mentions
  BY <1>2, <1>4, ContestFacts
<1>6. shared[race].choice = {}
  BY <1>1, <1>2, <1>5 DEF Ruled
<1>7. Settled
  BY <1>1, <1>2, <1>5, <1>6, SettledBy
<1>8. \A m \in Mentions : shared'[m].state = "running" => shared[m].state = "running" /\ race # m
  BY <1>2, <1>4, <1>5 DEF E!Competition
<1>9. Grows(worker[w]) /\ Rests(worker[w]) /\ decisions'[worker[w]].origin = "failed"
  BY <1>2, <1>3, DecideFacts DEF Verdicts
<1> QED
  BY <1>2, <1>7, <1>8, <1>9 DEF Ends

LEMMA CompeteKeeps ==
    ASSUME EngineInv, NEW m \in Mentions, E!Compete(m)
    PROVE  EngineInv'
<1>1. EngineTyped /\ Waiting /\ Budget /\ Ruled /\ Clustered
  BY DEF EngineInv
<1>2. /\ shared[m].state = "running"
      /\ UNCHANGED <<input, phase, next, worker, calls, charged, decisions, sent, owner, accepted, todo>>
  BY OfInput DEF E!Compete
<1>3. input \in EngineInputs /\ shared \in [Mentions -> Race] /\ input.rivals[m] \subseteq Mentions
  BY <1>1, CorpusFacts DEF EngineTyped
<1>4. PICK a \in Race : /\ shared' = [shared EXCEPT ![m] = a] /\ a.state # "running"
                        /\ a.choice # {} => a.state = "chosen" /\ \E c \in input.rivals[m] : a.choice = {c}
  <2>1. PICK a \in {E!Competition("chosen", {c}) : c \in input.rivals[m]}
                     \cup {E!Competition(s, {}) : s \in {"chosen", "uncertain", "failed"}} :
          shared' = [shared EXCEPT ![m] = a]
    BY DEF E!Compete
  <2>2. CASE a \in {E!Competition("chosen", {c}) : c \in input.rivals[m]}
    <3>1. PICK c \in input.rivals[m] : a = E!Competition("chosen", {c})
      BY <2>2
    <3>2. a \in Race /\ a.state = "chosen" /\ a.choice = {c}
      BY <1>3, <3>1 DEF E!Competition, Race
    <3> QED
      BY <2>1, <3>2
  <2>3. CASE a \in {E!Competition(s, {}) : s \in {"chosen", "uncertain", "failed"}}
    <3>1. PICK s \in {"chosen", "uncertain", "failed"} : a = E!Competition(s, {})
      BY <2>3
    <3>2. a \in Race /\ a.state = s /\ a.choice = {}
      BY <3>1 DEF E!Competition, Race
    <3> QED
      BY <2>1, <3>2
  <2> QED
    BY <2>1, <2>2, <2>3
<1>5. /\ shared' \in [Mentions -> Race] /\ shared'[m] = a
      /\ \A x \in Mentions : x # m => shared'[x] = shared[x]
  BY <1>3, <1>4
<1>6. shared[m].choice = {}
  BY <1>1, <1>2 DEF Ruled
<1>7. Settled
  BY <1>1, <1>4, <1>5, <1>6 DEF Settled, Ruled
<1>8. EngineTyped' /\ Budget'
  BY <1>1, <1>2, <1>5 DEF EngineTyped, Budget
<1>9. Waiting'
  <2>1. \A x \in Mentions : shared'[x].state = "running" => shared[x].state = "running"
    BY <1>4, <1>5
  <2> QED
    BY <1>1, <1>2, <2>1 DEF Waiting
<1> QED
  BY <1>1, <1>2, <1>7, <1>8, <1>9, RuledStays, ClusteredStays DEF EngineInv

----
(* Stopping, and the steps between.                                         *)

LEMMA StopKeeps ==
    ASSUME EngineInv, E!Stop
    PROVE  EngineInv'
<1>1. EngineTyped /\ Waiting /\ Budget /\ Ruled /\ Clustered
  BY DEF EngineInv
<1>2. /\ phase' = "stopped" /\ worker' = [w \in Workers |-> None]
      /\ UNCHANGED <<input, next, calls, charged, decisions, sent, owner, accepted, todo>>
  BY DEF E!Stop
<1>3. shared' = [m \in Mentions |-> IF shared[m].state = "running" THEN E!Competition("failed", {})
                                     ELSE shared[m]]
  BY OfInput DEF E!Stop
<1>4. E!Competition("failed", {}) \in Race /\ E!Competition("failed", {}).choice = {}
      /\ E!Competition("failed", {}).state = "failed"
  BY DEF E!Competition, Race
<1>5. shared \in [Mentions -> Race]
  BY <1>1 DEF EngineTyped
<1>6. shared' \in [Mentions -> Race] /\ \A m \in Mentions : shared'[m].state # "running"
  BY <1>3, <1>4, <1>5
<1>7. ASSUME NEW m \in Mentions
      PROVE  /\ shared'[m].choice # {} => shared'[m] = shared[m]
             /\ shared[m].choice # {} => shared'[m] = shared[m]
  BY <1>1, <1>3, <1>4 DEF Ruled
<1>8. Settled
  BY <1>1, <1>6, <1>7 DEF Settled, Ruled
<1>9. EngineTyped' /\ Budget'
  BY <1>1, <1>2, <1>6 DEF EngineTyped, Budget
<1>10. Waiting'
  BY <1>2, <1>6 DEF Waiting
<1> QED
  BY <1>1, <1>2, <1>8, <1>9, <1>10, RuledStays, ClusteredStays DEF EngineInv

LEMMA TakeKeeps ==
    ASSUME EngineInv, NEW w \in Workers, E!Take(w)
    PROVE  EngineInv'
<1> DEFINE p == input.order[next]
<1>1. /\ phase = "compare" /\ worker[w] = None /\ next <= Len(input.order) /\ next' = next + 1
      /\ E!Ask(w, p) \/ E!Answer(p)
      /\ UNCHANGED <<input, phase, owner, accepted, todo>>
  BY DEF E!Take
<1>2. input \in EngineInputs /\ next \in 1 .. Len(input.order) + 1
  BY DEF EngineInv, EngineTyped
<1>3. p \in E!Pairs /\ p \notin Taken(input, next)
  BY <1>1, <1>2, TakenFacts
<1>4. p \notin DOMAIN decisions /\ \A v \in Workers : worker[v] # p
  BY <1>1, <1>3, EngineConstants DEF EngineInv, Waiting
<1>5. Turn(w, p)
  BY <1>1, <1>3, <1>4 DEF Turn
<1> QED
  BY <1>1, <1>5, AskKeeps, AnswerKeeps

LEMMA BeginMergeKeeps ==
    ASSUME EngineInv, E!BeginMerge
    PROVE  EngineInv'
<1>1. EngineTyped /\ Waiting /\ Budget /\ Ruled /\ Clustered
  BY DEF EngineInv
<1>2. /\ phase = "compare" /\ next > Len(input.order) /\ phase' = "merge"
      /\ \A w \in Workers : worker[w] = None
      /\ UNCHANGED <<input, next, worker, calls, charged, shared, decisions, sent, owner, accepted>>
      /\ todo' \subseteq DOMAIN decisions
  BY DEF E!BeginMerge, E!Idle, E!compareVars, E!Matches
<1>3. input \in EngineInputs /\ next \in 1 .. Len(input.order) + 1 /\ Len(input.order) \in Nat
  BY <1>1, CorpusFacts DEF EngineTyped
<1>4. next = Len(input.order) + 1
  BY <1>2, <1>3
<1>5. Taken(input, next) \subseteq DOMAIN decisions
  <2>1. Taken(input, next) \subseteq E!Pairs
    BY <1>3, TakenFacts
  <2> QED
    BY <1>1, <1>2, <2>1, EngineConstants DEF Waiting
<1>6. EngineTyped' /\ Budget'
  BY <1>1, <1>2 DEF EngineTyped, Budget
<1>7. Waiting'
  BY <1>1, <1>2, <1>4, <1>5 DEF Waiting
<1> QED
  BY <1>1, <1>2, <1>6, <1>7, SettledSame, RuledStays, ClusteredStays DEF EngineInv

----
(* Clusters.                                                                *)

\* It is the turn of a match, with nobody at work.
LEMMA MergingFacts ==
    ASSUME EngineInv, NEW p, E!Merging(p)
    PROVE  /\ phase = "merge" /\ p \in todo /\ p \in E!Pairs
           /\ p[1] \in Mentions /\ p[2] \in Mentions /\ p[1] < p[2]
           /\ \A w \in Workers : worker[w] = None
BY PairFacts DEF EngineInv, EngineTyped, E!Merging, E!Idle

\* A step that only turns to the next match.
LEMMA TurnsKeep ==
    ASSUME EngineInv, E!compareVars' = E!compareVars, UNCHANGED <<input, phase>>,
           owner' \in [Mentions -> Mentions], accepted' \subseteq E!Pairs, todo' \subseteq todo,
           Clustered'
    PROVE  EngineInv'
<1>1. UNCHANGED <<input, phase, next, worker, calls, charged, shared, decisions, sent>>
  BY DEF E!compareVars
<1>2. EngineTyped /\ Waiting /\ Budget /\ Ruled
  BY DEF EngineInv
<1>3. EngineTyped'
  BY <1>1, <1>2 DEF EngineTyped
<1>4. Waiting'
  BY <1>1, <1>2 DEF Waiting
<1>5. Budget'
  BY <1>1, <1>2 DEF Budget
<1>6. Ruled'
  BY <1>1, <1>2, SettledSame, RuledStays
<1> QED
  BY <1>3, <1>4, <1>5, <1>6 DEF EngineInv

LEMMA ConfirmKeeps ==
    ASSUME EngineInv, NEW p, E!Confirm(p)
    PROVE  EngineInv'
<1>1. /\ E!Merging(p) /\ owner[p[1]] = owner[p[2]]
      /\ accepted' = accepted \cup {p} /\ todo' \subseteq todo
      /\ UNCHANGED <<input, phase, E!compareVars, owner>> /\ decisions' = decisions
  BY DEF E!Confirm, E!compareVars
<1>2. Clustered'
  BY <1>1 DEF EngineInv, Clustered
<1> QED
  BY <1>1, <1>2, MergingFacts, TurnsKeep DEF EngineInv, EngineTyped

LEMMA BlockKeeps ==
    ASSUME EngineInv, NEW p, E!Block(p)
    PROVE  EngineInv'
<1>1. /\ todo' \subseteq todo
      /\ UNCHANGED <<input, phase, E!compareVars, owner, accepted>> /\ decisions' = decisions
  BY DEF E!Block, E!compareVars
<1>2. Clustered'
  BY <1>1, ClusteredStays DEF EngineInv
<1> QED
  BY <1>1, <1>2, TurnsKeep DEF EngineInv, EngineTyped

\* Ids of two groups make a pair.
LEMMA SortedFacts ==
    ASSUME NEW a \in Mentions, NEW b \in Mentions, a # b
    PROVE  E!Sorted(<<a, b>>) \in E!Pairs /\ E!Sorted(<<a, b>>) = IF a < b THEN <<a, b>> ELSE <<b, a>>
BY EngineConstants DEF E!Sorted, E!Pairs

LEMMA CompareCrossKeeps ==
    ASSUME EngineInv, NEW w \in Workers, NEW p, E!CompareCross(w, p)
    PROVE  EngineInv'
<1>1. E!Merging(p) /\ owner[p[1]] # owner[p[2]] /\ w = Main
  BY DEF E!CompareCross, Main
<1>2. PICK q \in E!Obstacles(p) :
        /\ q \notin DOMAIN decisions /\ E!Cardinality(DOMAIN decisions) < MaxPairs
        /\ IF input.rule[q] = "raise" THEN E!Stop
           ELSE (E!Ask(w, q) \/ E!Answer(q)) /\ UNCHANGED <<input, phase, next, owner, accepted, todo>>
  BY DEF E!CompareCross
<1>3. PICK c \in GroupIn(owner, p[1]) \X GroupIn(owner, p[2]) : q = E!Sorted(c)
  BY OfInput DEF E!Obstacles, E!Open
<1>4. c = <<c[1], c[2]>> /\ c[1] \in Mentions /\ c[2] \in Mentions /\ c[1] # c[2]
  BY <1>1, <1>3 DEF GroupIn
<1>5. q \in E!Pairs
  BY <1>3, <1>4, SortedFacts
<1>6. CASE input.rule[q] = "raise"
  BY <1>2, <1>6, StopKeeps
<1>7. CASE input.rule[q] # "raise"
  <2>1. Turn(w, q)
    BY <1>1, <1>2, <1>5, <1>7, MergingFacts, SameCardinality, EngineConstants DEF Turn
  <2> QED
    BY <1>2, <1>7, <2>1, AskKeeps, AnswerKeeps
<1> QED
  BY <1>6, <1>7

LEMMA LesserOwner ==
    ASSUME NEW a \in Mentions, NEW b \in Mentions
    PROVE  E!Min({a, b}) \in {a, b}
<1>1. \E x \in {a, b} : \A y \in {a, b} : x <= y
  BY EngineConstants
<1> QED
  BY <1>1 DEF E!Min

LEMMA MergeKeeps ==
    ASSUME EngineInv, NEW p, E!Merge(p)
    PROVE  EngineInv'
<1> DEFINE left == GroupIn(owner, p[1])
           right == GroupIn(owner, p[2])
           survivor == E!Min({owner[p[1]], owner[p[2]]})
<1>1. EngineTyped /\ Clustered
  BY DEF EngineInv
<1>2. /\ E!Merging(p) /\ owner[p[1]] # owner[p[2]]
      /\ accepted' = accepted \cup {p} /\ todo' \subseteq todo
      /\ UNCHANGED <<input, phase, E!compareVars>> /\ decisions' = decisions
  BY DEF E!Merge, E!compareVars
<1>3. /\ owner' = [m \in Mentions |-> IF m \in left \cup right THEN survivor ELSE owner[m]]
      /\ ~(Cardinality(left) + Cardinality(right) > MaxCluster)
      /\ \A c \in left \X right :
            E!Sorted(c) \in DOMAIN decisions /\ decisions[E!Sorted(c)].verdict = "same"
  BY OfInput, SameCardinality DEF E!Merge, E!OneGroup, E!TooLarge, E!Open, E!Matches
<1>4. /\ p \in E!Pairs /\ p[1] \in Mentions /\ p[2] \in Mentions /\ p[1] < p[2]
      /\ owner \in [Mentions -> Mentions]
  BY <1>1, <1>2, MergingFacts DEF EngineTyped
<1>5. survivor \in {owner[p[1]], owner[p[2]]} /\ survivor \in Mentions
  BY <1>4, LesserOwner
<1>6. /\ \A m \in Mentions : m \in left <=> owner[m] = owner[p[1]]
      /\ \A m \in Mentions : m \in right <=> owner[m] = owner[p[2]]
      /\ left \subseteq Mentions /\ right \subseteq Mentions /\ p[1] \in left /\ p[2] \in right
  BY <1>4 DEF GroupIn
<1> HIDE DEF left, right, survivor
<1>7. /\ owner' \in [Mentions -> Mentions]
      /\ \A m \in Mentions : owner'[m] = IF m \in left \cup right THEN survivor ELSE owner[m]
  BY <1>3, <1>4, <1>5
<1>8. \A m, n \in Mentions : owner'[m] = owner'[n] =>
        owner[m] = owner[n] \/ (m \in left \cup right /\ n \in left \cup right)
  BY <1>5, <1>6, <1>7
<1>9. ASSUME NEW m \in Mentions, NEW n \in Mentions, m < n, owner'[m] = owner'[n]
      PROVE  <<m, n>> \in DOMAIN decisions /\ decisions[<<m, n>>].verdict = "same"
  <2>1. CASE owner[m] = owner[n]
    BY <1>1, <1>9, <2>1 DEF Clustered
  <2>2. CASE owner[m] # owner[n]
    <3>1. \/ m \in left /\ n \in right
          \/ n \in left /\ m \in right
      BY <1>6, <1>8, <1>9, <2>2
    <3>2. m # n /\ ~(n < m)
      BY <1>9, EngineConstants
    <3>3. CASE m \in left /\ n \in right
      <4>1. E!Sorted(<<m, n>>) = <<m, n>> /\ <<m, n>> \in left \X right
        BY <1>9, <3>2, <3>3, SortedFacts
      <4> QED
        BY <1>3, <4>1
    <3>4. CASE n \in left /\ m \in right
      <4>1. E!Sorted(<<n, m>>) = <<m, n>> /\ <<n, m>> \in left \X right
        BY <3>2, <3>4, SortedFacts
      <4> QED
        BY <1>3, <4>1
    <3> QED
      BY <3>1, <3>3, <3>4
  <2> QED
    BY <2>1, <2>2
<1>10. ASSUME NEW m \in Mentions
       PROVE  Cardinality(GroupIn(owner', m)) <= MaxCluster
  <2>1. CASE m \in left \cup right
    <3>1. GroupIn(owner', m) = left \cup right
      BY <1>5, <1>6, <1>7, <2>1 DEF GroupIn
    <3>2. IsFiniteSet(left) /\ IsFiniteSet(right) /\ left \cap right = {}
      BY <1>2, <1>6, FS_Subset, EngineConstants
    <3>3. Cardinality(left \cup right) = Cardinality(left) + Cardinality(right) - Cardinality(left \cap right)
      BY <3>2, FS_Union
    <3>4. /\ Cardinality(left) \in Nat /\ Cardinality(right) \in Nat /\ Cardinality(left \cap right) = 0
          /\ MaxCluster \in Nat
      BY <3>2, FS_CardinalityType, FS_EmptySet, EngineConstants
    <3>5. Cardinality(left) + Cardinality(right) <= MaxCluster
      BY <1>3, <3>4
    <3>6. Cardinality(left \cup right) = Cardinality(left) + Cardinality(right)
      BY <3>3, <3>4
    <3> QED
      BY <3>1, <3>5, <3>6
  <2>2. CASE m \notin left \cup right
    <3>1. GroupIn(owner', m) = GroupIn(owner, m)
      BY <1>5, <1>6, <1>7, <2>2 DEF GroupIn
    <3> QED
      BY <1>1, <3>1 DEF Clustered
  <2> QED
    BY <2>1, <2>2
<1>11. ASSUME NEW q \in accepted' PROVE owner'[q[1]] = owner'[q[2]]
  <2>1. CASE q = p
    BY <1>4, <1>6, <1>7, <2>1
  <2>2. CASE q # p
    <3>1. q \in accepted /\ q[1] \in Mentions /\ q[2] \in Mentions /\ owner[q[1]] = owner[q[2]]
      BY <1>1, <1>2, <2>2, PairFacts DEF EngineTyped, Clustered
    <3>2. q[1] \in left \cup right <=> q[2] \in left \cup right
      BY <1>6, <3>1
    <3> QED
      BY <1>7, <3>1, <3>2
  <2> QED
    BY <2>1, <2>2
<1>12. ASSUME NEW m \in Mentions, NEW n \in Mentions, m # n, owner'[m] = owner'[n]
       PROVE  \E q \in accepted' : m \in {q[1], q[2]}
  <2>1. CASE m \in {p[1], p[2]}
    BY <1>2, <2>1
  <2>2. CASE m \notin {p[1], p[2]}
    <3>1. \E x \in Mentions : m # x /\ owner[m] = owner[x]
      BY <1>4, <1>6, <1>8, <1>12, <2>2
    <3> QED
      BY <1>1, <1>2, <3>1 DEF Clustered
  <2> QED
    BY <2>1, <2>2
<1>13. Clustered'
  BY <1>2, <1>9, <1>10, <1>11, <1>12 DEF Clustered
<1> QED
  BY <1>1, <1>2, <1>4, <1>7, <1>13, TurnsKeep DEF EngineTyped

LEMMA ReturnKeeps ==
    ASSUME EngineInv, E!Return
    PROVE  EngineInv'
<1>1. CASE E!Stop
  BY <1>1, StopKeeps
<1>2. CASE ~E!Stop
  <2>1. EngineTyped /\ Waiting /\ Budget /\ Ruled /\ Clustered
    BY DEF EngineInv
  <2>2. /\ phase' = "done" /\ \A w \in Workers : worker[w] = None
        /\ UNCHANGED <<input, next, worker, calls, charged, shared, decisions, sent, owner, accepted, todo>>
    BY <1>2 DEF E!Return, E!Idle, E!compareVars
  <2>3. EngineTyped' /\ Budget'
    BY <2>1, <2>2 DEF EngineTyped, Budget
  <2>4. Waiting'
    BY <2>1, <2>2 DEF Waiting
  <2> QED
    BY <2>1, <2>2, <2>3, <2>4, SettledSame, RuledStays, ClusteredStays DEF EngineInv
<1> QED
  BY <1>1, <1>2

LEMMA EngineNext == EngineInv /\ E!Next => EngineInv'
<1> SUFFICES ASSUME EngineInv, E!Next PROVE EngineInv'
  OBVIOUS
<1>1. CASE E!Contradict \/ E!Cancel
  BY <1>1, StopKeeps DEF E!Contradict, E!Cancel
<1>2. CASE \E w \in Workers : E!Take(w)
  BY <1>2, TakeKeeps
<1>3. CASE \E w \in Workers : E!Reply(w) \/ E!Collect(w) \/ E!Expire(w)
  BY <1>3, ReplyEnds, CollectEnds, ExpireEnds, EndKeeps
<1>4. CASE \E m \in Mentions : E!Compete(m)
  BY <1>4, CompeteKeeps
<1>5. CASE \E p \in todo : E!Confirm(p) \/ E!Block(p) \/ E!Merge(p) \/ \E w \in Workers : E!CompareCross(w, p)
  BY <1>5, ConfirmKeeps, BlockKeeps, MergeKeeps, CompareCrossKeeps
<1>6. CASE E!BeginMerge \/ E!Return
  BY <1>6, BeginMergeKeeps, ReturnKeeps
<1> QED
  BY <1>1, <1>2, <1>3, <1>4, <1>5, <1>6 DEF E!Next, E!Step

LEMMA EngineInit == E!Init => EngineInv
<1> SUFFICES ASSUME E!Init PROVE EngineInv
  OBVIOUS
<1>1. /\ input \in EngineInputs /\ phase = "compare" /\ next = 1 /\ worker = [w \in Workers |-> None]
      /\ calls = 0 /\ charged = {} /\ decisions = <<>> /\ sent = {}
      /\ shared = [m \in Mentions |-> E!Competition("none", {})]
      /\ owner = [m \in Mentions |-> m] /\ accepted = {} /\ todo = {}
  BY DEF E!Init
<1>2. DOMAIN decisions = {} /\ Len(input.order) \in Nat
  BY <1>1, CorpusFacts
<1>3. E!Competition("none", {}) \in Race /\ E!Competition("none", {}).choice = {}
      /\ E!Competition("none", {}).state = "none"
  BY DEF E!Competition, Race
<1>4. EngineTyped
  BY <1>1, <1>2, <1>3 DEF EngineTyped
<1>5. Taken(input, next) = {}
  BY <1>1 DEF Taken
<1>6. Waiting
  BY <1>1, <1>2, <1>3, <1>5 DEF Waiting
<1>7. Budget
  BY <1>1, <1>2, FS_EmptySet, EngineConstants DEF Budget
<1>8. Ruled
  BY <1>1, <1>2, <1>3 DEF Ruled
<1>9. Clustered
  <2>1. \A m \in Mentions : GroupIn(owner, m) = {m} /\ Cardinality({m}) = 1
    BY <1>1, FS_Singleton DEF GroupIn
  <2>2. 1 <= MaxCluster
    BY EngineConstants
  <2>3. \A m, n \in Mentions : owner[m] = owner[n] => m = n
    BY <1>1
  <2>4. \A m \in Mentions : ~(m < m)
    BY EngineConstants
  <2> QED
    BY <1>1, <2>1, <2>2, <2>3, <2>4 DEF Clustered
<1> QED
  BY <1>4, <1>6, <1>7, <1>8, <1>9 DEF EngineInv

\* The requests in flight are at most one for each worker.
LEMMA FewRequests ==
    ASSUME EngineInv
    PROVE  Cardinality(E!InFlight) <= Cardinality(Workers)
<1> DEFINE busy == {w \in Workers : worker[w] # None}
           asked == {KeyIn(input, worker[w]) : w \in busy}
           key == [w \in busy |-> KeyIn(input, worker[w])]
<1>1. IsFiniteSet(busy) /\ Cardinality(busy) <= Cardinality(Workers)
  BY FS_Subset, EngineConstants
<1>2. key \in Surjection(busy, asked)
  BY DEF Surjection
<1>3. IsFiniteSet(asked) /\ Cardinality(asked) <= Cardinality(busy)
  BY <1>1, <1>2, FS_Surjection
<1>4. E!InFlight \subseteq asked
  <2>1. ASSUME NEW w \in Workers, worker[w] # None, ContestIn(input, worker[w]) = None
        PROVE  worker[w] \in asked
    BY <2>1 DEF KeyIn
  <2>2. ASSUME NEW m \in Mentions, shared[m].state = "running" PROVE <<m>> \in asked
    <3>1. PICK w \in Workers : worker[w] # None /\ ContestIn(input, worker[w]) = m
      BY <2>2 DEF EngineInv, Waiting
    <3>2. m # None
      BY EngineConstants
    <3> QED
      BY <3>1, <3>2 DEF KeyIn
  <2> QED
    BY <2>1, <2>2, OfInput DEF E!InFlight
<1>5. IsFiniteSet(E!InFlight) /\ Cardinality(E!InFlight) <= Cardinality(asked)
  BY <1>3, <1>4, FS_Subset
<1>6. /\ Cardinality(E!InFlight) \in Nat /\ Cardinality(asked) \in Nat
      /\ Cardinality(busy) \in Nat /\ Cardinality(Workers) \in Nat
  BY <1>1, <1>3, <1>5, FS_CardinalityType, EngineConstants
<1> HIDE DEF busy, asked
<1> QED
  BY <1>1, <1>3, <1>5, <1>6

LEMMA BudgetIsHeld == EngineInv => E!BudgetHeld
<1> SUFFICES ASSUME EngineInv PROVE E!BudgetHeld
  OBVIOUS
<1>1. EngineTyped /\ Budget
  BY DEF EngineInv
<1>2. IsFiniteSet(sent) /\ Cardinality(sent) <= Cardinality(charged)
  BY <1>1, FS_Subset DEF Budget
<1>3. Cardinality(sent) \in Nat /\ Cardinality(charged) \in Nat
  BY <1>1, <1>2, FS_CardinalityType DEF Budget
<1>4. Cardinality(sent) <= MaxCalls
  BY <1>1, <1>2, <1>3, EngineConstants DEF Budget
<1>5. ASSUME NEW i \in 1 .. Len(input.order), NEW k \in 1 .. Len(input.order), i < k,
             input.order[i] \in DOMAIN decisions, decisions[input.order[i]].origin = "exhausted",
             input.order[k] \in DOMAIN decisions,
             decisions[input.order[k]].origin \in {"model", "failed"}
      PROVE  \E h \in 1 .. i - 1 : E!Key(input.order[h]) = E!Key(input.order[k])
  BY <1>1, <1>5, OfInput DEF Budget
<1> QED
  BY <1>1, <1>4, <1>5, SameCardinality DEF Budget, E!BudgetHeld

\* Of a mention's rivals the competition chose one, and with it one pair.
LEMMA OneWins == EngineInv => E!OneRivalWins
<1> SUFFICES ASSUME EngineInv, NEW m \in Mentions
             PROVE  Cardinality({p \in DOMAIN decisions :
                        /\ E!Contest(p) = m /\ decisions[p].origin = "model"
                        /\ decisions[p].verdict = "same" \/ decisions[p].proposal}) <= 1
  BY SameCardinality DEF E!OneRivalWins
<1> DEFINE won == {p \in DOMAIN decisions :
                        /\ E!Contest(p) = m /\ decisions[p].origin = "model"
                        /\ decisions[p].verdict = "same" \/ decisions[p].proposal}
<1>1. EngineTyped /\ Ruled
  BY DEF EngineInv
<1>2. input \in EngineInputs /\ m \notin input.rivals[m] /\ m # None
  BY <1>1, CorpusFacts, EngineConstants DEF EngineTyped
<1>3. ASSUME NEW p \in won
      PROVE  \E c \in input.rivals[m] : shared[m].choice = {c} /\ {p[1], p[2]} = {m, c} /\ p \in E!Pairs
  <2>1. p \in E!Pairs /\ ContestIn(input, p) = m
    BY <1>1, OfInput DEF EngineTyped
  <2>2. m \in {p[1], p[2]}
    BY <1>2, <2>1, ContestFacts
  <2>3. shared[m].choice # {} /\ shared[m].choice \subseteq {p[1], p[2]}
    BY <1>1, <1>2, <2>1 DEF Ruled
  <2>4. PICK c \in input.rivals[m] : shared[m].choice = {c}
    BY <1>1, <2>3 DEF Ruled
  <2>5. c \in {p[1], p[2]} /\ c # m
    BY <1>2, <2>3, <2>4
  <2> QED
    BY <2>1, <2>2, <2>4, <2>5
<1>4. ASSUME NEW p \in won, NEW q \in won PROVE p = q
  <2>1. PICK c : shared[m].choice = {c} /\ {p[1], p[2]} = {m, c} /\ p \in E!Pairs
    BY <1>3
  <2>2. {q[1], q[2]} = {m, c} /\ q \in E!Pairs
    BY <1>3, <2>1
  <2>3. /\ p = <<p[1], p[2]>> /\ p[1] \in Nat /\ p[2] \in Nat /\ p[1] < p[2]
        /\ q = <<q[1], q[2]>> /\ q[1] \in Nat /\ q[2] \in Nat /\ q[1] < q[2]
    BY <2>1, <2>2, PairFacts
  <2>4. \/ p[1] = q[1] /\ p[2] = q[2]
        \/ p[1] = q[2] /\ p[2] = q[1]
    BY <2>1, <2>2
  <2>5. p[1] = q[1] /\ p[2] = q[2]
    BY <2>3, <2>4
  <2> QED
    BY <2>3, <2>5
<1> HIDE DEF won
<1>5. CASE won = {}
  BY <1>5, FS_EmptySet DEF won
<1>6. CASE won # {}
  <2>1. PICK p \in won : TRUE
    BY <1>6
  <2>2. won = {p}
    BY <1>4, <2>1
  <2>3. Cardinality(won) = 1
    BY <2>2, FS_Singleton
  <2> QED
    BY <2>3 DEF won
<1> QED
  BY <1>5, <1>6

LEMMA EngineInvIsSound == EngineInv =>
    /\ E!TypeOK /\ E!BudgetHeld /\ E!NoRequestEscapes
    /\ E!ClustersAreConfirmed /\ E!OneRivalWins /\ E!AppliedIsWhole
<1> SUFFICES ASSUME EngineInv
             PROVE  /\ E!TypeOK /\ E!BudgetHeld /\ E!NoRequestEscapes
                    /\ E!ClustersAreConfirmed /\ E!OneRivalWins /\ E!AppliedIsWhole
  OBVIOUS
<1>1. EngineTyped /\ Waiting /\ Budget /\ Ruled /\ Clustered
  BY DEF EngineInv
<1>2. input \in EngineInputs
  BY <1>1 DEF EngineTyped
<1>3. E!TypeOK
  <2>1. calls \in Nat
    BY <1>1, FS_CardinalityType DEF Budget
  <2> QED
    BY <1>1, <2>1 DEF EngineTyped, E!TypeOK
<1>4. E!NoRequestEscapes
  <2>1. E!Cardinality(E!InFlight) <= E!Cardinality(Workers)
    BY FewRequests, SameCardinality
  <2>2. \A m \in Mentions : E!Runs(m) =>
          \E w \in Workers : worker[w] # None /\ E!Contest(worker[w]) = m
    BY <1>1, OfInput DEF Waiting
  <2>3. phase \in {"done", "stopped"} => E!InFlight = {}
    <3>1. phase \in {"done", "stopped"} => \A w \in Workers : worker[w] = None
      BY <1>1 DEF Waiting
    <3> QED
      BY <2>2, <3>1 DEF E!InFlight
  <2> QED
    BY <2>1, <2>2, <2>3 DEF E!NoRequestEscapes
<1>5. E!ClustersAreConfirmed
  <2> SUFFICES ASSUME NEW m \in Mentions, NEW n \in Mentions, m < n, owner[m] = owner[n]
               PROVE  /\ <<m, n>> \in DOMAIN decisions /\ decisions[<<m, n>>].verdict = "same"
                      /\ <<m, n>> \notin input.apart
                      /\ decisions[<<m, n>>].origin = "model" =>
                          input.policy = "apply" /\ {m, n} \cap input.overflow = {}
                      /\ Cardinality(GroupIn(owner, m)) <= MaxCluster
    BY SameCardinality, OfInput DEF E!ClustersAreConfirmed
  <2>1. <<m, n>> \in DOMAIN decisions /\ decisions[<<m, n>>].verdict = "same"
    BY <1>1 DEF Clustered
  <2>2. <<m, n>> \notin input.apart
    <3>1. ASSUME <<m, n>> \in input.apart PROVE FALSE
      <4>1. input.rule[<<m, n>>] \in {"different", "uncertain"}
        BY <1>2, <3>1, CorpusFacts
      <4>2. input.rule[<<m, n>>] # None
        BY <4>1, EngineConstants DEF Verdicts
      <4> QED
        BY <1>1, <2>1, <4>1, <4>2 DEF Ruled
    <3> QED
      BY <3>1
  <2>3. decisions[<<m, n>>].origin = "model" =>
          input.policy = "apply" /\ {m, n} \cap input.overflow = {}
    BY <1>1, <2>1 DEF Ruled
  <2>4. Cardinality(GroupIn(owner, m)) <= MaxCluster
    BY <1>1 DEF Clustered
  <2> QED
    BY <2>1, <2>2, <2>3, <2>4
<1>6. E!AppliedIsWhole
  <2> SUFFICES ASSUME phase = "done", NEW p \in E!Applied
               PROVE  /\ {q \in accepted : owner[q[1]] = owner[p[1]]} \subseteq E!Applied
                      /\ \A m \in GroupIn(owner, p[1]) : \E q \in E!Applied : m \in {q[1], q[2]}
    BY OfInput DEF E!AppliedIsWhole
  <2>1. /\ p \in accepted
        /\ E!Applied = {q \in accepted : \A x \in accepted \cap input.unsupported : owner[x[1]] # owner[q[1]]}
    BY DEF E!Applied
  <2>2. {q \in accepted : owner[q[1]] = owner[p[1]]} \subseteq E!Applied
    BY <2>1
  <2>3. p[1] \in Mentions /\ p[2] \in Mentions /\ p[1] # p[2] /\ owner[p[1]] = owner[p[2]]
    BY <1>1, <2>1, PairFacts DEF EngineTyped, Clustered
  <2>4. ASSUME NEW m \in GroupIn(owner, p[1]) PROVE \E q \in E!Applied : m \in {q[1], q[2]}
    <3>1. m \in Mentions /\ owner[m] = owner[p[1]]
      BY DEF GroupIn
    <3>2. PICK q \in accepted : m \in {q[1], q[2]}
      BY <1>1, <2>3, <3>1 DEF Clustered
    <3>3. owner[q[1]] = owner[p[1]]
      BY <1>1, <3>1, <3>2 DEF Clustered
    <3> QED
      BY <2>2, <3>2, <3>3
  <2> QED
    BY <2>2, <2>4
<1> QED
  BY <1>3, <1>4, <1>5, <1>6, BudgetIsHeld, OneWins

EngineKept == part = "engine" => EngineInv

LEMMA EngineStays == EngineKept /\ [MCNext]_allVars => EngineKept'
<1> SUFFICES ASSUME EngineKept, [MCNext]_allVars, part' = "engine" PROVE EngineInv'
  BY DEF EngineKept
<1>1. CASE part = "engine" /\ E!Next
  BY <1>1, EngineNext DEF EngineKept
<1>2. CASE part = "engine" /\ UNCHANGED engineVars
  BY <1>2 DEF EngineKept, EngineInv, EngineTyped, Waiting, Budget, Ruled, Clustered, engineVars
<1> QED
  BY <1>1, <1>2 DEF MCNext, allVars

(* Whatever the rules say, in whatever order models answer, fail or time    *)
(* out, and wherever an analysis is stopped: the budget and the number of   *)
(* requests are held and spent in the order of the pairs, no request        *)
(* outlives the analysis, a cluster is confirmed pair by pair, one rival    *)
(* wins, and a cluster is applied whole (resolver.py, model_judge.py).      *)
THEOREM EngineStaysSound == MCSpec => []EngineIsSound
<1>1. MCInit => EngineKept
  BY EngineInit DEF MCInit, EngineKept
<1>2. EngineKept => EngineIsSound
  BY EngineInvIsSound DEF EngineKept, EngineIsSound
<1> QED
  BY <1>1, <1>2, EngineStays, PTL DEF MCSpec

(* Recall.                                                                  *)

LEMMA RecallSets ==
    /\ \A S : L!Cardinality(S) = Cardinality(S)
    /\ \A S : L!IsFiniteSet(S) <=> IsFiniteSet(S)
BY DEF L!Cardinality, Cardinality, L!IsFiniteSet, IsFiniteSet

LEMMA RecallFacts ==
    /\ Mentions \subseteq Nat /\ IsFiniteSet(Mentions) /\ None \notin Mentions
    /\ MaxAliasCalls \in Nat /\ MaxPairs \in Nat /\ Limit \in Nat
    /\ \A i \in RecallInputs :
        /\ i.policy \in {"original", "balanced"}
        /\ i.vectors # None => \A m \in DOMAIN i.vectors.near : i.vectors.near[m] \subseteq Mentions
<1>1. L!RecallAssumption
  BY ResolutionAssumption
<1> QED
  BY <1>1, RecallSets DEF L!RecallAssumption

LEMMA FirstOf ==
    ASSUME NEW S \in SUBSET Mentions, S # {} PROVE L!Min(S) \in S
<1>1. S \subseteq Nat
  BY RecallFacts
<1>2. \E x \in S : \A y \in S : x <= y
  BY <1>1, LeastNat
<1> QED
  BY <1>2 DEF L!Min

\* What a record is recalled by rests on the corpus and on the aliases only.
LEMMA SameRecall ==
    ASSUME UNCHANGED <<recallInput, aliases>>
    PROVE  \A m, o : /\ L!Forced(m)' = L!Forced(m) /\ L!Pool(m)' = L!Pool(m) /\ L!Ranked(m)' = L!Ranked(m)
                     /\ L!Features(m)' = L!Features(m) /\ (L!SameId(m, o)' <=> L!SameId(m, o))
                     /\ \A key : L!TooCommon(key)' <=> L!TooCommon(key)
<1>0. recallInput' = recallInput /\ aliases' = aliases
  OBVIOUS
<1>1. \A m : L!Forced(m)' = L!Forced(m)
  BY <1>0 DEF L!Forced
<1>2. \A m : L!Recall(m)' = L!Recall(m)
  BY <1>0 DEF L!Recall
<1>3. \A m : L!RecallNames(m)' = L!RecallNames(m)
  BY <1>0, <1>2 DEF L!RecallNames
<1>4. \A m : L!Described(m)' = L!Described(m) /\ L!RecordKeys(m)' = L!RecordKeys(m) /\ L!Ids(m)' = L!Ids(m)
  BY <1>0, <1>2 DEF L!Described, L!RecordKeys, L!Ids
<1>5. \A m : L!Features(m)' = L!Features(m)
  BY <1>3, <1>4 DEF L!Features
<1>6. \A key : L!Block(key)' = L!Block(key)
  BY <1>5 DEF L!Block
<1>7. \A key : L!TooCommon(key)' <=> L!TooCommon(key)
  BY <1>6 DEF L!TooCommon
<1>8. \A m : L!Near(m)' = L!Near(m)
  BY <1>0 DEF L!Near
<1>9. \A m : L!Pool(m)' = L!Pool(m)
  BY <1>1, <1>5, <1>6, <1>7, <1>8 DEF L!Pool
<1>10. \A m, o : L!SameId(m, o)' <=> L!SameId(m, o)
  BY <1>4 DEF L!SameId
<1>11. \A m, o : (L!Strong(m, o)' <=> L!Strong(m, o)) /\ L!Alike(m, o)' = L!Alike(m, o)
  BY <1>1, <1>3, <1>4, <1>10 DEF L!Strong, L!SameName, L!SameRecord, L!Alike
<1>12. \A m : L!Rare(m)' = L!Rare(m)
  BY <1>4, <1>6 DEF L!Rare
<1>13. \A m, o : L!Compatible(m, o)' <=> L!Compatible(m, o)
  BY <1>0 DEF L!Compatible
<1>14. \A m : L!Dimensions(m)' = L!Dimensions(m)
  BY <1>0 DEF L!Dimensions
<1>15. \A m, o : (L!Eligible(m, o)' <=> L!Eligible(m, o)) /\ (L!Filtered(m, o)' <=> L!Filtered(m, o))
  BY <1>1, <1>8, <1>10, <1>11, <1>12, <1>13, <1>14 DEF L!Eligible, L!Filtered, L!Conflicts
<1>16. \A m : L!Ranked(m)' = L!Ranked(m)
  BY <1>0, <1>9, <1>15 DEF L!Ranked
<1> QED
  BY <1>1, <1>5, <1>7, <1>9, <1>10, <1>16

Busy == {w \in Workers : recallWorker[w] # None}
Spent == {m \in DOMAIN records : records[m] # "skipped"}

\* Names that a record gained are from an answer that was quoted.
GainedOf(m) ==
    LET gained == aliases[m] \ (recallInput.mentions[m].aliases \cup UNION {e.names : e \in L!Entries(m)})
    IN  /\ records[m] # "complete" => gained = {}
        /\ \A n \in gained : \E r \in recallInput.mentions[m].offers : r.alias = n /\ r.quoted

\* What the recall of a record has selected, and has disclosed.
SeenOf(m) ==
    /\ recallCandidates[m] \subseteq Mentions /\ L!Forced(m) \subseteq recallCandidates[m]
    /\ \A o \in recallCandidates[m] : L!Pair(m, o) \in pairs
    /\ \A o \in L!Ranked(m) : o \notin recallCandidates[m] => m \in overflow
    /\ (\E key \in L!Features(m) : L!TooCommon(key)) => m \in overflow
    /\ \A o \in L!Pool(m), k \in recallCandidates[m] :
        o \notin recallCandidates[m] /\ L!SameId(m, o) => L!SameId(m, k) \/ k \in L!Forced(m)

AliasInv ==
    /\ recallWorker = [w \in Workers |-> recallWorker[w]]
    /\ \A w \in Workers : recallWorker[w] \in Mentions \cup {None}
    /\ aliases = [m \in Mentions |-> aliases[m]] /\ DOMAIN records \subseteq Mentions
    /\ queue \subseteq Mentions
    /\ recallPhase \in {"load", "alias"} =>
        Mentions \subseteq queue \cup DOMAIN records \cup {recallWorker[w] : w \in Workers}
    /\ IsFiniteSet(Busy) /\ IsFiniteSet(Spent)
    /\ recallCalls \in Nat /\ recallCalls <= MaxAliasCalls
    /\ Cardinality(Spent) + Cardinality(Busy) <= recallCalls
    /\ \A m \in DOMAIN records : GainedOf(m)
    /\ recallPhase = "retrieve" => DOMAIN records = Mentions

PairsInv ==
    /\ recallInput \in RecallInputs
    /\ recallPhase \in {"load", "alias"} => recallCandidates = <<>>
    /\ recallPhase \in {"alias", "retrieve", "done"} => L!Valid(recallInput) /\ L!Sound(recallInput.vectors)
    /\ DOMAIN recallCandidates \subseteq Mentions /\ pairs \subseteq Mentions \X Mentions
    /\ recallPhase = "done" => DOMAIN recallCandidates = Mentions /\ Cardinality(pairs) <= MaxPairs
    /\ \A m \in DOMAIN recallCandidates : SeenOf(m)

RecallInv == AliasInv /\ PairsInv

LEMMA RecallInit == L!Init => RecallInv
<1> SUFFICES ASSUME L!Init PROVE RecallInv
  OBVIOUS
<1>1. Busy = {} /\ Spent = {} /\ DOMAIN records = {} /\ DOMAIN recallCandidates = {}
  BY DEF L!Init, Busy, Spent
<1>2. IsFiniteSet({}) /\ Cardinality({}) = 0
  BY FS_EmptySet
<1>3. AliasInv
  BY <1>1, <1>2, RecallFacts DEF L!Init, AliasInv
<1>4. PairsInv
  BY <1>1 DEF L!Init, PairsInv
<1> QED
  BY <1>3, <1>4 DEF RecallInv

\* Steps that leave the pairs, the aliases and the corpus alone.
LEMMA PairsStay ==
    ASSUME PairsInv, UNCHANGED <<recallInput, aliases, recallCandidates, overflow, pairs>>,
           recallPhase' \in {"load", "alias"} => recallPhase \in {"load", "alias"},
           recallPhase' \in {"alias", "retrieve", "done"} => L!Valid(recallInput) /\ L!Sound(recallInput.vectors),
           recallPhase' = "done" => recallPhase = "done"
    PROVE  PairsInv'
<1>1. \A m \in DOMAIN recallCandidates : SeenOf(m)'
  <2> TAKE m \in DOMAIN recallCandidates
  <2>1. SeenOf(m)
    BY DEF PairsInv
  <2> QED
    BY <2>1, SameRecall DEF SeenOf, L!Pair
<1>2. (L!Valid(recallInput))' <=> L!Valid(recallInput)
  BY DEF L!Valid
<1>3. (L!Sound(recallInput.vectors))' <=> L!Sound(recallInput.vectors)
  BY DEF L!Sound
<1> QED
  BY <1>1, <1>2, <1>3 DEF PairsInv

LEMMA AliasesStay ==
    ASSUME AliasInv, UNCHANGED <<recallInput, queue, recallCalls, aliases, records>>,
           UNCHANGED recallWorker \/ recallWorker' = [w \in Workers |-> None],
           recallPhase' \in {"load", "alias"} => recallPhase \in {"load", "alias"} /\ UNCHANGED recallWorker,
           recallPhase' = "retrieve" => DOMAIN records = Mentions
    PROVE  AliasInv'
<1>1. \A m \in DOMAIN records : GainedOf(m)'
  BY DEF AliasInv, GainedOf, L!Entries
<1>2. Spent' = Spent
  BY DEF Spent
<1>3. Busy' \subseteq Busy
  BY DEF Busy
<1>4. IsFiniteSet(Busy') /\ Cardinality(Busy') \in Nat /\ Cardinality(Busy) \in Nat /\ Cardinality(Busy') <= Cardinality(Busy)
  <2>1. IsFiniteSet(Busy) /\ Busy' \in SUBSET Busy
    BY <1>3 DEF AliasInv
  <2> QED
    BY <2>1, FS_Subset, FS_CardinalityType
<1>5. Cardinality(Spent) \in Nat
  BY FS_CardinalityType DEF AliasInv
<1>6. IsFiniteSet(Spent') /\ Cardinality(Spent') + Cardinality(Busy') <= recallCalls
  <2>1. Cardinality(Spent) + Cardinality(Busy) <= recallCalls /\ recallCalls \in Nat /\ IsFiniteSet(Spent)
    BY DEF AliasInv
  <2> QED
    BY <1>2, <1>4, <1>5, <2>1
<1>7. /\ recallWorker' = [w \in Workers |-> recallWorker'[w]]
      /\ \A w \in Workers : recallWorker'[w] \in Mentions \cup {None}
  BY DEF AliasInv
<1> QED
  BY <1>1, <1>4, <1>6, <1>7 DEF AliasInv

\* The steps of the expansion leave the pairs alone; nothing was recalled yet.
LEMMA PairsIdle ==
    ASSUME PairsInv, recallPhase = "alias", UNCHANGED <<recallInput, recallPhase, recallCandidates, overflow, pairs>>
    PROVE  PairsInv'
<1>1. DOMAIN recallCandidates = {}
  BY DEF PairsInv
<1>2. (L!Valid(recallInput))' <=> L!Valid(recallInput)
  BY DEF L!Valid
<1>3. (L!Sound(recallInput.vectors))' <=> L!Sound(recallInput.vectors)
  BY DEF L!Sound
<1> QED
  BY <1>1, <1>2, <1>3 DEF PairsInv

\* A record is settled: its new names are found ones or the dictionary's.
LEMMA SettledGains ==
    ASSUME AliasInv, NEW m \in Mentions, NEW state, NEW gains, L!Settle(m, state, gains), recallInput' = recallInput,
           state # "complete" => gains = {},
           \A n \in gains : \E r \in recallInput.mentions[m].offers : r.alias = n /\ r.quoted
    PROVE  /\ DOMAIN records' = DOMAIN records \cup {m} /\ DOMAIN records' \subseteq Mentions
           /\ aliases' = [x \in Mentions |-> aliases'[x]]
           /\ \A x \in DOMAIN records' : GainedOf(x)'
           /\ Spent' \subseteq Spent \cup {m} /\ (state = "skipped" => Spent' \subseteq Spent)
<1>1. /\ DOMAIN records' = DOMAIN records \cup {m} /\ records'[m] = state
      /\ \A x \in DOMAIN records : x # m => records'[x] = records[x]
  BY DEF L!Settle
<1>2. /\ aliases' = [x \in Mentions |-> aliases'[x]] /\ aliases'[m] = L!Expanded(m, gains)
      /\ \A x \in Mentions : x # m => aliases'[x] = aliases[x]
  BY DEF L!Settle, AliasInv
<1>3. DOMAIN records \subseteq Mentions
  BY DEF AliasInv
<1>4. \A x : L!Entries(x)' = L!Entries(x)
  BY DEF L!Entries
<1>5. GainedOf(m)'
  BY <1>1, <1>2, <1>4 DEF GainedOf, L!Expanded
<1>6. ASSUME NEW x \in DOMAIN records, x # m PROVE GainedOf(x)'
  <2>1. GainedOf(x) /\ records'[x] = records[x] /\ aliases'[x] = aliases[x]
    BY <1>1, <1>2, <1>3, <1>6 DEF AliasInv
  <2> QED
    BY <2>1, <1>4 DEF GainedOf
<1>7. \A x \in Spent' : x \in DOMAIN records' /\ records'[x] # "skipped"
  BY DEF Spent
<1>8. Spent' \subseteq Spent \cup {m} /\ (state = "skipped" => Spent' \subseteq Spent)
  BY <1>1, <1>7 DEF Spent
<1> QED
  BY <1>1, <1>2, <1>3, <1>5, <1>6, <1>8

LEMMA AliasTakeKeeps ==
    ASSUME RecallInv, NEW w \in Workers, L!Take(w)
    PROVE  RecallInv'
<1>1. AliasInv /\ PairsInv /\ recallPhase = "alias" /\ recallPhase' = "alias" /\ recallInput' = recallInput
  BY DEF RecallInv, L!Take
<1>2. PairsInv'
  BY <1>1, PairsIdle DEF L!Take, L!recallVars
<1> DEFINE m == L!Min(queue)
<1>3. recallWorker[w] = None /\ queue # {} /\ (L!Ask(w, m) \/ L!Skip(m)) /\ queue' = queue \ {m}
  BY DEF L!Take
<1>4. m \in queue /\ m \in Mentions /\ m # None
  BY <1>1, <1>3, FirstOf, RecallFacts DEF AliasInv
<1> HIDE DEF m
<1>5. /\ IsFiniteSet(Busy) /\ IsFiniteSet(Spent) /\ Cardinality(Busy) \in Nat /\ Cardinality(Spent) \in Nat
      /\ recallCalls \in Nat /\ Cardinality(Spent) + Cardinality(Busy) <= recallCalls /\ MaxAliasCalls \in Nat
      /\ recallCalls <= MaxAliasCalls
  BY <1>1, FS_CardinalityType, RecallFacts DEF AliasInv
<1>6. /\ recallWorker = [v \in Workers |-> recallWorker[v]] /\ \A v \in Workers : recallWorker[v] \in Mentions \cup {None}
      /\ Mentions \subseteq queue \cup DOMAIN records \cup {recallWorker[v] : v \in Workers}
      /\ queue' \subseteq Mentions
  BY <1>1, <1>3 DEF AliasInv
<1>7. CASE L!Ask(w, m)
  <2>1. /\ recallWorker' = [recallWorker EXCEPT ![w] = m] /\ recallCalls < MaxAliasCalls
        /\ recallCalls' = recallCalls + 1 /\ aliases' = aliases /\ records' = records
    BY <1>7 DEF L!Ask
  <2>2. /\ recallWorker'[w] = m /\ \A v \in Workers : v # w => recallWorker'[v] = recallWorker[v]
        /\ recallWorker' = [v \in Workers |-> recallWorker'[v]]
    BY <1>6, <2>1
  <2>3. Busy' = Busy \cup {w} /\ w \notin Busy
    BY <1>3, <1>4, <2>2 DEF Busy
  <2>4. IsFiniteSet(Busy') /\ Cardinality(Busy') = Cardinality(Busy) + 1
    BY <1>5, <2>3, FS_AddElement
  <2>5. Spent' = Spent
    BY <2>1 DEF Spent
  <2>6. Cardinality(Spent') + Cardinality(Busy') <= recallCalls' /\ recallCalls' \in Nat /\ recallCalls' <= MaxAliasCalls
    BY <1>5, <2>1, <2>4, <2>5
  <2>7. \A x \in DOMAIN records : GainedOf(x)'
    BY <1>1, <2>1 DEF AliasInv, GainedOf, L!Entries
  <2>8. Mentions \subseteq queue' \cup DOMAIN records \cup {recallWorker'[v] : v \in Workers}
    <3> SUFFICES ASSUME NEW x \in Mentions, x \notin queue', x \notin DOMAIN records
                 PROVE  \E v \in Workers : recallWorker'[v] = x
      OBVIOUS
    <3>1. CASE x = m
      BY <2>2, <3>1
    <3>2. CASE x # m
      <4>1. PICK v \in Workers : recallWorker[v] = x
        BY <1>3, <1>6, <3>2
      <4>2. v # w
        BY <1>3, <4>1, RecallFacts
      <4> QED
        BY <2>2, <4>1, <4>2
    <3> QED
      BY <3>1, <3>2
  <2>9. AliasInv'
    BY <1>1, <1>4, <1>5, <1>6, <2>1, <2>2, <2>4, <2>5, <2>6, <2>7, <2>8 DEF AliasInv
  <2> QED
    BY <1>2, <2>9 DEF RecallInv
<1>8. CASE L!Skip(m)
  <2>1. L!Settle(m, "skipped", {}) /\ recallWorker' = recallWorker /\ recallCalls' = recallCalls
    BY <1>8 DEF L!Skip
  <2>2. /\ DOMAIN records' = DOMAIN records \cup {m} /\ DOMAIN records' \subseteq Mentions
        /\ aliases' = [x \in Mentions |-> aliases'[x]]
        /\ \A x \in DOMAIN records' : GainedOf(x)'
        /\ Spent' \subseteq Spent
    BY <1>1, <1>4, <2>1, SettledGains
  <2>3. IsFiniteSet(Spent') /\ Cardinality(Spent') \in Nat /\ Cardinality(Spent') <= Cardinality(Spent)
    BY <1>5, <2>2, FS_Subset, FS_CardinalityType
  <2>4. Busy' = Busy
    BY <2>1 DEF Busy
  <2>5. Cardinality(Spent') + Cardinality(Busy') <= recallCalls'
    BY <1>5, <2>1, <2>3, <2>4
  <2>6. Mentions \subseteq queue' \cup DOMAIN records' \cup {recallWorker'[v] : v \in Workers}
    BY <1>3, <1>6, <2>1, <2>2
  <2>7. AliasInv'
    BY <1>1, <1>5, <1>6, <2>1, <2>2, <2>3, <2>4, <2>5, <2>6 DEF AliasInv
  <2> QED
    BY <1>2, <2>7 DEF RecallInv
<1> QED
  BY <1>3, <1>7, <1>8

LEMMA AliasAnswerKeeps ==
    ASSUME RecallInv, NEW w \in Workers, L!AliasAnswer(w)
    PROVE  RecallInv'
<1>1. /\ AliasInv /\ PairsInv /\ recallPhase = "alias" /\ recallPhase' = "alias" /\ recallInput' = recallInput
      /\ queue' = queue /\ recallCalls' = recallCalls /\ recallWorker[w] # None
      /\ recallWorker' = [recallWorker EXCEPT ![w] = None]
  BY DEF RecallInv, L!AliasAnswer
<1>2. PairsInv'
  BY <1>1, PairsIdle DEF L!AliasAnswer, L!recallVars
<1> DEFINE m == recallWorker[w]
<1>3. m \in Mentions
  BY <1>1 DEF AliasInv
<1>4. PICK state, gains : /\ L!Settle(m, state, gains) /\ (state # "complete" => gains = {})
                          /\ \A n \in gains : \E r \in recallInput.mentions[m].offers : r.alias = n /\ r.quoted
  <2>1. CASE L!Settle(m, "failed", {})
    BY <2>1
  <2>2. CASE \E rows \in SUBSET recallInput.mentions[m].offers :
                IF L!Grounded(rows) THEN L!Settle(m, "complete", {r.alias : r \in rows}) ELSE L!Settle(m, "failed", {})
    <3>1. PICK rows \in SUBSET recallInput.mentions[m].offers :
                IF L!Grounded(rows) THEN L!Settle(m, "complete", {r.alias : r \in rows}) ELSE L!Settle(m, "failed", {})
      BY <2>2
    <3>2. CASE L!Grounded(rows)
      <4>1. \A n \in {r.alias : r \in rows} : \E r \in recallInput.mentions[m].offers : r.alias = n /\ r.quoted
        BY <3>1, <3>2 DEF L!Grounded
      <4> QED
        BY <3>1, <3>2, <4>1
    <3> QED
      BY <2>1, <3>1, <3>2
  <2> QED
    BY <2>1, <2>2 DEF L!AliasAnswer
<1>5. /\ DOMAIN records' = DOMAIN records \cup {m} /\ DOMAIN records' \subseteq Mentions
      /\ aliases' = [x \in Mentions |-> aliases'[x]]
      /\ \A x \in DOMAIN records' : GainedOf(x)'
      /\ Spent' \subseteq Spent \cup {m}
  BY <1>1, <1>3, <1>4, SettledGains
<1>6. /\ IsFiniteSet(Busy) /\ IsFiniteSet(Spent) /\ Cardinality(Busy) \in Nat /\ Cardinality(Spent) \in Nat
      /\ recallCalls \in Nat /\ Cardinality(Spent) + Cardinality(Busy) <= recallCalls
  BY <1>1, FS_CardinalityType DEF AliasInv
<1>7. /\ recallWorker = [v \in Workers |-> recallWorker[v]] /\ \A v \in Workers : recallWorker[v] \in Mentions \cup {None}
      /\ Mentions \subseteq queue \cup DOMAIN records \cup {recallWorker[v] : v \in Workers}
  BY <1>1 DEF AliasInv
<1>8. /\ recallWorker'[w] = None /\ \A v \in Workers : v # w => recallWorker'[v] = recallWorker[v]
      /\ recallWorker' = [v \in Workers |-> recallWorker'[v]]
  BY <1>1, <1>7
<1>9. Busy' = Busy \ {w} /\ w \in Busy
  BY <1>1, <1>8 DEF Busy
<1>10. IsFiniteSet(Busy') /\ Cardinality(Busy') = Cardinality(Busy) - 1
  BY <1>6, <1>9, FS_RemoveElement
<1>11. /\ IsFiniteSet(Spent \cup {m}) /\ Cardinality(Spent \cup {m}) \in Nat
       /\ Cardinality(Spent \cup {m}) <= Cardinality(Spent) + 1
  <2>1. IsFiniteSet(Spent \cup {m})
    BY <1>6, FS_AddElement
  <2>2. Cardinality(Spent \cup {m}) = Cardinality(Spent) \/ Cardinality(Spent \cup {m}) = Cardinality(Spent) + 1
    BY <1>6, FS_AddElement
  <2> QED
    BY <1>6, <2>1, <2>2
<1>12. IsFiniteSet(Spent') /\ Cardinality(Spent') \in Nat /\ Cardinality(Spent') <= Cardinality(Spent) + 1
  <2>1. IsFiniteSet(Spent') /\ Cardinality(Spent') <= Cardinality(Spent \cup {m})
    BY <1>5, <1>11, FS_Subset
  <2> QED
    BY <1>6, <1>11, <2>1, FS_CardinalityType
<1>13. Cardinality(Spent') + Cardinality(Busy') <= recallCalls'
  BY <1>1, <1>6, <1>10, <1>12
<1>14. Mentions \subseteq queue' \cup DOMAIN records' \cup {recallWorker'[v] : v \in Workers}
  BY <1>1, <1>5, <1>7, <1>8
<1>15. AliasInv'
  BY <1>1, <1>5, <1>7, <1>8, <1>10, <1>12, <1>13, <1>14 DEF AliasInv
<1> QED
  BY <1>2, <1>15 DEF RecallInv

LEMMA PoolFacts ==
    ASSUME PairsInv, recallPhase \in {"alias", "retrieve", "done"}, NEW m \in Mentions
    PROVE  /\ L!Forced(m) \subseteq Mentions /\ L!Pool(m) \subseteq Mentions /\ L!Ranked(m) \subseteq L!Pool(m)
           /\ IsFiniteSet(L!Ranked(m))
<1>1. recallInput \in RecallInputs /\ L!Sound(recallInput.vectors)
  BY DEF PairsInv
<1>2. L!Near(m) \subseteq Mentions
  <2>1. CASE recallInput.vectors = None
    BY <2>1 DEF L!Near
  <2>2. CASE recallInput.vectors # None
    <3>1. m \in DOMAIN recallInput.vectors.near
      BY <1>1, <2>2 DEF L!Sound
    <3>2. recallInput.vectors.near[m] \subseteq Mentions
      BY <1>1, <2>2, <3>1, RecallFacts
    <3> QED
      BY <2>2, <3>2 DEF L!Near
  <2> QED
    BY <2>1, <2>2
<1>3. L!Forced(m) \subseteq Mentions
  BY DEF L!Forced
<1>4. \A key : L!Block(key) \subseteq Mentions
  BY DEF L!Block
<1>5. L!Pool(m) \subseteq Mentions
  BY <1>2, <1>3, <1>4 DEF L!Pool
<1>6. L!Ranked(m) \subseteq L!Pool(m)
  BY DEF L!Ranked
<1>7. L!Ranked(m) \in SUBSET Mentions
  BY <1>5, <1>6
<1> QED
  BY <1>3, <1>5, <1>6, <1>7, RecallFacts, FS_Subset

\* Nothing is cut without being disclosed, and no cut record outranks a kept one.
LEMMA KeptFacts ==
    ASSUME NEW m \in Mentions, IsFiniteSet(L!Ranked(m)), NEW kept \in L!Selects(m)
    PROVE  /\ kept \subseteq L!Ranked(m) /\ (~L!Overflows(m) => kept = L!Ranked(m))
           /\ \A o \in L!Ranked(m) \ kept, k \in kept : L!Rank(m, o) <= L!Rank(m, k)
<1> DEFINE size == Cardinality(L!Ranked(m))
           least == L!Min({Limit, size})
<1>1. size \in Nat /\ Limit \in Nat /\ L!Cardinality(L!Ranked(m)) = size
  BY FS_CardinalityType, RecallFacts, RecallSets
<1>2. /\ kept \in L!kSubset(least, L!Ranked(m))
      /\ \A o \in L!Ranked(m) \ kept, k \in kept : L!Rank(m, o) <= L!Rank(m, k)
  BY <1>1 DEF L!Selects
<1>3. kept \in SUBSET L!Ranked(m) /\ Cardinality(kept) = least
  BY <1>2, RecallSets DEF L!kSubset
<1>4. ASSUME ~L!Overflows(m) PROVE kept = L!Ranked(m)
  <2>1. size <= Limit
    BY <1>1, <1>4 DEF L!Overflows
  <2>2. \E x \in {Limit, size} : \A y \in {Limit, size} : x <= y
    BY <1>1, <2>1
  <2>3. least \in {Limit, size} /\ \A y \in {Limit, size} : least <= y
    BY <2>2 DEF L!Min
  <2>4. least = size
    <3> HIDE DEF size, least
    <3> QED
      BY <1>1, <2>1, <2>3
  <2> QED
    BY <1>3, <2>4, FS_Subset
<1> QED
  BY <1>2, <1>3, <1>4

LEMMA SameIdOutranks ==
    ASSUME NEW m, NEW o, NEW k, L!SameId(m, o), ~L!SameId(m, k), k \notin L!Forced(m)
    PROVE  ~(L!Rank(m, o) <= L!Rank(m, k))
BY DEF L!Rank

Recalled(m, kept) ==
    /\ overflow' = IF L!Overflows(m) THEN overflow \cup {m} ELSE overflow
    /\ recallCandidates' = [x \in DOMAIN recallCandidates \cup {m} |->
                            IF x = m THEN kept \cup L!Forced(m) ELSE recallCandidates[x]]
    /\ pairs' = pairs \cup {L!Pair(m, o) : o \in kept \cup L!Forced(m)}

LEMMA RetrieveKeeps ==
    ASSUME RecallInv, L!Retrieve
    PROVE  RecallInv'
<1>1. /\ AliasInv /\ PairsInv /\ recallPhase = "retrieve" /\ recallInput' = recallInput /\ aliases' = aliases
      /\ UNCHANGED <<queue, recallWorker, recallCalls, records>>
  BY DEF RecallInv, L!Retrieve, L!aliasVars
<1>2. PICK m, kept : m \in Mentions \ DOMAIN recallCandidates /\ kept \in L!Selects(m) /\ Recalled(m, kept)
  <2> DEFINE first == L!Min(Mentions \ DOMAIN recallCandidates)
  <2>1. Mentions \ DOMAIN recallCandidates # {} /\ Mentions \ DOMAIN recallCandidates \in SUBSET Mentions
    BY <1>1 DEF L!Retrieve, PairsInv
  <2>2. first \in Mentions \ DOMAIN recallCandidates
    BY <2>1, FirstOf
  <2>3. \E kept \in L!Selects(first) : Recalled(first, kept)
    BY DEF L!Retrieve, Recalled
  <2> HIDE DEF first
  <2> QED
    BY <2>2, <2>3
<1>3. recallPhase' = IF Cardinality(pairs') > MaxPairs THEN "refused"
                     ELSE IF DOMAIN recallCandidates' = Mentions THEN "done" ELSE "retrieve"
  BY RecallSets DEF L!Retrieve
<1>4. /\ overflow' = IF L!Overflows(m) THEN overflow \cup {m} ELSE overflow
      /\ recallCandidates' = [x \in DOMAIN recallCandidates \cup {m} |->
                           IF x = m THEN kept \cup L!Forced(m) ELSE recallCandidates[x]]
      /\ pairs' = pairs \cup {L!Pair(m, o) : o \in kept \cup L!Forced(m)}
  BY <1>2 DEF Recalled
<1>5. /\ L!Forced(m) \subseteq Mentions /\ L!Pool(m) \subseteq Mentions /\ L!Ranked(m) \subseteq L!Pool(m)
      /\ IsFiniteSet(L!Ranked(m))
  BY <1>1, <1>2, PoolFacts
<1>6. /\ kept \subseteq L!Ranked(m) /\ (~L!Overflows(m) => kept = L!Ranked(m))
      /\ \A o \in L!Ranked(m) \ kept, k \in kept : L!Rank(m, o) <= L!Rank(m, k)
  BY <1>2, <1>5, KeptFacts
<1>7. /\ DOMAIN recallCandidates' = DOMAIN recallCandidates \cup {m} /\ DOMAIN recallCandidates' \subseteq Mentions
      /\ recallCandidates'[m] = kept \cup L!Forced(m)
      /\ \A x \in DOMAIN recallCandidates : recallCandidates'[x] = recallCandidates[x]
  BY <1>1, <1>2, <1>4 DEF PairsInv
<1>8. overflow \subseteq overflow' /\ pairs \subseteq pairs' /\ (L!Overflows(m) => m \in overflow')
  BY <1>2, <1>4
<1>9. pairs' \subseteq Mentions \X Mentions
  <2>1. \A o \in Mentions : L!Pair(m, o) \in Mentions \X Mentions
    BY <1>2 DEF L!Pair
  <2>2. kept \cup L!Forced(m) \subseteq Mentions
    BY <1>5, <1>6
  <2> QED
    BY <1>1, <1>4, <2>1, <2>2 DEF PairsInv
<1>10. ASSUME NEW x \in DOMAIN recallCandidates PROVE SeenOf(x)'
  <2>1. SeenOf(x) /\ recallCandidates'[x] = recallCandidates[x]
    BY <1>1, <1>7, <1>10 DEF PairsInv
  <2>2. UNCHANGED <<recallInput, aliases>>
    BY <1>1
  <2>3. \A o : /\ L!Forced(x)' = L!Forced(x) /\ L!Pool(x)' = L!Pool(x) /\ L!Ranked(x)' = L!Ranked(x)
               /\ L!Features(x)' = L!Features(x) /\ (L!SameId(x, o)' <=> L!SameId(x, o))
               /\ \A key : L!TooCommon(key)' <=> L!TooCommon(key)
    BY <2>2, SameRecall
  <2> QED
    BY <1>8, <2>1, <2>3 DEF SeenOf, L!Pair
<1>11. SeenOf(m)'
  <2>1. UNCHANGED <<recallInput, aliases>>
    BY <1>1
  <2>2. \A o : /\ L!Forced(m)' = L!Forced(m) /\ L!Pool(m)' = L!Pool(m) /\ L!Ranked(m)' = L!Ranked(m)
               /\ L!Features(m)' = L!Features(m) /\ (L!SameId(m, o)' <=> L!SameId(m, o))
               /\ \A key : L!TooCommon(key)' <=> L!TooCommon(key)
    BY <2>1, SameRecall
  <2>3. kept \cup L!Forced(m) \subseteq Mentions
    BY <1>5, <1>6
  <2>4. \A o \in kept \cup L!Forced(m) : L!Pair(m, o) \in pairs'
    BY <1>4
  <2>5. \A o \in L!Ranked(m) : o \notin kept \cup L!Forced(m) => m \in overflow'
    BY <1>6, <1>8
  <2>6. (\E key \in L!Features(m) : L!TooCommon(key)) => m \in overflow'
    BY <1>8 DEF L!Overflows
  <2>7. ASSUME NEW o \in L!Pool(m), NEW k \in kept \cup L!Forced(m), o \notin kept \cup L!Forced(m), L!SameId(m, o)
        PROVE  L!SameId(m, k) \/ k \in L!Forced(m)
    <3>1. o \in L!Ranked(m)
      BY <2>7 DEF L!Ranked, L!Eligible, L!Strong, L!Filtered
    <3>2. ASSUME k \notin L!Forced(m), ~L!SameId(m, k) PROVE FALSE
      <4>1. L!Rank(m, o) <= L!Rank(m, k)
        BY <1>6, <2>7, <3>1, <3>2
      <4> QED
        BY <2>7, <3>2, <4>1, SameIdOutranks
    <3> QED
      BY <3>2
  <2>8. \A o : L!Pair(m, o)' = L!Pair(m, o)
    BY DEF L!Pair
  <2> QED
    BY <1>7, <2>2, <2>3, <2>4, <2>5, <2>6, <2>7, <2>8 DEF SeenOf
<1>12. ASSUME recallPhase' = "done" PROVE DOMAIN recallCandidates' = Mentions /\ Cardinality(pairs') <= MaxPairs
  <2>1. IsFiniteSet(Mentions \X Mentions)
    BY RecallFacts, FS_Product
  <2>2. IsFiniteSet(pairs')
    BY <1>9, <2>1, FS_Subset
  <2>3. Cardinality(pairs') \in Nat /\ MaxPairs \in Nat
    BY <2>2, FS_CardinalityType, RecallFacts
  <2> QED
    BY <1>3, <1>12, <2>3
<1>13. recallPhase' \in {"refused", "done", "retrieve"}
  BY <1>3
<1>14. PairsInv'
  <2>1. (L!Valid(recallInput))' <=> L!Valid(recallInput)
    BY <1>1 DEF L!Valid
  <2>2. (L!Sound(recallInput.vectors))' <=> L!Sound(recallInput.vectors)
    BY <1>1 DEF L!Sound
  <2>3. recallInput \in RecallInputs /\ L!Valid(recallInput) /\ L!Sound(recallInput.vectors)
    BY <1>1 DEF PairsInv
  <2>4. \A x \in DOMAIN recallCandidates' : SeenOf(x)'
    BY <1>7, <1>10, <1>11
  <2> QED
    BY <1>1, <1>7, <1>9, <1>12, <1>13, <2>1, <2>2, <2>3, <2>4 DEF PairsInv
<1>15. AliasInv'
  <2>1. recallPhase' = "retrieve" => DOMAIN records = Mentions
    BY <1>1 DEF AliasInv
  <2> QED
    BY <1>1, <1>13, <2>1, AliasesStay
<1> QED
  BY <1>14, <1>15 DEF RecallInv

LEMMA RecallStep == RecallInv /\ [L!Next]_(L!vars) => RecallInv'
<1> SUFFICES ASSUME RecallInv, [L!Next]_(L!vars) PROVE RecallInv'
  OBVIOUS
<1>1. AliasInv /\ PairsInv
  BY DEF RecallInv
<1>2. CASE L!Load
  <2>1. /\ UNCHANGED <<recallInput, queue, recallWorker, recallCalls, aliases, records, recallCandidates, overflow, pairs>>
        /\ recallPhase = "load" /\ recallPhase' \in {"alias", "refused"}
        /\ recallPhase' = "alias" => L!Valid(recallInput) /\ L!Sound(recallInput.vectors)
    BY <1>2 DEF L!Load, L!aliasVars, L!recallVars
  <2> QED
    BY <1>1, <2>1, PairsStay, AliasesStay DEF RecallInv
<1>3. CASE L!Abort
  <2>1. /\ UNCHANGED <<recallInput, queue, recallCalls, aliases, records, recallCandidates, overflow, pairs>>
        /\ recallPhase' = "stopped" /\ recallWorker' = [w \in Workers |-> None]
    BY <1>3 DEF L!Abort, L!recallVars
  <2> QED
    BY <1>1, <2>1, PairsStay, AliasesStay DEF RecallInv
<1>4. CASE L!ExpansionEnds
  <2>1. /\ UNCHANGED <<recallInput, queue, recallWorker, recallCalls, aliases, records, recallCandidates, overflow, pairs>>
        /\ recallPhase = "alias" /\ recallPhase' = "retrieve" /\ queue = {} /\ \A w \in Workers : recallWorker[w] = None
    BY <1>4 DEF L!ExpansionEnds, L!aliasVars, L!recallVars
  <2>2. DOMAIN records = Mentions
    <3>1. /\ DOMAIN records \subseteq Mentions
          /\ Mentions \subseteq queue \cup DOMAIN records \cup {recallWorker[w] : w \in Workers}
      BY <1>1, <2>1 DEF AliasInv
    <3>2. queue = {} /\ \A w \in Workers : recallWorker[w] \notin Mentions
      <4>1. None \notin Mentions
        BY RecallFacts
      <4> QED
        BY <2>1, <4>1
    <3> QED
      BY <3>1, <3>2, Zenon
  <2>3. L!Valid(recallInput) /\ L!Sound(recallInput.vectors)
    BY <1>1, <2>1 DEF PairsInv
  <2>4. PairsInv'
    BY <1>1, <2>1, <2>3, PairsStay
  <2>5. AliasInv'
    BY <1>1, <2>1, <2>2, AliasesStay
  <2> QED
    BY <2>4, <2>5 DEF RecallInv
<1>5. CASE UNCHANGED L!vars
  <2>1. UNCHANGED <<recallInput, recallPhase, queue, recallWorker, recallCalls, aliases, records, recallCandidates, overflow, pairs>>
    BY <1>5 DEF L!vars
  <2>2. /\ recallPhase' \in {"alias", "retrieve", "done"} => L!Valid(recallInput) /\ L!Sound(recallInput.vectors)
        /\ recallPhase' = "retrieve" => DOMAIN records = Mentions
    BY <1>1, <2>1 DEF AliasInv, PairsInv
  <2> QED
    BY <1>1, <2>1, <2>2, PairsStay, AliasesStay DEF RecallInv
<1> QED
  BY <1>2, <1>3, <1>4, <1>5, AliasTakeKeeps, AliasAnswerKeeps, RetrieveKeeps DEF L!Next

\* Both records of a pair see the same of each other.
LEMMA BothSee ==
    ASSUME NEW m \in Mentions, NEW o \in Mentions, m # o
    PROVE  /\ L!Pair(m, o) = L!Pair(o, m) /\ (o \in L!Forced(m) <=> m \in L!Forced(o))
           /\ (L!SameId(m, o) <=> L!SameId(o, m)) /\ (L!SameName(m, o) <=> L!SameName(o, m))
           /\ (L!SameRecord(m, o) <=> L!SameRecord(o, m)) /\ (L!Conflicts(m, o) <=> L!Conflicts(o, m))
<1>1. L!Pair(m, o) = L!Pair(o, m)
  <2>1. m \in Nat /\ o \in Nat
    BY RecallFacts
  <2> QED
    BY <2>1 DEF L!Pair
<1>2. {m, o} = {o, m}
  OBVIOUS
<1>3. o \in L!Forced(m) <=> m \in L!Forced(o)
  BY <1>2 DEF L!Forced
<1>4. (L!SameId(m, o) <=> L!SameId(o, m)) /\ (L!SameName(m, o) <=> L!SameName(o, m)) /\ (L!SameRecord(m, o) <=> L!SameRecord(o, m))
  BY DEF L!SameId, L!SameName, L!SameRecord
<1>5. L!Conflicts(m, o) <=> L!Conflicts(o, m)
  BY DEF L!Conflicts
<1> QED
  BY <1>1, <1>3, <1>4, <1>5

\* What shares an identifier, a name or a record key shares a feature.
LEMMA StrongShares ==
    ASSUME NEW m, NEW o, L!SameId(m, o) \/ L!SameName(m, o) \/ L!SameRecord(m, o)
    PROVE  \E key : key \in L!Features(m) /\ key \in L!Features(o)
<1>1. CASE L!SameId(m, o)
  <2>1. PICK v : v \in L!Ids(m) /\ v \in L!Ids(o)
    BY <1>1 DEF L!SameId
  <2>2. <<"id", v>> \in L!Features(m) /\ <<"id", v>> \in L!Features(o)
    BY <2>1 DEF L!Features
  <2> QED
    BY <2>2
<1>2. CASE L!SameName(m, o)
  <2>1. PICK v : v \in L!RecallNames(m) /\ v \in L!RecallNames(o)
    BY <1>2 DEF L!SameName
  <2>2. <<"name", v>> \in L!Features(m) /\ <<"name", v>> \in L!Features(o)
    BY <2>1 DEF L!Features
  <2> QED
    BY <2>2
<1>3. CASE L!SameRecord(m, o)
  <2>1. PICK v : v \in L!RecordKeys(m) /\ v \in L!RecordKeys(o)
    BY <1>3 DEF L!SameRecord
  <2>2. <<"record", v>> \in L!Features(m) /\ <<"record", v>> \in L!Features(o)
    BY <2>1 DEF L!Features
  <2> QED
    BY <2>2
<1> QED
  BY <1>1, <1>2, <1>3

LEMMA StrongIsCompared ==
    ASSUME PairsInv, recallPhase = "done", NEW m \in Mentions, NEW o \in Mentions, m # o, L!Strong(m, o),
           recallInput.policy = "balanced" => ~L!Filtered(m, o)
    PROVE  L!Pair(m, o) \in pairs \/ (o \notin L!Forced(m) /\ {m, o} \subseteq overflow)
<1>1. SeenOf(m) /\ SeenOf(o) /\ recallInput \in RecallInputs
  BY DEF PairsInv
<1>2. CASE o \in L!Forced(m)
  BY <1>1, <1>2 DEF SeenOf
<1>3. CASE o \notin L!Forced(m)
  <2>1. L!SameId(m, o) \/ L!SameName(m, o) \/ L!SameRecord(m, o)
    BY <1>3 DEF L!Strong
  <2>2. PICK key : key \in L!Features(m) /\ key \in L!Features(o)
    BY <2>1, StrongShares
  <2>3. CASE L!TooCommon(key)
    BY <1>1, <1>3, <2>2, <2>3 DEF SeenOf
  <2>4. CASE ~L!TooCommon(key)
    <3>1. m \in L!Block(key) /\ o \in L!Block(key)
      BY <2>2 DEF L!Block
    <3>2. o \in L!Pool(m) /\ m \in L!Pool(o)
      BY <2>2, <2>4, <3>1 DEF L!Pool
    <3>3. L!Strong(o, m) /\ (recallInput.policy = "balanced" => ~L!Filtered(o, m))
      BY BothSee DEF L!Strong, L!Filtered
    <3>4. recallInput.policy \in {"original", "balanced"}
      BY <1>1, RecallFacts
    <3>5. o \in L!Ranked(m) /\ m \in L!Ranked(o)
      BY <3>2, <3>3, <3>4 DEF L!Ranked, L!Eligible
    <3>6. /\ o \in recallCandidates[m] \/ m \in overflow
          /\ m \in recallCandidates[o] \/ o \in overflow
      BY <1>1, <3>5 DEF SeenOf
    <3>7. o \in recallCandidates[m] => L!Pair(m, o) \in pairs
      BY <1>1 DEF SeenOf
    <3>8. m \in recallCandidates[o] => L!Pair(m, o) \in pairs
      BY <1>1, BothSee DEF SeenOf
    <3> QED
      BY <1>3, <3>6, <3>7, <3>8
  <2> QED
    BY <2>3, <2>4
<1> QED
  BY <1>2, <1>3

LEMMA RecallInvIsSound ==
    ASSUME RecallInv PROVE L!StrongPairsAreCompared /\ L!StrongestAreKept /\ L!AliasesAreGrounded
<1>1. AliasInv /\ PairsInv
  BY DEF RecallInv
<1>2. L!StrongPairsAreCompared
  BY <1>1, StrongIsCompared DEF L!StrongPairsAreCompared
<1>3. recallPhase = "done" => L!Cardinality(pairs) <= MaxPairs
  BY <1>1, RecallSets DEF PairsInv
<1>4. L!StrongestAreKept
  <2>1. ASSUME NEW m \in DOMAIN recallCandidates, NEW o \in L!Pool(m) \ recallCandidates[m],
               NEW k \in recallCandidates[m], L!SameId(m, o)
        PROVE  L!SameId(m, k) \/ k \in L!Forced(m)
    <3>1. SeenOf(m)
      BY <1>1 DEF PairsInv
    <3> QED
      BY <2>1, <3>1 DEF SeenOf
  <2> QED
    BY <1>3, <2>1 DEF L!StrongestAreKept
<1>5. L!AliasesAreGrounded
  <2>1. L!Cardinality({m \in DOMAIN records : records[m] # "skipped"}) = Cardinality(Spent)
    BY RecallSets DEF Spent
  <2>2. L!Cardinality({w \in Workers : recallWorker[w] # None}) = Cardinality(Busy)
    BY RecallSets DEF Busy
  <2>3. Cardinality(Spent) \in Nat /\ Cardinality(Busy) \in Nat
    BY <1>1, FS_CardinalityType DEF AliasInv
  <2>4. /\ recallCalls \in Nat /\ recallCalls <= MaxAliasCalls /\ MaxAliasCalls \in Nat
        /\ Cardinality(Spent) + Cardinality(Busy) <= recallCalls
    BY <1>1, RecallFacts DEF AliasInv
  <2>5. Cardinality(Spent) + Cardinality(Busy) <= MaxAliasCalls
    BY <2>3, <2>4
  <2>6. \A m \in DOMAIN records : GainedOf(m)
    BY <1>1 DEF AliasInv
  <2>7. recallPhase = "retrieve" => DOMAIN records = Mentions
    BY <1>1 DEF AliasInv
  <2> QED
    BY <2>1, <2>2, <2>4, <2>5, <2>6, <2>7 DEF L!AliasesAreGrounded, GainedOf
<1> QED
  BY <1>2, <1>4, <1>5

RecallKept == part = "recall" => RecallInv

LEMMA RecallStays == RecallKept /\ [MCNext]_allVars => RecallKept'
<1> SUFFICES ASSUME RecallKept, [MCNext]_allVars, part' = "recall" PROVE RecallInv'
  BY DEF RecallKept
<1>1. CASE part = "recall" /\ L!Next
  BY <1>1, RecallStep DEF RecallKept
<1>2. CASE part = "recall" /\ UNCHANGED recallVars
  <2>1. UNCHANGED L!vars
    BY <1>2 DEF recallVars, L!vars
  <2> QED
    BY <1>2, <2>1, RecallStep DEF RecallKept
<1> QED
  BY <1>1, <1>2 DEF MCNext, allVars

(* Whichever worker asks for the other names of a record, and whatever the  *)
(* model answers: no more calls are made than allowed and no name is gained *)
(* without a quote; two records that share an identifier, a name or a key   *)
(* are compared or both disclose that their recall is incomplete; and no    *)
(* cut drops a shared identifier for a record that only looks similar       *)
(* (candidates.py, synonyms.py).                                            *)
THEOREM RecallStaysSound == MCSpec => []RecallIsSound
<1>1. MCInit => RecallKept
  BY RecallInit DEF MCInit, RecallKept
<1>2. RecallKept => RecallIsSound
  BY RecallInvIsSound DEF RecallKept, RecallIsSound
<1> QED
  BY <1>1, <1>2, RecallStays, PTL DEF MCSpec
====
