---- MODULE ResolutionRuns ----
(* Entity resolution: the leased analysis of a graph and the decisions on   *)
(* its candidates (resolution/store.py, service.py, projection.py).         *)
(*                                                                          *)
(* A candidate is the set of nodes it would make one entity: that is what   *)
(* its id digests, so a manual request for the nodes of a candidate decides *)
(* on that candidate.  Nodes are numbered in the order of their ids.        *)
(*                                                                          *)
(* Of the analyzed graph, names are the pairs whose names the identity      *)
(* guard keeps apart; records are nodes of which some records, those of     *)
(* earlier merges included, it keeps apart; retrieved are the pairs the     *)
(* engine compares, unquoted those whose quotes are not in the source.      *)
(* MaxCluster is the 100 of the code; MaxDecisions bounds the model.        *)
EXTENDS Integers, FiniteSets, FiniteSetsExt

CONSTANTS Runs, Nodes, Graphs, MaxCluster, MaxDecisions, None

Candidates == {c \in SUBSET Nodes : Cardinality(c) >= 2}
Pairs == {c \in SUBSET Nodes : Cardinality(c) = 2}

ResolutionConstants ==
    /\ IsFiniteSet(Nodes) /\ Nodes \subseteq Nat /\ None \notin Nodes
    /\ Graphs \subseteq [names : SUBSET Pairs, records : SUBSET SUBSET Nodes,
                         retrieved : SUBSET Pairs, unquoted : SUBSET Pairs]
    /\ \A g \in Graphs : g.names \subseteq g.records /\ g.unquoted \subseteq g.retrieved
    /\ MaxCluster \in Nat \ {0} /\ MaxDecisions \in Nat

VARIABLES
    graph,     \* the input of the analyses: never changed
    status,    \* "none" before create, then the run's status
    lease,     \* expires: "live", "lapsed" (still to be noticed), "none" (0)
    task,      \* the coroutine _execute
    late,      \* whether its cancelled thread is still to carry out finish
    revision,
    book,      \* run.candidates: mark, decision_order and canonical_id of each
    applied    \* the revision the analysis ended with

vars == <<graph, status, lease, task, late, revision, book, applied>>

Entry == [mark : {"absent", "open", "merged", "rejected"},
          order : 0 .. MaxDecisions, keep : Nodes \cup {None}]
Absent == [mark |-> "absent", order |-> 0, keep |-> None]
Open == [mark |-> "open", order |-> 0, keep |-> None]

TypeOK ==
    /\ graph \in Graphs
    /\ status \in [Runs -> {"none", "analyzing", "ready", "failed"}]
    /\ lease \in [Runs -> {"live", "lapsed", "none"}]
    /\ task \in [Runs -> {"analyze", "fail", "gone"}]
    /\ late \in [Runs -> BOOLEAN]
    /\ revision \in [Runs -> 0 .. MaxDecisions] /\ applied \in [Runs -> 0 .. MaxDecisions]
    /\ book \in [Runs -> [Candidates -> Entry]]
    /\ \A r \in Runs : /\ lease[r] # "none" => status[r] = "analyzing"
                       /\ status[r] = "none" => task[r] = "gone"
                       /\ \A c \in Candidates :
                             book[r][c].mark = "merged" => book[r][c].keep \in c

Init ==
    /\ graph \in Graphs
    /\ status = [r \in Runs |-> "none"] /\ lease = [r \in Runs |-> "none"]
    /\ task = [r \in Runs |-> "gone"] /\ late = [r \in Runs |-> FALSE]
    /\ revision = [r \in Runs |-> 0] /\ applied = [r \in Runs |-> 0]
    /\ book = [r \in Runs |-> [c \in Candidates |-> Absent]]

----
(* projection.memberships: the merges are replayed in the order of their    *)
(* decisions; each joins the groups of its nodes under the node it keeps.   *)

MergedIn(b) == {c \in Candidates : b[c].mark = "merged"}
RejectedIn(b) == {c \in Candidates : b[c].mark = "rejected"}

(* Mutant: a merge moves its own nodes and not the rest of their groups. *)
JoinNodes(owner, c, keep) == [n \in Nodes |-> IF n \in c THEN keep ELSE owner[n]]

Join(owner, c, keep) ==
    LET anchors == {owner[n] : n \in c}
    IN  [n \in Nodes |-> IF owner[n] \in anchors THEN keep ELSE owner[n]]

Owner(b) ==
    LET replay[k \in 0 .. MaxDecisions] ==
            IF k = 0 THEN [n \in Nodes |-> n]
            ELSE LET now == {c \in MergedIn(b) : b[c].order = k}
                 IN  IF now = {} THEN replay[k - 1]
                     ELSE LET c == CHOOSE c \in now : TRUE
                          IN  Join(replay[k - 1], c, b[c].keep)
    IN  replay[MaxDecisions]

Group(owner, n) == {m \in Nodes : owner[m] = owner[n]}
Affected(b, c) == LET owner == Owner(b) IN UNION {Group(owner, n) : n \in c}

(* Mutant: a rejected candidate is only compared with whole groups. *)
ConsistentMerge(b, owner) ==
    \A c \in RejectedIn(b) : c \notin {Group(owner, n) : n \in Nodes}

Consistent(b, owner) ==
    \A c \in RejectedIn(b) : Cardinality({owner[n] : n \in c}) = Cardinality(c)

(* What memberships accepts. *)
Valid(b) ==
    LET owner == Owner(b)
    IN  /\ \A n \in Nodes : Cardinality(Group(owner, n)) <= MaxCluster
        /\ Consistent(b, owner)

----
(* The lease.                                                               *)

(* _expire, which create, get and list begin with. *)
Expired(r) == lease[r] = "lapsed"
AfterExpiry == [r \in Runs |-> IF Expired(r) THEN "failed" ELSE status[r]]

(* create and the task that start creates for it. *)
Create(r) ==
    /\ status[r] = "none"
    /\ \A q \in Runs : lease[q] # "live"
    /\ status' = [AfterExpiry EXCEPT ![r] = "analyzing"]
    /\ lease' = [q \in Runs |-> IF q = r THEN "live" ELSE "none"]
    /\ task' = [task EXCEPT ![r] = "analyze"]
    /\ UNCHANGED <<graph, late, revision, book, applied>>

(* get, list. *)
Read ==
    /\ \E r \in Runs : Expired(r)
    /\ status' = AfterExpiry
    /\ lease' = [r \in Runs |-> IF Expired(r) THEN "none" ELSE lease[r]]
    /\ UNCHANGED <<graph, task, late, revision, book, applied>>

(* 120 seconds without a heartbeat; a heartbeat refreshes a live lease only.*)
Lapse(r) ==
    /\ lease[r] = "live"
    /\ lease' = [lease EXCEPT ![r] = "lapsed"]
    /\ UNCHANGED <<graph, status, task, late, revision, book, applied>>

(* Mutant: finish updates the run that is analyzed, whoever holds its lease.*)
MayFinishAnyone(r) == status[r] # "none"

(* finish's (and progress's) SELECT. *)
MayFinish(r) == lease[r] = "live"

----
(* The analysis.  The engine accepts pairs only if all of their cluster was *)
(* compared and found to be the same, which names that are kept apart never *)
(* are; policy "review" applies none of them.                               *)

Closed(S, M) == \A c \in M : c \cap S # {} => c \subseteq S
Component(M, n) ==
    {m \in Nodes : \A S \in SUBSET Nodes : n \in S /\ Closed(S, M) => m \in S}

CompleteLink(A) ==
    \A n \in Nodes : \A p \in Pairs :
        p \subseteq Component(A, n) => p \in graph.retrieved \ graph.names

Applied(A) == {c \in A : \A n \in c : \A u \in A \cap graph.unquoted : ~(u \subseteq Component(A, n))}

Before(c, d) == Min(c) < Min(d) \/ (Min(c) = Min(d) /\ Max(c) < Max(d))
Analyzed(A) ==
    [c \in Candidates |->
        IF c \in Applied(A)
        THEN [mark |-> "merged", keep |-> Min(c),
              order |-> 1 + Cardinality({d \in Applied(A) : Before(d, c)})]
        ELSE IF c \in graph.retrieved THEN Open ELSE Absent]

(* What finish writes: the outcome, and expires=0. *)
Write(r, outcome) ==
    /\ status' = [status EXCEPT ![r] = outcome]
    /\ lease' = [lease EXCEPT ![r] = "none"]

Ready(r) ==
    \E A \in SUBSET graph.retrieved :
        /\ CompleteLink(A) /\ Cardinality(Applied(A)) <= MaxDecisions
        /\ Valid(Analyzed(A))
        /\ book' = [book EXCEPT ![r] = Analyzed(A)]
        /\ revision' = [revision EXCEPT ![r] = Cardinality(Applied(A))]
        /\ applied' = [applied EXCEPT ![r] = Cardinality(Applied(A))]
        /\ Write(r, "ready")

Finish(r) ==
    /\ task[r] = "analyze" /\ MayFinish(r)
    /\ Ready(r)
    /\ task' = [task EXCEPT ![r] = "gone"]
    /\ UNCHANGED <<graph, late>>

(* A heartbeat, a report, update_run or finish refused, the model failed.   *)
Raise(r) ==
    /\ task[r] = "analyze"
    /\ task' = [task EXCEPT ![r] = "fail"]
    /\ UNCHANGED <<graph, status, lease, late, revision, book, applied>>

(* close: a thread that was in finish goes on. *)
Cancel(r) ==
    /\ task[r] = "analyze"
    /\ task' = [task EXCEPT ![r] = "fail"]
    /\ late' = [late EXCEPT ![r] = TRUE]
    /\ UNCHANGED <<graph, status, lease, revision, book, applied>>

(* The thread shares run with the coroutine that sets its status to failed; *)
(* it writes what it reads.  The candidates of a failed run are not looked  *)
(* at again, and left out.                                                  *)
LateThread(r) ==
    /\ late[r]
    /\ late' = [late EXCEPT ![r] = FALSE]
    /\ \/ MayFinish(r) /\ Ready(r)
       \/ MayFinish(r) /\ Write(r, "failed") /\ UNCHANGED <<revision, book, applied>>
       \/ ~MayFinish(r) /\ UNCHANGED <<status, lease, revision, book, applied>>
    /\ UNCHANGED <<graph, task>>

(* finish(run, owner) of a failed run; what it raises is suppressed. *)
Fail(r) ==
    /\ task[r] = "fail"
    /\ task' = [task EXCEPT ![r] = "gone"]
    /\ \/ MayFinish(r) /\ Write(r, "failed")
       \/ UNCHANGED <<status, lease>>
    /\ UNCHANGED <<graph, late, revision, book, applied>>

(* The process ends; its tasks and threads with it. *)
Crash ==
    /\ task' = [r \in Runs |-> "gone"] /\ late' = [r \in Runs |-> FALSE]
    /\ UNCHANGED <<graph, status, lease, revision, book, applied>>

----
(* Decisions: store.decide, one transaction under BEGIN IMMEDIATE.  The     *)
(* request names the revision it was made for, and require_revision refuses *)
(* every other; what an accepted decision does depends on nothing else.     *)

(* annotate_identity: an open candidate whose names are kept apart. *)
Excluded(r, c) ==
    book[r][c].mark = "open" /\ \E p \in graph.names : p \subseteq c

(* Mutant: the guard compares the candidate's nodes and not their groups. *)
MergeableNodes(r, c) == ~ \E p \in graph.records : p \subseteq c

Mergeable(r, c) == ~ \E p \in graph.records : p \subseteq Affected(book[r], c)

Entered(r, c, e) == [book[r] EXCEPT ![c] = e]

(* Mutant: every decision passes the identity guard, undoing one as well. *)
MayDecideGuarded(r, c, e) ==
    /\ status[r] = "ready" /\ ~Excluded(r, c)
    /\ Mergeable(r, c)
    /\ Valid(Entered(r, c, e))

MayDecide(r, c, e) ==
    /\ status[r] = "ready" /\ ~Excluded(r, c)
    /\ e.mark = "merged" => Mergeable(r, c)
    /\ Valid(Entered(r, c, e))

Decide(r, c, e) ==
    /\ revision[r] < MaxDecisions /\ \A q \in Runs \ {r} : revision[q] + revision[r] < MaxDecisions
    /\ MayDecide(r, c, e)
    /\ book' = [book EXCEPT ![r] = Entered(r, c, e)]
    /\ revision' = [revision EXCEPT ![r] = @ + 1]
    /\ UNCHANGED <<graph, status, lease, task, late, applied>>

MergeEntry(r, n) == [mark |-> "merged", order |-> revision[r] + 1, keep |-> n]

(* decision_order is only read of merged candidates. *)
Merge(r, c) ==
    /\ book[r][c].mark # "absent" /\ c \notin graph.unquoted
    /\ \E n \in c : Decide(r, c, MergeEntry(r, n))

Manual(r, c) == \E n \in c : Decide(r, c, MergeEntry(r, n))

Reject(r, c) ==
    /\ book[r][c].mark # "absent"
    /\ Decide(r, c, [Open EXCEPT !.mark = "rejected"])

Reset(r, c) ==
    /\ book[r][c].mark # "absent"
    /\ Decide(r, c, Open)

----
Analyze(r) ==
    Create(r) \/ Lapse(r) \/ Finish(r) \/ Raise(r) \/ Cancel(r) \/ LateThread(r) \/ Fail(r)

Review(r, c) == Merge(r, c) \/ Manual(r, c) \/ Reject(r, c) \/ Reset(r, c)

Next ==
    \/ Read \/ Crash
    \/ \E r \in Runs : Analyze(r) \/ \E c \in Candidates : Review(r, c)

Spec == Init /\ [][Next]_vars

----
(* Properties.                                                              *)

(* Replaying the decisions in their order gives the connected components of *)
(* the merges, whatever was reset between them; each is represented by the  *)
(* node that its latest merge keeps (projection.memberships; "reset removes *)
(* only selected merge and keeps other accepted paths").                    *)
ClustersAreComponents ==
    \A r \in Runs : LET b == book[r]  owner == Owner(b)  M == MergedIn(b) IN
        \A n \in Nodes :
            /\ Group(owner, n) = Component(M, n)
            /\ \/ owner[n] = n /\ Group(owner, n) = {n}
               \/ \E c \in M : /\ c \subseteq Component(M, n) /\ owner[n] = b[c].keep
                               /\ \A d \in M : d \subseteq Component(M, n) =>
                                     b[d].order <= b[c].order

(* No chain of merges brings two nodes of a rejected candidate together     *)
(* (docs/knowledge-workflow.md: a rejected pair is not merged indirectly    *)
(* through a third node).                                                   *)
RejectedStayApart ==
    \A r \in Runs, n \in Nodes :
        \A c \in RejectedIn(book[r]) :
            Cardinality(c \cap Component(MergedIn(book[r]), n)) <= 1

(* Records the identity guard keeps apart never meet in one entity through  *)
(* a person's decision, in whatever order merges and resets came; only what *)
(* the engine applied by itself, which compares names alone, can hold them. *)
Automatic(r) == {c \in MergedIn(book[r]) : book[r][c].order <= applied[r]}
BlockedStayApart ==
    \A r \in Runs, n \in Nodes, p \in graph.records :
        p \subseteq Component(MergedIn(book[r]), n) =>
            Cardinality(Component(MergedIn(book[r]), n)) = 1 \/
            \E c \in Automatic(r) : \E m \in c : p \subseteq Component(Automatic(r), m)

(* What was decided, by a person or by the engine, can be undone at once,   *)
(* in any order (docs/knowledge-workflow.md: rejecting, resetting).         *)
Reversible ==
    \A r \in Runs, c \in Candidates :
        book[r][c].mark \in {"merged", "rejected"} => MayDecide(r, c, Open)

(* A run that was failed, by its lease for one, never becomes ready through *)
(* an analysis that goes on, and a ready one is never failed or analyzed    *)
(* again: its decisions change by revisions only.                           *)
SettledStays ==
    \A r \in Runs :
        /\ status[r] \in {"ready", "failed"} => status'[r] = status[r]
        /\ status[r] # "analyzing" /\ book'[r] # book[r] => revision'[r] = revision[r] + 1
====
