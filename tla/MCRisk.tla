---- MODULE MCRisk ----
(* Rules, from the ontology to an execution, side by side: a behaviour is of *)
(* one component, the variables of the others keep their first value.        *)
EXTENDS RiskRules

CONSTANTS
    \* of RuleTraversal
    Exports, Revision, Anchor, Depths, MaxCandidates,
    \* of RiskExecution
    ExecutionRules, Mapped, Versions, BoScope, From, To, PageSize, MaxRows, SampleRows, Unreadable,
    \* of OntologyAccess
    MatchThreads, RiskThreads, Datasets, Configs, Concurrency,
    \* of WhyImport
    Nodes, Importers, Revisions, PinnedRevision, Why, Snapshots, Copies, Files, Empty,
    \* rules, concepts, texts and revisions of the inputs below
    r1, r2, m, n1, n2, w1, w2

VARIABLES
    part,   \* which of the components this behaviour is of
    export, maxDepth, pc, graph, best, heap, blocked,
    rule, mode, published, executionPc, total, nodes, after, result,
    remote, config, lock, catalog, risk, dims, ontologyPc, seen, got, todo, busy, read, archive,
    snapshot, service, whyImportTask, output, temps

(* A rule; a candidate that is refused; one candidate too many.             *)
MCAnswers == {<<r1>>, <<m>>, <<r2, r1>>}

----
(* Every subset of a pool of edges over four concepts of the pinned         *)
(* revision, with a concept of another revision that only some exports      *)
(* wrongly refer to.                                                        *)

\* A concept's key in the pinned revision.
TK(n) == <<1, n>>

TE(type, a, b) == [type |-> type, start |-> TK(a), end |-> TK(b), revision |-> 1]

TPool ==
    {TE("is_a", 1, 2), TE("is_a", 2, 3), TE("is_a", 3, 4), TE("is_a", 3, 1),
     TE("has_participant", 2, 1), TE("has_participant", 1, 3),
     TE("has_participant", 4, 2), TE("preceded_by", 1, 4), TE("located_in", 3, 4)}

\* One relationship of the pinned revision ends in the other one.
TStray == [type |-> "located_in", start |-> TK(1), end |-> <<2, 4>>, revision |-> 1]

TNodes ==
    {[id |-> n, revision |-> 1, why |-> IF n = 1 THEN None ELSE n, hash |-> None] : n \in 1..4}
    \cup {[id |-> 4, revision |-> 2, why |-> 4, hash |-> 4]}

TExports ==
    {[nodes |-> TNodes, edges |-> edges] : edges \in SUBSET TPool}
    \cup {[nodes |-> TNodes, edges |-> {TStray}]}

----
(* Four instances of one version in which single fields are missing or      *)
(* unreadable, and rules of the three predicates, whole and defective.      *)

ERow(id, at, status, type, region, amount) ==
    [id |-> id, concept |-> IF id = 9 THEN "other" ELSE "c", account |-> "acc", at |-> at,
     status |-> status, type |-> type, region |-> region, amount |-> amount]

\* Two transactions either side of midnight at +08:00, the second with one
\* field as given; one outside the window; one outside the scope.
EVersions ==
    {{ERow(1, 15, "ok", "cash", "x", 6),
      ERow(2, v[1], v[2], v[3], v[4], v[5]),
      ERow(3, 17, "ok", "cash", "y", 7),
      ERow(4, 99, "ok", None, None, None),
      ERow(9, 15, None, None, None, None)} :
        v \in {<<14, "ok", "cash", "x", 7>>, <<None, "ok", "cash", "x", 7>>,
               <<14, None, "cash", "x", 7>>, <<14, "no", None, None, None>>,
               <<14, "ok", None, "x", 7>>, <<14, "ok", "wire", "x", Unreadable>>,
               <<14, "ok", "cash", None, 7>>, <<14, "ok", "cash", "x", Unreadable>>,
               <<14, "ok", "cash", "x", 12>>}}
    \cup {{ERow(id, 15, "ok", "cash", "x", 6) : id \in 1..5}}

ECash ==
    "threshold" :> 10 @@ "n_min" :> 2 @@ "max_single_le_threshold" :> TRUE @@
    "timezone" :> "+08:00" @@ "subject_dimension" :> "Account" @@ "cash_scope" :> "cash" @@
    "status_filter" :> "ok" @@ "bo_scope" :> {"c"}

ERegion == "regions" :> {"x"} @@ "status_filter" :> "ok" @@ "bo_scope" :> {"c"}

EScoped ==
    "n_min" :> 1 @@ "status_filter" :> "ok" @@ "group_by" :> "account" @@
    "amount_min" :> 7 @@ "total_min" :> 8 @@ "bo_scope" :> {"c"}

EPack(predicate, params) ==
    [predicate |-> predicate, params |-> params, quoted |-> {"predicate"} \cup DOMAIN params]

EWithout(f, key) == [x \in DOMAIN f \ {key} |-> f[x]]

ERules ==
    {EPack("cash_aggregate_threshold", ECash),
     EPack("cash_aggregate_threshold", EWithout(ECash, "n_min")),
     [EPack("cash_aggregate_threshold", ECash) EXCEPT !.quoted = {"predicate"}],
     EPack("counterparty_region", ERegion),
     EPack("counterparty_region", ERegion @@ "transaction_type" :> "cash"),
     EPack("bo_scoped_aggregate", EScoped),
     EPack("bo_scoped_aggregate", EScoped @@ "txn_type" :> "cash"),
     EPack("velocity", EScoped)}

EMapped == {"account", "at", "amount", "status", "type", "region"}

----
(* Two ontologies that use one revision and one malformed dataset; a remote *)
(* service, or a local file with a pinned revision.                         *)

ODatasets ==
    {[id |-> "a", rev |-> 1, why |-> {"c", "d"}, valid |-> TRUE],
     [id |-> "b", rev |-> 1, why |-> {"c"}, valid |-> TRUE],
     [id |-> "a", rev |-> 2, why |-> {}, valid |-> FALSE]}

OConfigs ==
    {[remote |-> TRUE, file |-> "old", ready |-> {1}, expected |-> None],
     [remote |-> FALSE, file |-> "new", ready |-> {1, 2}, expected |-> None],
     [remote |-> FALSE, file |-> "new", ready |-> {1, 2}, expected |-> 2]}

----

WWhy == [r \in {r1, r2} |-> [n \in {n1, n2} |->
            IF n = n1 THEN (IF r = r1 THEN w1 ELSE w2) ELSE IF r = r1 THEN Empty ELSE w1]]
WSnapshots == {[n \in {n1, n2} |-> None], [n \in {n1, n2} |-> IF n = n1 THEN w1 ELSE None],
                [n \in {n1, n2} |-> IF n = n1 THEN w2 ELSE None]}
WAnswer(n, r, w, h) == [node |-> n, revision |-> r, why |-> w, hash |-> h]
WFiles == {{WAnswer(n1, r1, w1, w1), WAnswer(n2, r1, Empty, Empty)}, {WAnswer(n1, r1, w1, w1)},
            {WAnswer(n1, r1, w1, w1), WAnswer(n2, r2, w1, w1)},
            {WAnswer(n1, r1, w2, w2), WAnswer(n2, r1, w1, w1)}}

----
T == INSTANCE RuleTraversal
E == INSTANCE RiskExecution WITH Scope <- BoScope, Rules <- ExecutionRules, pc <- executionPc
O == INSTANCE OntologyAccess WITH pc <- ontologyPc
W == INSTANCE WhyImport WITH Pinned <- PinnedRevision, task <- whyImportTask

traversalVars == <<export, maxDepth, pc, graph, best, heap, blocked>>
executionVars ==
    <<rule, mode, published, executionPc, total, nodes, after, result>>
ontologyVars ==
    <<remote, config, lock, catalog, risk, dims, ontologyPc, seen, got, todo,
      busy, read, archive>>
whyImportVars == <<snapshot, service, whyImportTask, output, temps>>
allVars ==
    <<part, vars, traversalVars, executionVars, ontologyVars, whyImportVars>>

NoTraversal ==
    /\ export = None /\ maxDepth = None /\ pc = None /\ graph = None
    /\ best = None /\ heap = None /\ blocked = None
NoExecution ==
    /\ rule = None /\ mode = None /\ published = None
    /\ executionPc = None /\ total = None /\ nodes = None /\ after = None
    /\ result = None
NoOntology ==
    /\ remote = None /\ config = None /\ lock = None /\ catalog = None
    /\ risk = None /\ dims = None /\ ontologyPc = None /\ seen = None
    /\ got = None /\ todo = None /\ busy = None /\ read = None /\ archive = None
NoWhyImport ==
    /\ snapshot = None /\ service = None /\ whyImportTask = None
    /\ output = None /\ temps = None

MCInit ==
    \/ part = "rules" /\ Init /\ NoTraversal /\ NoExecution /\ NoOntology /\ NoWhyImport
    \/ part = "traversal" /\ Init /\ T!Init /\ NoExecution /\ NoOntology /\ NoWhyImport
    \/ part = "execution" /\ Init /\ E!Init /\ NoTraversal /\ NoOntology /\ NoWhyImport
    \/ part = "ontology" /\ Init /\ O!Init /\ NoTraversal /\ NoExecution /\ NoWhyImport
    \/ part = "whyImport" /\ Init /\ W!Init /\ NoTraversal /\ NoExecution /\ NoOntology

MCNext ==
    \/ /\ part = "rules" /\ Next
       /\ UNCHANGED <<part, traversalVars, executionVars, ontologyVars,
                      whyImportVars>>
    \/ /\ part = "traversal" /\ T!Next
       /\ UNCHANGED <<part, vars, executionVars, ontologyVars, whyImportVars>>
    \/ /\ part = "execution" /\ E!Next
       /\ UNCHANGED <<part, vars, traversalVars, ontologyVars, whyImportVars>>
    \/ /\ part = "ontology" /\ O!Next
       /\ UNCHANGED <<part, vars, traversalVars, executionVars, whyImportVars>>
    \/ /\ part = "whyImport" /\ W!Next
       /\ UNCHANGED <<part, vars, traversalVars, executionVars, ontologyVars>>

ASSUME InputsAssumption ==
    /\ T!TraversalAssumption /\ E!ExecutionAssumption /\ O!AccessAssumption
    /\ W!ImportAssumption

(* The fairness of RiskRules asks nothing where no rule is generated.        *)
MCSpec ==
    /\ MCInit /\ [][MCNext]_allVars /\ Fairness
    /\ \A t \in O!Threads : WF_ontologyVars(part = "ontology" /\ O!Step(t))

(* A repeated generation leaves the rules that were generated before and     *)
(* their reviews as they are (risk/service.py:201), and an answer that was   *)
(* cut is never called complete.                                             *)
GenerationIsSound == TypeOK /\ RetryKeepsHistory /\ CompleteMeansWhole

(* What risk/propagation.py returns: the strongest path to every candidate,  *)
(* with a depth cut that is told, and a scope that inherits only WHY.        *)
(* What risk/execution.py reports: the whole scope or an error, and skipped  *)
(* for a cause a reader can name.                                            *)
RulesAreComputed ==
    /\ part = "traversal" => T!StrongestPath /\ T!DepthIsTold /\ T!ScopeInheritsWhy
    /\ part = "execution" => E!NeverPartial /\ E!SkippedForCause

(* What ontology/service.py hands out is archived, with every WHY text.      *)
CatalogueIsWhole == part = "ontology" => O!RecordedIsArchived /\ O!RiskIsWhole

(* What risk/import_why.py leaves behind under the output's name.        *)
ImportIsVerified ==
    part = "whyImport" => W!OutputIsVerified /\ W!SuccessIsMine /\ W!NothingIsContradicted

(* A generation job settles for good (risk/service.py), and the lock of the  *)
(* ontology service is released (ontology/service.py:143).                   *)
WorkEnds ==
    SettledIsFinal /\ (part = "rules" => WorkSettles)
    /\ (part = "ontology" => O!LockIsReleased)
====
