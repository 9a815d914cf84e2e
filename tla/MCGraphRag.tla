---- MODULE MCGraphRag ----
(* Jobs that make graphs and what reads them, side by side: GraphRAG's index *)
(* jobs, documents and questions, alignment runs whose processes die, and    *)
(* the browser of published versions.  A behaviour is of one component; the  *)
(* variables of the others stand still.                                      *)
EXTENDS GraphRagJobs, TLC

CONSTANTS
    Versions, Content, Concepts, PageLimit, PageEdges,            \* of GraphBrowser
    Clients, Tables, Contexts, Names, EvidenceEdges,              \* of GraphQueries
    Uploads, Extractions, Clean, MaxFile, MaxBatch, MaxDocuments,
    MaxText, MaxIndexed, Bad,                                     \* of DocumentRecords
    MaxRuns, MaxJobs, RunTables, Chunks,                          \* of AlignmentRuns
    c1, c2                                                        \* values of the inputs below

VARIABLES
    part,   \* which of the components this behaviour is of
    store, current, view,
    indexed, queue, holder, models, pc, ask, answer,
    input, phase, dataset, attempts, captured, saved, latest, documentsIndexed,
    status, graphStatus, result, graphVersion, kind, runOf, last, active, expired, main, work, ticket, pointer, version, stored, sent

----

VContent ==
    <<[nodes |-> (1 :> c1) @@ (2 :> c2) @@ (3 :> c1), edges |-> {<<1, 2>>, <<1, 3>>}],
      [nodes |-> (1 :> c1) @@ (3 :> c2) @@ (4 :> c1) @@ (5 :> c1), edges |-> {<<3, 1>>, <<4, 1>>, <<1, 5>>}]>>

----
(* Two clients of a sound dataset and of one whose titles repeat and      *)
(* whose relations leave it.                                                *)

QEntity(i, name) == [id |-> i, title |-> name, units |-> {"u1"}]
QRel(i, h, from, to, k) == [id |-> i, hid |-> h, source |-> from, target |-> to, rank |-> k, units |-> {"u1"}]

QTables == [
    sound |-> [
        entities |-> {QEntity("e1", "A"), QEntity("e2", "B"), QEntity("e3", "C")},
        rels |-> {QRel("r1", 1, "A", "B", 5), QRel("r2", 2, "B", "C", 3), QRel("r3", 3, "A", "A", 9)},
        units |-> {[id |-> "u1", hid |-> 1, entities |-> {"e1", "e3", "gone"}]},
        communities |-> {[report |-> 1, members |-> {"e1", "e2"}], [report |-> 2, members |-> {"e3"}]}],
    broken |-> [
        entities |-> {QEntity("e1", "A"), QEntity("e2", "B")},
        rels |-> {QRel("r1", 1, "A", "X", 2), QRel("r2", 2, "A", "B", 1)},
        units |-> {[id |-> "u1", hid |-> 1, entities |-> {"e2"}]},
        communities |-> {[report |-> 1, members |-> {"e2"}]}]]

QNames == [
    local |-> {<<"local_search", "chat">>, <<"local_search", "embedding">>},
    global |-> {<<"global_search", "chat">>}]

QNoCites == [entities |-> {}, reports |-> {}, rels |-> {}, sources |-> {}]
QNamed(n, i) == [name |-> n, id |-> i]
QContext(e, p, r, s, c) == [entities |-> e, reports |-> p, rels |-> r, sources |-> s, cites |-> c]

QContexts == {
    QContext({}, {}, {}, {}, [QNoCites EXCEPT !.entities = {1}, !.sources = {1}]),
    QContext({QNamed("A", 1), QNamed("X", 2)}, {1}, {<<"B", "A">>}, {}, [QNoCites EXCEPT !.entities = {1, 2}, !.rels = {2}]),
    QContext({QNamed("A", 1), QNamed("B", 2)}, {}, {}, {}, [QNoCites EXCEPT !.rels = {1}]),
    QContext({QNamed("B", 1)}, {}, {<<"A", "A">>}, {}, [QNoCites EXCEPT !.rels = {1, 3}]),
    QContext({}, {1, 2}, {}, {}, [QNoCites EXCEPT !.reports = {1}]),
    QContext({}, {}, {}, {1}, [QNoCites EXCEPT !.sources = {1, 2}])}

----

DFile(ext, entries) ==
    [name |-> ext, named |-> TRUE, extension |-> ext, bytes |-> 2, encoding |-> "utf8",
     wellFormed |-> TRUE, entries |-> entries]

\* Lines with a text, a content, both, neither, and blank ones.
DLines == {None, [text |-> 1], [content |-> 2], [text |-> Bad, content |-> 1], [text |-> 0]}
DInputs ==
    {<<>>} \cup
    {<<DFile(e, <<a, b>>)>> : e \in {"csv", "jsonl", "json"}, a \in DLines, b \in DLines}
    \cup {<<[DFile(e, <<t>>) EXCEPT !.encoding = c, !.wellFormed = w, !.bytes = n]>> :
            e \in {"txt", "md", "pdf", "other"}, t \in {0, 2, 5, Bad}, c \in {"utf8", "gb18030"},
            w \in BOOLEAN, n \in {0, 2, 4}}
    \cup {<<DFile("txt", <<s>>), DFile("md", <<t>>)>> : s \in 1 .. 3, t \in 1 .. 3}
    \cup {<<DFile("txt", <<1>>), DFile("csv", <<[text |-> 1], [content |-> 2]>>)>>,
          <<DFile("csv", <<[text |-> 1], [content |-> 1], [text |-> 1]>>), DFile("txt", <<1>>)>>,
          <<[DFile("txt", <<1>>) EXCEPT !.bytes = 3], [DFile("txt", <<2>>) EXCEPT !.bytes = 3]>>,
          <<[DFile("txt", <<1>>) EXCEPT !.named = FALSE]>>}

DEntity(u, t) == [unit |-> u, title |-> t]
DRelation(u, s, t) == [unit |-> u, source |-> s, target |-> t]
DEntities ==
    {<<>>, <<DEntity(1, "A"), DEntity(1, "b")>>, <<DEntity(1, "A"), DEntity(1, "A")>>,
     <<DEntity(1, "A"), DEntity(2, "a"), DEntity(1, "b")>>,
     <<DEntity(2, "A"), DEntity(1, "b")>>, <<DEntity(1, "A"), DEntity(1, "a"), DEntity(1, "b")>>}
DRelations == {<<>>, <<DRelation(1, "a", "b"), DRelation(1, "a", "b")>>, <<DRelation(2, "A", "b")>>}
DExtractions == {[entities |-> e, relations |-> r] : e \in DEntities, r \in DRelations}
DClean == ("A" :> "a") @@ ("a" :> "a") @@ ("b" :> "b")

----
V == INSTANCE GraphBrowser WITH Limit <- PageLimit, MaxEdges <- PageEdges
Q == INSTANCE GraphQueries WITH MaxEdges <- EvidenceEdges
D == INSTANCE DocumentRecords WITH
    Inputs <- Uploads, MaxAttempts <- MaxIndexed, indexed <- documentsIndexed
R == INSTANCE AlignmentRuns WITH Tables <- RunTables

ASSUME InputsAssumption == V!BrowserConstants /\ Q!QueryConstants /\ D!DocumentConstants

browserVars == <<store, current, view>>
queriesVars == <<indexed, queue, holder, models, pc, ask, answer>>
documentsVars ==
    <<input, phase, dataset, attempts, captured, saved, latest,
      documentsIndexed>>
runsVars ==
    <<status, graphStatus, result, graphVersion, kind, runOf, last, active,
      expired, main, work, ticket, pointer, version, stored, sent>>
allVars == <<part, vars, browserVars, queriesVars, documentsVars, runsVars>>

NoBrowser ==
    /\ store = None /\ current = None /\ view = None
NoQueries == Q!Init /\ indexed = {}
NoDocuments ==
    /\ input = None /\ phase = None /\ dataset = None /\ attempts = None
    /\ captured = None /\ saved = None /\ latest = None /\ documentsIndexed = None
NoRuns == R!Init

MCInit ==
    \/ part = "jobs" /\ Init /\ NoBrowser /\ NoQueries /\ NoDocuments /\ NoRuns
    \/ part = "browser" /\ Init /\ V!Init /\ NoQueries /\ NoDocuments /\ NoRuns
    \/ part = "queries" /\ Init /\ Q!Init /\ NoBrowser /\ NoDocuments /\ NoRuns
    \/ part = "documents" /\ Init /\ D!Init /\ NoBrowser /\ NoQueries /\ NoRuns
    \/ part = "runs" /\ Init /\ R!Init /\ NoBrowser /\ NoQueries /\ NoDocuments

MCNext ==
    \/ /\ part = "jobs" /\ Next
       /\ UNCHANGED <<part, browserVars, queriesVars, documentsVars, runsVars>>
    \/ /\ part = "browser" /\ V!Next
       /\ UNCHANGED <<part, vars, queriesVars, documentsVars, runsVars>>
    \/ /\ part = "queries" /\ Q!Next
       /\ UNCHANGED <<part, vars, browserVars, documentsVars, runsVars>>
    \/ /\ part = "documents" /\ D!Next
       /\ UNCHANGED <<part, vars, browserVars, queriesVars, runsVars>>
    \/ /\ part = "runs" /\ R!Next
       /\ UNCHANGED <<part, vars, browserVars, queriesVars, documentsVars>>

(* The fairness of GraphRagJobs, GraphQueries and AlignmentRuns, where they  *)
(* run.                                                                      *)
MCFairness ==
    /\ \A c \in Clients : WF_queriesVars(part = "queries" /\ Q!Step(c))
    /\ WF_vars(part = "jobs" /\ \E q \in Requests : Get(q) \/ Again(q))
    /\ \A q \in Requests :
        /\ WF_vars(part = "jobs" /\ Served(q))
        /\ SF_vars(part = "jobs" /\ LockJob(q))
    /\ \A s \in 1 .. MaxJobs :
        /\ WF_runsVars(part = "runs" /\ R!Coroutine(s))
        /\ WF_runsVars(part = "runs" /\ R!Work(s))
    /\ WF_runsVars(part = "runs" /\ R!Abandoned /\ R!LeaseRunsOut)
    /\ WF_runsVars(part = "runs" /\ R!Read)
    /\ \A a \in Attempts : SF_vars(part = "jobs" /\ Work(a))
    /\ WF_vars(part = "jobs" /\ LaunchGrowsOld)
    /\ <>[](\A q \in Requests : ~At(q, "gone"))

MCSpec == MCInit /\ [][MCNext]_allVars /\ MCFairness

(* What the pages of the graph browser and the answers of GraphRAG are made  *)
(* of: one version (alignment/browsing.py:95), the question's own models and *)
(* evidence that names only what is there (graphrag/exploration.py:195).     *)
(* Documents are imported whole, and their records say where they are from   *)
(* (graphrag/parsers.py, records.py).                                        *)
AnswersAreGrounded ==
    /\ part = "jobs" => TypeOK
    /\ part = "browser" => V!PagesAreOneVersion
    /\ part = "queries" => Q!AnswersUseOwnModels /\ Q!EvidenceIsClosed
    /\ part = "documents" => D!ImportIsWhole /\ D!RecordsAreWhole

(* A poll finds a job whose process is gone (graphrag/jobs.py), no alignment *)
(* run stays in progress for ever (alignment/store.py), and every question   *)
(* ends and gives the query lock back (graphrag/service.py:359).             *)
WorkEnds == JobSettles /\ R!RunsSettle /\ Q!QuestionsSettle
====
