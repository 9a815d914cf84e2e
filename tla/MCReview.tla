---- MODULE MCReview ----
(* Matching and entity resolution with the reviews people make of them, side *)
(* by side.  A behaviour is of one component; the variables of the others    *)
(* stand still.                                                              *)
EXTENDS MatchReview, TLC

CONSTANTS
    \* of ResolutionRuns
    RunIds, RunNodes, RunGraphs, MaxCluster, MaxDecisions,
    \* of ResolutionEngine and CandidateRecall
    Mentions, Workers, EngineInputs, MaxCalls, MaxPairs,
    RecallInputs, Terms, Similarity, MaxAliasCalls, MaxBlock, Limit, MaxVectors,
    \* of ResolvedGraphs
    Sources, Quotes, Apart, MaxDepth, MaxChanges, Joined,
    \* of ResolutionExperiments
    ExperimentInputs, Writers, Unit,
    \* what the definitions below name
    n1, n2, e1, e2, A, B, t1, t2

VARIABLES
    part,   \* which of the components this behaviour is of
    runsGraph, runsStatus, lease, runsTask, runsLate, runsRevision, book, applied,
    input, phase, next, worker, calls, charged, shared, decisions, sent, owner, accepted, todo,
    recallInput, recallPhase, queue, recallWorker, recallCalls, aliases, records, recallCandidates, overflow, pairs,
    source, run, depth,
    experimentsInput, dir, writer, found, view

MCSource == e1 :> n1 @@ e2 :> n2
MCTarget == e1 :> n2 @@ e2 :> n1
MCRelations == {<<A, B, t1>>, <<B, A, t1>>, <<B, A, t2>>}

(* A fresh graph whose raw edges declare types, and one that was matched    *)
(* before and comes with an annotation the ontology no longer allows.       *)
MCGraphs ==
    {[boid |-> [n \in Nodes |-> None], type |-> [e \in Edges |-> None],
      declared |-> e1 :> {} @@ e2 :> {t2}],
     [boid |-> n1 :> A @@ n2 :> None, type |-> e1 :> t2 @@ e2 :> None,
      declared |-> [e \in Edges |-> {t1, t2}]]}

----
(* Three nodes, all compared.  In one graph node 3 brings a record along    *)
(* that is kept apart from node 1, in the other their names are, and a pair *)
(* has no quotes.                                                           *)

RNodes == 1 .. 3
RPairs == {{a, b} : a \in RNodes, b \in RNodes} \ {{a} : a \in RNodes}
RGraphs ==
    {[names |-> {}, records |-> {{1, 3}}, retrieved |-> RPairs, unquoted |-> {}],
     [names |-> {{1, 3}}, records |-> {{1, 3}}, retrieved |-> RPairs, unquoted |-> {{2, 3}}]}

----
(* Four mentions.  In the first corpora they are records to be merged, in    *)
(* the others the first is located in its source and the rest are rival      *)
(* catalogue entries.                                                        *)

ERule(f) == f @@ [p \in {q \in {1, 2, 3, 4} \X {1, 2, 3, 4} : q[1] < q[2]} |-> None]

ECorpus(order, rule, rivals, crowd, apart, policy, unsupported) ==
    [order |-> order, rule |-> ERule(rule), rivals |-> rivals @@ [m \in {1, 2, 3, 4} |-> {}],
     overflow |-> crowd, apart |-> apart, policy |-> policy, unsupported |-> unsupported]

EChain == << <<1, 2>>, <<3, 4>>, <<2, 3>>, <<1, 4>> >>

EInputs ==
    {ECorpus(EChain, <<1, 2>> :> "same", <<>>, {4}, {}, policy, {}) : policy \in {"review", "apply"}}
    \cup {ECorpus(EChain, <<1, 3>> :> "different" @@ <<3, 4>> :> "same", <<>>, {}, {<<1, 3>>},
                 "apply", {<<1, 2>>}),
          ECorpus(EChain, <<2, 3>> :> "raise", <<>>, {}, {}, "apply", {}),
          ECorpus(<< <<1, 2>>, <<1, 3>>, <<2, 3>> >>, <<>>, <<>>, {}, {}, "apply", {<<1, 2>>}),
          ECorpus(<< <<1, 2>>, <<2, 3>> >>, <<1, 2>> :> "same", <<>>, {}, {}, "apply", {}),
          ECorpus(<< <<1, 2>>, <<2, 3>> >>, <<1, 3>> :> "raise", <<>>, {}, {}, "apply", {}),
          ECorpus(<< <<1, 2>>, <<2, 3>>, <<1, 3>>, <<3, 4>>, <<2, 4>> >>,
                 <<1, 3>> :> "uncertain" @@ <<2, 3>> :> "same", <<>>, {4}, {<<1, 3>>}, "apply", {})}
    \cup {ECorpus(<< <<1, 2>>, <<1, 3>>, <<3, 4>>, <<1, 4>> >>, <<>>, 1 :> {2, 3, 4}, {}, {},
                 policy, {}) : policy \in {"review", "apply"}}
    \cup {ECorpus(<< <<1, 2>>, <<1, 3>>, <<1, 4>> >>, <<1, 3>> :> "same", 1 :> {2, 3, 4}, {}, {},
                 "apply", {})}

----
(* Four records: companies with long, short and shared names, metrics whose  *)
(* periods differ, and database rows of one event.                           *)

LTerms == [n \in {"bank", "bank group", "BG", "profit"} |->
              IF n = "BG" THEN {} ELSE IF n = "profit" THEN {"profit"} ELSE {"bank"}]

LSimilarity ==
    [p \in (DOMAIN LTerms) \X (DOMAIN LTerms) |->
        IF p[1] = p[2] THEN 2
        ELSE IF {p[1], p[2]} = {"bank", "bank group"} THEN 1 ELSE 0]

LRecord(name) ==
    [name |-> name, aliases |-> {}, type |-> "org", family |-> "organization",
     context |-> {"id1", "id2"}, terms |-> {}, ids |-> {}, says |-> <<>>, vague |-> FALSE,
     rows |-> {}, offers |-> {}]

LWith(r, f, v) == [r EXCEPT ![f] = v]
LId(v) == [value |-> v, quote |-> v]
LOffer(a, quoted) == [alias |-> a, quoted |-> quoted]

LCompany == LWith(LRecord("bank"), "ids", {LId("id1")})
LGroup == LWith(LRecord("bank group"), "offers", {LOffer("BG", TRUE), LOffer("bank", FALSE)})
LShort == LWith(LRecord("BG"), "offers", {LOffer("bank group", TRUE)})
LTwin == LWith(LWith(LRecord("bank group"), "ids", {LId("id1")}), "terms", {"loan", "city"})
LOther == LWith(LWith(LRecord("bank"), "family", None), "terms", {"loan", "city"})
LMetric(year, vague) ==
    LWith(LWith(LWith(LWith(LRecord("profit"), "family", "metric"), "type", "metric"),
              "says", [period |-> {year}, kind |-> {"profit"}]), "vague", vague)
LRow(event, generated, name) ==
    [event |-> event, generated |-> generated, name |-> name, aliases |-> {"BG"},
     kinds |-> {"paid"}, dates |-> {"monday"}, participants |-> {"ann"}]
LEvent(kinds) == LWith(LRecord("event"), "rows", {[LRow(TRUE, FALSE, "paid") EXCEPT !.kinds = kinds]})
LMerged == LWith(LRecord("row 7"), "rows", {LRow(TRUE, FALSE, "paid"), LRow(FALSE, TRUE, "row 7")})

\* Each shares an identifier with each other.
LMesh(name, ids) == LWith(LWith(LRecord(name), "ids", {LId(v) : v \in ids}), "context", ids)
LMeshed == <<LMesh("BG", {"12", "13", "14"}), LMesh("profit", {"12", "23", "24"}),
            LMesh("bank", {"13", "23", "34"}), LMesh("BG", {"14", "24", "34"})>>

LLink(l, r) == [left |-> l, right |-> r, reviewed |-> TRUE]
LSynonyms == {[scope |-> "*", type |-> "org", names |-> {"bank", "BG"}],
             [scope |-> "elsewhere", type |-> "org", names |-> {"bank group", "profit"}]}
LVectors(near, same) == [same |-> same, aligned |-> TRUE, near |-> near]

LCorpus(rows, constraints, dictionary, vectors) ==
    {[mentions |-> rows, constraints |-> constraints, dictionary |-> dictionary,
      vectors |-> vectors, policy |-> policy, scope |-> "here"] : policy \in {"original", "balanced"}}

LInputs ==
    LCorpus(<<LCompany, LGroup, LShort, LTwin>>, <<>>, {}, None)
    \cup LCorpus(<<LCompany, LGroup, LOther, LTwin>>, <<LLink(4, 3)>>, LSynonyms, None)
    \cup LCorpus(<<LCompany, LShort, LOther, LTwin>>, <<LLink(1, 2)>>, {},
                LVectors(<<{2, 3}, {3}, {4}, {1}>>, TRUE))
    \cup LCorpus(<<LMetric("2023", FALSE), LMetric("2024", FALSE), LMetric("2024", TRUE), LGroup>>,
                <<>>, {}, None)
    \cup LCorpus(<<LEvent({"paid"}), LEvent({"paid"}), LMerged, LEvent({"paid", "due"})>>, <<>>, {}, None)
    \cup LCorpus(<<LEvent({"paid"}), LMerged, LShort, LCompany>>, <<>>, LSynonyms, None)
    \cup LCorpus(<<LCompany, LGroup, LShort, LTwin>>, <<LLink(1, 2), LLink(2, 1)>>, {}, None)
    \cup LCorpus(<<LCompany, LGroup, LShort, LTwin>>, <<>>, {}, LVectors(<<{}, {}, {}, {}>>, FALSE))
    \cup LCorpus(LMeshed, <<>>, {}, None)
    \cup LCorpus(<<LShort, LShort, LShort, LWith(LShort, "ids", {[value |-> "id1", quote |-> "id3"]})>>, <<>>, {}, None)
    \cup LCorpus(<<LShort, LShort, LShort, LShort>>, <<LLink(2, 3)>>, {}, None)
    \cup LCorpus(<<LCompany, LCompany, LCompany, LTwin>>, <<LLink(1, 2), LLink(1, 3), LLink(1, 4)>>, {}, None)

----
(* Three records of a text, or three rows of a table.                        *)

GRec(id, name, text, unit, fields) ==
    [id |-> id, name |-> name, text |-> text, at |-> unit, fields |-> fields, event |-> FALSE]
GEdge(id, from, to) == [id |-> id, from |-> from, to |-> to, of |-> <<>>]

GEdges == {GEdge(1, 1, 2), GEdge(2, 2, 1), GEdge(3, 2, 3), GEdge(4, 3, 3)}

GNode(r) == [rec |-> r, sources |-> {}, conflicts |-> {}]
GGraph(kind, recs, edges) ==
    [kind |-> kind, truncated |-> FALSE, nodes |-> {GNode(r) : r \in recs}, edges |-> edges]

GText ==
    GGraph("graphrag", {GRec(1, "bank", "t1", 1, [cust_id |-> "7", city |-> "x"]),
                       GRec(2, "bank group", "t2", 1, [cust_id |-> "8", city |-> "y"]),
                       GRec(3, "bank", "t1", None, [cust_id |-> "9", city |-> "z"])}, GEdges)

GRows ==
    GGraph("database", {GRec(1, "row 1", None, None, [cust_id |-> "7", event_id |-> "e1"]),
                       GRec(2, "year 1", None, None, [cust_id |-> "8", event_id |-> "e2"]),
                       GRec(3, "year 2", None, None, [cust_id |-> "7", event_id |-> "e2"])}
                      \cup {[GRec(4, "row 1", None, None, [cust_id |-> "7", event_id |-> "e3"])
                                EXCEPT !.event = TRUE]}, GEdges)

GSources ==
    {GText, GRows, [GText EXCEPT !.truncated = TRUE], [GText EXCEPT !.edges = @ \cup {GEdge(9, 1, 5)}]}
GQuotes == "t1" :> {"bank", "7"} @@ "t2" :> {"bank group", "bank", "8"}
GApart == {{"year 1", "year 2"}}

----

XCorpus(title, type, gold) ==
    [title |-> title, type |-> type, gold |-> gold, relations |-> {<<1, 2>>, <<2, 3>>, <<1, 4>>}]

XInputs ==
    {XCorpus(<<1, 1, 1, 2>>, <<"org", "org", "person", "org">>, <<"x", "x", "y", "y">>),
     XCorpus(<<1, 1, 0, 1>>, <<"org", "person", "org", "person">>, <<"x", "y", "x", None>>),
     XCorpus(<<1, 2, 2, 2>>, <<"org", "org", "org", "org">>, None),
     XCorpus(<<1, 2, 2, 2>>, <<"org", "org", "org", "org">>, <<"x", "y", "y">>)}

----
R == INSTANCE ResolutionRuns WITH
    Runs <- RunIds, Nodes <- RunNodes, Graphs <- RunGraphs,
    graph <- runsGraph, status <- runsStatus, task <- runsTask,
    late <- runsLate, revision <- runsRevision
E == INSTANCE ResolutionEngine WITH Inputs <- EngineInputs
L == INSTANCE CandidateRecall WITH
    Inputs <- RecallInputs, input <- recallInput, phase <- recallPhase,
    worker <- recallWorker, calls <- recallCalls, candidates <- recallCandidates
G == INSTANCE ResolvedGraphs WITH MaxDecisions <- MaxChanges
X == INSTANCE ResolutionExperiments WITH
    Inputs <- ExperimentInputs, input <- experimentsInput

runsVars ==
    <<runsGraph, runsStatus, lease, runsTask, runsLate, runsRevision, book,
      applied>>
engineVars ==
    <<input, phase, next, worker, calls, charged, shared, decisions, sent,
      owner, accepted, todo>>
recallVars ==
    <<recallInput, recallPhase, queue, recallWorker, recallCalls, aliases,
      records, recallCandidates, overflow, pairs>>
graphsVars == <<source, run, depth>>
experimentsVars == <<experimentsInput, dir, writer, found, view>>
allVars ==
    <<part, vars, runsVars, engineVars, recallVars, graphsVars,
      experimentsVars>>

\* Review stands still before it begins, with one of its graphs.
Idle == Init /\ graph = CHOOSE g \in MCGraphs : TRUE
NoRuns ==
    /\ runsGraph = None /\ runsStatus = None /\ lease = None /\ runsTask = None
    /\ runsLate = None /\ runsRevision = None /\ book = None /\ applied = None
NoEngine ==
    /\ input = None /\ phase = None /\ next = None /\ worker = None /\ calls = None
    /\ charged = None /\ shared = None /\ decisions = None /\ sent = None /\ owner = None
    /\ accepted = None /\ todo = None
NoRecall ==
    /\ recallInput = None /\ recallPhase = None /\ queue = None /\ recallWorker = None
    /\ recallCalls = None /\ aliases = None /\ records = None /\ recallCandidates = None
    /\ overflow = None /\ pairs = None
NoGraphs ==
    /\ source = None /\ run = None /\ depth = None
NoExperiments ==
    /\ experimentsInput = None /\ dir = None /\ writer = None /\ found = None
    /\ view = None

MCInit ==
    \/ part = "review" /\ Init /\ NoRuns /\ NoEngine /\ NoRecall /\ NoGraphs /\ NoExperiments
    \/ part = "runs" /\ Idle /\ R!Init /\ NoEngine /\ NoRecall /\ NoGraphs /\ NoExperiments
    \/ part = "engine" /\ Idle /\ E!Init /\ NoRuns /\ NoRecall /\ NoGraphs /\ NoExperiments
    \/ part = "recall" /\ Idle /\ L!Init /\ NoRuns /\ NoEngine /\ NoGraphs /\ NoExperiments
    \/ part = "graphs" /\ Idle /\ G!Init /\ NoRuns /\ NoEngine /\ NoRecall /\ NoExperiments
    \/ part = "experiments" /\ Idle /\ X!Init /\ NoRuns /\ NoEngine /\ NoRecall /\ NoGraphs

MCNext ==
    \/ /\ part = "review" /\ Next
       /\ UNCHANGED <<part, runsVars, engineVars, recallVars, graphsVars,
                      experimentsVars>>
    \/ /\ part = "runs" /\ R!Next
       /\ UNCHANGED <<part, vars, engineVars, recallVars, graphsVars,
                      experimentsVars>>
    \/ /\ part = "engine" /\ E!Next
       /\ UNCHANGED <<part, vars, runsVars, recallVars, graphsVars,
                      experimentsVars>>
    \/ /\ part = "recall" /\ L!Next
       /\ UNCHANGED <<part, vars, runsVars, engineVars, graphsVars,
                      experimentsVars>>
    \/ /\ part = "graphs" /\ G!Next
       /\ UNCHANGED <<part, vars, runsVars, engineVars, recallVars,
                      experimentsVars>>
    \/ /\ part = "experiments" /\ X!Next
       /\ UNCHANGED <<part, vars, runsVars, engineVars, recallVars, graphsVars>>

MCSpec == MCInit /\ [][MCNext]_allVars /\ WF_engineVars(part = "engine" /\ E!Step)

ASSUME ResolutionAssumption ==
    /\ R!ResolutionConstants /\ E!EngineAssumption /\ L!RecallAssumption
    /\ G!GraphAssumption /\ X!ExperimentAssumption

(* What people decided on is replayed (resolution/service.py): the clusters  *)
(* are the components of the merges, keep apart what was rejected or has two *)
(* identities, and every decision can be taken back.                         *)
ClustersFollowDecisions ==
    part = "runs" =>
        R!TypeOK /\ R!ClustersAreComponents /\ R!RejectedStayApart /\ R!BlockedStayApart /\ R!Reversible

(* What the concurrent comparison of resolver.py and model_judge.py answers: *)
(* within its budget and time, and nothing merged that was not confirmed.    *)
(* A cluster is confirmed edge by edge (resolver.py:270), of rival entries   *)
(* one wins, and a cluster is applied as a whole.                            *)
EngineIsSound ==
    part = "engine" =>
        /\ E!TypeOK /\ E!BudgetHeld /\ E!NoRequestEscapes
        /\ E!ClustersAreConfirmed /\ E!OneRivalWins /\ E!AppliedIsWhole

(* Which pairs are compared at all (engine/candidates.py, synonyms.py).      *)
RecallIsSound ==
    part = "recall" => L!StrongPairsAreCompared /\ L!StrongestAreKept /\ L!AliasesAreGrounded

(* What a resolved graph shows of its sources (resolution/adapter.py,        *)
(* projection.py): every record and edge, and every disagreement.            *)
(* What the experiment page shows is one run and counted exactly             *)
(* (resolution/experiments.py, evaluation.py).                               *)
WhatIsShownIsExact ==
    /\ part = "graphs" =>
        G!NothingIsLost /\ G!DisagreementsAreShown /\ G!IdentityIsGrounded /\ G!PendingIsQuoted
    /\ part = "experiments" => X!ShownIsOneRun /\ X!ScoresAreExact

(* An analysis ends, whatever its requests do (resolver.py), and a run that  *)
(* settled stays as it is (resolution/store.py:119).                         *)
AnalysisEnds ==
    /\ [][part = "runs" => R!SettledStays]_runsVars
    /\ part = "engine" => E!AnalysisEnds
====
