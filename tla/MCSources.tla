---- MODULE MCSources ----
(* From tables to a graph, side by side: the readers of files and databases, *)
(* the templates an analysis drafts, and the compiler.  A behaviour is of    *)
(* one component; the variables of the others stand still.                   *)
EXTENDS SourceLifecycle, Sequences, TLC

CONSTANTS
    Publishers, Inputs, MaxFaults,                            \* of TemplateCompile
    Documents, MaxTables, MaxRows, MaxColumns, MaxCells,      \* of SourceReaders
    StagedTables, Concepts, Outcomes, Proposals, Changes(_),        \* of AlignmentTemplates
    MaxNodes, MaxSuggested, MaxEdges, MaxVersions

VARIABLES
    part,   \* which of the components this behaviour is of
    input, pc, item, row, side, filled, runs, idle, drafts, sets, graph, lingered, collected,
    doc, sheet, readersRow, last, readersReader, cells, sink, readersRows, result,
    versions, failed, graphs

Customer(id, name, branch) == [id |-> id, v |-> name, b |-> branch]
Account(owner, name) == [id |-> owner, v |-> name, b |-> None]

Nodes == <<
    [table |-> "customers", concept |-> "Customer", key |-> <<"id">>, fields |-> {<<"name", "v">>}],
    [table |-> "accounts", concept |-> "Account", key |-> <<>>, fields |-> {<<"kind", "v">>}]>>

Owns == [join |-> TRUE, source |-> 2, target |-> 1, left |-> <<"id">>, right |-> <<"id">>]

Input(customers, accounts) ==
    [rows |-> ("customers" :> customers @@ "accounts" :> accounts),
     nodes |-> Nodes, edges |-> <<Owns>>]

\* One row holds a customer and its branch.
RowInput(customers) ==
    [rows |-> ("customers" :> customers),
     nodes |-> <<
        [table |-> "customers", concept |-> "Customer", key |-> <<"id">>, fields |-> {<<"name", "v">>}],
        [table |-> "customers", concept |-> "Branch", key |-> <<"b">>, fields |-> {}]>>,
     edges |-> <<[join |-> FALSE, source |-> 1, target |-> 2, left |-> <<>>, right |-> <<>>]>>]

\* The first three compile: two joins, an account without owner, two rows of
\* one node.  The others are refused: an identity is missing, a property
\* contradicts itself, a target is ambiguous, one is absent.
MCInputs == {
    Input(<<Customer(1, "x", None), Customer(2, None, None)>>, <<Account(2, "x"), Account(1, "y")>>),
    Input(<<Customer(1, "x", None)>>, <<Account(None, "y")>>),
    RowInput(<<Customer(1, None, 1), Customer(1, "x", 1)>>),
    RowInput(<<Customer(1, "x", None)>>),
    RowInput(<<Customer(1, "x", 1), Customer(1, "y", 1)>>),
    Input(<<Customer(1, "x", None), Customer(1, "x", None)>>, <<>>),
    Input(<<Customer(1, "x", None)>>, <<Account(2, "y")>>)}

----
(* Every sheet of up to three short rows, as a workbook and as CSV, beside a *)
(* fixed second sheet; gaps, misplaced and repeated rows and cells; and      *)
(* small MySQL schemas.                                                      *)

SText(x) == <<"text", x>>
SCell(v) == [col |-> 0, value |-> v, astray |-> FALSE]
SAt(k, v) == [col |-> k, value |-> v, astray |-> FALSE]
SAstray(k, v) == [col |-> k, value |-> v, astray |-> TRUE]
SRow(cs) == [number |-> 0, cells |-> cs]
SRowAt(n, cs) == [number |-> n, cells |-> cs]

SHeaderLike == SRow(<<SCell(SText("a")), SCell(SText("b"))>>)
SRowChoices == {
    SHeaderLike, SRow(<<SCell(SText("a"))>>), SRow(<<>>),
    SRow(<<SCell(<<"integer", 1>>), SCell(None)>>),
    SRow(<<SCell(<<"decimal", 1>>), SCell(<<"", 0>>)>>),
    SRow(<<SCell(None), SCell(<<"formula", 0>>)>>)}
SGapChoices == {
    SRowAt(3, <<SAt(2, <<"integer", 7>>)>>), SRowAt(2, <<SAt(3, SText("x"))>>),
    SRowAt(4, <<SCell(SText("a")), SAt(3, None)>>), SRowAt(1, <<SAt(2, SText("c")), SAt(1, SText("d"))>>),
    SRowAt(2, <<SAt(1, SText("e")), SAt(4, SText("f"))>>), SRowAt(2, <<SAstray(1, SText("e"))>>),
    SRowAt(2, <<SAt(1, SText("e")), SAt(1, <<"integer", 1>>)>>), SRow(<<SCell(SText("a")), SCell(SText("a"))>>)}

SUpTo(n, S) == UNION {[1 .. k -> S] : k \in 0 .. n}
SSheet(n, rs, d) == [name |-> n, rows |-> rs, description |-> d]
SSecond == SSheet("second", <<SRow(<<SCell(SText("k"))>>), SRow(<<SCell(<<"date", 1>>)>>)>>, FALSE)
SReadme == SSheet("readme", <<SRow(<<SCell(<<"formula", 0>>)>>)>>, TRUE)
SWithout(s) == {r \in s : \A i \in DOMAIN r.cells : r.cells[i].value # None}

SFirsts == SUpTo(3, SRowChoices) \cup {<<SHeaderLike>> \o g : g \in SUpTo(2, SGapChoices)}

SDocuments ==
    {[kind |-> "xlsx", header |-> h, sheets |-> <<SSheet("first", rs, FALSE), SReadme, SSecond>>] :
        h \in {1, 2}, rs \in SFirsts}
    \cup {[kind |-> "buffer", header |-> h, sheets |-> <<SSheet("first", rs, FALSE), SReadme, SSecond>>] :
        h \in {1, 2}, rs \in SFirsts}
    \cup {[kind |-> "xlsx", header |-> 1, sheets |-> <<SSheet("first", rs, FALSE), SSecond, SSecond>>] :
        rs \in SUpTo(1, SRowChoices)}
    \cup {[kind |-> "csv", header |-> h, sheets |-> <<SSheet("first", rs, FALSE)>>] :
        h \in {1, 2}, rs \in SUpTo(4, SWithout(SRowChoices))}
    \cup {[kind |-> "mysql", header |-> 1, sheets |->
            <<[name |-> "t", exists |-> TRUE, width |-> w, rows |-> [i \in 1 .. n |-> i], description |-> FALSE],
              [name |-> "u", exists |-> e, width |-> 2, rows |-> [i \in 1 .. m |-> i], description |-> FALSE]>>] :
        w \in 0 .. 4, n \in 0 .. 4, e \in BOOLEAN, m \in 0 .. 3}

----
(* Two tables of one batch, orders referring to customers by a declared    *)
(* key; the analysis may group the orders' columns in several ways.        *)

AOrder(num, cust) == "num" :> num @@ "cust" :> cust @@ "name" :> "x"
APerson(id, mail) == "id" :> id @@ "mail" :> mail

\* Two customers share a mail, one order names no customer.
ATables ==
    "orders" :> [batch |-> 1, name |-> "o", columns |-> {"num", "cust", "name"}, keys |-> {"num"},
                 fks |-> {[target |-> "c", left |-> <<"cust">>, right |-> <<"id">>]},
                 rows |-> <<AOrder(1, 7), AOrder(2, 7), AOrder(3, None)>>, count |-> 3] @@
    "people" :> [batch |-> 1, name |-> "c", columns |-> {"id", "mail"}, keys |-> {"id"}, fks |-> {},
                 rows |-> <<APerson(7, "m"), APerson(8, "m")>>, count |-> 2]

AConcepts == {"Order", "Party"}

AProposals ==
    {[source |-> "orders", target |-> "people", left |-> <<"name">>, right |-> <<"mail">>],
     [source |-> "people", target |-> "people", left |-> <<"mail">>, right |-> <<"mail">>],
     [source |-> "people", target |-> "orders", left |-> <<"id">>, right |-> <<"cust">>]}

AMap(status, verification, concept, ignored) ==
    [map |-> [status |-> status, verification |-> verification, concept |-> concept, ignored |-> ignored],
     entities |-> {}, edges |-> {}]

AMapped == AMap("mapped", "match", "Order", {})

AEntity(id, primary, concept, cols) ==
    [id |-> id, primary |-> primary, concept |-> concept, keys |-> {}, props |-> {<<c, c>> : c \in cols}]

AGrouped(entities) == [AMapped EXCEPT !.entities = entities, !.edges = {<<1, 2>>}]

AOutcomes ==
    "orders" :>
        {AMap("mapped", "match", "Order", {"name"}),
         AGrouped({AEntity(1, TRUE, "Order", {"num"})}),
         AGrouped({AEntity(1, TRUE, "Order", {"num"}), AEntity(2, FALSE, "Party", {"cust"})}),
         AGrouped({AEntity(1, FALSE, "Order", {"num"}), AEntity(2, FALSE, "Party", {"cust"})}),
         AGrouped({AEntity(1, TRUE, "Order", {"num"}), AEntity(2, FALSE, None, {"cust", "name"})}),
         AGrouped({[AEntity(1, TRUE, "Order", {"num"}) EXCEPT !.props = {<<"num", "n">>}],
                  [AEntity(2, FALSE, "Party", {}) EXCEPT !.props = {<<"cust", "n">>, <<"name", "n">>}]})} @@
    "people" :>
        {AMap("mapped", "match", "Party", {}),
         AMap("review", "mismatch", "Party", {}),
         AMap("unmapped", "none", None, {})}

\* A reviewer drops a node and forgets its edges, drops every edge, or says
\* that all objects are the same party.
AChanges(draft) ==
    {[draft EXCEPT !.nodes = draft.nodes \ {n}, !.mode = "custom"] : n \in draft.nodes}
    \cup {[draft EXCEPT !.edges = {}, !.mode = "custom"]}
    \cup {[draft EXCEPT !.mode = "custom", !.nodes =
            {[n EXCEPT !.scope = <<"party">>, !.concept = "Party", !.keys = {}] : n \in draft.nodes}]}

----
T == INSTANCE TemplateCompile
S == INSTANCE SourceReaders WITH row <- readersRow, reader <- readersReader, rows <- readersRows
A == INSTANCE AlignmentTemplates WITH Tables <- StagedTables

compileVars ==
    <<input, pc, item, row, side, filled, runs, idle, drafts, sets, graph,
      lingered, collected>>
readersVars ==
    <<doc, sheet, readersRow, last, readersReader, cells, sink, readersRows,
      result>>
templatesVars == <<versions, failed, graphs>>
allVars == <<part, vars, compileVars, readersVars, templatesVars>>

\* A compilation that has not begun.
NoCompilation == T!Init /\ input = CHOOSE i \in Inputs : TRUE
NoReaders ==
    /\ doc = None /\ sheet = None /\ readersRow = None /\ last = None
    /\ readersReader = None /\ cells = None /\ sink = None /\ readersRows = None
    /\ result = None
NoTemplates ==
    /\ versions = None /\ failed = None /\ graphs = None

MCInit ==
    \/ part = "lifecycle" /\ Init /\ NoCompilation /\ NoReaders /\ NoTemplates
    \/ part = "compile" /\ T!Init /\ Init /\ NoReaders /\ NoTemplates
    \/ part = "readers" /\ NoCompilation /\ S!Init /\ Init /\ NoTemplates
    \/ part = "templates" /\ NoCompilation /\ A!Init /\ Init /\ NoReaders

MCNext ==
    \/ /\ part = "lifecycle" /\ Next
       /\ UNCHANGED <<part, compileVars, readersVars, templatesVars>>
    \/ /\ part = "compile" /\ T!Next
       /\ UNCHANGED <<part, vars, readersVars, templatesVars>>
    \/ /\ part = "readers" /\ S!Next
       /\ UNCHANGED <<part, vars, compileVars, templatesVars>>
    \/ /\ part = "templates" /\ A!Next
       /\ UNCHANGED <<part, vars, compileVars, readersVars>>

(* The fairness of SourceLifecycle and TemplateCompile, where each runs.      *)
MCSpec ==
    /\ MCInit /\ [][MCNext]_allVars
    /\ \A c \in Cleaners :
        /\ WF_vars(part = "lifecycle" /\ Collect(c))
        /\ SF_vars(part = "lifecycle" /\ DeleteBatch(c))
    /\ \A p \in Publishers :
        /\ WF_compileVars(part = "compile" /\ T!Compile(p))
        /\ WF_compileVars(part = "compile" /\ T!Linger(p))
        /\ WF_compileVars(part = "compile" /\ T!Collect(p))

ASSUME InputsAssumption == LifecycleConstants /\ T!CompileAssumption /\ S!ReaderAssumption /\ A!TemplateAssumption

(* A compiled graph has the rows its template asks for, under one key each,  *)
(* and a compilation that is refused has a cause (staging/compile.py,        *)
(* keys.py).                                                                 *)
CompilationIsExact == T!CompiledIsExact /\ T!RefusedForCause

(* A published graph has every row (docs/alignment.md:76); it has not when  *)
(* its draft was collected before it was read (staging/compile.py:65).       *)
CompiledIsWhole == part = "compile" => T!PublishedIsWhole

(* A removed source takes nothing with it that is used, and leaves nothing   *)
(* behind (intake/lifecycle.py, staging/cleanup.py).                         *)
SourcesAreKept == part = "lifecycle" => TypeOK /\ ReferencedIsIntact /\ GoneLeavesNothing

(* A table is read whole or refused for a cause (intake/streaming.py,        *)
(* files.py, mysql.py).                                                      *)
TablesAreWhole == part = "readers" => S!WholeOrRefused /\ S!RefusedForCause

(* The draft of a template joins exactly what is unique, keeps every column  *)
(* in a group, can be adopted, and is approved as it is (alignment/          *)
(* templates.py, analyzer.py, editing.py).                                   *)
DraftsAreExact ==
    part = "templates" =>
        A!JoinsAreExact /\ A!GroupsKeepColumns /\ A!DraftIsAdoptable /\ A!GraphsAreApproved

(* Drafts of compilations that ended are collected (staging/compile.py:65),  *)
(* and a purge is finished (staging/cleanup.py).                             *)
WorkEnds == (part = "compile" => T!DraftsAreCollected) /\ PurgeFinishes
====
