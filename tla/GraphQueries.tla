---- MODULE GraphQueries ----
(* Questions asked of indexed GraphRAG datasets (graphrag/service.py query,*)
(* questions and query_stream; graphrag/exploration.py; api/graphrag.py).  *)
(* GraphRAG caches the models of a search under fixed names for the whole  *)
(* process, so one asyncio lock serialises the searches of all datasets    *)
(* and the names are cleared before and after each.  A stream gives its    *)
(* answer in pieces while it holds the lock: its client may read slowly or *)
(* leave at any point, also while the generator is suspended, which is     *)
(* then closed later by the event loop.  A stream ends with the evidence:  *)
(* the part of the graph that the answer was grounded on.                  *)
EXTENDS Integers, FiniteSets, Sequences

CONSTANTS
    Clients,   \* requests that can be under way
    Tables,    \* dataset -> [entities, rels, units, communities], the index
    Contexts,  \* what a search may report and cite
    Names,     \* search method -> the model names GraphRAG caches for it
    MaxEdges,  \* edges of a subgraph (400)
    None

\* Every method uses a model; relationships are finitely many and ranked by numbers.
QueryConstants ==
    /\ None \notin Clients /\ MaxEdges \in Nat
    /\ \A m \in DOMAIN Names : Names[m] # {}
    /\ \A d \in DOMAIN Tables :
        IsFiniteSet(Tables[d].rels) /\ \A r \in Tables[d].rels : r.rank \in Int

Datasets == DOMAIN Tables
Methods == DOMAIN Names
AllNames == UNION {Names[m] : m \in Methods}

VARIABLES
    indexed,  \* datasets whose index succeeded
    queue,    \* the clients waiting for the lock, in order
    holder,   \* the client in the lock, or None
    models,   \* cached model name -> the dataset it was made for, or None
    pc,       \* client -> "idle", "wait", "inputs", "search", "stream",
              \* "dropped", "evidence" or "answered"
    ask,      \* client -> [data, method, stream]
    answer    \* client -> [used (datasets of its models), evidence]

vars == <<indexed, queue, holder, models, pc, ask, answer>>

NoAsk == [data |-> None, method |-> None, stream |-> FALSE]
NoAnswer == [used |-> {}, evidence |-> None]

Init ==
    /\ indexed \in SUBSET Datasets
    /\ queue = <<>> /\ holder = None
    /\ models = [n \in AllNames |-> None]
    /\ pc = [c \in Clients |-> "idle"]
    /\ ask = [c \in Clients |-> NoAsk] /\ answer = [c \in Clients |-> NoAnswer]

Goto(c, where) == pc' = [pc EXCEPT ![c] = where]

\* The request is over.
Over(c) ==
    /\ Goto(c, "idle")
    /\ ask' = [ask EXCEPT ![c] = NoAsk] /\ answer' = [answer EXCEPT ![c] = NoAnswer]

(* Mutant: only the chat models are discarded.                             *)
ClearChats == [n \in AllNames |-> IF n[2] = "chat" THEN None ELSE models[n]]

\* _clear_query_models
Clear == [n \in AllNames |-> None]

----
(* The graph and the evidence of an answer.                                *)

Titles(T) == {e.title : e \in T.entities}
Ids(T, titles) == {e.id : e \in {x \in T.entities : x.title \in titles}}

\* GraphRagService.graph: refused unless every entity, edge end and source is
\* located exactly once.
Accepted(T) ==
    /\ Cardinality(Titles(T)) = Cardinality(T.entities)
    /\ Cardinality({e.id : e \in T.entities}) = Cardinality(T.entities)
    /\ \A r \in T.rels : {r.source, r.target} \subseteq Titles(T)
    /\ \A x \in T.entities \cup T.rels : x.units \subseteq {u.id : u \in T.units}

\* _induced_edges: no loops, the highest ranked first.
Induced(T, titles) ==
    LET inside == {r \in T.rels : {r.source, r.target} \subseteq titles /\ r.source # r.target}
    IN  IF Cardinality(inside) <= MaxEdges THEN inside
        ELSE CHOOSE best \in SUBSET inside :
                /\ Cardinality(best) = MaxEdges
                /\ \A r \in best, s \in inside \ best : r.rank >= s.rank

\* _entities_from_reports
Members(T, reports) ==
    UNION {k.members : k \in {x \in T.communities : x.report \in reports}}
FromReports(T, reports) == {e.title : e \in {x \in T.entities : x.id \in Members(T, reports)}}

\* The entities of the context, else those of its reports.
Grounded(T, c) ==
    LET named == {e \in c.entities : e.name \in Titles(T)}
    IN  IF named # {}
        THEN [titles |-> {e.name : e \in named},
              cited |-> {e.name : e \in {x \in named : x.id \in c.cites.entities}}]
        ELSE [titles |-> FromReports(T, c.reports),
              cited |-> FromReports(T, c.reports \cap c.cites.reports)]

CitedRels(T, c) == {r \in T.rels : r.hid \in c.cites.rels}

(* Mutant: only the entities of the context are shown.                     *)
EndsMissing(T, c) == {}

\* Both ends of every cited relationship are shown, if they are entities.
Ends(T, c) == (UNION {{r.source, r.target} : r \in CitedRels(T, c)}) \cap Titles(T)

\* The relationships of the context, else all between the shown entities.
Edges(T, c, titles) ==
    LET inContext == {r \in T.rels :
            /\ <<r.source, r.target>> \in c.rels \/ <<r.target, r.source>> \in c.rels
            /\ {r.source, r.target} \subseteq titles}
    IN  IF inContext # {} THEN inContext ELSE Induced(T, titles)

\* Basic search cites chunks: the entities found in them.
InSources(T, sources) ==
    LET found == UNION {u.entities : u \in {x \in T.units : x.hid \in sources}}
    IN  {e.title : e \in {x \in T.entities : x.id \in found}}

\* answer_evidence
Evidence(T, c) ==
    LET g == Grounded(T, c)
        titles == g.titles \cup Ends(T, c)
        basic == titles = {} /\ c.sources # {}
        shown == IF basic THEN InSources(T, c.sources) ELSE titles
        cited == IF basic THEN InSources(T, c.sources \cap c.cites.sources) ELSE g.cited
    IN  [context |-> c,
         nodes |-> Ids(T, shown), cited |-> Ids(T, cited),
         edges |-> IF basic THEN Induced(T, shown) ELSE Edges(T, c, titles),
         citedEdges |-> CitedRels(T, c)]

----
(* Requests.                                                               *)

\* A stream is refused before it starts if there is no index.
Ask(c, d, m, stream) ==
    /\ pc[c] = "idle" /\ (stream => d \in indexed)
    /\ ask' = [ask EXCEPT ![c] = [data |-> d, method |-> m, stream |-> stream]]
    /\ queue' = Append(queue, c) /\ Goto(c, "wait")
    /\ UNCHANGED <<indexed, holder, models, answer>>

(* Mutant: a search starts beside the one that is under way.               *)
AcquireShared(c) ==
    /\ pc[c] = "wait" /\ queue # <<>> /\ Head(queue) = c
    /\ holder' = c /\ queue' = Tail(queue) /\ Goto(c, "inputs")
    /\ UNCHANGED <<indexed, models, ask, answer>>

\* async with _NATIVE_QUERY_LOCK: waiters are served in order.
Acquire(c) ==
    /\ pc[c] = "wait" /\ holder = None /\ queue # <<>> /\ Head(queue) = c
    /\ holder' = c /\ queue' = Tail(queue) /\ Goto(c, "inputs")
    /\ UNCHANGED <<indexed, models, ask, answer>>

\* _query_inputs, in a thread; the cached models are cleared.
Load(c) ==
    /\ pc[c] = "inputs" /\ ask[c].data \in indexed
    /\ models' = Clear /\ Goto(c, "search")
    /\ UNCHANGED <<indexed, queue, holder, ask, answer>>

\* The search takes a cached model, or makes one for its dataset.
Search(c) ==
    /\ pc[c] = "search"
    /\ LET names == Names[ask[c].method]
           own(n) == IF models[n] = None THEN ask[c].data ELSE models[n]
       IN  /\ models' = [n \in AllNames |-> IF n \in names THEN own(n) ELSE models[n]]
           /\ answer' = [answer EXCEPT ![c].used = {own(n) : n \in names}]
    /\ Goto(c, IF ask[c].stream THEN "stream" ELSE "evidence")
    /\ UNCHANGED <<indexed, queue, holder, ask>>

\* The client of a stream has read a piece; the search goes on or is over.
Piece(c) ==
    /\ pc[c] = "stream" /\ Goto(c, "evidence")
    /\ UNCHANGED <<indexed, queue, holder, models, ask, answer>>

\* The answer leaves the lock; a stream's with its evidence.
Answer(c, x) ==
    /\ pc[c] = "evidence"
    /\ answer' = IF ask[c].stream
                 THEN [answer EXCEPT ![c].evidence = Evidence(Tables[ask[c].data], x)]
                 ELSE answer
    /\ models' = Clear /\ holder' = None /\ Goto(c, "answered")
    /\ UNCHANGED <<indexed, queue, ask>>

Deliver(c) ==
    /\ pc[c] = "answered" /\ Over(c)
    /\ UNCHANGED <<indexed, queue, holder, models>>

\* The index is not there, the configuration or a file is unusable, a model
\* call fails: the finally block clears, the lock is released.
Break(c) ==
    /\ pc[c] \in {"inputs", "search", "evidence"} /\ Over(c)
    /\ models' = IF pc[c] = "inputs" THEN models ELSE Clear
    /\ holder' = None
    /\ UNCHANGED <<indexed, queue>>

\* The client of a stream leaves.  A task that awaits something is cancelled;
\* a suspended generator is only dropped, and still holds the lock.
Leave(c) ==
    /\ ask[c].stream
    /\ \/ /\ pc[c] = "wait" /\ Over(c)
          /\ queue' = SelectSeq(queue, LAMBDA w : w # c)
          /\ UNCHANGED <<indexed, holder, models>>
       \/ Break(c)
       \/ /\ pc[c] = "stream" /\ Goto(c, "dropped")
          /\ UNCHANGED <<indexed, queue, holder, models, ask, answer>>

(* Mutant: a dropped generator is never closed by its finally block.       *)
CloseHolding(c) ==
    /\ pc[c] = "dropped" /\ Over(c)
    /\ UNCHANGED <<indexed, queue, holder, models>>

\* The event loop closes the dropped generator.
Close(c) ==
    /\ pc[c] = "dropped" /\ Over(c)
    /\ models' = Clear /\ holder' = None
    /\ UNCHANGED <<indexed, queue>>

\* An index job of another process succeeds (GraphRagJobs).
Finish(d) ==
    /\ d \notin indexed /\ indexed' = indexed \cup {d}
    /\ UNCHANGED <<queue, holder, models, pc, ask, answer>>

Step(c) ==
    \/ Acquire(c) \/ Load(c) \/ Search(c) \/ Piece(c) \/ Deliver(c) \/ Break(c) \/ Close(c)
    \/ \E x \in Contexts : Answer(c, x)

Next ==
    \/ \E c \in Clients :
        \/ \E d \in Datasets, m \in Methods, s \in BOOLEAN : Ask(c, d, m, s)
        \/ Step(c) \/ Leave(c)
    \/ \E d \in Datasets : Finish(d)

\* Every await returns or raises; a client reads on, or it leaves and its
\* generator is collected.
Spec == Init /\ [][Next]_vars /\ \A c \in Clients : WF_vars(Step(c))

----
(* Properties.                                                             *)

\* An answer is never made with the model client of another dataset, whatever
\* was abandoned or failed before ("different datasets/providers never reuse
\* the first dataset's model client", service.py:21-23).
AnswersUseOwnModels ==
    \A c \in Clients : pc[c] = "answered" => answer[c].used = {ask[c].data}

\* The evidence is a closed part of the graph the page shows: ends of edges and
\* cited entities are among its nodes, as are the ends of every cited edge
\* (exploration.py:195-203), whichever part of the context named them.
EvidenceIsClosed ==
    \A c \in Clients :
        LET T == Tables[ask[c].data]
            e == answer[c].evidence
        IN  pc[c] = "answered" /\ ask[c].stream =>
                /\ e.cited \subseteq e.nodes
                /\ \A r \in e.edges : Ids(T, {r.source, r.target}) \subseteq e.nodes
                /\ \A r \in e.citedEdges : Ids(T, {r.source, r.target}) \subseteq e.nodes
                /\ Accepted(T) => \A r \in e.edges : {r.source, r.target} \subseteq Titles(T)

\* Every question is answered, refused or given up by its client: an abandoned
\* stream does not keep the lock that all datasets share.
QuestionsSettle == \A c \in Clients : pc[c] = "wait" ~> pc[c] = "idle"
====
