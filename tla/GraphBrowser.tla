---- MODULE GraphBrowser ----
(* Browsing published business graphs (alignment/browsing.py, graph.py     *)
(* current): a client pages through one version by a key cursor while      *)
(* other versions, with the same instance ids, are written and published.  *)
(* Every query is a transaction of its own.                                *)
EXTENDS Naturals, Sequences, SequencesExt, FiniteSetsExt

CONSTANTS
    Versions,    \* numbers, in the order they are published
    Content,     \* version -> [nodes: id -> concept, edges: pairs of ids]
    Concepts, Limit, MaxEdges, None

\* Instances are numbered from 1 on; the pointer names a version or None.
BrowserConstants ==
    /\ None \notin Versions /\ Limit \in Nat \ {0} /\ MaxEdges \in Nat
    /\ \A v \in Versions :
        /\ Content[v].nodes \in [DOMAIN Content[v].nodes -> Concepts]
        /\ DOMAIN Content[v].nodes \subseteq Nat \ {0}
        /\ IsFiniteSet(DOMAIN Content[v].nodes) /\ IsFiniteSet(Content[v].edges)

VARIABLES
    store,    \* version -> its status and the nodes and edges written so far
    current,  \* the version the pointer names, or None
    view      \* what the client is looking at

vars == <<store, current, view>>

Idle == [stage |-> "idle", version |-> None, concept |-> None, focus |-> None, pages |-> <<>>,
         total |-> None, ids |-> <<>>, more |-> FALSE]

Init ==
    /\ store = [v \in Versions |-> [status |-> "none", nodes |-> <<>>, edges |-> {}]]
    /\ current = None /\ view = Idle

----
(* The publisher: see AlignmentRuns for what may stop it.                  *)

Create(v) ==
    /\ store[v].status = "none" /\ \A w \in Versions : w < v => store[w].status # "none"
    /\ store' = [store EXCEPT ![v].status = "building"]
    /\ UNCHANGED <<current, view>>

WriteNode(v) ==
    /\ store[v].status = "building"
    /\ \E n \in DOMAIN Content[v].nodes \ DOMAIN store[v].nodes :
        store' = [store EXCEPT ![v].nodes =
                    [x \in DOMAIN @ \cup {n} |-> Content[v].nodes[x]]]
    /\ UNCHANGED <<current, view>>

WriteEdge(v) ==
    /\ store[v].status = "building" /\ DOMAIN store[v].nodes = DOMAIN Content[v].nodes
    /\ \E e \in Content[v].edges \ store[v].edges :
        store' = [store EXCEPT ![v].edges = @ \cup {e}]
    /\ UNCHANGED <<current, view>>

Publish(v) ==
    /\ store[v].status = "building"
    /\ store[v].nodes = Content[v].nodes /\ store[v].edges = Content[v].edges
    /\ store' = [store EXCEPT ![v].status = "ready"] /\ current' = v
    /\ UNCHANGED view

----
(* The client.                                                             *)

(* Mutant: the current version is asked for, whatever the client looks at. *)
ServedCurrent(v) == current

\* GraphBrowser.version: the pinned version, when it is published.
Served(v) == IF store[v].status = "ready" THEN v ELSE None

\* The instances a page query finds.
Matching(v) ==
    {n \in DOMAIN store[v].nodes :
        /\ view.concept \in {None, store[v].nodes[n]}
        /\ view.focus # None => \E e \in store[v].edges : {e[1], e[2]} = {view.focus, n}}

\* overview: the current version, or one the client names, and what to page
\* through: all of it, a concept, or the neighbours of an instance.
Open ==
    /\ view.stage = "idle"
    /\ \E v \in ({current} \ {None}) \cup {w \in Versions : Served(w) = w},
          c \in Concepts \cup {None}, f \in (UNION {DOMAIN Content[w].nodes : w \in Versions}) \cup {None} :
        /\ f # None => f \in DOMAIN Content[v].nodes
        /\ view' = [Idle EXCEPT !.stage = "count", !.version = v, !.concept = c, !.focus = f]
    /\ UNCHANGED <<store, current>>

\* The next page: its version is read again, and everything that matches is
\* counted.
Count ==
    /\ view.stage = "count"
    /\ view' = IF Served(view.version) = None THEN [Idle EXCEPT !.stage = "missing"]
               ELSE [view EXCEPT !.stage = "ids", !.total = Cardinality(Matching(Served(view.version)))]
    /\ UNCHANGED <<store, current>>

LastId == IF view.pages = <<>> THEN 0 ELSE Last(Last(view.pages).ids)

\* The numbers of a set, the least first.
Ascending(S) == [i \in 1 .. Cardinality(S) |-> CHOOSE n \in S : Cardinality({m \in S : m < n}) = i - 1]

After == Ascending({n \in Matching(Served(view.version)) : n > LastId})

(* Mutant: the page is full when it has as many as the limit.              *)
MoreWhenFull == Len(After) >= Limit

\* One more than the limit is asked for, to know whether there is a next page.
More == Len(After) > Limit

Ids ==
    /\ view.stage = "ids"
    /\ view' = [view EXCEPT !.stage = "edges", !.ids = SubSeq(After, 1, Min({Limit, Len(After)})), !.more = More]
    /\ UNCHANGED <<store, current>>

\* The relations among the page's instances and the focus, at most MaxEdges.
Edges ==
    /\ view.stage = "edges"
    /\ LET shown == ToSet(view.ids) \cup ({view.focus} \ {None})
           among == IF view.ids = <<>> THEN {}
                    ELSE {e \in store[Served(view.version)].edges : {e[1], e[2]} \subseteq shown}
       IN  \E kept \in kSubset(Min({MaxEdges, Cardinality(among)}), among) :
             view' = [view EXCEPT
                !.stage = IF view.more THEN "page" ELSE "end",
                !.pages = Append(@, [ids |-> view.ids, edges |-> kept, truncated |-> Cardinality(among) > MaxEdges])]
    /\ UNCHANGED <<store, current>>

\* The client asks for the next page, or looks at something else.
NextPage == view.stage = "page" /\ view' = [view EXCEPT !.stage = "count"] /\ UNCHANGED <<store, current>>
Leave == view.stage \notin {"idle"} /\ view' = Idle /\ UNCHANGED <<store, current>>

Next ==
    \/ \E v \in Versions : Create(v) \/ WriteNode(v) \/ WriteEdge(v) \/ Publish(v)
    \/ Open \/ Count \/ Ids \/ Edges \/ NextPage \/ Leave

Spec == Init /\ [][Next]_vars

----
Wanted ==
    LET c == Content[view.version] IN
    {n \in DOMAIN c.nodes :
        /\ view.concept \in {None, c.nodes[n]}
        /\ view.focus # None => \E e \in c.edges : {e[1], e[2]} = {view.focus, n}}

\* Whoever follows the cursor to its end has seen every instance of the version
\* that was opened, once, as many as every page announced, although versions
\* with the same ids were written and published in between; a page's relations
\* are all of that version's among what it shows, or it says that some are cut,
\* and only the last page may be empty (browsing.py:89-157).
PagesAreOneVersion ==
    /\ view.stage = "end" =>
        /\ UNION {ToSet(p.ids) : p \in ToSet(view.pages)} = Wanted
        /\ \A i, j \in DOMAIN view.pages :
            \A k \in DOMAIN view.pages[i].ids, l \in DOMAIN view.pages[j].ids :
                view.pages[i].ids[k] = view.pages[j].ids[l] => i = j /\ k = l
        /\ view.total = Cardinality(Wanted)
        /\ Wanted # {} => Last(view.pages).ids # <<>>
    /\ \A i \in DOMAIN view.pages :
        LET p == view.pages[i]
            shown == ToSet(p.ids) \cup ({view.focus} \ {None})
            among == {e \in Content[view.version].edges : {e[1], e[2]} \subseteq shown}
        IN  /\ p.edges \subseteq among
            /\ ~p.truncated /\ p.ids # <<>> => p.edges = among
    /\ view.stage # "missing"
====
