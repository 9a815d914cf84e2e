---- MODULE ResolutionExperiments ----
(* Paired comparisons of two resolution methods on one corpus              *)
(* (resolution/engine/runner.py, legacy.py, evaluation.py, __main__.py)    *)
(* and the viewer that shows their results (resolution/experiments.py).    *)
(* A comparison owns a new directory, writes one artifact after the other  *)
(* and seals them in its manifest last; it may fail, be cancelled or die   *)
(* at any of them.  The viewer reads the manifest and then file by file,   *)
(* while somebody may exchange files of a finished comparison.             *)
(*                                                                         *)
(* Scores are sums of fractions of group sizes, counted in parts of Unit.  *)
EXTENDS Integers, FiniteSets, Sequences, SequencesExt, FiniteSetsExt

CONSTANTS
    Mentions,   \* the records, numbers for their order
    Inputs,     \* corpora with their gold labels (see below)
    Writers,    \* comparisons started with the same output directory
    Unit,       \* parts a score of one is counted in
    None

\* title, type: cleaned name (a number, 0 for an empty one) and type of a
\* record; relations: pairs of records; gold: record -> identity, None for
\* insufficient; None without gold.
VARIABLES
    input,
    dir,      \* the output directory: whether it was made, run.json (manifest)
              \* and the artifacts
    writer,   \* where a comparison is: the artifact it writes next
    found,    \* the memberships its evidence method found
    view      \* the viewer's load

vars == <<input, dir, writer, found, view>>

\* The artifacts, in the order they are written; the first two before the try
\* block that records a failure.
Artifacts == <<"corpus", "gold", "legacy", "evidence", "differences", "comparison">>
Planned ==
    IF input.gold # None THEN Artifacts
    ELSE <<"corpus", "legacy", "evidence", "differences", "comparison">>

Total(f) == MapThenSumSet(LAMBDA x : f[x], DOMAIN f)

----
(* The two methods.                                                        *)

Member(entity, status) == [entity |-> entity, status |-> status]

\* resolve_legacy: records of one title and type; the first type of a title
\* wins and the others are dropped.
FirstType(title) == input.type[Min({m \in Mentions : input.title[m] = title})]
Legacy ==
    [m \in Mentions |->
        IF input.title[m] = 0 \/ input.type[m] # FirstType(input.title[m]) THEN Member(None, "dropped")
        ELSE Member(input.title[m], "resolved")]

\* resolve_evidence: clusters named by one of their records; what stays alone
\* is provisional.
Evidences ==
    {[m \in Mentions |-> Member(owner[m],
        IF \E o \in Mentions \ {m} : owner[o] = owner[m] THEN "resolved" ELSE "provisional")] :
     owner \in {f \in [Mentions -> Mentions] : \A m \in Mentions : f[m] <= m /\ f[f[m]] = f[m]}}

\* Records are finitely many, in an order; None is no result and no name; a
\* group's share of Unit is a whole number.
ExperimentAssumption ==
    /\ IsFiniteSet(Mentions) /\ Mentions \subseteq Nat /\ None \notin Evidences
    /\ \A i \in Inputs : \A m \in Mentions : i.title[m] # None
    /\ Unit \in Nat /\ \A n \in 1..Cardinality(Mentions) : \E k \in 0..Unit : n * k = Unit

\* map_relations: an edge between the entities of its ends.
Linked(res) ==
    {[ends |-> e, from |-> res[e[1]].entity, to |-> res[e[2]].entity,
      status |-> IF None \in {res[e[1]].entity, res[e[2]].entity} THEN "dropped"
                 ELSE IF "provisional" \in {res[e[1]].status, res[e[2]].status} THEN "provisional"
                 ELSE "resolved"] : e \in input.relations}

----
(* Comparing and scoring.                                                  *)

(* Mutant: all dropped records count as one group.                         *)
GroupKeyShared(res, m) == <<"entity", res[m].entity>>

\* A dropped record is a group of its own.
GroupKey(res, m) == IF res[m].entity = None THEN <<"dropped", m>> ELSE <<"entity", res[m].entity>>
Peers(res, m) == {x \in Mentions : GroupKey(res, x) = GroupKey(res, m)}

(* Mutant: groups of equal size are taken for the same.                    *)
DifferencesBySize(new) ==
    {m \in Mentions : Cardinality(Peers(Legacy, m)) # Cardinality(Peers(new, m))
                        \/ Legacy[m].status = "dropped"}

\* differences: by the size of the groups and of their intersection.
Differences(new) ==
    {m \in Mentions :
        LET shared == Cardinality({x \in Mentions : GroupKey(Legacy, x) = GroupKey(Legacy, m)
                                                   /\ GroupKey(new, x) = GroupKey(new, m)})
        IN  \/ Cardinality(Peers(Legacy, m)) # shared \/ Cardinality(Peers(new, m)) # shared
            \/ Legacy[m].status = "dropped"}

Labelled == {m \in Mentions : input.gold[m] # None}
GoldGroups == {{x \in Labelled : input.gold[x] = input.gold[m]} : m \in Labelled}
PredGroups(res) == {Peers(res, m) \cap Labelled : m \in Labelled}
PairsIn(n) == (n * (n - 1)) \div 2

\* evaluate: pairwise counts, B-cubed sums, contamination, and relations whose
\* ends are in pure groups of the right identity.
Metrics(res) ==
    LET cells == GoldGroups \X PredGroups(res)
        overlap(c) == Cardinality(c[1] \cap c[2])
        pairs(groups) == Total([g \in groups |-> PairsIn(Cardinality(g))])
        tp == Total([c \in cells |-> PairsIn(overlap(c))])
        share(c, group) == (overlap(c) * overlap(c) * Unit) \div Cardinality(group)
        pure(m) == \A x \in Peers(res, m) : input.gold[x] = input.gold[m]
    IN  [tp |-> tp,
         fp |-> pairs(PredGroups(res)) - tp,
         fn |-> pairs(GoldGroups) - tp,
         precision |-> Total([c \in cells |-> share(c, c[2])]),
         recall |-> Total([c \in cells |-> share(c, c[1])]),
         contaminated |-> Cardinality({p \in PredGroups(res) : Cardinality({input.gold[m] : m \in p}) > 1}),
         forced |-> Cardinality({m \in Mentions \ Labelled : res[m].status = "resolved"}),
         endpoints |-> Cardinality({e \in input.relations : {e[1], e[2]} \subseteq Labelled
                                       /\ \A m \in {e[1], e[2]} : res[m].entity # None /\ pure(m)})]

Report(res) ==
    [changed |-> Cardinality(Differences(res)),
     metrics |-> IF input.gold = None THEN None ELSE [legacy |-> Metrics(Legacy), evidence |-> Metrics(res)]]

Content(w, a, new) ==
    CASE a = "corpus" -> [by |-> w, value |-> Mentions]
      [] a = "gold" -> [by |-> w, value |-> input.gold]
      [] a = "legacy" -> [by |-> w, value |-> Legacy, relations |-> Linked(Legacy)]
      [] a = "evidence" -> [by |-> w, value |-> new, relations |-> Linked(new)]
      [] a = "differences" -> [by |-> w, value |-> Differences(new)]
      [] a = "comparison" -> [by |-> w, value |-> Report(new)]

----
(* A comparison.                                                           *)

NoView == [state |-> "none", manifest |-> None, read |-> <<>>]

Init ==
    /\ input \in Inputs
    /\ dir = [made |-> FALSE, manifest |-> None, files |-> <<>>]
    /\ writer = [w \in Writers |-> 0]
    /\ found = [w \in Writers |-> None] /\ view = NoView

\* mkdir(exist_ok=False): the directory is this comparison's alone.  Gold that
\* does not cover the corpus is refused before.
Begin(w) ==
    /\ writer[w] = 0 /\ ~dir.made
    /\ input.gold # None => DOMAIN input.gold = Mentions
    /\ dir' = [dir EXCEPT !.made = TRUE]
    /\ writer' = [writer EXCEPT ![w] = 1]
    /\ UNCHANGED <<input, found, view>>

\* Refused: no directory is made for invalid labels, or it exists.
Refuse(w) ==
    /\ writer[w] = 0
    /\ dir.made \/ (input.gold # None /\ DOMAIN input.gold # Mentions)
    /\ writer' = [writer EXCEPT ![w] = -1]
    /\ UNCHANGED <<input, dir, found, view>>

Manifest(state, sealed) == [state |-> state, sealed |-> sealed]

Announce(w) ==
    /\ writer[w] = 1 /\ dir.manifest = None
    /\ dir' = [dir EXCEPT !.manifest = Manifest("running", <<>>)]
    /\ UNCHANGED <<input, writer, found, view>>

Written(a, c) == [x \in DOMAIN dir.files \cup {a} |-> IF x = a THEN c ELSE dir.files[x]]

\* One artifact, atomically replaced; the evidence is found before it.
WriteArtifact(w) ==
    /\ writer[w] \in DOMAIN Planned /\ dir.manifest # None
    /\ LET a == Planned[writer[w]] IN
       \E new \in IF a = "evidence" THEN Evidences ELSE {found[w]} :
         /\ found' = [found EXCEPT ![w] = new]
         /\ dir' = [dir EXCEPT !.files = Written(a, Content(w, a, new))]
    /\ writer' = [writer EXCEPT ![w] = @ + 1]
    /\ UNCHANGED <<input, view>>

\* The manifest becomes complete, with the hash of every file.
Seal(w) ==
    /\ writer[w] = Len(Planned) + 1
    /\ dir' = [dir EXCEPT !.manifest = Manifest("complete", dir.files)]
    /\ writer' = [writer EXCEPT ![w] = -1]
    /\ UNCHANGED <<input, found, view>>

\* Failure or cancellation; within the try block the manifest says so.
Fail(w) ==
    /\ writer[w] > 0
    /\ IF \A i \in DOMAIN Planned : Planned[i] \in {"corpus", "gold"} => i < writer[w]
       THEN dir' = [dir EXCEPT !.manifest = Manifest("failed", <<>>)]
       ELSE UNCHANGED dir
    /\ writer' = [writer EXCEPT ![w] = -1]
    /\ UNCHANGED <<input, found, view>>

\* The process dies.
Crash(w) ==
    /\ writer[w] > 0 /\ writer' = [writer EXCEPT ![w] = -1]
    /\ UNCHANGED <<input, dir, found, view>>

\* Somebody exchanges a file of a finished comparison (once, the bound) for the
\* same file of another comparison of this corpus.
Exchange ==
    /\ dir.manifest # None /\ dir.manifest.state = "complete"
    /\ \A a \in DOMAIN dir.files : dir.files[a].by # None
    /\ \E a \in DOMAIN dir.files : dir' = [dir EXCEPT !.files[a].by = None]
    /\ UNCHANGED <<input, writer, found, view>>

----
(* The viewer: load_experiment.                                            *)

\* What a complete comparison consists of.
Expected == {a \in ToSet(Artifacts) : a # "gold" \/ "gold" \in DOMAIN view.manifest.sealed}

Open ==
    /\ view.state = "none" /\ dir.manifest # None
    /\ view' = IF dir.manifest.state = "complete"
               THEN [state |-> "reading", manifest |-> dir.manifest, read |-> <<>>]
               ELSE [NoView EXCEPT !.state = "refused"]
    /\ UNCHANGED <<input, dir, writer, found>>

(* Mutant: what was read is checked against nothing.                       *)
IntactAny(a) == a \in DOMAIN dir.files

\* The bytes that are hashed are the bytes that are shown.
Intact(a) ==
    /\ a \in DOMAIN dir.files /\ a \in DOMAIN view.manifest.sealed
    /\ dir.files[a] = view.manifest.sealed[a]

Read(a) ==
    /\ view.state = "reading" /\ a \in Expected \ DOMAIN view.read
    /\ \A b \in Expected \ DOMAIN view.read :
        \E i, j \in DOMAIN Artifacts : Artifacts[i] = a /\ Artifacts[j] = b /\ i <= j
    /\ view' = IF Intact(a)
               THEN [view EXCEPT !.read = [x \in DOMAIN @ \cup {a} |->
                                              IF x = a THEN dir.files[a] ELSE @[x]]]
               ELSE [view EXCEPT !.state = "refused"]
    /\ UNCHANGED <<input, dir, writer, found>>

\* The parts are of one input, cover it, and agree with the report.
Coherent ==
    /\ \A a \in {"legacy", "evidence"} : DOMAIN view.read[a].value = view.read["corpus"].value
    /\ Cardinality(view.read["differences"].value) = view.read["comparison"].value.changed
    /\ (view.read["comparison"].value.metrics # None) = ("gold" \in DOMAIN view.read)

Show ==
    /\ view.state = "reading" /\ Expected \subseteq DOMAIN view.read
    /\ view' = [view EXCEPT !.state = IF Coherent THEN "shown" ELSE "refused"]
    /\ UNCHANGED <<input, dir, writer, found>>

Next ==
    \/ \E w \in Writers :
        Begin(w) \/ Refuse(w) \/ Announce(w) \/ WriteArtifact(w) \/ Seal(w) \/ Fail(w) \/ Crash(w)
    \/ Exchange \/ Open \/ (\E a \in ToSet(Artifacts) : Read(a)) \/ Show

Spec == Init /\ [][Next]_vars

----
\* What the viewer shows was all written by one comparison that ended, every
\* part computed from that comparison's own results, whatever was started,
\* failed or exchanged in between (experiments.py: reject partial, mixed-input
\* or modified artifacts before showing any scores).
ShownIsOneRun ==
    view.state = "shown" =>
        \E w \in Writers :
            /\ found[w] # None /\ DOMAIN view.read = ToSet(Planned)
            /\ \A a \in DOMAIN view.read : view.read[a] = Content(w, a, found[w])

Together(res, m, o) == res[m].entity # None /\ res[m].entity = res[o].entity
SameGold(m, o) == input.gold[m] = input.gold[o]
PairsWhere(p(_, _)) == Cardinality({mo \in Labelled \X Labelled : mo[1] < mo[2] /\ p(mo[1], mo[2])})

\* The counts, made from groups and their overlaps, are those of comparing
\* every two records, dropped ones included, and every record whose peers
\* differ between the methods is listed (evaluation.py:70-125, :180).
ScoresAreExact ==
    \A w \in Writers : found[w] # None =>
        /\ Differences(found[w]) =
            {m \in Mentions :
                \/ Legacy[m].entity = None
                \/ \E o \in Mentions \ {m} : Together(Legacy, m, o) # Together(found[w], m, o)}
        /\ input.gold # None => \A res \in {Legacy, found[w]} :
            LET k == Metrics(res)
                peers(m) == {m} \cup {o \in Labelled : Together(res, m, o)}
                same(m) == {o \in Labelled : SameGold(m, o)}
            IN  /\ k.tp = PairsWhere(LAMBDA m, o : SameGold(m, o) /\ Together(res, m, o))
                /\ k.fp = PairsWhere(LAMBDA m, o : ~SameGold(m, o) /\ Together(res, m, o))
                /\ k.fn = PairsWhere(LAMBDA m, o : SameGold(m, o) /\ ~Together(res, m, o))
                /\ k.precision = Total([m \in Labelled |->
                        (Cardinality(peers(m) \cap same(m)) * Unit) \div Cardinality(peers(m))])
                /\ k.recall = Total([m \in Labelled |->
                        (Cardinality(peers(m) \cap same(m)) * Unit) \div Cardinality(same(m))])
====
