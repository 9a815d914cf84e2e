---- MODULE CandidateRecall ----
(* Which pairs of records an analysis compares (resolution/engine/         *)
(* candidates.py, synonyms.py, candidate_identity.py, vectors.py,          *)
(* resolution/record_recall.py, and the validated corpus of contracts.py). *)
(* Workers first ask a model for the other names of every record, under a  *)
(* budget of calls; then every record recalls the records it shares a      *)
(* feature with.  Blocks that are too common are skipped, the candidates   *)
(* of one record are cut to a limit, and too many pairs end the analysis.  *)
(* What is skipped or cut must be disclosed (overflow).                    *)
(*                                                                         *)
(* Names and terms are values; how similar two names look is a level.      *)
EXTENDS Naturals, FiniteSets, Sequences, SequencesExt, FiniteSetsExt

CONSTANTS
    Mentions,        \* mention ids, numbers for their order
    Inputs,          \* the corpora analysed (see below)
    Terms,           \* name -> the words and bigrams it contains
    Similarity,      \* pair of names -> 0 (below 0.2), 1, or 2 (from 0.55)
    Workers,         \* config.concurrency workers
    MaxAliasCalls, MaxBlock, Limit, MaxPairs, MaxVectors,   \* the config's limits
    None

\* mentions: what each record says; constraints: the reviewed ones, in order;
\* dictionary: reviewed synonyms; vectors: the embedding sidecar or None;
\* policy: "original" or "balanced"; scope: the corpus' namespace.
RecallAssumption ==
    /\ Mentions \subseteq Nat /\ IsFiniteSet(Mentions) /\ None \notin Mentions
    /\ {MaxAliasCalls, MaxPairs, MaxVectors} \subseteq Nat
    /\ {MaxBlock, Limit} \subseteq Nat \ {0}
    /\ \A i \in Inputs :
        /\ i.policy \in {"original", "balanced"} /\ DOMAIN i.mentions = Mentions
        /\ i.vectors # None => \A m \in DOMAIN i.vectors.near : i.vectors.near[m] \subseteq Mentions

VARIABLES
    input,
    phase,       \* "load", "alias", "retrieve", "done", "refused" or "stopped"
    queue,       \* mentions no worker has taken (pending)
    worker,      \* the mention a worker waits for the model about
    calls,       \* model_requests
    aliases,     \* mention -> its aliases, enriched once expanded
    records,     \* mention -> how its expansion ended
    candidates,  \* mention -> the mentions to compare it with
    overflow,    \* mentions whose recall is known to be incomplete
    pairs        \* the pairs selected so far

vars == <<input, phase, queue, worker, calls, aliases, records, candidates, overflow, pairs>>
aliasVars == <<queue, worker, calls, aliases, records>>
recallVars == <<candidates, overflow, pairs>>

Pair(m, o) == IF m < o THEN <<m, o>> ELSE <<o, m>>
Forced(m) == {o \in Mentions : \E c \in ToSet(input.constraints) : {c.left, c.right} = {m, o}}

----
(* The corpus.                                                             *)

\* Corpus.from_dict: identifiers are quoted from the record's own context, and
\* reviewed constraints name two different records, each pair once.
Quoted(a, context) == a.quote \in context /\ a.value = a.quote

Valid(i) ==
    /\ \A m \in Mentions : \A a \in i.mentions[m].ids : Quoted(a, i.mentions[m].context)
    /\ \A c \in ToSet(i.constraints) :
        {c.left, c.right} \subseteq Mentions /\ c.left # c.right /\ c.reviewed
    /\ \A x, y \in DOMAIN i.constraints :
        {i.constraints[x].left, i.constraints[x].right} =
            {i.constraints[y].left, i.constraints[y].right} => x = y

\* vector_neighbors: the sidecar covers exactly this corpus, in one dimension.
Sound(v) ==
    \/ v = None
    \/ /\ v.same /\ DOMAIN v.near = Mentions /\ v.aligned
       /\ Cardinality(Mentions) <= MaxVectors

----
(* What a record is recalled by.                                           *)

\* event_keys: participant, kind and time, when kind and time are unambiguous.
EventKeys(r) ==
    IF Cardinality(r.kinds) = 1 /\ Cardinality(r.dates) = 1
    THEN r.participants \X r.kinds \X r.dates ELSE {}

\* database_recall: rows that are events, or bear a generated label, are not
\* recalled by that label.
Recall(m) ==
    LET rows == input.mentions[m].rows IN
    IF \A r \in rows : ~r.event /\ ~r.generated THEN None
    ELSE [names |-> UNION {(IF r.generated THEN {} ELSE {r.name}) \cup r.aliases :
                            r \in {x \in rows : ~x.event}},
          keys |-> UNION {EventKeys(r) : r \in {x \in rows : x.event}}]

RecallNames(m) == IF Recall(m) = None THEN {input.mentions[m].name} \cup aliases[m] ELSE Recall(m).names
Described(m) == IF Recall(m) = None THEN input.mentions[m].terms ELSE {}
RecordKeys(m) == IF Recall(m) = None THEN {} ELSE Recall(m).keys
Ids(m) == {a.value : a \in input.mentions[m].ids}

\* recall_features.
Features(m) ==
    ({"name"} \X RecallNames(m))
    \cup ({"term"} \X (Described(m) \cup UNION {Terms[n] : n \in RecallNames(m)}))
    \cup ({"id"} \X Ids(m)) \cup ({"record"} \X RecordKeys(m))

Block(key) == {m \in Mentions : key \in Features(m)}
TooCommon(key) == Cardinality(Block(key)) > MaxBlock

Near(m) == IF input.vectors = None THEN {} ELSE input.vectors.near[m]

Pool(m) ==
    (Forced(m) \cup Near(m) \cup
     UNION {Block(key) : key \in {k \in Features(m) : ~TooCommon(k)}}) \ {m}

SameId(m, o) == Ids(m) \cap Ids(o) # {}
SameRecord(m, o) == RecordKeys(m) \cap RecordKeys(o) # {}
SameName(m, o) == RecallNames(m) \cap RecallNames(o) # {}
Alike(m, o) == Max({0} \cup {Similarity[p] : p \in RecallNames(m) \X RecallNames(o)})

\* compatible_types: labels of no known family never exclude a pair.
Compatible(m, o) ==
    LET families == {input.mentions[x].family : x \in {m, o}} \ {None}
    IN  Cardinality(families) <= 1

\* Terms of the description that few records share.
Rare(m) ==
    LET most == Max({2, Cardinality(Mentions) \div 10})
    IN  {t \in Described(m) : Cardinality(Block(<<"term", t>>)) <= most}

\* financial_dimensions: only what a metric's own name says unambiguously.
Dimensions(m) ==
    LET said == input.mentions[m].says
        clear == {f \in DOMAIN said : Cardinality(said[f]) = 1 /\ (f = "period" => ~input.mentions[m].vague)}
    IN  IF input.mentions[m].family # "metric" THEN {}
        ELSE {<<f, CHOOSE v \in said[f] : TRUE>> : f \in clear}

Conflicts(m, o) == \E x \in Dimensions(m), y \in Dimensions(o) : x[1] = y[1] /\ x[2] # y[2]

Strong(m, o) == o \in Forced(m) \/ SameId(m, o) \/ SameName(m, o) \/ SameRecord(m, o)

\* The balanced policy asks more of a pair that shares no name or key, and sets
\* apart financial records that differ.
Eligible(m, o) ==
    \/ Strong(m, o)
    \/ /\ Compatible(m, o)
       /\ \/ Alike(m, o) = 2 \/ o \in Near(m)
          \/ Alike(m, o) = 1 /\ Cardinality(Rare(m) \cap Rare(o)) >= 2
Filtered(m, o) == Conflicts(m, o) /\ o \notin Forced(m) /\ ~SameId(m, o)

Ranked(m) ==
    IF input.policy = "original" THEN Pool(m)
    ELSE {o \in Pool(m) : Eligible(m, o) /\ ~Filtered(m, o)}

\* The first four places of the rank; what follows them (similarity, vector
\* neighbours, rare terms) is left open.
Rank(m, o) ==
    (IF o \in Forced(m) THEN 8 ELSE 0) + (IF SameId(m, o) THEN 4 ELSE 0)
    + (IF SameRecord(m, o) THEN 2 ELSE 0) + (IF SameName(m, o) THEN 1 ELSE 0)

----
Init ==
    /\ input \in Inputs
    /\ phase = "load" /\ queue = Mentions
    /\ worker = [w \in Workers |-> None] /\ calls = 0
    /\ aliases = [m \in Mentions |-> input.mentions[m].aliases] /\ records = <<>>
    /\ candidates = <<>> /\ overflow = {} /\ pairs = {}

\* Corpus.from_dict and the sidecar's validation, before any model is asked.
Load ==
    /\ phase = "load"
    /\ phase' = IF Valid(input) /\ Sound(input.vectors) THEN "alias" ELSE "refused"
    /\ UNCHANGED <<input, aliasVars, recallVars>>

\* The dictionary entries that speak of the record: of its scope and type, and
\* sharing one of its names.
Entries(m) ==
    {e \in input.dictionary :
        /\ e.scope \in {"*", input.scope} /\ e.type = input.mentions[m].type
        /\ e.names \cap ({input.mentions[m].name} \cup input.mentions[m].aliases) # {}}

Expanded(m, found) ==
    (input.mentions[m].aliases \cup found \cup UNION {e.names : e \in Entries(m)})
        \ {input.mentions[m].name}

Settle(m, state, found) ==
    /\ records' = [x \in DOMAIN records \cup {m} |-> IF x = m THEN state ELSE records[x]]
    /\ aliases' = [aliases EXCEPT ![m] = Expanded(m, found)]

(* Mutant: the call is counted when the model has answered.                *)
AskUncounted(w, m) ==
    /\ calls < MaxAliasCalls
    /\ worker' = [worker EXCEPT ![w] = m] /\ calls' = Cardinality(DOMAIN records)
    /\ UNCHANGED <<aliases, records>>

\* expand: within the budget, which is spent before the model is asked.
Ask(w, m) ==
    /\ calls < MaxAliasCalls
    /\ worker' = [worker EXCEPT ![w] = m] /\ calls' = calls + 1
    /\ UNCHANGED <<aliases, records>>

\* expand: the budget is spent; the dictionary still speaks.
Skip(m) ==
    /\ calls >= MaxAliasCalls
    /\ Settle(m, "skipped", {}) /\ UNCHANGED <<worker, calls>>

\* A worker takes the next record, in the corpus' order.
Take(w) ==
    /\ phase = "alias" /\ worker[w] = None /\ queue # {}
    /\ LET m == Min(queue)
       IN  (Ask(w, m) \/ Skip(m)) /\ queue' = queue \ {m}
    /\ UNCHANGED <<input, phase, recallVars>>

\* validate_aliases: one row without a supporting quote refuses the answer.
Grounded(rows) == \A r \in rows : r.quoted

\* The model answers, or fails, or the request times out.
AliasAnswer(w) ==
    /\ phase = "alias" /\ worker[w] # None
    /\ worker' = [worker EXCEPT ![w] = None]
    /\ LET m == worker[w] IN
       \/ \E rows \in SUBSET input.mentions[m].offers :
            IF Grounded(rows) THEN Settle(m, "complete", {r.alias : r \in rows})
            ELSE Settle(m, "failed", {})
       \/ Settle(m, "failed", {})
    /\ UNCHANGED <<input, phase, queue, calls, recallVars>>

\* Reporting progress fails (the lease is lost) or the analysis is cancelled:
\* the task group ends every worker.
Abort ==
    /\ phase \in {"alias", "retrieve"}
    /\ phase' = "stopped" /\ worker' = [w \in Workers |-> None]
    /\ UNCHANGED <<input, queue, calls, aliases, records, recallVars>>

\* bounded_map has returned: every record was expanded.
ExpansionEnds ==
    /\ phase = "alias" /\ queue = {} /\ \A w \in Workers : worker[w] = None
    /\ phase' = "retrieve"
    /\ UNCHANGED <<input, aliasVars, recallVars>>

(* Mutant: only a skipped block is disclosed, not the cut.                 *)
OverflowsInBlocks(m) == \E key \in Features(m) : TooCommon(key)

\* What a record discloses: a skipped block, or candidates beyond the limit.
Overflows(m) == (\E key \in Features(m) : TooCommon(key)) \/ Cardinality(Ranked(m)) > Limit

(* Mutant: a shared identifier ranks below a shared name.                  *)
SelectsByName(m) ==
    {kept \in kSubset(Min({Limit, Cardinality(Ranked(m))}), Ranked(m)) :
        \A o \in Ranked(m) \ kept, k \in kept :
            o \notin Forced(m) /\ SameName(m, o) => SameName(m, k) \/ k \in Forced(m)}

\* The candidates within the limit: no dropped one outranks a kept one.
Selects(m) ==
    {kept \in kSubset(Min({Limit, Cardinality(Ranked(m))}), Ranked(m)) :
        \A o \in Ranked(m) \ kept, k \in kept : Rank(m, o) <= Rank(m, k)}

\* retrieve: the next record, in order; reviewed constraints are always kept,
\* and too many pairs end the analysis (check_budget).
Retrieve ==
    /\ phase = "retrieve" /\ DOMAIN candidates # Mentions
    /\ LET m == Min(Mentions \ DOMAIN candidates) IN
       /\ overflow' = IF Overflows(m) THEN overflow \cup {m} ELSE overflow
       /\ \E kept \in Selects(m) :
            /\ candidates' = [x \in DOMAIN candidates \cup {m} |->
                                IF x = m THEN kept \cup Forced(m) ELSE candidates[x]]
            /\ pairs' = pairs \cup {Pair(m, o) : o \in kept \cup Forced(m)}
       /\ phase' = IF Cardinality(pairs') > MaxPairs THEN "refused"
                   ELSE IF DOMAIN candidates' = Mentions THEN "done" ELSE "retrieve"
    /\ UNCHANGED <<input, aliasVars>>

Next == Load \/ (\E w \in Workers : Take(w) \/ AliasAnswer(w)) \/ Abort \/ ExpansionEnds \/ Retrieve

Spec == Init /\ [][Next]_vars

----
\* Two records that share an identifier, a name or a record key, and do not
\* differ as financial records, are compared, or both disclose that their
\* recall is incomplete; a reviewed pair is always compared (candidates.py:
\* every skipped recall block affects completeness).
StrongPairsAreCompared ==
    phase = "done" =>
        \A m, o \in Mentions :
            m # o /\ Strong(m, o) /\ (input.policy = "balanced" => ~Filtered(m, o)) =>
                Pair(m, o) \in pairs \/ (o \notin Forced(m) /\ {m, o} \subseteq overflow)

\* The cut never drops a record with a shared identifier in favour of one
\* that only looks similar, whatever the order of retrieval and the vectors,
\* and what is compared stays within the budget (candidates.py:116, :276).
StrongestAreKept ==
    /\ phase = "done" => Cardinality(pairs) <= MaxPairs
    /\ \A m \in DOMAIN candidates :
        \A o \in Pool(m) \ candidates[m], k \in candidates[m] :
            SameId(m, o) => SameId(m, k) \/ k \in Forced(m)

\* Model calls are never exceeded although records are expanded concurrently;
\* every record is settled once, is skipped only when the budget is spent, and
\* gains names only from an answer that was wholly quoted or a dictionary entry
\* of its scope and type (synonyms.py:125-152).
AliasesAreGrounded ==
    /\ calls <= MaxAliasCalls
    /\ Cardinality({m \in DOMAIN records : records[m] # "skipped"})
        + Cardinality({w \in Workers : worker[w] # None}) <= MaxAliasCalls
    /\ \A m \in DOMAIN records :
        LET gained == aliases[m] \ (input.mentions[m].aliases \cup UNION {e.names : e \in Entries(m)})
        IN  /\ records[m] # "complete" => gained = {}
            /\ \A n \in gained : \E r \in input.mentions[m].offers : r.alias = n /\ r.quoted
    /\ phase = "retrieve" => DOMAIN records = Mentions
====
