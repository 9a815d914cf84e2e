---- MODULE ResolutionEngine ----
(* One analysis of the entity-resolution engine                            *)
(* (resolution/engine/resolver.py, model_judge.py, catalog.py,             *)
(* concurrency.py): workers compare the retrieved pairs under a budget of  *)
(* model requests, a located mention competes for its catalogue candidates *)
(* in one request shared by several workers, and accepted matches are then *)
(* merged into complete-link clusters.  Requests answer in any order, fail *)
(* or time out, and the whole analysis may be cancelled.                   *)
(*                                                                         *)
(* What the rules (identity guard, constraints, trusted identifiers) say   *)
(* of a pair is part of the input; what a model says is chosen when it     *)
(* answers.                                                                *)
EXTENDS Naturals, FiniteSets, Sequences, Functions, FiniteSetsExt

CONSTANTS
    Mentions,     \* mention ids, numbers for their order
    Inputs,       \* the corpora analysed (see below)
    Workers,      \* config.concurrency workers
    MaxCalls,     \* config.max_model_calls
    MaxPairs,     \* config.max_pairs
    MaxCluster,   \* config.max_cluster_size
    None

\* Unordered pairs, by their sorted ids.
Pairs == {p \in Mentions \X Mentions : p[1] < p[2]}

\* order: the retrieved pairs by priority; rule: verdict of the rules on a
\* pair, None, or "raise" for contradictory evidence; rivals: the catalogue
\* candidates of a located mention; overflow: mentions whose retrieval was
\* cut; apart: reviewed cannot-links; policy: model_policy; unsupported: pairs
\* whose quotes do not carry the merge.
EngineAssumption ==
    /\ Mentions \subseteq Nat /\ IsFiniteSet(Mentions)
    /\ {MaxCalls, MaxPairs} \subseteq Nat /\ MaxCluster \in Nat \ {0}
    /\ Workers # {} /\ IsFiniteSet(Workers)
    /\ None \notin Pairs \cup Mentions \cup {"same", "different", "uncertain"}
    /\ \A i \in Inputs :
        /\ i.order \in Seq(Pairs) /\ IsInjective(i.order) /\ Len(i.order) <= MaxPairs
        /\ i.rule \in [Pairs -> {"same", "different", "uncertain", "raise", None}]
        /\ i.rivals \in [Mentions -> SUBSET Mentions] /\ \A m \in Mentions : m \notin i.rivals[m]
        /\ i.overflow \subseteq Mentions
        /\ i.apart \subseteq {p \in Pairs : i.rule[p] \in {"different", "uncertain"}}
        /\ i.policy \in {"review", "apply"}
        /\ i.unsupported \subseteq Pairs

VARIABLES
    input,
    phase,      \* "compare", "merge", "done" or "stopped"
    next,       \* the next retrieved pair a worker takes
    worker,     \* the pair a worker waits for a model on
    calls,      \* model_calls
    charged,    \* charged_requests
    shared,     \* catalog_tasks: state of a mention's competition, and its choice
    decisions,  \* pair -> [verdict, origin, proposal]
    sent,       \* charged requests that were begun (history; a request that
                \* the model client repeats in transport is one)
    owner,      \* mention -> the group it belongs to
    accepted,   \* decisions the clustering accepted
    todo        \* the matches still to be merged

vars == <<input, phase, next, worker, calls, charged, shared, decisions, sent,
          owner, accepted, todo>>
compareVars == <<next, worker, calls, charged, shared, decisions, sent>>

----
(* Requests.                                                               *)

\* The mention whose competition decides the pair, or None.
Contest(p) ==
    IF p[2] \in input.rivals[p[1]] THEN p[1]
    ELSE IF p[1] \in input.rivals[p[2]] THEN p[2] ELSE None

\* budget_key: one charge per competition, one per other pair.
Key(p) == IF Contest(p) # None THEN <<Contest(p)>> ELSE p

\* A competition, with the candidate it chose if it chose one.
Competition(state, choice) == [state |-> state, choice |-> choice]

Runs(m) == shared[m].state = "running"

\* What is in flight at the provider: ordinary pairs and running competitions.
InFlight ==
    {worker[w] : w \in {x \in Workers : worker[x] # None /\ Contest(worker[x]) = None}} \cup
    {<<m>> : m \in {x \in Mentions : Runs(x)}}

(* Mutant: overflow is forgotten when model matches are applied.           *)
SettleOverflow(p, verdict, origin) ==
    [verdict |-> IF verdict = "same" /\ origin = "model" /\ input.policy # "apply"
                 THEN "uncertain" ELSE verdict,
     origin |-> origin, proposal |-> verdict = "same" /\ origin = "model"]

\* The last lines of compare: a model's match is only a proposal, unless it is
\* applied and neither mention's retrieval overflowed.
Settle(p, verdict, origin) ==
    LET proposed == /\ verdict = "same" /\ origin = "model"
                    /\ input.policy # "apply" \/ {p[1], p[2]} \cap input.overflow # {}
    IN  [verdict |-> IF proposed THEN "uncertain" ELSE verdict,
         origin |-> origin, proposal |-> proposed]

Decide(p, verdict, origin) ==
    decisions' = [q \in DOMAIN decisions \cup {p} |->
                    IF q = p THEN Settle(p, verdict, origin) ELSE decisions[q]]

Init ==
    /\ input \in Inputs
    /\ phase = "compare" /\ next = 1 /\ worker = [w \in Workers |-> None]
    /\ calls = 0 /\ charged = {}
    /\ shared = [m \in Mentions |-> Competition("none", {})]
    /\ decisions = <<>> /\ sent = {}
    /\ owner = [m \in Mentions |-> m] /\ accepted = {} /\ todo = {}

\* The first worker to ask for a competition starts it.
Opens(p) == Contest(p) # None /\ shared[Contest(p)].state = "none"

(* Mutant: the budget is charged when the request ends, not when it begins.*)
AskUncharged(w, p) ==
    LET key == Key(p) IN
    /\ input.rule[p] = None /\ (key \in charged \/ calls < MaxCalls)
    /\ worker' = [worker EXCEPT ![w] = p]
    /\ charged' = charged \cup {key}
    /\ calls' = Cardinality(charged')
                - Cardinality({x \in Workers \ {w} : worker[x] # None /\ Key(worker[x]) # key})
    /\ sent' = sent \cup {key}
    /\ shared' = IF Opens(p) THEN [shared EXCEPT ![Contest(p)] = Competition("running", {})]
                 ELSE shared
    /\ UNCHANGED decisions

\* compare: neither decided nor settled by rule, within the budget: the
\* request is charged and begun, or joins the competition that is running.
Ask(w, p) ==
    LET key == Key(p) IN
    /\ input.rule[p] = None /\ (key \in charged \/ calls < MaxCalls)
    /\ worker' = [worker EXCEPT ![w] = p]
    /\ charged' = charged \cup {key}
    /\ calls' = IF key \in charged THEN calls ELSE calls + 1
    /\ sent' = IF Contest(p) = None \/ Opens(p) THEN sent \cup {key} ELSE sent
    /\ shared' = IF Opens(p) THEN [shared EXCEPT ![Contest(p)] = Competition("running", {})]
                 ELSE shared
    /\ UNCHANGED decisions

\* compare: settled at once, by a rule or because the budget is spent.
Answer(p) ==
    /\ \/ /\ input.rule[p] \in {"same", "different", "uncertain"}
          /\ Decide(p, input.rule[p], "rule")
       \/ /\ input.rule[p] = None /\ Key(p) \notin charged /\ calls >= MaxCalls
          /\ Decide(p, "uncertain", "exhausted")
    /\ UNCHANGED <<worker, calls, charged, shared, sent>>

\* close and the task group: nothing of a stopped analysis keeps running.
Stop ==
    /\ phase' = "stopped"
    /\ worker' = [w \in Workers |-> None]
    /\ shared' = [m \in Mentions |-> IF Runs(m) THEN Competition("failed", {}) ELSE shared[m]]
    /\ UNCHANGED <<input, next, calls, charged, decisions, sent, owner, accepted, todo>>

\* A free worker takes the next retrieved pair (bounded_map).
Take(w) ==
    /\ phase = "compare" /\ worker[w] = None /\ next <= Len(input.order)
    /\ next' = next + 1
    /\ Ask(w, input.order[next]) \/ Answer(input.order[next])
    /\ UNCHANGED <<input, phase, owner, accepted, todo>>

\* Contradictory evidence raises out of compare.
Contradict ==
    /\ phase = "compare" /\ \E w \in Workers : worker[w] = None
    /\ next <= Len(input.order) /\ input.rule[input.order[next]] = "raise"
    /\ Stop

\* The lease is lost or the service stops.
Cancel == phase \in {"compare", "merge"} /\ Stop

\* The model answers an ordinary pair, or the request fails or times out.
Reply(w) ==
    /\ worker[w] # None /\ Contest(worker[w]) = None
    /\ \/ \E verdict \in {"same", "different", "uncertain"} : Decide(worker[w], verdict, "model")
       \/ Decide(worker[w], "uncertain", "failed")
    /\ worker' = [worker EXCEPT ![w] = None]
    /\ UNCHANGED <<input, phase, next, calls, charged, shared, sent, owner, accepted, todo>>

\* The competition of m is answered: one of its candidates, none of them,
\* undecided, or a failure.
Compete(m) ==
    /\ Runs(m)
    /\ \E answer \in {Competition("chosen", {c}) : c \in input.rivals[m]}
                     \cup {Competition(s, {}) : s \in {"chosen", "uncertain", "failed"}} :
        shared' = [shared EXCEPT ![m] = answer]
    /\ UNCHANGED <<input, phase, next, worker, calls, charged, decisions, sent, owner, accepted,
                   todo>>

(* Mutant: a worker reads the choice of another candidate as its own.      *)
ProjectedAny(p) ==
    LET made == shared[Contest(p)]
    IN  IF made.state = "uncertain" THEN "uncertain"
        ELSE IF made.choice = {} THEN "different" ELSE "same"

\* normalize_catalog_result: the one chosen candidate is the same, the others
\* stay open; if none is chosen all are different.
Projected(p) ==
    LET made == shared[Contest(p)]
    IN  IF made.state = "chosen" /\ made.choice = {} THEN "different"
        ELSE IF made.choice \subseteq {p[1], p[2]} /\ made.choice # {} THEN "same"
        ELSE "uncertain"

(* Mutant: only an answer wakes the other waiters, not a cancelled request.*)
CollectAnswered(w) ==
    LET p == worker[w] IN
    /\ p # None /\ Contest(p) # None
    /\ shared[Contest(p)].state \in {"chosen", "uncertain"}
    /\ Decide(p, Projected(p), "model")
    /\ worker' = [worker EXCEPT ![w] = None]
    /\ UNCHANGED <<input, phase, next, calls, charged, shared, sent, owner, accepted, todo>>

\* A worker waiting for a competition sees it ended, well or not.
Collect(w) ==
    LET p == worker[w] IN
    /\ p # None /\ Contest(p) # None /\ ~Runs(Contest(p))
    /\ IF shared[Contest(p)].state = "failed" THEN Decide(p, "uncertain", "failed")
       ELSE Decide(p, Projected(p), "model")
    /\ worker' = [worker EXCEPT ![w] = None]
    /\ UNCHANGED <<input, phase, next, calls, charged, shared, sent, owner, accepted, todo>>

(* Mutant: the shared request is shielded from the waiter's timeout.       *)
ExpireShielded(w) ==
    LET p == worker[w] IN
    /\ p # None /\ Contest(p) # None /\ Runs(Contest(p))
    /\ Decide(p, "uncertain", "failed")
    /\ worker' = [worker EXCEPT ![w] = None]
    /\ UNCHANGED <<input, phase, next, calls, charged, shared, sent, owner, accepted, todo>>

\* The timeout of one waiter cancels the request they all share.
Expire(w) ==
    LET p == worker[w] IN
    /\ p # None /\ Contest(p) # None /\ Runs(Contest(p))
    /\ Decide(p, "uncertain", "failed")
    /\ worker' = [worker EXCEPT ![w] = None]
    /\ shared' = [shared EXCEPT ![Contest(p)] = Competition("failed", {})]
    /\ UNCHANGED <<input, phase, next, calls, charged, sent, owner, accepted, todo>>

----
(* Clusters.                                                               *)

Idle == \A w \in Workers : worker[w] = None

Group(m) == {x \in Mentions : owner[x] = owner[m]}

\* A pair by its sorted ids.
Sorted(p) == IF p[1] < p[2] THEN p ELSE <<p[2], p[1]>>

Before(p, q) == p[1] < q[1] \/ (p[1] = q[1] /\ p[2] < q[2])

Matches(p) == p \in DOMAIN decisions /\ decisions[p].verdict = "same"

\* Matches that rules made first, then those of the model, each by id.
Precedes(p, q) ==
    LET byModel(x) == decisions[x].origin = "model"
    IN  \/ ~byModel(p) /\ byModel(q)
        \/ byModel(p) = byModel(q) /\ Before(p, q)

\* The pairs across the two groups of p that are not known to match.
Open(p) == {c \in Group(p[1]) \X Group(p[2]) : ~Matches(Sorted(c))}

\* The one of them that is compared next.
Obstacles(p) == {Sorted(c) : c \in {x \in Open(p) : \A y \in Open(p) \ {x} : Before(x, y)}}

BeginMerge ==
    /\ phase = "compare" /\ Idle /\ next > Len(input.order)
    /\ phase' = "merge"
    /\ todo' = {p \in Range(input.order) : Matches(p)}
    /\ UNCHANGED <<input, compareVars, owner, accepted>>

\* It is p's turn.
Merging(p) ==
    phase = "merge" /\ Idle /\ p \in todo /\ \A q \in todo \ {p} : Precedes(p, q)

TooLarge(p) == Cardinality(Group(p[1])) + Cardinality(Group(p[2])) > MaxCluster

\* Both ends are together already.
Confirm(p) ==
    /\ Merging(p) /\ owner[p[1]] = owner[p[2]]
    /\ accepted' = accepted \cup {p} /\ todo' = todo \ {p}
    /\ UNCHANGED <<input, phase, compareVars, owner>>

\* The merge is blocked: too large a cluster, a cross pair that is no match,
\* or one more comparison than max_pairs allows.
Block(p) ==
    /\ Merging(p) /\ owner[p[1]] # owner[p[2]]
    /\ \/ TooLarge(p)
       \/ \E q \in Obstacles(p) :
            q \in DOMAIN decisions \/ Cardinality(DOMAIN decisions) >= MaxPairs
    /\ todo' = todo \ {p}
    /\ UNCHANGED <<input, phase, compareVars, owner, accepted>>

\* A cross pair nobody retrieved is compared like the others.
CompareCross(w, p) ==
    /\ Merging(p) /\ owner[p[1]] # owner[p[2]] /\ ~TooLarge(p)
    /\ w = CHOOSE x \in Workers : TRUE
    /\ \E q \in Obstacles(p) :
        /\ q \notin DOMAIN decisions /\ Cardinality(DOMAIN decisions) < MaxPairs
        /\ IF input.rule[q] = "raise" THEN Stop
           ELSE (Ask(w, q) \/ Answer(q)) /\ UNCHANGED <<input, phase, next, owner, accepted, todo>>

\* The groups of p become one, under the lesser owner.
OneGroup(p) ==
    LET survivor == Min({owner[p[1]], owner[p[2]]})
    IN  [m \in Mentions |-> IF m \in Group(p[1]) \cup Group(p[2]) THEN survivor ELSE owner[m]]

(* Mutant: a group is joined as soon as the proposing pair matches.        *)
MergeSingleLink(p) ==
    /\ Merging(p) /\ owner[p[1]] # owner[p[2]] /\ ~TooLarge(p)
    /\ owner' = OneGroup(p)
    /\ accepted' = accepted \cup {p} /\ todo' = todo \ {p}
    /\ UNCHANGED <<input, phase, compareVars>>

\* Every cross pair is a match.
Merge(p) ==
    /\ Merging(p) /\ owner[p[1]] # owner[p[2]] /\ ~TooLarge(p) /\ Open(p) = {}
    /\ owner' = OneGroup(p)
    /\ accepted' = accepted \cup {p} /\ todo' = todo \ {p}
    /\ UNCHANGED <<input, phase, compareVars>>

\* The partition is returned, unless it violates a cannot-link.
Return ==
    /\ phase = "merge" /\ Idle /\ todo = {}
    /\ IF \E p \in input.apart : owner[p[1]] = owner[p[2]] THEN Stop
       ELSE phase' = "done" /\ UNCHANGED <<input, compareVars, owner, accepted, todo>>

----
(* Mutant: one unsupported match is left out, the rest of its cluster kept.*)
AppliedApart ==
    IF phase # "done" \/ input.policy # "apply" THEN {} ELSE accepted \ input.unsupported

\* _analyze, policy apply: accepted matches become merges of the run, except
\* in a cluster one of whose accepted matches lacks support.
Applied ==
    IF phase # "done" \/ input.policy # "apply" THEN {}
    ELSE {p \in accepted :
            \A q \in accepted \cap input.unsupported : owner[q[1]] # owner[p[1]]}

Step ==
    \/ \E w \in Workers : Take(w) \/ Reply(w) \/ Collect(w) \/ Expire(w)
    \/ \E m \in Mentions : Compete(m)
    \/ \E p \in todo : Confirm(p) \/ Block(p) \/ Merge(p) \/ \E w \in Workers : CompareCross(w, p)
    \/ Contradict \/ BeginMerge \/ Return

Next == Step \/ Cancel

\* Every request ends by its timeout, and the event loop runs what is ready.
Spec == Init /\ [][Next]_vars /\ WF_vars(Step)

----
(* Properties.                                                             *)

TypeOK ==
    /\ phase \in {"compare", "merge", "done", "stopped"}
    /\ next \in 1..(Len(input.order) + 1)
    /\ worker \in [Workers -> Pairs \cup {None}]
    /\ calls \in Nat /\ DOMAIN decisions \subseteq Pairs
    /\ owner \in [Mentions -> Mentions] /\ accepted \subseteq Pairs

\* At most max_model_calls requests are charged and none is begun that is not,
\* whatever the order in which they end, and the budget goes to the pairs
\* retrieved first: no pair is denied a request that a later one was given
\* (max_model_calls, budget_order). The transport may repeat a request within
\* its charge (model_client.py); the budget does not count that.
BudgetHeld ==
    /\ Cardinality(sent) <= MaxCalls /\ calls = Cardinality(charged) /\ sent \subseteq charged
    /\ Cardinality(DOMAIN decisions) <= MaxPairs
    /\ \A i, k \in 1..Len(input.order) :
        LET p == input.order[i]
            q == input.order[k]
        IN  i < k /\ p \in DOMAIN decisions /\ decisions[p].origin = "exhausted"
            /\ q \in DOMAIN decisions /\ decisions[q].origin \in {"model", "failed"}
            => \E h \in 1..(i - 1) : Key(input.order[h]) = Key(q)

\* No request outlives the analysis or runs without a worker that waits for
\* it, and no more run than there are workers ("no shielded request escapes
\* the resolver limit", judge).
NoRequestEscapes ==
    /\ Cardinality(InFlight) <= Cardinality(Workers)
    /\ \A m \in Mentions : Runs(m) =>
        \E w \in Workers : worker[w] # None /\ Contest(worker[w]) = m
    /\ phase \in {"done", "stopped"} => InFlight = {}

\* Two mentions end up together only if every pair of their cluster was
\* compared and matched, by rules alone under the review policy; clusters
\* respect their size, the reviewed cannot-links and overflowed retrieval.
ClustersAreConfirmed ==
    \A m, n \in Mentions : m < n /\ owner[m] = owner[n] =>
        LET p == <<m, n>> IN
        /\ p \in DOMAIN decisions /\ decisions[p].verdict = "same" /\ p \notin input.apart
        /\ decisions[p].origin = "model" =>
            input.policy = "apply" /\ {m, n} \cap input.overflow = {}
        /\ Cardinality(Group(m)) <= MaxCluster

\* A located mention is matched with at most one of its rivals by the model,
\* whichever worker asks and whichever waits (one competitive decision,
\* normalize_catalog_result); a rule decides a pair without a competition.
OneRivalWins ==
    \A m \in Mentions :
        Cardinality({p \in DOMAIN decisions :
            /\ Contest(p) = m /\ decisions[p].origin = "model"
            /\ decisions[p].verdict = "same" \/ decisions[p].proposal}) <= 1

\* Merges are applied by whole clusters: what the run applies joins exactly
\* the mentions of the engine's cluster, or none of them (_analyze).
AppliedIsWhole ==
    phase = "done" => \A p \in Applied :
        /\ {q \in accepted : owner[q[1]] = owner[p[1]]} \subseteq Applied
        /\ \A m \in Group(p[1]) : \E q \in Applied : m \in {q[1], q[2]}

\* The analysis comes to an end although requests hang, fail or share fates.
AnalysisEnds == <>(phase \in {"done", "stopped"})
====
