---- MODULE AlignmentAnalysis ----
(* One analysis of the selected tables (alignment/analyzer.py,             *)
(* interpretation.py, retrieval.py, matching.py, model_client.py,          *)
(* tracing.py).  Tables are analysed one after the other: a model explains *)
(* every column, in one request or in batches sent concurrently and split  *)
(* when the answer is cut or incomplete; then the ontology service is      *)
(* searched for the table and for each column, in groups served by a fixed *)
(* pool of workers and a per-run cache.  Requests fail, are retried and    *)
(* end in any order, the service may be synchronised to another revision,  *)
(* and the whole analysis may be cancelled.                                *)
(*                                                                         *)
(* Prompt lengths are weights of the columns; the wording of the model's   *)
(* answers is what the code's checks tell apart.                           *)
EXTENDS Naturals, FiniteSets, SequencesExt, FiniteSetsExt

CONSTANTS
    Inputs,        \* the selections analysed: sequences of tables (see below)
    BatchColumns,  \* columns per request
    MaxPrompt,     \* MAX_PROMPT_CHARS
    Concurrency,   \* batches in flight, and searches in flight
    MaxRetries,    \* model_max_retries
    GroupSize,     \* targets searched between two progress reports
    CacheSize,     \* answers the session remembers
    Revisions,     \* revisions the ontology service may serve
    Pinned         \* the revision of the catalogue of this analysis

\* A table has rows or not, a weight per column, and the query of each target:
\* first the table's, then one per column.
AnalysisAssumption ==
    /\ {MaxPrompt, MaxRetries} \subseteq Nat
    /\ {BatchColumns, Concurrency, GroupSize, CacheSize} \subseteq Nat \ {0}
    /\ Pinned \in Revisions
    /\ \A i \in Inputs : i \in Seq(ToSet(i)) /\ \A k \in DOMAIN i :
        /\ i[k].rows \in BOOLEAN /\ i[k].weights \in Seq(Nat) /\ i[k].weights # <<>>
        /\ i[k].queries \in Seq(ToSet(i[k].queries))
        /\ Len(i[k].queries) = Len(i[k].weights) + 1

VARIABLES
    input,
    at,        \* the table being analysed
    stage,     \* "tables" between two of them, "whole", "outline", "batches",
               \* "recall", "done" or "stopped"
    attempt,   \* failed attempts of the request for the table
    begun,     \* batches of the table that were begun
    pending,   \* batch -> the task that interprets it
    columns,   \* explained columns of the table, as they came
    served,    \* the revision the ontology service serves
    cache,     \* <<query, answer>> remembered, the oldest use first
    left,      \* targets of the group whose queries were not begun
    asking,    \* queries in flight
    found,     \* query -> answer, of the group
    trace,     \* answers for the table's targets so far
    mapping    \* table -> what the analysis says of it

modelVars == <<attempt, begun, pending, columns>>
searchVars == <<cache, left, asking, found, trace>>
vars == <<input, at, stage, modelVars, served, searchVars, mapping>>

Table == input[at]
Names(t) == [i \in 1..Len(t.weights) |-> i]

Empty == <<>>

\* A request whose prompt stays within the limits.
Fits(t, segment) ==
    /\ Len(segment) <= BatchColumns
    /\ FoldLeft(LAMBDA sum, i : sum + t.weights[i], 0, segment) <= MaxPrompt

\* _batches: as many of the next columns as fit.
Batches(t) ==
    LET extend(batches, i) ==
            IF batches # <<>> /\ Fits(t, Append(Last(batches), i))
            THEN Append(Front(batches), Append(Last(batches), i))
            ELSE Append(batches, <<i>>)
    IN  FoldLeft(extend, <<>>, Names(t))

Task(segment) ==
    [table |-> at, todo |-> <<segment>>, got |-> <<>>, attempt |-> 0, state |-> "running"]

Running == {k \in DOMAIN pending : pending[k].state = "running"}

Steps == <<"meaning", "recall", "selection", "validation">>

\* _base: what is said of a table before its analysis.
Base == [status |-> "unmatched", concept |-> {}, columns |-> <<>>, fields |-> <<>>,
         steps |-> [s \in ToSet(Steps) |-> "pending"]]

\* AnalysisProgress.stop: the running step fails or is skipped, and so are the
\* steps after it.
Stopped(m, failed) ==
    [m EXCEPT !.status = IF failed THEN "failed" ELSE @,
              !.steps = [s \in DOMAIN m.steps |->
                           CASE m.steps[s] = "running" -> IF failed THEN "failed" ELSE "skipped"
                             [] m.steps[s] = "pending" -> "skipped"
                             [] OTHER -> m.steps[s]]]

Step(key, status) == mapping' = [mapping EXCEPT ![at].steps[key] = status]

Init ==
    /\ input \in Inputs
    /\ at = 1 /\ stage = "tables" /\ attempt = 0 /\ begun = 0 /\ pending = Empty
    /\ columns = <<>>
    /\ served = Pinned
    /\ cache = <<>> /\ left = {} /\ asking = {} /\ found = Empty /\ trace = <<>>
    /\ mapping = [t \in DOMAIN input |-> Base]

NextTable ==
    /\ at' = at + 1 /\ stage' = "tables" /\ attempt' = 0 /\ begun' = 0 /\ columns' = <<>>
    /\ left' = {} /\ found' = Empty /\ trace' = <<>>

----
(* Interpretation.                                                         *)

\* interpret: a small table in one request, another after an overview.
Begin ==
    /\ stage = "tables" /\ at <= Len(input) /\ Table.rows
    /\ stage' = IF Fits(Table, Names(Table)) THEN "whole" ELSE "outline"
    /\ Step("meaning", "running")
    /\ UNCHANGED <<input, at, modelVars, served, searchVars>>

\* A table without rows has no instances.
Skip ==
    /\ stage = "tables" /\ at <= Len(input) /\ ~Table.rows
    /\ mapping' = [mapping EXCEPT ![at] = Stopped(@, FALSE)]
    /\ NextTable /\ UNCHANGED <<input, pending, served, cache, asking>>

(* Mutant: the sibling batches of a failed one are not cancelled.          *)
FailAlone ==
    /\ mapping' = [mapping EXCEPT ![at] = Stopped(@, TRUE)]
    /\ pending' = [k \in Running |-> pending[k]]
    /\ NextTable /\ UNCHANGED <<input, served, cache, asking>>

\* The table fails: its siblings in flight are cancelled first, the next table
\* is analysed all the same.
Fail ==
    /\ mapping' = [mapping EXCEPT ![at] = Stopped(@, TRUE)]
    /\ pending' = Empty
    /\ NextTable /\ UNCHANGED <<input, served, cache, asking>>

\* complete: a transient failure is retried, up to model_max_retries times.
RetryTable ==
    /\ stage \in {"whole", "outline"} /\ attempt < MaxRetries
    /\ attempt' = attempt + 1
    /\ UNCHANGED <<input, at, stage, begun, pending, columns, served, searchVars, mapping>>

\* The request for the table or its overview fails for good, is invalid, or
\* explains other fields than the table's.
FailTable == stage \in {"whole", "outline"} /\ Fail

\* An order in which a model may list the columns it was asked for.
Listed(segment) == {segment, Reverse(segment)}

Recall(explained) ==
    /\ stage' = "recall" /\ columns' = explained /\ left' = {} /\ found' = Empty
    /\ mapping' = [mapping EXCEPT ![at].steps["meaning"] = "completed",
                                  ![at].steps["recall"] = "running"]

(* Mutant: the columns of a single answer are not compared with the table's.*)
AnswerWholeUnchecked ==
    /\ stage = "whole"
    /\ \E explained \in Listed(Names(Table)) \cup {Tail(Names(Table))} : Recall(explained)
    /\ UNCHANGED <<input, at, attempt, begun, pending, served, cache, asking, trace>>

AnswerWhole ==
    /\ stage = "whole"
    /\ \E explained \in Listed(Names(Table)) : Recall(explained)
    /\ UNCHANGED <<input, at, attempt, begun, pending, served, cache, asking, trace>>

\* The model reached its output limit: the table is explained in batches.
CutWhole ==
    /\ stage = "whole" /\ stage' = "outline" /\ attempt' = 0
    /\ UNCHANGED <<input, at, begun, pending, columns, served, searchVars, mapping>>

\* fill: as many of the next batches as may be in flight.
Filled(running, count) ==
    LET room == Concurrency - Cardinality(DOMAIN running)
    IN  {k \in count + 1..count + room : k <= Len(Batches(Table))}

Fill(running, count) ==
    LET new == Filled(running, count) IN
    /\ pending' = [k \in DOMAIN running \cup new |->
                     IF k \in new THEN Task(Batches(Table)[k]) ELSE running[k]]
    /\ begun' = count + Cardinality(new)

AnswerOutline ==
    /\ stage = "outline" /\ \A i \in DOMAIN Table.weights : Fits(Table, <<i>>)
    /\ stage' = "batches" /\ attempt' = 0
    /\ Fill(Empty, 0)
    /\ UNCHANGED <<input, at, columns, served, searchVars, mapping>>

RetryBatch(k) ==
    /\ k \in Running /\ pending[k].attempt < MaxRetries
    /\ pending' = [pending EXCEPT ![k].attempt = @ + 1]
    /\ UNCHANGED <<input, at, stage, attempt, begun, columns, served, searchVars, mapping>>

\* The segment is explained, by exactly the columns asked for.
AnswerBatch(k) ==
    /\ k \in Running
    /\ \E explained \in Listed(Head(pending[k].todo)) :
        pending' = [pending EXCEPT ![k].got = @ \o explained, ![k].todo = Tail(@),
                                   ![k].attempt = 0,
                                   ![k].state = IF Len(pending[k].todo) = 1 THEN "ended" ELSE @]
    /\ UNCHANGED <<input, at, stage, attempt, begun, columns, served, searchVars, mapping>>

(* Mutant: the whole segment is asked for again.                           *)
SplitBatchWhole(k) ==
    /\ k \in Running /\ Len(Head(pending[k].todo)) > 1
    /\ pending' = [pending EXCEPT ![k].attempt = 0]
    /\ UNCHANGED <<input, at, stage, attempt, begun, columns, served, searchVars, mapping>>

\* The answer is cut, or leaves out, repeats or adds a column: each half is
\* asked for again.
SplitBatch(k) ==
    /\ k \in Running
    /\ LET segment == Head(pending[k].todo)
           middle == Len(segment) \div 2
       IN  /\ Len(segment) > 1
           /\ pending' = [pending EXCEPT
                ![k].todo = <<SubSeq(segment, 1, middle), SubSeq(segment, middle + 1, Len(segment))>>
                            \o Tail(@),
                ![k].attempt = 0]
    /\ UNCHANGED <<input, at, stage, attempt, begun, columns, served, searchVars, mapping>>

\* The request fails for good, is invalid, or a single column stays unexplained.
FailBatch(k) ==
    /\ k \in Running
    /\ pending' = [pending EXCEPT ![k].state = "failed"]
    /\ UNCHANGED <<input, at, stage, attempt, begun, columns, served, searchVars, mapping>>

Ended == DOMAIN pending \ Running

\* One turn of the loop: what ended is taken in the order of the batches, and
\* the free places are filled; the first failure ends the table.
CollectBatches ==
    /\ stage = "batches" /\ Ended # {} /\ \A k \in Ended : pending[k].state = "ended"
    /\ columns' = FoldLeft(LAMBDA all, k : all \o pending[k].got, columns,
                           SetToSortSeq(Ended, <))
    /\ Fill([k \in Running |-> pending[k]], begun)
    /\ UNCHANGED <<input, at, stage, attempt, served, searchVars, mapping>>

CollectFailure == stage = "batches" /\ (\E k \in Ended : pending[k].state = "failed") /\ Fail

\* validate_columns: the columns of the table, each once.
Exact(explained) == IsInjective(explained) /\ ToSet(explained) = DOMAIN Table.weights

\* The columns in source order, whatever the order of the answers.
Merged == Names(Table)

EndBatches ==
    /\ stage = "batches" /\ pending = Empty
    /\ IF Exact(columns)
       THEN Recall(Merged) /\ UNCHANGED <<input, at, attempt, begun, pending, served, cache,
                                           asking, trace>>
       ELSE Fail

----
(* Retrieval.                                                              *)

\* The queries of the table and its columns, in the order of the plan.
Targets == <<Table.queries[1]>> \o [i \in DOMAIN columns |-> Table.queries[columns[i] + 1]]

\* The next group of targets.
Group == SubSeq(Targets, Len(trace) + 1, Min({Len(trace) + GroupSize, Len(Targets)}))

Cached(q) == {k \in DOMAIN cache : cache[k][1] = q}

\* search_many: the distinct queries of the group, each by its first target.
BeginGroup ==
    /\ stage = "recall" /\ left = {} /\ asking = {} /\ found = Empty
    /\ Len(trace) < Len(Targets)
    /\ left' = {k \in DOMAIN Group : \A j \in 1..(k - 1) : Group[j] # Group[k]}
    /\ UNCHANGED <<input, at, stage, modelVars, served, cache, asking, found, trace, mapping>>

\* The target whose query a worker takes next.
Due == Min(left)

With(f, q, value) == [x \in DOMAIN f \cup {q} |-> IF x = q THEN value ELSE f[x]]

\* A worker takes the next query, and answers it from the session's cache.
SearchCached ==
    /\ left # {} /\ Cardinality(asking) < Concurrency /\ Cached(Group[Due]) # {}
    /\ LET k == CHOOSE x \in Cached(Group[Due]) : TRUE IN
        /\ found' = With(found, Group[Due], cache[k][2])
        /\ cache' = Append(RemoveAt(cache, k), cache[k])
    /\ left' = left \ {Due}
    /\ UNCHANGED <<input, at, stage, modelVars, served, asking, trace, mapping>>

SearchService ==
    /\ left # {} /\ Cardinality(asking) < Concurrency /\ Cached(Group[Due]) = {}
    /\ asking' = asking \cup {Group[Due]} /\ left' = left \ {Due}
    /\ UNCHANGED <<input, at, stage, modelVars, served, cache, found, trace, mapping>>

\* What the service may answer of a query: a confident node, candidates, none,
\* a node the catalogue does not know; or it refuses or fails.
Answers == {"hit", "low", "none", "foreign"}

(* Mutant: the revision of an answer is not compared with the run's.       *)
AcceptedUnchecked(answer) == answer \in Answers

\* search: the answer is used and remembered only if it is of the run's revision.
Accepted(answer) == answer \in Answers /\ served = Pinned

Judged(answer) ==
    [status |-> IF Accepted(answer) THEN answer
                ELSE IF answer \in Answers THEN "mismatch" ELSE "unavailable",
     revision |-> served]

(* Mutant: a failed search is remembered like an answer.                   *)
RememberAll(q, answer) ==
    LET all == Append(cache, <<q, Judged(answer)>>)
    IN  IF Len(all) > CacheSize THEN Tail(all) ELSE all

Remember(q, answer) ==
    LET all == Append(cache, <<q, Judged(answer)>>)
    IN  IF ~Accepted(answer) THEN cache ELSE IF Len(all) > CacheSize THEN Tail(all) ELSE all

AnswerSearch(q) ==
    /\ q \in asking
    /\ \E answer \in Answers \cup {"error"} :
        /\ found' = With(found, q, Judged(answer))
        /\ cache' = Remember(q, answer)
    /\ asking' = asking \ {q}
    /\ UNCHANGED <<input, at, stage, modelVars, served, left, trace, mapping>>

\* decide: what the answer says of a target.
Decided(answer) ==
    CASE answer.status = "hit" -> "matched"
      [] answer.status = "low" -> "review"
      [] answer.status = "none" -> "unmatched"
      [] answer.status \in {"foreign", "mismatch"} -> "mismatch"
      [] OTHER -> "unavailable"

\* The group is answered; after the last one the table is mapped.
EndGroup ==
    /\ stage = "recall" /\ left = {} /\ asking = {} /\ found # Empty
    /\ LET results == trace \o [k \in DOMAIN Group |-> found[Group[k]]]
           table == results[1]
           verdict == Decided(table)
       IN  IF Len(results) < Len(Targets)
           THEN /\ trace' = results /\ found' = Empty
                /\ UNCHANGED <<input, at, stage, modelVars, served, cache, left, asking, mapping>>
           ELSE /\ mapping' = [mapping EXCEPT ![at] =
                     [status |-> CASE verdict = "matched" -> "mapped"
                                   [] verdict = "unmatched" -> "unmatched"
                                   [] OTHER -> "review",
                      concept |-> IF verdict \in {"matched", "review"} THEN {table} ELSE {},
                      columns |-> columns,
                      fields |-> [k \in DOMAIN columns |->
                                    IF Decided(results[k + 1]) = "matched"
                                    THEN {results[k + 1]} ELSE {}],
                      steps |-> [s \in ToSet(Steps) |-> "completed"]]]
                /\ NextTable /\ UNCHANGED <<input, pending, served, cache, asking>>

----
(* The ontology service is synchronised to another revision.               *)
Synchronize ==
    /\ served = Pinned /\ stage \notin {"done", "stopped"}
    /\ served' \in Revisions \ {Pinned}
    /\ UNCHANGED <<input, at, stage, modelVars, searchVars, mapping>>

Finish ==
    /\ stage = "tables" /\ at > Len(input) /\ stage' = "done"
    /\ UNCHANGED <<input, at, modelVars, served, searchVars, mapping>>

\* The lease is lost or the service stops: every task is cancelled.
Cancel ==
    /\ stage \notin {"done", "stopped"} /\ stage' = "stopped"
    /\ pending' = Empty /\ asking' = {} /\ left' = {}
    /\ UNCHANGED <<input, at, attempt, begun, columns, served, cache, found, trace, mapping>>

Work ==
    \/ Begin \/ Skip \/ RetryTable \/ FailTable \/ AnswerWhole \/ CutWhole \/ AnswerOutline
    \/ \E k \in DOMAIN pending :
        RetryBatch(k) \/ AnswerBatch(k) \/ SplitBatch(k) \/ FailBatch(k)
    \/ CollectBatches \/ CollectFailure \/ EndBatches
    \/ BeginGroup \/ SearchCached \/ SearchService \/ (\E q \in asking : AnswerSearch(q))
    \/ EndGroup \/ Finish

Next == Work \/ Synchronize \/ Cancel

\* Every request ends by its timeout, and the event loop runs what is ready.
Spec == Init /\ [][Next]_vars /\ WF_vars(Work)

----
(* Properties.                                                             *)

\* A table that was mapped has every source column explained once and in the
\* source's order, however its batches were split and answered ("Result order
\* is always source order", interpret); one that failed has no concept, and
\* its steps tell where it stopped.
ColumnsAreComplete ==
    \A t \in 1..(at - 1) :
        LET m == mapping[t]
            ended(step) == m.steps[Steps[step]]
        IN
        /\ m.status \in {"mapped", "review"} =>
            ToSet(m.columns) = DOMAIN input[t].weights /\ Len(m.columns) = Len(m.fields)
        /\ m.status = "failed" => m.concept = {} /\ m.fields = <<>>
        /\ \A s \in DOMAIN Steps :
            /\ ended(s) \in {"completed", "failed", "skipped"}
            /\ s > 1 => (ended(s) = "completed" => ended(s - 1) = "completed")

\* No more batches or searches are in flight than configured, all of them for
\* the table being analysed, and none once the analysis ended ("a failed batch
\* must cancel siblings before the next table can start").
NothingEscapes ==
    /\ Cardinality(DOMAIN pending) <= Concurrency /\ Cardinality(asking) <= Concurrency
    /\ \A k \in DOMAIN pending : pending[k].table = at /\ stage = "batches"
    /\ stage \in {"done", "stopped"} => pending = Empty /\ asking = {}

\* Whatever the service is synchronised to meanwhile, every concept the result
\* names was answered for the revision it is pinned to, and what the cache
\* gives again was a valid answer (decide, search).
OneRevision ==
    /\ \A t \in DOMAIN mapping : \A a \in mapping[t].concept \cup UNION ToSet(mapping[t].fields) :
        a.revision = Pinned /\ a.status \in {"hit", "low"}
    /\ \A k \in DOMAIN cache : cache[k][2].revision = Pinned /\ cache[k][2].status \in Answers

\* The analysis ends although requests fail, are cut, split and retried.
AnalysisEnds == <>(stage \in {"done", "stopped"})
====
