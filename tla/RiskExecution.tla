---- MODULE RiskExecution ----
(* One read-only run of a rule over a published graph version: what makes  *)
(* a rule pack admissible (risk/sources.py, risk/compiler.py), the paged   *)
(* read of the instances in its scope and the evaluation of its predicate  *)
(* (risk/execution.py), and the field sample shown before.  The pages are  *)
(* separate queries over a published version, which nothing changes or     *)
(* removes (alignment/graph.py).                                           *)
(*                                                                         *)
(* A row is [id, concept, account, at, status, type, region, amount]; a    *)
(* field it lacks is None.  at is an instant in hours, amount is in minor  *)
(* units and Unreadable when it is not an amount in yuan and fen.          *)
EXTENDS Integers, FiniteSets, FiniteSetsExt

CONSTANTS
    Rules,        \* rule packs: [predicate, params (a function), quoted]
    Mapped,       \* canonical fields the request maps
    Versions,     \* published versions: sets of rows
    Scope,        \* bo_scope
    From, To,     \* the requested window, From < To
    PageSize,     \* PAGE_SIZE
    MaxRows,      \* MAX_SCOPE_ROWS
    SampleRows,   \* FIELD_SAMPLE_ROWS
    Unreadable,
    None

\* A version is finite and its nodes are told apart, and ordered, by their ids.
ExecutionAssumption ==
    /\ From \in Int /\ To \in Int /\ From < To
    /\ {PageSize, MaxRows, SampleRows} \subseteq Nat \ {0}
    /\ \A v \in Versions :
          IsFiniteSet(v) /\ \A x, y \in v : x.id \in Int /\ (x.id = y.id => x = y)

VARIABLES
    rule, mode,   \* the rule; "execute" or "sample"
    published,    \* the rows of the version
    pc,           \* "check", "count", "read", "evaluate", "done", "refused"
    total,        \* what the count query answered
    nodes,        \* rows read so far
    after,        \* the id the last page ended with
    result        \* hits, or what the sample saw

vars == <<rule, mode, published, pc, total, nodes, after, result>>

----
(* Admissible rules.                                                       *)

\* PARAMETERS: what each predicate requires and what it may also have.
Required(predicate) ==
    CASE predicate = "cash_aggregate_threshold" ->
            {"threshold", "n_min", "max_single_le_threshold", "timezone",
             "subject_dimension", "cash_scope", "status_filter"}
      [] predicate = "counterparty_region" -> {"regions", "status_filter"}
      [] predicate = "bo_scoped_aggregate" -> {"n_min", "status_filter", "group_by"}
      [] OTHER -> {}

Optional(predicate) ==
    CASE predicate = "counterparty_region" -> {"transaction_type"}
      [] predicate = "bo_scoped_aggregate" -> {"txn_type", "amount_min", "total_min"}
      [] OTHER -> {}

Predicates == {"cash_aggregate_threshold", "counterparty_region", "bo_scoped_aggregate"}

Given(r) == DOMAIN r.params \ {"bo_scope", "start", "end"}

\* binding_issues: the predicate is known, its parameters are given and no
\* other, and each has a quotation from the WHY text.
BindingIssues(r) ==
    (IF r.predicate \in Predicates THEN {} ELSE {<<"unsupported", "predicate">>}) \cup
    {<<"missing", p>> : p \in Required(r.predicate) \ DOMAIN r.params} \cup
    {<<"unsupported", p>> : p \in (IF r.predicate \in Predicates THEN Given(r) ELSE {})
                                  \ (Required(r.predicate) \cup Optional(r.predicate))} \cup
    {<<"unquoted", p>> : p \in ({"predicate"} \cup Given(r)) \ r.quoted}

\* The values RuleCompiler.validate accepts for a parameter.
Accepted(predicate, p, v) ==
    CASE p = "n_min" -> v \in Int /\ v >= (IF predicate = "cash_aggregate_threshold" THEN 2 ELSE 1)
      [] p \in {"threshold", "amount_min", "total_min"} -> v \in Nat
      [] p = "timezone" -> v = "+08:00"
      [] p = "subject_dimension" -> v = "Account"
      [] p = "group_by" -> v = "account"
      [] p = "max_single_le_threshold" -> v = TRUE
      [] p = "regions" -> v # {}
      [] OTHER -> v # None

\* validate: the shape of the pack, then every parameter.
Compiles(r) ==
    /\ r.predicate \in Predicates
    /\ Required(r.predicate) \subseteq DOMAIN r.params
    /\ Given(r) \subseteq Required(r.predicate) \cup Optional(r.predicate)
    /\ r.predicate = "bo_scoped_aggregate" => "bo_scope" \in DOMAIN r.params
    /\ \A p \in Given(r) : Accepted(r.predicate, p, r.params[p])

\* required_fields: what a row must have for this rule.
Fields(r) ==
    {"account", "at", "amount", "status"} \cup
    (IF r.predicate = "cash_aggregate_threshold"
        \/ {"transaction_type", "txn_type"} \cap DOMAIN r.params # {} THEN {"type"} ELSE {}) \cup
    (IF r.predicate = "counterparty_region" THEN {"region"} ELSE {})

----
(* The predicate.                                                          *)

Has(row, field) == row[field] # None

InWindow(row) == From <= row.at /\ row.at < To

StatusFits(r, row) == row.status = r.params["status_filter"]

\* The filters on fields other than time, status and amount.
Fits(r, row) ==
    CASE r.predicate = "cash_aggregate_threshold" -> row.type = r.params["cash_scope"]
      [] r.predicate = "counterparty_region" ->
            /\ row.region \in r.params["regions"]
            /\ "transaction_type" \in DOMAIN r.params => row.type = r.params["transaction_type"]
      [] OTHER -> "txn_type" \in DOMAIN r.params => row.type = r.params["txn_type"]

(* Mutant: a row that lacks a field is taken for one that does not match.  *)
FaultyNever(r, row) == FALSE

\* A row that makes the whole run raise: a field is missing where the
\* evaluation reads it, in the order it reads them.
Faulty(r, row) ==
    \/ ~Has(row, "at")
    \/ InWindow(row) /\
        \/ ~Has(row, "status")
        \/ StatusFits(r, row) /\
            \/ \E f \in Fields(r) : ~Has(row, f)
            \/ Fits(r, row) /\ row.amount = Unreadable

AmountFits(r, row) == "amount_min" \in DOMAIN r.params => row.amount >= r.params["amount_min"]

Matched(r, rs) ==
    {row \in rs : /\ Has(row, "at") /\ InWindow(row)
                  /\ Has(row, "status") /\ StatusFits(r, row)
                  /\ (\A f \in Fields(r) : Has(row, f)) /\ Fits(r, row)
                  /\ row.amount # Unreadable /\ AmountFits(r, row)}

\* Cash rules group by account and natural day at +08:00, the others by account.
DayOf(r, row) == IF r.predicate = "cash_aggregate_threshold" THEN (row.at + 8) \div 24 ELSE 0

Total(rs) == MapThenSumSet(LAMBDA row : row.amount, rs)

Exceeds(r, rs) ==
    /\ Cardinality(rs) >= r.params["n_min"]
    /\ r.predicate = "cash_aggregate_threshold" =>
        /\ Total(rs) > r.params["threshold"]
        /\ \A row \in rs : row.amount <= r.params["threshold"]
    /\ "total_min" \in DOMAIN r.params => Total(rs) >= r.params["total_min"]

\* hits: sets of the rows that make one.
Hits(r, rs) ==
    LET matched == Matched(r, rs)
        group(row) == {x \in matched : x.account = row.account /\ DayOf(r, x) = DayOf(r, row)}
    IN  IF r.predicate = "counterparty_region" THEN {{row} : row \in matched}
        ELSE {g \in {group(row) : row \in matched} : Exceeds(r, g)}

----
(* The run.                                                                *)

InScope(rs) == {row \in rs : row.concept \in Scope}

Goal == IF mode = "sample" THEN Min({total, SampleRows}) ELSE total

Init ==
    /\ rule \in Rules /\ mode \in {"execute", "sample"}
    /\ published \in Versions
    /\ pc = "check" /\ total = 0 /\ nodes = {} /\ after = 0 /\ result = None

Go(next) == pc' = next /\ UNCHANGED <<rule, mode, published>>

\* The gate (_validate), window, validate and _mapping; a sample needs the
\* scope only.
Check ==
    /\ pc = "check"
    /\ Go(IF mode = "sample" \/ (BindingIssues(rule) = {} /\ Compiles(rule)
                                 /\ Fields(rule) \subseteq Mapped)
          THEN "count" ELSE "refused")
    /\ UNCHANGED <<total, nodes, after, result>>

\* The version is found and its scope counted; too much is refused unread.
Count ==
    /\ pc = "count"
    /\ LET n == Cardinality(InScope(published)) IN
        IF n > MaxRows /\ mode = "execute" THEN Go("refused") /\ UNCHANGED total
        ELSE total' = n /\ Go(IF n = 0 THEN "evaluate" ELSE "read")
    /\ UNCHANGED <<nodes, after, result>>

(* Mutant: a page may be longer than what is missing.                      *)
PageFull ==
    LET rest == {row \in InScope(published) : row.id > after}
        page == {row \in rest : Cardinality({x \in rest : x.id < row.id}) < PageSize}
    IN
    /\ pc = "read"
    /\ nodes' = nodes \cup page /\ after' = Max({row.id : row \in page})
    /\ Go(IF Cardinality(nodes') < Goal THEN "read" ELSE "evaluate")
    /\ UNCHANGED <<total, result>>

\* One page by ascending id, no longer than what is missing; an empty one
\* refuses the run.
Page ==
    LET rest == {row \in InScope(published) : row.id > after}
        limit == Min({PageSize, Goal - Cardinality(nodes)})
        page == {row \in rest : Cardinality({x \in rest : x.id < row.id}) < limit}
    IN
    /\ pc = "read"
    /\ IF page = {} THEN Go("refused") /\ UNCHANGED <<nodes, after>>
       ELSE /\ nodes' = nodes \cup page /\ after' = Max({row.id : row \in page})
            /\ Go(IF Cardinality(nodes') < Goal THEN "read" ELSE "evaluate")
    /\ UNCHANGED <<total, result>>

\* A query fails, or a page holds what is not an instance of the scope.
Refuse ==
    /\ pc \in {"count", "read"} /\ Go("refused")
    /\ UNCHANGED <<total, nodes, after, result>>

\* A sample lists the fields it saw; an execution refuses a faulty row, or
\* answers its hits.
Evaluate ==
    /\ pc = "evaluate"
    /\ IF mode = "sample"
       THEN /\ result' = [fields |-> {f \in Mapped : \E row \in nodes : Has(row, f)},
                          truncated |-> total > Cardinality(nodes)]
            /\ Go("done")
       ELSE IF \E row \in nodes : Faulty(rule, row) THEN Go("refused") /\ UNCHANGED result
       ELSE result' = Hits(rule, nodes) /\ Go("done")
    /\ UNCHANGED <<total, nodes, after>>

Next == Check \/ Count \/ Page \/ Refuse \/ Evaluate

Spec == Init /\ [][Next]_vars

----
(* Properties.                                                             *)

\* The pages add up: an execution has read the whole scope as it was counted,
\* or it is refused ("never partial results", _read); a sample has read as many
\* rows as it may and says when the scope has more.
NeverPartial ==
    pc = "done" =>
        /\ mode = "execute" => nodes = InScope(published) /\ Cardinality(nodes) = total
        /\ mode = "sample" => (result.truncated <=> total > Cardinality(nodes))
                              /\ Cardinality(nodes) = Min({total, SampleRows})

\* No instance is left out silently: each is part of what matched, or one of
\* the fields it does have rules it out ("incomplete instances are not
\* skipped", _value).
SkippedForCause ==
    pc = "done" /\ mode = "execute" =>
        \A row \in nodes :
            \/ row \in Matched(rule, nodes)
            \/ Has(row, "at") /\ ~InWindow(row)
            \/ Has(row, "status") /\ ~StatusFits(rule, row)
            \/ "type" \in Fields(rule) /\ Has(row, "type") /\ ~Fits(rule, row)
            \/ "region" \in Fields(rule) /\ Has(row, "region") /\ ~Fits(rule, row)
            \/ row.amount \notin {None, Unreadable} /\ ~AmountFits(rule, row)
====
