---- MODULE AlignmentAnalysisProofs ----
(* What is said of a table is complete and of one revision, and no request *)
(* outlives its table: for every selection, every limit and every order in *)
(* which requests are answered, cut, retried and fail.                     *)
(*                                                                         *)
(* A table's steps follow from the stage of the analysis (Tabled).  A      *)
(* batch in flight names its table and holds one of the places (InFlight). *)
(* Every target of a group has its answer when the group is over, although *)
(* each query is asked once (Covered), and an answer that counts is of the *)
(* pinned revision wherever it is kept (Known).                            *)
EXTENDS MCPublishing, SequencesExt, FiniteSetsExt, SequenceTheorems, FiniteSetTheorems, WellFoundedInduction, TLAPS

Verdicts == N!Answers \cup {"mismatch", "unavailable"}

\* What a search may return; what is remembered; what a concept may come from.
Result == {a \in [status : Verdicts, revision : Revisions] :
              a.status \in N!Answers => a.revision = Pinned}
Valid == {a \in Result : a.status \in N!Answers}
Sure == {a \in Result : a.status \in {"hit", "low"}}

StepStates == {"pending", "running", "completed", "failed", "skipped"}
Mapped == [status : {"unmatched", "failed", "mapped", "review"}, concept : SUBSET Sure,
           columns : Seq(Nat), fields : Seq(SUBSET Sure),
           steps : [ToSet(N!Steps) -> StepStates]]

Asked == {"whole", "outline", "batches"}

\* The entry of the table being analysed.
Explaining == [N!Base EXCEPT !.steps["meaning"] = "running"]
Recalling == [N!Base EXCEPT !.steps["meaning"] = "completed", !.steps["recall"] = "running"]

\* ColumnsAreComplete, of one table and what is said of it.
Settled(t, m) ==   \* t is a table
    LET ended(step) == m.steps[N!Steps[step]] IN
    /\ m.status \in {"mapped", "review"} =>
        ToSet(m.columns) = DOMAIN t.weights /\ Len(m.columns) = Len(m.fields)
    /\ m.status = "failed" => m.concept = {} /\ m.fields = <<>>
    /\ \A s \in DOMAIN N!Steps :
        /\ ended(s) \in {"completed", "failed", "skipped"}
        /\ s > 1 => (ended(s) = "completed" => ended(s - 1) = "completed")

Tabled ==
    /\ input \in Inputs /\ at \in 1 .. Len(input) + 1
    /\ stage \in {"tables", "recall", "done", "stopped"} \cup Asked
    /\ stage \in Asked \cup {"recall"} => at <= Len(input)
    /\ mapping \in [DOMAIN input -> Mapped]
    /\ \A t \in DOMAIN input :
        /\ t < at => Settled(input[t], mapping[t])
        /\ t > at => mapping[t] = N!Base
    /\ stage = "tables" /\ at <= Len(input) => mapping[at] = N!Base
    /\ stage \in Asked => mapping[at] = Explaining
    /\ stage = "recall" =>
        /\ mapping[at] = Recalling
        /\ columns \in Seq(DOMAIN N!Table.weights) /\ ToSet(columns) = DOMAIN N!Table.weights

InFlight ==
    /\ IsFiniteSet(DOMAIN pending) /\ Cardinality(DOMAIN pending) <= Concurrency
    /\ \A k \in DOMAIN pending : "table" \in DOMAIN pending[k] /\ pending[k].table = at
    /\ stage # "batches" => pending = N!Empty
    /\ begun \in Nat
    /\ IsFiniteSet(asking) /\ Cardinality(asking) <= Concurrency
    /\ stage # "recall" => asking = {} /\ left = {}

Known ==
    /\ served \in Revisions
    /\ trace \in Seq(Result)
    /\ \A q \in DOMAIN found : found[q] \in Result
    /\ cache \in Seq(ToSet(cache)) /\ \A e \in ToSet(cache) : e[2] \in Valid

Covered ==
    stage = "recall" =>
        \/ left = {} /\ asking = {} /\ found = N!Empty
        \/ \A k \in DOMAIN N!Group :
            N!Group[k] \in DOMAIN found \cup asking \cup {N!Group[j] : j \in left}

AnalysisInv == Tabled /\ InFlight /\ Known /\ Covered

----
(* Sequences and numbers.                                                  *)

LEMMA MadeSeq ==
    ASSUME NEW S, NEW n \in Nat, NEW g \in [1 .. n -> S] PROVE g \in Seq(S) /\ Len(g) = n
OBVIOUS

LEMMA NextNumbers ==
    ASSUME NEW a \in Nat, NEW n \in Nat
    PROVE  IsFiniteSet(a + 1 .. a + n) /\ Cardinality(a + 1 .. a + n) = n
<1> DEFINE low == a + 1
           high == a + n
<1>1. low \in Int /\ high \in Int /\ (low > high => n = 0) /\ high - low + 1 = n
  OBVIOUS
<1> HIDE DEF low, high
<1>2. IsFiniteSet(low .. high) /\ Cardinality(low .. high) = IF low > high THEN 0 ELSE high - low + 1
  BY <1>1, FS_Interval
<1>3. IsFiniteSet(low .. high) /\ Cardinality(low .. high) = n
  BY <1>1, <1>2
<1> QED
  BY <1>3 DEF low, high

LEMMA OwnRange == ASSUME NEW S, NEW s \in Seq(S) PROVE s \in Seq(ToSet(s)) /\ ToSet(s) \subseteq S
<1>1. s \in [1 .. Len(s) -> S] /\ Len(s) \in Nat
  BY LenProperties
<1>2. s \in [1 .. Len(s) -> ToSet(s)]
  BY <1>1 DEF ToSet
<1> QED
  BY <1>1, <1>2 DEF ToSet

LEMMA RangeGrows ==
    ASSUME NEW s, s \in Seq(ToSet(s)), NEW e
    PROVE  Append(s, e) \in Seq(ToSet(Append(s, e))) /\ ToSet(Append(s, e)) \subseteq ToSet(s) \cup {e}
<1>1. Append(s, e) \in Seq(ToSet(s) \cup {e})
  <2>1. s \in Seq(ToSet(s) \cup {e})
    BY SeqMonotonic
  <2> QED
    BY <2>1
<1> QED
  BY <1>1, OwnRange

LEMMA RangeShrinks ==
    ASSUME NEW s, s \in Seq(ToSet(s)), NEW i \in DOMAIN s
    PROVE  RemoveAt(s, i) \in Seq(ToSet(RemoveAt(s, i))) /\ ToSet(RemoveAt(s, i)) \subseteq ToSet(s)
<1>1. DOMAIN s = 1 .. Len(s) /\ Len(s) \in Nat /\ \A j \in 1 .. Len(s) : s[j] \in ToSet(s)
  BY LenProperties, ElementOfSeq
<1>2. i - 1 \in Int /\ i + 1 \in Int /\ i \in Nat /\ i <= Len(s) /\ i >= 1
  BY <1>1
<1>3. SubSeq(s, 1, i - 1) \in Seq(ToSet(s))
  BY <1>1, <1>2, SubSeqProperties
<1>4. SubSeq(s, i + 1, Len(s)) \in Seq(ToSet(s))
  BY <1>1, <1>2, SubSeqProperties
<1>5. RemoveAt(s, i) \in Seq(ToSet(s))
  BY <1>3, <1>4, ConcatProperties DEF RemoveAt
<1> QED
  BY <1>5, OwnRange

LEMMA TailRange ==
    ASSUME NEW s, s \in Seq(ToSet(s)), s # <<>>
    PROVE  Tail(s) \in Seq(ToSet(Tail(s))) /\ ToSet(Tail(s)) \subseteq ToSet(s)
BY HeadTailProperties, OwnRange

(* A set of numbers has a least one.                                       *)
Less == {p \in Nat \X Nat : p[1] < p[2]}

LEMMA LessWF == IsWellFoundedOn(Less, Nat)
BY NatLessThanWellFounded DEF OpToRel, Less

LEMMA LeastNat ==
    ASSUME NEW numbers, numbers \subseteq Nat, numbers # {}
    PROVE  \E x \in numbers : \A y \in numbers : x <= y
<1>1. PICK x \in numbers : \A y \in numbers : ~(<<y, x>> \in Less)
  BY LessWF, WFMin
<1>2. ASSUME NEW a \in Nat, NEW b \in Nat, a < b PROVE <<a, b>> \in Less
  <2>1. <<a, b>>[1] = a /\ <<a, b>>[2] = b /\ <<a, b>> \in Nat \X Nat
    OBVIOUS
  <2> QED
    BY <1>2, <2>1 DEF Less
<1>3. ASSUME NEW y \in numbers PROVE x <= y
  <2>1. ~(y < x)
    BY <1>1, <1>2, <1>3
  <2> QED
    BY <2>1
<1> QED
  BY <1>3

LEMMA MinOfTwo == ASSUME NEW a \in Nat, NEW b \in Nat PROVE Min({a, b}) \in {a, b}
<1>1. \E x \in {a, b} : \A y \in {a, b} : x <= y
  OBVIOUS
<1> QED
  BY <1>1 DEF Min

LEMMA StepNames == ToSet(N!Steps) = {"meaning", "recall", "selection", "validation"} /\ DOMAIN N!Steps = 1 .. 4
BY DEF ToSet, N!Steps

----
(* The analysis takes the library by a name of its own: the operators are    *)
(* the same.                                                               *)
LEMMA SameNames ==
    /\ \A S : N!Cardinality(S) = Cardinality(S)
    /\ \A S : N!Min(S) = Min(S)
    /\ \A s : N!ToSet(s) = ToSet(s)
    /\ \A s : N!Reverse(s) = Reverse(s)
    /\ \A s, k : N!RemoveAt(s, k) = RemoveAt(s, k)
<1>1. \A S : N!Cardinality(S) = Cardinality(S)
  BY DEF N!Cardinality, Cardinality, N!IsFiniteSet, IsFiniteSet
<1>2. \A S : N!Min(S) = Min(S)
  BY DEF N!Min, Min
<1>3. /\ \A s : N!ToSet(s) = ToSet(s)
      /\ \A s : N!Reverse(s) = Reverse(s)
      /\ \A s, k : N!RemoveAt(s, k) = RemoveAt(s, k)
  BY DEF N!ToSet, ToSet, N!Reverse, Reverse, N!RemoveAt, RemoveAt
<1> QED
  BY <1>1, <1>2, <1>3

(* A selection and its tables.                                             *)

LEMMA TableFacts ==
    ASSUME input \in Inputs, at \in DOMAIN input
    PROVE  /\ N!Table.weights \in Seq(Nat) /\ Len(N!Table.weights) \in Nat \ {0}
           /\ DOMAIN N!Table.weights = 1 .. Len(N!Table.weights)
           /\ N!Table.rows \in BOOLEAN
BY InputsAssumption, LenProperties, EmptySeq DEF InputsAssumption, N!AnalysisAssumption, N!Table

LEMMA InputFacts ==
    ASSUME input \in Inputs
    PROVE  Len(input) \in Nat /\ DOMAIN input = 1 .. Len(input)
BY InputsAssumption, LenProperties DEF InputsAssumption, N!AnalysisAssumption

LEMMA AtTable ==
    ASSUME Tabled, at <= Len(input) \/ stage \in Asked \cup {"recall"}
    PROVE  at \in DOMAIN input
<1>1. at \in 1 .. Len(input) + 1 /\ at <= Len(input) /\ input \in Inputs
  BY DEF Tabled
<1>2. Len(input) \in Nat /\ DOMAIN input = 1 .. Len(input)
  BY <1>1, InputFacts
<1> QED
  BY <1>1, <1>2

(* However the model lists the columns, all of them are listed.            *)
LEMMA ListedFacts ==
    ASSUME input \in Inputs, at \in DOMAIN input, NEW explained \in N!Listed(N!Names(N!Table))
    PROVE  explained \in Seq(DOMAIN N!Table.weights) /\ ToSet(explained) = DOMAIN N!Table.weights
<1> DEFINE n == Len(N!Table.weights)
<1>1. n \in Nat /\ DOMAIN N!Table.weights = 1 .. n
  BY TableFacts
<1>2. N!Names(N!Table) = [i \in 1 .. n |-> i]
  BY DEF N!Names
<1> HIDE DEF n
<1>3. N!Names(N!Table) \in Seq(1 .. n) /\ Len(N!Names(N!Table)) = n
  BY <1>1, <1>2
<1>4. Reverse(N!Names(N!Table)) = [i \in 1 .. n |-> n - i + 1]
  BY <1>1, <1>2, <1>3 DEF Reverse
<1>5. CASE explained = N!Names(N!Table)
  BY <1>1, <1>2, <1>3, <1>5 DEF ToSet
<1>6. CASE explained = Reverse(N!Names(N!Table))
  <2>1. Reverse(N!Names(N!Table)) \in Seq(1 .. n)
    BY <1>1, <1>4
  <2>2. \A i \in 1 .. n : n - i + 1 \in 1 .. n /\ i = n - (n - i + 1) + 1
    BY <1>1
  <2>3. ToSet(Reverse(N!Names(N!Table))) = 1 .. n
    BY <1>4, <2>2 DEF ToSet
  <2> QED
    BY <1>1, <1>6, <2>1, <2>3
<1> QED
  BY SameNames, <1>5, <1>6 DEF N!Listed

LEMMA BaseFacts ==
    /\ N!Base \in Mapped /\ Explaining \in Mapped /\ Recalling \in Mapped
    /\ Explaining.steps = [s \in ToSet(N!Steps) |-> IF s = "meaning" THEN "running" ELSE "pending"]
    /\ Recalling.steps = [s \in ToSet(N!Steps) |->
          IF s = "meaning" THEN "completed" ELSE IF s = "recall" THEN "running" ELSE "pending"]
    /\ \A m \in {N!Base, Explaining, Recalling} :
          m.status = "unmatched" /\ m.concept = {} /\ m.fields = <<>> /\ DOMAIN m.steps = ToSet(N!Steps)
<1> DEFINE pending0 == [s \in ToSet(N!Steps) |-> "pending"]
           first == [s \in ToSet(N!Steps) |-> IF s = "meaning" THEN "running" ELSE "pending"]
           second == [s \in ToSet(N!Steps) |->
             IF s = "meaning" THEN "completed" ELSE IF s = "recall" THEN "running" ELSE "pending"]
           Said(steps) == [status |-> "unmatched", concept |-> {}, columns |-> <<>>, fields |-> <<>>,
                           steps |-> steps]
<1>1. N!Base = Said(pending0)
  BY SameNames DEF N!Base
<1>2. [pending0 EXCEPT !["meaning"] = "running"] = first
  BY StepNames
<1>3. [[pending0 EXCEPT !["meaning"] = "completed"] EXCEPT !["recall"] = "running"] = second
  BY StepNames
<1>4. /\ pending0 \in [ToSet(N!Steps) -> StepStates] /\ first \in [ToSet(N!Steps) -> StepStates]
      /\ second \in [ToSet(N!Steps) -> StepStates]
  BY DEF StepStates
<1>5. pending0["meaning"] = "pending" /\ DOMAIN pending0 = ToSet(N!Steps)
  BY StepNames
<1> HIDE DEF pending0, first, second
<1>6. Explaining = Said(first)
  <2>1. Explaining = [N!Base EXCEPT !.steps = [N!Base.steps EXCEPT !["meaning"] = "running"]]
    BY DEF Explaining
  <2>2. Explaining = [N!Base EXCEPT !.steps = first]
    BY <1>1, <1>2, <2>1
  <2> QED
    BY <1>1, <2>2
<1>7. Recalling = Said(second)
  <2>1. Recalling = [N!Base EXCEPT !.steps = [[N!Base.steps EXCEPT !["meaning"] = "completed"] EXCEPT !["recall"] = "running"]]
    BY <1>1 DEF Recalling
  <2>2. Recalling = [N!Base EXCEPT !.steps = second]
    BY <1>1, <1>3, <2>1
  <2> QED
    BY <1>1, <2>2
<1>8. ASSUME NEW steps \in [ToSet(N!Steps) -> StepStates] PROVE Said(steps) \in Mapped
  <2>1. <<>> \in Seq(Nat) /\ <<>> \in Seq(SUBSET Sure) /\ {} \in SUBSET Sure
    OBVIOUS
  <2> QED
    BY <2>1 DEF Mapped
<1>9. N!Base \in Mapped /\ Explaining \in Mapped /\ Recalling \in Mapped
  BY <1>1, <1>4, <1>6, <1>7, <1>8
<1>10. ASSUME NEW m \in {N!Base, Explaining, Recalling}
       PROVE  m.status = "unmatched" /\ m.concept = {} /\ m.fields = <<>> /\ DOMAIN m.steps = ToSet(N!Steps)
  BY <1>1, <1>4, <1>6, <1>7
<1> QED
  BY <1>6, <1>7, <1>9, <1>10 DEF first, second

LEMMA RecallingFollows ==
    [[Explaining EXCEPT !.steps["meaning"] = "completed"] EXCEPT !.steps["recall"] = "running"] = Recalling
<1> DEFINE second == [[Explaining.steps EXCEPT !["meaning"] = "completed"] EXCEPT !["recall"] = "running"]
<1>1. second = Recalling.steps
  BY BaseFacts, StepNames
<1>2. DOMAIN Explaining = {"status", "concept", "columns", "fields", "steps"}
  BY DEF Explaining, N!Base
<1>3. [[Explaining EXCEPT !.steps["meaning"] = "completed"] EXCEPT !.steps["recall"] = "running"]
        = [Explaining EXCEPT !.steps = second]
  BY <1>2
<1>4. DOMAIN Recalling = {"status", "concept", "columns", "fields", "steps"}
  BY DEF Recalling, N!Base
<1>5. /\ Recalling.status = Explaining.status /\ Recalling.concept = Explaining.concept
      /\ Recalling.columns = Explaining.columns /\ Recalling.fields = Explaining.fields
  BY DEF Recalling, Explaining, N!Base
<1> HIDE DEF second
<1>6. [Explaining EXCEPT !.steps = second] = Recalling
  <2>1. Recalling = [x \in DOMAIN Recalling |-> Recalling[x]]
    BY DEF Recalling, N!Base
  <2>2. [Explaining EXCEPT !.steps = second] = [x \in DOMAIN Explaining |-> IF x = "steps" THEN second ELSE Explaining[x]]
    BY <1>2
  <2> QED
    BY <1>1, <1>2, <1>4, <1>5, <2>1, <2>2
<1> QED
  BY <1>3, <1>6

(* A table that fails or is skipped is settled.                            *)
LEMMA StoppedFacts ==
    ASSUME NEW m \in {N!Base, Explaining}, NEW failed \in BOOLEAN
    PROVE  /\ N!Stopped(m, failed) \in Mapped
           /\ N!Stopped(m, failed).status \in {"failed", "unmatched"}
           /\ N!Stopped(m, failed).concept = {} /\ N!Stopped(m, failed).fields = <<>>
           /\ \A s \in ToSet(N!Steps) : N!Stopped(m, failed).steps[s] \in {"failed", "skipped"}
<1>1. /\ m \in Mapped /\ m.status = "unmatched" /\ m.concept = {} /\ m.fields = <<>>
      /\ DOMAIN m.steps = ToSet(N!Steps)
  BY BaseFacts
<1>2. \A s \in ToSet(N!Steps) : m.steps[s] \in {"running", "pending"}
  BY BaseFacts DEF N!Base
<1> DEFINE outcome == [s \in DOMAIN m.steps |->
             CASE m.steps[s] = "running" -> IF failed THEN "failed" ELSE "skipped"
               [] m.steps[s] = "pending" -> "skipped"
               [] OTHER -> m.steps[s]]
<1>3. \A s \in ToSet(N!Steps) : outcome[s] \in {"failed", "skipped"}
  BY <1>1, <1>2
<1>4. outcome \in [ToSet(N!Steps) -> StepStates]
  BY <1>1, <1>3 DEF StepStates
<1>5. N!Stopped(m, failed) = [m EXCEPT !.status = IF failed THEN "failed" ELSE @, !.steps = outcome]
  BY DEF N!Stopped
<1> HIDE DEF outcome
<1> QED
  BY <1>1, <1>3, <1>4, <1>5 DEF Mapped

LEMMA StoppedIsSettled ==
    ASSUME NEW m \in {N!Base, Explaining}, NEW failed \in BOOLEAN, NEW t
    PROVE  N!Stopped(m, failed) \in Mapped /\ Settled(t, N!Stopped(m, failed))
<1> DEFINE s == N!Stopped(m, failed)
<1>1. /\ s \in Mapped /\ s.status \in {"failed", "unmatched"} /\ s.concept = {} /\ s.fields = <<>>
      /\ \A x \in ToSet(N!Steps) : s.steps[x] \in {"failed", "skipped"}
  BY StoppedFacts
<1>2. \A i \in DOMAIN N!Steps : N!Steps[i] \in ToSet(N!Steps)
  BY DEF ToSet
<1> HIDE DEF s
<1>3. \A i \in DOMAIN N!Steps : s.steps[N!Steps[i]] \in {"failed", "skipped"}
  BY <1>1, <1>2
<1>4. ASSUME NEW i \in DOMAIN N!Steps
      PROVE  /\ s.steps[N!Steps[i]] \in {"completed", "failed", "skipped"}
             /\ s.steps[N!Steps[i]] # "completed"
  BY <1>3
<1>5. Settled(t, s)
  BY <1>1, <1>4 DEF Settled
<1> QED
  BY <1>1, <1>5 DEF s

LEMMA AnalysisInit == N!Init => AnalysisInv
<1> SUFFICES ASSUME N!Init PROVE AnalysisInv
  OBVIOUS
<1> USE DEF N!Init
<1>1. input \in Inputs /\ Len(input) \in Nat /\ DOMAIN input = 1 .. Len(input)
  BY InputFacts
<1>2. Tabled
  BY <1>1, BaseFacts DEF Tabled, Asked
<1>3. InFlight
  <2>1. DOMAIN N!Empty = {}
    BY DEF N!Empty
  <2> QED
    BY <2>1, FS_EmptySet, InputsAssumption DEF InputsAssumption, InFlight, N!AnalysisAssumption
<1>4. Known
  BY InputsAssumption DEF InputsAssumption, Known, N!AnalysisAssumption, ToSet, N!Empty
<1> QED
  BY <1>2, <1>3, <1>4 DEF AnalysisInv, Covered

----
(* What the steps of a stage leave as it is.                               *)

\* A step that concerns one table only by its requests.
LEMMA TabledStays ==
    ASSUME Tabled, UNCHANGED <<input, at, mapping>>, stage' = stage \/ (stage \in Asked /\ stage' \in Asked),
           stage = "recall" => UNCHANGED columns
    PROVE  Tabled'
<1>2. N!Table' = N!Table
  BY DEF N!Table
<1>3. \A t \in DOMAIN input : t < at => Settled(input[t], mapping[t])
  BY DEF Tabled
<1>4. stage' = "recall" => columns' = columns
  BY DEF Asked
<1> QED
  BY <1>2, <1>3, <1>4 DEF Tabled, Asked

\* What the searches found does not change outside of them.
LEMMA KnownStays == ASSUME Known, UNCHANGED <<served, cache>>,
                           UNCHANGED <<found, trace>> \/ (found' = N!Empty /\ trace' = <<>>)
                                \/ (found' = N!Empty /\ UNCHANGED trace)
                    PROVE  Known'
<1>1. DOMAIN N!Empty = {} /\ <<>> \in Seq(Result)
  BY DEF N!Empty
<1>2. ToSet(cache)' = ToSet(cache)
  BY DEF ToSet
<1> QED
  BY <1>1, <1>2 DEF Known

LEMMA SearchIsIdle ==
    ASSUME InFlight, stage # "recall", UNCHANGED <<left, asking>>
    PROVE  left' = {} /\ asking' = {}
BY DEF InFlight

(* The analysis goes on to the next table when this one is settled.        *)
LEMMA MoveKeeps ==
    ASSUME AnalysisInv, at \in DOMAIN input, NEW m \in Mapped, Settled(input[at], m),
           mapping' = [mapping EXCEPT ![at] = m], N!NextTable,
           UNCHANGED <<input, served, cache>>, asking' = {}, pending' = N!Empty
    PROVE  AnalysisInv'
<1> USE DEF N!NextTable
<1>0. input \in Inputs
  BY DEF AnalysisInv, Tabled
<1>1. Len(input) \in Nat /\ DOMAIN input = 1 .. Len(input) /\ at \in Nat /\ at <= Len(input)
  BY <1>0, InputFacts
<1>2. mapping \in [DOMAIN input -> Mapped]
  BY DEF AnalysisInv, Tabled
<1>3. ASSUME NEW t \in DOMAIN input
      PROVE  /\ t < at + 1 => Settled(input[t], mapping'[t])
             /\ t > at => mapping'[t] = N!Base
  <2>1. t < at => Settled(input[t], mapping[t])
    BY DEF AnalysisInv, Tabled
  <2>2. t > at => mapping[t] = N!Base
    BY DEF AnalysisInv, Tabled
  <2>3. mapping'[t] = IF t = at THEN m ELSE mapping[t]
    BY <1>2
  <2> QED
    BY <1>1, <2>1, <2>2, <2>3
<1>4. mapping' \in [DOMAIN input -> Mapped]
  BY <1>2
<1>5. Tabled'
  BY <1>1, <1>3, <1>4 DEF AnalysisInv, Tabled, Asked
<1>6. InFlight'
  <2>1. DOMAIN N!Empty = {}
    BY DEF N!Empty
  <2> QED
    BY <2>1, FS_EmptySet, InputsAssumption DEF InputsAssumption, InFlight, N!AnalysisAssumption
<1>7. Known' /\ Covered'
  BY KnownStays DEF AnalysisInv, Covered
<1> QED
  BY <1>5, <1>6, <1>7 DEF AnalysisInv

LEMMA FailKeeps ==
    ASSUME AnalysisInv, stage \in Asked, N!Fail PROVE AnalysisInv'
<1>1. at \in DOMAIN input /\ mapping[at] = Explaining /\ mapping \in [DOMAIN input -> Mapped]
  BY AtTable DEF AnalysisInv, Tabled
<1>2. N!Stopped(Explaining, TRUE) \in Mapped /\ Settled(input[at], N!Stopped(Explaining, TRUE))
  BY StoppedIsSettled
<1>3. mapping' = [mapping EXCEPT ![at] = N!Stopped(Explaining, TRUE)]
  BY <1>1 DEF N!Fail
<1>4. asking = {}
  BY DEF AnalysisInv, InFlight, Asked
<1> QED
  BY <1>1, <1>2, <1>3, <1>4, MoveKeeps DEF N!Fail

LEMMA SkipKeeps == ASSUME AnalysisInv, N!Skip PROVE AnalysisInv'
<1>0. stage = "tables" /\ at <= Len(input)
  BY DEF N!Skip
<1>1. at \in DOMAIN input /\ mapping[at] = N!Base /\ mapping \in [DOMAIN input -> Mapped]
  BY <1>0, AtTable DEF AnalysisInv, Tabled
<1>2. N!Stopped(N!Base, FALSE) \in Mapped /\ Settled(input[at], N!Stopped(N!Base, FALSE))
  BY StoppedIsSettled
<1>3. mapping' = [mapping EXCEPT ![at] = N!Stopped(N!Base, FALSE)]
  BY <1>1 DEF N!Skip
<1>4. asking = {} /\ pending = N!Empty
  BY DEF AnalysisInv, InFlight, N!Skip
<1> QED
  BY <1>1, <1>2, <1>3, <1>4, MoveKeeps DEF N!Skip

----
(* Requests for explanations.                                              *)

\* While a table is explained, only its requests change.
LEMMA AskedKeeps ==
    ASSUME AnalysisInv, stage \in Asked, stage' \in Asked,
           UNCHANGED <<input, at, served, N!searchVars, mapping>>, InFlight'
    PROVE  AnalysisInv'
<1>1. Tabled'
  BY TabledStays DEF AnalysisInv, Asked
<1>2. Known' /\ Covered'
  BY KnownStays DEF AnalysisInv, Covered, Asked, N!searchVars
<1> QED
  BY <1>1, <1>2 DEF AnalysisInv

LEMMA BeginKeeps == ASSUME AnalysisInv, N!Begin PROVE AnalysisInv'
<1> USE DEF N!Begin, N!Step
<1>0. Tabled /\ at <= Len(input)
  BY DEF AnalysisInv
<1>1. at \in DOMAIN input /\ mapping[at] = N!Base /\ mapping \in [DOMAIN input -> Mapped]
  BY <1>0, AtTable DEF Tabled
<1>2. mapping' = [mapping EXCEPT ![at] = Explaining]
  BY <1>1 DEF Explaining
<1>3. mapping' \in [DOMAIN input -> Mapped]
  BY <1>1, <1>2, BaseFacts
<1>4. \A t \in DOMAIN input : mapping'[t] = IF t = at THEN Explaining ELSE mapping[t]
  BY <1>1, <1>2
<1>5. \A t \in DOMAIN input : t < at \/ t > at => t # at
  BY <1>1, InputFacts DEF AnalysisInv, Tabled
<1>6. Tabled'
  BY <1>0, <1>1, <1>3, <1>4, <1>5 DEF Tabled, Asked
<1>7. InFlight'
  BY <1>0, FS_EmptySet DEF AnalysisInv, InFlight, N!modelVars, N!searchVars, N!Empty
<1>8. Known' /\ Covered'
  BY KnownStays DEF AnalysisInv, Covered, N!searchVars
<1> QED
  BY <1>6, <1>7, <1>8 DEF AnalysisInv

LEMMA RequestKeeps ==
    ASSUME AnalysisInv, N!RetryTable \/ N!CutWhole PROVE AnalysisInv'
<1>1. stage \in Asked /\ stage' \in Asked /\ stage # "batches" /\ stage' # "batches"
  BY DEF N!RetryTable, N!CutWhole, Asked
<1>2. UNCHANGED <<input, at, begun, pending, served, N!searchVars, mapping>>
  BY DEF N!RetryTable, N!CutWhole
<1>3. InFlight'
  BY <1>1, <1>2 DEF AnalysisInv, InFlight, N!searchVars, Asked
<1> QED
  BY <1>1, <1>2, <1>3, AskedKeeps

\* A batch that is retried, answered, split or fails keeps its place.
LEMMA BatchKeeps ==
    ASSUME AnalysisInv, NEW k \in DOMAIN pending,
           N!RetryBatch(k) \/ N!AnswerBatch(k) \/ N!SplitBatch(k) \/ N!FailBatch(k)
    PROVE  AnalysisInv'
<1>0. DOMAIN N!Empty = {}
  BY SMTT(30) DEF N!Empty
<1>1. stage = "batches" /\ UNCHANGED <<input, at, stage, begun, served, N!searchVars, mapping>>
  BY ZenonT(40), <1>0 DEF AnalysisInv, InFlight, N!RetryBatch, N!AnswerBatch, N!SplitBatch, N!FailBatch
<1>2. DOMAIN pending' = DOMAIN pending
  BY DEF N!RetryBatch, N!AnswerBatch, N!SplitBatch, N!FailBatch
<1>3. ASSUME NEW j \in DOMAIN pending PROVE "table" \in DOMAIN pending'[j] /\ pending'[j].table = at
  <2>1. "table" \in DOMAIN pending[j] /\ pending[j].table = at
    BY DEF AnalysisInv, InFlight
  <2>2. CASE N!RetryBatch(k)
    BY <2>1, <2>2 DEF N!RetryBatch
  <2>3. CASE N!AnswerBatch(k)
    <3>1. PICK explained \in N!Listed(Head(pending[k].todo)) :
            pending' = [pending EXCEPT ![k].got = @ \o explained, ![k].todo = Tail(@),
                                       ![k].attempt = 0,
                                       ![k].state = IF Len(pending[k].todo) = 1 THEN "ended" ELSE @]
      BY <2>3 DEF N!AnswerBatch
    <3>2. pending'[j] = pending[j] \/ (j = k /\ DOMAIN pending'[k] = DOMAIN pending[k]
                                       /\ pending'[k].table = pending[k].table)
      BY <2>1, <3>1
    <3> QED
      BY <2>1, <3>2
  <2>4. CASE N!SplitBatch(k)
    BY <2>1, <2>4 DEF N!SplitBatch
  <2>5. CASE N!FailBatch(k)
    BY <2>1, <2>5 DEF N!FailBatch
  <2> QED
    BY <2>2, <2>3, <2>4, <2>5
<1>4. InFlight'
  BY <1>1, <1>2, <1>3 DEF AnalysisInv, InFlight, N!searchVars
<1> QED
  BY <1>1, <1>4, AskedKeeps DEF Asked

(* There is a place for every batch that is begun.                         *)
LEMMA FillFacts ==
    ASSUME NEW running, IsFiniteSet(DOMAIN running), Cardinality(DOMAIN running) <= Concurrency,
           \A k \in DOMAIN running : "table" \in DOMAIN running[k] /\ running[k].table = at,
           NEW count \in Nat, N!Fill(running, count)
    PROVE  /\ IsFiniteSet(DOMAIN pending') /\ Cardinality(DOMAIN pending') <= Concurrency
           /\ \A k \in DOMAIN pending' : "table" \in DOMAIN pending'[k] /\ pending'[k].table = at
           /\ begun' \in Nat
<1> DEFINE new == N!Filled(running, count)
           room == Concurrency - Cardinality(DOMAIN running)
<1>1. Concurrency \in Nat /\ Cardinality(DOMAIN running) \in Nat
  BY InputsAssumption, FS_CardinalityType DEF InputsAssumption, N!AnalysisAssumption
<1>2. room \in Nat
  BY <1>1
<1>3. new \subseteq count + 1 .. count + room
  BY SameNames DEF N!Filled
<1>4. pending' = [k \in DOMAIN running \cup new |->
                    IF k \in new THEN N!Task(N!Batches(N!Table)[k]) ELSE running[k]]
      /\ begun' = count + Cardinality(new)
  BY SameNames DEF N!Fill
<1> HIDE DEF new, room
<1>5. IsFiniteSet(count + 1 .. count + room) /\ Cardinality(count + 1 .. count + room) = room
  BY <1>2, NextNumbers
<1>6. IsFiniteSet(new) /\ Cardinality(new) <= room
  BY <1>3, <1>5, FS_Subset
<1>7. Cardinality(new) \in Nat
  BY <1>6, FS_CardinalityType
<1>8. /\ IsFiniteSet(DOMAIN running \cup new)
      /\ Cardinality(DOMAIN running \cup new) <= Cardinality(DOMAIN running) + Cardinality(new)
  <2>1. /\ IsFiniteSet(DOMAIN running \cup new)
        /\ Cardinality(DOMAIN running \cup new) =
             Cardinality(DOMAIN running) + Cardinality(new) - Cardinality(DOMAIN running \cap new)
    BY <1>6, FS_Union
  <2>2. Cardinality(DOMAIN running \cap new) \in Nat
    BY <1>6, FS_Intersection, FS_CardinalityType
  <2> QED
    BY <1>1, <1>7, <2>1, <2>2
<1>9. Cardinality(DOMAIN running \cup new) <= Concurrency
  <2>1. Cardinality(DOMAIN running \cup new) \in Nat
    BY <1>8, FS_CardinalityType
  <2> QED
    BY <1>1, <1>6, <1>7, <1>8, <2>1 DEF room
<1>10. \A k \in DOMAIN running \cup new : "table" \in DOMAIN pending'[k] /\ pending'[k].table = at
  BY <1>4 DEF N!Task
<1> QED
  <2>1. DOMAIN pending' = DOMAIN running \cup new
    BY <1>4
  <2>2. begun' \in Nat
    BY <1>4, <1>7
  <2> QED
    BY <1>8, <1>9, <1>10, <2>1, <2>2

LEMMA OutlineKeeps == ASSUME AnalysisInv, N!AnswerOutline PROVE AnalysisInv'
<1>1. stage \in Asked /\ stage' = "batches" /\ UNCHANGED <<input, at, served, N!searchVars, mapping>>
  BY DEF N!AnswerOutline, Asked
<1>2. DOMAIN N!Empty = {} /\ Concurrency \in Nat
  BY InputsAssumption DEF InputsAssumption, N!AnalysisAssumption, N!Empty
<1>3. N!Fill(N!Empty, 0)
  BY DEF N!AnswerOutline
<1>4. /\ IsFiniteSet(DOMAIN pending') /\ Cardinality(DOMAIN pending') <= Concurrency
      /\ \A k \in DOMAIN pending' : "table" \in DOMAIN pending'[k] /\ pending'[k].table = at
      /\ begun' \in Nat
  BY <1>2, <1>3, FillFacts, FS_EmptySet
<1>5. InFlight'
  BY <1>1, <1>4 DEF AnalysisInv, InFlight, Asked, N!searchVars
<1> QED
  BY <1>1, <1>5, AskedKeeps DEF Asked

LEMMA CollectKeeps == ASSUME AnalysisInv, N!CollectBatches PROVE AnalysisInv'
<1> DEFINE running == [k \in N!Running |-> pending[k]]
<1>1. stage = "batches" /\ stage' = stage /\ UNCHANGED <<input, at, served, N!searchVars, mapping>>
  BY DEF N!CollectBatches
<1>2. N!Fill(running, begun) /\ begun \in Nat
  BY DEF N!CollectBatches, AnalysisInv, InFlight
<1>3. DOMAIN running = N!Running /\ N!Running \subseteq DOMAIN pending
  BY DEF N!Running
<1>4. \A k \in DOMAIN running : "table" \in DOMAIN running[k] /\ running[k].table = at
  BY <1>3 DEF AnalysisInv, InFlight
<1>5. IsFiniteSet(DOMAIN running) /\ Cardinality(DOMAIN running) <= Concurrency
  <2>1. IsFiniteSet(DOMAIN pending) /\ Cardinality(DOMAIN pending) <= Concurrency
    BY DEF AnalysisInv, InFlight
  <2>2. IsFiniteSet(N!Running) /\ Cardinality(N!Running) <= Cardinality(DOMAIN pending)
    BY <1>3, <2>1, FS_Subset
  <2>3. Cardinality(N!Running) \in Nat /\ Cardinality(DOMAIN pending) \in Nat /\ Concurrency \in Nat
    BY <2>1, <2>2, FS_CardinalityType, InputsAssumption DEF InputsAssumption, N!AnalysisAssumption
  <2> QED
    BY <1>3, <2>1, <2>2, <2>3
<1> HIDE DEF running
<1>6. /\ IsFiniteSet(DOMAIN pending') /\ Cardinality(DOMAIN pending') <= Concurrency
      /\ \A k \in DOMAIN pending' : "table" \in DOMAIN pending'[k] /\ pending'[k].table = at
      /\ begun' \in Nat
  BY <1>2, <1>4, <1>5, FillFacts
<1>7. InFlight'
  BY <1>1, <1>6 DEF AnalysisInv, InFlight, N!searchVars
<1> QED
  BY <1>1, <1>7, AskedKeeps DEF Asked

\* The columns are explained, all of them.
LEMMA RecallKeeps ==
    ASSUME AnalysisInv, stage \in Asked, NEW explained \in N!Listed(N!Names(N!Table)), N!Recall(explained),
           pending = N!Empty, UNCHANGED <<input, at, attempt, begun, pending, served, cache, asking, trace>>
    PROVE  AnalysisInv'
<1>0. Tabled
  BY DEF AnalysisInv
<1>1. at \in DOMAIN input /\ mapping[at] = Explaining /\ mapping \in [DOMAIN input -> Mapped]
  BY <1>0, AtTable DEF Tabled
<1>2. explained \in Seq(DOMAIN N!Table.weights) /\ ToSet(explained) = DOMAIN N!Table.weights
  BY <1>0, <1>1, ListedFacts DEF Tabled
<1>3. mapping' = [mapping EXCEPT ![at] = Recalling]
  <2>1. [[Explaining EXCEPT !.steps["meaning"] = "completed"] EXCEPT !.steps["recall"] = "running"] = Recalling
    BY RecallingFollows
  <2>2. mapping' = [mapping EXCEPT ![at] =
                     [[mapping[at] EXCEPT !.steps["meaning"] = "completed"] EXCEPT !.steps["recall"] = "running"]]
    BY <1>1 DEF N!Recall
  <2> QED
    BY <1>1, <2>1, <2>2
<1>4. mapping' \in [DOMAIN input -> Mapped]
  BY <1>1, <1>3, BaseFacts
<1>5. \A t \in DOMAIN input : mapping'[t] = IF t = at THEN Recalling ELSE mapping[t]
  BY <1>1, <1>3
<1>6. \A t \in DOMAIN input : t < at \/ t > at => t # at
  BY <1>0, <1>1, InputFacts DEF Tabled
<1>7. N!Table' = N!Table /\ columns' = explained /\ stage' = "recall"
  BY DEF N!Table, N!Recall
<1>8. Tabled'
  BY <1>0, <1>1, <1>2, <1>4, <1>5, <1>6, <1>7 DEF Tabled, Asked
<1>9. InFlight'
  BY <1>7 DEF AnalysisInv, InFlight, N!Recall, Asked
<1>10. Known' /\ Covered'
  BY KnownStays DEF AnalysisInv, Covered, N!Recall, InFlight, Asked
<1> QED
  BY <1>8, <1>9, <1>10 DEF AnalysisInv

LEMMA ExplainedKeeps == ASSUME AnalysisInv, N!AnswerWhole \/ N!EndBatches PROVE AnalysisInv'
<1>1. CASE N!AnswerWhole
  <2>1. stage \in Asked /\ pending = N!Empty
    BY <1>1 DEF N!AnswerWhole, Asked, AnalysisInv, InFlight
  <2>2. PICK explained \in N!Listed(N!Names(N!Table)) : N!Recall(explained)
    BY <1>1 DEF N!AnswerWhole
  <2> QED
    BY <1>1, <2>1, <2>2, RecallKeeps DEF N!AnswerWhole
<1>2. CASE N!EndBatches
  <2>1. stage \in Asked /\ pending = N!Empty
    BY <1>2 DEF N!EndBatches, Asked
  <2>2. CASE N!Exact(columns)
    <3>1. N!Merged \in N!Listed(N!Names(N!Table))
      BY DEF N!Merged, N!Listed
    <3> QED
      BY <1>2, <2>1, <2>2, <3>1, RecallKeeps DEF N!EndBatches
  <2> QED
    BY <1>2, <2>1, <2>2, FailKeeps DEF N!EndBatches
<1> QED
  BY <1>1, <1>2

LEMMA FailureKeeps == ASSUME AnalysisInv, N!FailTable \/ N!CollectFailure PROVE AnalysisInv'
BY FailKeeps DEF N!FailTable, N!CollectFailure, Asked

----
(* Searches.                                                               *)

LEMMA TargetFacts ==
    ASSUME AnalysisInv, stage = "recall"
    PROVE  /\ Len(columns) \in Nat /\ DOMAIN columns = 1 .. Len(columns)
           /\ columns \in Seq(Nat)
           /\ N!Targets \in Seq(ToSet(N!Targets)) /\ Len(N!Targets) = Len(columns) + 1
<1> DEFINE given == [i \in DOMAIN columns |-> N!Table.queries[columns[i] + 1]]
           S == {N!Table.queries[1]} \cup {given[i] : i \in DOMAIN columns}
<1>0. Tabled
  BY DEF AnalysisInv
<1>1. columns \in Seq(DOMAIN N!Table.weights) /\ input \in Inputs /\ at \in DOMAIN input
  BY <1>0, AtTable DEF Tabled
<1>2. Len(columns) \in Nat /\ DOMAIN columns = 1 .. Len(columns)
  BY <1>1, LenProperties
<1>3. columns \in Seq(Nat)
  <2>1. DOMAIN N!Table.weights = 1 .. Len(N!Table.weights) /\ Len(N!Table.weights) \in Nat
    BY <1>1, TableFacts
  <2>2. DOMAIN N!Table.weights \subseteq Nat
    BY <2>1
  <2> QED
    BY <1>1, <2>2, SeqMonotonic
<1>4. given \in Seq(S) /\ Len(given) = Len(columns)
  BY <1>2
<1>5. <<N!Table.queries[1]>> \in Seq(S) /\ Len(<<N!Table.queries[1]>>) = 1
  OBVIOUS
<1>6. N!Targets = <<N!Table.queries[1]>> \o given
  BY DEF N!Targets
<1> HIDE DEF given, S
<1>7. N!Targets \in Seq(S) /\ Len(N!Targets) = 1 + Len(columns)
  BY <1>4, <1>5, <1>6, ConcatProperties
<1> QED
  BY <1>2, <1>3, <1>7, OwnRange

LEMMA GroupFacts ==
    ASSUME AnalysisInv, stage = "recall"
    PROVE  Len(N!Group) \in Nat /\ DOMAIN N!Group = 1 .. Len(N!Group)
<1> DEFINE from == Len(trace) + 1
           to == Min({Len(trace) + GroupSize, Len(N!Targets)})
<1>1. N!Targets \in Seq(ToSet(N!Targets)) /\ Len(N!Targets) \in Nat /\ \A i \in 1 .. Len(N!Targets) : N!Targets[i] \in ToSet(N!Targets)
  BY TargetFacts, LenProperties, ElementOfSeq
<1>2. Len(trace) \in Nat /\ GroupSize \in Nat
  BY LenProperties, InputsAssumption DEF InputsAssumption, N!AnalysisAssumption, AnalysisInv, Known
<1>3. to \in Nat
  <2>1. Len(trace) + GroupSize \in Nat
    BY <1>2
  <2> QED
    BY <1>1, <2>1, MinOfTwo
<1>4. from \in Int
  BY <1>2
<1>5. N!Group = SubSeq(N!Targets, from, to)
  BY SameNames DEF N!Group
<1> HIDE DEF from, to
<1> DEFINE S == {N!Targets[i] : i \in from .. to}
<1>6. \A i \in from .. to : N!Targets[i] \in S
  OBVIOUS
<1> HIDE DEF S
<1>7. N!Group \in Seq(S)
  BY <1>3, <1>4, <1>5, <1>6, SubSeqProperties
<1> QED
  BY <1>7, LenProperties

\* A step of the searches concerns nothing else.
LEMMA SearchFrame ==
    ASSUME AnalysisInv, stage = "recall", UNCHANGED <<input, at, stage, N!modelVars, mapping>>
    PROVE  /\ Tabled' /\ N!Targets' = N!Targets
           /\ IsFiniteSet(asking') /\ Cardinality(asking') <= Concurrency => InFlight'
           /\ trace' = trace => N!Group' = N!Group
<1>1. Tabled'
  BY TabledStays DEF AnalysisInv, N!modelVars
<1>2. N!Targets' = N!Targets
  BY DEF N!Targets, N!Table, N!modelVars
<1>3. IsFiniteSet(asking') /\ Cardinality(asking') <= Concurrency => InFlight'
  BY DEF AnalysisInv, InFlight, N!modelVars
<1>4. trace' = trace => N!Group' = N!Group
  BY <1>2 DEF N!Group
<1> QED
  BY <1>1, <1>2, <1>3, <1>4

\* Every query of the group is among the first ones.
LEMMA BeginGroupKeeps == ASSUME AnalysisInv, N!BeginGroup PROVE AnalysisInv'
<1>1. stage = "recall" /\ UNCHANGED <<input, at, stage, N!modelVars, mapping, served, cache, asking, found, trace>>
  BY DEF N!BeginGroup
<1>2. Tabled' /\ InFlight' /\ N!Group' = N!Group
  BY <1>1, SearchFrame DEF AnalysisInv, InFlight
<1>3. Known'
  BY <1>1, KnownStays DEF AnalysisInv
<1>4. ASSUME NEW k \in DOMAIN N!Group PROVE N!Group[k] \in {N!Group[j] : j \in left'}
  <2> DEFINE same == {j \in DOMAIN N!Group : N!Group[j] = N!Group[k]}
  <2>1. DOMAIN N!Group = 1 .. Len(N!Group) /\ Len(N!Group) \in Nat
    BY <1>1, GroupFacts
  <2>2. same \subseteq Nat /\ k \in same
    BY <2>1
  <2>3. PICK j \in same : \A i \in same : j <= i
    BY <2>2, LeastNat
  <2>4. \A i \in 1 .. (j - 1) : N!Group[i] # N!Group[j]
    <3> SUFFICES ASSUME NEW i \in 1 .. (j - 1), N!Group[i] = N!Group[j] PROVE FALSE
      OBVIOUS
    <3>1. i \in DOMAIN N!Group /\ i < j
      BY <2>1, <2>3
    <3>2. j <= i
      BY <2>3, <3>1
    <3> QED
      BY <2>1, <2>3, <3>1, <3>2
  <2>5. j \in left'
    BY <2>3, <2>4 DEF N!BeginGroup
  <2> QED
    BY <2>3, <2>5
<1>5. Covered'
  BY <1>1, <1>2, <1>4 DEF Covered
<1> QED
  BY <1>2, <1>3, <1>5 DEF AnalysisInv

LEMMA WithFacts ==
    ASSUME NEW q, NEW value, value \in Result, Known, found' = N!With(found, q, value)
    PROVE  /\ DOMAIN found' = DOMAIN found \cup {q}
           /\ \A x \in DOMAIN found' : found'[x] \in Result
BY DEF N!With, Known

LEMMA DueIsCovered ==
    ASSUME AnalysisInv, stage = "recall", left # {} \/ asking # {}
    PROVE  \A k \in DOMAIN N!Group :
             /\ N!Group[k] \in DOMAIN found \cup asking \cup {N!Group[j] : j \in left}
             /\ N!Group[k] \in DOMAIN found \cup asking \cup {N!Group[N!Due]} \cup {N!Group[j] : j \in left \ {N!Due}}
BY DEF AnalysisInv, Covered

LEMMA CachedKeeps == ASSUME AnalysisInv, N!SearchCached PROVE AnalysisInv'
<1> DEFINE k == CHOOSE x \in N!Cached(N!Group[N!Due]) : TRUE
<1>1. stage = "recall" /\ UNCHANGED <<input, at, stage, N!modelVars, mapping, served, asking, trace>>
  BY DEF N!SearchCached, AnalysisInv, InFlight
<1>2. Tabled' /\ InFlight' /\ N!Group' = N!Group
  BY <1>1, SearchFrame DEF AnalysisInv, InFlight
<1>3. k \in DOMAIN cache
  BY DEF N!SearchCached, N!Cached
<1>4. found' = N!With(found, N!Group[N!Due], cache[k][2]) /\ cache' = Append(RemoveAt(cache, k), cache[k])
  BY SameNames DEF N!SearchCached
<1> HIDE DEF k
<1>5. cache \in Seq(ToSet(cache)) /\ \A e \in ToSet(cache) : e[2] \in Valid
  BY DEF AnalysisInv, Known
<1>6. cache[k] \in ToSet(cache)
  BY <1>3 DEF ToSet
<1>7. cache[k][2] \in Valid /\ cache[k][2] \in Result
  BY <1>5, <1>6 DEF Valid
<1>8. RemoveAt(cache, k) \in Seq(ToSet(RemoveAt(cache, k))) /\ ToSet(RemoveAt(cache, k)) \subseteq ToSet(cache)
  BY <1>3, <1>5, RangeShrinks
<1>9. cache' \in Seq(ToSet(cache')) /\ ToSet(cache') \subseteq ToSet(cache)
  BY <1>4, <1>6, <1>8, RangeGrows
<1>10. DOMAIN found' = DOMAIN found \cup {N!Group[N!Due]} /\ \A x \in DOMAIN found' : found'[x] \in Result
  BY <1>4, <1>7, WithFacts DEF AnalysisInv
<1>11. Known'
  <2>1. ToSet(cache)' = ToSet(cache')
    BY DEF ToSet
  <2> QED
    BY <1>1, <1>5, <1>9, <1>10, <2>1 DEF AnalysisInv, Known
<1>12. Covered'
  BY <1>1, <1>2, <1>10, DueIsCovered DEF N!SearchCached, Covered
<1> QED
  BY <1>2, <1>11, <1>12 DEF AnalysisInv

LEMMA ServiceKeeps == ASSUME AnalysisInv, N!SearchService PROVE AnalysisInv'
<1>1. stage = "recall" /\ UNCHANGED <<input, at, stage, N!modelVars, mapping, served, cache, found, trace>>
  BY DEF N!SearchService, AnalysisInv, InFlight
<1>2. IsFiniteSet(asking') /\ Cardinality(asking') <= Concurrency
  <2>1. IsFiniteSet(asking) /\ Cardinality(asking) < Concurrency /\ asking' = asking \cup {N!Group[N!Due]}
    BY SameNames DEF N!SearchService, AnalysisInv, InFlight
  <2>2. Cardinality(asking) \in Nat /\ Concurrency \in Nat
    BY <2>1, FS_CardinalityType, InputsAssumption DEF InputsAssumption, N!AnalysisAssumption
  <2>3. IsFiniteSet(asking') /\ Cardinality(asking') \in {Cardinality(asking), Cardinality(asking) + 1}
    BY <2>1, FS_AddElement
  <2> QED
    BY <2>1, <2>2, <2>3
<1>3. Tabled' /\ InFlight' /\ N!Group' = N!Group
  BY <1>1, <1>2, SearchFrame
<1>4. Known'
  BY <1>1, KnownStays DEF AnalysisInv
<1>5. Covered'
  BY <1>1, <1>3, DueIsCovered DEF N!SearchService, Covered
<1> QED
  BY <1>3, <1>4, <1>5 DEF AnalysisInv

LEMMA JudgedFacts ==
    ASSUME Known, NEW answer \in N!Answers \cup {"error"}
    PROVE  N!Judged(answer) \in Result /\ (N!Accepted(answer) => N!Judged(answer) \in Valid)
BY InputsAssumption DEF InputsAssumption, N!Judged, N!Accepted, Result, Valid, Verdicts, N!Answers, Known, N!AnalysisAssumption

LEMMA RememberFacts ==
    ASSUME Known, NEW q, NEW answer \in N!Answers \cup {"error"}
    PROVE  /\ N!Remember(q, answer) \in Seq(ToSet(N!Remember(q, answer)))
           /\ \A e \in ToSet(N!Remember(q, answer)) : e[2] \in Valid
<1> DEFINE all == Append(cache, <<q, N!Judged(answer)>>)
<1>1. cache \in Seq(ToSet(cache)) /\ \A e \in ToSet(cache) : e[2] \in Valid
  BY DEF Known
<1>2. CASE ~N!Accepted(answer)
  BY <1>1, <1>2 DEF N!Remember
<1>3. CASE N!Accepted(answer)
  <2>1. all \in Seq(ToSet(all)) /\ ToSet(all) \subseteq ToSet(cache) \cup {<<q, N!Judged(answer)>>}
    BY <1>1, RangeGrows
  <2>2. \A e \in ToSet(all) : e[2] \in Valid
    <3>1. N!Judged(answer) \in Valid
      BY <1>3, JudgedFacts
    <3>2. <<q, N!Judged(answer)>>[2] = N!Judged(answer)
      OBVIOUS
    <3> HIDE DEF all
    <3> QED
      BY <1>1, <2>1, <3>1, <3>2
  <2>3. all # <<>>
    <3>1. Len(cache) \in Nat
      BY <1>1, LenProperties
    <3>2. Len(all) = Len(cache) + 1
      BY <1>1
    <3> HIDE DEF all
    <3> QED
      BY <3>1, <3>2
  <2>4. Tail(all) \in Seq(ToSet(Tail(all))) /\ ToSet(Tail(all)) \subseteq ToSet(all)
    BY <2>1, <2>3, TailRange
  <2>5. N!Remember(q, answer) \in {all, Tail(all)}
    BY <1>3 DEF N!Remember
  <2> QED
    BY <2>1, <2>2, <2>4, <2>5
<1> QED
  BY <1>2, <1>3

LEMMA AnswerKeeps == ASSUME AnalysisInv, NEW q \in asking, N!AnswerSearch(q) PROVE AnalysisInv'
<1>1. stage = "recall" /\ UNCHANGED <<input, at, stage, N!modelVars, mapping, served, left, trace>>
  BY DEF N!AnswerSearch, AnalysisInv, InFlight
<1>2. IsFiniteSet(asking') /\ Cardinality(asking') <= Concurrency
  <2>1. IsFiniteSet(asking) /\ Cardinality(asking) <= Concurrency /\ asking' = asking \ {q}
    BY DEF N!AnswerSearch, AnalysisInv, InFlight
  <2>2. Cardinality(asking) \in Nat /\ Concurrency \in Nat
    BY <2>1, FS_CardinalityType, InputsAssumption DEF InputsAssumption, N!AnalysisAssumption
  <2>3. IsFiniteSet(asking') /\ Cardinality(asking') = Cardinality(asking) - 1
    BY <2>1, FS_RemoveElement
  <2> QED
    BY <2>1, <2>2, <2>3
<1>3. Tabled' /\ InFlight' /\ N!Group' = N!Group
  BY <1>1, <1>2, SearchFrame
<1>4. PICK answer \in N!Answers \cup {"error"} :
        found' = N!With(found, q, N!Judged(answer)) /\ cache' = N!Remember(q, answer)
  BY DEF N!AnswerSearch
<1>5. Known
  BY DEF AnalysisInv
<1>6. DOMAIN found' = DOMAIN found \cup {q} /\ \A x \in DOMAIN found' : found'[x] \in Result
  BY <1>4, <1>5, WithFacts, JudgedFacts
<1>7. cache' \in Seq(ToSet(cache')) /\ \A e \in ToSet(cache') : e[2] \in Valid
  BY <1>4, <1>5, RememberFacts
<1>8. Known'
  BY <1>1, <1>5, <1>6, <1>7 DEF Known, ToSet
<1>9. Covered'
  BY <1>1, <1>3, <1>6, DueIsCovered DEF N!AnswerSearch, Covered
<1> QED
  BY <1>3, <1>8, <1>9 DEF AnalysisInv

(* The group is over: all its targets have their answers.                  *)
LEMMA EndGroupKeeps == ASSUME AnalysisInv, N!EndGroup PROVE AnalysisInv'
<1> DEFINE more == [k \in DOMAIN N!Group |-> found[N!Group[k]]]
           results == trace \o more
<1>1. stage = "recall" /\ left = {} /\ asking = {} /\ found # N!Empty
  BY DEF N!EndGroup
<1>2. \A k \in DOMAIN N!Group : N!Group[k] \in DOMAIN found
  BY <1>1 DEF AnalysisInv, Covered
<1>3. more \in Seq(Result)
  <2>1. \A k \in DOMAIN N!Group : found[N!Group[k]] \in Result
    BY <1>2 DEF AnalysisInv, Known
  <2>2. DOMAIN N!Group = 1 .. Len(N!Group) /\ Len(N!Group) \in Nat
    BY <1>1, GroupFacts
  <2> QED
    BY <2>1, <2>2
<1> HIDE DEF more
<1>4. results \in Seq(Result)
  BY <1>3, ConcatProperties DEF AnalysisInv, Known
<1>5. CASE Len(results) < Len(N!Targets)
  <2>1. trace' = results /\ found' = N!Empty
        /\ UNCHANGED <<input, at, stage, N!modelVars, served, cache, left, asking, mapping>>
    BY <1>5 DEF N!EndGroup, more
  <2>2. Tabled' /\ InFlight'
    BY <1>1, <2>1, SearchFrame DEF AnalysisInv, InFlight
  <2>3. Known'
    <3>1. DOMAIN N!Empty = {}
      BY DEF N!Empty
    <3>2. ToSet(cache)' = ToSet(cache)
      BY <2>1 DEF ToSet
    <3> QED
      BY <1>4, <2>1, <3>1, <3>2 DEF AnalysisInv, Known
  <2>4. Covered'
    BY <1>1, <2>1 DEF Covered
  <2> QED
    BY <2>2, <2>3, <2>4 DEF AnalysisInv
<1>6. CASE ~(Len(results) < Len(N!Targets))
  <2> DEFINE verdict == N!Decided(results[1])
             outcome == CASE verdict = "matched" -> "mapped" [] verdict = "unmatched" -> "unmatched"
                         [] OTHER -> "review"
             concept == IF verdict \in {"matched", "review"} THEN {results[1]} ELSE {}
             fields == [k \in DOMAIN columns |->
                          IF N!Decided(results[k + 1]) = "matched" THEN {results[k + 1]} ELSE {}]
             steps == [s \in ToSet(N!Steps) |-> "completed"]
             said == [status |-> outcome, concept |-> concept, columns |-> columns, fields |-> fields,
                      steps |-> steps]
  <2>0. Tabled /\ at \in DOMAIN input /\ mapping \in [DOMAIN input -> Mapped] /\ mapping[at] \in Mapped
    BY <1>1, AtTable DEF AnalysisInv, Tabled
  <2>1. mapping' = [mapping EXCEPT ![at] = said]
    BY SameNames, <1>6, <2>0 DEF N!EndGroup, more
  <2>2. N!NextTable /\ UNCHANGED <<input, pending, served, cache, asking>>
    BY <1>6 DEF N!EndGroup, more
  <2>3. /\ Len(columns) \in Nat /\ DOMAIN columns = 1 .. Len(columns) /\ columns \in Seq(Nat)
        /\ Len(N!Targets) = Len(columns) + 1
    BY <1>1, TargetFacts
  <2> HIDE DEF results
  <2>4. Len(results) \in Nat /\ Len(results) >= Len(columns) + 1
        /\ \A i \in 1 .. Len(results) : results[i] \in Result
    BY <1>4, <1>6, <2>3, LenProperties, ElementOfSeq
  <2>5. results[1] \in Result /\ \A k \in DOMAIN columns : results[k + 1] \in Result
    BY <2>3, <2>4
  <2>6. ASSUME NEW a \in Result, N!Decided(a) \in {"matched", "review"} PROVE a \in Sure
    BY <2>6 DEF N!Decided, Sure
  <2>7. concept \in SUBSET Sure
    BY <2>5, <2>6
  <2>8. fields \in Seq(SUBSET Sure) /\ Len(fields) = Len(columns)
    <3> DEFINE f(k) == IF N!Decided(results[k + 1]) = "matched" THEN {results[k + 1]} ELSE {}
    <3>1. \A k \in DOMAIN columns : f(k) \in SUBSET Sure
      BY <2>5, <2>6
    <3>2. fields = [k \in 1 .. Len(columns) |-> f(k)]
      BY <2>3
    <3> HIDE DEF f, fields
    <3>3. fields \in [1 .. Len(columns) -> SUBSET Sure]
      BY <2>3, <3>1, <3>2
    <3> QED
      BY <2>3, <3>3, MadeSeq
  <2>9. outcome \in {"unmatched", "mapped", "review"}
    OBVIOUS
  <2>10. steps \in [ToSet(N!Steps) -> StepStates] /\ \A s \in ToSet(N!Steps) : steps[s] = "completed"
    BY DEF StepStates
  <2> HIDE DEF verdict, outcome, concept, fields, steps
  <2>11. said = [status |-> outcome, concept |-> concept, columns |-> columns, fields |-> fields, steps |-> steps]
    OBVIOUS
  <2>12. said \in Mapped
    BY <2>3, <2>7, <2>8, <2>9, <2>10, <2>11 DEF Mapped
  <2>13. ToSet(columns) = DOMAIN input[at].weights
    BY <1>1 DEF AnalysisInv, Tabled, N!Table
  <2>14. \A i \in DOMAIN N!Steps : N!Steps[i] \in ToSet(N!Steps)
    BY DEF ToSet
  <2> HIDE DEF said
  <2>15. \A i \in DOMAIN N!Steps : said.steps[N!Steps[i]] = "completed"
    BY <2>10, <2>11, <2>14
  <2>16. \A i \in DOMAIN N!Steps : i > 1 => i - 1 \in DOMAIN N!Steps
    BY StepNames
  <2>17. said.status \in {"unmatched", "mapped", "review"} /\ said.columns = columns /\ Len(said.fields) = Len(columns)
    BY <2>8, <2>9, <2>11
  <2>18. Settled(input[at], said)
    BY <2>13, <2>15, <2>16, <2>17 DEF Settled
  <2>19. pending = N!Empty
    BY <1>1 DEF AnalysisInv, InFlight
  <2> QED
    BY <1>1, <2>0, <2>1, <2>2, <2>12, <2>18, <2>19, MoveKeeps
<1> QED
  BY <1>5, <1>6

----
(* The analysis.                                                           *)

LEMMA EndKeeps == ASSUME AnalysisInv, N!Synchronize \/ N!Finish \/ N!Cancel PROVE AnalysisInv'
<1>1. CASE N!Synchronize
  <2>1. Tabled'
    BY <1>1, TabledStays DEF N!Synchronize, AnalysisInv, N!modelVars
  <2>2. InFlight' /\ Known'
    BY <1>1 DEF N!Synchronize, AnalysisInv, InFlight, Known, N!modelVars, N!searchVars, ToSet
  <2>3. N!Group' = N!Group
    BY <1>1 DEF N!Synchronize, N!Group, N!Targets, N!Table, N!modelVars, N!searchVars
  <2>4. Covered'
    BY <1>1, <2>3 DEF N!Synchronize, AnalysisInv, Covered, N!searchVars
  <2> QED
    BY <2>1, <2>2, <2>4 DEF AnalysisInv
<1>2. CASE N!Finish
  <2>1. Tabled'
    BY <1>2 DEF N!Finish, AnalysisInv, Tabled, Asked
  <2>2. InFlight' /\ Known' /\ Covered'
    BY <1>2 DEF N!Finish, AnalysisInv, InFlight, Known, Covered, N!modelVars, N!searchVars, ToSet
  <2> QED
    BY <2>1, <2>2 DEF AnalysisInv
<1>3. CASE N!Cancel
  <2>1. Tabled'
    BY <1>3 DEF N!Cancel, AnalysisInv, Tabled, Asked
  <2>2. DOMAIN N!Empty = {} /\ Concurrency \in Nat
    BY InputsAssumption DEF InputsAssumption, N!AnalysisAssumption, N!Empty
  <2>3. InFlight'
    BY <1>3, <2>2, FS_EmptySet DEF N!Cancel, AnalysisInv, InFlight
  <2>4. Known' /\ Covered'
    BY <1>3 DEF N!Cancel, AnalysisInv, Known, Covered, ToSet
  <2> QED
    BY <2>1, <2>3, <2>4 DEF AnalysisInv
<1> QED
  BY <1>1, <1>2, <1>3

LEMMA AnalysisNext == ASSUME AnalysisInv, [N!Next]_analysisVars PROVE AnalysisInv'
<1>1. CASE UNCHANGED analysisVars
  <2>1. Tabled'
    BY <1>1, TabledStays DEF analysisVars, AnalysisInv, N!modelVars
  <2>2. InFlight' /\ Known'
    BY <1>1 DEF analysisVars, AnalysisInv, InFlight, Known, N!modelVars, N!searchVars, ToSet
  <2>3. N!Group' = N!Group
    BY <1>1 DEF analysisVars, N!Group, N!Targets, N!Table, N!modelVars, N!searchVars
  <2>4. Covered'
    BY <1>1, <2>3 DEF analysisVars, AnalysisInv, Covered, N!searchVars
  <2> QED
    BY <2>1, <2>2, <2>4 DEF AnalysisInv
<1>2. CASE N!Work
  BY <1>2, BeginKeeps, SkipKeeps, RequestKeeps, FailureKeeps, ExplainedKeeps, OutlineKeeps, BatchKeeps,
     CollectKeeps, BeginGroupKeeps, CachedKeeps, ServiceKeeps, AnswerKeeps, EndGroupKeeps, EndKeeps DEF N!Work
<1> QED
  BY <1>1, <1>2, EndKeeps DEF N!Next

LEMMA AnalysisInvIsSound == AnalysisInv => N!ColumnsAreComplete /\ N!NothingEscapes /\ N!OneRevision
<1> SUFFICES ASSUME AnalysisInv PROVE N!ColumnsAreComplete /\ N!NothingEscapes /\ N!OneRevision
  OBVIOUS
<1>1. N!ColumnsAreComplete
  <2> SUFFICES ASSUME NEW t \in 1 .. (at - 1) PROVE Settled(input[t], mapping[t])
    BY SameNames DEF N!ColumnsAreComplete, Settled
  <2>1. input \in Inputs /\ at \in 1 .. Len(input) + 1
    BY DEF AnalysisInv, Tabled
  <2>2. Len(input) \in Nat /\ DOMAIN input = 1 .. Len(input)
    BY <2>1, InputFacts
  <2>3. t \in DOMAIN input /\ t < at
    BY <2>1, <2>2
  <2> QED
    BY <2>3 DEF AnalysisInv, Tabled
<1>2. N!NothingEscapes
  <2>1. DOMAIN N!Empty = {}
    BY DEF N!Empty
  <2> QED
    BY SameNames, <2>1 DEF AnalysisInv, InFlight, N!NothingEscapes
<1>3. N!OneRevision
  <2>1. ASSUME NEW t \in DOMAIN mapping, NEW a \in mapping[t].concept \cup UNION ToSet(mapping[t].fields)
        PROVE  a \in Sure
    <3>1. mapping[t] \in Mapped
      BY DEF AnalysisInv, Tabled
    <3>2. mapping[t].concept \in SUBSET Sure /\ mapping[t].fields \in Seq(SUBSET Sure)
      BY <3>1 DEF Mapped
    <3>3. ToSet(mapping[t].fields) \subseteq SUBSET Sure
      BY <3>2, OwnRange
    <3> QED
      BY <3>2, <3>3
  <2>2. ASSUME NEW a \in Sure PROVE a.revision = Pinned /\ a.status \in {"hit", "low"}
    BY DEF Sure, Result, N!Answers
  <2>3. ASSUME NEW k \in DOMAIN cache PROVE cache[k][2].revision = Pinned /\ cache[k][2].status \in N!Answers
    <3>1. cache[k] \in ToSet(cache)
      BY DEF ToSet
    <3>2. cache[k][2] \in Valid
      BY <3>1 DEF AnalysisInv, Known
    <3> QED
      BY <3>2 DEF Valid, Result
  <2> QED
    BY SameNames, <2>1, <2>2, <2>3 DEF N!OneRevision
<1> QED
  BY <1>1, <1>2, <1>3

(* However requests for a table are cut, split, retried, answered out of    *)
(* order or fail, and whatever the ontology service is synchronised to, a   *)
(* table is explained whole or failed, by answers for the pinned revision,  *)
(* and none of its requests outlives it (alignment/interpretation.py,       *)
(* retrieval.py).                                                           *)
THEOREM AnalysisStaysSound == MCSpec => []AnalysisIsSound
<1> DEFINE Holds == part = "analysis" => AnalysisInv
<1>1. MCInit => Holds
  BY AnalysisInit DEF MCInit
<1>2. Holds /\ [MCNext]_allVars => Holds'
  <2> SUFFICES ASSUME Holds, [MCNext]_allVars PROVE Holds'
    OBVIOUS
  <2>1. part' = part /\ (part = "analysis" => [N!Next]_analysisVars)
    BY DEF MCNext, allVars
  <2> QED
    BY <2>1, AnalysisNext
<1>3. Holds => AnalysisIsSound
  BY AnalysisInvIsSound DEF AnalysisIsSound
<1> QED
  BY <1>1, <1>2, <1>3, PTL DEF MCSpec
====
