---- MODULE RiskRulesProofs ----
(* Rules from the ontology to an execution, as MCRisk composes them: for   *)
(* every number of jobs, clients, threads, importers, rules, reviews and   *)
(* restarts.  Six arguments, one a section.                                *)
(*                                                                         *)
(* Approval: the audits of a case are its history: as many as its version  *)
(* says, the last one being the decision in force (Audited).  The gate     *)
(* reads the decision in the transaction that inserts the row, so that the *)
(* audit at the row's version is the approval, and audits are only ever    *)
(* appended.                                                               *)
(*                                                                         *)
(* Generation: a task that calls itself complete has answered for exactly  *)
(* the cases it inserted and those it still has to (Whole), and inserts    *)
(* only what is not in the book since it began, so that a repeated         *)
(* generation adds nothing to what an earlier complete one left.           *)
(*                                                                         *)
(* Ontology: the one who builds the catalogue holds the lock, and what a   *)
(* thread was handed is what the archive has.                              *)
(*                                                                         *)
(* Import: what an importer holds was verified one answer at a time and is *)
(* what its source vouches for (Imports); from the moment it may write     *)
(* it holds all it selected and agrees with the snapshot, and a finished   *)
(* importer never changes again, so that the file stays what it wrote.     *)
(*                                                                         *)
(* Execution: the rows read so far are among those counted, and a page is  *)
(* at most as long as what is missing, so that a read that ends with as    *)
(* many rows as were counted has read them all.                            *)
(*                                                                         *)
(* Traversal: the search is Dijkstra's, over states <<node, strength,      *)
(* relation hops>>. Every state kept is a walk's, and one that waits no    *)
(* longer has its extensions kept at no more IS_A hops (Settled), so that  *)
(* in the end every walk is covered, by its length. Walks may be of any    *)
(* length, while the reference counts those of fewer edges than there are  *)
(* nodes: before a best walk there are best walks of every smaller length, *)
(* each to another node (TightChain). The scope follows down the walks     *)
(* that only go up.                                                        *)
EXTENDS MCRisk, SequenceTheorems, FiniteSetTheorems, WellFoundedInduction, TLAPS

----
(* Approval.                                                                *)

Raw == Rules \cup {Malformed}
Audit == [action : {"approved", "rejected"}, confirmed : BOOLEAN]
Case == [rule : Rules, job : Jobs, base : Nat, version : Nat,
         review : {"pending_review", "approved", "rejected"},
         execution : {"blocked", "ready"}, audits : Seq(Audit)]
Statuses == {"running", "succeeded", "failed"}
Execution == [case : Nat, version : Nat, asked : Nat, status : Statuses, unsaved : BOOLEAN]

\* The fields of a task, a page and a request that the argument reads.
TaskOK(t) ==
    /\ {"pc", "left", "base"} \subseteq DOMAIN t
    /\ t.left \in Seq(Raw) /\ t.base \in Nat
    /\ t.pc = "insert" => t.left # <<>> /\ Head(t.left) \in Rules

Tasks == DOMAIN task = Jobs /\ \A j \in Jobs : task[j].pc # "none" => TaskOK(task[j])

Pages ==
    /\ DOMAIN view = Clients
    /\ \A u \in Clients : view[u] # None =>
          DOMAIN view[u] = {"case", "version"} /\ view[u].case \in DOMAIN cases

RequestOK(r) ==
    /\ {"pc", "cut", "case", "version", "row", "status"} \subseteq DOMAIN r
    /\ r.pc = "begin" => r.case \in DOMAIN cases
    /\ r.status \in Statuses

Calls == DOMAIN request = Clients /\ \A u \in Clients : request[u] # None => RequestOK(request[u])

\* The audits of a case tell its history, and the last one its review.
Audited(c) ==
    /\ Len(c.audits) + 1 = c.version
    /\ c.review = "approved" =>
          /\ c.version > 1 /\ c.rule \notin Incomplete
          /\ c.audits[c.version - 1].action = "approved" /\ c.audits[c.version - 1].confirmed

Rows ==
    /\ cases \in Seq(Case) /\ \A i \in DOMAIN cases : Audited(cases[i])
    /\ \A a \in adrift : a.case \in Case /\ Audited(a.case)
    /\ executions \in Seq(Execution)

\* What a row of executions says of the case it executed.
Approved(e) ==
    /\ e.case \in DOMAIN cases
    /\ e.version = e.asked /\ e.version > 1 /\ e.version <= cases[e.case].version
    /\ cases[e.case].audits[e.version - 1].action = "approved"
    /\ cases[e.case].audits[e.version - 1].confirmed
    /\ cases[e.case].rule \notin Incomplete

AllApproved == \A n \in DOMAIN executions : Approved(executions[n])

Inv == Tasks /\ Pages /\ Calls /\ Rows /\ AllApproved

LEMMA InitInv == Init => Inv
BY DEF Init, Inv, Tasks, Pages, Calls, Rows, AllApproved, NoTask, TaskOK

----
(* Cases.                                                                   *)

LEMMA NewIsAudited ==
    ASSUME NEW j \in Jobs, NEW content \in Rules, task[j].base \in Nat
    PROVE  NewCase(j, content) \in Case /\ Audited(NewCase(j, content))
<1>1. NewCase(j, content) \in Case
  BY DEF NewCase, Case
<1>2. NewCase(j, content).audits = <<>> /\ NewCase(j, content).version = 1
      /\ NewCase(j, content).review = "pending_review"
  BY DEF NewCase
<1> QED
  BY <1>1, <1>2 DEF Audited

\* One more case changes nothing for those there are.
LEMMA AppendKeeps ==
    ASSUME Inv, NEW c \in Case, Audited(c), cases' = Append(cases, c),
           UNCHANGED <<view, request, executions>>
    PROVE  /\ cases' \in Seq(Case) /\ \A i \in DOMAIN cases' : Audited(cases'[i])
           /\ (Pages /\ Calls /\ AllApproved)'
<1>1. /\ cases \in Seq(Case) /\ cases' \in Seq(Case) /\ Len(cases') = Len(cases) + 1
      /\ cases'[Len(cases) + 1] = c
      /\ \A i \in DOMAIN cases : i \in DOMAIN cases' /\ cases'[i] = cases[i]
  BY DEF Inv, Rows
<1>2. \A i \in DOMAIN cases' : Audited(cases'[i])
  BY <1>1 DEF Inv, Rows
<1>3. Pages' /\ Calls'
  BY <1>1 DEF Inv, Pages, Calls, RequestOK
<1>4. AllApproved'
  BY <1>1 DEF Inv, AllApproved, Approved
<1> QED
  BY <1>1, <1>2, <1>3, <1>4

----
(* Generation.                                                              *)

\* A step of one task that only changes its record.
LEMMA TaskStep ==
    ASSUME Inv, NEW j \in Jobs, NEW t, Become(j, t), t.pc # "none" => TaskOK(t),
           UNCHANGED <<adrift, cases, reviewVars>>
    PROVE  Inv'
<1>1. Tasks'
  BY DEF Inv, Tasks, Become
<1>2. (Pages /\ Calls /\ Rows /\ AllApproved)'
  BY DEF Inv, Pages, Calls, RequestOK, Rows, AllApproved, Approved, reviewVars
<1> QED
  BY <1>1, <1>2 DEF Inv

LEMMA StartInv ==
    ASSUME Inv, NEW j \in Jobs, Start(j) \/ StartCut(j)
    PROVE  Inv'
<1>1. ASSUME NEW why PROVE TaskOK(NewTask(why))
  BY DEF TaskOK, NewTask, Inv, Rows
<1>2. CASE Start(j)
  BY <1>1, <1>2, TaskStep DEF Start
<1>3. CASE StartCut(j)
  BY <1>3 DEF StartCut, Inv, Tasks, Pages, Calls, RequestOK, Rows, AllApproved, Approved, reviewVars
<1> QED
  BY <1>2, <1>3

LEMMA MovesInv ==
    ASSUME Inv, NEW j \in Jobs,
           Enter(j) \/ Acquire(j) \/ Succeed(j) \/ Break(j) \/ Finish(j)
             \/ FinishUnsaved(j) \/ EndAnchor(j) \/ Propagate(j)
    PROVE  Inv'
<1>1. UNCHANGED <<adrift, cases, reviewVars>>
  BY DEF Enter, Acquire, Succeed, Break, Finish, FinishUnsaved, EndAnchor, Propagate
<1>2. task[j].pc # "none" => TaskOK(task[j])
  BY DEF Inv, Tasks
<1>3. CASE Finish(j) \/ FinishUnsaved(j)
  BY <1>1, <1>3, TaskStep DEF Finish, FinishUnsaved, NoTask
<1>4. CASE Enter(j)
  BY <1>1, <1>2, <1>4, TaskStep DEF Enter, TaskOK
<1>5. CASE Acquire(j)
  BY <1>1, <1>2, <1>5, TaskStep DEF Acquire, TaskOK
<1>6. CASE Succeed(j)
  BY <1>1, <1>2, <1>6, TaskStep DEF Succeed, TaskOK
<1>7. CASE Break(j)
  BY <1>1, <1>2, <1>7, TaskStep DEF Break, TaskOK, Working
<1>8. CASE EndAnchor(j)
  BY <1>1, <1>2, <1>8, TaskStep DEF EndAnchor, TaskOK
<1>9. CASE Propagate(j)
  <2>1. task[j].pc = "anchor" /\ TaskOK(task[j])
    BY <1>2, <1>9 DEF Propagate
  <2>2. PICK outcome \in {"oversized", "cut", "cut_no_sources", "no_sources", "whole"} :
          LET tried == [task[j] EXCEPT !.anchors = Append(@, outcome),
                                      !.complete = @ /\ outcome \in {"whole", "no_sources"}]
          IN  \E t \in {[tried EXCEPT !.rejected = @ + 1], tried, [tried EXCEPT !.pc = "asking"]} :
                  Become(j, t)
    BY <1>9 DEF Propagate
  <2> DEFINE tried == [task[j] EXCEPT !.anchors = Append(@, outcome),
                                     !.complete = @ /\ outcome \in {"whole", "no_sources"}]
  <2>3. TaskOK(tried) /\ tried.pc = "anchor"
    BY <2>1 DEF TaskOK
  <2> HIDE DEF tried
  <2>4. PICK t \in {[tried EXCEPT !.rejected = @ + 1], tried, [tried EXCEPT !.pc = "asking"]} :
          Become(j, t)
    BY <2>2 DEF tried
  <2>5. TaskOK(t)
    BY <2>3 DEF TaskOK
  <2> QED
    BY <1>1, <2>4, <2>5, TaskStep
<1> QED
  BY <1>3, <1>4, <1>5, <1>6, <1>7, <1>8, <1>9

LEMMA AnswerInv == ASSUME Inv, NEW j \in Jobs, Answer(j) PROVE Inv'
<1>1. task[j].pc = "asking" /\ TaskOK(task[j]) /\ UNCHANGED <<adrift, cases, reviewVars>>
  BY DEF Answer, Inv, Tasks
<1>2. PICK raws \in Answers :
        Become(j, [task[j] EXCEPT !.pc = "case",
                      !.left = SubSeq(raws, 1, Min({Len(raws), MaxRaw})),
                      !.answered = @ \cup ToSet(raws),
                      !.complete = @ /\ Len(raws) <= MaxRaw,
                      !.rejected = IF Len(raws) > MaxRaw THEN @ + 1 ELSE @])
  BY DEF Answer
<1>3. raws \in Seq(Raw) /\ Min({Len(raws), MaxRaw}) \in 0 .. Len(raws)
  <2>1. raws \in Seq(Raw) /\ MaxRaw \in Nat /\ Len(raws) \in Nat
    BY RiskAssumption DEF Raw
  <2>2. \E x \in {Len(raws), MaxRaw} : \A y \in {Len(raws), MaxRaw} : x <= y
    BY <2>1
  <2>3. /\ Min({Len(raws), MaxRaw}) \in {Len(raws), MaxRaw}
        /\ Min({Len(raws), MaxRaw}) <= Len(raws)
    BY <2>2 DEF Min
  <2> QED
    BY <2>1, <2>3
<1>4. SubSeq(raws, 1, Min({Len(raws), MaxRaw})) \in Seq(Raw)
  <2>1. ASSUME NEW n \in 0 .. Len(raws) PROVE SubSeq(raws, 1, n) \in Seq(Raw)
    <3>1. n \in Int /\ 1 \in Int /\ \A i \in 1 .. n : raws[i] \in Raw
      BY <1>3
    <3> QED
      BY <3>1, SubSeqProperties
  <2> QED
    BY <1>3, <2>1
<1> QED
  BY <1>1, <1>2, <1>4, TaskStep DEF TaskOK

LEMMA RejectInv == ASSUME Inv, NEW j \in Jobs, Reject(j) PROVE Inv'
<1>1. /\ TaskOK(task[j]) /\ task[j].left # <<>> /\ UNCHANGED <<adrift, cases, reviewVars>>
  BY DEF Reject, Inv, Tasks
<1>2. Tail(task[j].left) \in Seq(Raw)
  BY <1>1 DEF TaskOK
<1> QED
  BY <1>1, <1>2, TaskStep DEF Reject, TaskOK

LEMMA FindInv == ASSUME Inv, NEW j \in Jobs, Find(j) PROVE Inv'
<1>1. /\ TaskOK(task[j]) /\ task[j].left # <<>> /\ UNCHANGED <<adrift, cases, reviewVars>>
      /\ Head(task[j].left) # Malformed
  BY DEF Find, Inv, Tasks
<1>2. Tail(task[j].left) \in Seq(Raw) /\ Head(task[j].left) \in Rules
  BY <1>1 DEF TaskOK, Raw
<1> QED
  BY <1>1, <1>2, TaskStep DEF Find, TaskOK

LEMMA InsertInv == ASSUME Inv, NEW j \in Jobs, Insert(j) PROVE Inv'
<1>1. /\ TaskOK(task[j]) /\ task[j].left # <<>> /\ task[j].pc = "insert"
      /\ cases' = Append(cases, NewCase(j, Head(task[j].left)))
      /\ UNCHANGED <<adrift, reviewVars>>
  BY DEF Insert, Inv, Tasks, TaskOK
<1>2. Head(task[j].left) \in Rules /\ Tail(task[j].left) \in Seq(Raw) /\ task[j].base \in Nat
  BY <1>1 DEF TaskOK
<1>3. NewCase(j, Head(task[j].left)) \in Case /\ Audited(NewCase(j, Head(task[j].left)))
  BY <1>2, NewIsAudited
<1>4. /\ cases' \in Seq(Case) /\ \A i \in DOMAIN cases' : Audited(cases'[i])
      /\ (Pages /\ Calls /\ AllApproved)'
  BY <1>1, <1>3, AppendKeeps DEF reviewVars
<1> DEFINE t == [task[j] EXCEPT !.pc = "case", !.left = Tail(@), !.cases = @ \cup {Len(cases) + 1}]
<1>5. Become(j, t) /\ TaskOK(t)
  BY <1>1, <1>2 DEF Insert, TaskOK
<1> HIDE DEF t
<1>6. Tasks'
  BY <1>5 DEF Inv, Tasks, Become
<1>7. Rows'
  BY <1>1, <1>4 DEF Inv, Rows, reviewVars
<1> QED
  BY <1>4, <1>6, <1>7 DEF Inv

LEMMA LateInsertInv == ASSUME Inv, NEW a \in adrift, LateInsert(a) PROVE Inv'
<1>1. /\ a.case \in Case /\ Audited(a.case) /\ cases' = Append(cases, a.case)
      /\ adrift' = adrift \ {a} /\ UNCHANGED <<task, reviewVars>>
  BY DEF LateInsert, Inv, Rows
<1>2. /\ cases' \in Seq(Case) /\ \A i \in DOMAIN cases' : Audited(cases'[i])
      /\ (Pages /\ Calls /\ AllApproved)'
  BY <1>1, AppendKeeps DEF reviewVars
<1>3. Tasks' /\ Rows'
  BY <1>1, <1>2 DEF Inv, Tasks, Rows, reviewVars
<1> QED
  BY <1>2, <1>3 DEF Inv

----
(* The process.                                                             *)

LEMMA CloseInv == ASSUME Inv, Close PROVE Inv'
<1>1. UNCHANGED <<cases, reviewVars>>
  BY DEF Close
<1>2. Tasks'
  <2>1. ASSUME NEW j \in Jobs, task'[j].pc # "none" PROVE TaskOK(task'[j])
    <3>1. /\ task'[j] = IF task[j].pc = "new" THEN NoTask
                        ELSE IF task[j].pc \in Working \cup {"queue"}
                             THEN [task[j] EXCEPT !.pc = "saving", !.status = "failed"]
                        ELSE task[j]
      BY DEF Close
    <3>2. task[j].pc # "none" => TaskOK(task[j])
      BY DEF Inv, Tasks
    <3>3. CASE task[j].pc = "new"
      BY <2>1, <3>1, <3>3 DEF NoTask
    <3>4. CASE task[j].pc \in Working \cup {"queue"}
      BY <3>1, <3>2, <3>4 DEF TaskOK, Working
    <3>5. CASE task[j].pc \notin Working \cup {"queue"} /\ task[j].pc # "new"
      BY <2>1, <3>1, <3>2, <3>5
    <3> QED
      BY <3>3, <3>4, <3>5
  <2>2. DOMAIN task' = Jobs
    BY DEF Close
  <2> QED
    BY <2>1, <2>2 DEF Tasks
<1>3. ASSUME NEW a \in adrift' PROVE a.case \in Case /\ Audited(a.case)
  <2>1. CASE a \in adrift
    BY <2>1 DEF Inv, Rows
  <2>2. CASE a \notin adrift
    <3>1. PICK j \in Jobs : /\ task[j].pc = "insert"
                            /\ a = [job |-> j, case |-> NewCase(j, Head(task[j].left))]
      BY <2>2 DEF Close
    <3>2. TaskOK(task[j])
      BY <3>1 DEF Inv, Tasks
    <3>3. Head(task[j].left) \in Rules /\ task[j].base \in Nat
      BY <3>1, <3>2 DEF TaskOK
    <3> QED
      BY <3>1, <3>3, NewIsAudited
  <2> QED
    BY <2>1, <2>2
<1>4. (Pages /\ Calls /\ Rows /\ AllApproved)'
  BY <1>1, <1>3 DEF Inv, Pages, Calls, RequestOK, Rows, AllApproved, Approved, reviewVars
<1> QED
  BY <1>2, <1>4 DEF Inv

LEMMA EndsInv == ASSUME Inv, Exit \/ Crash \/ BasisChanges PROVE Inv'
<1>1. /\ UNCHANGED <<cases, view, executions>> /\ adrift' \subseteq adrift
      /\ task' = task \/ task' = [j \in Jobs |-> NoTask]
      /\ request' = request \/ request' = [u \in Clients |-> None]
  BY DEF Exit, Crash, BasisChanges, jobVars, reviewVars
<1>2. Tasks'
  BY <1>1 DEF Inv, Tasks, NoTask
<1>3. Calls'
  BY <1>1 DEF Inv, Calls, RequestOK
<1>4. (Pages /\ Rows /\ AllApproved)'
  BY <1>1 DEF Inv, Pages, Rows, AllApproved, Approved
<1> QED
  BY <1>2, <1>3, <1>4 DEF Inv

\* An execution keeps what it says of its case when its status is written.
LEMMA StatusKeeps ==
    ASSUME Inv, UNCHANGED cases, executions' \in Seq(Execution),
           DOMAIN executions' = DOMAIN executions,
           \A n \in DOMAIN executions :
              /\ executions'[n].case = executions[n].case
              /\ executions'[n].version = executions[n].version
              /\ executions'[n].asked = executions[n].asked
    PROVE  AllApproved'
BY DEF Inv, AllApproved, Approved

LEMMA OpenInv == ASSUME Inv, Open PROVE Inv'
<1>1. /\ UNCHANGED <<task, adrift, cases, view, request>>
      /\ executions' = [i \in DOMAIN executions |-> Interrupted(executions[i])]
      /\ executions \in Seq(Execution)
  BY DEF Open, Inv, Rows
<1>2. ASSUME NEW n \in DOMAIN executions
      PROVE  /\ Interrupted(executions[n]) \in Execution
             /\ Interrupted(executions[n]).case = executions[n].case
             /\ Interrupted(executions[n]).version = executions[n].version
             /\ Interrupted(executions[n]).asked = executions[n].asked
  <2>1. executions[n] \in Execution
    BY <1>1
  <2>2. CASE executions[n].status = "running"
    BY <2>1, <2>2 DEF Interrupted, Execution, Statuses
  <2>3. CASE executions[n].status # "running"
    BY <2>1, <2>3 DEF Interrupted
  <2> QED
    BY <2>2, <2>3
<1>3. executions' \in Seq(Execution) /\ DOMAIN executions' = DOMAIN executions
  BY <1>1, <1>2
<1>4. AllApproved'
  BY <1>1, <1>2, <1>3, StatusKeeps
<1> QED
  BY <1>1, <1>3, <1>4 DEF Inv, Tasks, Pages, Calls, RequestOK, Rows

----
(* Reviews and executions.                                                  *)

LEMMA LoadInv == ASSUME Inv, NEW u \in Clients, NEW i \in DOMAIN cases, Load(u, i) PROVE Inv'
<1>1. /\ view' = [view EXCEPT ![u] = [case |-> i, version |-> cases[i].version]]
      /\ UNCHANGED <<task, adrift, cases, request, executions>>
  BY DEF Load, jobVars
<1> QED
  BY <1>1 DEF Inv, Tasks, Pages, Calls, RequestOK, Rows, AllApproved, Approved

LEMMA ReviewInv ==
    ASSUME Inv, NEW u \in Clients, NEW action \in {"approved", "rejected"},
           NEW confirmed \in BOOLEAN, Review(u, action, confirmed)
    PROVE  Inv'
<1> DEFINE i == view[u].case
           c == cases[i]
           audit == [action |-> action, confirmed |-> confirmed]
           verdict == IF action = "approved" THEN "ready" ELSE "blocked"
           d == [rule |-> c.rule, job |-> c.job, base |-> c.base, version |-> c.version + 1,
                 review |-> action, execution |-> verdict, audits |-> Append(c.audits, audit)]
<1>1. /\ i \in DOMAIN cases /\ DOMAIN view[u] = {"case", "version"} /\ DOMAIN view = Clients
  BY DEF Review, Inv, Pages
<1>2. view' = [view EXCEPT ![u].version = @ + 1]
  BY DEF Review
<1>3. /\ UNCHANGED <<task, adrift, request, executions>>
      /\ action = "approved" => confirmed /\ c.rule \notin Incomplete
  BY DEF Review, Valid, jobVars
<1>4. c \in Case /\ Audited(c) /\ cases \in Seq(Case)
  BY <1>1 DEF Inv, Rows
<1>5. cases' = [cases EXCEPT ![i] = d]
  <2>1. cases' = [cases EXCEPT ![i] = Decided(c, action, confirmed)]
    BY DEF Review
  <2>2. Decided(c, action, confirmed) = [c EXCEPT !.version = @ + 1, !.review = action,
                                                  !.execution = verdict, !.audits = Append(@, audit)]
    BY DEF Decided
  <2> HIDE DEF audit, verdict, i, c
  <2>3. c \in [rule : Rules, job : Jobs, base : Nat, version : Nat,
               review : {"pending_review", "approved", "rejected"},
               execution : {"blocked", "ready"}, audits : Seq(Audit)]
    BY <1>4 DEF Case
  <2>4. Decided(c, action, confirmed) = d
    BY <2>2, <2>3
  <2> QED
    BY <2>1, <2>4
<1>6. /\ audit \in Audit /\ verdict \in {"blocked", "ready"}
      /\ audit.action = action /\ audit.confirmed = confirmed
  BY DEF Audit
<1>7. c.version \in Nat /\ c.audits \in Seq(Audit) /\ Len(c.audits) + 1 = c.version
  BY <1>4 DEF Case, Audited
<1> HIDE DEF d, audit, verdict, c, i
<1>8. /\ Append(c.audits, audit) \in Seq(Audit) /\ Len(Append(c.audits, audit)) = c.version
      /\ Append(c.audits, audit)[c.version] = audit
      /\ \A k \in 1 .. Len(c.audits) : Append(c.audits, audit)[k] = c.audits[k]
  BY <1>6, <1>7
<1>9. /\ d.version = c.version + 1 /\ d.rule = c.rule /\ d.review = action
      /\ d.audits = Append(c.audits, audit)
  BY DEF d
<1>10. d \in Case
  BY <1>4, <1>6, <1>7, <1>8 DEF Case, d
<1>11. Audited(d)
  BY <1>3, <1>6, <1>7, <1>8, <1>9 DEF Audited
<1>12. /\ cases' \in Seq(Case) /\ DOMAIN cases' = DOMAIN cases
       /\ cases'[i] = d /\ \A k \in DOMAIN cases \ {i} : cases'[k] = cases[k]
  BY <1>1, <1>4, <1>5, <1>10
<1>13. Rows'
  BY <1>3, <1>11, <1>12 DEF Inv, Rows
<1>14. Pages'
  BY <1>1, <1>2, <1>12 DEF Inv, Pages, i
<1>15. \A e \in Execution : Approved(e) => Approved(e)'
  <2> TAKE e \in Execution
  <2> HAVE Approved(e)
  <2>1. /\ e.case \in DOMAIN cases /\ e.version = e.asked /\ e.version > 1 /\ e.version \in Nat
        /\ e.version <= cases[e.case].version
        /\ cases[e.case].audits[e.version - 1].action = "approved"
        /\ cases[e.case].audits[e.version - 1].confirmed
        /\ cases[e.case].rule \notin Incomplete
    BY DEF Approved, Execution
  <2>2. CASE e.case = i
    <3>1. cases[i] = c
      BY DEF c
    <3>2. e.version - 1 \in 1 .. Len(c.audits) /\ e.version <= c.version + 1
      BY <1>7, <2>1, <2>2, <3>1
    <3>3. /\ d.audits[e.version - 1] = c.audits[e.version - 1]
          /\ d.rule = c.rule /\ e.version <= d.version
      BY <1>8, <1>9, <3>2
    <3> QED
      BY <1>12, <2>1, <2>2, <3>1, <3>3 DEF Approved
  <2>3. CASE e.case # i
    BY <1>12, <2>1, <2>3 DEF Approved
  <2> QED
    BY <2>2, <2>3
<1>16. AllApproved'
  BY <1>3, <1>15 DEF Inv, Rows, AllApproved
<1>17. Tasks' /\ Calls'
  BY <1>3, <1>12 DEF Inv, Tasks, Calls, RequestOK
<1> QED
  BY <1>13, <1>14, <1>16, <1>17 DEF Inv

\* A request begins, moves on or ends, and nothing else happens.
LEMMA CallStep ==
    ASSUME Inv, NEW u \in Clients, NEW r, request' = [request EXCEPT ![u] = r],
           r # None => RequestOK(r), UNCHANGED <<task, adrift, cases, view, executions>>
    PROVE  Inv'
<1>1. Calls'
  BY DEF Inv, Calls, RequestOK
<1> QED
  BY <1>1 DEF Inv, Tasks, Pages, Rows, AllApproved, Approved

LEMMA ExecuteInv == ASSUME Inv, NEW u \in Clients, Execute(u) PROVE Inv'
<1> DEFINE r == [pc |-> "begin", cut |-> FALSE, case |-> view[u].case, version |-> view[u].version,
                 row |-> 0, status |-> "failed"]
<1>1. /\ request' = [request EXCEPT ![u] = r] /\ UNCHANGED <<task, adrift, cases, view, executions>>
      /\ DOMAIN view[u] = {"case", "version"} /\ view[u].case \in DOMAIN cases
  BY DEF Execute, jobVars, Inv, Pages
<1>2. RequestOK(r)
  BY <1>1 DEF RequestOK, Statuses
<1> QED
  BY <1>1, <1>2, CallStep

LEMMA RequestStepInv ==
    ASSUME Inv, NEW u \in Clients, Refuse(u) \/ Cut(u) \/ Query(u)
    PROVE  Inv'
<1>1. /\ request[u] # None => RequestOK(request[u])
      /\ UNCHANGED <<task, adrift, cases, view, executions>>
  BY DEF Inv, Calls, Refuse, Cut, Query, jobVars
<1>2. CASE Refuse(u)
  BY <1>1, <1>2, CallStep DEF Refuse
<1>3. CASE Cut(u)
  <2>1. CASE request[u].pc = "begin" /\ request' = [request EXCEPT ![u] = [@ EXCEPT !.cut = TRUE]]
    BY <1>1, <1>3, <2>1, CallStep DEF Cut, RequestOK
  <2>2. CASE request[u].pc = "query" /\ request' = [request EXCEPT ![u] = [@ EXCEPT !.pc = "saving"]]
    BY <1>1, <1>3, <2>2, CallStep DEF Cut, RequestOK
  <2> QED
    BY <1>3, <2>1, <2>2 DEF Cut
<1>4. CASE Query(u)
  <2>1. PICK status \in {"succeeded", "failed"} :
          request' = [request EXCEPT ![u] = [@ EXCEPT !.pc = "saving", !.status = status]]
    BY <1>4 DEF Query
  <2>2. RequestOK([request[u] EXCEPT !.pc = "saving", !.status = status])
    BY <1>1, <1>4 DEF Query, RequestOK, Statuses
  <2> QED
    BY <1>1, <2>1, <2>2, CallStep
<1> QED
  BY <1>2, <1>3, <1>4

LEMMA RecordInv ==
    ASSUME Inv, NEW u \in Clients, Record(u) \/ RecordUnsaved(u)
    PROVE  Inv'
<1> DEFINE n == request[u].row
           e == IF Record(u) THEN [executions[n] EXCEPT !.status = request[u].status]
                ELSE [executions[n] EXCEPT !.unsaved = TRUE]
<1>1. /\ request' = [request EXCEPT ![u] = None] /\ UNCHANGED <<task, adrift, cases, view>>
      /\ request[u].status \in Statuses /\ executions \in Seq(Execution)
  BY DEF Record, RecordUnsaved, Inv, Calls, RequestOK, Rows, jobVars
<1>2. executions' = [executions EXCEPT ![n] = e]
  BY DEF Record, RecordUnsaved
<1>3. n \in DOMAIN executions =>
        /\ e \in Execution /\ e.case = executions[n].case
        /\ e.version = executions[n].version /\ e.asked = executions[n].asked
  <2> SUFFICES ASSUME n \in DOMAIN executions
               PROVE  /\ e \in Execution /\ e.case = executions[n].case
                      /\ e.version = executions[n].version /\ e.asked = executions[n].asked
    OBVIOUS
  <2>1. executions[n] \in Execution
    BY <1>1
  <2> QED
    BY <1>1, <2>1 DEF Execution
<1> HIDE DEF n, e
<1>4. DOMAIN executions' = DOMAIN executions /\ executions' \in Seq(Execution)
  <2>1. DOMAIN executions = 1 .. Len(executions) /\ Len(executions) \in Nat
    BY <1>1
  <2>2. executions' = [k \in 1 .. Len(executions) |-> IF k = n THEN e ELSE executions[k]]
    BY <1>1, <1>2, <2>1
  <2> QED
    BY <1>1, <1>3, <2>1, <2>2
<1>5. AllApproved'
  BY <1>1, <1>2, <1>3, <1>4, StatusKeeps
<1>6. Calls'
  BY <1>1 DEF Inv, Calls, RequestOK
<1> QED
  BY <1>1, <1>4, <1>5, <1>6 DEF Inv, Tasks, Pages, Rows

LEMMA BeginInv == ASSUME Inv, NEW u \in Clients, Begin(u) PROVE Inv'
<1> DEFINE r == request[u]
           c == cases[r.case]
           e == [case |-> r.case, version |-> c.version, asked |-> r.version,
                 status |-> "running", unsaved |-> FALSE]
           q == [r EXCEPT !.pc = IF r.cut THEN "saving" ELSE "query",
                          !.row = Len(executions) + 1]
<1>1. /\ UNCHANGED <<task, adrift, cases, view>> /\ executions' = Append(executions, e)
      /\ request' = [request EXCEPT ![u] = q] /\ r.pc = "begin"
      /\ c.version = r.version /\ c.review = "approved"
      /\ RequestOK(r)
  BY DEF Begin, Expect, Inv, Calls, jobVars
<1>2. r.case \in DOMAIN cases /\ c \in Case /\ Audited(c) /\ executions \in Seq(Execution)
      /\ cases \in Seq(Case)
  BY <1>1 DEF RequestOK, Inv, Rows
<1>3. /\ e.case = r.case /\ e.version = c.version /\ e.asked = r.version
      /\ e \in Execution
  <2> HIDE DEF r
  <2>1. r.case \in Nat
    BY <1>2
  <2> HIDE DEF c
  <2>2. c.version \in Nat
    BY <1>2 DEF Case
  <2> QED
    BY <1>1, <2>1, <2>2 DEF Execution, Statuses
<1>4. Approved(e)
  <2>1. c.version \in Nat /\ c.version > 1 /\ c.rule \notin Incomplete
        /\ c.audits[c.version - 1].action = "approved" /\ c.audits[c.version - 1].confirmed
    BY <1>1, <1>2 DEF Audited, Case
  <2> HIDE DEF e
  <2> QED
    BY <1>1, <1>2, <1>3, <2>1 DEF Approved
<1>5. RequestOK(q)
  BY <1>1 DEF RequestOK
<1>6. Calls'
  BY <1>1, <1>5 DEF Inv, Calls, RequestOK
<1>7. executions' \in Seq(Execution)
  BY SMTT(30), <1>1, <1>2, <1>3
<1>8. AllApproved'
  <2>1. \A n \in DOMAIN executions' : Approved(executions'[n])
    <3> HIDE DEF e
    <3> QED
      BY <1>1, <1>2, <1>3, <1>4 DEF Inv, AllApproved
  <2> QED
    BY <1>1, <2>1 DEF AllApproved, Approved
<1>9. Tasks' /\ Pages' /\ Rows'
  BY <1>1, <1>7 DEF Inv, Tasks, Pages, Rows
<1> QED
  BY <1>6, <1>8, <1>9 DEF Inv

----
LEMMA NextInv == Inv /\ [Next]_vars => Inv'
<1> SUFFICES ASSUME Inv, [Next]_vars PROVE Inv'
  OBVIOUS
<1>1. CASE Process
  BY <1>1, CloseInv, EndsInv, OpenInv, LateInsertInv DEF Process
<1>2. ASSUME NEW j \in Jobs, Generate(j) PROVE Inv'
  BY <1>2, StartInv, MovesInv, AnswerInv, RejectInv, FindInv, InsertInv DEF Generate
<1>3. ASSUME NEW u \in Clients, Serve(u) PROVE Inv'
  BY <1>3, LoadInv, ReviewInv, ExecuteInv, RequestStepInv, RecordInv, BeginInv DEF Serve
<1>4. CASE UNCHANGED vars
  BY <1>4 DEF vars, Inv, Tasks, Pages, Calls, RequestOK, Rows, AllApproved, Approved
<1> QED
  BY <1>1, <1>2, <1>3, <1>4 DEF Next

(* The strengthening, for every value of the constants.                    *)
THEOREM InvHolds == Spec => []Inv
BY InitInv, NextInv, PTL DEF Spec

(* Every row of executions runs a decision a person took and confirmed,    *)
(* and the one its requester had on screen.                                *)
THEOREM OnlyApprovedIsExecuted == Spec => []ExecutedWasApproved
<1>1. Inv => ExecutedWasApproved
  <2> SUFFICES ASSUME Inv, NEW e \in ToSet(executions) PROVE Approved(e)
    BY DEF ExecutedWasApproved, Approved
  <2>1. PICK n \in DOMAIN executions : e = executions[n]
    BY DEF ToSet
  <2> QED
    BY <2>1 DEF Inv, AllApproved
<1> QED
  BY <1>1, InvHolds, PTL

----
(* Generation.                                                              *)

Outcomes == {"oversized", "cut", "cut_no_sources", "no_sources", "whole"}

\* The rules of some of the cases.
RulesOf(book, C) == {book[i].rule : i \in C}

\* A case that would be inserted now is not older than one with its rule.
IsLater(base, content, book) ==
    base <= Len(book) /\ \A i \in DOMAIN book : book[i].rule = content => i > base

\* What a task's record says as long as it calls itself complete.
Whole(t, book) ==
    /\ {"pc", "status", "anchors", "left", "cases", "rejected", "complete", "answered", "base"}
          \subseteq DOMAIN t
    /\ t.pc \in Working \cup {"new", "queue", "saving"} /\ t.status \in Statuses
    /\ t.complete \in BOOLEAN /\ t.anchors \in Seq(Outcomes) /\ t.cases \subseteq DOMAIN book
    /\ t.pc \notin {"case", "insert", "saving"} => t.left = <<>>
    /\ t.status = "succeeded" => t.pc = "saving" /\ Len(t.anchors) = Anchors /\ t.left = <<>>
    /\ t.complete =>
          /\ ToSet(t.anchors) \subseteq {"whole", "no_sources"} /\ t.rejected = 0
          /\ t.answered = RulesOf(book, t.cases) \cup ToSet(t.left)

\* What a saved row says of a complete job.
RowOK(r, book) ==
    /\ {"status", "anchors", "cases", "rejected", "answered", "base", "complete"} \subseteq DOMAIN r
    /\ r.status \in Statuses
    /\ r.complete =>
          /\ Len(r.anchors) = Anchors /\ ToSet(r.anchors) \subseteq {"whole", "no_sources"}
          /\ r.rejected = 0 /\ r.cases \subseteq DOMAIN book
          /\ r.answered = RulesOf(book, r.cases)

Progress ==
    \A j \in Jobs : task[j].pc # "none" =>
        /\ Whole(task[j], cases) /\ task[j].base <= Len(cases)
        /\ task[j].pc = "insert" => IsLater(task[j].base, Head(task[j].left), cases)

\* A job that has a task has a row.
Stored ==
    /\ DOMAIN jobs = Jobs
    /\ \A j \in Jobs : jobs[j] # None \/ task[j].pc # "none" => RowOK(jobs[j], cases)

Late == \A a \in adrift : a.case.version = 1 /\ IsLater(a.case.base, a.case.rule, cases)

Bounds ==
    /\ api \in {"up", "closing", "down"} /\ stops \in 0..MaxStops /\ basis \in BOOLEAN
    /\ \A i \in DOMAIN cases : cases[i].version \in 1..MaxVersion

GenInv == Progress /\ Stored /\ Late /\ Bounds /\ RetryKeepsHistory

LEMMA GenInit == Init => GenInv
BY RiskAssumption DEF Init, GenInv, Progress, Stored, Late, Bounds, RetryKeepsHistory, NoTask

(* A record or a row stays what it is while cases are added and reviewed.  *)
LEMMA CasesGrow ==
    ASSUME NEW old, NEW new, DOMAIN old \subseteq DOMAIN new,
           \A i \in DOMAIN old : new[i].rule = old[i].rule
    PROVE  /\ \A t : Whole(t, old) => Whole(t, new)
           /\ \A r : RowOK(r, old) => RowOK(r, new)
<1>1. ASSUME NEW C, C \subseteq DOMAIN old PROVE RulesOf(new, C) = RulesOf(old, C)
  BY <1>1 DEF RulesOf
<1>2. ASSUME NEW t, Whole(t, old) PROVE Whole(t, new)
  BY <1>1, <1>2 DEF Whole
<1>3. ASSUME NEW r, RowOK(r, old) PROVE RowOK(r, new)
  BY <1>1, <1>3 DEF RowOK
<1> QED
  BY <1>2, <1>3

LEMMA StaysLater ==
    ASSUME NEW old \in Seq(Case), NEW new \in Seq(Case), Len(old) <= Len(new),
           \A i \in DOMAIN old : new[i].rule = old[i].rule,
           NEW base \in Nat, NEW content, IsLater(base, content, old)
    PROVE  IsLater(base, content, new)
<1>1. /\ Len(old) \in Nat /\ Len(new) \in Nat
      /\ DOMAIN old = 1 .. Len(old) /\ DOMAIN new = 1 .. Len(new)
  OBVIOUS
<1>2. ASSUME NEW i \in DOMAIN new, new[i].rule = content PROVE i > base
  <2>1. CASE i \in DOMAIN old
    BY <1>2, <2>1 DEF IsLater
  <2>2. CASE i \notin DOMAIN old
    BY <1>1, <2>2 DEF IsLater
  <2> QED
    BY <2>1, <2>2
<1> QED
  BY <1>1, <1>2 DEF IsLater

\* A step that leaves the cases as they are.
LEMMA CasesStay ==
    ASSUME GenInv, UNCHANGED cases, Progress', Stored', Late',
           api' \in {"up", "closing", "down"}, stops' \in 0..MaxStops, basis' \in BOOLEAN
    PROVE  GenInv'
BY DEF GenInv, Bounds, RetryKeepsHistory

\* A step of one task that changes no case: its record, and perhaps its row.
LEMMA TaskGen ==
    ASSUME Inv, GenInv, NEW j \in Jobs, NEW t, Become(j, t),
           t.pc # "none" => /\ Whole(t, cases) /\ t.base <= Len(cases)
                            /\ t.pc = "insert" => IsLater(t.base, Head(t.left), cases),
           \/ jobs' = jobs /\ task[j].pc # "none"
           \/ \E r : jobs' = [jobs EXCEPT ![j] = r] /\ RowOK(r, cases),
           UNCHANGED <<api, stops, basis, adrift, cases>>
    PROVE  GenInv'
<1>1. DOMAIN task' = Jobs /\ \A k \in Jobs : task'[k] = IF k = j THEN t ELSE task[k]
  BY DEF Become, Inv, Tasks
<1>2. Progress'
  BY <1>1 DEF GenInv, Progress
<1>3. Stored'
  BY <1>1 DEF GenInv, Stored
<1> QED
  BY <1>2, <1>3, CasesStay DEF GenInv, Late, Bounds

\* Saving a record that is not wrong stores a row that is not.
LEMMA RowOfWhole ==
    ASSUME NEW t, NEW book, Whole(t, book)
    PROVE  RowOK(Row(t), book)
<1>1. t.left = <<>> => ToSet(t.left) = {}
  BY DEF ToSet
<1> QED
  BY <1>1 DEF Row, RowOK, Whole

\* One more case, younger than the others with its rule.
LEMMA AppendGen ==
    ASSUME Inv, GenInv, NEW c \in Case, c.version = 1, IsLater(c.base, c.rule, cases),
           cases' = Append(cases, c)
    PROVE  /\ \A t : Whole(t, cases) => Whole(t, cases')
           /\ \A r : RowOK(r, cases) => RowOK(r, cases')
           /\ \A base \in Nat : \A content : IsLater(base, content, cases) => IsLater(base, content, cases')
           /\ Len(cases') = Len(cases) + 1 /\ DOMAIN cases' = DOMAIN cases \cup {Len(cases) + 1}
           /\ cases'[Len(cases) + 1] = c
           /\ RulesOf(cases', {Len(cases) + 1}) = {c.rule}
           /\ \A i \in DOMAIN cases' : cases'[i].version \in 1..MaxVersion
           /\ RetryKeepsHistory'
<1>1. /\ cases \in Seq(Case) /\ cases' \in Seq(Case) /\ Len(cases) \in Nat
      /\ Len(cases') = Len(cases) + 1 /\ DOMAIN cases' = DOMAIN cases \cup {Len(cases) + 1}
      /\ DOMAIN cases = 1 .. Len(cases) /\ cases'[Len(cases) + 1] = c
      /\ \A i \in DOMAIN cases : cases'[i] = cases[i]
  BY DEF Inv, Rows
<1>2. /\ \A t : Whole(t, cases) => Whole(t, cases')
      /\ \A r : RowOK(r, cases) => RowOK(r, cases')
  BY <1>1, CasesGrow
<1>3. \A base \in Nat : \A content : IsLater(base, content, cases) => IsLater(base, content, cases')
  <2>1. Len(cases) <= Len(cases') /\ \A i \in DOMAIN cases : cases'[i].rule = cases[i].rule
    BY <1>1
  <2> QED
    BY <1>1, <2>1, StaysLater
<1>4. \A i \in DOMAIN cases' : cases'[i].version \in 1..MaxVersion
  BY <1>1, RiskAssumption DEF GenInv, Bounds
<1>5. ASSUME NEW i \in DOMAIN cases', NEW k \in DOMAIN cases', i < k, cases'[i].rule = cases'[k].rule
      PROVE  i > cases'[k].base
  <2>1. i \in DOMAIN cases
    BY <1>1, <1>5
  <2>2. CASE k \in DOMAIN cases
    BY <1>1, <1>5, <2>1, <2>2 DEF GenInv, RetryKeepsHistory
  <2>3. CASE k = Len(cases) + 1
    BY <1>1, <1>5, <2>1, <2>3 DEF IsLater
  <2> QED
    BY <1>1, <2>2, <2>3
<1>6. RulesOf(cases', {Len(cases) + 1}) = {c.rule}
  BY <1>1 DEF RulesOf
<1> QED
  BY <1>1, <1>2, <1>3, <1>4, <1>5, <1>6 DEF RetryKeepsHistory

----
(* Generation.                                                              *)

LEMMA StartGen ==
    ASSUME Inv, GenInv, NEW j \in Jobs, Start(j) \/ StartCut(j)
    PROVE  GenInv'
<1>1. ASSUME NEW why \in BOOLEAN
      PROVE  /\ Whole(NewTask(why), cases) /\ NewTask(why).base <= Len(cases)
             /\ NewTask(why).pc = "new" /\ RowOK(Row(NewTask(why)), cases)
  <2>1. ToSet(<<>>) = {} /\ RulesOf(cases, {}) = {}
    BY DEF ToSet, RulesOf
  <2>2. Len(cases) \in Nat
    BY DEF Inv, Rows
  <2>3. Whole(NewTask(why), cases)
    BY <2>1 DEF Whole, NewTask, Statuses
  <2>4. NewTask(why).pc = "new" /\ NewTask(why).base = Len(cases)
    BY DEF NewTask
  <2> QED
    BY <2>2, <2>3, <2>4, RowOfWhole
<1>2. CASE Start(j)
  <2>1. PICK why \in WhyCoverage : Become(j, NewTask(why)) /\ Save(j, NewTask(why))
    BY <1>2 DEF Start
  <2>2. why \in BOOLEAN
    BY RiskAssumption
  <2>3. UNCHANGED <<api, stops, basis, adrift, cases>>
    BY <1>2 DEF Start
  <2> DEFINE t == NewTask(why)
  <2>4. Whole(t, cases) /\ t.base <= Len(cases) /\ t.pc = "new" /\ RowOK(Row(t), cases) /\ Become(j, t)
        /\ jobs' = [jobs EXCEPT ![j] = Row(t)]
    BY <1>1, <2>1, <2>2 DEF Save
  <2> HIDE DEF t
  <2> QED
    BY <2>3, <2>4, TaskGen
<1>3. CASE StartCut(j)
  <2>1. RowOK(Row(NewTask(TRUE)), cases)
    BY <1>1
  <2>2. Stored'
    BY <1>3, <2>1 DEF StartCut, Save, GenInv, Stored
  <2> QED
    BY <1>3, <2>2, CasesStay DEF StartCut, GenInv, Progress, Late, Bounds
<1> QED
  BY <1>2, <1>3

(* The task moves on, and what it holds stays.                             *)
LEMMA MovesGen ==
    ASSUME Inv, GenInv, NEW j \in Jobs,
           \/ Enter(j) \/ Acquire(j) \/ Break(j) \/ Succeed(j) \/ EndAnchor(j)
           \/ Finish(j) \/ FinishUnsaved(j)
    PROVE  GenInv'
<1> DEFINE t == task[j]
<1>1. /\ t.pc # "none" /\ Whole(t, cases) /\ t.base <= Len(cases)
      /\ UNCHANGED <<api, stops, basis, adrift, cases>>
  BY DEF Enter, Acquire, Break, Succeed, EndAnchor, Finish, FinishUnsaved, Working, GenInv, Progress
<1>2. ASSUME NEW stage \in {"queue", "anchor"}, t.pc \in {"new", "queue"} \/ (t.pc = "case" /\ t.left = <<>>)
      PROVE  /\ Whole([t EXCEPT !.pc = stage], cases) /\ [t EXCEPT !.pc = stage].pc = stage
             /\ [t EXCEPT !.pc = stage].base = t.base
  BY <1>1, <1>2 DEF Whole, Working
<1>3. ASSUME NEW status \in Statuses, status = "succeeded" => t.left = <<>> /\ Len(t.anchors) = Anchors
      PROVE  /\ Whole([t EXCEPT !.pc = "saving", !.status = status], cases)
             /\ [t EXCEPT !.pc = "saving", !.status = status].pc = "saving"
             /\ [t EXCEPT !.pc = "saving", !.status = status].base = t.base
  BY <1>1, <1>3 DEF Whole, Working
<1>4. CASE Enter(j) \/ Acquire(j)
  <2>1. PICK stage \in {"queue", "anchor"} : Become(j, [t EXCEPT !.pc = stage])
    BY <1>4 DEF Enter, Acquire
  <2>2. t.pc \in {"new", "queue"} /\ jobs' = jobs
    BY <1>4 DEF Enter, Acquire
  <2> DEFINE u == [t EXCEPT !.pc = stage]
  <2>3. Become(j, u) /\ Whole(u, cases) /\ u.pc = stage /\ u.base = t.base
    BY <1>2, <2>1, <2>2
  <2> HIDE DEF u
  <2> QED
    BY <1>1, <2>2, <2>3, TaskGen
<1>5. CASE Break(j)
  <2>1. Become(j, [t EXCEPT !.pc = "saving", !.status = "failed"]) /\ jobs' = jobs
    BY <1>5 DEF Break
  <2> QED
    BY <1>1, <1>3, <2>1, TaskGen DEF Statuses
<1>6. CASE Succeed(j)
  <2>1. Become(j, [t EXCEPT !.pc = "saving", !.status = "succeeded"]) /\ jobs' = jobs
        /\ t.pc = "anchor" /\ Len(t.anchors) = Anchors
    BY <1>6 DEF Succeed
  <2>2. t.left = <<>>
    BY <1>1, <2>1 DEF Whole
  <2> QED
    BY <1>1, <1>3, <2>1, <2>2, TaskGen DEF Statuses
<1>7. CASE EndAnchor(j)
  <2> DEFINE u == [t EXCEPT !.pc = "anchor"]
  <2>1. Whole(u, cases) /\ u.pc = "anchor" /\ u.base = t.base
    BY <1>2, <1>7 DEF EndAnchor
  <2>2. Become(j, u) /\ jobs' = [jobs EXCEPT ![j] = Row(u)]
    BY <1>7 DEF EndAnchor, Save
  <2> HIDE DEF u
  <2>3. RowOK(Row(u), cases)
    BY <2>1, RowOfWhole
  <2> QED
    BY <1>1, <2>1, <2>2, <2>3, TaskGen
<1>8. CASE Finish(j)
  <2>1. Become(j, NoTask) /\ jobs' = [jobs EXCEPT ![j] = Row(t)] /\ NoTask.pc = "none"
    BY <1>8 DEF Finish, Save, NoTask
  <2>2. RowOK(Row(t), cases)
    BY <1>1, RowOfWhole
  <2> QED
    BY <1>1, <2>1, <2>2, TaskGen
<1>9. CASE FinishUnsaved(j)
  <2>1. /\ Become(j, NoTask) /\ NoTask.pc = "none"
        /\ jobs' = [jobs EXCEPT ![j] = [jobs[j] EXCEPT !.unsaved = TRUE]]
    BY <1>9 DEF FinishUnsaved, NoTask
  <2>2. RowOK([jobs[j] EXCEPT !.unsaved = TRUE], cases)
    BY <1>1 DEF GenInv, Stored, RowOK
  <2> QED
    BY <1>1, <2>1, <2>2, TaskGen
<1> QED
  BY <1>4, <1>5, <1>6, <1>7, <1>8, <1>9

LEMMA SetOfAppend ==
    ASSUME NEW S, NEW s \in Seq(S), NEW e \in S
    PROVE  ToSet(Append(s, e)) = ToSet(s) \cup {e}
<1>1. /\ DOMAIN s = 1 .. Len(s) /\ DOMAIN Append(s, e) = 1 .. Len(s) + 1 /\ Len(s) \in Nat
      /\ Append(s, e)[Len(s) + 1] = e /\ \A i \in 1 .. Len(s) : Append(s, e)[i] = s[i]
  OBVIOUS
<1>2. ASSUME NEW x \in ToSet(Append(s, e)) PROVE x \in ToSet(s) \cup {e}
  BY <1>1 DEF ToSet
<1>3. ASSUME NEW x \in ToSet(s) \cup {e} PROVE x \in ToSet(Append(s, e))
  <2>1. CASE x = e
    BY <1>1, <2>1 DEF ToSet
  <2>2. CASE x \in ToSet(s)
    <3>1. PICK i \in 1 .. Len(s) : x = s[i]
      BY <1>1, <2>2 DEF ToSet
    <3>2. i \in DOMAIN Append(s, e) /\ Append(s, e)[i] = x
      BY <1>1, <3>1
    <3> QED
      BY <3>2 DEF ToSet
  <2> QED
    BY <1>3, <2>1, <2>2
<1> QED
  BY <1>2, <1>3

LEMMA PropagateGen == ASSUME Inv, GenInv, NEW j \in Jobs, Propagate(j) PROVE GenInv'
<1>1. /\ Whole(task[j], cases) /\ task[j].base <= Len(cases) /\ task[j].pc = "anchor"
      /\ UNCHANGED <<api, stops, basis, adrift, cases>>
  BY DEF Propagate, GenInv, Progress
<1>2. PICK outcome \in Outcomes :
        LET tried == [task[j] EXCEPT !.anchors = Append(@, outcome),
                                     !.complete = @ /\ outcome \in {"whole", "no_sources"}]
        IN  /\ jobs' = [jobs EXCEPT ![j] = Row(tried)]
            /\ \/ outcome = "oversized" /\ Become(j, [tried EXCEPT !.rejected = @ + 1])
               \/ outcome # "oversized" /\ Become(j, tried)
               \/ outcome # "oversized" /\ Become(j, [tried EXCEPT !.pc = "asking"])
  BY DEF Propagate, Save, Outcomes
<1> DEFINE tried == [task[j] EXCEPT !.anchors = Append(@, outcome),
                                    !.complete = @ /\ outcome \in {"whole", "no_sources"}]
<1>3. /\ Whole(tried, cases) /\ tried.pc = "anchor" /\ tried.base = task[j].base
      /\ outcome = "oversized" => ~tried.complete
  <2>1. ToSet(Append(task[j].anchors, outcome)) = ToSet(task[j].anchors) \cup {outcome}
    BY <1>1, SetOfAppend DEF Whole
  <2>2. Append(task[j].anchors, outcome) \in Seq(Outcomes)
    BY <1>1 DEF Whole
  <2>3. task[j].status # "succeeded"
    BY <1>1 DEF Whole
  <2> QED
    BY <1>1, <2>1, <2>2, <2>3 DEF Whole
<1> HIDE DEF tried
<1>4. RowOK(Row(tried), cases)
  BY <1>3, RowOfWhole
<1>5. ASSUME outcome = "oversized"
      PROVE  /\ Whole([tried EXCEPT !.rejected = @ + 1], cases)
             /\ [tried EXCEPT !.rejected = @ + 1].pc = "anchor"
             /\ [tried EXCEPT !.rejected = @ + 1].base = task[j].base
  BY <1>3, <1>5 DEF Whole
<1>6. /\ Whole([tried EXCEPT !.pc = "asking"], cases) /\ [tried EXCEPT !.pc = "asking"].pc = "asking"
      /\ [tried EXCEPT !.pc = "asking"].base = task[j].base
  BY <1>3 DEF Whole, Working
<1>7. \E t : /\ Become(j, t) /\ Whole(t, cases) /\ t.base = task[j].base
             /\ t.pc \in {"anchor", "asking"}
  BY <1>2, <1>3, <1>5, <1>6 DEF tried
<1>8. jobs' = [jobs EXCEPT ![j] = Row(tried)]
  BY <1>2 DEF tried
<1> QED
  BY <1>1, <1>4, <1>7, <1>8, TaskGen

LEMMA AnswerGen == ASSUME Inv, GenInv, NEW j \in Jobs, Answer(j) PROVE GenInv'
<1> DEFINE t == task[j]
<1>1. /\ Whole(t, cases) /\ t.base <= Len(cases) /\ t.pc = "asking"
      /\ UNCHANGED <<api, stops, basis, jobs, adrift, cases>>
  BY DEF Answer, GenInv, Progress
<1>2. PICK raws \in Answers :
        Become(j, [t EXCEPT !.pc = "case",
                      !.left = SubSeq(raws, 1, Min({Len(raws), MaxRaw})),
                      !.answered = @ \cup ToSet(raws),
                      !.complete = @ /\ Len(raws) <= MaxRaw,
                      !.rejected = IF Len(raws) > MaxRaw THEN @ + 1 ELSE @])
  BY DEF Answer
<1> DEFINE left == SubSeq(raws, 1, Min({Len(raws), MaxRaw}))
           u == [t EXCEPT !.pc = "case", !.left = left, !.answered = @ \cup ToSet(raws),
                          !.complete = @ /\ Len(raws) <= MaxRaw,
                          !.rejected = IF Len(raws) > MaxRaw THEN @ + 1 ELSE @]
<1>3. raws \in Seq(Raw) /\ Len(raws) \in Nat /\ MaxRaw \in Nat
  BY RiskAssumption DEF Raw
<1>4. ASSUME Len(raws) <= MaxRaw PROVE left = raws
  <2>1. Min({Len(raws), MaxRaw}) = Len(raws)
    BY <1>3, <1>4 DEF Min
  <2> QED
    BY <1>3, <2>1
<1> HIDE DEF left
<1>5. t.left = <<>> /\ ToSet(<<>>) = {} /\ t.status # "succeeded"
  BY <1>1 DEF Whole, ToSet
<1>6. Whole(u, cases) /\ u.pc = "case" /\ u.base = t.base
  <2>1. /\ u.pc = "case" /\ u.status = t.status /\ u.anchors = t.anchors /\ u.cases = t.cases
        /\ u.base = t.base /\ u.left = left /\ DOMAIN u = DOMAIN t
        /\ u.answered = t.answered \cup ToSet(raws) /\ u.complete = (t.complete /\ Len(raws) <= MaxRaw)
        /\ Len(raws) <= MaxRaw => u.rejected = t.rejected
    BY <1>1, <1>3 DEF Whole
  <2> HIDE DEF u
  <2>2. u.complete => t.complete /\ u.left = raws /\ u.rejected = t.rejected
    BY <1>4, <2>1
  <2>3. t.complete => t.answered = RulesOf(cases, t.cases)
    BY <1>1, <1>5 DEF Whole
  <2> QED
    BY <1>1, <1>5, <2>1, <2>2, <2>3 DEF Whole, Working
<1>7. Become(j, u)
  BY <1>2 DEF left
<1> HIDE DEF u
<1> QED
  BY <1>1, <1>6, <1>7, TaskGen

(* What is left to look at, after the first.                               *)
LEMMA TailOfLeft ==
    ASSUME NEW s \in Seq(Raw), s # <<>>
    PROVE  ToSet(s) = {Head(s)} \cup ToSet(Tail(s))
<1>1. Len(s) \in Nat \ {0} /\ Tail(s) \in Seq(Raw) /\ Len(Tail(s)) = Len(s) - 1 /\ Head(s) = s[1]
      /\ DOMAIN s = 1 .. Len(s) /\ DOMAIN Tail(s) = 1 .. Len(Tail(s))
  OBVIOUS
<1>2. \A i \in 1 .. Len(Tail(s)) : Tail(s)[i] = s[i + 1]
  BY <1>1
<1>3. ASSUME NEW i \in 1 .. Len(s) PROVE s[i] \in {Head(s)} \cup ToSet(Tail(s))
  <2>1. CASE i = 1
    BY <1>1, <2>1
  <2>2. CASE i # 1
    <3>1. i - 1 \in 1 .. Len(Tail(s)) /\ Tail(s)[i - 1] = s[i]
      BY <1>1, <1>2, <2>2
    <3>2. \A k \in DOMAIN Tail(s) : Tail(s)[k] \in ToSet(Tail(s))
      BY DEF ToSet
    <3> QED
      BY <1>1, <3>1, <3>2
  <2> QED
    BY <2>1, <2>2
<1>4. ASSUME NEW i \in 1 .. Len(Tail(s)) PROVE Tail(s)[i] \in ToSet(s)
  BY <1>1, <1>2 DEF ToSet
<1>5. Head(s) \in ToSet(s)
  BY <1>1 DEF ToSet
<1> QED
  BY <1>1, <1>3, <1>4, <1>5 DEF ToSet

LEMMA RejectGen == ASSUME Inv, GenInv, NEW j \in Jobs, Reject(j) PROVE GenInv'
<1> DEFINE t == task[j]
           u == [t EXCEPT !.left = Tail(@), !.complete = FALSE, !.rejected = @ + 1]
<1>1. /\ Whole(t, cases) /\ t.base <= Len(cases) /\ t.pc = "case"
      /\ Become(j, u) /\ UNCHANGED <<api, stops, basis, jobs, adrift, cases>>
  BY DEF Reject, GenInv, Progress
<1>2. t.status # "succeeded"
  BY <1>1 DEF Whole
<1>3. Whole(u, cases) /\ u.pc = "case" /\ u.base = t.base
  BY <1>1, <1>2 DEF Whole
<1> HIDE DEF u
<1> QED
  BY <1>1, <1>3, TaskGen

(* A set of numbers has a least one.                                       *)
Less == {p \in Nat \X Nat : p[1] < p[2]}

LEMMA LessWF == IsWellFoundedOn(Less, Nat)
BY NatLessThanWellFounded DEF OpToRel, Less

LEMMA LeastNat ==
    ASSUME NEW numbers, numbers \subseteq Nat, numbers # {}
    PROVE  \E x \in numbers : \A y \in numbers : x <= y
<1>1. PICK x \in numbers : \A y \in numbers : ~(<<y, x>> \in Less)
  BY LessWF, WFMin
<1>2. ASSUME NEW a \in Nat, NEW b \in Nat, a < b PROVE <<a, b>> \in Less
  <2>1. <<a, b>>[1] = a /\ <<a, b>>[2] = b /\ <<a, b>> \in Nat \X Nat
    OBVIOUS
  <2> QED
    BY <1>2, <2>1 DEF Less
<1>3. ASSUME NEW y \in numbers PROVE x <= y
  <2>1. ~(y < x)
    BY <1>1, <1>2, <1>3
  <2> QED
    BY <2>1
<1> QED
  BY <1>3

(* The newest of the cases with a rule is one of them.                     *)
LEMMA NewestIsOne ==
    ASSUME NEW n \in Nat, NEW S, S \subseteq 1 .. n, S # {}
    PROVE  Max(S) \in S
<1> DEFINE gaps == {n - x : x \in S}
<1>1. gaps \subseteq Nat /\ gaps # {}
  <2>1. \A x \in S : x \in 1 .. n /\ n - x \in Nat
    OBVIOUS
  <2> QED
    BY <2>1
<1>2. \E d \in gaps : \A e \in gaps : d <= e
  <2> HIDE DEF gaps
  <2> QED
    BY <1>1, LeastNat
<1>3. PICK d \in gaps : \A e \in gaps : d <= e
  BY <1>2
<1>4. PICK x \in S : d = n - x
  OBVIOUS
<1>5. \A y \in S : x >= y
  <2> TAKE y \in S
  <2>1. n - y \in gaps
    OBVIOUS
  <2> QED
    BY <1>3, <1>4, <2>1
<1> QED
  BY <1>5 DEF Max

LEMMA FindGen == ASSUME Inv, GenInv, NEW j \in Jobs, Find(j) PROVE GenInv'
<1> DEFINE t == task[j]
           same == CasesOf(Head(t.left))
<1>1. /\ Whole(t, cases) /\ t.base <= Len(cases) /\ t.pc = "case" /\ t.left # <<>> /\ t.left \in Seq(Raw)
      /\ UNCHANGED <<api, stops, basis, jobs, adrift, cases>>
      /\ Become(j, IF same = {} THEN [t EXCEPT !.pc = "insert"]
                   ELSE [t EXCEPT !.left = Tail(@), !.cases = @ \cup {Max(same)}])
  BY DEF Find, GenInv, Progress, Inv, Tasks, TaskOK
<1>2. t.status # "succeeded"
  BY <1>1 DEF Whole
<1>3. CASE same = {}
  <2> DEFINE u == [t EXCEPT !.pc = "insert"]
  <2>1. Whole(u, cases) /\ u.pc = "insert" /\ u.base = t.base /\ u.left = t.left
    BY <1>1, <1>2 DEF Whole, Working
  <2>2. IsLater(t.base, Head(t.left), cases)
    BY <1>1, <1>3 DEF IsLater, CasesOf
  <2>3. Become(j, u)
    BY <1>1, <1>3
  <2> HIDE DEF u, same
  <2> QED
    BY <1>1, <2>1, <2>2, <2>3, TaskGen
<1>4. CASE same # {}
  <2> DEFINE u == [t EXCEPT !.left = Tail(@), !.cases = @ \cup {Max(same)}]
  <2>1. Max(same) \in same
    <3>1. Len(cases) \in Nat /\ DOMAIN cases = 1 .. Len(cases)
      BY DEF Inv, Rows
    <3> QED
      BY <1>4, <3>1, NewestIsOne DEF CasesOf
  <2>2. Max(same) \in DOMAIN cases /\ cases[Max(same)].rule = Head(t.left)
    BY <2>1 DEF CasesOf
  <2>3. RulesOf(cases, t.cases \cup {Max(same)}) = RulesOf(cases, t.cases) \cup {Head(t.left)}
    BY <2>2 DEF RulesOf
  <2>4. ToSet(t.left) = {Head(t.left)} \cup ToSet(Tail(t.left))
    BY <1>1, TailOfLeft
  <2>5. Become(j, u)
    BY <1>1, <1>4
  <2> HIDE DEF same
  <2>6. Whole(u, cases) /\ u.pc = "case" /\ u.base = t.base
    BY <1>1, <1>2, <2>2, <2>3, <2>4 DEF Whole
  <2> HIDE DEF u
  <2> QED
    BY <1>1, <2>5, <2>6, TaskGen
<1> QED
  BY <1>3, <1>4

(* The case that is inserted has no elder that its job could have found.   *)
LEMMA InsertGen == ASSUME Inv, GenInv, NEW j \in Jobs, Insert(j) PROVE GenInv'
<1> DEFINE t == task[j]
           c == NewCase(j, Head(t.left))
           u == [t EXCEPT !.pc = "case", !.left = Tail(@), !.cases = @ \cup {Len(cases) + 1}]
<1>1. /\ Whole(t, cases) /\ t.base <= Len(cases) /\ t.base \in Nat /\ t.pc = "insert" /\ t.left # <<>>
      /\ t.left \in Seq(Raw) /\ Head(t.left) \in Rules /\ IsLater(t.base, Head(t.left), cases)
      /\ UNCHANGED <<api, stops, basis, jobs, adrift>> /\ cases' = Append(cases, c) /\ Become(j, u)
  BY DEF Insert, GenInv, Progress, Inv, Tasks, TaskOK
<1>2. c \in Case /\ c.version = 1 /\ c.base = t.base /\ c.rule = Head(t.left)
  BY <1>1, NewIsAudited DEF NewCase
<1> HIDE DEF c
<1>3. /\ \A x : Whole(x, cases) => Whole(x, cases')
      /\ \A r : RowOK(r, cases) => RowOK(r, cases')
      /\ \A base \in Nat : \A content : IsLater(base, content, cases) => IsLater(base, content, cases')
      /\ Len(cases') = Len(cases) + 1 /\ DOMAIN cases' = DOMAIN cases \cup {Len(cases) + 1}
      /\ RulesOf(cases', {Len(cases) + 1}) = {c.rule}
      /\ \A i \in DOMAIN cases' : cases'[i].version \in 1..MaxVersion
      /\ RetryKeepsHistory'
  BY <1>1, <1>2, AppendGen
<1>4. Whole(u, cases')
  <2>1. Whole(t, cases')
    BY <1>1, <1>3
  <2>2. RulesOf(cases', t.cases \cup {Len(cases) + 1}) = RulesOf(cases', t.cases) \cup {c.rule}
    BY <1>3 DEF RulesOf
  <2>3. ToSet(t.left) = {Head(t.left)} \cup ToSet(Tail(t.left)) /\ t.status # "succeeded"
    BY <1>1, TailOfLeft DEF Whole
  <2>4. /\ DOMAIN u = DOMAIN t /\ u.pc = "case" /\ u.left = Tail(t.left)
        /\ u.cases = t.cases \cup {Len(cases) + 1} /\ u.status = t.status /\ u.anchors = t.anchors
        /\ u.complete = t.complete /\ u.rejected = t.rejected /\ u.answered = t.answered
    BY <2>1 DEF Whole
  <2> HIDE DEF t, u
  <2> QED
    BY <1>1, <1>2, <1>3, <2>1, <2>2, <2>3, <2>4 DEF Whole, Working
<1>5. u.base = t.base /\ u.pc = "case"
  BY <1>1 DEF Whole
<1> HIDE DEF u
<1>6. DOMAIN task' = Jobs /\ \A k \in Jobs : task'[k] = IF k = j THEN u ELSE task[k]
  BY <1>1 DEF Become, Inv, Tasks
<1>7. Len(cases) \in Nat /\ Len(cases') \in Nat
  BY <1>3 DEF Inv, Rows
<1>8. Progress'
  <2>1. ASSUME NEW k \in Jobs, task'[k].pc # "none"
        PROVE  /\ Whole(task'[k], cases') /\ task'[k].base <= Len(cases')
               /\ task'[k].pc = "insert" => IsLater(task'[k].base, Head(task'[k].left), cases')
    <3>1. CASE k = j
      BY <1>1, <1>3, <1>4, <1>5, <1>6, <1>7, <3>1
    <3>2. CASE k # j
      <4>1. task'[k] = task[k] /\ task[k].base \in Nat
        BY <1>6, <2>1, <3>2 DEF Inv, Tasks, TaskOK
      <4> QED
        BY <1>3, <1>7, <2>1, <4>1 DEF GenInv, Progress
    <3> QED
      BY <3>1, <3>2
  <2> QED
    BY <2>1 DEF Progress
<1>9. Stored'
  <2>1. \A k \in Jobs : task'[k].pc # "none" => task[k].pc # "none"
    BY <1>6 DEF Insert
  <2> QED
    BY <1>1, <1>3, <2>1 DEF GenInv, Stored
<1>10. Late'
  BY <1>1, <1>3 DEF GenInv, Late, Inv, Rows, Case
<1> QED
  BY <1>1, <1>3, <1>8, <1>9, <1>10 DEF GenInv, Bounds

LEMMA LateInsertGen == ASSUME Inv, GenInv, NEW a \in adrift, LateInsert(a) PROVE GenInv'
<1> DEFINE c == a.case
<1>1. /\ c \in Case /\ c.version = 1 /\ IsLater(c.base, c.rule, cases) /\ cases' = Append(cases, c)
      /\ adrift' \subseteq adrift /\ UNCHANGED <<api, stops, basis, jobs, task>>
  BY DEF LateInsert, Inv, Rows, GenInv, Late
<1> HIDE DEF c
<1>2. /\ \A x : Whole(x, cases) => Whole(x, cases')
      /\ \A r : RowOK(r, cases) => RowOK(r, cases')
      /\ \A base \in Nat : \A content : IsLater(base, content, cases) => IsLater(base, content, cases')
      /\ Len(cases') = Len(cases) + 1
      /\ \A i \in DOMAIN cases' : cases'[i].version \in 1..MaxVersion
      /\ RetryKeepsHistory'
  BY <1>1, AppendGen
<1>3. Len(cases) \in Nat /\ Len(cases') \in Nat
  BY <1>2 DEF Inv, Rows
<1>4. Progress'
  BY <1>1, <1>2, <1>3 DEF GenInv, Progress, Inv, Tasks, TaskOK
<1>5. Stored' /\ Late'
  BY <1>1, <1>2 DEF GenInv, Stored, Late, Inv, Rows, Case
<1> QED
  BY <1>1, <1>2, <1>4, <1>5 DEF GenInv, Bounds

----
(* The process.                                                             *)

\* A cancelled task only saves; the insert it was in comes later.
LEMMA OneStop ==
    ASSUME GenInv, stops < MaxStops
    PROVE  stops + 1 \in 0..MaxStops
<1>1. stops \in 0..MaxStops /\ MaxStops \in Nat
  BY RiskAssumption DEF GenInv, Bounds
<1> QED
  BY <1>1

LEMMA CloseGen == ASSUME Inv, GenInv, Close PROVE GenInv'
<1>1. UNCHANGED <<basis, jobs, cases>> /\ api' \in {"up", "closing", "down"} /\ stops' \in 0..MaxStops
  BY OneStop DEF Close
<1>2. Progress'
  <2>1. ASSUME NEW j \in Jobs, task'[j].pc # "none"
        PROVE  /\ Whole(task'[j], cases) /\ task'[j].base <= Len(cases)
               /\ task'[j].pc # "insert"
    <3> DEFINE t == task[j]
    <3>1. task'[j] = IF t.pc = "new" THEN NoTask
                     ELSE IF t.pc \in Working \cup {"queue"}
                          THEN [t EXCEPT !.pc = "saving", !.status = "failed"]
                     ELSE t
      BY DEF Close
    <3>2. t.pc # "none" => Whole(t, cases) /\ t.base <= Len(cases)
      BY DEF GenInv, Progress
    <3>3. CASE t.pc \in Working \cup {"queue"}
      <4>1. task'[j] = [t EXCEPT !.pc = "saving", !.status = "failed"] /\ t.pc # "none"
        BY <3>1, <3>3 DEF Working
      <4>2. Whole(task'[j], cases) /\ task'[j].base = t.base /\ task'[j].pc = "saving"
        BY <3>2, <4>1 DEF Whole, Statuses
      <4> QED
        BY <3>2, <4>1, <4>2
    <3>4. CASE t.pc \notin Working \cup {"queue"}
      BY <2>1, <3>1, <3>2, <3>4 DEF NoTask, Working
    <3> QED
      BY <3>3, <3>4
  <2> QED
    BY <1>1, <2>1 DEF Progress
<1>3. Late'
  <2>1. ASSUME NEW a \in adrift' PROVE a.case.version = 1 /\ IsLater(a.case.base, a.case.rule, cases)
    <3>1. CASE a \in adrift
      BY <3>1 DEF GenInv, Late
    <3>2. CASE a \notin adrift
      <4>1. PICK j \in Jobs : /\ task[j].pc = "insert"
                              /\ a = [job |-> j, case |-> NewCase(j, Head(task[j].left))]
        BY <3>2 DEF Close
      <4>2. /\ a.case.version = 1 /\ a.case.base = task[j].base /\ a.case.rule = Head(task[j].left)
        BY <4>1 DEF NewCase
      <4> QED
        BY <4>1, <4>2 DEF GenInv, Progress
    <3> QED
      BY <3>1, <3>2
  <2> QED
    BY <1>1, <2>1 DEF Late
<1>4. Stored'
  <2>1. \A j \in Jobs : task'[j].pc # "none" => task[j].pc # "none"
    BY DEF Close, NoTask, Working
  <2> QED
    BY <1>1, <2>1 DEF GenInv, Stored
<1> QED
  BY <1>1, <1>2, <1>3, <1>4, CasesStay DEF GenInv, Bounds

LEMMA EndsGen == ASSUME Inv, GenInv, Exit \/ Crash \/ BasisChanges PROVE GenInv'
<1>1. /\ UNCHANGED <<cases, jobs>> /\ adrift' \subseteq adrift
      /\ task' = task \/ task' = [j \in Jobs |-> NoTask]
      /\ api' \in {"up", "closing", "down"} /\ stops' \in 0..MaxStops /\ basis' \in BOOLEAN
  BY OneStop DEF Exit, Crash, BasisChanges, jobVars, reviewVars, GenInv, Bounds
<1>2. Progress'
  BY <1>1 DEF GenInv, Progress, NoTask
<1>3. Stored'
  BY <1>1 DEF GenInv, Stored, NoTask
<1> QED
  BY <1>1, <1>2, <1>3, CasesStay DEF GenInv, Late

LEMMA OpenGen == ASSUME Inv, GenInv, Open PROVE GenInv'
<1>1. /\ UNCHANGED <<stops, basis, task, adrift, cases>> /\ api' = "up"
      /\ jobs' = [j \in Jobs |-> IF jobs[j] = None THEN None ELSE Interrupted(jobs[j])]
  BY DEF Open
<1>2. ASSUME NEW r, RowOK(r, cases) PROVE RowOK(Interrupted(r), cases)
  BY <1>2 DEF Interrupted, RowOK, Statuses
<1>3. Stored'
  BY <1>1, <1>2 DEF GenInv, Stored
<1> QED
  BY <1>1, <1>3, CasesStay DEF GenInv, Progress, Late, Bounds

----
(* Reviews and executions leave the generations alone.                      *)

LEMMA ReviewGen ==
    ASSUME Inv, GenInv, NEW u \in Clients, NEW action \in {"approved", "rejected"},
           NEW confirmed \in BOOLEAN, Review(u, action, confirmed)
    PROVE  GenInv'
<1> DEFINE i == view[u].case
<1>1. /\ i \in DOMAIN cases /\ cases \in Seq(Case) /\ cases[i].version < MaxVersion
      /\ cases' = [cases EXCEPT ![i] = Decided(cases[i], action, confirmed)]
      /\ UNCHANGED <<api, stops, basis, jobs, task, adrift>>
  BY DEF Review, Inv, Pages, Rows, jobVars
<1> HIDE DEF i
<1>2. cases[i] \in Case
  BY <1>1
<1>3. /\ Decided(cases[i], action, confirmed).rule = cases[i].rule
      /\ Decided(cases[i], action, confirmed).base = cases[i].base
      /\ Decided(cases[i], action, confirmed).version = cases[i].version + 1
  BY <1>2 DEF Decided, Case
<1>4. /\ DOMAIN cases' = DOMAIN cases /\ Len(cases') = Len(cases)
      /\ \A k \in DOMAIN cases : cases'[k].rule = cases[k].rule /\ cases'[k].base = cases[k].base
      /\ \A k \in DOMAIN cases : cases'[k].version \in {cases[k].version, cases[i].version + 1}
  BY <1>1, <1>3
<1>5. /\ \A t : Whole(t, cases) => Whole(t, cases')
      /\ \A r : RowOK(r, cases) => RowOK(r, cases')
  BY <1>4, CasesGrow
<1>6. \A base, content : IsLater(base, content, cases) => IsLater(base, content, cases')
  BY <1>4 DEF IsLater
<1>7. Progress' /\ Stored' /\ Late'
  BY <1>1, <1>4, <1>5, <1>6 DEF GenInv, Progress, Stored, Late
<1>8. RetryKeepsHistory'
  BY <1>4 DEF GenInv, RetryKeepsHistory
<1>9. Bounds'
  <2>1. \A k \in DOMAIN cases : cases[k].version \in 1..MaxVersion
    BY DEF GenInv, Bounds
  <2>2. cases[i].version + 1 \in 1..MaxVersion
    BY <1>1, <2>1, RiskAssumption
  <2> QED
    BY <1>1, <1>4, <2>1, <2>2 DEF GenInv, Bounds
<1> QED
  BY <1>7, <1>8, <1>9 DEF GenInv

LEMMA GenNext == Inv /\ GenInv /\ [Next]_vars => GenInv'
<1> SUFFICES ASSUME Inv, GenInv, [Next]_vars PROVE GenInv'
  OBVIOUS
<1>1. CASE Process
  BY <1>1, CloseGen, EndsGen, OpenGen, LateInsertGen DEF Process
<1>2. ASSUME NEW j \in Jobs, Generate(j) PROVE GenInv'
  BY <1>2, StartGen, MovesGen, PropagateGen, AnswerGen, RejectGen, FindGen, InsertGen DEF Generate
<1>3. CASE UNCHANGED <<api, stops, basis, jobs, task, adrift, cases>>
  BY <1>3, CasesStay DEF GenInv, Progress, Stored, Late, Bounds
<1>4. ASSUME NEW u \in Clients, Serve(u) PROVE GenInv'
  <2>1. ASSUME NEW action \in {"approved", "rejected"}, NEW confirmed \in BOOLEAN,
               Review(u, action, confirmed)
        PROVE  GenInv'
    BY <2>1, ReviewGen
  <2>2. CASE \/ \E i \in DOMAIN cases : Load(u, i)
             \/ Execute(u) \/ Begin(u) \/ Refuse(u) \/ Cut(u) \/ Query(u) \/ Record(u)
             \/ RecordUnsaved(u)
    BY <1>3, <2>2 DEF Load, Execute, Begin, Refuse, Cut, Query, Record, RecordUnsaved, jobVars
  <2> QED
    BY <1>4, <2>1, <2>2 DEF Serve
<1> QED
  BY <1>1, <1>2, <1>3, <1>4 DEF Next, vars

(* A job submitted after a rule was stored opens no second case for it, and *)
(* a job that is saved as complete skipped no anchor, dropped no candidate  *)
(* and lists a case for every rule the model answered: for any number of    *)
(* jobs, anchors, candidates, clients and restarts.                         *)
THEOREM GenerationStaysSound == MCSpec => []GenerationIsSound
<1>1. MCInit => Inv /\ GenInv
  BY InitInv, GenInit DEF MCInit
<1>2. Inv /\ GenInv /\ [MCNext]_allVars => (Inv /\ GenInv)'
  <2> SUFFICES ASSUME Inv, GenInv, [MCNext]_allVars PROVE Inv' /\ GenInv'
    OBVIOUS
  <2>1. [Next]_vars
    BY DEF MCNext, allVars, vars
  <2> QED
    BY <2>1, NextInv, GenNext
<1>3. Inv /\ GenInv => GenerationIsSound
  <2> SUFFICES ASSUME Inv, GenInv PROVE GenerationIsSound
    OBVIOUS
  <2>1. TypeOK
    <3>1. \A j \in Jobs : /\ jobs[j] = None \/ jobs[j].status \in Statuses
                          /\ task[j].pc \in Working \cup {"none", "new", "queue", "saving"}
      BY DEF GenInv, Progress, Whole, Stored, RowOK
    <3>2. \A i \in DOMAIN cases : /\ cases[i].rule \in Rules
                                  /\ cases[i].review \in {"pending_review", "approved", "rejected"}
                                  /\ cases[i].execution \in {"blocked", "ready"}
      <4>1. \A i \in DOMAIN cases : cases[i] \in Case
        BY DEF Inv, Rows
      <4> QED
        BY <4>1 DEF Case
    <3>3. \A i \in DOMAIN executions : executions[i].status \in Statuses
      <4>1. \A i \in DOMAIN executions : executions[i] \in Execution
        BY DEF Inv, Rows
      <4> QED
        BY <4>1 DEF Execution
    <3> QED
      BY <3>1, <3>2, <3>3 DEF TypeOK, GenInv, Bounds, Inv, Pages, Statuses
  <2>2. CompleteMeansWhole
    BY DEF CompleteMeansWhole, GenInv, Stored, RowOK, RulesOf
  <2> QED
    BY <2>1, <2>2 DEF GenerationIsSound, GenInv
<1> QED
  BY <1>1, <1>2, <1>3, PTL DEF MCSpec

----
(* Ontology.                                                                *)

InLock == {"ready", "export", "save", "risk", "why", "archive", "check", "read"}

\* Whoever is inside a call has the lock.
LockIsHeld == \A t \in O!Threads : ontologyPc[t] \in InLock => lock = t

\* A call works with the local file, or with the dataset it found ready, which
\* is the cached one from then on.
CallReads ==
    \A t \in O!Threads :
        /\ ontologyPc[t] = "export" => config.remote /\ seen[t] \in Datasets
        /\ ontologyPc[t] = "ready" => config.remote
        /\ ontologyPc[t] \in {"save", "risk", "why"} =>
              (IF config.remote THEN got[t] = O!BaseDigest(seen[t]) /\ catalog = seen[t] /\ catalog # None
               ELSE got[t] = O!FileDigest(config.file))
        /\ ontologyPc[t] = "why" => config.remote /\ (todo \cup busy \cup read) = seen[t].why

\* The enriched catalogue is the cached dataset's.
CacheAgrees ==
    /\ catalog # None => catalog \in Datasets
    /\ risk # None => catalog # None /\ risk = [of |-> catalog, why |-> catalog.why]

\* What a call hands out stays what it was.
HandedOut ==
    \A t \in O!Threads :
        ontologyPc[t] \in {"archive", "keep", "record"} /\ got[t][1] = "risk" =>
            (got[t] = O!RiskDigest([of |-> seen[t], why |-> seen[t].why]))

AccessInv ==
    /\ DOMAIN ontologyPc = O!Threads /\ DOMAIN seen = O!Threads /\ DOMAIN got = O!Threads
    /\ remote \in Datasets
    /\ LockIsHeld /\ CallReads /\ CacheAgrees /\ HandedOut /\ O!RecordedIsArchived


LEMMA Access ==
    /\ None \notin O!Threads /\ None \notin Datasets
    /\ \A d, e \in Datasets : d.id = e.id /\ d.rev = e.rev => d = e
BY InputsAssumption DEF InputsAssumption, O!AccessAssumption

LEMMA AccessInit == O!Init => AccessInv
BY DEF O!Init, AccessInv, LockIsHeld, InLock, CallReads, CacheAgrees, HandedOut, O!RecordedIsArchived

(* A call that waits, or is over, promises nothing.                         *)
LEMMA FailInv == ASSUME AccessInv, NEW t \in O!Threads, O!Fail(t) PROVE AccessInv'
BY DEF AccessInv, LockIsHeld, InLock, CallReads, CacheAgrees, HandedOut, O!RecordedIsArchived,
       O!Fail, O!Done, O!Goto, O!memVars, O!whyVars

LEMMA CallAcquireInv == ASSUME AccessInv, NEW t \in O!Threads, O!Call(t) \/ O!Acquire(t) PROVE AccessInv'
<1> USE DEF O!Threads, O!Goto, O!Done, O!memVars, O!whyVars, O!Dataset, O!FileDigest, O!BaseDigest, O!RiskDigest,
            AccessInv, LockIsHeld, InLock, CallReads, CacheAgrees, HandedOut, O!RecordedIsArchived
<1>1. CASE O!Call(t)
  BY <1>1, FailInv, Access DEF O!Call
<1>2. ASSUME NEW where \in {"ready", "save"}, lock = None, lock' = t, O!Goto(t, where),
             got' = [got EXCEPT ![t] = IF config.remote THEN None ELSE O!FileDigest(config.file)],
             config.remote <=> where = "ready",
             UNCHANGED <<remote, config, O!memVars, seen, O!whyVars, archive>>
      PROVE  AccessInv'
  <2>1. \A u \in O!Threads : ontologyPc[u] \notin InLock
    BY <1>2, Access DEF AccessInv, LockIsHeld
  <2>2. /\ \A u \in O!Threads \ {t} : ontologyPc'[u] = ontologyPc[u] /\ got'[u] = got[u]
        /\ ontologyPc'[t] = where
        /\ got'[t] = IF config.remote THEN None ELSE O!FileDigest(config.file)
        /\ DOMAIN ontologyPc' = O!Threads /\ DOMAIN got' = O!Threads
    BY <1>2 DEF O!Goto, AccessInv
  <2> QED
    BY <1>2, <2>1, <2>2 DEF O!memVars, O!whyVars, O!FileDigest, AccessInv, LockIsHeld, InLock, CallReads,
       CacheAgrees, HandedOut, O!RecordedIsArchived
<1>3. CASE O!Acquire(t)
  BY <1>2, <1>3, FailInv DEF O!Acquire
<1> QED
  BY <1>1, <1>3

LEMMA ReadyExportInv == ASSUME AccessInv, NEW t \in O!Threads, O!Ready(t) \/ O!Export(t) PROVE AccessInv'
<1> USE DEF O!Threads, O!Goto, O!Done, O!memVars, O!whyVars, O!Dataset, O!FileDigest, O!BaseDigest, O!RiskDigest,
            AccessInv, LockIsHeld, InLock, CallReads, CacheAgrees, HandedOut, O!RecordedIsArchived
<1>1. ASSUME ontologyPc[t] = "ready", seen' = [seen EXCEPT ![t] = remote],
             UNCHANGED <<remote, config, lock, O!memVars, O!whyVars, archive>>,
             \/ /\ catalog # None /\ catalog.rev = remote.rev /\ catalog.id = remote.id
                /\ O!Goto(t, "save") /\ got' = [got EXCEPT ![t] = O!BaseDigest(catalog)]
             \/ O!Goto(t, "export") /\ UNCHANGED got
      PROVE  AccessInv'
  <2>1. \A u \in O!Threads \ {t} : ontologyPc[u] \notin InLock
    BY <1>1, Access
  <2>2. /\ DOMAIN ontologyPc' = O!Threads /\ DOMAIN seen' = O!Threads /\ DOMAIN got' = O!Threads
        /\ seen'[t] = remote /\ remote \in Datasets /\ config.remote
        /\ \A u \in O!Threads \ {t} :
              ontologyPc'[u] = ontologyPc[u] /\ got'[u] = got[u] /\ seen'[u] = seen[u]
    BY <1>1
  <2>3. \/ ontologyPc'[t] = "save" /\ catalog = remote /\ catalog # None /\ got'[t] = O!BaseDigest(remote)
        \/ ontologyPc'[t] = "export"
    BY <1>1, Access
  <2>4. LockIsHeld'
    BY <1>1, <2>1, <2>2
  <2>5. CallReads'
    BY <1>1, <2>1, <2>2, <2>3
  <2>6. CacheAgrees' /\ HandedOut' /\ O!RecordedIsArchived'
    BY <1>1, <2>2, <2>3
  <2> QED
    BY <1>1, <2>2, <2>4, <2>5, <2>6
<1>2. CASE O!Export(t)
  BY <1>2, FailInv, Access DEF O!Export
<1> QED
  BY <1>1, <1>2 DEF O!Ready

LEMMA SaveRecordInv == ASSUME AccessInv, NEW t \in O!Threads, O!Save(t) \/ O!Record(t) PROVE AccessInv'
<1> USE DEF O!Threads, O!Goto, O!Done, O!memVars, O!whyVars, O!Dataset, O!FileDigest, O!BaseDigest, O!RiskDigest,
            AccessInv, LockIsHeld, InLock, CallReads, CacheAgrees, HandedOut, O!RecordedIsArchived
<1>1. CASE O!Save(t)
  BY <1>1, FailInv, Access DEF O!Save
<1>2. CASE O!Record(t)
  BY <1>2, FailInv, Access DEF O!Record
<1> QED
  BY <1>1, <1>2

LEMMA RiskInv == ASSUME AccessInv, NEW t \in O!Threads, O!Risk(t) PROVE AccessInv'
<1> USE DEF O!Threads, O!Goto, O!Done, O!memVars, O!whyVars, O!Dataset, O!FileDigest, O!BaseDigest, O!RiskDigest,
            AccessInv, LockIsHeld, InLock, CallReads, CacheAgrees, HandedOut, O!RecordedIsArchived
<1>1. CASE O!Risk(t)
  BY SMTT(30), <1>1, FailInv, Access DEF O!Risk
<1> QED
  BY <1>1

LEMMA EnrichInv == ASSUME AccessInv, NEW t \in O!Threads, O!Enrich(t) PROVE AccessInv'
<1> USE DEF O!Threads, O!Goto, O!Done, O!memVars, O!whyVars, O!Dataset, O!FileDigest, O!BaseDigest, O!RiskDigest,
            AccessInv, LockIsHeld, InLock, CallReads, CacheAgrees, HandedOut, O!RecordedIsArchived
<1>1. CASE O!Enrich(t)
  BY <1>1, FailInv, Access DEF O!Enrich
<1> QED
  BY <1>1

LEMMA ArchiveKeepBreakInv == ASSUME AccessInv, NEW t \in O!Threads, O!Archive(t) \/ O!Keep(t) \/ O!Break(t) PROVE AccessInv'
<1> USE DEF O!Threads, O!Goto, O!Done, O!memVars, O!whyVars, O!Dataset, O!FileDigest, O!BaseDigest, O!RiskDigest,
            AccessInv, LockIsHeld, InLock, CallReads, CacheAgrees, HandedOut, O!RecordedIsArchived
<1>1. CASE O!Archive(t)
  BY <1>1, FailInv, Access DEF O!Archive
<1>2. CASE O!Keep(t)
  BY <1>2, FailInv, Access DEF O!Keep
<1>3. CASE O!Break(t)
  BY <1>3, FailInv, Access DEF O!Break
<1> QED
  BY <1>1, <1>2, <1>3

(* The remote is switched under every call; a restart ends them all.        *)
LEMMA WorldInv == ASSUME AccessInv, O!Restart \/ \E d \in Datasets : O!Switch(d) PROVE AccessInv'
<1> USE DEF O!threadVars, O!memVars, O!whyVars, AccessInv, LockIsHeld, InLock, CallReads, CacheAgrees,
            HandedOut, O!RecordedIsArchived
<1>1. CASE O!Restart
  BY <1>1 DEF O!Restart
<1>2. ASSUME NEW d \in Datasets, O!Switch(d) PROVE AccessInv'
  BY <1>2 DEF O!Switch
<1> QED
  BY <1>1, <1>2

LEMMA TakeAnswerInv ==
    ASSUME AccessInv, NEW t \in O!Threads, NEW c \in todo \cup busy, O!Take(t, c) \/ O!Answer(t, c)
    PROVE  AccessInv'
<1>1. (todo \cup busy \cup read)' = todo \cup busy \cup read
  BY DEF O!Take, O!Answer
<1>2. UNCHANGED <<remote, config, lock, catalog, risk, ontologyPc, seen, got, archive>>
  BY DEF O!Take, O!Answer, O!threadVars, O!memVars
<1> QED
  BY <1>1, <1>2 DEF AccessInv, LockIsHeld, CallReads, CacheAgrees, HandedOut, O!RecordedIsArchived

(* Who browses leaves the caches of the others alone, and records nothing.   *)
LEMMA BrowseInv ==
    ASSUME AccessInv, NEW t \in O!Threads,
           \/ \E g \in archive : O!Browse(t, g)
           \/ O!Check(t) \/ \E c : O!ReadConcept(t, c)
    PROVE  AccessInv'
<1> USE DEF O!Goto, O!Done, O!memVars, O!whyVars, AccessInv, LockIsHeld, InLock, CallReads, CacheAgrees,
            HandedOut, O!RecordedIsArchived
<1>1. ASSUME NEW g \in archive, O!Browse(t, g) PROVE AccessInv'
  BY <1>1, Access DEF O!Browse
<1>2. CASE O!Check(t)
  BY <1>2, Access DEF O!Check
<1>3. ASSUME NEW c, O!ReadConcept(t, c) PROVE AccessInv'
  BY <1>3, Access DEF O!ReadConcept
<1> QED
  BY <1>1, <1>2, <1>3

LEMMA AccessNext == AccessInv /\ [O!Next]_(O!vars) => AccessInv'
<1> SUFFICES ASSUME AccessInv, [O!Next]_(O!vars) PROVE AccessInv'
  OBVIOUS
<1>1. ASSUME NEW t \in O!Threads, O!Call(t) \/ O!Acquire(t) \/ O!Step(t) PROVE AccessInv'
  BY <1>1, CallAcquireInv, ReadyExportInv, SaveRecordInv, RiskInv, EnrichInv, ArchiveKeepBreakInv,
     TakeAnswerInv, BrowseInv DEF O!Step
<1>2. CASE UNCHANGED O!vars
  BY <1>2 DEF O!vars, O!threadVars, O!memVars, O!whyVars, AccessInv, LockIsHeld, CallReads, CacheAgrees,
     HandedOut, O!RecordedIsArchived
<1>3. ASSUME NEW t \in MatchThreads, NEW g \in archive, O!Browse(t, g) PROVE AccessInv'
  BY <1>3, BrowseInv DEF O!Threads
<1> QED
  BY <1>1, <1>2, <1>3, WorldInv DEF O!Next

(* The catalogue a job is recorded with is archived, and one that was       *)
(* enriched holds the WHY of every concept of the dataset its own call      *)
(* found ready: for any number of threads, datasets and configurations.     *)
THEOREM CatalogueStaysWhole == MCSpec => []CatalogueIsWhole
<1> DEFINE PInv == part = "ontology" => AccessInv
<1>1. MCInit => PInv
  BY AccessInit DEF MCInit
<1>2. PInv /\ [MCNext]_allVars => PInv'
  <2> SUFFICES ASSUME PInv, [MCNext]_allVars, part' = "ontology" PROVE AccessInv'
    OBVIOUS
  <2>1. part = "ontology" /\ [O!Next]_(O!vars)
    BY DEF MCNext, allVars, ontologyVars, O!vars, O!memVars, O!threadVars, O!whyVars
  <2> QED
    BY <2>1, AccessNext
<1>3. PInv => CatalogueIsWhole
  BY DEF CatalogueIsWhole, AccessInv, HandedOut, O!RiskIsWhole, O!RiskDigest
<1> QED
  BY <1>1, <1>2, <1>3, PTL DEF MCSpec

----
(* Import.                                                                  *)

Stages == {"new", "fetch", "build", "write", "link", "done", "failed", "dead"}

\* What an importer holds.
Imports(t) ==
    /\ t \in [stage : Stages, selected : SUBSET Nodes, imported : {t.imported}, source : Files \cup {None}]
    /\ \A n \in DOMAIN t.imported : W!Vouched(t, n, t.imported[n])
    /\ t.stage \in {"new", "fetch"} => t.source = None
    /\ t.stage \in {"build", "write", "link", "done"} => DOMAIN t.imported = t.selected
    /\ t.stage \in {"write", "link", "done"} =>
          \A n \in t.selected : snapshot[n] \in {None, Empty, t.imported[n]}

OutputWhole ==
    output # None =>
        /\ output.by \in Importers /\ whyImportTask[output.by].stage = "done"
        /\ output.content = W!Applied(output.by)

\* A finished importer is the one whose file is there.
ImportInv == DOMAIN whyImportTask = Importers /\ (\A i \in Importers : Imports(whyImportTask[i])) /\ OutputWhole

LEMMA ImportInit == W!Init => ImportInv
BY DEF W!Init, ImportInv, Imports, OutputWhole, W!NewTask, Stages, W!Vouched

\* An importer that is not finished moves on, and publishes nothing.
LEMMA ImportMoves ==
    ASSUME ImportInv, NEW i \in Importers, whyImportTask[i].stage # "done", NEW t,
           whyImportTask' = [whyImportTask EXCEPT ![i] = t], Imports(t), UNCHANGED <<snapshot, output>>
    PROVE  ImportInv'
<1>1. DOMAIN whyImportTask' = Importers /\ \A j \in Importers : Imports(whyImportTask'[j])
  BY DEF ImportInv
<1>2. \A j \in Importers : Imports(whyImportTask[j])'
  BY <1>1 DEF Imports
<1>3. OutputWhole'
  BY DEF ImportInv, OutputWhole, W!Applied
<1> QED
  BY <1>1, <1>2, <1>3 DEF ImportInv

LEMMA ImportStage ==
    ASSUME ImportInv, NEW i \in Importers, whyImportTask[i].stage # "done", NEW stage \in Stages,
           W!Move(i, stage), UNCHANGED <<snapshot, output>>,
           stage \notin {"new", "fetch"},
           stage \in {"build", "write", "link", "done"} => DOMAIN whyImportTask[i].imported = whyImportTask[i].selected,
           stage \in {"write", "link", "done"} => W!Agrees(i)
    PROVE  ImportInv'
<1> DEFINE t == [whyImportTask[i] EXCEPT !.stage = stage]
<1>1. Imports(whyImportTask[i]) /\ whyImportTask' = [whyImportTask EXCEPT ![i] = t]
  BY DEF ImportInv, W!Move
<1>2. t = [stage |-> stage, selected |-> whyImportTask[i].selected, imported |-> whyImportTask[i].imported,
           source |-> whyImportTask[i].source]
  BY <1>1 DEF Imports
<1>3. Imports(t)
  BY <1>1, <1>2 DEF Imports, W!Agrees, W!Vouched
<1> HIDE DEF t
<1> QED
  BY <1>1, <1>3, ImportMoves

LEMMA ImportBeginInv == ASSUME ImportInv, NEW i \in Importers, W!Begin(i) PROVE ImportInv'
<1>1. whyImportTask[i].stage = "new" /\ Imports(whyImportTask[i]) /\ UNCHANGED <<snapshot, output>>
  BY DEF W!Begin, ImportInv
<1>2. CASE W!Move(i, "failed")
  BY <1>1, <1>2, ImportStage DEF Stages
<1>3. ASSUME NEW selected \in (SUBSET Nodes) \ {{}},
             whyImportTask' = [whyImportTask EXCEPT ![i].stage = "fetch", ![i].selected = selected]
      PROVE  ImportInv'
  <2> DEFINE t == [whyImportTask[i] EXCEPT !.stage = "fetch", !.selected = selected]
  <2>1. whyImportTask' = [whyImportTask EXCEPT ![i] = t]
    BY <1>3
  <2>2. /\ t \in [stage : Stages, selected : SUBSET Nodes, imported : {whyImportTask[i].imported}, source : Files \cup {None}]
        /\ t.stage = "fetch" /\ t.selected = selected /\ t.imported = whyImportTask[i].imported
        /\ t.source = whyImportTask[i].source
    BY <1>1 DEF Imports, Stages
  <2> HIDE DEF t
  <2>3. Imports(t)
    BY <1>1, <2>2 DEF Imports, W!Vouched
  <2> QED
    BY <1>1, <2>1, <2>3, ImportMoves
<1> QED
  BY <1>2, <1>3 DEF W!Begin

LEMMA BeginOfflineInv == ASSUME W!ImportAssumption, ImportInv, NEW i \in Importers, W!BeginOffline(i) PROVE ImportInv'
<1>1. whyImportTask[i].stage = "new" /\ Imports(whyImportTask[i]) /\ UNCHANGED <<snapshot, output>>
  BY DEF W!BeginOffline, ImportInv
<1>2. CASE W!Move(i, "failed")
  BY <1>1, <1>2, ImportStage DEF Stages
<1>3. ASSUME NEW selected \in (SUBSET Nodes) \ {{}}, NEW file \in Files,
             \A a \in file : a.node \in Nodes /\ W!Verified(a, a.node),
             selected \subseteq {a.node : a \in file},
             whyImportTask' = [whyImportTask EXCEPT ![i] =
                         [stage |-> "build", selected |-> selected,
                          imported |-> [n \in selected |-> (CHOOSE a \in file : a.node = n).why],
                          source |-> file]]
      PROVE  ImportInv'
  <2> DEFINE t == [stage |-> "build", selected |-> selected,
                   imported |-> [n \in selected |-> (CHOOSE a \in file : a.node = n).why],
                   source |-> file]
  <2>1. ASSUME NEW n \in selected PROVE W!Vouched(t, n, (CHOOSE a \in file : a.node = n).why)
    <3>1. \E a \in file : a.node = n
      BY <1>3
    <3> DEFINE a == CHOOSE x \in file : x.node = n
    <3>2. a \in file /\ a.node = n
      BY <3>1
    <3> QED
      BY <1>3, <3>2 DEF W!ImportAssumption, W!Vouched
  <2>2. Imports(t)
    <3>1. /\ t \in [stage : Stages, selected : SUBSET Nodes, imported : {t.imported}, source : Files \cup {None}]
          /\ t.stage = "build" /\ DOMAIN t.imported = t.selected
      BY DEF Stages
    <3>2. \A n \in DOMAIN t.imported : W!Vouched(t, n, t.imported[n])
      BY <2>1
    <3> HIDE DEF t
    <3> QED
      BY <3>1, <3>2 DEF Imports
  <2> QED
    BY <1>1, <1>3, <2>2, ImportMoves
<1> QED
  BY <1>2, <1>3 DEF W!BeginOffline

LEMMA FetchInv == ASSUME ImportInv, NEW i \in Importers, W!Fetch(i) PROVE ImportInv'
<1>1. whyImportTask[i].stage = "fetch" /\ Imports(whyImportTask[i]) /\ UNCHANGED <<snapshot, output>>
  BY DEF W!Fetch, ImportInv
<1>2. CASE W!Move(i, "failed")
  BY <1>1, <1>2, ImportStage DEF Stages
<1>3. ASSUME NEW n \in whyImportTask[i].selected \ DOMAIN whyImportTask[i].imported, NEW a \in W!Responses(n),
             W!Verified(a, n),
             whyImportTask' = [whyImportTask EXCEPT
                ![i].imported = [x \in DOMAIN @ \cup {n} |-> IF x = n THEN a.why ELSE @[x]],
                ![i].stage = IF DOMAIN whyImportTask[i].imported \cup {n} = whyImportTask[i].selected
                             THEN "build" ELSE "fetch"]
      PROVE  ImportInv'
  <2> DEFINE held == whyImportTask[i].imported
             imported == [x \in DOMAIN held \cup {n} |-> IF x = n THEN a.why ELSE held[x]]
             stage == IF DOMAIN held \cup {n} = whyImportTask[i].selected THEN "build" ELSE "fetch"
             t == [whyImportTask[i] EXCEPT !.imported = imported, !.stage = stage]
  <2>1. whyImportTask' = [whyImportTask EXCEPT ![i] = t]
    BY <1>3
  <2>2. a.why = Why[PinnedRevision][n] /\ whyImportTask[i].source = None
    BY <1>1, <1>3 DEF W!Verified, W!Responses, W!Answer, Imports
  <2>3. /\ stage \in {"build", "fetch"} /\ (stage = "build" => DOMAIN imported = whyImportTask[i].selected)
        /\ \A x \in DOMAIN imported : imported[x] = Why[PinnedRevision][x]
    BY <1>1, <2>2 DEF Imports, W!Vouched
  <2> HIDE DEF imported, stage
  <2>4. /\ t \in [stage : Stages, selected : SUBSET Nodes, imported : {imported}, source : Files \cup {None}]
        /\ t.stage = stage /\ t.selected = whyImportTask[i].selected /\ t.imported = imported
        /\ t.source = None
    BY <1>1, <2>2, <2>3 DEF Imports, Stages
  <2> HIDE DEF t
  <2>5. Imports(t)
    BY <2>3, <2>4 DEF Imports, W!Vouched
  <2> QED
    BY <1>1, <2>1, <2>5, ImportMoves
<1> QED
  BY <1>2, <1>3 DEF W!Fetch

LEMMA ImportStageInv ==
    ASSUME ImportInv, NEW i \in Importers, W!Build(i) \/ W!Write(i) \/ W!Fail(i) \/ W!Crash(i)
    PROVE  ImportInv'
<1>1. Imports(whyImportTask[i]) /\ UNCHANGED <<snapshot, output>> /\ whyImportTask[i].stage # "done"
  BY DEF W!Build, W!Write, W!Fail, W!Crash, ImportInv
<1>2. PICK stage \in {"write", "link", "failed", "dead"} :
        /\ W!Move(i, stage)
        /\ stage = "write" => whyImportTask[i].stage = "build" /\ W!Agrees(i)
        /\ stage = "link" => whyImportTask[i].stage = "write"
  BY DEF W!Build, W!Write, W!Fail, W!Crash
<1>3. /\ stage \in {"write", "link"} => DOMAIN whyImportTask[i].imported = whyImportTask[i].selected /\ W!Agrees(i)
      /\ stage \in Stages
  BY <1>1, <1>2 DEF Imports, W!Agrees, Stages
<1> QED
  BY <1>1, <1>2, <1>3, ImportStage

LEMMA LinkInv == ASSUME ImportInv, NEW i \in Importers, W!Link(i) PROVE ImportInv'
<1>1. whyImportTask[i].stage = "link" /\ Imports(whyImportTask[i]) /\ UNCHANGED snapshot
  BY DEF W!Link, ImportInv
<1>2. CASE UNCHANGED output /\ W!Move(i, "failed")
  BY <1>1, <1>2, ImportStage DEF Stages
<1>3. CASE output' = [by |-> i, content |-> W!Applied(i)] /\ W!Move(i, "done")
  <2> DEFINE t == [stage |-> "done", selected |-> whyImportTask[i].selected,
                   imported |-> whyImportTask[i].imported, source |-> whyImportTask[i].source]
  <2>1. whyImportTask' = [whyImportTask EXCEPT ![i] = t]
    <3>1. whyImportTask' = [whyImportTask EXCEPT ![i] = [whyImportTask[i] EXCEPT !.stage = "done"]]
      BY <1>3 DEF W!Move
    <3>2. [whyImportTask[i] EXCEPT !.stage = "done"] = t
      BY <1>1 DEF Imports
    <3> QED
      BY <3>1, <3>2
  <2>2. Imports(t)
    BY <1>1 DEF Imports, Stages, W!Vouched
  <2>3. DOMAIN whyImportTask' = Importers /\ \A j \in Importers : Imports(whyImportTask'[j])
    BY <2>1, <2>2 DEF ImportInv
  <2>4. \A j \in Importers : Imports(whyImportTask[j])'
    BY <1>1, <2>3 DEF Imports
  <2>5. W!Applied(i)' = W!Applied(i)
    BY <1>1, <2>1 DEF W!Applied, ImportInv
  <2>6. whyImportTask'[i].stage = "done"
    BY <2>1 DEF ImportInv
  <2>7. OutputWhole'
    BY <1>3, <2>5, <2>6 DEF OutputWhole
  <2> QED
    BY <2>3, <2>4, <2>7 DEF ImportInv
<1> QED
  BY <1>2, <1>3 DEF W!Link

LEMMA ImportNext == W!ImportAssumption /\ ImportInv /\ [W!Next]_(W!vars) => ImportInv'
<1> SUFFICES ASSUME W!ImportAssumption, ImportInv, [W!Next]_(W!vars) PROVE ImportInv'
  OBVIOUS
<1>1. ASSUME NEW i \in Importers, W!Begin(i) \/ W!BeginOffline(i) \/ W!Fetch(i) PROVE ImportInv'
  BY <1>1, ImportBeginInv, BeginOfflineInv, FetchInv
<1>2. ASSUME NEW i \in Importers, W!Build(i) \/ W!Write(i) \/ W!Fail(i) \/ W!Crash(i) PROVE ImportInv'
  BY <1>2, ImportStageInv
<1>3. ASSUME NEW i \in Importers, W!Link(i) PROVE ImportInv'
  BY <1>3, LinkInv
<1>4. CASE W!Switch \/ UNCHANGED (W!vars)
  BY <1>4 DEF W!Switch, W!vars, ImportInv, Imports, OutputWhole, W!Applied
<1> QED
  BY <1>1, <1>2, <1>3, <1>4 DEF W!Next

\* An importer's temporary file and its claim of success are its own.
OwnsItsFile == temps \subseteq Importers /\ snapshot \in Snapshots /\ W!SuccessIsMine

LEMMA OneMoves ==
    ASSUME ImportInv, NEW i \in Importers, NEW stage, W!Move(i, stage)
    PROVE  /\ whyImportTask'[i].stage = stage
           /\ \A j \in Importers \ {i} : whyImportTask'[j] = whyImportTask[j]
<1>1. whyImportTask[i] \in [stage : Stages, selected : SUBSET Nodes, imported : {whyImportTask[i].imported}, source : Files \cup {None}]
  BY DEF ImportInv, Imports
<1> QED
  BY <1>1 DEF W!Move, ImportInv

(* An importer on its way to "write" owns nothing yet.                      *)
LEMMA OnItsWay ==
    ASSUME ImportInv, OwnsItsFile, NEW i \in Importers, whyImportTask[i].stage \in {"new", "fetch"},
           whyImportTask'[i].stage # "done", \A j \in Importers \ {i} : whyImportTask'[j] = whyImportTask[j],
           UNCHANGED <<snapshot, output, temps>>
    PROVE  OwnsItsFile'
BY DEF ImportInv, OwnsItsFile, W!SuccessIsMine

LEMMA OnItsWayInv ==
    ASSUME ImportInv, OwnsItsFile, NEW i \in Importers, W!Begin(i) \/ W!BeginOffline(i) \/ W!Fetch(i)
    PROVE  OwnsItsFile'
<1>1. /\ whyImportTask[i] \in
            [stage : Stages, selected : SUBSET Nodes, imported : {whyImportTask[i].imported}, source : Files \cup {None}]
      /\ whyImportTask[i].stage \in {"new", "fetch"} /\ UNCHANGED <<snapshot, output, temps>>
  BY DEF ImportInv, Imports, W!Begin, W!BeginOffline, W!Fetch
<1>2. CASE W!Move(i, "failed")
  BY <1>1, <1>2, OneMoves DEF OwnsItsFile, W!SuccessIsMine
<1>3. ASSUME NEW selected,
             whyImportTask' = [whyImportTask EXCEPT ![i].stage = "fetch", ![i].selected = selected]
      PROVE  OwnsItsFile'
  <2>1. /\ whyImportTask'[i].stage = "fetch"
        /\ \A j \in Importers \ {i} : whyImportTask'[j] = whyImportTask[j]
    BY <1>1, <1>3 DEF ImportInv
  <2> QED
    BY <1>1, <2>1, OnItsWay
<1>4. ASSUME NEW selected, NEW imported, NEW file,
             whyImportTask' = [whyImportTask EXCEPT
                ![i] = [stage |-> "build", selected |-> selected, imported |-> imported, source |-> file]]
      PROVE  OwnsItsFile'
  <2>1. /\ whyImportTask'[i].stage = "build"
        /\ \A j \in Importers \ {i} : whyImportTask'[j] = whyImportTask[j]
    BY <1>1, <1>4 DEF ImportInv
  <2> QED
    BY <1>1, <2>1, OnItsWay
<1>5. ASSUME NEW imported, NEW stage \in {"build", "fetch"},
             whyImportTask' = [whyImportTask EXCEPT ![i].imported = imported, ![i].stage = stage]
      PROVE  OwnsItsFile'
  <2>1. /\ whyImportTask'[i].stage = stage
        /\ \A j \in Importers \ {i} : whyImportTask'[j] = whyImportTask[j]
    BY <1>1, <1>5 DEF ImportInv
  <2> QED
    BY <1>1, <2>1, OnItsWay
<1>6. CASE W!Begin(i)
  BY <1>2, <1>3, <1>6 DEF W!Begin
<1>7. CASE W!BeginOffline(i)
  BY <1>2, <1>4, <1>7 DEF W!BeginOffline
<1>8. CASE W!Fetch(i)
  <2>1. ASSUME NEW n \in whyImportTask[i].selected \ DOMAIN whyImportTask[i].imported,
               NEW a \in W!Responses(n), ~W!Move(i, "failed"),
               whyImportTask' = [whyImportTask EXCEPT
                  ![i].imported = [x \in DOMAIN @ \cup {n} |-> IF x = n THEN a.why ELSE @[x]],
                  ![i].stage = IF DOMAIN whyImportTask[i].imported \cup {n} = whyImportTask[i].selected
                               THEN "build" ELSE "fetch"]
        PROVE  OwnsItsFile'
    BY <1>5, <2>1
  <2> QED
    BY <1>2, <1>8, <2>1 DEF W!Fetch
<1> QED
  BY <1>6, <1>7, <1>8

(* The temporary file of an importer goes with it, and success is claimed   *)
(* for the importer's own file only.                                        *)
LEMMA SuccessNext ==
    ASSUME ImportInv, OwnsItsFile, [W!Next]_(W!vars)
    PROVE  OwnsItsFile'
<1>1. ASSUME NEW i \in Importers, W!Begin(i) \/ W!BeginOffline(i) \/ W!Fetch(i) PROVE OwnsItsFile'
  BY <1>1, OnItsWayInv
<1>2. ASSUME NEW i \in Importers, W!Build(i) \/ W!Write(i) \/ W!Fail(i) \/ W!Crash(i)
      PROVE  OwnsItsFile'
  BY <1>2, OneMoves DEF W!Build, W!Write, W!Fail, W!Crash, OwnsItsFile, W!SuccessIsMine
<1>3. ASSUME NEW i \in Importers, W!Link(i) PROVE OwnsItsFile'
  <2>1. CASE output = None /\ output' = [by |-> i, content |-> W!Applied(i)] /\ W!Move(i, "done")
    <3>1. \A j \in Importers : whyImportTask[j].stage # "done"
      BY <2>1 DEF OwnsItsFile, W!SuccessIsMine
    <3>2. output'.by = i /\ i \notin temps' /\ temps' \subseteq temps /\ snapshot' = snapshot
      BY <1>3, <2>1 DEF W!Link
    <3>3. output' # None
      <4>1. Imports(whyImportTask[i]) /\ whyImportTask[i].stage = "link" /\ snapshot \in Snapshots
        BY <1>3 DEF W!Link, ImportInv, OwnsItsFile
      <4>2. \A n \in whyImportTask[i].selected : whyImportTask[i].imported[n] \in W!Texts
        <5> SUFFICES ASSUME NEW n \in whyImportTask[i].selected
                     PROVE  whyImportTask[i].imported[n] \in W!Texts
          OBVIOUS
        <5>1. /\ n \in Nodes /\ W!Vouched(whyImportTask[i], n, whyImportTask[i].imported[n])
              /\ whyImportTask[i].source \in Files \cup {None}
          BY <4>1 DEF Imports
        <5> QED
          BY <5>1 DEF W!Vouched, W!Texts
      <4>3. \A n \in Nodes : snapshot[n] \in W!Texts
        BY <4>1 DEF W!Texts
      <4>4. W!Applied(i) \in [Nodes -> [Copies -> W!Texts]]
        BY <4>2, <4>3 DEF W!Applied
      <4> QED
        BY <2>1, <4>4, InputsAssumption DEF InputsAssumption, W!ImportAssumption
    <3> QED
      BY <2>1, <3>1, <3>2, <3>3, OneMoves DEF OwnsItsFile, W!SuccessIsMine
  <2>2. CASE output # None /\ UNCHANGED output /\ W!Move(i, "failed")
    BY <1>3, <2>2, OneMoves DEF W!Link, OwnsItsFile, W!SuccessIsMine
  <2> QED
    BY <1>3, <2>1, <2>2 DEF W!Link
<1>4. CASE W!Switch \/ UNCHANGED (W!vars)
  BY <1>4 DEF W!Switch, W!vars, OwnsItsFile, W!SuccessIsMine
<1> QED
  BY <1>1, <1>2, <1>3, <1>4 DEF W!Next

LEMMA ImportedIsVerified == ASSUME ImportInv PROVE W!OutputIsVerified /\ W!NothingIsContradicted
<1> SUFFICES ASSUME output # None, NEW n \in Nodes, NEW c \in Copies
             PROVE  /\ IF n \in whyImportTask[output.by].selected
                       THEN W!Vouched(whyImportTask[output.by], n, output.content[n][c])
                       ELSE output.content[n][c] = snapshot[n]
                    /\ snapshot[n] \notin {None, Empty} => output.content[n][c] = snapshot[n]
  BY DEF W!OutputIsVerified, W!NothingIsContradicted
<1>1. /\ output.by \in Importers /\ whyImportTask[output.by].stage = "done"
      /\ output.content = W!Applied(output.by) /\ Imports(whyImportTask[output.by])
  BY DEF ImportInv, OutputWhole
<1> QED
  BY <1>1 DEF W!Applied, Imports

(* The file that appears has, for every selected node, the text the service *)
(* has at the pinned revision or the one the import's file vouches for; it  *)
(* contradicts nothing the snapshot had and is the one file of the importer *)
(* that claims it: for any number of importers, nodes, revisions and files, *)
(* whatever the files say.                                                  *)
THEOREM ImportStaysVerified == MCSpec => []ImportIsVerified
<1> DEFINE PInv == part = "whyImport" => ImportInv /\ OwnsItsFile
<1>1. MCInit => PInv
  BY ImportInit DEF MCInit, W!Init, OwnsItsFile, W!SuccessIsMine, W!NewTask
<1>2. PInv /\ [MCNext]_allVars => PInv'
  <2> SUFFICES ASSUME PInv, [MCNext]_allVars, part' = "whyImport"
               PROVE  ImportInv' /\ OwnsItsFile'
    OBVIOUS
  <2>1. part = "whyImport" /\ [W!Next]_(W!vars)
    BY DEF MCNext, allVars, whyImportVars, W!vars
  <2>2. W!ImportAssumption
    BY InputsAssumption DEF InputsAssumption
  <2> QED
    BY <2>1, <2>2, ImportNext, SuccessNext
<1>3. PInv => ImportIsVerified
  BY ImportedIsVerified DEF ImportIsVerified, OwnsItsFile
<1> QED
  BY <1>1, <1>2, <1>3, PTL DEF MCSpec

----
(* Execution.                                                               *)

LEMMA ExecutionFacts ==
    /\ PageSize \in Nat \ {0} /\ SampleRows \in Nat \ {0}
    /\ \A v \in Versions :
          IsFiniteSet(v) /\ \A x, y \in v : x.id \in Int /\ (x.id = y.id => x = y)
BY InputsAssumption DEF InputsAssumption, E!ExecutionAssumption, E!IsFiniteSet, IsFiniteSet

LEMMA SameCardinality == \A S : E!Cardinality(S) = Cardinality(S)
BY DEF E!Cardinality, Cardinality

LEMMA LesserOf ==
    ASSUME NEW a \in Nat, NEW b \in Nat
    PROVE  E!Min({a, b}) = IF a <= b THEN a ELSE b
<1>1. \E x \in {a, b} : \A y \in {a, b} : x <= y
  OBVIOUS
<1>2. E!Min({a, b}) \in {a, b} /\ \A y \in {a, b} : E!Min({a, b}) <= y
  BY <1>1 DEF E!Min
<1> QED
  BY <1>2

(* Rows with fewer than n others below them are at most n.                 *)
LEMMA PageIsBounded ==
    ASSUME NEW rest, IsFiniteSet(rest), NEW limit \in Nat,
           \A x, y \in rest : x.id \in Int /\ (x.id = y.id => x = y),
           NEW page, page = {x \in rest : Cardinality({y \in rest : y.id < x.id}) < limit}
    PROVE  IsFiniteSet(page) /\ Cardinality(page) <= limit
<1> DEFINE below(x) == {y \in rest : y.id < x.id}
           rank == [x \in page |-> Cardinality(below(x)) + 1]
<1>0. \A x \in page : x \in rest /\ Cardinality(below(x)) < limit
  OBVIOUS
<1>1. \A x \in rest : IsFiniteSet(below(x)) /\ Cardinality(below(x)) \in Nat
  <2> TAKE x \in rest
  <2>1. below(x) \in SUBSET rest
    OBVIOUS
  <2> QED
    BY <2>1, FS_Subset, FS_CardinalityType
<1>2. rank \in [page -> 1 .. limit]
  <2> SUFFICES ASSUME NEW x \in page PROVE Cardinality(below(x)) + 1 \in 1 .. limit
    OBVIOUS
  <2> HIDE DEF below
  <2> QED
    BY <1>0, <1>1
<1>3. ASSUME NEW x \in page, NEW y \in page, x.id < y.id PROVE rank[x] < rank[y]
  <2>0. x \in rest /\ y \in rest
    BY <1>0
  <2>1. below(x) \cup {x} \subseteq below(y) /\ x \notin below(x)
    BY <1>3, <2>0
  <2>4. rank[x] = Cardinality(below(x)) + 1 /\ rank[y] = Cardinality(below(y)) + 1
    OBVIOUS
  <2> HIDE DEF below, rank
  <2>2. Cardinality(below(x) \cup {x}) = Cardinality(below(x)) + 1
    BY <1>1, <2>0, <2>1, FS_AddElement
  <2>3. Cardinality(below(x) \cup {x}) <= Cardinality(below(y))
    BY <1>1, <2>0, <2>1, FS_Subset
  <2> QED
    BY <1>1, <2>0, <2>2, <2>3, <2>4
<1>4. \A x, y \in page : rank[x] = rank[y] => x = y
  <2> TAKE x, y \in page
  <2> HAVE rank[x] = rank[y]
  <2>1. rank[x] \in Int /\ rank[y] \in Int
    BY <1>2
  <2> HIDE DEF rank
  <2>2. ~(x.id < y.id) /\ ~(y.id < x.id)
    BY <1>3, <2>1
  <2>3. x \in rest /\ y \in rest
    BY <1>0
  <2>4. x.id \in Int /\ y.id \in Int /\ (x.id = y.id => x = y)
    BY <2>3
  <2> QED
    BY <2>2, <2>4
<1>5. rank \in Injection(page, 1 .. limit)
  BY <1>2, <1>4, Zenon DEF Injection, IsInjective
<1>6. IsFiniteSet(1 .. limit) /\ Cardinality(1 .. limit) = limit
  BY FS_Interval
<1> QED
  BY <1>5, <1>6, FS_Injection

\* The rows in scope were counted, and nothing else is read.
Counted == Cardinality(E!InScope(published)) = total /\ nodes \subseteq E!InScope(published)

ExecInv ==
    /\ published \in Versions
    /\ mode \in {"execute", "sample"} /\ total \in Nat
    /\ executionPc \in {"check", "count"} => nodes = {}
    /\ executionPc \in {"read", "evaluate", "done"} => Counted
    /\ executionPc = "read" => Cardinality(nodes) < E!Goal
    /\ executionPc \in {"evaluate", "done"} => Cardinality(nodes) = E!Goal
    /\ executionPc = "done" =>
          /\ mode = "sample" => (result.truncated <=> total > Cardinality(nodes))
          /\ mode = "execute" => \A row \in nodes : ~E!Faulty(rule, row)


LEMMA ExecInit == E!Init => ExecInv
BY DEF E!Init, ExecInv

\* What a step that reads nothing keeps.
LEMMA CheckInv == ASSUME ExecInv, E!Check PROVE ExecInv'
BY DEF ExecInv, E!Check, E!Go, Counted, E!InScope, E!Goal

LEMMA RefuseInv == ASSUME ExecInv, E!Refuse PROVE ExecInv'
BY DEF ExecInv, E!Refuse, E!Go

LEMMA CountInv == ASSUME ExecInv, E!Count PROVE ExecInv'
<1> DEFINE scope == E!InScope(published)
           size == Cardinality(scope)
<1>1. /\ executionPc = "count" /\ nodes = {} /\ UNCHANGED <<nodes, after, result, rule, mode, published>>
      /\ published \in Versions /\ mode \in {"execute", "sample"}
      /\ total \in Nat
  BY DEF ExecInv, E!Count, E!Go
<1>2. scope \in SUBSET published /\ IsFiniteSet(published)
  BY <1>1, ExecutionFacts DEF E!InScope
<1>3. size \in Nat
  BY <1>2, FS_Subset, FS_CardinalityType
<1>4. CASE executionPc' = "refused" /\ UNCHANGED total
  BY <1>1, <1>4 DEF ExecInv
<1>5. CASE total' = size /\ executionPc' = IF size = 0 THEN "evaluate" ELSE "read"
  <2>1. Counted'
    BY <1>1, <1>5 DEF Counted, E!InScope
  <2>3. E!Goal' = IF mode = "sample" THEN (IF size <= SampleRows THEN size ELSE SampleRows) ELSE size
    BY <1>1, <1>3, <1>5, LesserOf, ExecutionFacts DEF E!Goal
  <2>4. Cardinality(nodes') = 0
    BY <1>1, FS_EmptySet
  <2>5. IF size = 0 THEN Cardinality(nodes') = E!Goal' ELSE Cardinality(nodes') < E!Goal'
    BY <1>3, <2>3, <2>4, ExecutionFacts
  <2> HIDE DEF size
  <2> QED
    BY <1>1, <1>3, <1>5, <2>1, <2>5 DEF ExecInv
<1> QED
  BY <1>4, <1>5, SameCardinality DEF E!Count, E!Go

LEMMA PageInv == ASSUME ExecInv, E!Page PROVE ExecInv'
<1> DEFINE C == E!InScope(published)
           rest == {row \in E!InScope(published) : row.id > after}
           limit == E!Min({PageSize, E!Goal - Cardinality(nodes)})
           page == {row \in rest : Cardinality({x \in rest : x.id < row.id}) < limit}
<1>1. /\ executionPc = "read" /\ UNCHANGED <<total, result, rule, mode, published>>
      /\ published \in Versions /\ mode \in {"execute", "sample"}
      /\ total \in Nat /\ Cardinality(nodes) < E!Goal
  BY DEF ExecInv, E!Page, E!Go
<1>2. C \in SUBSET published /\ Counted
  BY <1>1 DEF ExecInv, E!InScope
<1>3. IsFiniteSet(C) /\ nodes \subseteq C /\ Cardinality(C) = total
  BY <1>1, <1>2, ExecutionFacts, FS_Subset DEF Counted
<1>4. IsFiniteSet(nodes) /\ Cardinality(nodes) \in Nat
  BY <1>3, FS_Subset, FS_CardinalityType
<1>5. E!Goal \in Nat
  BY <1>1, LesserOf, ExecutionFacts DEF E!Goal
<1>6. limit \in Nat /\ limit <= E!Goal - Cardinality(nodes)
  <2>1. E!Goal - Cardinality(nodes) \in Nat
    BY <1>1, <1>4, <1>5
  <2> HIDE DEF limit
  <2>2. limit = IF PageSize <= E!Goal - Cardinality(nodes) THEN PageSize ELSE E!Goal - Cardinality(nodes)
    BY <2>1, LesserOf, ExecutionFacts DEF limit
  <2> QED
    BY <2>1, <2>2, ExecutionFacts
<1>7. rest \subseteq C /\ IsFiniteSet(rest) /\ \A x, y \in rest : x.id \in Int /\ (x.id = y.id => x = y)
  <2>1. rest \in SUBSET C /\ \A x \in rest : x \in published
    BY <1>3, <1>1, <1>2
  <2> QED
    BY <2>1, <1>3, <1>1, ExecutionFacts, FS_Subset
<1> HIDE DEF rest, limit
<1>8. page \subseteq C /\ IsFiniteSet(page) /\ Cardinality(page) <= limit /\ Cardinality(page) \in Nat
  BY <1>6, <1>7, PageIsBounded, FS_CardinalityType
<1>9. CASE executionPc' = "refused" /\ UNCHANGED nodes
  BY <1>1, <1>9 DEF ExecInv
<1> HIDE DEF page
<1>10. CASE nodes' = nodes \cup page
            /\ executionPc' = IF Cardinality(nodes') < E!Goal THEN "read" ELSE "evaluate"
  <2>1. IsFiniteSet(nodes') /\ Cardinality(nodes') \in Nat /\ Cardinality(nodes') <= Cardinality(nodes) + Cardinality(page)
    <3>1. IsFiniteSet(nodes \cup page)
          /\ Cardinality(nodes \cup page) = Cardinality(nodes) + Cardinality(page) - Cardinality(nodes \cap page)
      BY <1>4, <1>8, FS_Union
    <3>2. Cardinality(nodes \cap page) \in Nat /\ Cardinality(nodes \cup page) \in Nat
      BY <1>4, <3>1, FS_Intersection, FS_CardinalityType
    <3> QED
      BY <1>4, <1>8, <1>10, <3>1, <3>2
  <2>2. Cardinality(nodes') <= E!Goal
    BY <1>4, <1>5, <1>6, <1>8, <2>1
  <2>5. Counted'
    BY <1>1, <1>3, <1>8, <1>10 DEF Counted, E!InScope
  <2>6. E!Goal' = E!Goal
    BY <1>1 DEF E!Goal
  <2>7. IF Cardinality(nodes') < E!Goal THEN executionPc' = "read" ELSE executionPc' = "evaluate" /\ Cardinality(nodes') = E!Goal
    BY <1>5, <1>10, <2>1, <2>2
  <2> QED
    BY <1>1, <2>5, <2>6, <2>7 DEF ExecInv
<1> QED
  BY <1>9, <1>10, SameCardinality DEF E!Page, E!Go, page, rest, limit

LEMMA EvaluateInv == ASSUME ExecInv, E!Evaluate PROVE ExecInv'
<1>1. /\ executionPc = "evaluate" /\ UNCHANGED <<total, nodes, after, rule, mode, published>>
      /\ published \in Versions /\ mode \in {"execute", "sample"}
      /\ total \in Nat /\ Cardinality(nodes) = E!Goal
  BY DEF ExecInv, E!Evaluate, E!Go
<1>4. Counted'
  BY <1>1 DEF ExecInv, Counted, E!InScope
<1>5. Cardinality(nodes') = E!Goal'
  BY <1>1 DEF E!Goal
<1>6. CASE executionPc' = "refused"
  BY <1>1, <1>6 DEF ExecInv
<1>7. CASE executionPc' = "done" /\ mode = "sample"
           /\ result'.truncated = (total > Cardinality(nodes))
  BY <1>1, <1>4, <1>5, <1>7 DEF ExecInv
<1>8. CASE executionPc' = "done" /\ mode # "sample"
           /\ \A row \in nodes : ~E!Faulty(rule, row)
  BY <1>1, <1>4, <1>5, <1>8 DEF ExecInv, E!Faulty
<1> QED
  <2>1. CASE mode = "sample"
    BY <2>1, <1>7, SameCardinality DEF E!Evaluate, E!Go
  <2>2. CASE mode # "sample"
    BY <2>2, <1>6, <1>8 DEF E!Evaluate, E!Go
  <2> QED
    BY <2>1, <2>2

LEMMA ExecutionNext == ASSUME ExecInv, [E!Next]_executionVars PROVE ExecInv'
<1>1. CASE UNCHANGED executionVars
  BY <1>1 DEF ExecInv, executionVars, Counted, E!InScope, E!Goal
<1> QED
  BY <1>1, CheckInv, RefuseInv, CountInv, PageInv, EvaluateInv DEF E!Next

\* Nothing of a scope that was read in full is left unread.
LEMMA ExecInvIsSound == ASSUME ExecInv PROVE E!NeverPartial /\ E!SkippedForCause
<1>1. ASSUME executionPc = "done"
      PROVE  /\ mode = "execute" => Cardinality(nodes) = total /\ nodes = E!InScope(published)
             /\ mode = "sample" => Cardinality(nodes) = E!Min({total, SampleRows})
  <2> DEFINE C == E!InScope(published)
  <2>1. C \in SUBSET published /\ Counted
    BY <1>1 DEF ExecInv, E!InScope
  <2>2. IsFiniteSet(C)
    BY <2>1, ExecutionFacts, FS_Subset DEF ExecInv
  <2>3. Cardinality(nodes) = E!Goal
    BY <1>1 DEF ExecInv
  <2>4. ASSUME mode = "execute" PROVE nodes = C
    BY <2>1, <2>2, <2>3, <2>4, FS_Subset DEF Counted, E!Goal
  <2> QED
    BY <2>1, <2>3, <2>4 DEF Counted, E!Goal
<1>2. E!NeverPartial
  BY <1>1, SameCardinality DEF ExecInv, E!NeverPartial
<1>3. E!SkippedForCause
  BY DEF ExecInv, E!SkippedForCause, E!Faulty, E!Matched, E!AmountFits, E!Fits, E!Fields, E!Has
<1> QED
  BY <1>2, <1>3

----
(* Traversal.  The pinned graph, its walks and what they cost.              *)

\* A pinned graph: finite, its edges within it.
SoundGraph(g) ==
    /\ IsFiniteSet(g.nodes) /\ g.nodes \subseteq Nat /\ Anchor \in g.nodes
    /\ g.isA \subseteq g.nodes \X g.nodes
    /\ \A r \in g.rel : r[2] \in g.nodes /\ r[3] \in g.nodes

Label(w, g) == w \in Nat \X Nat \X Nat \X g.nodes

\* The walks of at most k edges in a graph, as T!WalksUpTo has them.
WalkIn(g, k, d) ==
    LET walk[i \in 0..k] ==
            IF i = 0 THEN {<<0, 0, 0, Anchor>>}
            ELSE walk[i - 1] \cup
                 UNION {{l \in {T!Extend(w, e) : e \in T!Neighbors(g, w[4])} : l[2] <= d} :
                            w \in walk[i - 1]}
    IN  walk[k]

Longer(g, d, S) ==
    S \cup UNION {{l \in {T!Extend(w, e) : e \in T!Neighbors(g, w[4])} : l[2] <= d} : w \in S}

\* The recursion WalkIn chooses a solution of.
Walking(g, k, d, f) ==
    f = [i \in 0..k |-> IF i = 0 THEN {<<0, 0, 0, Anchor>>} ELSE Longer(g, d, f[i - 1])]

LEMMA FlowValues ==
    ASSUME NEW r
    PROVE  /\ T!Flow(r).forward \in {"strong", None} /\ T!Flow(r).reverse \in {"strong", "weak", None}
BY DEF T!Flow

LEMMA NeighborFacts ==
    ASSUME NEW g, SoundGraph(g), NEW n \in g.nodes, NEW e \in T!Neighbors(g, n)
    PROVE  /\ e.node \in g.nodes /\ e.hop \in {0, 1} /\ e.strength \in 0 .. 2
           /\ e.hop = 0 <=> e.strength = 0
           /\ e.hop = 0 => <<n, e.node>> \in g.isA
<1>0. T!Strength["strong"] = 1 /\ T!Strength["weak"] = 2
  BY DEF T!Strength
<1>1. CASE e \in {[node |-> x[2], hop |-> 0, strength |-> 0] : x \in {y \in g.isA : y[1] = n}}
  <2>1. PICK x \in g.isA : x[1] = n /\ e = [node |-> x[2], hop |-> 0, strength |-> 0]
    BY <1>1
  <2>2. x = <<x[1], x[2]>> /\ x[2] \in g.nodes
    BY <2>1 DEF SoundGraph
  <2>3. e.node = x[2] /\ e.hop = 0 /\ e.strength = 0
    BY <2>1
  <2> QED
    BY <2>1, <2>2, <2>3
<1>2. CASE e \in {[node |-> r[2], hop |-> 1, strength |-> T!Strength[T!Flow(r[1]).forward]] :
        r \in {x \in g.rel : x[3] = n /\ T!Flow(x[1]).forward # None}}
  <2>1. PICK r \in g.rel : T!Flow(r[1]).forward # None
             /\ e = [node |-> r[2], hop |-> 1, strength |-> T!Strength[T!Flow(r[1]).forward]]
    BY <1>2
  <2>2. e.node = r[2] /\ e.hop = 1 /\ e.strength = T!Strength[T!Flow(r[1]).forward]
    BY <2>1
  <2>3. T!Flow(r[1]).forward = "strong" /\ r[2] \in g.nodes
    BY <2>1, FlowValues DEF SoundGraph
  <2> QED
    BY <1>0, <2>2, <2>3
<1>3. CASE e \in {[node |-> r[3], hop |-> 1, strength |-> T!Strength[T!Flow(r[1]).reverse]] :
        r \in {x \in g.rel : x[2] = n /\ T!Flow(x[1]).reverse # None}}
  <2>1. PICK r \in g.rel : T!Flow(r[1]).reverse # None
             /\ e = [node |-> r[3], hop |-> 1, strength |-> T!Strength[T!Flow(r[1]).reverse]]
    BY <1>3
  <2>2. e.node = r[3] /\ e.hop = 1 /\ e.strength = T!Strength[T!Flow(r[1]).reverse]
    BY <2>1
  <2>3. T!Flow(r[1]).reverse \in {"strong", "weak"} /\ r[3] \in g.nodes
    BY <2>1, FlowValues DEF SoundGraph
  <2> QED
    BY <1>0, <2>2, <2>3
<1> QED
  BY <1>1, <1>2, <1>3 DEF T!Neighbors

LEMMA ParentIsNeighbor ==
    ASSUME NEW g, NEW a, NEW b, <<a, b>> \in g.isA
    PROVE  [node |-> b, hop |-> 0, strength |-> 0] \in T!Neighbors(g, a)
<1>1. <<a, b>>[1] = a /\ <<a, b>>[2] = b
  OBVIOUS
<1>2. [node |-> b, hop |-> 0, strength |-> 0]
        \in {[node |-> x[2], hop |-> 0, strength |-> 0] : x \in {y \in g.isA : y[1] = a}}
  BY <1>1
<1> QED
  BY <1>2 DEF T!Neighbors

LEMMA GreaterOf ==
    ASSUME NEW a \in Nat, NEW b \in Nat
    PROVE  T!Max({a, b}) = IF a >= b THEN a ELSE b
<1>1. \E x \in {a, b} : \A y \in {a, b} : x >= y
  OBVIOUS
<1>2. T!Max({a, b}) \in {a, b} /\ \A y \in {a, b} : T!Max({a, b}) >= y
  BY <1>1 DEF T!Max
<1> QED
  BY <1>2

\* What an extended label costs.
LEMMA ExtendFacts ==
    ASSUME NEW g, SoundGraph(g), NEW w, Label(w, g), NEW e \in T!Neighbors(g, w[4]),
           NEW l, l = T!Extend(w, e)
    PROVE  /\ Label(l, g) /\ l = <<l[1], l[2], l[3], l[4]>>
           /\ l[1] = (IF w[1] >= e.strength THEN w[1] ELSE e.strength)
           /\ l[2] = w[2] + e.hop /\ l[3] = w[3] + 1 - e.hop /\ l[4] = e.node
           /\ l[2] + l[3] = w[2] + w[3] + 1
           /\ l[1] >= w[1] /\ l[2] >= w[2] /\ l[1] >= e.strength
<1>0. w \in Nat \X Nat \X Nat \X g.nodes
  BY DEF Label
<1>1. w[1] \in Nat /\ w[2] \in Nat /\ w[3] \in Nat /\ w[4] \in g.nodes
  BY <1>0
<1>2. e.node \in g.nodes /\ e.hop \in {0, 1} /\ e.strength \in 0 .. 2
  BY <1>1, NeighborFacts
<1>3. T!Max({w[1], e.strength}) = IF w[1] >= e.strength THEN w[1] ELSE e.strength
  BY <1>1, <1>2, GreaterOf
<1>4. l = <<T!Max({w[1], e.strength}), w[2] + e.hop, w[3] + 1 - e.hop, e.node>>
  BY DEF T!Extend
<1>5. /\ l[1] = T!Max({w[1], e.strength}) /\ l[2] = w[2] + e.hop
      /\ l[3] = w[3] + 1 - e.hop /\ l[4] = e.node
  BY <1>4
<1>6. l[1] \in Nat /\ l[2] \in Nat /\ l[3] \in Nat /\ l[4] \in g.nodes
  BY <1>1, <1>2, <1>3, <1>5
<1>7. l = <<l[1], l[2], l[3], l[4]>>
  BY <1>4, <1>5
<1>8. Label(l, g)
  BY <1>6, <1>7 DEF Label
<1> QED
  BY <1>1, <1>2, <1>3, <1>5, <1>7, <1>8

----
(* The recursion of the walks has a solution, and every solution the same   *)
(* values.                                                                  *)
LEMMA WalkingIsOne ==
    ASSUME NEW g, NEW d, NEW k \in Nat, NEW j \in Nat, NEW f, NEW h,
           Walking(g, k, d, f), Walking(g, j, d, h), j <= k
    PROVE  \A i \in 0..j : f[i] = h[i]
<1> DEFINE wrong == {i \in 0..j : f[i] # h[i]}
<1> SUFFICES ASSUME wrong # {} PROVE FALSE
  OBVIOUS
<1>1. wrong \subseteq Nat
  OBVIOUS
<1> HIDE DEF wrong
<1>2. PICK i \in wrong : \A x \in wrong : i <= x
  BY <1>1, LeastNat
<1>3. i \in 0..j /\ i \in 0..k /\ f[i] # h[i]
  BY <1>2 DEF wrong
<1>4. /\ f[i] = (IF i = 0 THEN {<<0, 0, 0, Anchor>>} ELSE Longer(g, d, f[i - 1]))
      /\ h[i] = (IF i = 0 THEN {<<0, 0, 0, Anchor>>} ELSE Longer(g, d, h[i - 1]))
  BY <1>3 DEF Walking
<1>5. i # 0 /\ i - 1 \in 0..j /\ ~(i <= i - 1)
  BY <1>3, <1>4
<1>6. f[i - 1] = h[i - 1]
  BY <1>2, <1>5 DEF wrong
<1> QED
  BY <1>3, <1>4, <1>5, <1>6

LEMMA WalkingExists ==
    ASSUME NEW g, NEW d
    PROVE  \A k \in Nat : \E f : Walking(g, k, d, f)
<1> DEFINE wrong == {k \in Nat : ~\E f : Walking(g, k, d, f)}
<1> SUFFICES ASSUME wrong # {} PROVE FALSE
  OBVIOUS
<1>1. wrong \subseteq Nat
  OBVIOUS
<1> HIDE DEF wrong
<1>2. PICK k \in wrong : \A x \in wrong : k <= x
  BY <1>1, LeastNat
<1>3. k \in Nat /\ ~\E f : Walking(g, k, d, f)
  BY <1>2 DEF wrong
<1>4. k # 0
  <2> SUFFICES ASSUME k = 0 PROVE FALSE
    OBVIOUS
  <2> DEFINE f == [i \in 0..0 |-> {<<0, 0, 0, Anchor>>}]
  <2>1. 0..0 = {0}
    OBVIOUS
  <2>2. f = [i \in 0..0 |-> IF i = 0 THEN {<<0, 0, 0, Anchor>>} ELSE Longer(g, d, f[i - 1])]
    BY <2>1
  <2> QED
    BY <1>3, <2>2 DEF Walking
<1>5. k - 1 \in Nat /\ ~(k <= k - 1)
  BY <1>3, <1>4
<1>6. PICK f : Walking(g, k - 1, d, f)
  BY <1>2, <1>5 DEF wrong
<1> DEFINE h == [i \in 0..k |-> IF i = k THEN Longer(g, d, f[k - 1]) ELSE f[i]]
<1>7. ASSUME NEW i \in 0..k
      PROVE  h[i] = IF i = 0 THEN {<<0, 0, 0, Anchor>>} ELSE Longer(g, d, h[i - 1])
  <2>1. CASE i = k
    <3>1. h[k] = Longer(g, d, f[k - 1]) /\ h[k - 1] = f[k - 1]
      BY <1>3, <1>5
    <3> QED
      BY <1>4, <2>1, <3>1
  <2>2. CASE i # k /\ i # 0
    <3>1. i \in 0..(k - 1) /\ i - 1 \in 0..k /\ i - 1 # k
      BY <1>3, <2>2
    <3>2. f[i] = Longer(g, d, f[i - 1])
      BY <1>6, <2>2, <3>1 DEF Walking
    <3>3. h[i] = f[i] /\ h[i - 1] = f[i - 1]
      BY <2>2, <3>1
    <3> QED
      BY <2>2, <3>2, <3>3
  <2>3. CASE i = 0 /\ i # k
    <3>1. i \in 0..(k - 1)
      BY <1>3, <2>3
    <3>2. f[0] = {<<0, 0, 0, Anchor>>}
      BY <1>6, <2>3, <3>1 DEF Walking
    <3> QED
      BY <2>3, <3>2
  <2> QED
    BY <2>1, <2>2, <2>3
<1>8. h = [i \in 0..k |-> IF i = 0 THEN {<<0, 0, 0, Anchor>>} ELSE Longer(g, d, h[i - 1])]
  BY <1>7
<1> HIDE DEF h
<1>9. Walking(g, k, d, h)
  BY <1>8 DEF Walking
<1> QED
  BY <1>3, <1>9

LEMMA WalkInIs ==
    ASSUME NEW g, NEW d, NEW k \in Nat
    PROVE  \E f : Walking(g, k, d, f) /\ WalkIn(g, k, d) = f[k]
<1> DEFINE f == CHOOSE x : Walking(g, k, d, x)
<1>1. Walking(g, k, d, f)
  BY WalkingExists
<1>2. WalkIn(g, k, d) = f[k]
  BY DEF WalkIn, Walking, Longer
<1> QED
  BY <1>1, <1>2

LEMMA WalkStart == ASSUME NEW g, NEW d PROVE WalkIn(g, 0, d) = {<<0, 0, 0, Anchor>>}
<1>1. PICK f : Walking(g, 0, d, f) /\ WalkIn(g, 0, d) = f[0]
  BY WalkInIs
<1>2. 0 \in 0..0
  OBVIOUS
<1> QED
  BY <1>1, <1>2 DEF Walking

LEMMA WalkStep ==
    ASSUME NEW g, NEW d, NEW k \in Nat
    PROVE  WalkIn(g, k + 1, d) = Longer(g, d, WalkIn(g, k, d))
<1>1. PICK f : Walking(g, k, d, f) /\ WalkIn(g, k, d) = f[k]
  BY WalkInIs
<1>2. PICK h : Walking(g, k + 1, d, h) /\ WalkIn(g, k + 1, d) = h[k + 1]
  BY WalkInIs
<1>3. \A i \in 0..k : h[i] = f[i]
  BY <1>1, <1>2, WalkingIsOne
<1>4. k + 1 \in 0..(k + 1) /\ k \in 0..k /\ k + 1 # 0 /\ k + 1 - 1 = k
  OBVIOUS
<1>5. h[k + 1] = Longer(g, d, h[k])
  <2>1. \A i \in 0..(k + 1) :
            h[i] = IF i = 0 THEN {<<0, 0, 0, Anchor>>} ELSE Longer(g, d, h[i - 1])
    BY <1>2 DEF Walking
  <2>2. h[k + 1] = Longer(g, d, h[k + 1 - 1])
    BY <1>4, <2>1
  <2> QED
    BY <1>4, <2>2
<1> QED
  BY <1>1, <1>2, <1>3, <1>4, <1>5

LEMMA LongerFacts ==
    ASSUME NEW g, NEW d, NEW S
    PROVE  /\ S \subseteq Longer(g, d, S)
           /\ \A w \in S : \A e \in T!Neighbors(g, w[4]) :
                T!Extend(w, e)[2] <= d => T!Extend(w, e) \in Longer(g, d, S)
           /\ \A l \in Longer(g, d, S) \ S :
                \E w \in S : \E e \in T!Neighbors(g, w[4]) : l = T!Extend(w, e) /\ l[2] <= d
BY DEF Longer

----
\* All walks within the depth.
Walks(g, d) == UNION {WalkIn(g, k, d) : k \in Nat}

Origin == <<0, 0, 0, Anchor>>

\* What is said of a walk's label: its length is its hops, and only IS_A hops
\* are deductive.
WalkLabel(w, g, d) ==
    /\ Label(w, g) /\ w[2] <= d
    /\ w[1] = 0 <=> w[2] = 0

LEMMA StartIsWalk ==
    ASSUME NEW g, SoundGraph(g), NEW d \in Nat
    PROVE  WalkLabel(Origin, g, d) /\ Origin[1] = 0 /\ Origin[2] = 0 /\ Origin[3] = 0 /\ Origin[4] = Anchor
<1>1. Origin[1] = 0 /\ Origin[2] = 0 /\ Origin[3] = 0 /\ Origin[4] = Anchor
  BY DEF Origin
<1>2. Origin \in Nat \X Nat \X Nat \X g.nodes
  BY DEF Origin, SoundGraph
<1> QED
  BY <1>1, <1>2 DEF WalkLabel, Label

LEMMA LongerLabel ==
    ASSUME NEW g, SoundGraph(g), NEW d \in Nat, NEW w, WalkLabel(w, g, d),
           NEW e \in T!Neighbors(g, w[4]), T!Extend(w, e)[2] <= d
    PROVE  WalkLabel(T!Extend(w, e), g, d)
<1> DEFINE l == T!Extend(w, e)
<1>1. Label(w, g) /\ w[4] \in g.nodes /\ w[1] \in Nat /\ w[2] \in Nat
  BY DEF WalkLabel, Label
<1>2. /\ Label(l, g) /\ l[1] = (IF w[1] >= e.strength THEN w[1] ELSE e.strength)
      /\ l[2] = w[2] + e.hop
  BY <1>1, ExtendFacts
<1>3. e.hop \in {0, 1} /\ e.strength \in 0 .. 2 /\ (e.hop = 0 <=> e.strength = 0)
  BY <1>1, NeighborFacts
<1>4. l[1] = 0 <=> l[2] = 0
  BY <1>1, <1>2, <1>3 DEF WalkLabel
<1> QED
  BY <1>2, <1>4 DEF WalkLabel

\* A walk in at most k edges has at most k hops, is one of as many edges as it
\* has hops, and stays one within any depth its hops allow.
WalksAreMeasured(g, d, k) ==
    \A w \in WalkIn(g, k, d) :
        /\ WalkLabel(w, g, d) /\ w[2] + w[3] <= k
        /\ w \in WalkIn(g, w[2] + w[3], d)
        /\ \A b \in Nat : w[2] <= b => w \in WalkIn(g, w[2] + w[3], b)

LEMMA Measured ==
    ASSUME NEW g, SoundGraph(g), NEW d \in Nat
    PROVE  \A k \in Nat : WalksAreMeasured(g, d, k)
<1> DEFINE wrong == {k \in Nat : ~WalksAreMeasured(g, d, k)}
<1> SUFFICES ASSUME wrong # {} PROVE FALSE
  OBVIOUS
<1>1. wrong \subseteq Nat
  OBVIOUS
<1> HIDE DEF wrong
<1>2. PICK k \in wrong : \A x \in wrong : k <= x
  BY <1>1, LeastNat
<1>3. k \in Nat /\ ~WalksAreMeasured(g, d, k)
  BY <1>2 DEF wrong
<1>4. k # 0
  <2> SUFFICES ASSUME k = 0 PROVE FALSE
    OBVIOUS
  <2>1. \A b : WalkIn(g, 0, b) = {Origin}
    BY WalkStart DEF Origin
  <2>2. WalkLabel(Origin, g, d) /\ Origin[2] + Origin[3] = 0
    BY StartIsWalk
  <2>3. WalksAreMeasured(g, d, 0)
    BY <2>1, <2>2 DEF WalksAreMeasured
  <2> QED
    BY <1>3, <2>3
<1>5. k - 1 \in Nat /\ ~(k <= k - 1) /\ k - 1 + 1 = k
  BY <1>3, <1>4
<1>6. WalksAreMeasured(g, d, k - 1)
  BY <1>2, <1>5 DEF wrong
<1>7. WalkIn(g, k, d) = Longer(g, d, WalkIn(g, k - 1, d))
  BY <1>5, WalkStep
<1>8. ASSUME NEW w \in WalkIn(g, k, d)
      PROVE  /\ WalkLabel(w, g, d) /\ w[2] + w[3] <= k
             /\ w \in WalkIn(g, w[2] + w[3], d)
             /\ \A b \in Nat : w[2] <= b => w \in WalkIn(g, w[2] + w[3], b)
  <2>1. CASE w \in WalkIn(g, k - 1, d)
    <3>1. /\ WalkLabel(w, g, d) /\ w[2] + w[3] <= k - 1
          /\ w \in WalkIn(g, w[2] + w[3], d)
          /\ \A b \in Nat : w[2] <= b => w \in WalkIn(g, w[2] + w[3], b)
      BY <1>6, <2>1 DEF WalksAreMeasured
    <3>2. w[2] \in Nat /\ w[3] \in Nat
      BY <3>1 DEF WalkLabel, Label
    <3> QED
      BY <1>3, <3>1, <3>2
  <2>2. CASE w \notin WalkIn(g, k - 1, d)
    <3>1. PICK u \in WalkIn(g, k - 1, d) :
              \E e \in T!Neighbors(g, u[4]) : w = T!Extend(u, e) /\ w[2] <= d
      BY <1>7, <2>2, LongerFacts
    <3>2. PICK e \in T!Neighbors(g, u[4]) : w = T!Extend(u, e) /\ w[2] <= d
      BY <3>1
    <3>3. /\ WalkLabel(u, g, d) /\ u[2] + u[3] <= k - 1
          /\ \A b \in Nat : u[2] <= b => u \in WalkIn(g, u[2] + u[3], b)
      BY <1>6 DEF WalksAreMeasured
    <3>4. Label(u, g) /\ u[2] \in Nat /\ u[3] \in Nat
      BY <3>3 DEF WalkLabel, Label
    <3>5. w[2] >= u[2] /\ w[2] + w[3] = u[2] + u[3] + 1 /\ Label(w, g)
      BY <3>2, <3>4, ExtendFacts
    <3>6. w[2] \in Nat /\ w[3] \in Nat
      BY <3>5 DEF Label
    <3>7. ASSUME NEW b \in Nat, w[2] <= b PROVE w \in WalkIn(g, w[2] + w[3], b)
      <4>1. u \in WalkIn(g, u[2] + u[3], b)
        BY <3>3, <3>4, <3>5, <3>6, <3>7
      <4>2. WalkIn(g, u[2] + u[3] + 1, b) = Longer(g, b, WalkIn(g, u[2] + u[3], b))
        BY <3>4, WalkStep
      <4>3. w \in Longer(g, b, WalkIn(g, u[2] + u[3], b))
        BY <3>2, <3>7, <4>1, LongerFacts
      <4> QED
        BY <3>5, <4>2, <4>3
    <3>8. w \in WalkIn(g, w[2] + w[3], d)
      BY <3>2, <3>7
    <3>9. WalkLabel(w, g, d)
      BY <3>2, <3>3, LongerLabel
    <3> QED
      BY <1>3, <3>3, <3>4, <3>5, <3>6, <3>7, <3>8, <3>9
  <2> QED
    BY <2>1, <2>2
<1> QED
  BY <1>3, <1>8 DEF WalksAreMeasured

\* The walks as a set of their own: closed under extension, told by their last
\* edge, and bounded in edges by their hops.
LEMMA WalksFacts ==
    ASSUME NEW g, SoundGraph(g), NEW d \in Nat
    PROVE  /\ Origin \in Walks(g, d)
           /\ \A w \in Walks(g, d) : WalkLabel(w, g, d)
           /\ \A w \in Walks(g, d) : \A e \in T!Neighbors(g, w[4]) :
                T!Extend(w, e)[2] <= d => T!Extend(w, e) \in Walks(g, d)
           /\ \A w \in Walks(g, d) : \A b \in Nat : w[2] <= b => w \in Walks(g, b)
           /\ \A w \in Walks(g, d) : \A k \in Nat : w[2] + w[3] = k => w \in WalkIn(g, k, d)
<1>1. Origin \in Walks(g, d)
  BY WalkStart DEF Walks, Origin
<1>2. ASSUME NEW w \in Walks(g, d)
      PROVE  /\ WalkLabel(w, g, d)
             /\ \A e \in T!Neighbors(g, w[4]) :
                  T!Extend(w, e)[2] <= d => T!Extend(w, e) \in Walks(g, d)
             /\ \A b \in Nat : w[2] <= b => w \in Walks(g, b)
             /\ \A k \in Nat : w[2] + w[3] = k => w \in WalkIn(g, k, d)
  <2>1. PICK k \in Nat : w \in WalkIn(g, k, d)
    BY DEF Walks
  <2>2. /\ WalkLabel(w, g, d) /\ w \in WalkIn(g, w[2] + w[3], d)
        /\ \A b \in Nat : w[2] <= b => w \in WalkIn(g, w[2] + w[3], b)
    BY <2>1, Measured DEF WalksAreMeasured
  <2>3. w[2] + w[3] \in Nat
    BY <2>2 DEF WalkLabel, Label
  <2>4. ASSUME NEW e \in T!Neighbors(g, w[4]), T!Extend(w, e)[2] <= d
        PROVE  T!Extend(w, e) \in Walks(g, d)
    <3>1. T!Extend(w, e) \in WalkIn(g, k + 1, d)
      BY <2>1, <2>4, WalkStep, LongerFacts
    <3>2. k + 1 \in Nat
      OBVIOUS
    <3> QED
      BY <3>1, <3>2 DEF Walks
  <2> QED
    BY <2>2, <2>3, <2>4 DEF Walks
<1> QED
  BY <1>1, <1>2

\* The last edge of a walk that is not the start.
LEMMA LastEdge ==
    ASSUME NEW g, SoundGraph(g), NEW d \in Nat, NEW w \in Walks(g, d), w # Origin
    PROVE  \E u \in Walks(g, d) : \E e \in T!Neighbors(g, u[4]) :
              w = T!Extend(u, e) /\ w[2] + w[3] = u[2] + u[3] + 1
<1> DEFINE ks == {k \in Nat : w \in WalkIn(g, k, d)}
<1>1. ks \subseteq Nat /\ ks # {}
  BY DEF Walks
<1> HIDE DEF ks
<1>2. PICK k \in ks : \A j \in ks : k <= j
  BY <1>1, LeastNat
<1>3. k \in Nat /\ w \in WalkIn(g, k, d)
  BY <1>2 DEF ks
<1>4. k # 0
  BY <1>3, WalkStart DEF Origin
<1>5. k - 1 \in Nat /\ k - 1 + 1 = k /\ ~(k <= k - 1)
  BY <1>3, <1>4
<1>6. w \notin WalkIn(g, k - 1, d)
  BY <1>2, <1>5 DEF ks
<1>7. WalkIn(g, k, d) = Longer(g, d, WalkIn(g, k - 1, d))
  BY <1>5, WalkStep
<1>8. PICK u \in WalkIn(g, k - 1, d) :
          \E e \in T!Neighbors(g, u[4]) : w = T!Extend(u, e) /\ w[2] <= d
  BY <1>3, <1>6, <1>7, LongerFacts
<1>9. u \in Walks(g, d)
  BY <1>5, <1>8 DEF Walks
<1>10. Label(u, g)
  BY <1>9, WalksFacts DEF WalkLabel
<1> QED
  BY <1>8, <1>9, <1>10, ExtendFacts

\* The walks of at most k edges grow with k.
LEMMA FewerEdges ==
    ASSUME NEW g, NEW d, NEW a \in Nat
    PROVE  \A b \in Nat : a <= b => WalkIn(g, a, d) \subseteq WalkIn(g, b, d)
<1> DEFINE wrong == {b \in Nat : a <= b /\ ~(WalkIn(g, a, d) \subseteq WalkIn(g, b, d))}
<1> SUFFICES ASSUME wrong # {} PROVE FALSE
  OBVIOUS
<1>1. wrong \subseteq Nat
  OBVIOUS
<1> HIDE DEF wrong
<1>2. PICK b \in wrong : \A x \in wrong : b <= x
  BY <1>1, LeastNat
<1>3. b \in Nat /\ a <= b /\ ~(WalkIn(g, a, d) \subseteq WalkIn(g, b, d))
  BY <1>2 DEF wrong
<1>4. a # b
  BY <1>3
<1>5. b - 1 \in Nat /\ a <= b - 1 /\ b - 1 + 1 = b /\ ~(b <= b - 1)
  BY <1>3, <1>4
<1>6. WalkIn(g, a, d) \subseteq WalkIn(g, b - 1, d)
  BY <1>2, <1>5 DEF wrong
<1>7. WalkIn(g, b - 1, d) \subseteq WalkIn(g, b, d)
  BY <1>5, WalkStep, LongerFacts
<1> QED
  BY <1>3, <1>6, <1>7

----
(* Cutting cycles: among the walks no weaker than a bound, a best one to a  *)
(* node, by relation and then by IS_A hops, is preceded by a best one that  *)
(* has one hop less, so that the best walks pass as many nodes as they have *)
(* hops, and one.                                                           *)

Within(g, d, bound) == {w \in Walks(g, d) : w[1] <= bound}

NoLonger(w, u) == w[2] < u[2] \/ (w[2] = u[2] /\ w[3] <= u[3])

Tight(g, d, bound, w) ==
    /\ w \in Within(g, d, bound)
    /\ \A u \in Within(g, d, bound) : u[4] = w[4] => NoLonger(w, u)

LEMMA WithinNat ==
    ASSUME NEW g, SoundGraph(g), NEW d \in Nat, NEW bound, NEW w \in Within(g, d, bound)
    PROVE  /\ w \in Walks(g, d) /\ w[1] \in Nat /\ w[2] \in Nat /\ w[3] \in Nat
           /\ w[4] \in g.nodes /\ Label(w, g) /\ w[2] <= d
<1>1. w \in Walks(g, d)
  BY DEF Within
<1>2. Label(w, g) /\ w[2] <= d
  BY <1>1, WalksFacts DEF WalkLabel
<1> QED
  BY <1>1, <1>2 DEF Label

LEMMA TightExists ==
    ASSUME NEW g, SoundGraph(g), NEW d \in Nat, NEW bound \in Nat, NEW w \in Within(g, d, bound)
    PROVE  \E v : Tight(g, d, bound, v) /\ v[4] = w[4]
<1> DEFINE there == {u \in Within(g, d, bound) : u[4] = w[4]}
           twos == {u[2] : u \in there}
<1>1. \A u \in there : u[2] \in Nat /\ u[3] \in Nat
  BY WithinNat
<1>2. w \in there
  OBVIOUS
<1>3. twos \subseteq Nat /\ twos # {}
  BY <1>1, <1>2
<1>4. PICK two \in twos : \A x \in twos : two <= x
  BY <1>3, LeastNat
<1> DEFINE threes == {u[3] : u \in {x \in there : x[2] = two}}
<1>5. threes \subseteq Nat /\ threes # {}
  BY <1>1, <1>4
<1>6. PICK three \in threes : \A x \in threes : three <= x
  BY <1>5, LeastNat
<1>7. PICK v \in there : v[2] = two /\ v[3] = three
  BY <1>6
<1>8. ASSUME NEW u \in Within(g, d, bound), u[4] = v[4] PROVE NoLonger(v, u)
  <2>1. u \in there
    BY <1>7, <1>8
  <2>2. two <= u[2] /\ two \in Nat /\ u[2] \in Nat
    BY <1>1, <1>3, <1>4, <2>1
  <2>3. u[2] = two => three <= u[3]
    BY <1>6, <2>1
  <2> QED
    BY <1>7, <2>2, <2>3 DEF NoLonger
<1> QED
  BY <1>7, <1>8 DEF Tight

OneLess(g, d, bound, w) ==
    \E v : Tight(g, d, bound, v) /\ v[2] + v[3] = w[2] + w[3] - 1

LEMMA TightPrefix ==
    ASSUME NEW g, SoundGraph(g), NEW d \in Nat, NEW bound \in Nat, NEW w,
           Tight(g, d, bound, w), w[2] + w[3] # 0
    PROVE  OneLess(g, d, bound, w)
<1>1. w \in Within(g, d, bound)
  BY DEF Tight
<1>2. /\ w \in Walks(g, d) /\ w[1] \in Nat /\ w[2] \in Nat /\ w[3] \in Nat
      /\ w[1] <= bound /\ w[2] <= d
  BY <1>1, WithinNat DEF Within
<1>3. w # Origin
  BY StartIsWalk
<1>4. PICK u \in Walks(g, d) : \E e \in T!Neighbors(g, u[4]) :
          w = T!Extend(u, e) /\ w[2] + w[3] = u[2] + u[3] + 1
  BY <1>2, <1>3, LastEdge
<1>5. PICK e \in T!Neighbors(g, u[4]) : w = T!Extend(u, e) /\ w[2] + w[3] = u[2] + u[3] + 1
  BY <1>4
<1>6. Label(u, g)
  BY WalksFacts DEF WalkLabel
<1>7. u[1] \in Nat /\ u[2] \in Nat /\ u[3] \in Nat /\ u[4] \in g.nodes
  BY <1>6 DEF Label
<1>8. e.hop \in {0, 1} /\ e.strength \in 0 .. 2
  BY <1>7, NeighborFacts
<1>9. /\ w[2] = u[2] + e.hop /\ w[3] = u[3] + 1 - e.hop /\ w[4] = e.node
      /\ w[1] >= u[1] /\ w[1] >= e.strength
  BY <1>5, <1>6, ExtendFacts
<1>10. u \in Within(g, d, bound)
  BY <1>2, <1>7, <1>9 DEF Within
<1>11. PICK v : Tight(g, d, bound, v) /\ v[4] = u[4]
  BY <1>10, TightExists
<1>12. v \in Within(g, d, bound) /\ NoLonger(v, u)
  BY <1>10, <1>11 DEF Tight
<1>13. /\ v \in Walks(g, d) /\ v[1] \in Nat /\ v[2] \in Nat /\ v[3] \in Nat /\ Label(v, g)
       /\ v[1] <= bound
  BY <1>12, WithinNat DEF Within
<1> DEFINE x == T!Extend(v, e)
<1>14. /\ x[1] = (IF v[1] >= e.strength THEN v[1] ELSE e.strength)
       /\ x[2] = v[2] + e.hop /\ x[3] = v[3] + 1 - e.hop /\ x[4] = e.node
  BY <1>11, <1>13, ExtendFacts
<1>15. x[2] <= d /\ x[1] <= bound
  BY <1>2, <1>7, <1>8, <1>9, <1>12, <1>13, <1>14 DEF NoLonger
<1>16. x \in Within(g, d, bound)
  BY <1>11, <1>13, <1>15, WalksFacts DEF Within
<1>17. NoLonger(w, x)
  BY <1>9, <1>14, <1>16 DEF Tight
<1>18. v[2] = u[2] /\ v[3] = u[3]
  BY <1>2, <1>7, <1>8, <1>9, <1>12, <1>13, <1>14, <1>17 DEF NoLonger
<1>19. v[2] + v[3] = w[2] + w[3] - 1
  BY <1>2, <1>5, <1>7, <1>18
<1> QED
  BY <1>11, <1>19 DEF OneLess

LEMMA TightChain ==
    ASSUME NEW g, SoundGraph(g), NEW d \in Nat, NEW bound \in Nat, NEW w,
           Tight(g, d, bound, w), NEW len \in Nat, len = w[2] + w[3]
    PROVE  \A i \in 0..len : \E v : Tight(g, d, bound, v) /\ v[2] + v[3] = i
<1> DEFINE wrong == {j \in 0..len : ~\E v : Tight(g, d, bound, v) /\ v[2] + v[3] = len - j}
<1>1. wrong = {}
  <2> SUFFICES ASSUME wrong # {} PROVE FALSE
    OBVIOUS
  <2>1. wrong \subseteq Nat
    OBVIOUS
  <2> HIDE DEF wrong
  <2>2. PICK j \in wrong : \A x \in wrong : j <= x
    BY <2>1, LeastNat
  <2>3. j \in 0..len /\ ~\E v : Tight(g, d, bound, v) /\ v[2] + v[3] = len - j
    BY <2>2 DEF wrong
  <2>4. j # 0
    BY <2>3
  <2>5. j - 1 \in 0..len /\ ~(j <= j - 1) /\ len - (j - 1) # 0 /\ len - (j - 1) - 1 = len - j
    BY <2>3, <2>4
  <2>6. PICK v : Tight(g, d, bound, v) /\ v[2] + v[3] = len - (j - 1)
    BY <2>2, <2>5 DEF wrong
  <2>7. v[2] + v[3] # 0
    BY <2>5, <2>6
  <2>8. PICK u : Tight(g, d, bound, u) /\ u[2] + u[3] = v[2] + v[3] - 1
    <3>1. OneLess(g, d, bound, v)
      BY <2>6, <2>7, TightPrefix
    <3> QED
      BY <3>1 DEF OneLess
  <2>9. u[2] + u[3] = len - j
    <3>1. v \in Within(g, d, bound) /\ u \in Within(g, d, bound)
      BY <2>6, <2>8 DEF Tight
    <3>2. v[2] \in Nat /\ v[3] \in Nat /\ u[2] \in Nat /\ u[3] \in Nat
      BY <3>1, WithinNat
    <3> QED
      BY <2>3, <2>6, <2>8, <3>2
  <2> QED
    BY <2>3, <2>8, <2>9
<1>2. ASSUME NEW i \in 0..len PROVE \E v : Tight(g, d, bound, v) /\ v[2] + v[3] = i
  <2>1. len - i \in 0..len /\ len - (len - i) = i
    OBVIOUS
  <2>2. len - i \notin wrong
    BY <1>1
  <2> QED
    BY <2>1, <2>2
<1> QED
  BY <1>2

LEMMA TightIsShort ==
    ASSUME NEW g, SoundGraph(g), NEW d \in Nat, NEW bound \in Nat, NEW w,
           Tight(g, d, bound, w)
    PROVE  w[2] + w[3] \in Nat /\ w[2] + w[3] <= Cardinality(g.nodes) - 1
<1> DEFINE len == w[2] + w[3]
           Best(i, v) == Tight(g, d, bound, v) /\ v[2] + v[3] = i
           f == [i \in 0..len |-> (CHOOSE v : Best(i, v))[4]]
<1>1. w \in Within(g, d, bound)
  BY DEF Tight
<1>2. len \in Nat
  BY <1>1, WithinNat
<1>3. \A i \in 0..len : \E v : Best(i, v)
  BY <1>2, TightChain
<1>4. ASSUME NEW i \in 0..len PROVE \E v : Best(i, v) /\ f[i] = v[4] /\ v[4] \in g.nodes
  <2>1. Best(i, CHOOSE v : Best(i, v))
    BY <1>3
  <2>2. (CHOOSE v : Best(i, v)) \in Within(g, d, bound)
    BY <2>1 DEF Tight
  <2>3. (CHOOSE v : Best(i, v))[4] \in g.nodes
    BY <2>2, WithinNat
  <2> QED
    BY <2>1, <2>3
<1>5. ASSUME NEW i \in 0..len, NEW j \in 0..len, f[i] = f[j] PROVE i = j
  <2>1. PICK u : Best(i, u) /\ f[i] = u[4]
    BY <1>4
  <2>2. PICK v : Best(j, v) /\ f[j] = v[4]
    BY <1>4
  <2>3. u \in Within(g, d, bound) /\ v \in Within(g, d, bound)
    BY <2>1, <2>2 DEF Tight
  <2>4. NoLonger(u, v) /\ NoLonger(v, u)
    BY <1>5, <2>1, <2>2, <2>3 DEF Tight
  <2>5. u[2] \in Nat /\ u[3] \in Nat /\ v[2] \in Nat /\ v[3] \in Nat
    BY <2>3, WithinNat
  <2>6. u[2] = v[2] /\ u[3] = v[3]
    BY <2>4, <2>5 DEF NoLonger
  <2> QED
    BY <2>1, <2>2, <2>6
<1>6. f \in Injection(0..len, g.nodes)
  <2>1. f \in [0..len -> g.nodes]
    BY <1>4
  <2>2. \A i, j \in 0..len : f[i] = f[j] => i = j
    BY <1>5
  <2> HIDE DEF f
  <2> QED
    BY <2>1, <2>2 DEF Injection, IsInjective
<1>7. Cardinality(0..len) <= Cardinality(g.nodes)
  <2>1. IsFiniteSet(g.nodes)
    BY DEF SoundGraph
  <2> HIDE DEF f, len
  <2> QED
    BY <1>6, <2>1, FS_Injection
<1>8. Cardinality(0..len) = len + 1
  BY <1>2, FS_Interval
<1>9. Cardinality(g.nodes) \in Nat
  BY FS_CardinalityType DEF SoundGraph
<1> QED
  BY <1>2, <1>7, <1>8, <1>9

\* Every walk has one to the same node, no weaker and no longer, of fewer edges
\* than there are nodes.
LEMMA CyclesAreCut ==
    ASSUME NEW g, SoundGraph(g), NEW d \in Nat, NEW w \in Walks(g, d)
    PROVE  \E v \in WalkIn(g, Cardinality(g.nodes) - 1, d) :
              v \in Walks(g, d) /\ v[4] = w[4] /\ v[1] <= w[1] /\ NoLonger(v, w)
<1>1. Label(w, g)
  BY WalksFacts DEF WalkLabel
<1>2. w[1] \in Nat
  BY <1>1 DEF Label
<1>3. w \in Within(g, d, w[1])
  BY <1>2 DEF Within
<1>4. PICK v : Tight(g, d, w[1], v) /\ v[4] = w[4]
  BY <1>2, <1>3, TightExists
<1>5. v \in Within(g, d, w[1]) /\ NoLonger(v, w)
  BY <1>3, <1>4 DEF Tight
<1>6. v \in Walks(g, d) /\ v[1] <= w[1]
  BY <1>5 DEF Within
<1>7. v[2] + v[3] \in Nat /\ v[2] + v[3] <= Cardinality(g.nodes) - 1
  BY <1>2, <1>4, TightIsShort
<1>8. Cardinality(g.nodes) - 1 \in Nat
  <2>1. Cardinality(g.nodes) \in Nat
    BY FS_CardinalityType DEF SoundGraph
  <2> QED
    BY <1>7, <2>1
<1>9. v \in WalkIn(g, v[2] + v[3], d)
  BY <1>6, <1>7, WalksFacts
<1>10. v \in WalkIn(g, Cardinality(g.nodes) - 1, d)
  BY <1>7, <1>8, <1>9, FewerEdges
<1> QED
  BY <1>4, <1>5, <1>6, <1>10

----
(* The search: every state it keeps is a walk's, and a state that is no     *)
(* longer to be expanded has its extensions kept, at no more IS_A hops, or  *)
(* marked as blocked.                                                       *)

LabelOf(s, b) == <<s[2], s[3], b[s], s[1]>>
Covered(l, b) == T!State(l) \in DOMAIN b /\ b[T!State(l)] <= l[3]

Settled(s, g, d, b, stop) ==
    \A e \in T!Neighbors(g, s[1]) :
        IF e.hop = 1 /\ s[3] = d THEN e.node \in stop ELSE Covered(T!Extend(LabelOf(s, b), e), b)

States(g) == g.nodes \X Nat \X Nat

Found ==
    /\ SoundGraph(graph)
    /\ DOMAIN best \subseteq States(graph) /\ \A s \in DOMAIN best : best[s] \in Nat
    /\ \A l \in heap : Label(l, graph) /\ T!State(l) \in DOMAIN best
    /\ Covered(Origin, best)
    /\ \A s \in DOMAIN best : LabelOf(s, best) \in Walks(graph, maxDepth)
    /\ \A s \in DOMAIN best : LabelOf(s, best) \in heap \/ Settled(s, graph, maxDepth, best, blocked)
    /\ \A n \in blocked : \E s \in DOMAIN best : \E e \in T!Neighbors(graph, s[1]) : e.node = n

SearchInv ==
    /\ export \in Exports /\ maxDepth \in Depths
    /\ pc \in {"load", "search", "done", "refused"}
    /\ pc = "load" => blocked = {}
    /\ pc = "done" => heap = {}
    /\ pc \in {"search", "done"} => Found

LEMMA TraversalFacts ==
    /\ Depths \subseteq Nat /\ MaxCandidates \in Nat \ {0}
    /\ \A e \in Exports : IsFiniteSet(e.nodes) /\ \A n \in e.nodes : n.id \in Nat
BY InputsAssumption DEF InputsAssumption, T!TraversalAssumption, T!IsFiniteSet, IsFiniteSet

LEMMA PinnedIsSound ==
    ASSUME NEW e \in Exports, T!Consistent(e), Anchor \in T!Pinned(e).nodes
    PROVE  SoundGraph(T!Pinned(e))
<1> DEFINE g == T!Pinned(e)
           own == T!Own(e)
           mine == {r \in e.edges : r.revision = Revision}
           ids == {n.id : n \in own}
           f == [n \in own |-> n.id]
<1>1. /\ g.nodes = ids
      /\ g.isA = {<<r.start[2], r.end[2]>> : r \in {q \in mine : q.type = "is_a"}}
      /\ g.rel = {<<r.type, r.start[2], r.end[2]>> :
                        r \in {q \in mine : q.type # "is_a" /\ q.start # q.end}}
  BY DEF T!Pinned
<1>2. own \in SUBSET e.nodes
  BY DEF T!Own
<1>3. IsFiniteSet(own)
  BY <1>2, TraversalFacts, FS_Subset
<1>4. f \in Surjection(own, ids)
  <2>1. f \in [own -> ids] /\ \A t \in ids : \E n \in own : f[n] = t
    OBVIOUS
  <2> QED
    BY <2>1 DEF Surjection
<1>5. IsFiniteSet(ids)
  <2> HIDE DEF f, ids, own
  <2> QED
    BY <1>3, <1>4, FS_Surjection
<1>6. ids \subseteq Nat
  BY <1>2, TraversalFacts
<1>7. ASSUME NEW r \in mine PROVE r.start[2] \in ids /\ r.end[2] \in ids
  <2>1. r.start \in {T!KeyOf(n) : n \in own} /\ r.end \in {T!KeyOf(n) : n \in own}
    BY <1>7 DEF T!Consistent
  <2>2. ASSUME NEW k \in {T!KeyOf(n) : n \in own} PROVE k[2] \in ids
    BY <2>2 DEF T!KeyOf
  <2> QED
    BY <2>1, <2>2
<1> HIDE DEF ids, own, mine, g
<1>8. g.isA \subseteq g.nodes \X g.nodes
  BY <1>1, <1>7
<1>9. ASSUME NEW x \in g.rel PROVE x[2] \in g.nodes /\ x[3] \in g.nodes
  <2>1. PICK r \in mine : x = <<r.type, r.start[2], r.end[2]>>
    BY <1>1, <1>9
  <2>2. x[2] = r.start[2] /\ x[3] = r.end[2]
    BY <2>1
  <2> QED
    BY <1>1, <1>7, <2>2
<1>10. g.nodes = ids
  BY <1>1
<1> QED
  BY <1>5, <1>6, <1>8, <1>9, <1>10 DEF SoundGraph, g

LEMMA LoadInSearch == ASSUME SearchInv, T!Load PROVE SearchInv'
<1>1. CASE ~(T!Consistent(export) /\ Anchor \in T!Pinned(export).nodes)
  BY <1>1 DEF SearchInv, T!Load
<1>2. CASE T!Consistent(export) /\ Anchor \in T!Pinned(export).nodes
  <2>1. /\ pc = "load" /\ pc' = "search" /\ graph' = T!Pinned(export) /\ heap' = {Origin}
        /\ best' = [s \in {T!State(Origin)} |-> 0]
        /\ export' = export /\ maxDepth' = maxDepth /\ blocked' = blocked
    BY <1>2 DEF T!Load, Origin
  <2>2. SoundGraph(graph') /\ maxDepth \in Nat /\ blocked' = {}
    BY <1>2, <2>1, PinnedIsSound, TraversalFacts DEF SearchInv
  <2>3. WalkLabel(Origin, graph', maxDepth) /\ Origin[3] = 0
    BY <2>2, StartIsWalk
  <2>4. T!State(Origin) = <<Anchor, 0, 0>> /\ Origin = <<0, 0, 0, Anchor>>
    BY DEF T!State, Origin
  <2>5. DOMAIN best' = {<<Anchor, 0, 0>>} /\ best'[<<Anchor, 0, 0>>] = 0
    BY <2>1, <2>4
  <2>6. <<Anchor, 0, 0>> \in States(graph')
    BY <2>2 DEF States, SoundGraph
  <2>7. LabelOf(<<Anchor, 0, 0>>, best') = Origin
    BY <2>5 DEF LabelOf, Origin
  <2>8. Origin \in Walks(graph', maxDepth)
    BY <2>2, WalksFacts
  <2>9. Found'
    BY <2>1, <2>2, <2>3, <2>4, <2>5, <2>6, <2>7, <2>8 DEF Found, Covered, WalkLabel
  <2> QED
    BY <2>1, <2>2, <2>9 DEF SearchInv
<1> QED
  BY <1>1, <1>2

\* The label of a state, and the state of a label.
LEMMA LabelState ==
    ASSUME NEW g, NEW l, Label(l, g), NEW b
    PROVE  /\ T!State(l) \in States(g)
           /\ T!State(l)[1] = l[4] /\ T!State(l)[2] = l[1] /\ T!State(l)[3] = l[2]
           /\ b[T!State(l)] = l[3] => LabelOf(T!State(l), b) = l
<1>1. /\ l \in Nat \X Nat \X Nat \X g.nodes
  BY DEF Label
<1>2. l[1] \in Nat /\ l[2] \in Nat /\ l[3] \in Nat /\ l[4] \in g.nodes /\ l = <<l[1], l[2], l[3], l[4]>>
  BY <1>1
<1>3. T!State(l) = <<l[4], l[1], l[2]>>
  BY DEF T!State
<1>4. T!State(l)[1] = l[4] /\ T!State(l)[2] = l[1] /\ T!State(l)[3] = l[2]
  BY <1>3
<1>5. T!State(l) \in States(g)
  BY <1>2, <1>3 DEF States
<1> QED
  BY <1>2, <1>4, <1>5 DEF LabelOf

LEMMA SkipInSearch == ASSUME SearchInv, NEW label \in heap, T!Skip(label) PROVE SearchInv'
<1>1. /\ pc = "search" /\ best[T!State(label)] # label[3] /\ heap' = heap \ {label}
      /\ UNCHANGED <<export, maxDepth, pc, graph, best, blocked>>
  BY DEF T!Skip
<1>2. Found
  BY <1>1 DEF SearchInv
<1>3. ASSUME NEW s \in DOMAIN best, LabelOf(s, best) \in heap PROVE LabelOf(s, best) \in heap'
  <2>1. s \in States(graph)
    BY <1>2 DEF Found
  <2>2. s = <<s[1], s[2], s[3]>>
    BY <2>1 DEF States
  <2>3. T!State(LabelOf(s, best)) = s /\ LabelOf(s, best)[3] = best[s]
    BY <2>2 DEF T!State, LabelOf
  <2> QED
    BY <1>1, <1>3, <2>3
<1>4. Found'
  BY <1>1, <1>2, <1>3 DEF Found
<1> QED
  BY <1>1, <1>4 DEF SearchInv

LEMMA LeastOf ==
    ASSUME NEW S, S \subseteq Nat, S # {}
    PROVE  T!Min(S) \in S /\ \A y \in S : T!Min(S) <= y
BY LeastNat DEF T!Min

----
\* Entries lowered to the least of the better labels for them.
Lowered(b, better) ==
    [s \in DOMAIN b \cup {T!State(l) : l \in better} |->
        IF \E l \in better : T!State(l) = s
        THEN T!Min({l[3] : l \in {x \in better : T!State(x) = s}})
        ELSE b[s]]

LEMMA LoweredFacts ==
    ASSUME NEW g, NEW b, \A s \in DOMAIN b : b[s] \in Nat,
           NEW better, \A l \in better : Label(l, g) /\ ~Covered(l, b),
           NEW c, c = Lowered(b, better)
    PROVE  /\ DOMAIN c = DOMAIN b \cup {T!State(l) : l \in better}
           /\ \A s \in DOMAIN c : c[s] \in Nat
           /\ \A s \in DOMAIN c : \/ LabelOf(s, c) \in better
                                  \/ s \in DOMAIN b /\ c[s] = b[s]
           /\ \A l \in better : Covered(l, c)
           /\ \A l : Covered(l, b) /\ l[3] \in Nat => Covered(l, c)
<1> DEFINE at(s) == {x \in better : T!State(x) = s}
           hops(s) == {l[3] : l \in at(s)}
<1>1. DOMAIN c = DOMAIN b \cup {T!State(l) : l \in better}
  BY DEF Lowered
<1>2. \A l \in better : l[3] \in Nat
  BY DEF Label
<1>3. ASSUME NEW s \in DOMAIN c, at(s) # {}
      PROVE  /\ \E l \in at(s) : c[s] = l[3] /\ LabelOf(s, c) = l
             /\ \A l \in at(s) : c[s] <= l[3]
             /\ s \in DOMAIN b => c[s] <= b[s]
  <2>1. c[s] = T!Min(hops(s))
    BY <1>3 DEF Lowered
  <2>2. hops(s) \subseteq Nat /\ hops(s) # {}
    BY <1>2, <1>3
  <2>3. c[s] \in hops(s) /\ \A y \in hops(s) : c[s] <= y
    <3> HIDE DEF hops
    <3> QED
      BY <2>1, <2>2, LeastOf
  <2>4. PICK l \in at(s) : c[s] = l[3]
    BY <2>3
  <2>5. Label(l, g) /\ T!State(l) = s
    OBVIOUS
  <2>6. LabelOf(s, c) = l
    BY <2>4, <2>5, LabelState
  <2>7. \A x \in at(s) : c[s] <= x[3]
    BY <2>3
  <2>8. s \in DOMAIN b => c[s] <= b[s]
    <3>1. ~(T!State(l) \in DOMAIN b /\ b[T!State(l)] <= l[3])
      BY DEF Covered
    <3>2. l[3] \in Nat
      BY <1>2
    <3> QED
      BY <2>4, <2>5, <3>1, <3>2
  <2> QED
    BY <2>4, <2>6, <2>7, <2>8
<1>4. ASSUME NEW s \in DOMAIN c, at(s) = {} PROVE s \in DOMAIN b /\ c[s] = b[s]
  <2>1. ~\E l \in better : T!State(l) = s
    BY <1>4
  <2> QED
    BY <1>1, <2>1 DEF Lowered
<1>5. ASSUME NEW s \in DOMAIN c
      PROVE  /\ LabelOf(s, c) \in better \/ (s \in DOMAIN b /\ c[s] = b[s])
             /\ c[s] \in Nat
             /\ s \in DOMAIN b => c[s] <= b[s]
  <2>1. CASE at(s) # {}
    <3>1. PICK l \in at(s) : c[s] = l[3] /\ LabelOf(s, c) = l
      BY <1>3, <2>1
    <3> QED
      BY <1>2, <1>3, <2>1, <3>1
  <2>2. CASE at(s) = {}
    BY <1>4, <2>2
  <2> QED
    BY <2>1, <2>2
<1>6. ASSUME NEW l \in better PROVE Covered(l, c)
  <2>1. T!State(l) \in DOMAIN c /\ l \in at(T!State(l))
    BY <1>1
  <2>2. c[T!State(l)] <= l[3]
    BY <1>3, <2>1
  <2> QED
    BY <2>1, <2>2 DEF Covered
<1>7. ASSUME NEW l, Covered(l, b), l[3] \in Nat PROVE Covered(l, c)
  <2>1. T!State(l) \in DOMAIN b /\ b[T!State(l)] <= l[3] /\ b[T!State(l)] \in Nat
    BY <1>7 DEF Covered
  <2>2. T!State(l) \in DOMAIN c
    BY <1>1, <2>1
  <2>3. c[T!State(l)] <= b[T!State(l)] /\ c[T!State(l)] \in Nat
    BY <1>5, <2>1, <2>2
  <2> QED
    BY <1>7, <2>1, <2>2, <2>3 DEF Covered
<1> QED
  BY <1>1, <1>5, <1>6, <1>7

LEMMA ExpandInSearch == ASSUME SearchInv, NEW label \in heap, T!Expand(label) PROVE SearchInv'
<1> DEFINE around == T!Neighbors(graph, label[4])
           over == {e \in around : e.hop = 1 /\ label[2] = maxDepth}
           better == {l \in {T!Extend(label, e) : e \in around \ over} : T!Improves(l)}
           s0 == T!State(label)
<1>1. /\ pc = "search" /\ best[s0] = label[3]
      /\ best' = Lowered(best, better)
      /\ heap' = (heap \ {label}) \cup better
      /\ blocked' = blocked \cup {e.node : e \in over}
      /\ UNCHANGED <<export, maxDepth, pc, graph>>
  BY DEF T!Expand, Lowered
<1>2. Found /\ maxDepth \in Nat
  BY <1>1, TraversalFacts DEF SearchInv
<1>3. /\ SoundGraph(graph) /\ DOMAIN best \subseteq States(graph)
      /\ \A s \in DOMAIN best : best[s] \in Nat
      /\ Label(label, graph) /\ s0 \in DOMAIN best
  BY <1>2 DEF Found
<1>4. LabelOf(s0, best) = label /\ s0[1] = label[4] /\ s0[3] = label[2]
  BY <1>1, <1>3, LabelState
<1>5. label \in Walks(graph, maxDepth)
  BY <1>2, <1>3, <1>4 DEF Found
<1>6. /\ label[1] \in Nat /\ label[2] \in Nat /\ label[3] \in Nat /\ label[4] \in graph.nodes
      /\ label[2] <= maxDepth
  BY <1>2, <1>3, <1>5, WalksFacts DEF WalkLabel, Label
<1>7. ASSUME NEW e \in around \ over
      PROVE  /\ T!Extend(label, e) \in Walks(graph, maxDepth)
             /\ Label(T!Extend(label, e), graph)
  <2>1. e.hop \in {0, 1}
    BY <1>3, <1>6, NeighborFacts
  <2>2. T!Extend(label, e)[2] = label[2] + e.hop /\ Label(T!Extend(label, e), graph)
    BY <1>3, ExtendFacts
  <2>3. ~(e.hop = 1 /\ label[2] = maxDepth)
    BY <1>7
  <2>4. T!Extend(label, e)[2] <= maxDepth
    BY <1>2, <1>6, <2>1, <2>2, <2>3
  <2> QED
    BY <1>2, <1>3, <1>5, <2>2, <2>4, WalksFacts
<1>8. ASSUME NEW l, l[3] \in Nat PROVE T!Improves(l) <=> ~Covered(l, best)
  <2>1. T!State(l) \in DOMAIN best => best[T!State(l)] \in Nat
    BY <1>3
  <2>2. T!State(l) \in DOMAIN best => (l[3] < best[T!State(l)] <=> ~(best[T!State(l)] <= l[3]))
    BY <1>8, <2>1
  <2> QED
    BY <2>2 DEF T!Improves, Covered
<1>9. \A l \in better : l \in Walks(graph, maxDepth) /\ Label(l, graph) /\ ~Covered(l, best)
  <2> TAKE l \in better
  <2>1. l \in Walks(graph, maxDepth) /\ Label(l, graph) /\ T!Improves(l)
    BY <1>7
  <2>2. l[3] \in Nat
    BY <2>1 DEF Label
  <2> QED
    BY <1>8, <2>1, <2>2
<1> HIDE DEF better
<1>10. /\ DOMAIN best' = DOMAIN best \cup {T!State(l) : l \in better}
       /\ \A s \in DOMAIN best' : best'[s] \in Nat
       /\ \A s \in DOMAIN best' : \/ LabelOf(s, best') \in better
                                  \/ s \in DOMAIN best /\ best'[s] = best[s]
       /\ \A l \in better : Covered(l, best')
       /\ \A l : Covered(l, best) /\ l[3] \in Nat => Covered(l, best')
  BY <1>1, <1>3, <1>9, LoweredFacts
<1>11. DOMAIN best' \subseteq States(graph)
  BY <1>3, <1>9, <1>10, LabelState
<1>12. \A l \in heap' : Label(l, graph) /\ T!State(l) \in DOMAIN best'
  BY <1>1, <1>2, <1>9, <1>10 DEF Found
<1>13. Covered(Origin, best')
  <2>1. Origin[3] \in Nat
    BY DEF Origin
  <2> QED
    BY <1>2, <1>10, <2>1 DEF Found
<1>14. \A s \in DOMAIN best' : LabelOf(s, best') \in Walks(graph, maxDepth)
  <2> TAKE s \in DOMAIN best'
  <2>1. CASE LabelOf(s, best') \in better
    BY <1>9, <2>1
  <2>2. CASE s \in DOMAIN best /\ best'[s] = best[s]
    BY <1>2, <2>2 DEF Found, LabelOf
  <2> QED
    BY <1>10, <2>1, <2>2
<1>15. \A s \in DOMAIN best' :
          LabelOf(s, best') \in heap' \/ Settled(s, graph, maxDepth, best', blocked')
  <2> TAKE s \in DOMAIN best'
  <2>1. CASE LabelOf(s, best') \in better
    BY <1>1, <2>1
  <2>2. ASSUME s \in DOMAIN best, best'[s] = best[s], NEW e \in T!Neighbors(graph, s[1])
        PROVE  T!Extend(LabelOf(s, best), e)[3] \in Nat
    <3>1. LabelOf(s, best) \in Walks(graph, maxDepth)
      BY <1>2, <2>2 DEF Found
    <3>2. Label(LabelOf(s, best), graph)
      BY <1>2, <1>3, <3>1, WalksFacts DEF WalkLabel
    <3>3. LabelOf(s, best)[4] = s[1]
      BY DEF LabelOf
    <3>4. Label(T!Extend(LabelOf(s, best), e), graph)
      BY <1>3, <3>2, <3>3, ExtendFacts
    <3> QED
      BY <3>4 DEF Label
  <2>3. ASSUME s \in DOMAIN best, best'[s] = best[s], Settled(s, graph, maxDepth, best, blocked)
        PROVE  Settled(s, graph, maxDepth, best', blocked')
    <3>1. LabelOf(s, best') = LabelOf(s, best)
      BY <2>3 DEF LabelOf
    <3>2. ASSUME NEW e \in T!Neighbors(graph, s[1])
          PROVE  IF e.hop = 1 /\ s[3] = maxDepth THEN e.node \in blocked'
                 ELSE Covered(T!Extend(LabelOf(s, best), e), best')
      <4>1. CASE e.hop = 1 /\ s[3] = maxDepth
        BY <1>1, <2>3, <4>1 DEF Settled
      <4>2. CASE ~(e.hop = 1 /\ s[3] = maxDepth)
        <5>1. Covered(T!Extend(LabelOf(s, best), e), best)
          BY <2>3, <4>2 DEF Settled
        <5> QED
          BY <1>10, <2>2, <2>3, <4>2, <5>1
      <4> QED
        BY <4>1, <4>2
    <3> QED
      BY <3>1, <3>2 DEF Settled
  <2>4. ASSUME s \in DOMAIN best, best'[s] = best[s], LabelOf(s, best) = label
        PROVE  Settled(s, graph, maxDepth, best', blocked')
    <3>1. LabelOf(s, best') = label
      BY <2>4 DEF LabelOf
    <3>2. s[1] = label[4] /\ s[3] = label[2]
      BY <2>4 DEF LabelOf
    <3>3. ASSUME NEW e \in T!Neighbors(graph, s[1])
          PROVE  IF e.hop = 1 /\ s[3] = maxDepth THEN e.node \in blocked'
                 ELSE Covered(T!Extend(label, e), best')
      <4>1. CASE e.hop = 1 /\ s[3] = maxDepth
        BY <1>1, <3>2, <4>1
      <4>2. CASE ~(e.hop = 1 /\ s[3] = maxDepth)
        <5>1. e \in around \ over
          BY <3>2, <4>2
        <5>2. T!Extend(label, e)[3] \in Nat
          BY <1>7, <5>1 DEF Label
        <5>3. CASE T!Extend(label, e) \in better
          BY <1>10, <4>2, <5>3
        <5>4. CASE T!Extend(label, e) \notin better
          <6>1. ~T!Improves(T!Extend(label, e))
            BY <5>1, <5>4 DEF better
          <6>2. Covered(T!Extend(label, e), best)
            BY <1>8, <5>2, <6>1
          <6> QED
            BY <1>10, <4>2, <5>2, <6>2
        <5> QED
          BY <5>3, <5>4
      <4> QED
        BY <4>1, <4>2
    <3> QED
      BY <3>1, <3>3 DEF Settled
  <2>5. CASE s \in DOMAIN best /\ best'[s] = best[s]
    <3>1. LabelOf(s, best') = LabelOf(s, best)
      BY <2>5 DEF LabelOf
    <3>2. CASE LabelOf(s, best) \in heap /\ LabelOf(s, best) # label
      BY <1>1, <3>1, <3>2
    <3>3. LabelOf(s, best) \in heap \/ Settled(s, graph, maxDepth, best, blocked)
      BY <1>2, <2>5 DEF Found
    <3> QED
      BY <2>3, <2>4, <2>5, <3>2, <3>3
  <2> QED
    BY <1>10, <2>1, <2>5
<1>16. \A n \in blocked' : \E s \in DOMAIN best' : \E e \in T!Neighbors(graph, s[1]) : e.node = n
  <2> TAKE n \in blocked'
  <2>1. CASE n \in blocked
    BY <1>2, <1>10, <2>1 DEF Found
  <2>2. CASE n \in {e.node : e \in over}
    BY <1>3, <1>4, <1>10, <2>2
  <2> QED
    BY <1>1, <2>1, <2>2
<1>17. Found'
  BY <1>1, <1>3, <1>10, <1>11, <1>12, <1>13, <1>14, <1>15, <1>16 DEF Found
<1> QED
  BY <1>1, <1>17 DEF SearchInv

LEMMA FinishInSearch == ASSUME SearchInv, T!Finish PROVE SearchInv'
BY DEF SearchInv, T!Finish, Found

LEMMA SearchNext == ASSUME SearchInv, [T!Next]_traversalVars PROVE SearchInv'
<1>1. CASE UNCHANGED traversalVars
  BY <1>1 DEF SearchInv, traversalVars, Found
<1> QED
  BY <1>1, LoadInSearch, SkipInSearch, ExpandInSearch, FinishInSearch DEF T!Next

LEMMA SearchInit == T!Init => SearchInv
BY DEF T!Init, SearchInv

----
(* The search has ended: every walk is covered, so that the cheapest label  *)
(* of a node is the cost of its best walk.                                  *)

Ended == Found /\ heap = {} /\ maxDepth \in Nat

LEMMA EveryWalkIsCovered == ASSUME Ended PROVE \A w \in Walks(graph, maxDepth) : Covered(w, best)
<1> DEFINE ws == Walks(graph, maxDepth)
           missed == {w \in ws : ~Covered(w, best)}
           hops == {w[2] + w[3] : w \in missed}
<1>0. SoundGraph(graph) /\ maxDepth \in Nat /\ DOMAIN best \subseteq States(graph)
  BY DEF Ended, Found
<1>1. \A w \in ws : WalkLabel(w, graph, maxDepth)
  BY <1>0, WalksFacts
<1>2. \A w \in ws : w[2] + w[3] \in Nat
  BY <1>1 DEF WalkLabel, Label
<1> SUFFICES ASSUME missed # {} PROVE FALSE
  OBVIOUS
<1>3. hops \subseteq Nat /\ hops # {}
  BY <1>2
<1>4. PICK h \in hops : \A x \in hops : h <= x
  <2> HIDE DEF hops
  <2> QED
    BY <1>3, LeastNat
<1>5. PICK w \in missed : w[2] + w[3] = h
  BY <1>4
<1>6. w # Origin
  BY <1>5 DEF Ended, Found
<1>7. PICK u \in ws : \E e \in T!Neighbors(graph, u[4]) :
          w = T!Extend(u, e) /\ w[2] + w[3] = u[2] + u[3] + 1
  BY <1>0, <1>5, <1>6, LastEdge
<1>8. PICK e \in T!Neighbors(graph, u[4]) : w = T!Extend(u, e) /\ w[2] + w[3] = u[2] + u[3] + 1
  BY <1>7
<1>9. Covered(u, best)
  <2>1. u \notin missed
    <3>1. u[2] + u[3] \in Nat /\ ~(h <= u[2] + u[3])
      BY <1>2, <1>5, <1>8
    <3>2. u[2] + u[3] \notin hops
      BY <1>4, <3>1
    <3> QED
      BY <3>2
  <2> QED
    BY <2>1
<1> DEFINE s == T!State(u)
           x == T!Extend(LabelOf(s, best), e)
<1>10. Label(u, graph) /\ Label(w, graph) /\ w[2] <= maxDepth
  BY <1>1, <1>5 DEF WalkLabel
<1>11. s \in DOMAIN best /\ best[s] <= u[3] /\ s[1] = u[4] /\ s[2] = u[1] /\ s[3] = u[2]
  BY <1>9, <1>10, LabelState DEF Covered
<1>12. /\ LabelOf(s, best)[1] = u[1] /\ LabelOf(s, best)[2] = u[2]
       /\ LabelOf(s, best)[3] = best[s] /\ LabelOf(s, best)[4] = u[4]
  BY <1>11 DEF LabelOf
<1>13. Label(LabelOf(s, best), graph)
  BY <1>0, <1>11, WalksFacts DEF Ended, Found, WalkLabel
<1>14. /\ u[1] \in Nat /\ u[2] \in Nat /\ u[3] \in Nat /\ best[s] \in Nat /\ u[4] \in graph.nodes
  BY <1>10, <1>12, <1>13 DEF Label
<1>15. e.hop \in {0, 1}
  BY <1>0, <1>14, NeighborFacts
<1>16. /\ w[1] = (IF u[1] >= e.strength THEN u[1] ELSE e.strength)
       /\ w[2] = u[2] + e.hop /\ w[3] = u[3] + 1 - e.hop /\ w[4] = e.node
  BY <1>0, <1>8, <1>10, ExtendFacts
<1>17. /\ x[1] = (IF u[1] >= e.strength THEN u[1] ELSE e.strength)
       /\ x[2] = u[2] + e.hop /\ x[3] = best[s] + 1 - e.hop /\ x[4] = e.node
  BY <1>0, <1>12, <1>13, ExtendFacts
<1>18. ~(e.hop = 1 /\ s[3] = maxDepth)
  BY <1>0, <1>10, <1>11, <1>14, <1>16
<1>19. Settled(s, graph, maxDepth, best, blocked)
  BY <1>11 DEF Ended, Found
<1>20. Covered(x, best)
  BY <1>11, <1>18, <1>19 DEF Settled
<1>21. T!State(x) = T!State(w)
  BY <1>16, <1>17 DEF T!State
<1>22. x[3] <= w[3] /\ x[3] \in Int /\ w[3] \in Int
  BY <1>11, <1>14, <1>15, <1>16, <1>17
<1>23. best[T!State(w)] \in Nat
  BY <1>20, <1>21 DEF Covered, Ended, Found
<1>24. Covered(w, best)
  BY <1>20, <1>21, <1>22, <1>23 DEF Covered
<1> QED
  BY <1>5, <1>24

LEMMA CheapestExists ==
    ASSUME NEW S, S \subseteq Nat \X Nat \X Nat, S # {}
    PROVE  \E c \in S : \A x \in S : ~T!Cheaper(x, c)
<1>0. \A x \in S : x[1] \in Nat /\ x[2] \in Nat /\ x[3] \in Nat
  OBVIOUS
<1> DEFINE ones == {x[1] : x \in S}
<1>1. PICK one \in ones : \A y \in ones : one <= y
  <2>1. ones \subseteq Nat /\ ones # {}
    BY <1>0
  <2> HIDE DEF ones
  <2> QED
    BY <2>1, LeastNat
<1> DEFINE twos == {x[2] : x \in {y \in S : y[1] = one}}
<1>2. PICK two \in twos : \A y \in twos : two <= y
  <2>1. twos \subseteq Nat /\ twos # {}
    BY <1>0, <1>1
  <2> HIDE DEF twos
  <2> QED
    BY <2>1, LeastNat
<1> DEFINE threes == {x[3] : x \in {y \in S : y[1] = one /\ y[2] = two}}
<1>3. PICK three \in threes : \A y \in threes : three <= y
  <2>1. threes \subseteq Nat /\ threes # {}
    BY <1>0, <1>2
  <2> HIDE DEF threes
  <2> QED
    BY <2>1, LeastNat
<1>4. PICK c \in S : c[1] = one /\ c[2] = two /\ c[3] = three
  BY <1>3
<1>5. ASSUME NEW x \in S PROVE ~T!Cheaper(x, c)
  <2>1. one <= x[1]
    BY <1>1
  <2>2. x[1] = one => two <= x[2]
    BY <1>2
  <2>3. x[1] = one /\ x[2] = two => three <= x[3]
    BY <1>3
  <2> QED
    BY <1>0, <1>4, <2>1, <2>2, <2>3 DEF T!Cheaper
<1> QED
  BY <1>5

LEMMA CostFacts ==
    ASSUME Ended, NEW n \in T!Reached
    PROVE  /\ \E s \in DOMAIN best : s[1] = n /\ T!CostOf(n) = <<s[2], s[3], best[s]>>
           /\ \A w \in Walks(graph, maxDepth) : w[4] = n => ~T!Cheaper(w, T!CostOf(n))
           /\ T!CostOf(n) \in Nat \X Nat \X Nat
<1> DEFINE S == T!LabelsOf(n)
           c == T!CostOf(n)
<1>0. /\ SoundGraph(graph) /\ maxDepth \in Nat
      /\ \A s \in DOMAIN best : s \in States(graph) /\ best[s] \in Nat
  BY DEF Ended, Found
<1>1. S = {<<s[2], s[3], best[s]>> : s \in {x \in DOMAIN best : x[1] = n}}
  BY DEF T!LabelsOf
<1>2. S \subseteq Nat \X Nat \X Nat
  BY <1>0, <1>1 DEF States
<1>3. S # {}
  BY <1>1 DEF T!Reached
<1>4. c = CHOOSE y \in S : \A x \in S : ~T!Cheaper(x, y)
  BY DEF T!CostOf
<1>5. c \in S /\ \A x \in S : ~T!Cheaper(x, c)
  <2> HIDE DEF S, c
  <2> QED
    BY <1>2, <1>3, <1>4, CheapestExists
<1>6. PICK s \in DOMAIN best : s[1] = n /\ c = <<s[2], s[3], best[s]>>
  BY <1>1, <1>5
<1>7. c[1] \in Nat /\ c[2] \in Nat /\ c[3] \in Nat
  BY <1>2, <1>5
<1>8. ASSUME NEW w \in Walks(graph, maxDepth), w[4] = n PROVE ~T!Cheaper(w, c)
  <2>1. Covered(w, best) /\ Label(w, graph)
    BY <1>0, EveryWalkIsCovered, WalksFacts DEF WalkLabel
  <2> DEFINE t == T!State(w)
             x == <<t[2], t[3], best[t]>>
  <2>2. t \in DOMAIN best /\ best[t] <= w[3] /\ t[1] = n /\ t[2] = w[1] /\ t[3] = w[2]
    BY <1>8, <2>1, LabelState DEF Covered
  <2>3. x \in S
    BY <1>1, <2>2
  <2>4. x[1] = w[1] /\ x[2] = w[2] /\ x[3] = best[t] /\ best[t] \in Nat
    BY <1>0, <2>2
  <2>5. ~T!Cheaper(x, c)
    BY <1>5, <2>3
  <2>6. w[1] \in Nat /\ w[2] \in Nat /\ w[3] \in Nat
    BY <2>1 DEF Label
  <2> HIDE DEF x, t, c
  <2> QED
    BY <1>7, <2>2, <2>4, <2>5, <2>6 DEF T!Cheaper
<1> QED
  BY <1>2, <1>5, <1>6, <1>8

LEMMA LongestFacts ==
    ASSUME Ended
    PROVE  /\ \A k, d : T!WalksUpTo(k, d) = WalkIn(graph, k, d)
           /\ T!LongestNeeded = Cardinality(graph.nodes) - 1 /\ T!LongestNeeded \in Nat
<1>1. \A k, d : T!WalksUpTo(k, d) = WalkIn(graph, k, d)
  BY DEF T!WalksUpTo, WalkIn
<1>2. T!LongestNeeded = Cardinality(graph.nodes) - 1
  BY DEF T!LongestNeeded, T!Cardinality, Cardinality
<1>3. IsFiniteSet(graph.nodes) /\ Anchor \in graph.nodes
  BY DEF Ended, Found, SoundGraph
<1>4. Cardinality(graph.nodes) \in Nat /\ Cardinality(graph.nodes) # 0
  BY <1>3, FS_CardinalityType, FS_EmptySet
<1> QED
  BY <1>1, <1>2, <1>4

\* What is reached, at what cost.
LEMMA ReachedAreEnds ==
    ASSUME Ended, NEW walks, walks = T!WalksUpTo(T!LongestNeeded, maxDepth)
    PROVE  /\ T!Reached = {w[4] : w \in walks}
           /\ \A n \in T!Reached : \E w \in walks : w[4] = n /\ <<w[1], w[2], w[3]>> = T!CostOf(n)
           /\ \A w \in walks : ~T!Cheaper(w, T!CostOf(w[4]))
           /\ \A w \in Walks(graph, maxDepth) : w[4] \in T!Reached
           /\ walks \subseteq Walks(graph, maxDepth)
<1>0. SoundGraph(graph) /\ maxDepth \in Nat
  BY DEF Ended, Found
<1>1. walks = WalkIn(graph, Cardinality(graph.nodes) - 1, maxDepth)
  BY LongestFacts
<1>2. walks \subseteq Walks(graph, maxDepth)
  BY <1>1, LongestFacts DEF Walks
<1>3. ASSUME NEW w \in Walks(graph, maxDepth) PROVE w[4] \in T!Reached
  <2>1. Covered(w, best) /\ Label(w, graph)
    BY <1>0, EveryWalkIsCovered, WalksFacts DEF WalkLabel
  <2>2. T!State(w) \in DOMAIN best /\ T!State(w)[1] = w[4]
    BY <2>1, LabelState DEF Covered
  <2> QED
    BY <2>2 DEF T!Reached
<1>4. ASSUME NEW n \in T!Reached
      PROVE  \E w \in walks : w[4] = n /\ <<w[1], w[2], w[3]>> = T!CostOf(n)
  <2>1. PICK s \in DOMAIN best : s[1] = n /\ T!CostOf(n) = <<s[2], s[3], best[s]>>
    BY CostFacts
  <2> DEFINE w == LabelOf(s, best)
             c == T!CostOf(n)
  <2>2. w \in Walks(graph, maxDepth) /\ Label(w, graph)
    BY <1>0, WalksFacts DEF Ended, Found, WalkLabel
  <2>3. w[4] = n /\ w[1] = c[1] /\ w[2] = c[2] /\ w[3] = c[3] /\ c = <<c[1], c[2], c[3]>>
    BY <2>1 DEF LabelOf
  <2>4. PICK v \in walks : v \in Walks(graph, maxDepth) /\ v[4] = w[4] /\ v[1] <= w[1] /\ NoLonger(v, w)
    BY <1>0, <1>1, <2>2, CyclesAreCut
  <2>5. ~T!Cheaper(v, c)
    BY <2>3, <2>4, CostFacts
  <2>6. Label(v, graph)
    BY <1>0, <2>4, WalksFacts DEF WalkLabel
  <2>7. /\ v[1] \in Nat /\ v[2] \in Nat /\ v[3] \in Nat
        /\ w[1] \in Nat /\ w[2] \in Nat /\ w[3] \in Nat
    BY <2>2, <2>6 DEF Label
  <2> HIDE DEF w, c
  <2>8. v[1] = c[1] /\ v[2] = c[2] /\ v[3] = c[3]
    BY <2>3, <2>4, <2>5, <2>7 DEF T!Cheaper, NoLonger
  <2> QED
    BY <2>3, <2>4, <2>8 DEF c
<1>5. T!Reached = {w[4] : w \in walks}
  BY <1>2, <1>3, <1>4
<1>6. \A w \in walks : ~T!Cheaper(w, T!CostOf(w[4]))
  BY <1>2, <1>3, CostFacts
<1> QED
  BY <1>2, <1>3, <1>4, <1>5, <1>6

----
(* The cut: of a strict order, the elements with fewer than a limit before  *)
(* them are as many as the limit if any is left out, and come first.        *)
Below(S, rel, n) == {x \in S : <<x, n>> \in rel}

LEMMA FirstOnes ==
    ASSUME NEW S, IsFiniteSet(S), NEW rel, NEW limit \in Nat,
           \A x \in S : <<x, x>> \notin rel,
           \A x, y \in S : x # y => <<x, y>> \in rel \/ <<y, x>> \in rel,
           \A x, y, z \in S : <<x, y>> \in rel /\ <<y, z>> \in rel => <<x, z>> \in rel,
           NEW first, first \subseteq S,
           \A n \in S : n \in first <=> Cardinality(Below(S, rel, n)) < limit,
           NEW out \in S \ first
    PROVE  Cardinality(first) = limit /\ \A k \in first : <<k, out>> \in rel
<1> DEFINE below(n) == Below(S, rel, n)
           rank == [n \in S |-> Cardinality(below(n))]
           N == Cardinality(S)
<1>0. N \in Nat
  BY FS_CardinalityType
<1>1. \A n \in S : IsFiniteSet(below(n)) /\ rank[n] \in Nat
  <2> TAKE n \in S
  <2>1. below(n) \in SUBSET S
    BY DEF Below
  <2> HIDE DEF below
  <2> QED
    BY <2>1, FS_Subset, FS_CardinalityType
<1>2. ASSUME NEW x \in S, NEW y \in S, <<x, y>> \in rel PROVE rank[x] < rank[y]
  <2>1. below(x) \in SUBSET below(y)
    BY <1>2 DEF Below
  <2>2. x \in below(y) /\ x \notin below(x)
    BY <1>2 DEF Below
  <2>3. IsFiniteSet(below(y)) /\ IsFiniteSet(below(x)) /\ rank[x] \in Nat /\ rank[y] \in Nat
    BY <1>1
  <2>4. rank[x] = Cardinality(below(x)) /\ rank[y] = Cardinality(below(y))
    OBVIOUS
  <2>5. below(x) # below(y)
    BY <2>2
  <2> HIDE DEF below, rank
  <2>6. Cardinality(below(x)) <= Cardinality(below(y))
    BY <2>1, <2>3, FS_Subset
  <2>7. Cardinality(below(x)) # Cardinality(below(y))
    BY <2>1, <2>3, <2>5, FS_Subset
  <2> QED
    BY <2>3, <2>4, <2>6, <2>7
<1>3. ASSUME NEW n \in S PROVE rank[n] \in 0 .. N - 1
  <2>1. below(n) \in SUBSET S /\ n \notin below(n)
    BY DEF Below
  <2>2. rank[n] = Cardinality(below(n)) /\ rank[n] \in Nat
    BY <1>1
  <2> HIDE DEF below, rank
  <2>3. rank[n] <= N /\ rank[n] # N
    BY <2>1, <2>2, FS_Subset
  <2> QED
    BY <1>0, <2>2, <2>3
<1>4. rank \in Injection(S, 0 .. N - 1)
  <2>1. rank \in [S -> 0 .. N - 1]
    BY <1>3
  <2>2. ASSUME NEW x \in S, NEW y \in S, rank[x] = rank[y] PROVE x = y
    <3> SUFFICES ASSUME x # y PROVE FALSE
      OBVIOUS
    <3>1. rank[x] < rank[y] \/ rank[y] < rank[x]
      BY <1>2
    <3>2. rank[x] \in Nat /\ rank[y] \in Nat
      BY <1>1
    <3> HIDE DEF rank
    <3> QED
      BY <2>2, <3>1, <3>2
  <2> HIDE DEF rank
  <2> QED
    BY <2>1, <2>2 DEF Injection, IsInjective
<1>5. Cardinality(0 .. N - 1) = N /\ IsFiniteSet(0 .. N - 1)
  <2> HIDE DEF N
  <2>1. 0 \in Int /\ N - 1 \in Int /\ N - 1 - 0 + 1 = N
    BY <1>0
  <2>2. IsFiniteSet(0 .. N - 1)
    BY <2>1, FS_Interval
  <2>3. Cardinality(0 .. N - 1) = IF 0 > N - 1 THEN 0 ELSE (N - 1) - 0 + 1
    BY <2>1, FS_Interval
  <2> QED
    BY <1>0, <2>2, <2>3
<1>6. rank \in Surjection(S, 0 .. N - 1)
  <2> HIDE DEF rank
  <2> QED
    BY <1>4, <1>5, FS_Injection
<1>7. first = {n \in S : rank[n] < limit}
  OBVIOUS
<1>8. rank[out] \in Nat /\ ~(rank[out] < limit) /\ rank[out] <= N - 1
  BY <1>1, <1>3, <1>7
<1> DEFINE f == [n \in first |-> rank[n]]
<1> HIDE DEF rank, below
<1>9. limit <= N
  BY <1>0, <1>8
<1>10. f \in [first -> 0 .. limit - 1]
  BY <1>1, <1>7
<1>11. ASSUME NEW i \in 0 .. limit - 1 PROVE \E n \in first : f[n] = i
  <2>1. i \in 0 .. N - 1 /\ i < limit
    BY <1>0, <1>9
  <2>2. PICK n \in S : rank[n] = i
    BY <1>6, <2>1 DEF Surjection
  <2> QED
    BY <1>7, <2>1, <2>2
<1>12. \A x, y \in first : f[x] = f[y] => x = y
  BY <1>4, <1>7 DEF Injection, IsInjective
<1> HIDE DEF f
<1>13. f \in Injection(first, 0 .. limit - 1) /\ f \in Surjection(first, 0 .. limit - 1)
  BY <1>10, <1>11, <1>12 DEF Injection, Surjection, IsInjective
<1>14. Cardinality(0 .. limit - 1) = limit /\ IsFiniteSet(0 .. limit - 1)
  BY FS_Interval
<1>15. Cardinality(first) = limit
  BY <1>13, <1>14, FS_Injection
<1>16. ASSUME NEW k \in first PROVE <<k, out>> \in rel
  <2>1. k \in S /\ rank[k] < limit /\ k # out
    BY <1>7, <1>8
  <2>2. <<out, k>> \in rel => rank[out] < rank[k]
    BY <1>2, <2>1
  <2>3. rank[k] \in Nat
    BY <1>1, <2>1
  <2> QED
    BY <1>8, <2>1, <2>2, <2>3
<1> QED
  BY <1>15, <1>16

LEMMA CandidatesAreFirst ==
    ASSUME Ended, NEW out \in (T!Reached \cap graph.why) \ T!Candidates
    PROVE  /\ T!Cardinality(T!Candidates) = MaxCandidates
           /\ \A k \in T!Candidates : ~T!Cheaper(T!CostOf(out), T!CostOf(k))
<1> DEFINE S == T!Reached \cap graph.why
           rel == {p \in S \X S : T!Before(p[1], p[2])}
           first == {n \in S : Cardinality({x \in S : <<x, n>> \in rel}) < MaxCandidates}
<1>0. /\ SoundGraph(graph) /\ MaxCandidates \in Nat
      /\ \A s \in DOMAIN best : s \in States(graph)
  BY TraversalFacts DEF Ended, Found
<1>1. T!Reached \subseteq graph.nodes
  BY <1>0 DEF T!Reached, States
<1>2. S \in SUBSET graph.nodes /\ S \subseteq Nat
  BY <1>0, <1>1 DEF SoundGraph
<1>3. IsFiniteSet(S)
  BY <1>0, <1>2, FS_Subset DEF SoundGraph
<1>4. \A x, y \in S : <<x, y>> \in rel <=> T!Before(x, y)
  OBVIOUS
<1>5. \A x \in S : /\ T!CostOf(x) \in Nat \X Nat \X Nat
                   /\ T!CostOf(x)[1] \in Nat /\ T!CostOf(x)[2] \in Nat /\ T!CostOf(x)[3] \in Nat
                   /\ T!CostOf(x) = <<T!CostOf(x)[1], T!CostOf(x)[2], T!CostOf(x)[3]>>
  <2> TAKE x \in S
  <2>1. T!CostOf(x) \in Nat \X Nat \X Nat
    BY CostFacts
  <2> QED
    BY <2>1
<1>6. \A x \in S : <<x, x>> \notin rel
  BY <1>2, <1>4, <1>5 DEF T!Before, T!Cheaper
<1>7. ASSUME NEW x \in S, NEW y \in S, x # y PROVE <<x, y>> \in rel \/ <<y, x>> \in rel
  <2>1. x \in Nat /\ y \in Nat
    BY <1>2
  <2>2. x < y \/ y < x
    BY <1>7, <2>1
  <2>3. \/ T!Cheaper(T!CostOf(x), T!CostOf(y)) \/ T!Cheaper(T!CostOf(y), T!CostOf(x))
        \/ /\ T!CostOf(x)[1] = T!CostOf(y)[1] /\ T!CostOf(x)[2] = T!CostOf(y)[2]
           /\ T!CostOf(x)[3] = T!CostOf(y)[3]
    BY <1>5 DEF T!Cheaper
  <2>4. T!Before(x, y) \/ T!Before(y, x)
    BY <1>5, <2>2, <2>3 DEF T!Before
  <2> QED
    BY <1>4, <2>4
<1>8. ASSUME NEW x \in S, NEW y \in S, NEW z \in S, <<x, y>> \in rel, <<y, z>> \in rel
      PROVE  <<x, z>> \in rel
  <2>1. T!Before(x, y) /\ T!Before(y, z) /\ x \in Nat /\ y \in Nat /\ z \in Nat
    BY <1>2, <1>8
  <2>2. T!Before(x, z)
    BY <1>5, <2>1 DEF T!Before, T!Cheaper
  <2> QED
    BY <1>4, <2>2
<1>9. T!Candidates = first
  <2>1. \A X : T!Cardinality(X) = Cardinality(X)
    BY DEF T!Cardinality, Cardinality
  <2>2. \A n \in S : {x \in S : T!Before(x, n)} = {x \in S : <<x, n>> \in rel}
    BY <1>4
  <2>3. T!Candidates = {n \in S : Cardinality({x \in S : T!Before(x, n)}) < MaxCandidates}
    BY <2>1 DEF T!Candidates
  <2> HIDE DEF S, rel
  <2> QED
    BY <2>2, <2>3
<1>10. out \in S \ first
  BY <1>9
<1> HIDE DEF S, rel, first
<1>11. Cardinality(first) = MaxCandidates /\ \A k \in first : <<k, out>> \in rel
  <2>1. first \subseteq S /\ \A n \in S : n \in first <=> Cardinality(Below(S, rel, n)) < MaxCandidates
    BY DEF first, Below
  <2>2. \A x, y \in S : x # y => <<x, y>> \in rel \/ <<y, x>> \in rel
    BY <1>7
  <2>3. \A x, y, z \in S : <<x, y>> \in rel /\ <<y, z>> \in rel => <<x, z>> \in rel
    BY <1>8
  <2>4. MaxCandidates \in Nat
    BY <1>0
  <2> QED
    BY <1>3, <1>6, <1>10, <2>1, <2>2, <2>3, <2>4, FirstOnes
<1>12. ASSUME NEW k \in first PROVE ~T!Cheaper(T!CostOf(out), T!CostOf(k))
  <2>1. k \in S /\ out \in S
    BY <1>10 DEF first
  <2>2. T!Before(k, out)
    BY <1>4, <1>11, <2>1
  <2> QED
    BY <1>5, <2>1, <2>2 DEF T!Before, T!Cheaper
<1>13. T!Cardinality(first) = Cardinality(first)
  BY DEF T!Cardinality, Cardinality
<1> QED
  BY <1>9, <1>11, <1>12, <1>13

LEMMA StrongestHolds == ASSUME Ended PROVE T!StrongestPath
<1>1. \A n \in (T!Reached \cap graph.why) \ T!Candidates :
          /\ T!Cardinality(T!Candidates) = MaxCandidates
          /\ \A k \in T!Candidates : ~T!Cheaper(T!CostOf(n), T!CostOf(k))
  BY CandidatesAreFirst
<1> QED
  BY <1>1, ReachedAreEnds DEF T!StrongestPath

----
(* The mark of the depth: what rules flow from without one is what walks of *)
(* fewer edges than nodes reach, and it is reached unless it was blocked.   *)

Free == {w[4] : w \in T!WalksUpTo(T!LongestNeeded, T!LongestNeeded)}

LEMMA FreeFacts ==
    ASSUME Ended
    PROVE  /\ \A b \in Nat : \A w \in Walks(graph, b) : w[4] \in Free
           /\ \A n \in Free : \E w \in Walks(graph, T!LongestNeeded) : w[4] = n
           /\ \A n \in Free : \A e \in T!Neighbors(graph, n) : e.node \in Free
<1> DEFINE L == T!LongestNeeded
<1>0. SoundGraph(graph) /\ L \in Nat /\ L = Cardinality(graph.nodes) - 1
  BY LongestFacts DEF Ended, Found
<1> HIDE DEF L
<1>1. Free = {w[4] : w \in WalkIn(graph, L, L)}
  BY LongestFacts DEF Free, L
<1>2. ASSUME NEW b \in Nat, NEW w \in Walks(graph, b) PROVE w[4] \in Free
  <2>1. PICK v \in WalkIn(graph, L, b) : v[4] = w[4]
    BY <1>0, CyclesAreCut
  <2>2. /\ WalkLabel(v, graph, b) /\ v[2] + v[3] <= L
        /\ \A c \in Nat : v[2] <= c => v \in WalkIn(graph, v[2] + v[3], c)
    BY <1>0, Measured DEF WalksAreMeasured
  <2>3. v[2] \in Nat /\ v[3] \in Nat
    BY <2>2 DEF WalkLabel, Label
  <2>4. v[2] <= L /\ v[2] + v[3] \in Nat
    BY <1>0, <2>2, <2>3
  <2>5. v \in WalkIn(graph, L, L)
    BY <1>0, <2>2, <2>4, FewerEdges
  <2> QED
    BY <1>1, <2>1, <2>5
<1>3. ASSUME NEW n \in Free PROVE \E w \in Walks(graph, L) : w[4] = n
  BY <1>0, <1>1 DEF Walks
<1>4. ASSUME NEW n \in Free, NEW e \in T!Neighbors(graph, n) PROVE e.node \in Free
  <2>1. PICK w \in Walks(graph, L) : w[4] = n
    BY <1>3
  <2>2. Label(w, graph) /\ w[2] <= L /\ w[2] \in Nat /\ n \in graph.nodes
    BY <1>0, <2>1, WalksFacts DEF WalkLabel, Label
  <2>3. L + 1 \in Nat /\ w[2] <= L + 1
    BY <1>0, <2>2
  <2>4. w \in Walks(graph, L + 1)
    BY <1>0, <2>3, WalksFacts
  <2>5. e.hop \in {0, 1}
    BY <1>0, <2>2, NeighborFacts
  <2>6. T!Extend(w, e)[2] = w[2] + e.hop /\ T!Extend(w, e)[4] = e.node
    BY <1>0, <2>1, <2>2, ExtendFacts
  <2>7. T!Extend(w, e)[2] <= L + 1
    BY <1>0, <2>2, <2>5, <2>6
  <2>8. T!Extend(w, e) \in Walks(graph, L + 1)
    BY <1>0, <2>1, <2>3, <2>4, <2>7, WalksFacts
  <2> QED
    BY <1>2, <2>3, <2>6, <2>8
<1> QED
  BY <1>2, <1>3, <1>4 DEF L

\* Where nothing is blocked that was not reached, every walk ends in what was.
LEMMA UnblockedIsReached ==
    ASSUME Ended, blocked \subseteq T!Reached, NEW b \in Nat
    PROVE  \A w \in Walks(graph, b) : w[4] \in T!Reached
<1> DEFINE ws == Walks(graph, b)
           missed == {w \in ws : w[4] \notin T!Reached}
           hops == {w[2] + w[3] : w \in missed}
<1>0. SoundGraph(graph) /\ maxDepth \in Nat
  BY DEF Ended, Found
<1>1. \A w \in ws : w[2] + w[3] \in Nat
  BY <1>0, WalksFacts DEF WalkLabel, Label
<1> SUFFICES ASSUME missed # {} PROVE FALSE
  OBVIOUS
<1>2. hops \subseteq Nat /\ hops # {}
  BY <1>1
<1>3. PICK h \in hops : \A x \in hops : h <= x
  <2> HIDE DEF hops
  <2> QED
    BY <1>2, LeastNat
<1>4. PICK w \in missed : w[2] + w[3] = h
  BY <1>3
<1>5. w # Origin
  <2>1. Origin \in Walks(graph, maxDepth)
    BY <1>0, WalksFacts
  <2> QED
    BY <1>4, <2>1, ReachedAreEnds
<1>6. PICK u \in ws : \E e \in T!Neighbors(graph, u[4]) :
          w = T!Extend(u, e) /\ w[2] + w[3] = u[2] + u[3] + 1
  BY <1>0, <1>4, <1>5, LastEdge
<1>7. PICK e \in T!Neighbors(graph, u[4]) : w = T!Extend(u, e) /\ w[2] + w[3] = u[2] + u[3] + 1
  BY <1>6
<1>8. u[4] \in T!Reached
  <2>1. u[2] + u[3] \in Nat /\ ~(h <= u[2] + u[3])
    BY <1>1, <1>4, <1>7
  <2>2. u[2] + u[3] \notin hops
    BY <1>3, <2>1
  <2> QED
    BY <2>2
<1>9. PICK s \in DOMAIN best : s[1] = u[4]
  BY <1>8 DEF T!Reached
<1>10. Label(u, graph) /\ w[4] = e.node
  <2>1. Label(u, graph)
    BY <1>0, WalksFacts DEF WalkLabel
  <2> QED
    BY <1>0, <1>7, <2>1, ExtendFacts
<1>11. Settled(s, graph, maxDepth, best, blocked)
  BY DEF Ended, Found
<1>12. CASE e.hop = 1 /\ s[3] = maxDepth
  <2>1. e.node \in blocked
    BY <1>9, <1>11, <1>12 DEF Settled
  <2> QED
    BY <1>4, <1>10, <2>1
<1>13. CASE ~(e.hop = 1 /\ s[3] = maxDepth)
  <2> DEFINE l == LabelOf(s, best)
  <2>1. Covered(T!Extend(l, e), best)
    BY <1>9, <1>11, <1>13 DEF Settled
  <2>2. Label(l, graph) /\ l[4] = u[4]
    <3>1. Label(l, graph)
      BY <1>0, WalksFacts DEF Ended, Found, WalkLabel
    <3> QED
      BY <1>9, <3>1 DEF LabelOf
  <2>3. T!Extend(l, e)[4] = e.node /\ Label(T!Extend(l, e), graph)
    BY <1>0, <2>2, ExtendFacts
  <2>4. e.node \in T!Reached
    BY <2>1, <2>3, LabelState DEF Covered, T!Reached
  <2> QED
    BY <1>4, <1>10, <2>4
<1> QED
  BY <1>12, <1>13

LEMMA DepthHolds == ASSUME Ended PROVE T!DepthIsTold
<1>1. ASSUME NEW n \in T!Reached PROVE n \in Free
  <2>1. \E w \in Walks(graph, maxDepth) : w[4] = n
    BY ReachedAreEnds
  <2> QED
    BY <2>1, FreeFacts DEF Ended
<1>2. ASSUME NEW n \in blocked \ T!Reached PROVE n \in Free
  <2>1. PICK s \in DOMAIN best : \E e \in T!Neighbors(graph, s[1]) : e.node = n
    BY DEF Ended, Found
  <2>2. s[1] \in Free
    BY <1>1 DEF T!Reached
  <2> QED
    BY <2>1, <2>2, FreeFacts
<1>3. ASSUME blocked \subseteq T!Reached PROVE Free \subseteq T!Reached
  BY <1>3, FreeFacts, LongestFacts, UnblockedIsReached
<1>4. T!TruncatedByDepth <=> Free # T!Reached
  BY <1>1, <1>2, <1>3 DEF T!TruncatedByDepth
<1> QED
  BY <1>4 DEF T!DepthIsTold, Free

----
(* The scope: going down from a concept reaches the anchor exactly if a walk *)
(* of IS_A edges alone goes up from the anchor to the concept.               *)

WithChildren(g, S) == S \cup {e[1] : e \in {x \in g.isA : x[2] \in S}}

Levels(g, n, k, f) == f = [i \in 0..k |-> IF i = 0 THEN {n} ELSE WithChildren(g, f[i - 1])]

LEMMA LevelsExist ==
    ASSUME NEW g, NEW n
    PROVE  \A k \in Nat : \E f : Levels(g, n, k, f)
<1> DEFINE wrong == {k \in Nat : ~\E f : Levels(g, n, k, f)}
<1> SUFFICES ASSUME wrong # {} PROVE FALSE
  OBVIOUS
<1>1. wrong \subseteq Nat
  OBVIOUS
<1> HIDE DEF wrong
<1>2. PICK k \in wrong : \A x \in wrong : k <= x
  BY <1>1, LeastNat
<1>3. k \in Nat /\ ~\E f : Levels(g, n, k, f)
  BY <1>2 DEF wrong
<1>4. k # 0
  <2> SUFFICES ASSUME k = 0 PROVE FALSE
    OBVIOUS
  <2> DEFINE f == [i \in 0..0 |-> {n}]
  <2>1. 0..0 = {0}
    OBVIOUS
  <2>2. f = [i \in 0..0 |-> IF i = 0 THEN {n} ELSE WithChildren(g, f[i - 1])]
    BY <2>1
  <2> QED
    BY <1>3, <2>2 DEF Levels
<1>5. k - 1 \in Nat /\ ~(k <= k - 1)
  BY <1>3, <1>4
<1>6. PICK f : Levels(g, n, k - 1, f)
  BY <1>2, <1>5 DEF wrong
<1> DEFINE h == [i \in 0..k |-> IF i = k THEN WithChildren(g, f[k - 1]) ELSE f[i]]
<1>7. ASSUME NEW i \in 0..k
      PROVE  h[i] = IF i = 0 THEN {n} ELSE WithChildren(g, h[i - 1])
  <2>1. CASE i = k
    <3>1. h[k] = WithChildren(g, f[k - 1]) /\ h[k - 1] = f[k - 1]
      BY <1>3, <1>5
    <3> QED
      BY <1>4, <2>1, <3>1
  <2>2. CASE i # k /\ i # 0
    <3>1. i \in 0..(k - 1) /\ i - 1 \in 0..k /\ i - 1 # k
      BY <1>3, <2>2
    <3>2. f[i] = WithChildren(g, f[i - 1])
      BY <1>6, <2>2, <3>1 DEF Levels
    <3>3. h[i] = f[i] /\ h[i - 1] = f[i - 1]
      BY <2>2, <3>1
    <3> QED
      BY <2>2, <3>2, <3>3
  <2>3. CASE i = 0 /\ i # k
    <3>1. i \in 0..(k - 1)
      BY <1>3, <2>3
    <3>2. f[0] = {n}
      BY <1>6, <2>3, <3>1 DEF Levels
    <3> QED
      BY <2>3, <3>2
  <2> QED
    BY <2>1, <2>2, <2>3
<1>8. h = [i \in 0..k |-> IF i = 0 THEN {n} ELSE WithChildren(g, h[i - 1])]
  BY <1>7
<1> HIDE DEF h
<1>9. Levels(g, n, k, h)
  BY <1>8 DEF Levels
<1> QED
  BY <1>3, <1>9

LEMMA ScopeIs ==
    ASSUME NEW g, NEW n, T!Cardinality(g.nodes) \in Nat
    PROVE  \E f : /\ Levels(g, n, T!Cardinality(g.nodes), f)
                  /\ T!Scope(g, n) = f[T!Cardinality(g.nodes)]
<1> DEFINE K == T!Cardinality(g.nodes)
           f == CHOOSE x : Levels(g, n, K, x)
<1>1. Levels(g, n, K, f)
  BY LevelsExist
<1>2. T!Scope(g, n) = f[K]
  BY DEF T!Scope, Levels, WithChildren
<1> QED
  BY <1>1, <1>2

\* The levels one by one; the concept itself is on each.
LevelByLevel(g, n, K, f) ==
    /\ f[0] = {n}
    /\ \A i \in 1..K : f[i] = WithChildren(g, f[i - 1])
    /\ \A i \in 0..K : n \in f[i]

LEMMA LevelFacts ==
    ASSUME NEW g, NEW n, NEW K \in Nat, NEW f, Levels(g, n, K, f)
    PROVE  LevelByLevel(g, n, K, f)
<1>1. \A i \in 0..K : f[i] = IF i = 0 THEN {n} ELSE WithChildren(g, f[i - 1])
  BY DEF Levels
<1>2. f[0] = {n} /\ \A i \in 1..K : f[i] = WithChildren(g, f[i - 1])
  BY <1>1
<1> DEFINE wrong == {i \in 0..K : n \notin f[i]}
<1>3. wrong = {}
  <2> SUFFICES ASSUME wrong # {} PROVE FALSE
    OBVIOUS
  <2>1. wrong \subseteq Nat
    OBVIOUS
  <2> HIDE DEF wrong
  <2>2. PICK i \in wrong : \A x \in wrong : i <= x
    BY <2>1, LeastNat
  <2>3. i \in 0..K /\ n \notin f[i]
    BY <2>2 DEF wrong
  <2>4. i \in 1..K /\ i - 1 \in 0..K /\ ~(i <= i - 1)
    BY <1>2, <2>3
  <2>5. n \in f[i - 1]
    BY <2>2, <2>4 DEF wrong
  <2> QED
    BY <1>2, <2>3, <2>4, <2>5 DEF WithChildren
<1> QED
  BY <1>2, <1>3 DEF LevelByLevel

\* Up from a concept in the scope of n, to n.
LEMMA ScopeIsBelow ==
    ASSUME NEW g, SoundGraph(g), NEW n, NEW K \in Nat, NEW f, Levels(g, n, K, f)
    PROVE  \A i \in 0..K : \A w \in Walks(g, 0) :
              w[4] \in f[i] => \E v \in Walks(g, 0) : v[4] = n
<1>0. f[0] = {n} /\ \A j \in 1..K : f[j] = WithChildren(g, f[j - 1])
  <2>1. LevelByLevel(g, n, K, f)
    BY LevelFacts
  <2> QED
    BY <2>1 DEF LevelByLevel
<1> DEFINE wrong == {i \in 0..K : \E w \in Walks(g, 0) :
                        w[4] \in f[i] /\ ~\E v \in Walks(g, 0) : v[4] = n}
<1> SUFFICES ASSUME wrong # {} PROVE FALSE
  OBVIOUS
<1>1. wrong \subseteq Nat
  OBVIOUS
<1> HIDE DEF wrong
<1>2. PICK i \in wrong : \A x \in wrong : i <= x
  BY <1>1, LeastNat
<1>3. i \in 0..K
  BY <1>2 DEF wrong
<1>4. PICK w \in Walks(g, 0) : w[4] \in f[i] /\ ~\E v \in Walks(g, 0) : v[4] = n
  BY <1>2 DEF wrong
<1>5. i # 0
  BY <1>0, <1>4
<1>6. i \in 1..K /\ i - 1 \in 0..K /\ ~(i <= i - 1)
  BY <1>3, <1>5
<1>7. w[4] \notin f[i - 1]
  BY <1>2, <1>4, <1>6 DEF wrong
<1>8. f[i] = WithChildren(g, f[i - 1])
  BY <1>0, <1>6
<1>9. PICK e \in g.isA : e[1] = w[4] /\ e[2] \in f[i - 1]
  BY <1>4, <1>7, <1>8 DEF WithChildren
<1>10. <<w[4], e[2]>> \in g.isA
  <2>1. e = <<e[1], e[2]>>
    BY DEF SoundGraph
  <2> QED
    BY <1>9, <2>1
<1> DEFINE r == [node |-> e[2], hop |-> 0, strength |-> 0]
           u == T!Extend(w, r)
<1>11. r \in T!Neighbors(g, w[4])
  BY <1>10, ParentIsNeighbor
<1>12. Label(w, g) /\ w[2] \in Nat /\ w[2] <= 0
  BY WalksFacts DEF WalkLabel, Label
<1>13. u[2] = w[2] /\ u[4] = e[2]
  <2>1. r.hop = 0 /\ r.node = e[2]
    OBVIOUS
  <2> HIDE DEF r
  <2>2. u[2] = w[2] + r.hop /\ u[4] = r.node
    BY <1>11, <1>12, ExtendFacts
  <2> QED
    BY <1>12, <2>1, <2>2
<1> HIDE DEF r
<1>14. u \in Walks(g, 0)
  BY <1>11, <1>12, <1>13, WalksFacts
<1>15. u[4] \in f[i - 1]
  BY <1>9, <1>13
<1> HIDE DEF u
<1> QED
  BY <1>2, <1>4, <1>6, <1>14, <1>15 DEF wrong

\* Down from a concept on a level, along the IS_A edges of a walk to it.
LEMMA WalkIsInScope ==
    ASSUME NEW g, SoundGraph(g), NEW n, NEW K \in Nat, NEW f, Levels(g, n, K, f)
    PROVE  \A h \in 0..K : \A w \in Walks(g, 0) : \A i \in 0..K :
              w[3] = h /\ i + h <= K /\ w[4] \in f[i] => Anchor \in f[i + h]
<1>0. f[0] = {n} /\ \A j \in 1..K : f[j] = WithChildren(g, f[j - 1])
  <2>1. LevelByLevel(g, n, K, f)
    BY LevelFacts
  <2> QED
    BY <2>1 DEF LevelByLevel
<1> DEFINE wrong == {h \in 0..K : \E w \in Walks(g, 0) : \E i \in 0..K :
                        w[3] = h /\ i + h <= K /\ w[4] \in f[i] /\ Anchor \notin f[i + h]}
<1> SUFFICES ASSUME wrong # {} PROVE FALSE
  OBVIOUS
<1>1. wrong \subseteq Nat
  OBVIOUS
<1> HIDE DEF wrong
<1>2. PICK h \in wrong : \A x \in wrong : h <= x
  BY <1>1, LeastNat
<1>3. h \in 0..K
  BY <1>2 DEF wrong
<1>4. PICK w \in Walks(g, 0), i \in 0..K :
          w[3] = h /\ i + h <= K /\ w[4] \in f[i] /\ Anchor \notin f[i + h]
  BY <1>2 DEF wrong
<1>5. Label(w, g) /\ w[2] = 0 /\ w[4] \in g.nodes
  <2>1. Label(w, g) /\ w[2] <= 0
    BY WalksFacts DEF WalkLabel
  <2> QED
    BY <2>1 DEF Label
<1>6. w # Origin
  <2> SUFFICES ASSUME w = Origin PROVE FALSE
    OBVIOUS
  <2>1. h = 0 /\ w[4] = Anchor
    BY <1>4, StartIsWalk
  <2>2. i + h = i
    BY <2>1
  <2> QED
    BY <1>4, <2>1, <2>2
<1>7. PICK u \in Walks(g, 0) : \E e \in T!Neighbors(g, u[4]) :
          w = T!Extend(u, e) /\ w[2] + w[3] = u[2] + u[3] + 1
  BY <1>6, LastEdge
<1>8. PICK e \in T!Neighbors(g, u[4]) : w = T!Extend(u, e) /\ w[2] + w[3] = u[2] + u[3] + 1
  BY <1>7
<1>9. Label(u, g) /\ u[2] = 0 /\ u[3] \in Nat /\ u[4] \in g.nodes
  <2>1. Label(u, g) /\ u[2] <= 0
    BY WalksFacts DEF WalkLabel
  <2> QED
    BY <2>1 DEF Label
<1>10. h = u[3] + 1
  BY <1>3, <1>4, <1>5, <1>8, <1>9
<1>11. e.hop = 0 /\ e.node = w[4]
  <2>1. w[2] = u[2] + e.hop /\ w[4] = e.node
    BY <1>8, <1>9, ExtendFacts
  <2>2. e.hop \in {0, 1}
    BY <1>9, NeighborFacts
  <2> QED
    BY <1>5, <1>9, <2>1, <2>2
<1>12. <<u[4], w[4]>> \in g.isA
  BY <1>9, <1>11, NeighborFacts
<1>13. i + 1 \in 1..K /\ i + 1 \in 0..K /\ i + 1 - 1 = i /\ i + 1 + u[3] = i + h
       /\ u[3] \in 0..K /\ ~(h <= u[3])
  BY <1>3, <1>4, <1>9, <1>10
<1>14. f[i + 1] = WithChildren(g, f[i])
  <2>1. f[i + 1] = WithChildren(g, f[i + 1 - 1])
    BY <1>0, <1>13
  <2> QED
    BY <1>13, <2>1
<1>15. u[4] \in f[i + 1]
  <2>1. <<u[4], w[4]>>[1] = u[4] /\ <<u[4], w[4]>>[2] = w[4]
    OBVIOUS
  <2> QED
    BY <1>4, <1>12, <1>14, <2>1 DEF WithChildren
<1>16. u[3] \in wrong
  BY <1>4, <1>13, <1>15 DEF wrong
<1> QED
  BY <1>2, <1>13, <1>16

LEMMA ScopeHolds == ASSUME Ended PROVE T!ScopeInheritsWhy
<1> DEFINE K == T!Cardinality(graph.nodes)
           L == T!LongestNeeded
           walks == T!WalksUpTo(L, maxDepth)
<1>0. /\ SoundGraph(graph) /\ maxDepth \in Nat /\ K \in Nat /\ L \in Nat /\ L = K - 1
      /\ walks = WalkIn(graph, L, maxDepth)
  <2>1. K = Cardinality(graph.nodes)
    BY DEF T!Cardinality, Cardinality
  <2>2. Cardinality(graph.nodes) \in Nat
    BY FS_CardinalityType DEF Ended, Found, SoundGraph
  <2> QED
    BY <2>1, <2>2, LongestFacts DEF Ended, Found
<1> SUFFICES ASSUME NEW n \in graph.nodes
             PROVE  Anchor \in T!Scope(graph, n)
                        <=> n \in T!Reached /\ T!CostOf(n)[1] = 0 /\ T!CostOf(n)[2] = 0
  BY DEF T!ScopeInheritsWhy
<1>1. PICK f : Levels(graph, n, K, f) /\ T!Scope(graph, n) = f[K]
  BY <1>0, ScopeIs
<1> HIDE DEF K, L, walks
<1>2. ASSUME Anchor \in f[K]
      PROVE  n \in T!Reached /\ T!CostOf(n)[1] = 0 /\ T!CostOf(n)[2] = 0
  <2>1. Origin \in Walks(graph, 0) /\ Origin[4] \in f[K] /\ K \in 0..K
    BY <1>0, <1>2, WalksFacts, StartIsWalk
  <2>2. PICK v \in Walks(graph, 0) : v[4] = n
    BY <1>0, <1>1, <2>1, ScopeIsBelow
  <2>3. Label(v, graph) /\ v[2] <= 0 /\ (v[1] = 0 <=> v[2] = 0)
    BY <1>0, WalksFacts DEF WalkLabel
  <2>4. v[1] = 0 /\ v[2] = 0 /\ v[3] \in Nat
    BY <2>3 DEF Label
  <2>5. v \in Walks(graph, maxDepth)
    BY <1>0, <2>4, WalksFacts
  <2>6. n \in T!Reached
    BY <2>2, <2>5, ReachedAreEnds
  <2>7. T!CostOf(n) \in Nat \X Nat \X Nat /\ ~T!Cheaper(v, T!CostOf(n))
    BY <2>2, <2>5, <2>6, CostFacts
  <2> DEFINE c == T!CostOf(n)
  <2>8. c[1] \in Nat /\ c[2] \in Nat
    BY <2>7
  <2> HIDE DEF c
  <2>9. c[1] = 0 /\ c[2] = 0
    BY <2>4, <2>7, <2>8 DEF c, T!Cheaper
  <2> QED
    BY <2>6, <2>9 DEF c
<1>3. ASSUME n \in T!Reached, T!CostOf(n)[1] = 0, T!CostOf(n)[2] = 0
      PROVE  Anchor \in f[K]
  <2>1. PICK w \in walks : w[4] = n /\ <<w[1], w[2], w[3]>> = T!CostOf(n)
    BY <1>3, ReachedAreEnds DEF walks, L
  <2>2. w \in Walks(graph, maxDepth) /\ w[2] + w[3] <= L /\ Label(w, graph)
    BY <1>0, <2>1, Measured DEF Walks, WalksAreMeasured, WalkLabel
  <2>3. w[2] = 0 /\ w[3] \in Nat /\ w[3] <= L
    <3>1. w[2] = T!CostOf(n)[2]
      BY <2>1
    <3>2. w[2] = 0
      BY <1>3, <3>1
    <3>3. w[3] \in Nat
      BY <2>2 DEF Label
    <3> QED
      BY <1>0, <2>2, <3>2, <3>3
  <2>4. w \in Walks(graph, 0)
    BY <1>0, <2>2, <2>3, WalksFacts
  <2>5. w[3] \in 0..K /\ K - w[3] \in 0..K /\ K - w[3] + w[3] = K /\ K <= K
    BY <1>0, <2>3
  <2>6. n \in f[K - w[3]]
    BY <1>0, <1>1, <2>5, LevelFacts DEF LevelByLevel
  <2>7. Anchor \in f[K - w[3] + w[3]]
    BY <1>0, <1>1, <2>1, <2>4, <2>5, <2>6, WalkIsInScope
  <2> QED
    BY <2>5, <2>7
<1> QED
  BY <1>1, <1>2, <1>3

----
LEMMA SearchInvIsSound ==
    ASSUME SearchInv
    PROVE  T!StrongestPath /\ T!DepthIsTold /\ T!ScopeInheritsWhy
<1>1. CASE pc = "done"
  <2>1. Ended
    BY <1>1, TraversalFacts DEF SearchInv, Ended
  <2> QED
    BY <2>1, StrongestHolds, DepthHolds, ScopeHolds
<1>2. CASE pc # "done"
  BY <1>2 DEF T!StrongestPath, T!DepthIsTold, T!ScopeInheritsWhy
<1> QED
  BY <1>1, <1>2

(* What the search of the catalogue returns is the strongest path to every   *)
(* source and no other node, its mark of a depth that cut something is exact *)
(* and its deductions agree with the scope a rule is executed on             *)
(* (risk/propagation.py:propagate, derive_bo_scope); a run that answers has  *)
(* read exactly the scope that was counted, and leaves none out without a    *)
(* field that rules it out (risk/execution.py:_read, _value).                *)
THEOREM RulesStayComputed == MCSpec => []RulesAreComputed
<1> DEFINE Holds == (part = "execution" => ExecInv) /\ (part = "traversal" => SearchInv)
<1>1. MCInit => Holds
  BY ExecInit, SearchInit DEF MCInit
<1>2. Holds /\ [MCNext]_allVars => Holds'
  <2> SUFFICES ASSUME Holds, [MCNext]_allVars PROVE Holds'
    OBVIOUS
  <2>1. part' = part
    BY DEF MCNext, allVars
  <2>2. ASSUME part = "execution" PROVE ExecInv'
    <3>1. [E!Next]_executionVars
      BY <2>2 DEF MCNext, allVars
    <3> QED
      BY <2>2, <3>1, ExecutionNext
  <2>3. ASSUME part = "traversal" PROVE SearchInv'
    <3>1. [T!Next]_traversalVars
      BY <2>3 DEF MCNext, allVars
    <3> QED
      BY <2>3, <3>1, SearchNext
  <2> QED
    BY <2>1, <2>2, <2>3
<1>3. Holds => RulesAreComputed
  BY ExecInvIsSound, SearchInvIsSound DEF RulesAreComputed
<1> QED
  BY <1>1, <1>2, <1>3, PTL DEF MCSpec
====
