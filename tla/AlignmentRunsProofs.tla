---- MODULE AlignmentRunsProofs ----
(* The current graph is whole and never goes back, run records agree with  *)
(* the one active job, and a reported success is published: for every      *)
(* number of runs, jobs, tables and chunks.                                *)
(*                                                                         *)
(* Two arguments meet.  In SQLite, the state of a run and the active job   *)
(* change in one transaction, so they agree (StatusMatchesJob is kept by   *)
(* every step).  In Neo4j, a version is only ever written by the job it    *)
(* belongs to, in the order of publish (Staged), and the ticket is at      *)
(* least the pointer (Fenced): who holds the ticket publishes a version    *)
(* that is not older than the current one.                                 *)
(*                                                                         *)
(* Then the two scripts that exchange tables: the summaries                *)
(* (SyncInv) and the business tables (RefreshInv), whose commands die at   *)
(* any step; and the two invariants of the composition that Publishing     *)
(* checks.                                                                 *)
EXTENDS MCPublishing, TLAPS

\* Nothing is known of a job before it is claimed.
FreshJobs ==
    \A s \in Jobs : s > last =>
        /\ kind[s] = "none" /\ main[s] = "gone" /\ work[s] = "gone"
        /\ version[s] = "absent" /\ stored[s] = 0 /\ sent[s] = 0

ActiveIsClaimed == active <= last /\ (active # 0 => kind[active] \in {"analyze", "graph"})

\* A graph is made of a finished result.
GraphNeedsResult == \A r \in Runs : graphStatus[r] # "none" => status[r] = "ready"

WorkHasKind ==
    \A s \in Jobs :
        /\ work[s] \in {"analyze", "late"} => kind[s] = "analyze"
        /\ work[s] \in Publishing => kind[s] = "graph"

\* A version is staged in the order of publish, and complete when published.
StagedJob(s) ==
    /\ work[s] \in {"begin", "ticket", "create"} =>
          version[s] = "absent" /\ stored[s] = 0 /\ sent[s] = 0
    /\ work[s] \in {"lease", "write", "switch"} => version[s] = "building" /\ stored[s] <= sent[s]
    /\ work[s] = "write" => sent[s] < Chunks
    /\ work[s] = "switch" => sent[s] = Chunks
    /\ version[s] = "ready" => stored[s] = Chunks /\ s <= pointer /\ work[s] \notin Publishing
    /\ kind[s] = "graph" /\ (work[s] = "returned" \/ main[s] = "finish") => version[s] = "ready"

Staged == \A s \in Jobs : StagedJob(s)

Fenced == pointer <= ticket /\ ticket <= last /\ (pointer # 0 => version[pointer] = "ready")

Inv ==
    /\ TypeOK /\ FreshJobs /\ ActiveIsClaimed /\ StatusMatchesJob /\ GraphNeedsResult
    /\ WorkHasKind /\ Staged /\ Fenced /\ SuccessIsPublished

LEMMA InitInv == Init => Inv
<1> SUFFICES ASSUME Init PROVE Inv
  OBVIOUS
<1> USE RunConstants DEF Init, Runs, Jobs
<1>1. TypeOK
  <2>1. 1 \in Runs /\ 0 \in 0 .. MaxJobs /\ 0 \in 0 .. Tables /\ 0 \in 0 .. Chunks
    OBVIOUS
  <2>2. \A r \in Runs :
          status[r] \in Statuses /\ graphStatus[r] \in GraphStatuses /\ result[r] \in 0 .. Tables
    BY <2>1 DEF Statuses, GraphStatuses
  <2>3. \A s \in Jobs : main[s] \in MainPoints /\ work[s] \in WorkPoints
    BY DEF MainPoints, WorkPoints
  <2> QED
    BY <2>1, <2>2, <2>3 DEF TypeOK
<1>2. FreshJobs /\ ActiveIsClaimed /\ StatusMatchesJob /\ GraphNeedsResult /\ WorkHasKind
  BY DEF FreshJobs, ActiveIsClaimed, StatusMatchesJob, GraphNeedsResult, WorkHasKind, Publishing
<1>3. Staged /\ Fenced /\ SuccessIsPublished
  BY DEF Staged, StagedJob, Fenced, SuccessIsPublished, Publishing
<1> QED
  BY <1>1, <1>2, <1>3 DEF Inv

----
(* The transactions of RunStore.                                            *)

(* What _expire leaves: at most the run of the expired job has failed, and  *)
(* the records agree with what is active then.                              *)
LEMMA ExpireFacts ==
    ASSUME Inv
    PROVE  /\ Expire.status \in [Runs -> Statuses] /\ Expire.graph \in [Runs -> GraphStatuses]
           /\ Expire.active \in {0, active}
           /\ \A r \in Runs :
                /\ Expire.status[r] = status[r]
                     \/ (status[r] = "analyzing" /\ Expire.status[r] = "failed")
                /\ Expire.graph[r] = graphStatus[r]
                     \/ (graphStatus[r] = "building" /\ Expire.graph[r] = "failed")
                /\ Expire.status[r] = "analyzing" <=>
                     Expire.active # 0 /\ runOf[Expire.active] = r /\ kind[Expire.active] = "analyze"
                /\ Expire.graph[r] = "building" <=>
                     Expire.active # 0 /\ runOf[Expire.active] = r /\ kind[Expire.active] = "graph"
<1>1. /\ status \in [Runs -> Statuses] /\ graphStatus \in [Runs -> GraphStatuses]
      /\ StatusMatchesJob
  BY DEF Inv, TypeOK
<1>2. Expire.status \in [Runs -> Statuses] /\ Expire.graph \in [Runs -> GraphStatuses]
  BY <1>1 DEF Expire, Statuses, GraphStatuses
<1>3. Expire.active \in {0, active}
  BY DEF Expire
<1>4. ASSUME NEW r \in Runs
      PROVE  /\ Expire.status[r] = status[r]
                  \/ (status[r] = "analyzing" /\ Expire.status[r] = "failed")
             /\ Expire.graph[r] = graphStatus[r]
                  \/ (graphStatus[r] = "building" /\ Expire.graph[r] = "failed")
             /\ Expire.status[r] = "analyzing" <=>
                  Expire.active # 0 /\ runOf[Expire.active] = r /\ kind[Expire.active] = "analyze"
             /\ Expire.graph[r] = "building" <=>
                  Expire.active # 0 /\ runOf[Expire.active] = r /\ kind[Expire.active] = "graph"
  BY <1>1 DEF Expire, StatusMatchesJob
<1> QED
  BY <1>2, <1>3, <1>4

(* What a transaction on run records keeps, if it agrees with the active    *)
(* job, and claims a new job or none.                                       *)
LEMMA ClaimFacts ==
    ASSUME Inv, NEW r \in Runs, NEW k \in {"analyze", "graph"}, Claim(r, k), UNCHANGED graphVars
    PROVE  /\ last' \in 0 .. MaxJobs /\ active' = last' /\ active' # 0 /\ expired' \in BOOLEAN
           /\ kind' \in [Jobs -> {"none", "analyze", "graph"}] /\ runOf' \in [Jobs -> Runs]
           /\ main' \in [Jobs -> MainPoints] /\ work' \in [Jobs -> WorkPoints]
           /\ kind'[active'] = k /\ runOf'[active'] = r
           /\ \A s \in Jobs \ {active'} : runOf'[s] = runOf[s]
           /\ version[active'] = "absent"
           /\ (FreshJobs /\ ActiveIsClaimed /\ WorkHasKind /\ Staged /\ Fenced)'
<1>1. TypeOK /\ FreshJobs /\ WorkHasKind /\ Staged /\ Fenced
  BY DEF Inv
<1>2. /\ last + 1 \in Jobs /\ last' = last + 1 /\ active' = last + 1 /\ last \in Nat
      /\ last' \in 0 .. MaxJobs /\ expired' = FALSE
  BY <1>1, RunConstants DEF Claim, TypeOK, Jobs
<1> DEFINE n == last + 1
<1>3. /\ kind' = [kind EXCEPT ![n] = k] /\ runOf' = [runOf EXCEPT ![n] = r]
      /\ main' = [main EXCEPT ![n] = "waiting"]
      /\ work' = [work EXCEPT ![n] = IF k = "analyze" THEN "analyze" ELSE "begin"]
  BY DEF Claim
<1>4. /\ kind' \in [Jobs -> {"none", "analyze", "graph"}] /\ runOf' \in [Jobs -> Runs]
      /\ main' \in [Jobs -> MainPoints] /\ work' \in [Jobs -> WorkPoints]
  BY <1>1, <1>2, <1>3 DEF TypeOK, MainPoints, WorkPoints, Publishing
<1>5. /\ kind'[n] = k /\ runOf'[n] = r /\ main'[n] = "waiting"
      /\ work'[n] = IF k = "analyze" THEN "analyze" ELSE "begin"
      /\ version[n] = "absent" /\ stored[n] = 0 /\ sent[n] = 0
  BY <1>1, <1>2, <1>3 DEF TypeOK, FreshJobs
<1>6. \A s \in Jobs \ {n} :
        kind'[s] = kind[s] /\ runOf'[s] = runOf[s] /\ main'[s] = main[s] /\ work'[s] = work[s]
  BY <1>1, <1>2, <1>3 DEF TypeOK
<1> HIDE DEF n
<1>7. FreshJobs'
  BY <1>1, <1>2, <1>6 DEF FreshJobs, graphVars, n, Jobs
<1>8. ActiveIsClaimed'
  BY <1>2, <1>5 DEF ActiveIsClaimed, n
<1>9. WorkHasKind'
  BY <1>1, <1>5, <1>6 DEF WorkHasKind, Publishing
<1>10. Staged'
  BY <1>1, <1>5, <1>6 DEF Staged, StagedJob, graphVars, Publishing
<1>11. Fenced'
  BY <1>1, <1>2 DEF Fenced, graphVars, TypeOK
<1>12. active' = n /\ last' = n /\ n \in Jobs /\ n # 0
  BY <1>2 DEF n
<1> QED
  BY <1>2, <1>4, <1>5, <1>6, <1>7, <1>8, <1>9, <1>10, <1>11, <1>12

(* A success stays published whatever a transaction does to other runs.     *)
LEMMA SuccessKept ==
    ASSUME Inv, UNCHANGED graphVars, graphVersion' = graphVersion,
           \A s \in Jobs : version[s] = "ready" => runOf'[s] = runOf[s],
           \A r \in Runs : graphStatus'[r] = "ready" => graphStatus[r] = "ready"
    PROVE  SuccessIsPublished'
<1> SUFFICES ASSUME NEW r \in Runs, graphStatus'[r] = "ready"
             PROVE  /\ graphVersion[r] # 0 /\ runOf'[graphVersion[r]] = r
                    /\ version[graphVersion[r]] = "ready" /\ graphVersion[r] <= pointer
  BY DEF SuccessIsPublished, graphVars
<1>1. /\ graphVersion[r] # 0 /\ runOf[graphVersion[r]] = r
      /\ version[graphVersion[r]] = "ready" /\ graphVersion[r] <= pointer
  BY DEF Inv, SuccessIsPublished
<1>2. graphVersion[r] \in Jobs
  BY <1>1, RunConstants DEF Inv, TypeOK, Jobs
<1> QED
  BY <1>1, <1>2

LEMMA AnalyzeInv == ASSUME Inv, NEW r \in Runs, Analyze(r) PROVE Inv'
<1>1. /\ Claim(r, "analyze") /\ UNCHANGED graphVars /\ Expire.active = 0 /\ status[r] = "absent"
      /\ status' = [Expire.status EXCEPT ![r] = "analyzing"] /\ graphStatus' = Expire.graph
      /\ result' = result /\ graphVersion' = graphVersion
  BY DEF Analyze, Claim, NextRun
<1>2. graphStatus[r] = "none" /\ Expire.graph[r] = "none"
  BY <1>1, ExpireFacts DEF Inv, GraphNeedsResult, TypeOK, GraphStatuses
<1>3. TypeOK'
  BY <1>1, ExpireFacts, ClaimFacts DEF Inv, TypeOK, graphVars, Statuses
<1>4. StatusMatchesJob'
  BY <1>1, <1>2, ExpireFacts, ClaimFacts DEF StatusMatchesJob
<1>5. GraphNeedsResult'
  BY <1>1, <1>2, ExpireFacts DEF Inv, GraphNeedsResult
<1>6. SuccessIsPublished'
  BY <1>1, ExpireFacts, ClaimFacts, SuccessKept
<1> QED
  BY <1>1, <1>3, <1>4, <1>5, <1>6, ClaimFacts DEF Inv

LEMMA StartGraphInv == ASSUME Inv, NEW r \in Runs, StartGraph(r) PROVE Inv'
<1>1. /\ Claim(r, "graph") /\ UNCHANGED graphVars /\ Expire.active = 0
      /\ Expire.status[r] = "ready" /\ status' = Expire.status
      /\ graphStatus' = [Expire.graph EXCEPT ![r] = "building"]
      /\ result' = result /\ graphVersion' = graphVersion
  BY DEF StartGraph, Claim
<1>3. TypeOK'
  BY <1>1, ExpireFacts, ClaimFacts DEF Inv, TypeOK, graphVars, GraphStatuses
<1>4. StatusMatchesJob'
  BY <1>1, ExpireFacts, ClaimFacts DEF StatusMatchesJob
<1>5. GraphNeedsResult'
  BY <1>1, ExpireFacts DEF Inv, GraphNeedsResult
<1>6. SuccessIsPublished'
  BY <1>1, ExpireFacts, ClaimFacts, SuccessKept
<1> QED
  BY <1>1, <1>3, <1>4, <1>5, <1>6, ClaimFacts DEF Inv

LEMMA AdoptInv ==
    ASSUME Inv, NEW original \in Runs, NEW r \in Runs, AdoptAndGenerate(original, r)
    PROVE  Inv'
<1>1. /\ Claim(r, "graph") /\ UNCHANGED graphVars /\ Expire.active = 0 /\ status[r] = "absent"
      /\ status' = [Expire.status EXCEPT ![r] = "ready"]
      /\ graphStatus' = [Expire.graph EXCEPT ![r] = "building"]
      /\ result' = [result EXCEPT ![r] = Tables] /\ graphVersion' = graphVersion
  BY DEF AdoptAndGenerate, Forked, Claim, NextRun
<1>3. TypeOK'
  <2>1. result' \in [Runs -> 0 .. Tables]
    BY <1>1, RunConstants DEF Inv, TypeOK
  <2> QED
    BY <1>1, <2>1, ExpireFacts, ClaimFacts DEF Inv, TypeOK, graphVars, GraphStatuses, Statuses
<1>4. StatusMatchesJob'
  BY <1>1, ExpireFacts, ClaimFacts DEF StatusMatchesJob
<1>5. GraphNeedsResult'
  BY <1>1, ExpireFacts DEF Inv, GraphNeedsResult
<1>6. SuccessIsPublished'
  BY <1>1, ExpireFacts, ClaimFacts, SuccessKept
<1> QED
  BY <1>1, <1>3, <1>4, <1>5, <1>6, ClaimFacts DEF Inv

(* A revision, or a read, may only release an expired job.                  *)
LEMMA ReviseInv ==
    ASSUME Inv, Read \/ \E original, r \in Runs : Revise(original, r)
    PROVE  Inv'
<1>1. /\ graphStatus' = Expire.graph /\ active' = Expire.active /\ graphVersion' = graphVersion
      /\ UNCHANGED <<kind, runOf, last, expired, taskVars, graphVars>>
  BY DEF Read, Revise, Forked
<1>2. /\ status' \in [Runs -> Statuses] /\ result' \in [Runs -> 0 .. Tables]
      /\ \A r \in Runs :
            status'[r] = Expire.status[r] \/ (status[r] = "absent" /\ status'[r] = "ready")
  <2>1. CASE Read
    BY <2>1, ExpireFacts DEF Read, Inv, TypeOK
  <2>2. ASSUME NEW original \in Runs, NEW r \in Runs, Revise(original, r)
        PROVE  <1>2!:
    <3>1. /\ status[r] = "absent" /\ status' = [Expire.status EXCEPT ![r] = "ready"]
          /\ result' = [result EXCEPT ![r] = Tables] /\ Tables \in 0 .. Tables
      BY <2>2, RunConstants DEF Revise, NextRun, Forked
    <3> QED
      BY <3>1, ExpireFacts DEF Inv, TypeOK, Statuses
  <2> QED
    BY <2>1, <2>2
<1>3. TypeOK'
  BY <1>1, <1>2, ExpireFacts, RunConstants DEF Inv, TypeOK, graphVars, taskVars
<1>4. StatusMatchesJob'
  BY <1>1, <1>2, ExpireFacts DEF StatusMatchesJob
<1>5. GraphNeedsResult'
  BY <1>1, <1>2, ExpireFacts DEF Inv, GraphNeedsResult
<1>6. SuccessIsPublished'
  BY <1>1, ExpireFacts, SuccessKept
<1>7. (FreshJobs /\ WorkHasKind /\ Staged /\ Fenced)'
  BY <1>1 DEF Inv, FreshJobs, WorkHasKind, Staged, StagedJob, Fenced, graphVars, taskVars
<1>8. ActiveIsClaimed'
  BY <1>1, ExpireFacts DEF Inv, ActiveIsClaimed, TypeOK
<1> QED
  BY <1>3, <1>4, <1>5, <1>6, <1>7, <1>8 DEF Inv

----
(* The coroutine of a job.                                                  *)

LEMMA TimeInv == ASSUME Inv, LeaseRunsOut PROVE Inv'
BY DEF LeaseRunsOut, runVars, taskVars, graphVars, Inv, TypeOK, FreshJobs, ActiveIsClaimed,
       StatusMatchesJob, GraphNeedsResult, WorkHasKind, Staged, StagedJob, Fenced,
       SuccessIsPublished

\* Only the program points of one job change, and not to a write.
LEMMA PointsInv ==
    ASSUME Inv, NEW s \in Jobs, Interrupt(s) \/ WorkDone(s) \/ Crash(s)
    PROVE  Inv'
<1>1. /\ UNCHANGED <<runVars, jobVars, graphVars>>
      /\ main' \in [Jobs -> MainPoints] /\ work' \in [Jobs -> WorkPoints]
      /\ \A q \in Jobs \ {s} : main'[q] = main[q] /\ work'[q] = work[q]
      /\ work'[s] = work[s] \/ work'[s] = "gone"
      /\ main'[s] = "finish" => work'[s] = "returned"
      /\ main[s] = "gone" => main'[s] = "gone"
  <2> USE DEF Inv, TypeOK, Goto, MainPoints, WorkPoints
  <2>1. CASE Interrupt(s)
    BY <2>1 DEF Interrupt
  <2>2. CASE WorkDone(s)
    BY <2>2 DEF WorkDone
  <2>3. CASE Crash(s)
    BY <2>3 DEF Crash
  <2> QED
    BY <2>1, <2>2, <2>3
<1>2. TypeOK'
  BY <1>1 DEF Inv, TypeOK, runVars, jobVars, graphVars
<1>3. (FreshJobs /\ WorkHasKind)'
  BY <1>1 DEF Inv, FreshJobs, WorkHasKind, jobVars, graphVars, Publishing
<1>4. Staged'
  BY <1>1 DEF Inv, Staged, StagedJob, jobVars, graphVars, Publishing
<1>5. (ActiveIsClaimed /\ StatusMatchesJob /\ GraphNeedsResult /\ Fenced /\ SuccessIsPublished)'
  BY <1>1 DEF Inv, ActiveIsClaimed, StatusMatchesJob, GraphNeedsResult, Fenced,
         SuccessIsPublished, runVars, jobVars, graphVars
<1> QED
  BY <1>2, <1>3, <1>4, <1>5 DEF Inv

\* The record of the run whose job has the lease, before and after it ends.
LEMMA LeasedRun ==
    ASSUME Inv, NEW s \in Jobs, Leased(s)
    PROVE  /\ active = s /\ runOf[s] \in Runs /\ kind[s] \in {"analyze", "graph"}
           /\ kind[s] = "analyze" => status[runOf[s]] = "analyzing" /\ graphStatus[runOf[s]] = "none"
           /\ kind[s] = "graph" => status[runOf[s]] = "ready" /\ graphStatus[runOf[s]] = "building"
<1>1. active = s /\ s # 0 /\ runOf[s] \in Runs /\ kind[s] \in {"analyze", "graph"}
  BY RunConstants DEF Leased, Inv, TypeOK, ActiveIsClaimed, Jobs
<1>2. kind[s] = "analyze" => status[runOf[s]] = "analyzing"
  BY <1>1 DEF Inv, StatusMatchesJob
<1>3. kind[s] = "graph" => graphStatus[runOf[s]] = "building"
  BY <1>1 DEF Inv, StatusMatchesJob
<1> QED
  BY <1>1, <1>2, <1>3 DEF Inv, GraphNeedsResult

\* What does not depend on run records, when a coroutine moves on.
LEMMA MovesOn ==
    ASSUME Inv, NEW s \in Jobs, main[s] \in {"finish", "fail"},
           NEW p \in {"gone", "fail"}, Goto(main, s, p),
           work' = work \/ (work[s] = "analyze" /\ \E w \in {"late", "gone"} : Goto(work, s, w)),
           active' \in {0, active}, UNCHANGED <<kind, runOf, last, graphVars>>
    PROVE  /\ main' \in [Jobs -> MainPoints] /\ work' \in [Jobs -> WorkPoints]
           /\ (FreshJobs /\ ActiveIsClaimed /\ WorkHasKind /\ Staged /\ Fenced)'
<1>1. TypeOK /\ FreshJobs /\ ActiveIsClaimed /\ WorkHasKind /\ Staged /\ Fenced
  BY DEF Inv
<1>2. /\ main' \in [Jobs -> MainPoints] /\ work' \in [Jobs -> WorkPoints]
      /\ main'[s] = p
      /\ work'[s] = work[s] \/ (work[s] = "analyze" /\ work'[s] \in {"late", "gone"})
      /\ \A q \in Jobs \ {s} : main'[q] = main[q] /\ work'[q] = work[q]
  BY <1>1 DEF Goto, TypeOK, MainPoints, WorkPoints
<1>3. s <= last
  BY <1>1, RunConstants DEF FreshJobs, TypeOK, Jobs
<1>4. FreshJobs'
  BY <1>1, <1>2, <1>3, RunConstants DEF FreshJobs, graphVars, TypeOK, Jobs
<1>5. ActiveIsClaimed'
  BY <1>1 DEF ActiveIsClaimed, TypeOK
<1>6. WorkHasKind'
  BY <1>1, <1>2 DEF WorkHasKind, Publishing
<1>7. Staged'
  BY <1>1, <1>2 DEF Staged, StagedJob, graphVars, Publishing
<1>8. Fenced'
  BY <1>1 DEF Fenced, graphVars
<1> QED
  BY <1>2, <1>4, <1>5, <1>6, <1>7, <1>8

LEMMA FinishInv == ASSUME Inv, NEW s \in Jobs, Finish(s) PROVE Inv'
<1>1. /\ main[s] = "finish" /\ UNCHANGED <<kind, runOf, last, expired, work, graphVars>>
      /\ active' \in {0, active} /\ \E p \in {"gone", "fail"} : Goto(main, s, p)
  BY DEF Finish
<1>2. /\ main' \in [Jobs -> MainPoints] /\ work' \in [Jobs -> WorkPoints]
      /\ (FreshJobs /\ ActiveIsClaimed /\ WorkHasKind /\ Staged /\ Fenced)'
  BY <1>1, MovesOn
<1>3. active' \in 0 .. MaxJobs /\ Tables \in 0 .. Tables /\ s \in 0 .. MaxJobs
  <2>1. active \in 0 .. MaxJobs
    BY DEF Inv, TypeOK
  <2>2. 0 \in 0 .. MaxJobs /\ Tables \in 0 .. Tables
    BY RunConstants
  <2>3. s \in 0 .. MaxJobs
    BY RunConstants DEF Jobs
  <2> QED
    BY <1>1, <2>1, <2>2, <2>3
<1>4. CASE UNCHANGED <<runVars, active>>
  <2>1. TypeOK'
    BY <1>1, <1>2, <1>3, <1>4 DEF Inv, TypeOK, runVars, graphVars
  <2>2. (StatusMatchesJob /\ GraphNeedsResult /\ SuccessIsPublished)'
    BY <1>1, <1>4 DEF Inv, StatusMatchesJob, GraphNeedsResult, SuccessIsPublished, runVars, graphVars
  <2> QED
    BY <1>2, <2>1, <2>2 DEF Inv
<1>5. CASE /\ Leased(s) /\ active' = 0 /\ kind[s] = "analyze"
           /\ status' = [status EXCEPT ![runOf[s]] = "ready"]
           /\ result' = [result EXCEPT ![runOf[s]] = Tables]
           /\ UNCHANGED <<graphStatus, graphVersion>>
  <2>1. TypeOK'
    BY <1>1, <1>2, <1>3, <1>5 DEF Inv, TypeOK, graphVars, Statuses
  <2>2. (StatusMatchesJob /\ GraphNeedsResult)'
    BY <1>1, <1>5, LeasedRun DEF Inv, TypeOK, StatusMatchesJob, GraphNeedsResult
  <2>3. SuccessIsPublished'
    BY <1>1, <1>5, SuccessKept
  <2> QED
    BY <1>2, <2>1, <2>2, <2>3 DEF Inv
<1>6. CASE /\ Leased(s) /\ active' = 0 /\ kind[s] # "analyze"
           /\ graphStatus' = [graphStatus EXCEPT ![runOf[s]] = "ready"]
           /\ graphVersion' = [graphVersion EXCEPT ![runOf[s]] = s]
           /\ UNCHANGED <<status, result>>
  <2>1. kind[s] = "graph"
    BY <1>6, LeasedRun
  <2>2. TypeOK'
    BY <1>1, <1>2, <1>3, <1>6 DEF Inv, TypeOK, graphVars, GraphStatuses
  <2>3. (StatusMatchesJob /\ GraphNeedsResult)'
    BY <1>1, <1>6, <2>1, LeasedRun DEF Inv, TypeOK, StatusMatchesJob, GraphNeedsResult
  <2>4. version[s] = "ready" /\ s <= pointer /\ s # 0
    BY <1>1, <2>1, RunConstants DEF Inv, Staged, StagedJob, Jobs
  <2>5. SuccessIsPublished'
    BY <1>1, <1>6, <2>4 DEF Inv, TypeOK, SuccessIsPublished, graphVars
  <2> QED
    BY <1>2, <2>2, <2>3, <2>5 DEF Inv
<1> QED
  BY <1>4, <1>5, <1>6 DEF Finish

LEMMA FailInv == ASSUME Inv, NEW s \in Jobs, Fail(s) PROVE Inv'
<1>1. /\ main[s] = "fail" /\ UNCHANGED <<result, graphVersion, kind, runOf, last, expired, graphVars>>
      /\ active' \in {0, active} /\ Goto(main, s, "gone")
      /\ work' = work \/ (work[s] = "analyze" /\ \E w \in {"late", "gone"} : Goto(work, s, w))
  BY DEF Fail
<1>2. /\ main' \in [Jobs -> MainPoints] /\ work' \in [Jobs -> WorkPoints]
      /\ (FreshJobs /\ ActiveIsClaimed /\ WorkHasKind /\ Staged /\ Fenced)'
  BY <1>1, MovesOn
<1>3. active' \in 0 .. MaxJobs
  BY <1>1, RunConstants DEF Inv, TypeOK
<1>4. CASE UNCHANGED <<active, status, graphStatus>>
  <2>1. TypeOK'
    BY <1>1, <1>2, <1>3, <1>4 DEF Inv, TypeOK, graphVars
  <2>2. (StatusMatchesJob /\ GraphNeedsResult /\ SuccessIsPublished)'
    BY <1>1, <1>4 DEF Inv, StatusMatchesJob, GraphNeedsResult, SuccessIsPublished, graphVars
  <2> QED
    BY <1>2, <2>1, <2>2 DEF Inv
<1>5. CASE /\ Leased(s) /\ active' = 0 /\ kind[s] = "analyze"
           /\ status' = [status EXCEPT ![runOf[s]] = "failed"] /\ UNCHANGED graphStatus
  <2>1. TypeOK'
    BY <1>1, <1>2, <1>3, <1>5 DEF Inv, TypeOK, graphVars, Statuses
  <2>2. (StatusMatchesJob /\ GraphNeedsResult)'
    BY <1>1, <1>5, LeasedRun DEF Inv, TypeOK, StatusMatchesJob, GraphNeedsResult
  <2>3. SuccessIsPublished'
    BY <1>1, <1>5, SuccessKept
  <2> QED
    BY <1>2, <2>1, <2>2, <2>3 DEF Inv
<1>6. CASE /\ Leased(s) /\ active' = 0 /\ kind[s] # "analyze"
           /\ graphStatus' = [graphStatus EXCEPT ![runOf[s]] = "failed"] /\ UNCHANGED status
  <2>1. TypeOK'
    BY <1>1, <1>2, <1>3, <1>6 DEF Inv, TypeOK, graphVars, GraphStatuses
  <2>2. (StatusMatchesJob /\ GraphNeedsResult)'
    BY <1>1, <1>6, LeasedRun DEF Inv, TypeOK, StatusMatchesJob, GraphNeedsResult
  <2>3. SuccessIsPublished'
    <3>1. \A r \in Runs : graphStatus'[r] = "ready" => graphStatus[r] = "ready"
      BY <1>6, LeasedRun DEF Inv, TypeOK
    <3> QED
      BY <1>1, <3>1, SuccessKept
  <2> QED
    BY <1>2, <2>1, <2>2, <2>3 DEF Inv
<1> QED
  BY <1>4, <1>5, <1>6 DEF Fail

----
(* The work of a job.                                                       *)

\* The work of a job leaves the records of runs and jobs alone.
LEMMA RecordsKept ==
    ASSUME Inv, UNCHANGED <<status, graphStatus, jobVars, main>>
    PROVE  (ActiveIsClaimed /\ StatusMatchesJob /\ GraphNeedsResult)'
BY DEF Inv, jobVars, ActiveIsClaimed, StatusMatchesJob, GraphNeedsResult

\* A program point of its work moves, and nothing in Neo4j.
LEMMA WorkMoves ==
    ASSUME Inv, NEW s \in Jobs, work[s] # "gone", NEW p \in WorkPoints, Goto(work, s, p),
           UNCHANGED <<jobVars, main, graphVars>>,
           p \in {"analyze", "late"} => work[s] \in {"analyze", "late"},
           p \in Publishing => work[s] \in {"begin", "lease"},
           p = "ticket" => work[s] = "begin",
           p \in Publishing \ {"ticket"} => work[s] = "lease" /\ p \in {"write", "switch"},
           p = "write" => sent[s] < Chunks,
           p = "switch" => sent[s] = Chunks,
           p = "returned" => kind[s] = "analyze"
    PROVE  /\ work' \in [Jobs -> WorkPoints]
           /\ (FreshJobs /\ WorkHasKind /\ Staged /\ Fenced)'
<1>1. TypeOK /\ FreshJobs /\ WorkHasKind /\ Staged /\ Fenced
  BY DEF Inv
<1>2. /\ work' \in [Jobs -> WorkPoints] /\ work'[s] = p
      /\ \A q \in Jobs \ {s} : work'[q] = work[q]
  BY <1>1 DEF TypeOK, Goto
<1>3. ~(s > last)
  BY <1>1 DEF FreshJobs
<1>4. FreshJobs'
  BY <1>1, <1>2, <1>3 DEF FreshJobs, jobVars, graphVars
<1>5. WorkHasKind'
  BY <1>1, <1>2 DEF WorkHasKind, Publishing, jobVars
<1>6. Staged'
  <2>1. ASSUME NEW q \in Jobs, q # s PROVE StagedJob(q)'
    BY <1>1, <1>2, <2>1 DEF Staged, StagedJob, jobVars, graphVars
  <2>2. StagedJob(s)'
    <3>1. StagedJob(s)
      BY <1>1 DEF Staged
    <3> QED
      BY <1>2, <3>1 DEF StagedJob, jobVars, graphVars, Publishing
  <2> QED
    BY <2>1, <2>2 DEF Staged
<1>7. Fenced'
  BY <1>1 DEF Fenced, graphVars, jobVars
<1> QED
  BY <1>2, <1>4, <1>5, <1>6, <1>7

LEMMA AnalyzeTableInv == ASSUME Inv, NEW s \in Jobs, AnalyzeTable(s) PROVE Inv'
<1>1. /\ work[s] \in {"analyze", "late"}
      /\ UNCHANGED <<status, graphStatus, graphVersion, jobVars, main, graphVars>>
      /\ result' = result \/ (result[runOf[s]] < Tables /\ result' = [result EXCEPT ![runOf[s]] = @ + 1])
      /\ \E p \in {"gone", "raised", "analyze"} : Goto(work, s, p)
  BY DEF AnalyzeTable
<1>2. result' \in [Runs -> 0 .. Tables]
  <2>1. result[runOf[s]] < Tables => result[runOf[s]] + 1 \in 0 .. Tables
    BY RunConstants DEF Inv, TypeOK
  <2> QED
    BY <1>1, <2>1 DEF Inv, TypeOK
<1>3. work' \in [Jobs -> WorkPoints] /\ (FreshJobs /\ WorkHasKind /\ Staged /\ Fenced)'
  BY <1>1, WorkMoves DEF WorkPoints, Publishing
<1>4. TypeOK'
  BY <1>1, <1>2, <1>3 DEF Inv, TypeOK, jobVars, graphVars
<1>5. SuccessIsPublished'
  BY <1>1 DEF Inv, SuccessIsPublished, jobVars, graphVars
<1> QED
  BY <1>1, <1>3, <1>4, <1>5, RecordsKept DEF Inv

\* Steps of the work that change nothing but its program point.
LEMMA WorkInv ==
    ASSUME Inv, NEW s \in Jobs, AnalysisDone(s) \/ CheckLease(s)
    PROVE  Inv'
<1>1. UNCHANGED <<runVars, jobVars, main, graphVars>>
  BY DEF AnalysisDone, CheckLease
<1>2. work' \in [Jobs -> WorkPoints] /\ (FreshJobs /\ WorkHasKind /\ Staged /\ Fenced)'
  <2>1. CASE AnalysisDone(s)
    <3>1. work[s] = "analyze" /\ Goto(work, s, "returned") /\ kind[s] = "analyze"
      BY <2>1 DEF AnalysisDone, Inv, WorkHasKind
    <3> QED
      BY <1>1, <3>1, WorkMoves DEF WorkPoints, Publishing
  <2>2. CASE CheckLease(s)
    <3>1. PICK p \in {"ticket", "write", "switch", "raised"} :
             /\ Goto(work, s, p) /\ work[s] \in {"begin", "lease"}
             /\ p = "ticket" => work[s] = "begin"
             /\ p = "write" => work[s] = "lease" /\ sent[s] < Chunks
             /\ p = "switch" => work[s] = "lease" /\ ~(sent[s] < Chunks)
      BY <2>2 DEF CheckLease
    <3>2. p = "switch" => sent[s] = Chunks
      BY <3>1, RunConstants DEF Inv, TypeOK
    <3> QED
      BY <1>1, <3>1, <3>2, WorkMoves DEF WorkPoints, Publishing
  <2> QED
    BY <2>1, <2>2
<1>3. TypeOK'
  BY <1>1, <1>2 DEF Inv, TypeOK, runVars, jobVars, graphVars
<1>4. SuccessIsPublished'
  BY <1>1 DEF Inv, SuccessIsPublished, runVars, jobVars, graphVars
<1> QED
  BY <1>1, <1>2, <1>3, <1>4, RecordsKept DEF Inv, runVars
LEMMA TakeTicketInv == ASSUME Inv, NEW s \in Jobs, TakeTicket(s) PROVE Inv'
<1>1. /\ work[s] = "ticket" /\ UNCHANGED <<runVars, jobVars, main, pointer, version, stored, sent>>
      /\ ticket' = ticket \/ (ticket < s /\ ticket' = s)
      /\ \E p \in {"create", "raised"} : Goto(work, s, p)
  BY DEF TakeTicket, Query
<1>2. /\ TypeOK /\ FreshJobs /\ WorkHasKind /\ StagedJob(s) /\ Fenced /\ s \in 0 .. MaxJobs
  BY RunConstants DEF Inv, Staged, Jobs
<1>3. /\ work' \in [Jobs -> WorkPoints] /\ work'[s] \in {"create", "raised"}
      /\ \A q \in Jobs \ {s} : work'[q] = work[q]
  BY <1>1, <1>2 DEF TypeOK, Goto, WorkPoints, Publishing
<1>4. s <= last
  BY <1>1, <1>2 DEF FreshJobs, TypeOK, Jobs
<1>5. TypeOK'
  BY <1>1, <1>2, <1>3 DEF TypeOK, runVars, jobVars
<1>6. (FreshJobs /\ WorkHasKind)'
  BY <1>1, <1>2, <1>3, <1>4 DEF FreshJobs, WorkHasKind, TypeOK, Jobs, jobVars, Publishing
<1>7. Staged'
  BY <1>1, <1>2, <1>3 DEF Inv, Staged, StagedJob, jobVars, Publishing
<1>8. (Fenced /\ SuccessIsPublished)'
  BY <1>1, <1>2, <1>4 DEF Inv, TypeOK, Jobs, Fenced, SuccessIsPublished, jobVars, runVars
<1> QED
  BY <1>1, <1>5, <1>6, <1>7, <1>8, RecordsKept DEF Inv, runVars

LEMMA CreateVersionInv == ASSUME Inv, NEW s \in Jobs, CreateVersion(s) PROVE Inv'
<1>1. /\ work[s] = "create" /\ UNCHANGED <<runVars, jobVars, main, ticket, pointer, stored, sent>>
      /\ version' = [version EXCEPT ![s] = "building"]
      /\ \E p \in {"lease", "raised"} : Goto(work, s, p)
  BY DEF CreateVersion, Query
<1>2. /\ TypeOK /\ FreshJobs /\ WorkHasKind /\ Staged /\ StagedJob(s) /\ Fenced
  BY DEF Inv, Staged
<1>3. /\ work' \in [Jobs -> WorkPoints] /\ work'[s] \in {"lease", "raised"}
      /\ \A q \in Jobs \ {s} : work'[q] = work[q] /\ version'[q] = version[q]
      /\ version'[s] = "building" /\ version[s] = "absent"
  BY <1>1, <1>2 DEF TypeOK, Goto, WorkPoints, StagedJob, Publishing
<1>4. ~(s > last)
  BY <1>1, <1>2 DEF FreshJobs
<1>5. TypeOK'
  BY <1>1, <1>2, <1>3 DEF TypeOK, runVars, jobVars
<1>6. (FreshJobs /\ WorkHasKind)'
  BY <1>1, <1>2, <1>3, <1>4 DEF FreshJobs, WorkHasKind, jobVars, Publishing
<1>7. Staged'
  <2>1. ASSUME NEW q \in Jobs, q # s PROVE StagedJob(q)'
    BY <1>1, <1>2, <1>3, <2>1 DEF Staged, StagedJob, jobVars
  <2>2. StagedJob(s)'
    BY <1>1, <1>2, <1>3 DEF StagedJob, jobVars, Publishing, TypeOK, WorkHasKind, Inv
  <2> QED
    BY <2>1, <2>2 DEF Staged
<1>8. (Fenced /\ SuccessIsPublished)'
  BY <1>1, <1>2, <1>3 DEF Inv, Fenced, SuccessIsPublished, jobVars, runVars, TypeOK, Jobs
<1> QED
  BY <1>1, <1>5, <1>6, <1>7, <1>8, RecordsKept DEF Inv, runVars
LEMMA WriteInv == ASSUME Inv, NEW s \in Jobs, Write(s) PROVE Inv'
<1>1. /\ work[s] = "write" /\ UNCHANGED <<runVars, jobVars, main, ticket, pointer, version>>
      /\ \E n \in {0, 1} : stored' = [stored EXCEPT ![s] = @ + n]
      /\ \/ sent' = [sent EXCEPT ![s] = @ + 1] /\ Goto(work, s, "lease")
         \/ sent' = sent /\ Goto(work, s, "raised")
  BY DEF Write
<1>2. /\ TypeOK /\ FreshJobs /\ WorkHasKind /\ Staged /\ StagedJob(s) /\ Fenced
  BY DEF Inv, Staged
<1>3. /\ version[s] = "building" /\ stored[s] <= sent[s] /\ sent[s] < Chunks /\ kind[s] = "graph"
      /\ main[s] # "finish" /\ stored[s] \in Nat /\ sent[s] \in Nat
  BY <1>1, <1>2, RunConstants DEF StagedJob, WorkHasKind, Publishing, TypeOK
<1>4. /\ work' \in [Jobs -> WorkPoints] /\ stored' \in [Jobs -> 0 .. Chunks]
      /\ sent' \in [Jobs -> 0 .. Chunks]
      /\ \A q \in Jobs \ {s} : work'[q] = work[q] /\ stored'[q] = stored[q] /\ sent'[q] = sent[q]
      /\ stored'[s] \in {stored[s], stored[s] + 1}
      /\ (work'[s] = "lease" /\ sent'[s] = sent[s] + 1) \/ work'[s] = "raised"
  <2>1. stored[s] + 1 \in 0 .. Chunks /\ sent[s] + 1 \in 0 .. Chunks
    BY <1>3, RunConstants
  <2> QED
    BY <1>1, <1>2, <1>3, <2>1 DEF TypeOK, Goto, WorkPoints, Publishing
<1>5. ~(s > last)
  BY <1>1, <1>2 DEF FreshJobs
<1>6. TypeOK'
  BY <1>1, <1>2, <1>4 DEF TypeOK, runVars, jobVars
<1>7. (FreshJobs /\ WorkHasKind)'
  BY <1>1, <1>2, <1>4, <1>5 DEF FreshJobs, WorkHasKind, jobVars, Publishing
<1>8. Staged'
  <2>1. ASSUME NEW q \in Jobs, q # s PROVE StagedJob(q)'
    BY <1>1, <1>2, <1>4, <2>1 DEF Staged, StagedJob, jobVars
  <2>2. StagedJob(s)'
    BY <1>1, <1>3, <1>4 DEF StagedJob, jobVars, Publishing
  <2> QED
    BY <2>1, <2>2 DEF Staged
<1>9. (Fenced /\ SuccessIsPublished)'
  BY <1>1, <1>2 DEF Inv, Fenced, SuccessIsPublished, jobVars, runVars
<1> QED
  BY <1>1, <1>6, <1>7, <1>8, <1>9, RecordsKept DEF Inv, runVars

LEMMA SwitchInv == ASSUME Inv, NEW s \in Jobs, Switch(s) PROVE Inv'
<1>1. /\ work[s] = "switch" /\ UNCHANGED <<runVars, jobVars, main, ticket, stored, sent>>
      /\ \E p \in {"returned", "raised"} : Goto(work, s, p)
      /\ \/ MaySwitch(s) /\ version' = [version EXCEPT ![s] = "ready"] /\ pointer' = s
         \/ UNCHANGED <<version, pointer>> /\ Goto(work, s, "raised")
  BY DEF Switch, Query
<1>2. /\ TypeOK /\ FreshJobs /\ WorkHasKind /\ Staged /\ StagedJob(s) /\ Fenced
  BY DEF Inv, Staged
<1>3. /\ work' \in [Jobs -> WorkPoints] /\ work'[s] \in {"returned", "raised"}
      /\ \A q \in Jobs \ {s} : work'[q] = work[q]
  BY <1>1, <1>2 DEF TypeOK, Goto, WorkPoints, Publishing
<1>4. ~(s > last) /\ s \in 0 .. MaxJobs /\ s # 0 /\ sent[s] = Chunks /\ version[s] = "building"
  BY <1>1, <1>2, RunConstants DEF FreshJobs, StagedJob, Jobs
<1>5. (ActiveIsClaimed /\ StatusMatchesJob /\ GraphNeedsResult)'
  BY <1>1, RecordsKept DEF runVars
<1>6. (FreshJobs /\ WorkHasKind)'
  BY <1>1, <1>2, <1>3, <1>4 DEF FreshJobs, WorkHasKind, jobVars, Publishing, TypeOK
<1>7. CASE UNCHANGED <<version, pointer>> /\ Goto(work, s, "raised")
  <2>1. TypeOK'
    BY <1>1, <1>2, <1>3, <1>7 DEF TypeOK, runVars, jobVars
  <2>2. work'[s] = "raised"
    BY <1>2, <1>7 DEF TypeOK, Goto
  <2>3. Staged'
    BY <1>1, <1>2, <1>3, <1>7, <2>2 DEF Staged, StagedJob, jobVars, Publishing
  <2>4. (Fenced /\ SuccessIsPublished)'
    BY <1>1, <1>2, <1>7 DEF Inv, Fenced, SuccessIsPublished, jobVars, runVars
  <2> QED
    BY <1>5, <1>6, <2>1, <2>3, <2>4 DEF Inv
<1>8. CASE MaySwitch(s) /\ version' = [version EXCEPT ![s] = "ready"] /\ pointer' = s
  <2>1. TypeOK'
    BY <1>1, <1>2, <1>3, <1>4, <1>8 DEF TypeOK, runVars, jobVars
  <2>2. /\ ticket = s /\ stored[s] = Chunks /\ pointer <= s /\ pointer \in Int
        /\ version'[s] = "ready" /\ \A q \in Jobs \ {s} : version'[q] = version[q]
    BY <1>2, <1>4, <1>8 DEF MaySwitch, Fenced, TypeOK
  <2>3. Staged'
    <3>1. ASSUME NEW q \in Jobs, q # s PROVE StagedJob(q)'
      BY <1>1, <1>2, <1>3, <1>8, <2>2, <3>1, RunConstants DEF Staged, StagedJob, jobVars, Jobs
    <3>2. StagedJob(s)'
      BY <1>1, <1>3, <1>8, <2>2, RunConstants DEF StagedJob, jobVars, Publishing, Jobs
    <3> QED
      BY <3>1, <3>2 DEF Staged
  <2>4. Fenced'
    BY <1>1, <1>2, <1>4, <1>8, <2>2 DEF Fenced, jobVars, TypeOK
  <2>5. SuccessIsPublished'
    <3> SUFFICES ASSUME NEW r \in Runs, graphStatus[r] = "ready"
                 PROVE  /\ graphVersion[r] # 0 /\ runOf[graphVersion[r]] = r
                        /\ version'[graphVersion[r]] = "ready" /\ graphVersion[r] <= s
      BY <1>1, <1>8 DEF SuccessIsPublished, runVars, jobVars
    <3>1. /\ graphVersion[r] # 0 /\ runOf[graphVersion[r]] = r
          /\ version[graphVersion[r]] = "ready" /\ graphVersion[r] <= pointer
      BY DEF Inv, SuccessIsPublished
    <3>2. graphVersion[r] \in Jobs
      <4>1. graphVersion \in [Runs -> 0 .. MaxJobs]
        BY <1>2 DEF TypeOK
      <4> QED
        BY <3>1, <4>1, RunConstants DEF Jobs
    <3> QED
      BY <2>2, <3>1, <3>2, RunConstants DEF Jobs
  <2> QED
    BY <1>5, <1>6, <2>1, <2>3, <2>4, <2>5 DEF Inv
<1> QED
  BY <1>1, <1>7, <1>8

----
LEMMA NextInv == Inv /\ [Next]_vars => Inv'
<1> SUFFICES ASSUME Inv, [Next]_vars PROVE Inv'
  OBVIOUS
<1>1. ASSUME NEW r \in Runs, Analyze(r) \/ StartGraph(r) PROVE Inv'
  BY <1>1, AnalyzeInv, StartGraphInv
<1>2. ASSUME NEW original \in Runs, NEW r \in Runs, AdoptAndGenerate(original, r) PROVE Inv'
  BY <1>2, AdoptInv
<1>3. CASE Read \/ \E original, r \in Runs : Revise(original, r)
  BY <1>3, ReviseInv
<1>4. CASE LeaseRunsOut
  BY <1>4, TimeInv
<1>5. ASSUME NEW s \in Jobs, Coroutine(s) \/ Interrupt(s) \/ Crash(s) PROVE Inv'
  BY <1>5, PointsInv, FinishInv, FailInv DEF Coroutine
<1>6. ASSUME NEW s \in Jobs, Work(s) PROVE Inv'
  BY <1>6, AnalyzeTableInv, WorkInv, TakeTicketInv, CreateVersionInv, WriteInv, SwitchInv DEF Work
<1>7. CASE UNCHANGED vars
  BY <1>7 DEF vars, runVars, jobVars, taskVars, graphVars, Inv, TypeOK, FreshJobs, ActiveIsClaimed,
       StatusMatchesJob, GraphNeedsResult, WorkHasKind, Staged, StagedJob, Fenced,
       SuccessIsPublished
<1> QED
  BY <1>1, <1>2, <1>3, <1>4, <1>5, <1>6, <1>7 DEF Next, Request

(* The strengthening, for every number of runs, jobs, tables and chunks.    *)
THEOREM InvHolds == Spec => []Inv
BY InitInv, NextInv, PTL DEF Spec

(* Records, jobs, program points and versions keep their types.             *)
THEOREM TypeCorrect == Spec => []TypeOK
<1>1. Inv => TypeOK
  BY DEF Inv
<1> QED
  BY <1>1, InvHolds, PTL

(* A run is in progress exactly while the active job is its job.            *)
THEOREM RecordsAgreeWithJob == Spec => []StatusMatchesJob
<1>1. Inv => StatusMatchesJob
  BY DEF Inv
<1> QED
  BY <1>1, InvHolds, PTL

(* A run that reports success was published and at most superseded.         *)
THEOREM SuccessIsReal == Spec => []SuccessIsPublished
<1>1. Inv => SuccessIsPublished
  BY DEF Inv
<1> QED
  BY <1>1, InvHolds, PTL

(* The current graph is a published version with everything publish sent.   *)
THEOREM CurrentGraphIsWhole == Spec => []CurrentIsWhole
<1>1. Inv => CurrentIsWhole
  <2> SUFFICES ASSUME Inv, pointer # 0
               PROVE  version[pointer] = "ready" /\ stored[pointer] = Chunks
    BY DEF CurrentIsWhole
  <2>1. pointer \in Jobs /\ version[pointer] = "ready"
    BY RunConstants DEF Inv, TypeOK, Fenced, Jobs
  <2> QED
    BY <2>1 DEF Inv, Staged, StagedJob
<1> QED
  BY <1>1, InvHolds, PTL

(* The current pointer never goes back to an older publication.             *)
THEOREM GraphNeverGoesBack == Spec => PointerAdvances
<1>1. Inv /\ [Next]_vars => [pointer' >= pointer]_vars
  <2> SUFFICES ASSUME Inv, Next PROVE pointer' >= pointer
    BY DEF vars
  <2>1. pointer \in Int /\ pointer <= ticket
    BY RunConstants DEF Inv, TypeOK, Fenced
  <2>2. ASSUME NEW s \in Jobs, Switch(s) PROVE pointer' >= pointer
    BY <2>1, <2>2 DEF Switch, MaySwitch
  <2>3. ASSUME NEW s \in Jobs, Work(s), ~Switch(s) PROVE pointer' = pointer
    BY <2>3 DEF Work, AnalyzeTable, AnalysisDone, CheckLease, TakeTicket, CreateVersion, Write, graphVars
  <2>4. ASSUME NEW s \in Jobs, Coroutine(s) \/ Interrupt(s) \/ Crash(s) PROVE pointer' = pointer
    BY <2>4 DEF Coroutine, WorkDone, Finish, Fail, Interrupt, Crash, graphVars
  <2>5. Request \/ LeaseRunsOut => pointer' = pointer
    BY DEF Request, Analyze, StartGraph, Revise, AdoptAndGenerate, Forked, Read, LeaseRunsOut, graphVars
  <2> QED
    BY <2>1, <2>2, <2>3, <2>4, <2>5 DEF Next
<1> QED
  BY <1>1, InvHolds, PTL DEF Spec, PointerAdvances

(* A finished run is immutable evidence: no expiry, late checkpoint or      *)
(* failure of another job changes its status, result or graph.              *)
THEOREM ReadyRunsAreFinal == Spec => ReadyIsFinal
<1> DEFINE
    Kept(r) == /\ status[r] = "ready" => status'[r] = "ready" /\ result'[r] = result[r]
               /\ graphStatus[r] = "ready" =>
                     graphStatus'[r] = "ready" /\ graphVersion'[r] = graphVersion[r]
<1>1. Inv /\ [Next]_vars => [\A r \in Runs : Kept(r)]_vars
  <2> SUFFICES ASSUME Inv, Next, NEW r \in Runs PROVE Kept(r)
    OBVIOUS
  <2>1. status[r] = "absent" => graphStatus[r] # "ready"
    BY DEF Inv, GraphNeedsResult
  <2>2. /\ status[r] = "ready" => Expire.status[r] = "ready"
        /\ graphStatus[r] = "ready" => Expire.graph[r] = "ready"
    BY ExpireFacts
  <2>3. /\ Expire.status \in [Runs -> Statuses] /\ Expire.graph \in [Runs -> GraphStatuses]
        /\ status \in [Runs -> Statuses] /\ graphStatus \in [Runs -> GraphStatuses]
        /\ result \in [Runs -> 0 .. Tables] /\ graphVersion \in [Runs -> 0 .. MaxJobs]
    BY ExpireFacts DEF Inv, TypeOK
  <2>4. ASSUME NEW q \in Runs, Analyze(q) PROVE Kept(r)
    BY <2>1, <2>2, <2>3, <2>4 DEF Analyze, NextRun
  <2>5. ASSUME NEW q \in Runs, StartGraph(q) PROVE Kept(r)
    BY <2>2, <2>3, <2>5 DEF StartGraph
  <2>6. ASSUME NEW original \in Runs, NEW q \in Runs,
               Revise(original, q) \/ AdoptAndGenerate(original, q)
        PROVE  Kept(r)
    BY <2>1, <2>2, <2>3, <2>6 DEF Revise, AdoptAndGenerate, Forked, NextRun
  <2>7. Read \/ LeaseRunsOut => Kept(r)
    BY <2>2 DEF Read, LeaseRunsOut, runVars
  <2>8. ASSUME NEW s \in Jobs, Finish(s) \/ Fail(s) \/ AnalyzeTable(s) PROVE Kept(r)
    <3>1. Leased(s) => /\ kind[s] = "analyze" => status[runOf[s]] # "ready" /\ graphStatus[runOf[s]] # "ready"
                       /\ kind[s] # "analyze" => graphStatus[runOf[s]] # "ready"
      BY LeasedRun
    <3>2. CASE Finish(s)
      BY <2>3, <3>1, <3>2 DEF Finish, runVars
    <3>3. CASE Fail(s)
      BY <2>3, <3>1, <3>3 DEF Fail
    <3>4. CASE AnalyzeTable(s)
      <4>1. work[s] \in {"analyze", "late"} /\ kind[s] = "analyze"
        BY <3>4 DEF AnalyzeTable, Inv, WorkHasKind
      <4> QED
        BY <2>3, <3>1, <3>4, <4>1 DEF AnalyzeTable
    <3> QED
      BY <2>8, <3>2, <3>3, <3>4
  <2>9. ASSUME NEW s \in Jobs,
               WorkDone(s) \/ Interrupt(s) \/ Crash(s) \/ (Work(s) /\ ~AnalyzeTable(s))
        PROVE  Kept(r)
    BY <2>9 DEF WorkDone, Interrupt, Crash, Work, AnalysisDone, CheckLease, TakeTicket,
         CreateVersion, Write, Switch, runVars
  <2> QED
    BY <2>4, <2>5, <2>6, <2>7, <2>8, <2>9 DEF Next, Request, Coroutine, Work
<1> QED
  BY <1>1, InvHolds, PTL DEF Spec, ReadyIsFinal

----
(* SummarySync: one operator at a time migrates; what the tables, the backup *)
(* and the catalog hold follows from where that operator is.                 *)

SyncContent == [columns : {"old", "new", "garbled"}, extra : Nat]
Synchronising ==
    {"backup", "saved", "stage", "verify", "rename", "note", "catalog", "check", "drop", "publish"}
AfterSwap == {"note", "catalog", "check", "drop", "publish"}

\* The tables, the backup and the catalog.
SyncTypes ==
    /\ \A t \in SummaryTables : Y!Main(t) \in DOMAIN syncDb
    /\ \A n \in DOMAIN syncDb :
          /\ syncDb[n] \in SyncContent
          /\ \/ n \in {Y!Main(t) : t \in SummaryTables}
             \/ \E r \in 1 .. runs, t \in SummaryTables : n \in {Y!Stage(r, t), Y!Prior(r, t)}
    /\ syncBackup # None => syncBackup \in [SummaryTables -> [columns : {"old"}, extra : Nat]]
    /\ catalog \in [SummaryTables -> [columns : {"old", "new"}, managed : BOOLEAN]]
    /\ runs \in Nat /\ swaps \in {0, 1}

\* The named lock admits one operator, who has a run of its own.
OneSync ==
    /\ DOMAIN task = Operators
    /\ \A p \in Operators :
          /\ task[p].at \in Synchronising => {"at", "run"} \subseteq DOMAIN task[p] /\ task[p].run \in 1 .. runs
          /\ task[p].at \in Synchronising \cup {"idle", "start"}
          /\ \A o \in Operators : Y!Migrating(p) /\ Y!Migrating(o) => o = p

\* Where an operator is.
SyncIsAt(p) ==
    LET place == task[p].at
        r == task[p].run
    IN
    /\ place \in {"backup", "saved"} => syncBackup = None
    /\ place = "saved" => task[p].seen \in [SummaryTables -> [columns : {"old"}, extra : Nat]]
    /\ place \in {"stage", "verify", "rename"} \cup AfterSwap => syncBackup # None
    /\ place \in {"backup", "saved", "stage", "verify", "rename"} =>
          \A t \in SummaryTables :
             /\ place \in {"verify", "rename"} => Y!Stage(r, t) \in DOMAIN syncDb
             /\ Y!Stage(r, t) \in DOMAIN syncDb => syncDb[Y!Stage(r, t)].columns = "new"
             /\ Y!Prior(r, t) \notin DOMAIN syncDb
    /\ place = "rename" => Y!Same
    /\ place \in AfterSwap => swaps = 1
    /\ place \in {"note", "catalog", "check", "drop"} =>
          \A t \in SummaryTables : Y!Prior(r, t) \in DOMAIN syncDb
    /\ place \in {"drop", "publish"} => \A t \in SummaryTables : catalog[t].columns = "new"

SyncAt == \A p \in Operators : SyncIsAt(p)

\* Before the exchange everything is old, after it the old tables are there or
\* the catalog is new.
SyncExchanged ==
    /\ swaps = 0 => \A t \in SummaryTables :
          syncDb[Y!Main(t)].columns = "old" /\ catalog[t].columns = "old"
    /\ swaps = 1 =>
          /\ syncBackup # None
          /\ \A t \in SummaryTables : syncDb[Y!Main(t)].columns = "new"
          /\ \/ \E r \in 1 .. runs : \A t \in SummaryTables : Y!Prior(r, t) \in DOMAIN syncDb
             \/ \A t \in SummaryTables : catalog[t].columns = "new"
    /\ \A r \in 1 .. runs, t \in SummaryTables :
          Y!Prior(r, t) \in DOMAIN syncDb => syncDb[Y!Prior(r, t)] = syncBackup[t]
    /\ \A d \in syncDropped : d.table \in SummaryTables /\ syncBackup[d.table] = d.content
    /\ (swaps = 0 => syncDropped = {}
          /\ \A r \in 1 .. runs, t \in SummaryTables : Y!Prior(r, t) \notin DOMAIN syncDb)

SyncInv == SyncTypes /\ OneSync /\ SyncAt /\ SyncExchanged


LEMMA SyncInit == Y!Init => SyncInv
<1> SUFFICES ASSUME Y!Init PROVE SyncInv
  OBVIOUS
<1> USE DEF Y!Init
<1>1. SyncTypes
  BY DEF SyncTypes, SyncContent, Y!Content, Y!Main
<1>2. OneSync /\ SyncAt
  BY DEF OneSync, SyncAt, SyncIsAt, Synchronising, AfterSwap, Y!Idle, Y!Migrating
<1>3. SyncExchanged
  BY DEF SyncExchanged, Y!Content, Y!Main
<1> QED
  BY <1>1, <1>2, <1>3 DEF SyncInv

----
\* Steps of one operator: the others stay where they are.

Stays == UNCHANGED <<syncDb, catalog, runs, swaps, syncDropped>>

LEMMA Moves ==
    ASSUME SyncInv, NEW p \in Operators, NEW to, task' = [task EXCEPT ![p] = to]
    PROVE  /\ DOMAIN task' = Operators /\ task'[p] = to
           /\ \A o \in Operators \ {p} : task'[o] = task[o]
BY DEF SyncInv, OneSync

LEMMA BreakInv == ASSUME SyncInv, NEW p \in Operators, Y!Begin(p) \/ Y!Break(p) PROVE SyncInv'
<1>1. PICK to : /\ task' = [task EXCEPT ![p] = to] /\ to.at \in {"idle", "start"}
                /\ UNCHANGED <<syncDb, catalog, syncBackup, runs, swaps, syncDropped>>
  BY DEF Y!Begin, Y!Break, Y!Idle
<1>2. /\ DOMAIN task' = Operators /\ task'[p] = to
      /\ \A o \in Operators \ {p} : task'[o] = task[o]
  BY <1>1, Moves
<1>3. SyncTypes'
  BY <1>1 DEF SyncInv, SyncTypes, SyncContent
<1>4. OneSync'
  BY <1>1, <1>2 DEF SyncInv, OneSync, Synchronising, Y!Migrating
<1>5. SyncAt'
  BY <1>1, <1>2 DEF SyncInv, SyncAt, SyncIsAt, AfterSwap, Y!Same
<1>6. SyncExchanged'
  BY <1>1 DEF SyncInv, SyncExchanged
<1> QED
  BY <1>3, <1>4, <1>5, <1>6 DEF SyncInv

(* Whoever has the named lock is alone: nobody else is at a place that says *)
(* anything of the tables.                                                  *)
LEMMA OthersStay ==
    ASSUME SyncInv, NEW p \in Operators, Y!Migrating(p), DOMAIN task' = Operators,
           \A o \in Operators \ {p} : task'[o] = task[o], SyncIsAt(p)'
    PROVE  SyncAt'
<1>1. \A o \in Operators \ {p} : task'[o].at \in {"idle", "start"}
  BY DEF SyncInv, OneSync, Synchronising, Y!Migrating
<1> QED
  BY <1>1 DEF SyncAt, SyncIsAt, AfterSwap

LEMMA LockInv == ASSUME SyncInv, NEW p \in Operators, Y!Lock(p) PROVE SyncInv'
<1>1. /\ task[p].at = "stage" /\ task'[p] = [task[p] EXCEPT !.at = "verify"]
      /\ \A t \in SummaryTables : Y!Stage(task[p].run, t) \in DOMAIN syncDb
      /\ UNCHANGED <<syncDb, catalog, syncBackup, runs, swaps, syncDropped>>
  BY DEF Y!Lock, Y!Goto, Y!At, SyncInv, OneSync, Synchronising
<1>2. DOMAIN task' = Operators /\ \A o \in Operators \ {p} : task'[o] = task[o]
  BY DEF Y!Lock, Y!Goto, Y!At, SyncInv, OneSync, Synchronising, SyncInv, OneSync
<1>3. SyncTypes'
  BY <1>1 DEF SyncInv, SyncTypes, SyncContent
<1>4. OneSync'
  BY <1>1, <1>2 DEF SyncInv, OneSync, Synchronising, Y!Migrating, Y!Idle
<1>5. SyncAt'
  <2>1. SyncIsAt(p)'
    BY <1>1 DEF SyncInv, SyncTypes, SyncAt, SyncIsAt, SyncExchanged, AfterSwap, Y!Idle, Y!Same, Y!Visible, Y!Content
  <2> QED
    BY <1>1, <1>2, <2>1, OthersStay DEF Y!Migrating
<1>6. SyncExchanged'
  BY <1>1 DEF SyncInv, SyncTypes, SyncAt, SyncIsAt, SyncExchanged
<1> QED
  BY <1>3, <1>4, <1>5, <1>6 DEF SyncInv

LEMMA VerifyInv == ASSUME SyncInv, NEW p \in Operators, Y!Verify(p) PROVE SyncInv'
<1>1. /\ task[p].at = "verify" /\ task'[p] = IF Y!Same THEN [task[p] EXCEPT !.at = "rename"] ELSE Y!Idle
      /\ UNCHANGED <<syncDb, catalog, syncBackup, runs, swaps, syncDropped>>
  BY DEF Y!Verify, Y!Goto, Y!At, SyncInv, OneSync, Synchronising
<1>2. DOMAIN task' = Operators /\ \A o \in Operators \ {p} : task'[o] = task[o]
  BY DEF Y!Verify, Y!Goto, Y!At, SyncInv, OneSync, Synchronising, SyncInv, OneSync
<1>3. SyncTypes'
  BY <1>1 DEF SyncInv, SyncTypes, SyncContent
<1>4. OneSync'
  BY <1>1, <1>2 DEF SyncInv, OneSync, Synchronising, Y!Migrating, Y!Idle
<1>5. SyncAt'
  <2>1. SyncIsAt(p)'
    BY <1>1 DEF SyncInv, SyncTypes, SyncAt, SyncIsAt, SyncExchanged, AfterSwap, Y!Idle, Y!Same, Y!Visible, Y!Content
  <2> QED
    BY <1>1, <1>2, <2>1, OthersStay DEF Y!Migrating
<1>6. SyncExchanged'
  BY <1>1 DEF SyncInv, SyncTypes, SyncAt, SyncIsAt, SyncExchanged
<1> QED
  BY <1>3, <1>4, <1>5, <1>6 DEF SyncInv

LEMMA NoteInv == ASSUME SyncInv, NEW p \in Operators, Y!Note(p) PROVE SyncInv'
<1>1. /\ task[p].at = "note" /\ task'[p] = [task[p] EXCEPT !.at = "catalog"]
      /\ UNCHANGED <<syncDb, catalog, syncBackup, runs, swaps, syncDropped>>
  BY DEF Y!Note, Y!Goto, Y!At, SyncInv, OneSync, Synchronising
<1>2. DOMAIN task' = Operators /\ \A o \in Operators \ {p} : task'[o] = task[o]
  BY DEF Y!Note, Y!Goto, Y!At, SyncInv, OneSync, Synchronising, SyncInv, OneSync
<1>3. SyncTypes'
  BY <1>1 DEF SyncInv, SyncTypes, SyncContent
<1>4. OneSync'
  BY <1>1, <1>2 DEF SyncInv, OneSync, Synchronising, Y!Migrating, Y!Idle
<1>5. SyncAt'
  <2>1. SyncIsAt(p)'
    BY <1>1 DEF SyncInv, SyncTypes, SyncAt, SyncIsAt, SyncExchanged, AfterSwap, Y!Idle, Y!Same, Y!Visible, Y!Content
  <2> QED
    BY <1>1, <1>2, <2>1, OthersStay DEF Y!Migrating
<1>6. SyncExchanged'
  BY <1>1 DEF SyncInv, SyncTypes, SyncAt, SyncIsAt, SyncExchanged
<1> QED
  BY <1>3, <1>4, <1>5, <1>6 DEF SyncInv

LEMMA CheckInv == ASSUME SyncInv, NEW p \in Operators, Y!Check(p) PROVE SyncInv'
<1>1. /\ task[p].at = "check"
      /\ task'[p] = IF Y!Visible THEN [task[p] EXCEPT !.at = "drop"] ELSE Y!Idle
      /\ UNCHANGED <<syncDb, catalog, syncBackup, runs, swaps, syncDropped>>
  BY DEF Y!Check, Y!Goto, Y!At, SyncInv, OneSync, Synchronising
<1>2. DOMAIN task' = Operators /\ \A o \in Operators \ {p} : task'[o] = task[o]
  BY DEF Y!Check, Y!Goto, Y!At, SyncInv, OneSync, Synchronising, SyncInv, OneSync
<1>3. SyncTypes'
  BY <1>1 DEF SyncInv, SyncTypes, SyncContent
<1>4. OneSync'
  BY <1>1, <1>2 DEF SyncInv, OneSync, Synchronising, Y!Migrating, Y!Idle
<1>5. SyncAt'
  <2>1. SyncIsAt(p)'
    BY <1>1 DEF SyncInv, SyncTypes, SyncAt, SyncIsAt, SyncExchanged, AfterSwap, Y!Idle, Y!Same, Y!Visible, Y!Content
  <2> QED
    BY <1>1, <1>2, <2>1, OthersStay DEF Y!Migrating
<1>6. SyncExchanged'
  BY <1>1 DEF SyncInv, SyncTypes, SyncAt, SyncIsAt, SyncExchanged
<1> QED
  BY <1>3, <1>4, <1>5, <1>6 DEF SyncInv

LEMMA PublishInv == ASSUME SyncInv, NEW p \in Operators, Y!Publish(p) PROVE SyncInv'
<1>1. /\ task[p].at = "publish" /\ task'[p] = Y!Idle
      /\ UNCHANGED <<syncDb, catalog, syncBackup, runs, swaps, syncDropped>>
  BY DEF Y!Publish, Y!Goto, Y!At, SyncInv, OneSync, Synchronising
<1>2. DOMAIN task' = Operators /\ \A o \in Operators \ {p} : task'[o] = task[o]
  BY DEF Y!Publish, Y!Goto, Y!At, SyncInv, OneSync, Synchronising, SyncInv, OneSync
<1>3. SyncTypes'
  BY <1>1 DEF SyncInv, SyncTypes, SyncContent
<1>4. OneSync'
  BY <1>1, <1>2 DEF SyncInv, OneSync, Synchronising, Y!Migrating, Y!Idle
<1>5. SyncAt'
  <2>1. SyncIsAt(p)'
    BY <1>1 DEF SyncInv, SyncTypes, SyncAt, SyncIsAt, SyncExchanged, AfterSwap, Y!Idle, Y!Same, Y!Visible, Y!Content
  <2> QED
    BY <1>1, <1>2, <2>1, OthersStay DEF Y!Migrating
<1>6. SyncExchanged'
  BY <1>1 DEF SyncInv, SyncTypes, SyncAt, SyncIsAt, SyncExchanged
<1> QED
  BY <1>3, <1>4, <1>5, <1>6 DEF SyncInv

LEMMA SnapshotInv == ASSUME SyncInv, NEW p \in Operators, Y!Snapshot(p) PROVE SyncInv'
<1> DEFINE now == [t \in SummaryTables |-> syncDb[Y!Main(t)]]
<1>1. /\ task[p].at = "backup" /\ task'[p] = [at |-> "saved", run |-> task[p].run, seen |-> now]
      /\ UNCHANGED <<syncDb, catalog, syncBackup, runs, swaps, syncDropped>>
  BY DEF Y!Snapshot, Y!Goto, Y!At, SyncInv, OneSync, Synchronising
<1>2. DOMAIN task' = Operators /\ \A o \in Operators \ {p} : task'[o] = task[o]
  BY DEF Y!Snapshot, SyncInv, OneSync
<1>3. SyncTypes'
  BY <1>1 DEF SyncInv, SyncTypes, SyncContent
<1>4. OneSync'
  BY <1>1, <1>2 DEF SyncInv, OneSync, Synchronising, Y!Migrating
<1>5. now \in [SummaryTables -> [columns : {"old"}, extra : Nat]]
  <2> SUFFICES ASSUME NEW t \in SummaryTables
               PROVE  syncDb[Y!Main(t)] \in [columns : {"old"}, extra : Nat]
    OBVIOUS
  <2>1. syncBackup = None /\ swaps = 0
    BY <1>1 DEF SyncInv, SyncAt, SyncIsAt, SyncTypes, SyncExchanged
  <2>2. syncDb[Y!Main(t)] \in SyncContent /\ syncDb[Y!Main(t)].columns = "old"
    BY <2>1 DEF SyncInv, SyncTypes, SyncExchanged
  <2> QED
    BY <2>2 DEF SyncContent
<1> HIDE DEF now
<1>6. SyncAt'
  <2>1. SyncIsAt(p)'
    BY <1>1, <1>5 DEF SyncInv, SyncAt, SyncIsAt, AfterSwap
  <2> QED
    BY <1>1, <1>2, <2>1, OthersStay DEF Y!Migrating
<1>7. SyncExchanged'
  BY <1>1 DEF SyncInv, SyncExchanged
<1> QED
  BY <1>3, <1>4, <1>6, <1>7 DEF SyncInv

(* What is saved is old, and is a backup.                                   *)
LEMMA EndSyncBackupInv == ASSUME SyncInv, NEW p \in Operators, Y!EndBackup(p) PROVE SyncInv'
<1>1. /\ task[p].at = "saved" /\ task'[p] = [at |-> "stage", run |-> task[p].run]
      /\ syncBackup' = task[p].seen /\ UNCHANGED <<syncDb, catalog, runs, swaps, syncDropped>>
  BY DEF Y!EndBackup, Y!Goto, Y!At, SyncInv, OneSync, Synchronising
<1>2. DOMAIN task' = Operators /\ \A o \in Operators \ {p} : task'[o] = task[o]
  BY DEF Y!EndBackup, SyncInv, OneSync
<1>3. /\ syncBackup' \in [SummaryTables -> [columns : {"old"}, extra : Nat]] /\ syncBackup' # None
      /\ swaps = 0
  BY <1>1, InputsAssumption
     DEF InputsAssumption, Y!SyncAssumption, SyncInv, SyncAt, SyncIsAt, SyncTypes, SyncExchanged
<1>4. SyncTypes'
  BY <1>1, <1>3 DEF SyncInv, SyncTypes, SyncContent
<1>5. OneSync'
  BY <1>1, <1>2 DEF SyncInv, OneSync, Synchronising, Y!Migrating
<1>6. SyncAt'
  <2>1. \A t \in SummaryTables :
          /\ Y!Stage(task[p].run, t) \in DOMAIN syncDb => syncDb[Y!Stage(task[p].run, t)].columns = "new"
          /\ Y!Prior(task[p].run, t) \notin DOMAIN syncDb
    BY <1>1 DEF SyncInv, SyncAt, SyncIsAt
  <2>2. SyncIsAt(p)'
    BY <1>1, <1>3, <2>1 DEF SyncIsAt, AfterSwap
  <2> QED
    BY <1>1, <1>2, <2>2, OthersStay DEF Y!Migrating
<1>7. SyncExchanged'
  BY <1>1, <1>3 DEF SyncInv, SyncExchanged
<1> QED
  BY <1>4, <1>5, <1>6, <1>7 DEF SyncInv

(* A new run has a name nobody has used.                                    *)
LEMMA GetLockInv == ASSUME SyncInv, NEW p \in Operators, Y!GetLock(p) PROVE SyncInv'
<1>1. /\ task[p].at = "start" /\ \A o \in Operators : ~Y!Migrating(o)
      /\ task'[p] = [at |-> IF syncBackup = None THEN "backup" ELSE "stage", run |-> runs + 1]
      /\ runs' = runs + 1 /\ UNCHANGED <<syncDb, catalog, syncBackup, swaps, syncDropped>>
  BY DEF Y!GetLock, Y!Goto, Y!At, SyncInv, OneSync, Synchronising
<1>2. DOMAIN task' = Operators /\ \A o \in Operators \ {p} : task'[o] = task[o]
  BY DEF Y!GetLock, SyncInv, OneSync
<1>3. runs \in Nat /\ 1 .. runs \subseteq 1 .. runs' /\ runs + 1 \in 1 .. runs'
  BY <1>1 DEF SyncInv, SyncTypes
<1>4. \A t \in SummaryTables :
        Y!Stage(runs + 1, t) \notin DOMAIN syncDb /\ Y!Prior(runs + 1, t) \notin DOMAIN syncDb
  <2>1. \A n \in DOMAIN syncDb : n[1] \in {"stage", "prior"} => n[2] # runs + 1
    BY <1>3 DEF SyncInv, SyncTypes, Y!Main, Y!Stage, Y!Prior
  <2> QED
    BY <2>1 DEF Y!Stage, Y!Prior
<1>5. SyncTypes'
  BY <1>1, <1>3 DEF SyncInv, SyncTypes, SyncContent
<1>6. OneSync'
  BY <1>1, <1>2, <1>3 DEF SyncInv, OneSync, Synchronising, Y!Migrating
<1>7. SyncAt'
  <2>1. SyncIsAt(p)'
    BY <1>1, <1>4 DEF SyncIsAt, AfterSwap
  <2>2. \A o \in Operators \ {p} : task'[o].at \in {"idle", "start"}
    BY <1>1, <1>2 DEF SyncInv, OneSync, Synchronising, Y!Migrating
  <2> QED
    BY <2>1, <2>2 DEF SyncAt, SyncIsAt, AfterSwap
<1>8. SyncExchanged'
  <2>1. \A r \in 1 .. runs' : r \in 1 .. runs \/ r = runs + 1
    BY <1>1, <1>3
  <2> QED
    BY <1>1, <1>3, <1>4, <2>1 DEF SyncInv, SyncExchanged
<1> QED
  BY <1>5, <1>6, <1>7, <1>8 DEF SyncInv

----
\* Steps that change the tables.

LEMMA CreateSyncStageInv == ASSUME SyncInv, NEW p \in Operators, Y!CreateStage(p) PROVE SyncInv'
<1>1. PICK t \in SummaryTables, made \in {"new", "garbled"} :
        /\ task[p].at = "stage" /\ Y!Stage(task[p].run, t) \notin DOMAIN syncDb
        /\ syncDb' = Y!Put(syncDb, Y!Stage(task[p].run, t), Y!Content(made))
        /\ task' = IF made = "new" THEN task ELSE [task EXCEPT ![p] = Y!Idle]
        /\ UNCHANGED <<catalog, syncBackup, runs, swaps, syncDropped>>
  BY DEF Y!CreateStage, Y!At
<1> DEFINE new == Y!Stage(task[p].run, t)
<1>2. DOMAIN task' = Operators /\ \A o \in Operators \ {p} : task'[o] = task[o]
  BY <1>1 DEF SyncInv, OneSync
<1>3. task'[p] = IF made = "new" THEN task[p] ELSE Y!Idle
  BY <1>1 DEF SyncInv, OneSync
<1>4. /\ DOMAIN syncDb' = DOMAIN syncDb \cup {new} /\ syncDb'[new] = Y!Content(made)
      /\ \A n \in DOMAIN syncDb : syncDb'[n] = syncDb[n]
  BY <1>1 DEF Y!Put
<1>5. /\ \A u \in SummaryTables : new # Y!Main(u)
      /\ \A u \in SummaryTables : \A r \in 1 .. runs : new # Y!Prior(r, u)
      /\ task[p].run \in 1 .. runs
  BY <1>1 DEF Y!Main, Y!Stage, Y!Prior, SyncInv, OneSync, Synchronising
<1> HIDE DEF new
<1>6. SyncTypes'
  <2>1. Y!Content(made) \in SyncContent
    BY DEF Y!Content, SyncContent
  <2>2. new = Y!Stage(task[p].run, t)
    BY DEF new
  <2> QED
    BY <1>1, <1>4, <1>5, <2>1, <2>2 DEF SyncInv, SyncTypes, SyncContent
<1>7. OneSync'
  BY <1>1, <1>2, <1>3 DEF SyncInv, OneSync, Synchronising, Y!Migrating, Y!Idle
<1>8. SyncAt'
  <2>1. SyncIsAt(p)'
    BY <1>1, <1>3, <1>4, <1>5 DEF SyncInv, SyncTypes, SyncAt, SyncIsAt, AfterSwap, Y!Idle, Y!Content
  <2> QED
    BY <1>1, <1>2, <2>1, OthersStay DEF Y!Migrating
<1>9. SyncExchanged'
  BY <1>1, <1>4, <1>5 DEF SyncInv, SyncTypes, SyncExchanged
<1> QED
  BY <1>6, <1>7, <1>8, <1>9 DEF SyncInv

(* The old tables become the prior ones, the staged ones take their place.  *)
LEMMA RenameInv == ASSUME SyncInv, NEW p \in Operators, Y!Rename(p) PROVE SyncInv'
<1> DEFINE r == task[p].run
           stages == {Y!Stage(r, t) : t \in SummaryTables}
           prior == {Y!Prior(r, t) : t \in SummaryTables}
<1>1. /\ task[p].at = "rename" /\ task'[p] = [task[p] EXCEPT !.at = "note"] /\ swaps' = swaps + 1
      /\ syncDb' = [n \in (DOMAIN syncDb \ stages) \cup prior |->
                      CASE n[1] = "main" -> syncDb[Y!Stage(r, n[3])]
                        [] n[1] = "prior" /\ n[2] = r -> syncDb[Y!Main(n[3])]
                        [] OTHER -> syncDb[n]]
      /\ UNCHANGED <<catalog, syncBackup, runs, syncDropped>>
  BY DEF Y!Rename, Y!Goto, Y!At, SyncInv, OneSync, Synchronising
<1>2. DOMAIN task' = Operators /\ \A o \in Operators \ {p} : task'[o] = task[o]
  BY DEF Y!Rename, Y!Goto, SyncInv, OneSync
<1>3. /\ r \in 1 .. runs /\ syncBackup # None
      /\ \A t \in SummaryTables :
            /\ Y!Stage(r, t) \in DOMAIN syncDb /\ syncDb[Y!Stage(r, t)].columns = "new"
            /\ syncDb[Y!Stage(r, t)] \in SyncContent /\ syncDb[Y!Main(t)] \in SyncContent
            /\ syncDb[Y!Main(t)] = syncBackup[t] /\ Y!Prior(r, t) \notin DOMAIN syncDb
            /\ Y!Main(t) \in DOMAIN syncDb
  BY <1>1 DEF SyncInv, SyncTypes, OneSync, SyncAt, SyncIsAt, Synchronising, Y!Same
<1>4. PICK t0 \in SummaryTables : TRUE
  BY InputsAssumption DEF InputsAssumption, Y!SyncAssumption
<1>5. swaps = 0
  <2>1. syncBackup[t0].columns = "old"
    BY <1>3 DEF SyncInv, SyncTypes
  <2>2. syncDb[Y!Main(t0)].columns = "old"
    BY <1>3, <2>1
  <2> QED
    BY <2>2 DEF SyncInv, SyncTypes, SyncExchanged
<1>6. \A t \in SummaryTables :
        /\ Y!Main(t) \in DOMAIN syncDb' /\ syncDb'[Y!Main(t)] = syncDb[Y!Stage(r, t)]
        /\ Y!Prior(r, t) \in DOMAIN syncDb' /\ syncDb'[Y!Prior(r, t)] = syncDb[Y!Main(t)]
  BY <1>1, <1>3 DEF Y!Main, Y!Stage, Y!Prior
<1>7. \A q \in 1 .. runs : \A t \in SummaryTables :
        /\ q # r => Y!Prior(q, t) \notin DOMAIN syncDb'
        /\ Y!Stage(q, t) \in DOMAIN syncDb' =>
              Y!Stage(q, t) \in DOMAIN syncDb /\ syncDb'[Y!Stage(q, t)] = syncDb[Y!Stage(q, t)]
  BY <1>1, <1>5 DEF Y!Main, Y!Stage, Y!Prior, SyncInv, SyncExchanged
<1>8. \A n \in DOMAIN syncDb' : n \in DOMAIN syncDb \/ n \in prior
  BY <1>1
<1> HIDE DEF r
<1>9. SyncTypes'
  <2>1. \A n \in DOMAIN syncDb' :
           \/ n \in {Y!Main(t) : t \in SummaryTables}
           \/ \E q \in 1 .. runs, t \in SummaryTables : n \in {Y!Stage(q, t), Y!Prior(q, t)}
    <3>1. \A n \in DOMAIN syncDb :
             \/ n \in {Y!Main(t) : t \in SummaryTables}
             \/ \E q \in 1 .. runs, t \in SummaryTables : n \in {Y!Stage(q, t), Y!Prior(q, t)}
      BY DEF SyncInv, SyncTypes
    <3>2. \A n \in prior : \E q \in 1 .. runs, t \in SummaryTables : n \in {Y!Stage(q, t), Y!Prior(q, t)}
      BY <1>3
    <3> QED
      BY <1>8, <3>1, <3>2, Zenon
  <2>2. \A n \in DOMAIN syncDb' : syncDb'[n] \in SyncContent
    <3> SUFFICES ASSUME NEW n \in DOMAIN syncDb' PROVE syncDb'[n] \in SyncContent
      OBVIOUS
    <3>1. CASE \E t \in SummaryTables : n \in {Y!Main(t), Y!Prior(r, t)}
      BY <1>3, <1>6, <3>1
    <3>2. ASSUME NEW q \in 1 .. runs, NEW t \in SummaryTables, n \in {Y!Stage(q, t), Y!Prior(q, t)}
          PROVE  syncDb'[n] \in SyncContent
      BY <1>3, <1>6, <1>7, <3>2 DEF SyncInv, SyncTypes
    <3> QED
      BY <2>1, <3>1, <3>2
  <2> QED
    <3>1. /\ syncBackup' = syncBackup /\ catalog' = catalog /\ runs' = runs /\ swaps' = 1
      BY <1>1, <1>5 DEF Y!Rename
    <3>4. \A t \in SummaryTables : Y!Main(t) \in DOMAIN syncDb'
      BY <1>6
    <3>2. /\ syncBackup # None => syncBackup \in [SummaryTables -> [columns : {"old"}, extra : Nat]]
          /\ catalog \in [SummaryTables -> [columns : {"old", "new"}, managed : BOOLEAN]]
          /\ runs \in Nat
      BY DEF SyncInv, SyncTypes
    <3>3. SyncContent' = SyncContent
      BY DEF SyncContent
    <3> QED
      BY <2>1, <2>2, <3>1, <3>2, <3>3, <3>4, Zenon DEF SyncTypes
<1> HIDE DEF stages, prior
<1>10. OneSync'
  BY <1>1, <1>2, <1>3 DEF SyncInv, OneSync, Synchronising, Y!Migrating, r
<1>11. SyncAt'
  <2>1. task'[p].at = "note" /\ task'[p].run = r /\ swaps' = 1 /\ syncBackup' # None
    BY <1>1, <1>3, <1>5 DEF r, SyncInv, OneSync, Synchronising
  <2>2. SyncIsAt(p)'
    BY <1>6, <2>1 DEF SyncIsAt, AfterSwap
  <2> QED
    BY <1>1, <1>2, <2>2, OthersStay DEF Y!Migrating
<1>12. SyncExchanged'
  <2>1. swaps' = 1 /\ runs' = runs /\ syncBackup' = syncBackup /\ syncBackup' # None
    BY <1>1, <1>3, <1>5
  <2>2. \A t \in SummaryTables : syncDb'[Y!Main(t)].columns = "new"
    BY <1>3, <1>6
  <2>3. \E q \in 1 .. runs' : \A t \in SummaryTables : Y!Prior(q, t) \in DOMAIN syncDb'
    BY <1>3, <1>6, <2>1
  <2>4. \A q \in 1 .. runs', t \in SummaryTables :
          Y!Prior(q, t) \in DOMAIN syncDb' => syncDb'[Y!Prior(q, t)] = syncBackup'[t]
    BY <1>3, <1>6, <1>7, <2>1
  <2>5. \A d \in syncDropped' : d.table \in SummaryTables /\ syncBackup'[d.table] = d.content
    BY <1>1 DEF SyncInv, SyncExchanged
  <2> QED
    BY <2>1, <2>2, <2>3, <2>4, <2>5 DEF SyncExchanged
<1> QED
  BY <1>9, <1>10, <1>11, <1>12 DEF SyncInv

LEMMA RefreshCatalogInv == ASSUME SyncInv, NEW p \in Operators, Y!RefreshCatalog(p) PROVE SyncInv'
<1>1. /\ task[p].at = "catalog" /\ UNCHANGED <<syncDb, syncBackup, runs, swaps, syncDropped>>
      /\ \/ task'[p] = Y!Idle /\ catalog' = catalog
         \/ /\ catalog' = [t \in SummaryTables |->
                             [catalog[t] EXCEPT !.columns = syncDb[Y!Main(t)].columns]]
            /\ task'[p] = [task[p] EXCEPT !.at = "check"]
  BY DEF Y!RefreshCatalog, Y!Goto, Y!At, SyncInv, OneSync, Synchronising
<1>2. DOMAIN task' = Operators /\ \A o \in Operators \ {p} : task'[o] = task[o]
  BY DEF Y!RefreshCatalog, Y!Goto, SyncInv, OneSync
<1>3. /\ catalog' \in [SummaryTables -> [columns : {"old", "new"}, managed : BOOLEAN]]
      /\ catalog' # catalog => \A t \in SummaryTables : catalog'[t].columns = "new"
  <2>1. swaps = 1 /\ \A t \in SummaryTables : syncDb[Y!Main(t)].columns = "new"
    BY <1>1 DEF SyncInv, SyncAt, SyncIsAt, AfterSwap, SyncExchanged
  <2>2. \A t \in SummaryTables : catalog[t] \in [columns : {"old", "new"}, managed : BOOLEAN]
    BY DEF SyncInv, SyncTypes
  <2>3. \A t \in SummaryTables :
          /\ [catalog[t] EXCEPT !.columns = "new"] \in [columns : {"old", "new"}, managed : BOOLEAN]
          /\ [catalog[t] EXCEPT !.columns = "new"].columns = "new"
    BY <2>2
  <2>4. CASE catalog' = catalog
    BY <2>4 DEF SyncInv, SyncTypes
  <2>5. CASE catalog' = [t \in SummaryTables |-> [catalog[t] EXCEPT !.columns = "new"]]
    BY <2>3, <2>5
  <2> QED
    BY <1>1, <2>1, <2>4, <2>5
<1>4. SyncTypes'
  BY <1>1, <1>3 DEF SyncInv, SyncTypes, SyncContent
<1>5. OneSync'
  BY <1>1, <1>2 DEF SyncInv, OneSync, Synchronising, Y!Migrating, Y!Idle
<1>6. SyncAt'
  <2>1. task'[p].at = "idle" \/ (task'[p].at = "check" /\ task'[p].run = task[p].run)
    BY <1>1 DEF Y!Idle, SyncInv, OneSync, Synchronising
  <2>2. SyncIsAt(p)'
    BY <1>1, <2>1 DEF SyncInv, SyncAt, SyncIsAt, AfterSwap
  <2> QED
    BY <1>1, <1>2, <2>2, OthersStay DEF Y!Migrating
<1>7. SyncExchanged'
  BY <1>1, <1>3 DEF SyncInv, SyncAt, SyncIsAt, AfterSwap, SyncExchanged
<1> QED
  BY <1>4, <1>5, <1>6, <1>7 DEF SyncInv

LEMMA DropInv == ASSUME SyncInv, NEW p \in Operators, Y!Drop(p) PROVE SyncInv'
<1> DEFINE r == task[p].run
           old == {Y!Prior(r, t) : t \in SummaryTables}
<1>1. /\ task[p].at = "drop" /\ task'[p] = [task[p] EXCEPT !.at = "publish"]
      /\ syncDb' = Y!Restrict(syncDb, DOMAIN syncDb \ old)
      /\ syncDropped' = syncDropped \cup {[table |-> n[3], content |-> syncDb[n]] : n \in old}
      /\ UNCHANGED <<catalog, syncBackup, runs, swaps>>
  BY DEF Y!Drop, Y!Goto, Y!At, SyncInv, OneSync, Synchronising
<1>2. DOMAIN task' = Operators /\ \A o \in Operators \ {p} : task'[o] = task[o]
  BY DEF Y!Drop, Y!Goto, SyncInv, OneSync
<1>3. /\ r \in 1 .. runs /\ swaps = 1 /\ syncBackup # None
      /\ \A t \in SummaryTables : Y!Prior(r, t) \in DOMAIN syncDb /\ catalog[t].columns = "new"
  BY <1>1 DEF SyncInv, OneSync, SyncAt, SyncIsAt, Synchronising, AfterSwap
<1>4. /\ DOMAIN syncDb' \subseteq DOMAIN syncDb /\ \A n \in DOMAIN syncDb' : syncDb'[n] = syncDb[n]
      /\ \A t \in SummaryTables : Y!Main(t) \notin old
  BY <1>1 DEF Y!Restrict, Y!Main, Y!Prior
<1>5. \A t \in SummaryTables : Y!Main(t) \in DOMAIN syncDb'
  BY <1>1, <1>4 DEF Y!Restrict, SyncInv, SyncTypes
<1>6. \A d \in syncDropped' : d.table \in SummaryTables /\ syncBackup[d.table] = d.content
  <2> SUFFICES ASSUME NEW t \in SummaryTables
               PROVE  Y!Prior(r, t)[3] = t /\ syncDb[Y!Prior(r, t)] = syncBackup[t]
    BY <1>1 DEF SyncInv, SyncExchanged
  <2> QED
    BY <1>3 DEF Y!Prior, SyncInv, SyncExchanged
<1> HIDE DEF r, old
<1>7. SyncTypes'
  BY <1>1, <1>4, <1>5 DEF SyncInv, SyncTypes, SyncContent
<1>8. OneSync'
  BY <1>1, <1>2 DEF SyncInv, OneSync, Synchronising, Y!Migrating
<1>9. SyncAt'
  <2>1. SyncIsAt(p)'
    BY <1>1, <1>3 DEF SyncIsAt, AfterSwap
  <2> QED
    BY <1>1, <1>2, <2>1, OthersStay DEF Y!Migrating
<1>10. SyncExchanged'
  <2>1. swaps' = 1 /\ runs' = runs /\ syncBackup' = syncBackup /\ syncBackup' # None
        /\ \A t \in SummaryTables : catalog'[t].columns = "new"
    BY <1>1, <1>3
  <2>2. \A t \in SummaryTables : syncDb'[Y!Main(t)].columns = "new"
    BY <1>3, <1>4, <1>5 DEF SyncInv, SyncExchanged
  <2>3. \A q \in 1 .. runs', t \in SummaryTables :
          Y!Prior(q, t) \in DOMAIN syncDb' => syncDb'[Y!Prior(q, t)] = syncBackup'[t]
    BY <1>4, <2>1 DEF SyncInv, SyncExchanged
  <2> QED
    BY <1>6, <2>1, <2>2, <2>3 DEF SyncExchanged
<1> QED
  BY <1>7, <1>8, <1>9, <1>10 DEF SyncInv

(* Others write while no tables are locked.                                 *)
LEMMA OtherWriteInv == ASSUME SyncInv, NEW t \in SummaryTables, Y!Write(t) \/ Y!Manage(t) PROVE SyncInv'
<1>1. /\ \A p \in Operators : task[p].at \notin {"verify", "rename", "note", "catalog"}
      /\ UNCHANGED <<syncBackup, task, runs, swaps, syncDropped>>
      /\ \/ syncDb' = [syncDb EXCEPT ![Y!Main(t)].extra = @ + 1] /\ catalog' = catalog
         \/ catalog' = [catalog EXCEPT ![t].managed = ~@] /\ syncDb' = syncDb
  BY DEF Y!Write, Y!Manage, Y!Locked
<1>2. /\ DOMAIN syncDb' = DOMAIN syncDb /\ Y!Main(t) \in DOMAIN syncDb
      /\ \A n \in DOMAIN syncDb : syncDb'[n].columns = syncDb[n].columns /\ syncDb'[n] \in SyncContent
      /\ \A n \in DOMAIN syncDb \ {Y!Main(t)} : syncDb'[n] = syncDb[n]
  <2>1. Y!Main(t) \in DOMAIN syncDb /\ \A n \in DOMAIN syncDb : syncDb[n] \in SyncContent
    BY DEF SyncInv, SyncTypes
  <2> DEFINE more == [syncDb[Y!Main(t)] EXCEPT !.extra = @ + 1]
  <2>2. more.columns = syncDb[Y!Main(t)].columns /\ more \in SyncContent
    BY <2>1 DEF SyncContent
  <2> HIDE DEF more
  <2>3. syncDb' = syncDb \/ syncDb' = [syncDb EXCEPT ![Y!Main(t)] = more]
    BY <1>1 DEF more
  <2> QED
    BY <2>1, <2>2, <2>3
<1>3. /\ catalog' \in [SummaryTables -> [columns : {"old", "new"}, managed : BOOLEAN]]
      /\ \A u \in SummaryTables : catalog'[u].columns = catalog[u].columns
  <2> DEFINE Entry == [columns : {"old", "new"}, managed : BOOLEAN]
             flipped == [catalog[t] EXCEPT !.managed = ~@]
  <2>1. catalog \in [SummaryTables -> Entry]
    BY DEF SyncInv, SyncTypes
  <2>2. flipped \in Entry /\ flipped.columns = catalog[t].columns
    <3>1. catalog[t] \in Entry
      BY <2>1
    <3> QED
      BY <3>1
  <2>3. catalog' = catalog \/ catalog' = [catalog EXCEPT ![t] = flipped]
    BY <1>1
  <2> HIDE DEF flipped
  <2> QED
    BY <2>1, <2>2, <2>3
<1>4. \A r \in 1 .. runs, u \in SummaryTables : Y!Main(t) # Y!Prior(r, u) /\ Y!Main(t) # Y!Stage(r, u)
  BY DEF Y!Main, Y!Prior, Y!Stage
<1>5. SyncTypes'
  BY <1>1, <1>2, <1>3 DEF SyncInv, SyncTypes
<1>6. OneSync'
  BY <1>1 DEF SyncInv, OneSync, Y!Migrating
<1>7. SyncAt'
  BY <1>1, <1>2, <1>3 DEF SyncInv, SyncAt, SyncIsAt, AfterSwap
<1>8. SyncExchanged'
  BY <1>1, <1>2, <1>3, <1>4 DEF SyncInv, SyncTypes, SyncExchanged
<1> QED
  BY <1>5, <1>6, <1>7, <1>8 DEF SyncInv

LEMMA SyncNext == ASSUME SyncInv, [Y!Next]_syncVars PROVE SyncInv'
<1>1. CASE UNCHANGED syncVars
  <2> USE <1>1 DEF syncVars, SyncInv
  <2>1. SyncTypes' /\ OneSync' /\ SyncExchanged'
    BY DEF SyncTypes, OneSync, SyncExchanged, Y!Migrating
  <2>2. SyncAt'
    BY DEF SyncAt, SyncIsAt, Y!Same
  <2> QED
    BY <2>1, <2>2
<1> QED
  BY <1>1, BreakInv, LockInv, VerifyInv, NoteInv, CheckInv, PublishInv, SnapshotInv, EndSyncBackupInv,
     GetLockInv, CreateSyncStageInv, RenameInv, RefreshCatalogInv, DropInv, OtherWriteInv DEF Y!Next

LEMMA SyncIsSound == ASSUME SyncInv PROVE Y!SwappedOnce /\ Y!DroppedIsBackedUp /\ Y!HalfDoneKeepsPrior
<1>1. Y!SwappedOnce
  BY DEF SyncInv, SyncTypes, Y!SwappedOnce
<1>2. Y!DroppedIsBackedUp
  BY DEF SyncInv, SyncExchanged, Y!DroppedIsBackedUp
<1>3. Y!HalfDoneKeepsPrior
  BY DEF SyncInv, SyncTypes, SyncExchanged, Y!HalfDoneKeepsPrior
<1> QED
  BY <1>1, <1>2, <1>3

----
(* DatasetRefresh: the markers say what the tables hold, and what is locked  *)
(* cannot change until it is dropped.                                        *)

\* The tables were exchanged, or not.
Fresh == F!Source \subseteq DOMAIN db /\ (F!Final \cup F!Before) \cap DOMAIN db = {}
Replaced ==
    /\ F!Final \subseteq DOMAIN db /\ (F!Source \cup F!Stage) \cap DOMAIN db = {}
    /\ \A n \in F!Final : db[n] = Rows

\* What is in the markers: a table that reads back stays as it is.
Marked ==
    /\ DOMAIN db \subseteq F!Source \cup F!Stage \cup F!Before \cup F!Final \cup F!Other
    /\ backup = None => staged = <<>> /\ DOMAIN db = F!Source \cup F!Other /\ dropped = {}
    /\ backup # None => DOMAIN backup = F!Source \cup F!Other
    /\ DOMAIN staged \subseteq BusinessTables
    /\ \A t \in DOMAIN staged :
          /\ staged[t] = Rows
          /\ Fresh => <<"stage", t>> \in DOMAIN db /\ db[<<"stage", t>>] = Rows
    /\ \A t \in BusinessTables : <<"before", t>> \in DOMAIN db =>
          F!Cardinality(db[<<"before", t>>]) = F!Cardinality(backup[<<"source", t>>])

\* What was saved under the lock is still there, or was dropped.
LockedIsSaved(c) ==
    \A n \in F!Other \cap c.locked \cap DOMAIN db : [name |-> n, rows |-> db[n]] \in saved

CommandIsAt ==
    LET place == command.at IN
    /\ place \in {"idle", "backup", "tables", "create", "load", "lock", "save", "swap", "drop"}
    /\ place \notin {"idle", "backup"} => backup # None
    /\ place = "backup" => backup = None /\ DOMAIN command.seen = F!Source \cup F!Other
    /\ place \in {"tables", "create", "load"} => Fresh /\ command.left \subseteq BusinessTables
    /\ place \in {"create", "load"} => command.table \in BusinessTables \ DOMAIN staged
    /\ place = "load" => <<"stage", command.table>> \in DOMAIN db
    /\ place \in {"lock", "save", "swap"} => DOMAIN staged = BusinessTables
    /\ place \in {"save", "swap"} => command.names \subseteq DOMAIN db /\ command.locked = command.names
    /\ place \in {"swap", "drop"} => LockedIsSaved(command)
    /\ place = "drop" => command.names \subseteq DOMAIN db \cap (F!Other \cup F!Before)

DroppedSaved ==
    \A d \in dropped :
        /\ d.name \in F!Other \cup F!Before
        /\ IF d.name \in F!Other THEN d \in saved
           ELSE F!Cardinality(d.rows) = F!Cardinality(backup[<<"source", d.name[2]>>])

RefreshInv == (Fresh \/ Replaced) /\ Marked /\ CommandIsAt /\ DroppedSaved


LEMMA NamesDiffer ==
    /\ F!Source \cap F!Stage = {} /\ F!Source \cap F!Before = {} /\ F!Source \cap F!Final = {}
    /\ F!Source \cap F!Other = {} /\ F!Stage \cap F!Before = {} /\ F!Stage \cap F!Final = {}
    /\ F!Stage \cap F!Other = {} /\ F!Before \cap F!Final = {} /\ F!Before \cap F!Other = {}
    /\ F!Final \cap F!Other = {}
BY DEF F!Source, F!Stage, F!Before, F!Final, F!Other, F!Names

LEMMA NamesOf ==
    ASSUME NEW t \in BusinessTables
    PROVE  /\ <<"source", t>> \in F!Source /\ <<"stage", t>> \in F!Stage
           /\ <<"before", t>> \in F!Before /\ <<"final", t>> \in F!Final
BY DEF F!Source, F!Stage, F!Before, F!Final, F!Names

\* With nothing but the old tables there.
LEMMA NothingMarked ==
    ASSUME DOMAIN db = F!Source \cup F!Other, staged = <<>>, dropped = {},
           backup # None => DOMAIN backup = F!Source \cup F!Other
    PROVE  Marked
<1>1. DOMAIN staged = {}
  OBVIOUS
<1>2. \A t \in BusinessTables : <<"before", t>> \notin DOMAIN db
  BY NamesOf, NamesDiffer
<1> QED
  BY <1>1, <1>2 DEF Marked

LEMMA RefreshInit == F!Init => RefreshInv
<1> SUFFICES ASSUME F!Init PROVE RefreshInv
  OBVIOUS
<1> USE NamesDiffer, NamesOf DEF F!Init
<1>1. Fresh
  BY DEF Fresh
<1>2. Marked
  BY NothingMarked
<1>3. CommandIsAt /\ DroppedSaved
  BY DEF CommandIsAt, DroppedSaved, F!Idle
<1> QED
  BY <1>1, <1>2, <1>3 DEF RefreshInv

----
(* Steps that leave the tables and what is saved as they are.               *)
LEMMA QuietRefresh ==
    ASSUME RefreshInv, UNCHANGED <<db, backup, staged, saved, dropped>>, CommandIsAt'
    PROVE  RefreshInv'
<1>1. (Fresh \/ Replaced)' /\ DroppedSaved'
  BY DEF RefreshInv, Fresh, Replaced, DroppedSaved
<1>2. Marked'
  BY DEF RefreshInv, Marked, Fresh
<1> QED
  BY <1>1, <1>2 DEF RefreshInv

LEMMA QuietInv ==
    ASSUME RefreshInv,
           \/ F!Snapshot \/ F!Install \/ F!BeginStage \/ F!Skip \/ F!EndStage
           \/ F!BeginPublish \/ F!Lock \/ F!EndPublish \/ F!Break \/ F!Edit
    PROVE  RefreshInv'
<1> USE DEF RefreshInv, CommandIsAt
<1>1. CASE F!Install \/ F!Edit
  <2>1. CommandIsAt'
    BY <1>1 DEF F!Install, F!Edit, Fresh, LockedIsSaved
  <2> QED
    BY <1>1, <2>1, QuietRefresh DEF F!Install, F!Edit
<1>2. CASE F!EndStage \/ F!EndPublish \/ F!Break
  <2>1. CommandIsAt'
    BY <1>2 DEF F!EndStage, F!EndPublish, F!Break, F!Idle
  <2> QED
    BY <1>2, <2>1, QuietRefresh DEF F!EndStage, F!EndPublish, F!Break
<1>3. CASE F!Snapshot
  <2>1. CommandIsAt'
    BY <1>3 DEF F!Snapshot, Marked
  <2> QED
    BY <1>3, <2>1, QuietRefresh DEF F!Snapshot
<1>4. CASE F!BeginStage
  <2>1. Fresh
    BY <1>4, NamesDiffer DEF F!BeginStage, F!Prerequisites, F!Original, F!Present, Fresh, Replaced, Marked
  <2>2. CommandIsAt'
    BY <1>4, <2>1 DEF F!BeginStage, F!Prerequisites, Fresh
  <2> QED
    BY <1>4, <2>2, QuietRefresh DEF F!BeginStage
<1>5. CASE F!Skip
  <2>1. CommandIsAt'
    BY <1>5 DEF F!Skip, Fresh
  <2> QED
    BY <1>5, <2>1, QuietRefresh DEF F!Skip
<1>6. CASE F!BeginPublish
  <2>1. CommandIsAt'
    BY <1>6 DEF F!BeginPublish, F!Prerequisites
  <2> QED
    BY <1>6, <2>1, QuietRefresh DEF F!BeginPublish
<1>7. CASE F!Lock
  <2>1. CommandIsAt'
    BY <1>7 DEF F!Lock, F!Present
  <2> QED
    BY <1>7, <2>1, QuietRefresh DEF F!Lock
<1> QED
  BY <1>1, <1>2, <1>3, <1>4, <1>5, <1>6, <1>7

LEMMA EndBackupInv == ASSUME RefreshInv, F!EndBackup PROVE RefreshInv'
<1>1. /\ command.at = "backup" /\ backup = None /\ DOMAIN backup' = F!Source \cup F!Other
      /\ command' = F!Idle /\ staged = <<>> /\ dropped = {} /\ DOMAIN db = F!Source \cup F!Other
      /\ UNCHANGED <<db, desktop, staged, saved, dropped>>
  BY DEF RefreshInv, CommandIsAt, Marked, F!EndBackup
<1>2. (Fresh \/ Replaced)' /\ CommandIsAt' /\ DroppedSaved'
  BY <1>1 DEF RefreshInv, Fresh, Replaced, CommandIsAt, DroppedSaved, F!Idle
<1>3. Marked'
  <2>1. DOMAIN staged' = {}
    BY <1>1
  <2>2. \A t \in BusinessTables : <<"before", t>> \notin DOMAIN db'
    BY <1>1, NamesOf, NamesDiffer
  <2> QED
    BY <1>1, <2>1, <2>2 DEF Marked
<1> QED
  BY <1>2, <1>3 DEF RefreshInv

----
\* Staging.

LEMMA DropStageInv == ASSUME RefreshInv, F!DropStage PROVE RefreshInv'
<1>1. PICK t \in command.left :
        /\ command.at = "tables"
        /\ ~(t \in DOMAIN staged /\ <<"stage", t>> \in DOMAIN db /\ db[<<"stage", t>>] = staged[t])
        /\ db' = F!Restrict(db, DOMAIN db \ {<<"stage", t>>})
        /\ command' = [at |-> "create", left |-> command.left, table |-> t, todo |-> Rows]
        /\ UNCHANGED <<desktop, backup, staged, saved, dropped, writes>>
  BY DEF F!DropStage, F!Present
<1>2. Fresh /\ backup # None
  BY <1>1 DEF RefreshInv, CommandIsAt
<1>3. t \notin DOMAIN staged
  BY <1>1, <1>2 DEF RefreshInv, Marked
<1>4. /\ DOMAIN db' = DOMAIN db \ {<<"stage", t>>} /\ \A n \in DOMAIN db' : db'[n] = db[n]
      /\ command.left \subseteq BusinessTables
  BY <1>1 DEF F!Restrict, RefreshInv, CommandIsAt
<1>5. Fresh'
  BY <1>2, <1>4, NamesOf, NamesDiffer DEF Fresh
<1>6. CommandIsAt'
  BY <1>1, <1>2, <1>3, <1>4, <1>5 DEF CommandIsAt
<1>7. Marked'
  BY <1>1, <1>2, <1>3, <1>4, <1>5, NamesOf, NamesDiffer DEF RefreshInv, Marked, Fresh
<1>8. DroppedSaved'
  BY <1>1 DEF RefreshInv, DroppedSaved
<1> QED
  BY <1>5, <1>6, <1>7, <1>8 DEF RefreshInv

LEMMA CreateStageInv == ASSUME RefreshInv, F!CreateStage PROVE RefreshInv'
<1> DEFINE new == <<"stage", command.table>>
<1>1. /\ command.at = "create" /\ db' = F!Put(db, new, {}) /\ command' = [command EXCEPT !.at = "load"]
      /\ UNCHANGED <<desktop, backup, staged, saved, dropped, writes>>
      /\ Fresh /\ backup # None /\ command.table \in BusinessTables \ DOMAIN staged
      /\ command.left \subseteq BusinessTables
  BY DEF F!CreateStage, RefreshInv, CommandIsAt
<1>2. /\ DOMAIN db' = DOMAIN db \cup {new} /\ new \in F!Stage
      /\ \A n \in DOMAIN db \ {new} : db'[n] = db[n]
  BY <1>1, NamesOf DEF F!Put
<1>3. Fresh'
  BY <1>1, <1>2, NamesDiffer DEF Fresh
<1>4. CommandIsAt'
  <2>1. /\ command'.at = "load" /\ command'.table \in BusinessTables \ DOMAIN staged
        /\ command'.left \subseteq BusinessTables /\ <<"stage", command'.table>> \in DOMAIN db'
    BY <1>1, <1>2
  <2> QED
    BY <1>1, <1>3, <2>1 DEF CommandIsAt
<1>5. \A t \in DOMAIN staged : <<"stage", t>> # new
  BY <1>1
<1> HIDE DEF new
<1>6. Marked'
  BY <1>1, <1>2, <1>3, <1>5, NamesOf, NamesDiffer DEF RefreshInv, Marked, Fresh
<1>7. DroppedSaved'
  BY <1>1 DEF RefreshInv, DroppedSaved
<1> QED
  BY <1>3, <1>4, <1>6, <1>7 DEF RefreshInv

LEMMA FlushInv == ASSUME RefreshInv, F!Flush PROVE RefreshInv'
<1> DEFINE target == <<"stage", command.table>>
<1>1. PICK row \in command.todo :
        /\ command.at = "load"
        /\ \E kept \in {row, Garbled} : db' = [db EXCEPT ![target] = @ \cup {kept}]
        /\ command' = [command EXCEPT !.todo = @ \ {row}]
        /\ UNCHANGED <<desktop, backup, staged, saved, dropped, writes>>
        /\ Fresh /\ backup # None /\ command.table \in BusinessTables \ DOMAIN staged
        /\ command.left \subseteq BusinessTables /\ target \in DOMAIN db
  BY DEF F!Flush, RefreshInv, CommandIsAt
<1>2. /\ DOMAIN db' = DOMAIN db /\ target \in F!Stage
      /\ \A n \in DOMAIN db \ {target} : db'[n] = db[n]
  BY <1>1, NamesOf
<1>3. Fresh'
  BY <1>1, <1>2 DEF Fresh
<1>4. CommandIsAt'
  <2>1. command'.at = "load" /\ command'.table = command.table /\ command'.left = command.left
    BY <1>1
  <2> QED
    BY <1>1, <1>2, <1>3, <2>1 DEF CommandIsAt
<1>5. /\ \A t \in DOMAIN staged : <<"stage", t>> # target
      /\ UNCHANGED <<backup, staged, dropped>> /\ Fresh /\ backup # None
  BY <1>1
<1> HIDE DEF target
<1>6. Marked'
  BY ZenonT(40), <1>2, <1>3, <1>5, NamesOf, NamesDiffer DEF RefreshInv, Marked
<1>7. DroppedSaved'
  BY <1>1 DEF RefreshInv, DroppedSaved
<1> QED
  BY <1>3, <1>4, <1>6, <1>7 DEF RefreshInv

(* Only a table with exactly the workbook's rows is marked as staged.       *)
LEMMA ReadbackInv == ASSUME RefreshInv, F!Readback PROVE RefreshInv'
<1> DEFINE t == command.table
<1>1. /\ command.at = "load" /\ UNCHANGED <<db, desktop, backup, saved, dropped, writes>>
      /\ Fresh /\ backup # None /\ t \in BusinessTables \ DOMAIN staged
      /\ command.left \subseteq BusinessTables /\ <<"stage", t>> \in DOMAIN db
      /\ \/ /\ db[<<"stage", t>>] = Rows /\ staged' = F!Put(staged, t, Rows)
            /\ command' = [at |-> "tables", left |-> command.left \ {t}]
         \/ command' = F!Idle /\ staged' = staged
  BY DEF F!Readback, RefreshInv, CommandIsAt
<1>2. Fresh' /\ DroppedSaved'
  BY <1>1 DEF RefreshInv, Fresh, DroppedSaved
<1>3. CommandIsAt'
  BY <1>1, <1>2 DEF CommandIsAt, F!Idle
<1> HIDE DEF t
<1>4. Marked'
  BY <1>1, <1>2 DEF RefreshInv, Marked, F!Put
<1> QED
  BY <1>2, <1>3, <1>4 DEF RefreshInv

----
\* Publishing, and the others.

LEMMA SaveInv == ASSUME RefreshInv, F!SaveAuxiliary PROVE RefreshInv'
<1>1. /\ command.at = "save" /\ command' = [command EXCEPT !.at = "swap"]
      /\ saved' = saved \cup {[name |-> n, rows |-> db[n]] : n \in F!Other \cap command.names}
      /\ UNCHANGED <<db, desktop, backup, staged, dropped, writes>>
      /\ backup # None /\ DOMAIN staged = BusinessTables
      /\ command.names \subseteq DOMAIN db /\ command.locked = command.names
  BY DEF F!SaveAuxiliary, RefreshInv, CommandIsAt
<1>2. (Fresh \/ Replaced)' /\ Marked'
  BY <1>1 DEF RefreshInv, Fresh, Replaced, Marked
<1>3. DroppedSaved'
  BY <1>1 DEF RefreshInv, DroppedSaved
<1>4. CommandIsAt'
  <2>1. command'.at = "swap" /\ command'.names = command.names /\ command'.locked = command.locked
    BY <1>1 DEF RefreshInv, CommandIsAt
  <2>2. LockedIsSaved(command)'
    BY <1>1, <2>1 DEF LockedIsSaved
  <2> QED
    BY <1>1, <2>1, <2>2 DEF CommandIsAt
<1> QED
  BY <1>2, <1>3, <1>4 DEF RefreshInv

(* The one exchange, from staged tables that still read back.               *)
LEMMA SwapInv == ASSUME RefreshInv, F!Swap PROVE RefreshInv'
<1>1. /\ command.at = "swap" /\ UNCHANGED <<desktop, backup, staged, saved, dropped, writes>>
      /\ backup # None /\ DOMAIN staged = BusinessTables /\ LockedIsSaved(command)
      /\ command.names \subseteq DOMAIN db /\ command.locked = command.names
  BY DEF F!Swap, RefreshInv, CommandIsAt
<1>2. CASE /\ command' = [command EXCEPT !.at = "drop", !.names = F!Dropping(F!Present)]
           /\ db' = db
  <2>1. /\ command'.at = "drop" /\ command'.locked = command.locked
        /\ command'.names \subseteq DOMAIN db' \cap (F!Other \cup F!Before)
    BY <1>2 DEF F!Dropping, F!Present
  <2>2. LockedIsSaved(command)'
    BY <1>1, <1>2, <2>1 DEF LockedIsSaved
  <2>3. CommandIsAt'
    BY <1>1, <2>1, <2>2 DEF CommandIsAt
  <2> QED
    BY <1>1, <1>2, <2>3, QuietRefresh
<1>3. CASE F!Swappable /\ db' = F!Swapped(BusinessTables)
           /\ command' = [at |-> "drop", locked |-> command.locked \cup F!Before \cup F!Final,
                          names |-> F!Dropping(F!Present) \cup F!Before]
  <2>1. Fresh
    BY <1>1, <1>3, NamesDiffer DEF F!Swappable, F!Original, F!Present, RefreshInv, Marked, Fresh, Replaced
  <2>2. \A t \in BusinessTables : db[<<"stage", t>>] = Rows /\ <<"stage", t>> \in DOMAIN db
    BY <1>1, <2>1 DEF RefreshInv, Marked
  <2>3. \A t \in BusinessTables :
          F!Cardinality(db[<<"source", t>>]) = F!Cardinality(backup[<<"source", t>>])
    BY <1>3, NamesOf DEF F!Swappable, F!Original
  <2>4. DOMAIN db' = (DOMAIN db \ (F!Source \cup F!Stage)) \cup F!Before \cup F!Final
    BY <1>3 DEF F!Swapped, F!Present, F!Source, F!Stage, F!Before, F!Final, F!Names
  <2>5. \A t \in BusinessTables :
          db'[<<"before", t>>] = db[<<"source", t>>] /\ db'[<<"final", t>>] = db[<<"stage", t>>]
    <3> SUFFICES ASSUME NEW t \in BusinessTables
                 PROVE  /\ db'[<<"before", t>>] = db[<<"source", t>>]
                        /\ db'[<<"final", t>>] = db[<<"stage", t>>]
      OBVIOUS
    <3> DEFINE old == <<"before", t>>
               new == <<"final", t>>
    <3>1. old \in DOMAIN db' /\ new \in DOMAIN db'
      BY <2>4, NamesOf
    <3>2. old[1] = "before" /\ old[2] = t /\ new[1] = "final" /\ new[2] = t
      OBVIOUS
    <3> HIDE DEF old, new
    <3>3. db'[old] = db[<<"source", t>>] /\ db'[new] = db[<<"stage", t>>]
      BY <1>3, <3>1, <3>2 DEF F!Swapped
    <3> QED
      BY <3>3 DEF old, new
  <2>6. \A n \in F!Other \cap DOMAIN db : n \in DOMAIN db' /\ db'[n] = db[n]
    <3> SUFFICES ASSUME NEW n \in F!Other \cap DOMAIN db PROVE n \in DOMAIN db' /\ db'[n] = db[n]
      OBVIOUS
    <3>1. n[1] = "auxiliary"
      BY DEF F!Other
    <3>2. n \in DOMAIN db'
      BY <2>4, NamesDiffer
    <3> QED
      BY <1>3, <3>1, <3>2 DEF F!Swapped
  <2>7. Replaced'
    <3>1. \A n \in F!Final : db'[n] = Rows
      BY <2>2, <2>5 DEF F!Final, F!Names
    <3> QED
      BY <2>4, <3>1, NamesDiffer DEF Replaced
  <2>8. Marked'
    <3>1. DOMAIN db' \subseteq F!Source \cup F!Stage \cup F!Before \cup F!Final \cup F!Other
      BY <2>4 DEF RefreshInv, Marked
    <3>2. Fresh' => BusinessTables = {}
      BY <2>7, NamesOf DEF Fresh, Replaced
    <3> QED
      BY <1>1, <2>3, <2>5, <3>1, <3>2 DEF RefreshInv, Marked
  <2>9. DroppedSaved'
    BY <1>1 DEF RefreshInv, DroppedSaved
  <2>10. CommandIsAt'
    <3> DEFINE c == command'
    <3>0. /\ c.at = "drop" /\ c.locked = command.locked \cup F!Before \cup F!Final
          /\ c.names = F!Dropping(F!Present) \cup F!Before
      BY <1>3
    <3> HIDE DEF c
    <3>1. \A n \in F!Other \cap c.locked \cap DOMAIN db' : [name |-> n, rows |-> db'[n]] \in saved'
      <4> SUFFICES ASSUME NEW n \in F!Other \cap c.locked \cap DOMAIN db'
                   PROVE  [name |-> n, rows |-> db'[n]] \in saved'
        OBVIOUS
      <4>1. n \in F!Other \cap command.locked \cap DOMAIN db
        BY <2>4, <3>0, NamesDiffer
      <4> QED
        BY <1>1, <2>6, <4>1 DEF LockedIsSaved
    <3>2. c.names \subseteq DOMAIN db' \cap (F!Other \cup F!Before)
      BY <2>1, <2>4, <2>6, <3>0, NamesDiffer DEF F!Dropping, F!Present, Fresh
    <3> QED
      BY <1>1, <3>0, <3>1, <3>2 DEF CommandIsAt, LockedIsSaved, c
  <2> QED
    BY <2>7, <2>8, <2>9, <2>10 DEF RefreshInv
<1>4. CASE command' = F!Idle /\ db' = db
  <2>1. CommandIsAt'
    BY <1>4 DEF CommandIsAt, F!Idle
  <2> QED
    BY <1>1, <1>4, <2>1, QuietRefresh
<1> QED
  BY <1>2, <1>3, <1>4 DEF F!Swap

(* What is locked is dropped as it was saved, or as it was counted.         *)
LEMMA RefreshDropInv == ASSUME RefreshInv, F!Drop PROVE RefreshInv'
<1>1. /\ command.at = "drop" /\ UNCHANGED <<desktop, backup, staged, saved, writes>>
      /\ backup # None /\ LockedIsSaved(command)
      /\ command.names \subseteq DOMAIN db \cap (F!Other \cup F!Before)
  BY DEF F!Drop, RefreshInv, CommandIsAt
<1>2. CASE command' = F!Idle /\ UNCHANGED <<db, dropped>>
  <2>1. CommandIsAt'
    BY <1>2 DEF CommandIsAt, F!Idle
  <2> QED
    BY <1>1, <1>2, <2>1, QuietRefresh
<1>3. ASSUME NEW n \in command.names, n \in command.locked,
             db' = F!Restrict(db, DOMAIN db \ {n}),
             dropped' = dropped \cup {[name |-> n, rows |-> db[n]]},
             command' = [command EXCEPT !.names = @ \ {n}]
      PROVE  RefreshInv'
  <2>1. /\ DOMAIN db' = DOMAIN db \ {n} /\ \A x \in DOMAIN db' : db'[x] = db[x]
        /\ n \in DOMAIN db /\ n \in F!Other \cup F!Before
    BY <1>1, <1>3 DEF F!Restrict
  <2>2. (Fresh \/ Replaced)'
    BY <2>1, NamesDiffer DEF RefreshInv, Fresh, Replaced
  <2>3. Marked'
    <3>1. Fresh' => Fresh \/ BusinessTables = {}
      BY <2>1, NamesOf DEF RefreshInv, Fresh, Replaced
    <3>2. \A t \in BusinessTables : <<"stage", t>> \in DOMAIN db => <<"stage", t>> \in DOMAIN db'
      BY <2>1, NamesOf, NamesDiffer
    <3> QED
      BY <1>1, <2>1, <3>1, <3>2 DEF RefreshInv, Marked
  <2>4. CommandIsAt'
    <3>1. command'.at = "drop" /\ command'.names = command.names \ {n} /\ command'.locked = command.locked
      BY <1>1, <1>3
    <3>2. LockedIsSaved(command)'
      BY <1>1, <2>1, <3>1 DEF LockedIsSaved
    <3> QED
      BY <1>1, <2>1, <3>1, <3>2 DEF CommandIsAt
  <2>5. DroppedSaved'
    <3> DEFINE d == [name |-> n, rows |-> db[n]]
    <3>1. n \in F!Other => d \in saved
      BY <1>1, <1>3, <2>1 DEF LockedIsSaved
    <3>2. n \in F!Before => F!Cardinality(d.rows) = F!Cardinality(backup[<<"source", n[2]>>])
      BY <2>1 DEF RefreshInv, Marked, F!Before, F!Names
    <3>3. d.name = n /\ dropped' = dropped \cup {d} /\ n \in F!Other \cup F!Before
      BY <1>3, <2>1
    <3> HIDE DEF d
    <3>4. UNCHANGED <<saved, backup>>
      BY <1>1
    <3> QED
      BY <3>1, <3>2, <3>3, <3>4 DEF RefreshInv, DroppedSaved
  <2> QED
    BY <2>2, <2>3, <2>4, <2>5 DEF RefreshInv
<1> QED
  BY <1>2, <1>3 DEF F!Drop, F!Present

(* The others write what is not locked.                                     *)
LEMMA OthersInv == ASSUME RefreshInv, F!Write \/ F!Change PROVE RefreshInv'
<1>1. PICK n \in (F!Other \cup F!Source) \ F!Locked :
        /\ DOMAIN db' = DOMAIN db \cup {n} /\ (n \in F!Source => n \in DOMAIN db)
        /\ \A x \in DOMAIN db \ {n} : db'[x] = db[x]
        /\ n \in F!Other \/ n \in DOMAIN db
        /\ backup # None \/ DOMAIN db' = DOMAIN db
        /\ UNCHANGED <<backup, staged, saved, command, dropped>>
  <2>1. CASE F!Change
    BY <2>1 DEF F!Change, F!Present
  <2>2. CASE F!Write
    <3>1. PICK n \in F!Other \ F!Locked, row \in NewRows :
            db' = IF n \in DOMAIN db THEN [db EXCEPT ![n] = @ \cup {row}] ELSE F!Put(db, n, {})
      BY <2>2 DEF F!Write, F!Present
    <3>2. DOMAIN db' = DOMAIN db \cup {n} /\ \A x \in DOMAIN db \ {n} : db'[x] = db[x]
      BY <3>1 DEF F!Put
    <3>3. n \notin F!Source /\ (backup = None => n \in DOMAIN db)
      BY NamesDiffer DEF RefreshInv, Marked
    <3>4. UNCHANGED <<backup, staged, saved, command, dropped>>
      BY <2>2 DEF F!Write
    <3>5. n \in (F!Other \cup F!Source) \ F!Locked /\ n \in F!Other
      OBVIOUS
    <3>6. backup # None \/ DOMAIN db' = DOMAIN db
      BY <3>2, <3>3
    <3> QED
      BY <3>2, <3>3, <3>4, <3>5, <3>6
  <2> QED
    BY <2>1, <2>2
<1>2. (Fresh \/ Replaced)' /\ DroppedSaved'
  BY <1>1, NamesDiffer DEF RefreshInv, Fresh, Replaced, DroppedSaved
<1>3. Marked'
  <2>1. Fresh' => Fresh \/ BusinessTables = {}
    BY <1>1, NamesOf, NamesDiffer DEF RefreshInv, Fresh, Replaced
  <2>2. \A t \in BusinessTables : <<"stage", t>> # n /\ <<"before", t>> # n
    BY <1>1, NamesOf, NamesDiffer
  <2> QED
    BY <1>1, <2>1, <2>2 DEF RefreshInv, Marked
<1>4. CommandIsAt'
  <2>1. LockedIsSaved(command) /\ command.at \in {"swap", "drop"} => LockedIsSaved(command)'
    BY <1>1 DEF LockedIsSaved, F!Locked
  <2>2. Fresh => Fresh'
    BY <1>1, NamesDiffer DEF Fresh
  <2> QED
    BY <1>1, <2>1, <2>2 DEF RefreshInv, CommandIsAt
<1> QED
  BY <1>2, <1>3, <1>4 DEF RefreshInv

LEMMA RefreshNext == ASSUME RefreshInv, [F!Next]_refreshVars PROVE RefreshInv'
<1>1. CASE UNCHANGED refreshVars
  <2>1. CommandIsAt'
    BY <1>1 DEF refreshVars, RefreshInv, CommandIsAt, LockedIsSaved, Fresh
  <2> QED
    BY <1>1, <2>1, QuietRefresh DEF refreshVars
<1> QED
  BY <1>1, QuietInv, EndBackupInv, DropStageInv, CreateStageInv, FlushInv, ReadbackInv, SaveInv,
     SwapInv, RefreshDropInv, OthersInv DEF F!Next

LEMMA RefreshIsSound ==
    ASSUME RefreshInv PROVE F!SwappedTogether /\ F!PublishedIsWhole /\ F!DroppedIsSaved
<1>1. F!SwappedTogether
  BY NamesOf DEF RefreshInv, Fresh, Replaced, F!SwappedTogether, F!Present
<1>2. F!PublishedIsWhole
  BY DEF RefreshInv, Fresh, Replaced, F!PublishedIsWhole, F!Present
<1>3. F!DroppedIsSaved
  BY DEF RefreshInv, DroppedSaved, F!DroppedIsSaved
<1> QED
  BY <1>1, <1>2, <1>3

----
(* A behaviour of the composition is a behaviour of one component.          *)
LEMMA RunsPart ==
    /\ MCInit => Init
    /\ [MCNext]_allVars => [Next]_vars
BY DEF MCInit, MCNext, allVars

(* Records of runs, the leased job and what was published agree in every    *)
(* behaviour of the composition (alignment/store.py:97, service.py:181).    *)
THEOREM RecordsStayAgreed == MCSpec => []RecordsAgree
<1>1. MCInit => Inv
  BY RunsPart, InitInv
<1>2. Inv /\ [MCNext]_allVars => Inv'
  BY RunsPart, NextInv
<1>3. Inv => RecordsAgree
  BY DEF Inv, RecordsAgree
<1> QED
  BY <1>1, <1>2, <1>3, PTL DEF MCSpec

(* The business tables and the summaries.                                   *)
PublishingInv == (part = "refresh" => RefreshInv) /\ (part = "sync" => SyncInv)

(* Both exchanges of tables are atomic and lose nothing, wherever a command *)
(* dies, however often it is run again and whatever others write meanwhile  *)
(* (marketing_refresh/database.py:421, summary_database.py).                *)
THEOREM TablesStayReplacedOnce == MCSpec => []TablesAreReplacedOnce
<1>1. MCInit => PublishingInv
  BY RefreshInit, SyncInit DEF MCInit, PublishingInv
<1>2. PublishingInv /\ [MCNext]_allVars => PublishingInv'
  <2> SUFFICES ASSUME PublishingInv, [MCNext]_allVars PROVE PublishingInv'
    OBVIOUS
  <2>1. part' = part
    BY DEF MCNext, allVars
  <2>2. part = "refresh" => [F!Next]_refreshVars
    BY DEF MCNext, allVars
  <2>3. part = "sync" => [Y!Next]_syncVars
    BY DEF MCNext, allVars
  <2> QED
    BY <2>1, <2>2, <2>3, RefreshNext, SyncNext DEF PublishingInv
<1>3. PublishingInv => TablesAreReplacedOnce
  BY RefreshIsSound, SyncIsSound DEF PublishingInv, TablesAreReplacedOnce
<1> QED
  BY <1>1, <1>2, <1>3, PTL DEF MCSpec
====
