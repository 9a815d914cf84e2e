---- MODULE GraphRagJobsProofs ----
(* A succeeded index job names whole artifacts of its own run, and stays   *)
(* so: for every number of retries and of requests.                        *)
(*                                                                         *)
(* Two locks carry the argument.  Who holds .job.lock acts on a copy that  *)
(* still is job.json (Informed); who holds .run.lock is the only worker    *)
(* past its check, so that the artifacts it verified are still its own     *)
(* when it reports success (OwnArtifacts), and nobody is left who could    *)
(* write over them afterwards (SettledSuccess).                            *)
EXTENDS MCGraphRag, Sequences, FiniteSetTheorems, WellFoundedInduction, NaturalsInduction, TLAPS

\* Workers of runs that were not launched yet do not exist.
LaterAreNone == \A a \in Attempts : a > job.run => worker[a] = "none"

\* What the holder of .job.lock knows of job.json.
InformedOf(q) ==
    /\ request[q].pc \in {"locked", "probe", "probing", "decide"} =>
          copy[q].status = job.status /\ copy[q].run = job.run
    /\ request[q].pc \in {"probe", "probing", "decide"} => job.status \in ACTIVE
    /\ request[q].pc = "queue" => job.status \in {"ready", "failed"}
    /\ request[q].pc = "launch" =>
          job.run # 0 /\ copy[q].status = "queued" /\ worker[job.run] = "none"
    /\ request[q].pc \in {"launch", "note"} =>
          /\ job.status = "queued" /\ copy[q].run = job.run
          /\ copy[q].status \in {"queued", "failed"}

Informed == \A q \in Requests : InformedOf(q)

\* The artifacts of a worker that has built them.
OwnArtifacts ==
    \A a \in Attempts :
        /\ worker[a] \in {"verify", "register", "succeed"} => index = [run |-> a, whole |-> TRUE]
        /\ worker[a] = "succeed" => listed

\* After a success no worker is past its check of job.json.
SettledSuccess ==
    job.status = "succeeded" =>
        \A a \in Attempts : worker[a] \in {"none", "boot", "check", "exited"}

\* A request that has ended holds nothing.
EndedIsFree == \A q \in Requests : request[q].pc \in {"idle", "gone"} => request[q].op = "get"

Inv ==
    /\ TypeOK /\ EndedIsFree /\ LaterAreNone /\ Informed
    /\ OwnArtifacts /\ SettledSuccess /\ SucceededIsWhole

LEMMA InitInv == Init => Inv
<1> SUFFICES ASSUME Init PROVE Inv
  OBVIOUS
<1> USE GraphRagConstants DEF Init, NewJob, Idle
<1>1. LocksAreHeld
  BY DEF LocksAreHeld, LockedPoints, RunningPoints
<1>2. TypeOK
  <2>1. NewJob \in Job /\ Idle \in [pc : RequestPoints, op : {"get", "start"}]
    BY DEF Job, ACTIVE, RequestPoints
  <2>2. index \in [run : 0 .. MaxAttempts, whole : BOOLEAN] /\ "none" \in WorkerPoints
    BY DEF WorkerPoints
  <2> HIDE DEF NewJob, Idle
  <2> QED
    BY <1>1, <2>1, <2>2 DEF TypeOK
<1>3. EndedIsFree /\ LaterAreNone /\ Informed /\ OwnArtifacts /\ SettledSuccess /\ SucceededIsWhole
  BY DEF EndedIsFree, LaterAreNone, Informed, InformedOf, OwnArtifacts, SettledSuccess, SucceededIsWhole
<1> QED
  BY <1>2, <1>3 DEF Inv

----
(* Requests.                                                                *)

\* A request moves to another program point.
LEMMA GotoIs ==
    ASSUME TypeOK, NEW q \in Requests, NEW point \in RequestPoints, Goto(q, point)
    PROVE  /\ request' \in [Requests -> [pc : RequestPoints, op : {"get", "start"}]]
           /\ request'[q].pc = point /\ request'[q].op = request[q].op
           /\ \A p \in Requests \ {q} : request'[p] = request[p]
BY DEF TypeOK, Goto

\* A request that ends: it holds nothing and knows nothing.
LEMMA EndIs ==
    ASSUME TypeOK, NEW q \in Requests, NEW point \in {"idle", "gone"}, End(q, point),
           worker' = worker
    PROVE  /\ request' \in [Requests -> [pc : RequestPoints, op : {"get", "start"}]]
           /\ request'[q].pc = point
           /\ \A p \in Requests \ {q} : request'[p] = request[p] /\ copy'[p] = copy[p]
           /\ copy' \in [Requests -> Job] /\ busy' \in [Requests -> BOOLEAN]
           /\ ingestion' \in Requests \cup {None} /\ jobLock' \in Requests \cup {None}
           /\ runLock' \in Requests \cup Attempts \cup {None}
           /\ LocksAreHeld'
<1>1. /\ request' \in [Requests -> [pc : RequestPoints, op : {"get", "start"}]]
      /\ request'[q] = [pc |-> point, op |-> "get"]
      /\ \A p \in Requests \ {q} : request'[p] = request[p] /\ copy'[p] = copy[p]
  BY DEF TypeOK, End, RequestPoints
<1>2. copy' \in [Requests -> Job] /\ busy' \in [Requests -> BOOLEAN]
  BY GraphRagConstants DEF TypeOK, End, NewJob, Job, ACTIVE
<1>3. /\ ingestion' = IF ingestion = q THEN None ELSE ingestion
      /\ jobLock' = IF jobLock = q THEN None ELSE jobLock
      /\ runLock' = IF runLock = q THEN None ELSE runLock
  BY DEF End
<1>4. LocksAreHeld'
  BY <1>1, <1>3, GraphRagConstants DEF TypeOK, LocksAreHeld, LockedPoints, RequestPoints
<1> QED
  BY <1>1, <1>2, <1>3, <1>4 DEF TypeOK

\* .job.lock has one holder.
LEMMA OneHolder ==
    ASSUME TypeOK, NEW q \in Requests, request[q].pc \in LockedPoints,
           NEW p \in Requests, p # q
    PROVE  request[p].pc \notin LockedPoints
BY DEF TypeOK, LocksAreHeld

\* Who does not hold .job.lock is informed of nothing.
LEMMA OutsideIsInformed ==
    ASSUME NEW q \in Requests, request[q].pc \notin LockedPoints
    PROVE  InformedOf(q)
BY DEF InformedOf, LockedPoints, RequestPoints

LEMMA RequestInv == ASSUME Inv, NEW q \in Requests, Get(q) \/ Start(q) \/ Again(q) PROVE Inv'
<1> USE GraphRagConstants
<1>1. /\ TypeOK /\ request[q].pc \in {"idle", "gone"}
      /\ UNCHANGED <<job, listed, index, jobLock, runLock, copy, busy, worker>>
      /\ request' \in [Requests -> [pc : RequestPoints, op : {"get", "start"}]]
      /\ request'[q].pc \in {"idle", "get", "start"}
      /\ request'[q].pc = "idle" => request'[q].op = "get"
      /\ \A p \in Requests \ {q} : request'[p] = request[p]
      /\ \/ ingestion' = ingestion /\ request'[q].op = request[q].op
         \/ ingestion = None /\ ingestion' = q /\ request'[q].op = "start"
  <2>1. CASE Get(q)
    <3>1. request[q].op = "get"
      BY <2>1 DEF Inv, EndedIsFree, Get, At
    <3> QED
      BY <2>1, <3>1 DEF Inv, TypeOK, Get, At, RequestPoints, lockVars
  <2>2. CASE Start(q)
    BY <2>2 DEF Inv, TypeOK, Start, At, RequestPoints
  <2>3. CASE Again(q)
    BY <2>3 DEF Inv, EndedIsFree, TypeOK, Again, At, Goto, RequestPoints, lockVars
  <2> QED
    BY <2>1, <2>2, <2>3
<1>2. LocksAreHeld'
  BY <1>1 DEF TypeOK, LocksAreHeld, LockedPoints, RequestPoints
<1>3. TypeOK'
  BY <1>1, <1>2 DEF TypeOK
<1>4. (EndedIsFree /\ LaterAreNone /\ OwnArtifacts /\ SettledSuccess /\ SucceededIsWhole)'
  BY <1>1 DEF Inv, EndedIsFree, LaterAreNone, OwnArtifacts, SettledSuccess, SucceededIsWhole
<1>5. Informed'
  BY <1>1 DEF Inv, Informed, InformedOf
<1> QED
  BY <1>3, <1>4, <1>5 DEF Inv

\* A step that only moves a request and its locks, and keeps what others see.
LEMMA AloneInv ==
    ASSUME Inv, NEW q \in Requests, UNCHANGED <<job, listed, index, worker>>,
           copy' \in [Requests -> Job], busy' \in [Requests -> BOOLEAN],
           ingestion' \in Requests \cup {None}, jobLock' \in Requests \cup {None},
           runLock' \in Requests \cup Attempts \cup {None},
           request' \in [Requests -> [pc : RequestPoints, op : {"get", "start"}]],
           LocksAreHeld', InformedOf(q)',
           request'[q].pc \in {"idle", "gone"} => request'[q].op = "get",
           \A p \in Requests \ {q} : request'[p] = request[p] /\ copy'[p] = copy[p]
    PROVE  Inv'
<1>1. TypeOK'
  BY DEF Inv, TypeOK
<1>2. (EndedIsFree /\ LaterAreNone /\ OwnArtifacts /\ SettledSuccess /\ SucceededIsWhole)'
  BY DEF Inv, EndedIsFree, LaterAreNone, OwnArtifacts, SettledSuccess, SucceededIsWhole
<1>3. Informed'
  BY DEF Inv, Informed, InformedOf
<1> QED
  BY <1>1, <1>2, <1>3 DEF Inv

LEMMA EndInv ==
    ASSUME Inv, NEW q \in Requests, NEW point \in {"idle", "gone"}, End(q, point),
           UNCHANGED <<job, listed, index, worker>>
    PROVE  Inv'
<1>1. TypeOK /\ request'[q].op = "get"
  BY DEF Inv, End, TypeOK
<1>2. InformedOf(q)'
  BY <1>1, EndIs DEF InformedOf
<1> QED
  BY <1>1, <1>2, EndIs, AloneInv

LEMMA LockJobInv == ASSUME Inv, NEW q \in Requests, LockJob(q) PROVE Inv'
<1> USE GraphRagConstants
<1>1. /\ TypeOK /\ request[q].pc \in {"get", "start"} /\ jobLock = None /\ jobLock' = q
      /\ UNCHANGED <<job, listed, index, ingestion, runLock, busy, worker>>
      /\ copy' = [copy EXCEPT ![q] = job] /\ Goto(q, "locked") /\ "locked" \in RequestPoints
  BY DEF Inv, LockJob, RequestPoints
<1>2. /\ copy' \in [Requests -> Job] /\ copy'[q] = job
      /\ \A p \in Requests \ {q} : copy'[p] = copy[p]
  BY <1>1 DEF TypeOK
<1>3. LocksAreHeld'
  BY <1>1, GotoIs DEF TypeOK, LocksAreHeld, LockedPoints, RequestPoints
<1>4. InformedOf(q)'
  BY <1>1, <1>2, GotoIs DEF InformedOf
<1> QED
  BY <1>1, <1>2, <1>3, <1>4, GotoIs, AloneInv DEF TypeOK

\* What follows a look at the job, once it is left as it is.
LEMMA RefreshedInv ==
    ASSUME Inv, NEW q \in Requests, request[q].pc \in {"locked", "decide"},
           Refreshed(q, job.status), UNCHANGED <<job, listed, index, worker>>
    PROVE  Inv'
<1>1. CASE Return(q)
  BY <1>1, EndInv DEF Return
<1>2. CASE /\ job.status \notin ACTIVE \cup {"succeeded"} /\ Goto(q, "queue")
           /\ UNCHANGED <<lockVars, copy, busy>>
  <2>1. TypeOK /\ "queue" \in RequestPoints /\ job.status \in {"ready", "failed"}
    BY <1>2 DEF Inv, TypeOK, RequestPoints, Job, ACTIVE
  <2>2. LocksAreHeld'
    BY <1>2, <2>1, GotoIs DEF TypeOK, LocksAreHeld, LockedPoints, RequestPoints, lockVars
  <2>3. InformedOf(q)'
    BY <1>2, <2>1, GotoIs DEF InformedOf
  <2> QED
    BY <1>2, <2>1, <2>2, <2>3, GotoIs, AloneInv DEF TypeOK, lockVars
<1> QED
  BY <1>1, <1>2 DEF Refreshed

LEMMA RefreshInv == ASSUME Inv, NEW q \in Requests, Refresh(q) PROVE Inv'
<1>1. /\ TypeOK /\ request[q].pc = "locked" /\ copy[q].status = job.status /\ copy[q].run = job.run
      /\ UNCHANGED <<job, listed, index, worker>>
  BY DEF Inv, Informed, InformedOf, Refresh, At
<1>2. CASE Refreshed(q, copy[q].status)
  BY <1>1, <1>2, RefreshedInv
<1>3. CASE job.status \in ACTIVE /\ Goto(q, "probe") /\ UNCHANGED <<lockVars, copy, busy>>
  <2>1. "probe" \in RequestPoints
    BY DEF RequestPoints
  <2>2. LocksAreHeld'
    BY <1>1, <1>3, <2>1, GotoIs DEF TypeOK, LocksAreHeld, LockedPoints, RequestPoints, lockVars
  <2>3. InformedOf(q)'
    BY <1>1, <1>3, <2>1, GotoIs DEF InformedOf
  <2> QED
    BY <1>1, <1>3, <2>1, <2>2, <2>3, GotoIs, AloneInv DEF TypeOK, lockVars
<1> QED
  BY <1>1, <1>2, <1>3 DEF Refresh

LEMMA ProbeInv == ASSUME Inv, NEW q \in Requests, Probe(q) \/ ProbeDone(q) PROVE Inv'
<1> USE GraphRagConstants
<1>1. /\ TypeOK /\ request[q].pc \in {"probe", "probing"} /\ InformedOf(q)
      /\ UNCHANGED <<job, listed, index, ingestion, jobLock, copy, worker>>
  BY DEF Inv, Informed, Probe, ProbeDone, At
<1>2. PICK point \in {"probing", "decide"} :
        /\ Goto(q, point) /\ busy' \in [Requests -> BOOLEAN]
        /\ point = "probing" => runLock = None /\ runLock' = q
        /\ point = "decide" => runLock' = (IF request[q].pc = "probing" THEN None ELSE runLock)
  <2>1. CASE Probe(q)
    BY <1>1, <2>1 DEF Probe, At, TypeOK
  <2>2. CASE ProbeDone(q)
    BY <1>1, <2>2 DEF ProbeDone, At, TypeOK
  <2> QED
    BY <2>1, <2>2
<1>3. point \in RequestPoints
  BY DEF RequestPoints
<1>4. LocksAreHeld'
  BY <1>1, <1>2, <1>3, GotoIs DEF TypeOK, LocksAreHeld, LockedPoints, RequestPoints
<1>5. InformedOf(q)'
  BY <1>1, <1>2, <1>3, GotoIs DEF InformedOf
<1>6. runLock' \in Requests \cup Attempts \cup {None}
  BY <1>1, <1>2 DEF TypeOK
<1> QED
  BY <1>1, <1>2, <1>3, <1>4, <1>5, <1>6, GotoIs, AloneInv DEF TypeOK

\* The holder of .job.lock writes job.json, and does not make it a success.
LEMMA WritesInv ==
    ASSUME Inv, NEW q \in Requests, request[q].pc \in LockedPoints,
           UNCHANGED <<listed, index, worker>>, job' \in Job, job'.status # "succeeded",
           job'.run >= job.run,
           copy' \in [Requests -> Job], busy' \in [Requests -> BOOLEAN],
           ingestion' \in Requests \cup {None}, jobLock' \in Requests \cup {None},
           runLock' \in Requests \cup Attempts \cup {None},
           request' \in [Requests -> [pc : RequestPoints, op : {"get", "start"}]],
           LocksAreHeld', InformedOf(q)',
           request'[q].pc \in {"idle", "gone"} => request'[q].op = "get",
           \A p \in Requests \ {q} : request'[p] = request[p] /\ copy'[p] = copy[p]
    PROVE  Inv'
<1>1. TypeOK'
  BY DEF Inv, TypeOK
<1>2. (EndedIsFree /\ OwnArtifacts /\ SettledSuccess /\ SucceededIsWhole)'
  BY DEF Inv, EndedIsFree, OwnArtifacts, SettledSuccess, SucceededIsWhole
<1>3. LaterAreNone'
  BY GraphRagConstants DEF Inv, TypeOK, LaterAreNone, Job, Attempts
<1>4. ASSUME NEW p \in Requests, p # q PROVE InformedOf(p)'
  BY <1>4, OneHolder DEF Inv, InformedOf, LockedPoints, RequestPoints
<1>5. Informed'
  BY <1>4 DEF Informed
<1> QED
  BY <1>1, <1>2, <1>3, <1>5 DEF Inv

LEMMA DecideInv == ASSUME Inv, NEW q \in Requests, Decide(q) PROVE Inv'
<1> USE GraphRagConstants
<1>1. /\ TypeOK /\ request[q].pc = "decide" /\ copy[q].status = job.status /\ copy[q].run = job.run
      /\ UNCHANGED <<listed, index, worker>>
  BY DEF Inv, Informed, InformedOf, Decide, At
<1>2. CASE Refreshed(q, copy[q].status) /\ UNCHANGED job
  BY <1>1, <1>2, RefreshedInv
<1>3. CASE /\ job' = [copy[q] EXCEPT !.status = "failed", !.pid = 0, !.fresh = job.fresh]
           /\ Refreshed(q, "failed")
  <2>1. /\ job' \in Job /\ job'.status = "failed" /\ job'.run = job.run /\ job.run \in Nat
        /\ request[q].pc \in LockedPoints
    <3>1. copy[q] \in Job /\ job \in Job /\ "failed" \in ACTIVE \cup {"ready", "failed", "succeeded"}
      BY <1>1 DEF TypeOK
    <3>2. copy[q].run \in 0 .. MaxAttempts /\ 0 \in 0 .. MaxAttempts /\ job.fresh \in BOOLEAN
      BY <3>1 DEF Job
    <3>3. job' = [status |-> "failed", run |-> copy[q].run, pid |-> 0, fresh |-> job.fresh]
      BY <1>3, <3>1 DEF Job
    <3>4. /\ job' \in Job /\ job'.status = "failed" /\ job'.run = copy[q].run
      BY <3>1, <3>2, <3>3 DEF Job
    <3> QED
      BY <1>1, <3>1, <3>4 DEF Job, LockedPoints, RequestPoints
  <2>2. CASE Return(q)
    <3>1. InformedOf(q)' /\ request'[q].op = "get"
      BY <1>1, <2>2, EndIs DEF Return, InformedOf, End, TypeOK
    <3> QED
      BY <1>1, <2>1, <2>2, <3>1, EndIs, WritesInv DEF Return
  <2>3. CASE Goto(q, "queue") /\ UNCHANGED <<lockVars, copy, busy>>
    <3>1. "queue" \in RequestPoints
      BY DEF RequestPoints
    <3>2. LocksAreHeld'
      BY <1>1, <2>3, <3>1, GotoIs DEF TypeOK, LocksAreHeld, LockedPoints, RequestPoints, lockVars
    <3>3. InformedOf(q)'
      BY <1>1, <2>1, <2>3, <3>1, GotoIs DEF InformedOf
    <3> QED
      BY <1>1, <2>1, <2>3, <3>1, <3>2, <3>3, GotoIs, WritesInv DEF TypeOK, lockVars
  <2> QED
    BY <1>3, <2>2, <2>3 DEF Refreshed, ACTIVE
<1> QED
  BY <1>1, <1>2, <1>3 DEF Decide

LEMMA QueueInv == ASSUME Inv, NEW q \in Requests, Queue(q) PROVE Inv'
<1> USE GraphRagConstants
<1>1. /\ TypeOK /\ request[q].pc = "queue" /\ job.run < MaxAttempts /\ LaterAreNone
      /\ job' = [status |-> "queued", run |-> job.run + 1, pid |-> 0, fresh |-> TRUE]
      /\ copy' = [copy EXCEPT ![q] = job'] /\ Goto(q, "launch")
      /\ UNCHANGED <<listed, index, lockVars, busy, worker>>
  BY DEF Inv, Queue, At
<1>2. /\ job' \in Job /\ job'.status = "queued" /\ job'.run = job.run + 1 /\ job.run \in Nat
      /\ request[q].pc \in LockedPoints /\ "launch" \in RequestPoints /\ job'.run \in Attempts
  BY <1>1 DEF TypeOK, Job, ACTIVE, LockedPoints, RequestPoints, Attempts
<1>3. /\ copy' \in [Requests -> Job] /\ copy'[q] = job'
      /\ \A p \in Requests \ {q} : copy'[p] = copy[p]
  BY <1>1, <1>2 DEF TypeOK
<1>4. LocksAreHeld'
  BY <1>1, <1>2, GotoIs DEF TypeOK, LocksAreHeld, LockedPoints, RequestPoints, lockVars
<1>5. InformedOf(q)'
  <2>1. worker[job'.run] = "none"
    BY <1>1, <1>2 DEF LaterAreNone
  <2> QED
    BY <1>1, <1>2, <1>3, <2>1, GotoIs DEF InformedOf
<1>6. job'.status # "succeeded" /\ job'.run >= job.run
  BY <1>2
<1>7. /\ request' \in [Requests -> [pc : RequestPoints, op : {"get", "start"}]]
      /\ request'[q].pc = "launch" /\ \A p \in Requests \ {q} : request'[p] = request[p]
  BY <1>1, <1>2, GotoIs
<1> QED
  BY <1>1, <1>2, <1>3, <1>4, <1>5, <1>6, <1>7, WritesInv DEF TypeOK, lockVars

LEMMA NoteInv == ASSUME Inv, NEW q \in Requests, Note(q) PROVE Inv'
<1>1. /\ TypeOK /\ request[q].pc = "note" /\ copy[q].run = job.run
      /\ copy[q].status \in {"queued", "failed"}
      /\ job' = [copy[q] EXCEPT !.fresh = job.fresh] /\ End(q, "idle")
      /\ UNCHANGED <<listed, index, worker>>
  BY DEF Inv, Informed, InformedOf, Note, At, Return
<1>2. /\ job' \in Job /\ job'.status # "succeeded" /\ job'.run >= job.run
      /\ request[q].pc \in LockedPoints
  BY <1>1, GraphRagConstants DEF TypeOK, Job, LockedPoints, RequestPoints
<1>3. InformedOf(q)' /\ request'[q].op = "get"
  BY <1>1, EndIs DEF InformedOf, End, TypeOK
<1> QED
  BY <1>1, <1>2, <1>3, EndIs, WritesInv

LEMMA LaunchInv == ASSUME Inv, NEW q \in Requests, Launch(q) PROVE Inv'
<1> USE GraphRagConstants
<1>1. /\ TypeOK /\ request[q].pc = "launch" /\ InformedOf(q)
      /\ UNCHANGED <<job, listed, index, lockVars, busy>> /\ Goto(q, "note")
      /\ "note" \in RequestPoints /\ request[q].pc \in LockedPoints
  BY DEF Inv, Informed, Launch, At, RequestPoints, LockedPoints
<1>2. /\ job.status = "queued" /\ copy[q].run = job.run /\ copy[q].status = "queued"
      /\ worker[job.run] = "none" /\ job.run \in Attempts
  BY <1>1 DEF InformedOf, TypeOK, Job, Attempts
<1>3. /\ copy' \in [Requests -> Job] /\ copy'[q].run = job.run
      /\ copy'[q].status \in {"queued", "failed"}
      /\ \A p \in Requests \ {q} : copy'[p] = copy[p]
      /\ worker' \in [Attempts -> WorkerPoints]
      /\ \A a \in Attempts : worker'[a] = worker[a]
                               \/ (a = job.run /\ worker[a] = "none" /\ worker'[a] = "boot")
  <2>1. CASE /\ worker' = [worker EXCEPT ![copy[q].run] = "boot"]
             /\ copy' = [copy EXCEPT ![q].pid = copy[q].run]
    <3>1. [copy[q] EXCEPT !.pid = copy[q].run] \in Job
      BY <1>1, <1>2 DEF TypeOK, Job, Attempts
    <3>2. copy' = [copy EXCEPT ![q] = [copy[q] EXCEPT !.pid = copy[q].run]]
      BY <2>1
    <3> QED
      BY <1>1, <1>2, <2>1, <3>1, <3>2 DEF TypeOK, Job, WorkerPoints
  <2>2. CASE copy' = [copy EXCEPT ![q].status = "failed"] /\ UNCHANGED worker
    <3>1. [copy[q] EXCEPT !.status = "failed"] \in Job
      BY <1>1, <1>2 DEF TypeOK, Job, ACTIVE
    <3>2. copy' = [copy EXCEPT ![q] = [copy[q] EXCEPT !.status = "failed"]]
      BY <2>2
    <3> QED
      BY <1>1, <1>2, <2>2, <3>1, <3>2 DEF TypeOK, Job
  <2> QED
    BY <2>1, <2>2 DEF Launch
<1>4. LocksAreHeld'
  BY SMTT(30), <1>1, <1>3, GotoIs DEF TypeOK, LocksAreHeld, LockedPoints, RequestPoints, RunningPoints, lockVars
<1>5. TypeOK'
  BY <1>1, <1>3, <1>4, GotoIs DEF TypeOK, lockVars
<1>6. Informed'
  <2>1. ASSUME NEW p \in Requests, p # q PROVE InformedOf(p)'
    BY <1>1, <2>1, OneHolder, GotoIs DEF InformedOf, LockedPoints, RequestPoints
  <2>2. InformedOf(q)'
    BY <1>1, <1>2, <1>3, GotoIs DEF InformedOf
  <2> QED
    BY <2>1, <2>2 DEF Informed
<1>7. LaterAreNone'
  BY <1>1, <1>2, <1>3 DEF Inv, LaterAreNone, Attempts
<1>8. (EndedIsFree /\ OwnArtifacts /\ SettledSuccess /\ SucceededIsWhole)'
  BY SMTT(30), <1>1, <1>2, <1>3, GotoIs DEF Inv, EndedIsFree, OwnArtifacts, SettledSuccess, SucceededIsWhole
<1> QED
  BY <1>5, <1>6, <1>7, <1>8 DEF Inv

----
(* Workers.                                                                 *)

\* A worker moves on and changes nothing but job.json, the artifacts and the
\* listing; only who holds .run.lock is past the check.
LEMMA OneWorker ==
    ASSUME TypeOK, NEW a \in Attempts, worker[a] \in RunningPoints, NEW b \in Attempts, b # a
    PROVE  worker[b] \notin RunningPoints
BY DEF TypeOK, LocksAreHeld

\* What a step of one worker keeps, if it writes job.json for its own run only.
LEMMA WorkerInv ==
    ASSUME Inv, NEW a \in Attempts, worker[a] # "none",
           UNCHANGED <<ingestion, jobLock, requestVars>>,
           worker' \in [Attempts -> WorkerPoints],
           \A b \in Attempts \ {a} : worker'[b] = worker[b],
           listed' \in BOOLEAN, listed => listed',
           index' \in [run : 0 .. MaxAttempts, whole : BOOLEAN],
           runLock' \in Requests \cup Attempts \cup {None},
           LocksAreHeld',
           job' \in Job, job'.run = job.run, job' = job \/ jobLock = None,
           index' = index \/ worker[a] \in RunningPoints,
           worker'[a] \in {"verify", "register", "succeed"} => index' = [run |-> a, whole |-> TRUE],
           worker'[a] = "succeed" => listed',
           SettledSuccess', SucceededIsWhole'
    PROVE  Inv'
<1>1. TypeOK'
  BY DEF Inv, TypeOK, requestVars
<1>2. EndedIsFree' /\ LaterAreNone'
  BY DEF Inv, EndedIsFree, LaterAreNone, requestVars
<1>3. OwnArtifacts'
  <2>1. ASSUME NEW b \in Attempts, b # a, worker[b] \in RunningPoints PROVE index' = index
    BY <2>1, OneWorker DEF Inv
  <2> QED
    BY <2>1 DEF Inv, OwnArtifacts, RunningPoints, WorkerPoints
<1>4. Informed'
  <2>1. ASSUME NEW q \in Requests, request[q].pc \in LockedPoints PROVE job' = job
    BY <2>1, GraphRagConstants DEF Inv, TypeOK, LocksAreHeld
  <2>2. ASSUME NEW q \in Requests PROVE InformedOf(q)'
    <3>1. CASE request[q].pc \in LockedPoints
      <4>1. job' = job /\ InformedOf(q)
        BY <2>1, <3>1 DEF Inv, Informed
      <4>2. request[q].pc = "launch" => job.run \in Attempts /\ worker'[job.run] = "none"
        BY <4>1 DEF InformedOf, Inv, TypeOK, Job, Attempts
      <4> QED
        BY <4>1, <4>2 DEF InformedOf, requestVars
    <3>2. CASE request[q].pc \notin LockedPoints
      BY <3>2 DEF InformedOf, LockedPoints, RequestPoints, requestVars
    <3> QED
      BY <3>1, <3>2
  <2> QED
    BY <2>2 DEF Informed
<1> QED
  BY <1>1, <1>2, <1>3, <1>4 DEF Inv

\* Where a step of a worker takes it.
LEMMA StepsIs ==
    ASSUME TypeOK, NEW a \in Attempts, NEW p \in WorkerPoints, Steps(a, {p}), UNCHANGED runLock,
           worker[a] \in RunningPoints, p \in RunningPoints, UNCHANGED <<ingestion, jobLock, requestVars>>
    PROVE  /\ worker' \in [Attempts -> WorkerPoints] /\ worker'[a] = p
           /\ \A b \in Attempts \ {a} : worker'[b] = worker[b]
           /\ runLock' \in Requests \cup Attempts \cup {None} /\ LocksAreHeld'
<1>1. /\ worker' \in [Attempts -> WorkerPoints] /\ worker'[a] = p
      /\ \A b \in Attempts \ {a} : worker'[b] = worker[b]
  BY DEF TypeOK, Steps
<1> QED
  BY <1>1 DEF TypeOK, LocksAreHeld, requestVars

LEMMA ExitIs ==
    ASSUME TypeOK, NEW a \in Attempts, Exit(a), UNCHANGED <<ingestion, jobLock, requestVars>>
    PROVE  /\ worker' \in [Attempts -> WorkerPoints] /\ worker'[a] = "exited"
           /\ \A b \in Attempts \ {a} : worker'[b] = worker[b]
           /\ runLock' \in Requests \cup Attempts \cup {None} /\ LocksAreHeld'
<1>1. /\ worker' \in [Attempts -> WorkerPoints] /\ worker'[a] = "exited"
      /\ \A b \in Attempts \ {a} : worker'[b] = worker[b]
  BY DEF TypeOK, Exit, WorkerPoints
<1>2. runLock' = IF runLock = a THEN None ELSE runLock
  BY DEF Exit
<1>3. LocksAreHeld'
  BY <1>1, <1>2, GraphRagConstants DEF TypeOK, LocksAreHeld, requestVars, RunningPoints, WorkerPoints
<1> QED
  BY <1>1, <1>2, <1>3 DEF TypeOK

\* A worker that leaves, having written at most a failure.
LEMMA ExitInv ==
    ASSUME Inv, NEW a \in Attempts, worker[a] # "none", Exit(a),
           UNCHANGED <<listed, index, ingestion, jobLock, requestVars>>,
           \/ job' = job
           \/ /\ jobLock = None /\ job' \in Job /\ job'.run = job.run
              /\ job'.status # "succeeded"
    PROVE  Inv'
<1>1. TypeOK /\ job' \in Job /\ job'.run = job.run /\ (job' = job \/ jobLock = None)
      /\ job'.status = "succeeded" => job' = job
  BY DEF Inv, TypeOK
<1>2. SettledSuccess' /\ SucceededIsWhole'
  BY <1>1, ExitIs DEF Inv, SettledSuccess, SucceededIsWhole
<1> QED
  BY <1>1, <1>2, ExitIs, WorkerInv DEF Inv, TypeOK

\* A worker that goes on to a point where it has no artifacts of its own.
LEMMA GoesOnInv ==
    ASSUME Inv, NEW a \in Attempts, worker[a] \in RunningPoints, NEW p \in RunningPoints,
           Steps(a, {p}), UNCHANGED <<listed, runLock, ingestion, jobLock, requestVars>>,
           p \in {"verify", "register", "succeed"} => index' = [run |-> a, whole |-> TRUE],
           p = "succeed" => listed',
           index' \in [run : 0 .. MaxAttempts, whole : BOOLEAN],
           job' \in Job /\ job'.run = job.run /\ job'.status # "succeeded",
           job' = job \/ jobLock = None
    PROVE  Inv'
<1>1. TypeOK /\ p \in WorkerPoints /\ worker[a] # "none"
  BY DEF Inv, RunningPoints, WorkerPoints
<1>2. SettledSuccess' /\ SucceededIsWhole'
  BY DEF SettledSuccess, SucceededIsWhole
<1> QED
  BY <1>1, <1>2, StepsIs, WorkerInv DEF Inv, TypeOK

LEMMA BootInv == ASSUME Inv, NEW a \in Attempts, Boot(a) PROVE Inv'
<1> USE GraphRagConstants
<1>1. /\ TypeOK /\ worker[a] = "boot" /\ UNCHANGED <<job, listed, index, ingestion, jobLock, requestVars>>
  BY DEF Inv, Boot
<1>2. CASE Exit(a)
  BY <1>1, <1>2, ExitInv
<1>3. CASE runLock = None /\ runLock' = a /\ Steps(a, {"check"})
  <2>1. /\ worker' \in [Attempts -> WorkerPoints] /\ worker'[a] = "check"
        /\ \A b \in Attempts \ {a} : worker'[b] = worker[b]
    BY <1>1, <1>3 DEF TypeOK, Steps, WorkerPoints
  <2>2. LocksAreHeld'
    BY <1>1, <1>3, <2>1 DEF TypeOK, LocksAreHeld, requestVars, RunningPoints, WorkerPoints
  <2>3. SettledSuccess' /\ SucceededIsWhole'
    BY <1>1, <2>1 DEF Inv, SettledSuccess, SucceededIsWhole
  <2> QED
    BY <1>1, <1>3, <2>1, <2>2, <2>3, WorkerInv DEF TypeOK
<1> QED
  BY <1>1, <1>2, <1>3 DEF Boot

LEMMA CheckInv == ASSUME Inv, NEW a \in Attempts, Check(a) PROVE Inv'
<1>1. /\ TypeOK /\ worker[a] = "check" /\ UNCHANGED <<job, listed, index, ingestion, jobLock, requestVars>>
      /\ worker[a] \in RunningPoints /\ "claim" \in RunningPoints
  BY DEF Inv, Check, RunningPoints, WorkerPoints
<1>2. CASE Exit(a)
  BY <1>1, <1>2, ExitInv
<1>3. CASE job.status \in ACTIVE /\ Steps(a, {"claim"}) /\ UNCHANGED runLock
  BY <1>1, <1>3, GoesOnInv DEF TypeOK, ACTIVE
<1> QED
  BY <1>1, <1>2, <1>3 DEF Check

\* A worker past its check sees no success.
LEMMA NotYet ==
    ASSUME Inv, NEW a \in Attempts, worker[a] \in RunningPoints \ {"check"}
    PROVE  job.status # "succeeded"
BY DEF Inv, SettledSuccess, RunningPoints, WorkerPoints

LEMMA ClaimInv == ASSUME Inv, NEW a \in Attempts, Claim(a) PROVE Inv'
<1>1. /\ TypeOK /\ worker[a] = "claim" /\ worker[a] \in RunningPoints \ {"check"}
      /\ UNCHANGED <<listed, index, lockVars, requestVars>>
      /\ {"index", "fail"} \subseteq RunningPoints
  BY DEF Inv, Claim, RunningPoints, WorkerPoints
<1>2. PICK p \in {"index", "fail"} :
        /\ Steps(a, {p})
        /\ job' = job \/ (MayUpdate(a) /\ job' = [job EXCEPT !.status = "running", !.pid = a])
  BY DEF Claim, Steps
<1>3. job' \in Job /\ job'.run = job.run /\ job'.status # "succeeded"
  <2>1. a \in 0 .. MaxAttempts /\ job \in Job /\ job.status # "succeeded"
    BY <1>1, NotYet, GraphRagConstants DEF TypeOK, Attempts
  <2> QED
    BY <1>2, <2>1 DEF Job, ACTIVE
<1>4. job' = job \/ jobLock = None
  BY <1>2 DEF MayUpdate
<1> QED
  BY <1>1, <1>2, <1>3, <1>4, GoesOnInv DEF TypeOK, lockVars

LEMMA IndexInv == ASSUME Inv, NEW a \in Attempts, Index(a) PROVE Inv'
<1>1. /\ TypeOK /\ worker[a] \in RunningPoints \ {"check"} /\ job.status # "succeeded"
      /\ UNCHANGED <<job, listed, lockVars, requestVars>>
      /\ {"index", "fail", "verify"} \subseteq RunningPoints
  BY NotYet DEF Inv, Index, RunningPoints, WorkerPoints
<1>2. PICK p \in {"index", "fail", "verify"} :
        /\ Steps(a, {p})
        /\ index' \in {[run |-> a, whole |-> w] : w \in BOOLEAN}
        /\ p = "verify" => index' = [run |-> a, whole |-> TRUE]
  BY DEF Index, Steps
<1>3. index' \in [run : 0 .. MaxAttempts, whole : BOOLEAN]
  BY <1>2, GraphRagConstants DEF Attempts
<1> QED
  BY <1>1, <1>2, <1>3, GoesOnInv DEF TypeOK, lockVars

LEMMA VerifyInv == ASSUME Inv, NEW a \in Attempts, Verify(a) \/ Register(a) PROVE Inv'
<1>1. /\ TypeOK /\ worker[a] \in RunningPoints \ {"check"} /\ job.status # "succeeded"
      /\ UNCHANGED <<job, index, lockVars, requestVars>>
      /\ {"register", "succeed", "fail"} \subseteq RunningPoints
      /\ index = [run |-> a, whole |-> TRUE]
  BY NotYet DEF Inv, OwnArtifacts, Verify, Register, RunningPoints, WorkerPoints
<1>2. CASE Verify(a)
  <2>1. PICK p \in {"fail", "register"} : Steps(a, {p})
    BY <1>2 DEF Verify, Steps
  <2> QED
    BY <1>1, <1>2, <2>1, GoesOnInv DEF Verify, TypeOK, lockVars
<1>3. CASE Register(a) /\ Steps(a, {"fail"}) /\ UNCHANGED listed
  BY <1>1, <1>3, GoesOnInv DEF TypeOK, lockVars
<1>4. CASE Register(a) /\ listed' = TRUE /\ Steps(a, {"succeed"})
  <2>1. "succeed" \in WorkerPoints /\ worker[a] # "none"
    BY <1>1 DEF WorkerPoints, RunningPoints
  <2>2. SettledSuccess' /\ SucceededIsWhole'
    BY <1>1 DEF SettledSuccess, SucceededIsWhole
  <2>3. UNCHANGED <<runLock, ingestion, jobLock>>
    BY <1>1 DEF lockVars
  <2> QED
    BY <1>1, <1>4, <2>1, <2>2, <2>3, StepsIs, WorkerInv DEF TypeOK
<1> QED
  BY <1>2, <1>3, <1>4 DEF Register

LEMMA SucceedInv == ASSUME Inv, NEW a \in Attempts, Succeed(a) PROVE Inv'
<1>1. /\ TypeOK /\ worker[a] = "succeed" /\ worker[a] \in RunningPoints
      /\ UNCHANGED <<listed, index, ingestion, jobLock, requestVars>>
      /\ index = [run |-> a, whole |-> TRUE] /\ listed
  BY DEF Inv, OwnArtifacts, Succeed, RunningPoints, WorkerPoints
<1>2. CASE Steps(a, {"fail"}) /\ UNCHANGED <<job, runLock>>
  <2>1. "fail" \in RunningPoints /\ job.status # "succeeded"
    BY <1>1, NotYet DEF RunningPoints, WorkerPoints
  <2> QED
    BY <1>1, <1>2, <2>1, GoesOnInv DEF TypeOK
<1>3. CASE MayUpdate(a) /\ job' = [job EXCEPT !.status = "succeeded", !.pid = 0] /\ Exit(a)
  <2>1. job' \in Job /\ job'.run = a /\ job.run = a /\ jobLock = None
    <3>1. job \in Job /\ 0 \in 0 .. MaxAttempts /\ job.run = a
      BY <1>1, <1>3, GraphRagConstants DEF TypeOK, MayUpdate
    <3> QED
      BY <1>3, <3>1 DEF Job, MayUpdate
  <2>2. SucceededIsWhole'
    BY <1>1, <2>1 DEF SucceededIsWhole
  <2>3. ASSUME NEW b \in Attempts PROVE worker'[b] \in {"none", "boot", "check", "exited"}
    BY <1>1, <1>3, ExitIs, OneWorker DEF TypeOK, RunningPoints, WorkerPoints
  <2>4. SettledSuccess'
    BY <2>3 DEF SettledSuccess
  <2> QED
    BY <1>1, <1>3, <2>1, <2>2, <2>4, ExitIs, WorkerInv DEF TypeOK
<1> QED
  BY <1>2, <1>3 DEF Succeed

LEMMA FailInv == ASSUME Inv, NEW a \in Attempts, Fail(a) PROVE Inv'
<1>1. /\ TypeOK /\ worker[a] = "fail" /\ Exit(a)
      /\ UNCHANGED <<listed, index, ingestion, jobLock, requestVars>>
  BY DEF Inv, Fail
<1>2. CASE job' = job
  BY <1>1, <1>2, ExitInv
<1>3. CASE MayUpdate(a) /\ job' = [job EXCEPT !.status = "failed", !.pid = 0]
  <2>1. job \in Job /\ 0 \in 0 .. MaxAttempts
    BY <1>1, GraphRagConstants DEF TypeOK
  <2>2. job' \in Job /\ job'.run = job.run /\ job'.status # "succeeded"
    BY <1>3, <2>1 DEF Job
  <2> QED
    BY <1>1, <1>3, <2>2, ExitInv DEF MayUpdate
<1> QED
  BY <1>2, <1>3 DEF Fail

LEMMA CrashInv == ASSUME Inv, NEW a \in Attempts, Crash(a) PROVE Inv'
BY ExitInv DEF Crash

LEMMA OldInv == ASSUME Inv, LaunchGrowsOld PROVE Inv'
<1>1. /\ job \in Job /\ job' = [job EXCEPT !.fresh = FALSE]
      /\ UNCHANGED <<listed, index, lockVars, requestVars, worker>>
  BY DEF LaunchGrowsOld, Inv, TypeOK
<1>2. job' \in Job /\ job'.status = job.status /\ job'.run = job.run
  BY <1>1 DEF Job
<1> QED
  BY <1>1, <1>2 DEF Inv, TypeOK, LocksAreHeld, EndedIsFree, LaterAreNone, Informed, InformedOf,
       OwnArtifacts, SettledSuccess, SucceededIsWhole, lockVars, requestVars

----
LEMMA NextInv == Inv /\ [Next]_vars => Inv'
<1> SUFFICES ASSUME Inv, [Next]_vars PROVE Inv'
  OBVIOUS
<1>1. ASSUME NEW q \in Requests, Get(q) \/ Start(q) \/ Again(q) PROVE Inv'
  BY <1>1, RequestInv
<1>2. ASSUME NEW q \in Requests, Served(q) PROVE Inv'
  BY <1>2, LockJobInv, RefreshInv, ProbeInv, DecideInv, QueueInv, LaunchInv, NoteInv DEF Served
<1>3. ASSUME NEW q \in Requests, Abort(q) PROVE Inv'
  BY <1>3, EndInv DEF Abort
<1>4. ASSUME NEW a \in Attempts, Work(a) PROVE Inv'
  BY <1>4, BootInv, CheckInv, ClaimInv, VerifyInv, SucceedInv, FailInv, IndexInv DEF Work
<1>5. ASSUME NEW a \in Attempts, Crash(a) PROVE Inv'
  BY <1>5, CrashInv
<1>6. CASE LaunchGrowsOld
  BY <1>6, OldInv
<1>7. CASE UNCHANGED vars
  BY <1>7 DEF vars, Inv, TypeOK, LocksAreHeld, EndedIsFree, LaterAreNone, Informed, InformedOf,
       OwnArtifacts, SettledSuccess, SucceededIsWhole, lockVars, requestVars
<1> QED
  BY <1>1, <1>2, <1>3, <1>4, <1>5, <1>6, <1>7 DEF Next

(* The strengthening, for every number of retries and of requests.         *)
THEOREM InvHolds == Spec => []Inv
BY InitInv, NextInv, PTL DEF Spec

(* Types, and every flock is held exactly where its with statement is.      *)
THEOREM TypeCorrect == Spec => []TypeOK
<1>1. Inv => TypeOK
  BY DEF Inv
<1> QED
  BY <1>1, InvHolds, PTL

(* A succeeded job names whole, listed artifacts of its own run.            *)
THEOREM SuccessIsWhole == Spec => []SucceededIsWhole
<1>1. Inv => SucceededIsWhole
  BY DEF Inv
<1> QED
  BY <1>1, InvHolds, PTL

(* A success is never taken back, retried or written over.                  *)
THEOREM SuccessIsFinal == Spec => SucceededIsFinal
<1>1. Inv /\ [Next]_vars =>
        [job.status = "succeeded" =>
            job'.status = "succeeded" /\ job'.run = job.run /\ UNCHANGED index]_vars
  <2> SUFFICES ASSUME Inv, Next, job.status = "succeeded"
               PROVE  job'.status = "succeeded" /\ job'.run = job.run /\ UNCHANGED index
    OBVIOUS
  <2>1. job \in Job /\ ~("succeeded" \in ACTIVE)
    BY DEF Inv, TypeOK, ACTIVE
  <2>2. ASSUME NEW q \in Requests, Get(q) \/ Start(q) \/ Served(q) \/ Abort(q) \/ Again(q)
        PROVE  UNCHANGED <<job, index>>
    <3>1. request[q].pc \notin {"probe", "probing", "decide", "queue", "launch", "note"}
      BY <2>1 DEF Inv, Informed, InformedOf
    <3> QED
      BY <2>2, <3>1 DEF Served, Get, Start, LockJob, Refresh, Probe, ProbeDone, Decide, Queue, Launch,
         Note, Abort, Again, At
  <2>3. ASSUME NEW a \in Attempts, Work(a) \/ Crash(a) PROVE UNCHANGED <<job, index>>
    <3>1. worker[a] \in {"none", "boot", "check", "exited"}
      BY DEF Inv, SettledSuccess
    <3> QED
      BY <2>3, <3>1 DEF Work, Boot, Check, Claim, Index, Verify, Register, Succeed, Fail, Crash
  <2>4. CASE LaunchGrowsOld
    BY <2>1, <2>4 DEF LaunchGrowsOld, Job
  <2> QED
    BY <2>2, <2>3, <2>4 DEF Next
<1> QED
  BY <1>1, InvHolds, PTL DEF Spec, SucceededIsFinal

----
(* Questions.                                                               *)

LEMMA QuerySets ==
    /\ \A S : Q!Cardinality(S) = Cardinality(S)
    /\ \A S : Q!IsFiniteSet(S) <=> IsFiniteSet(S)
BY DEF Q!Cardinality, Cardinality, Q!IsFiniteSet, IsFiniteSet

LEMMA QueryFacts ==
    /\ None \notin Clients /\ EvidenceEdges \in Nat
    /\ \A m \in DOMAIN Names : Names[m] # {}
    /\ \A d \in DOMAIN Tables :
        IsFiniteSet(Tables[d].rels) /\ \A r \in Tables[d].rels : r.rank \in Int
BY InputsAssumption, QuerySets DEF Q!QueryConstants

Inside == {"inputs", "search", "stream", "dropped", "evidence"}

\* Who is in the lock, with which models; what an answer was made of.
QueryInv ==
    /\ pc \in [Clients -> Inside \cup {"idle", "wait", "answered"}]
    /\ ask \in [Clients -> [data : DOMAIN Tables \cup {None}, method : DOMAIN Names \cup {None}, stream : BOOLEAN]]
    /\ answer = [c \in Clients |-> [used |-> answer[c].used, evidence |-> answer[c].evidence]]
    /\ \A c \in Clients :
        /\ pc[c] \in Inside <=> holder = c
        /\ pc[c] # "idle" => ask[c].data \in DOMAIN Tables /\ ask[c].method \in DOMAIN Names
        /\ pc[c] = "search" => \A n \in Q!AllNames : models[n] = None
        /\ pc[c] \in {"stream", "dropped", "evidence", "answered"} => answer[c].used = {ask[c].data}
        /\ pc[c] = "answered" /\ ask[c].stream =>
            \E x \in Contexts : answer[c].evidence = Q!Evidence(Tables[ask[c].data], x)

LEMMA QueryInit == Q!Init => QueryInv
<1> SUFFICES ASSUME Q!Init PROVE QueryInv
  OBVIOUS
<1>1. /\ pc = [c \in Clients |-> "idle"] /\ holder = None
      /\ ask = [c \in Clients |-> [data |-> None, method |-> None, stream |-> FALSE]]
      /\ answer = [c \in Clients |-> [used |-> {}, evidence |-> None]]
  BY DEF Q!Init, Q!NoAsk, Q!NoAnswer
<1> QED
  BY <1>1, QueryFacts DEF QueryInv, Inside

\* A client that goes on; the others are where they were.
LEMMA QueryStep ==
    ASSUME QueryInv, [Q!Next]_queriesVars PROVE QueryInv'
<1>1. CASE UNCHANGED queriesVars
  BY <1>1 DEF QueryInv, queriesVars
<1>2. ASSUME NEW c \in Clients, NEW d \in DOMAIN Tables, NEW m \in DOMAIN Names, NEW s \in BOOLEAN, Q!Ask(c, d, m, s)
      PROVE QueryInv'
  BY <1>2, QueryFacts DEF Q!Ask, Q!Goto, QueryInv, Inside
<1>3. ASSUME NEW c \in Clients, Q!Acquire(c) PROVE QueryInv'
  BY <1>3, QueryFacts DEF Q!Acquire, Q!Goto, QueryInv, Inside
<1>4. ASSUME NEW c \in Clients, Q!Load(c) PROVE QueryInv'
  BY <1>4, QueryFacts DEF Q!Load, Q!Goto, Q!Clear, QueryInv, Inside
<1>5. ASSUME NEW c \in Clients, Q!Search(c) PROVE QueryInv'
  <2>1. /\ pc[c] = "search" /\ ask[c].data \in DOMAIN Tables /\ ask[c].method \in DOMAIN Names
        /\ \A n \in Q!AllNames : models[n] = None
    BY <1>5 DEF Q!Search, QueryInv
  <2> DEFINE own(n) == IF models[n] = None THEN ask[c].data ELSE models[n]
             used == {own(n) : n \in Names[ask[c].method]}
  <2>2. used = {ask[c].data}
    <3>1. Names[ask[c].method] \subseteq Q!AllNames /\ Names[ask[c].method] # {}
      <4> DEFINE m == ask[c].method
      <4>1. m \in DOMAIN Names
        BY <2>1
      <4> HIDE DEF m
      <4>2. Names[m] \subseteq Q!AllNames /\ Names[m] # {}
        BY <4>1, QueryFacts DEF Q!AllNames, Q!Methods
      <4> QED
        BY <4>2 DEF m
    <3>2. \A n \in Names[ask[c].method] : own(n) = ask[c].data
      BY <2>1, <3>1
    <3> QED
      BY <3>1, <3>2
  <2>3. /\ answer' = [answer EXCEPT ![c].used = used]
        /\ pc' = [pc EXCEPT ![c] = IF ask[c].stream THEN "stream" ELSE "evidence"]
        /\ UNCHANGED <<indexed, queue, holder, ask>>
    BY <1>5 DEF Q!Search, Q!Goto
  <2> HIDE DEF used, own
  <2>4. /\ answer' = [e \in Clients |-> [used |-> answer'[e].used, evidence |-> answer'[e].evidence]]
        /\ answer'[c].used = {ask[c].data}
        /\ \A e \in Clients \ {c} : answer'[e] = answer[e]
    <3>1. /\ answer' = [e \in Clients |-> [used |-> answer'[e].used, evidence |-> answer'[e].evidence]]
          /\ answer'[c].used = used
          /\ \A e \in Clients \ {c} : answer'[e] = answer[e]
      <4>1. answer' = [answer EXCEPT ![c].used = used]
        BY <2>3
      <4>2. answer = [e \in Clients |-> [used |-> answer[e].used, evidence |-> answer[e].evidence]]
        BY DEF QueryInv
      <4> QED
        BY <4>1, <4>2
    <3> QED
      BY <2>2, <3>1
  <2>5. /\ pc' \in [Clients -> Inside \cup {"idle", "wait", "answered"}]
        /\ pc'[c] \in {"stream", "evidence"} /\ \A e \in Clients \ {c} : pc'[e] = pc[e]
    BY <2>3 DEF QueryInv, Inside
  <2>6. \A e \in Clients \ {c} : pc[e] \notin Inside
    BY <2>1 DEF QueryInv, Inside
  <2> QED
    BY <2>1, <2>3, <2>4, <2>5, <2>6 DEF QueryInv, Inside
<1>6. ASSUME NEW c \in Clients, Q!Piece(c) PROVE QueryInv'
  BY SMTT(30), <1>6, QueryFacts DEF Q!Piece, Q!Goto, QueryInv, Inside
<1>7. ASSUME NEW c \in Clients, NEW x \in Contexts, Q!Answer(c, x) PROVE QueryInv'
  <2> DEFINE e == Q!Evidence(Tables[ask[c].data], x)
  <2>1. /\ pc[c] = "evidence" /\ pc' = [pc EXCEPT ![c] = "answered"] /\ holder' = None
        /\ ask' = ask
        /\ answer' = IF ask[c].stream THEN [answer EXCEPT ![c].evidence = e] ELSE answer
    BY <1>7 DEF Q!Answer, Q!Goto
  <2>2. /\ answer' = [d \in Clients |-> [used |-> answer'[d].used, evidence |-> answer'[d].evidence]]
        /\ answer'[c].used = answer[c].used
        /\ ask[c].stream => answer'[c].evidence = Q!Evidence(Tables[ask[c].data], x)
        /\ \A d \in Clients \ {c} : answer'[d] = answer[d]
    <3> HIDE DEF e
    <3>1. /\ answer' = [d \in Clients |-> [used |-> answer'[d].used, evidence |-> answer'[d].evidence]]
          /\ answer'[c].used = answer[c].used
          /\ ask[c].stream => answer'[c].evidence = e
          /\ \A d \in Clients \ {c} : answer'[d] = answer[d]
      BY SMTT(30), <2>1 DEF QueryInv
    <3> QED
      BY <3>1 DEF e
  <2> HIDE DEF e
  <2>3. \A d \in Clients : pc'[d] # "search" \/ d # c
    BY <2>1 DEF QueryInv
  <2>4. \A d \in Clients \ {c} : pc[d] \notin Inside /\ pc'[d] = pc[d]
    BY <2>1 DEF QueryInv, Inside
  <2>5. pc' \in [Clients -> Inside \cup {"idle", "wait", "answered"}] /\ pc'[c] = "answered"
    BY <2>1 DEF QueryInv
  <2> QED
    BY <2>1, <2>2, <2>4, <2>5, QueryFacts DEF QueryInv, Inside
<1>8. ASSUME NEW c \in Clients, Q!Deliver(c) \/ Q!Break(c) \/ Q!Leave(c) \/ Q!Close(c) PROVE QueryInv'
  <2>1. CASE /\ pc[c] \in Inside \cup {"wait", "answered"} /\ Q!Over(c)
             /\ pc[c] \in Inside => holder' = None
             /\ pc[c] \notin Inside => UNCHANGED <<holder, models>>
    <3>1. /\ pc' = [pc EXCEPT ![c] = "idle"]
          /\ ask' = [ask EXCEPT ![c] = [data |-> None, method |-> None, stream |-> FALSE]]
          /\ answer' = [answer EXCEPT ![c] = [used |-> {}, evidence |-> None]]
      BY <2>1 DEF Q!Over, Q!NoAsk, Q!NoAnswer, Q!Goto
    <3>2. \A d \in Clients \ {c} : pc'[d] = pc[d] /\ ask'[d] = ask[d] /\ answer'[d] = answer[d]
      BY <3>1 DEF QueryInv
    <3>3. /\ pc'[c] = "idle" /\ pc' \in [Clients -> Inside \cup {"idle", "wait", "answered"}]
          /\ ask' \in [Clients -> [data : DOMAIN Tables \cup {None}, method : DOMAIN Names \cup {None}, stream : BOOLEAN]]
          /\ answer' = [d \in Clients |-> [used |-> answer'[d].used, evidence |-> answer'[d].evidence]]
      BY <3>1 DEF QueryInv
    <3>4. \A d \in Clients : pc'[d] \in Inside <=> holder' = d
      BY <2>1, <3>2, <3>3, QueryFacts DEF QueryInv, Inside
    <3>5. \A d \in Clients : pc'[d] = "search" => UNCHANGED models
      BY <2>1, <3>2, <3>3 DEF QueryInv, Inside
    <3> QED
      BY <3>2, <3>3, <3>4, <3>5 DEF QueryInv
  <2>2. CASE pc[c] = "stream" /\ Q!Goto(c, "dropped") /\ UNCHANGED <<holder, models, ask, answer>>
    BY <2>2 DEF Q!Goto, QueryInv, Inside
  <2> QED
    BY <1>8, <2>1, <2>2 DEF Q!Deliver, Q!Break, Q!Leave, Q!Close, Inside
<1>9. ASSUME NEW d \in DOMAIN Tables, Q!Finish(d) PROVE QueryInv'
  BY <1>9 DEF Q!Finish, QueryInv
<1> QED
  BY <1>1, <1>2, <1>3, <1>4, <1>5, <1>6, <1>7, <1>8, <1>9 DEF Q!Next, Q!Step, Q!Datasets, Q!Methods

----
(* Evidence.                                                                *)

Less == {p \in Nat \X Nat : p[1] < p[2]}

LEMMA LessWF == IsWellFoundedOn(Less, Nat)
BY NatLessThanWellFounded DEF OpToRel, Less

\* A set of numbers has a least one.
LEMMA LeastNat ==
    ASSUME NEW numbers, numbers \subseteq Nat, numbers # {}
    PROVE  \E x \in numbers : \A y \in numbers : x <= y
<1>1. PICK x \in numbers : \A y \in numbers : ~(<<y, x>> \in Less)
  BY LessWF, WFMin
<1>2. ASSUME NEW a \in Nat, NEW b \in Nat, a < b PROVE <<a, b>> \in Less
  <2>1. <<a, b>>[1] = a /\ <<a, b>>[2] = b /\ <<a, b>> \in Nat \X Nat
    OBVIOUS
  <2> QED
    BY <1>2, <2>1 DEF Less
<1>3. ASSUME NEW y \in numbers PROVE x <= y
  <2>1. ~(y < x)
    BY <1>1, <1>2, <1>3
  <2> QED
    BY <2>1
<1> QED
  BY <1>3

\* A finite set has members of the highest rank.
LEMMA HighestRank ==
    ASSUME NEW S, IsFiniteSet(S), S # {}, \A r \in S : r.rank \in Int
    PROVE  \E h \in S : \A r \in S : h.rank >= r.rank
<1> DEFINE Above(h) == {r \in S : r.rank > h.rank}
           sizes == {Cardinality(Above(h)) : h \in S}
<1>1. \A h \in S : IsFiniteSet(Above(h)) /\ Cardinality(Above(h)) \in Nat
  BY FS_Subset, FS_CardinalityType
<1>2. sizes \subseteq Nat /\ sizes # {}
  BY <1>1
<1>3. PICK h \in S : \A g \in S : Cardinality(Above(h)) <= Cardinality(Above(g))
  <2> HIDE DEF sizes
  <2>1. PICK n \in sizes : \A m \in sizes : n <= m
    BY <1>2, LeastNat
  <2> QED
    BY ZenonT(40), <2>1 DEF sizes
<1>4. ASSUME NEW r \in S, r.rank > h.rank PROVE FALSE
  <2>1. Above(r) \in SUBSET Above(h) /\ r \in Above(h) /\ r \notin Above(r)
    BY <1>4
  <2> HIDE DEF Above
  <2>2. Cardinality(Above(r)) = Cardinality(Above(h))
    BY <1>1, <1>3, <2>1, FS_Subset
  <2>3. Above(r) = Above(h)
    BY <1>1, <2>1, <2>2, FS_Subset
  <2> QED
    BY <2>1, <2>3
<1> QED
  BY <1>4

\* The k relationships of the highest ranks, for every k.
LEMMA BestExist ==
    ASSUME NEW S, IsFiniteSet(S), \A r \in S : r.rank \in Int,
           NEW k \in Nat, k <= Cardinality(S)
    PROVE  \E best \in SUBSET S :
              Cardinality(best) = k /\ \A r \in best, s \in S \ best : r.rank >= s.rank
<1> DEFINE Best(j, B) == Cardinality(B) = j /\ \A r \in B, s \in S \ B : r.rank >= s.rank
           stuck == {j \in 0 .. Cardinality(S) : ~ \E B \in SUBSET S : Best(j, B)}
<1>0. Cardinality(S) \in Nat
  BY FS_CardinalityType
<1> SUFFICES ASSUME stuck # {} PROVE FALSE
  BY <1>0
<1>1. PICK j \in stuck : \A i \in stuck : j <= i
  <2>1. stuck \subseteq Nat
    BY <1>0
  <2> QED
    BY <2>1, LeastNat
<1>2. j # 0
  <2>1. Best(0, {})
    BY FS_EmptySet
  <2> QED
    BY <1>1, <2>1
<1>3. j - 1 \in 0 .. Cardinality(S) /\ ~(j <= j - 1) /\ j - 1 < Cardinality(S) /\ j \in Nat
  BY <1>0, <1>1, <1>2
<1>4. PICK B \in SUBSET S : Best(j - 1, B)
  BY <1>1, <1>3
<1>5. IsFiniteSet(B) /\ IsFiniteSet(S \ B) /\ S \ B # {}
  <2>1. IsFiniteSet(B) /\ IsFiniteSet(S \ B)
    BY FS_Subset
  <2>2. B # S
    BY <1>3, <1>4
  <2> QED
    BY <2>1, <2>2
<1>6. PICK h \in S \ B : \A r \in S \ B : h.rank >= r.rank
  BY <1>5, HighestRank
<1>7. Cardinality(B \cup {h}) = j
  <2>1. Cardinality(B \cup {h}) = Cardinality(B) + 1
    BY <1>5, <1>6, FS_AddElement
  <2> QED
    BY <1>3, <1>4, <2>1
<1>8. ASSUME NEW r \in B \cup {h}, NEW s \in S \ (B \cup {h}) PROVE r.rank >= s.rank
  <2>1. s \in S \ B
    OBVIOUS
  <2>2. CASE r = h
    BY <1>6, <2>1, <2>2
  <2>3. CASE r \in B
    BY <1>4, <2>1, <2>3
  <2> QED
    BY <2>2, <2>3
<1> QED
  BY <1>1, <1>6, <1>7, <1>8

LEMMA InducedInside ==
    ASSUME NEW d \in DOMAIN Tables, NEW titles, NEW r \in Q!Induced(Tables[d], titles)
    PROVE  r \in Tables[d].rels /\ {r.source, r.target} \subseteq titles
<1> DEFINE inside == {s \in Tables[d].rels : {s.source, s.target} \subseteq titles /\ s.source # s.target}
<1>1. IsFiniteSet(inside) /\ \A s \in inside : s.rank \in Int
  BY QueryFacts, FS_Subset
<1>2. CASE Cardinality(inside) <= EvidenceEdges
  BY <1>2, QuerySets DEF Q!Induced
<1>3. CASE ~(Cardinality(inside) <= EvidenceEdges)
  <2> DEFINE best == CHOOSE best \in SUBSET inside :
                /\ Cardinality(best) = EvidenceEdges
                /\ \A x \in best, y \in inside \ best : x.rank >= y.rank
  <2>1. Q!Induced(Tables[d], titles) = best
    BY <1>3, QuerySets DEF Q!Induced
  <2> HIDE DEF inside
  <2>2. best \in SUBSET inside
    <3>1. Cardinality(inside) \in Nat /\ EvidenceEdges <= Cardinality(inside) /\ EvidenceEdges \in Nat
      BY <1>1, <1>3, QueryFacts, FS_CardinalityType
    <3>2. \E b \in SUBSET inside :
              Cardinality(b) = EvidenceEdges /\ \A x \in b, y \in inside \ b : x.rank >= y.rank
      BY <1>1, <3>1, BestExist
    <3> QED
      BY <3>2
  <2> HIDE DEF best
  <2>3. r \in inside
    BY <2>1, <2>2
  <2> QED
    BY <2>3 DEF inside
<1> QED
  BY <1>2, <1>3

\* The ends of what is shown and cited are shown.
LEMMA EvidenceClosed ==
    ASSUME NEW d \in DOMAIN Tables, NEW x
    PROVE  LET T == Tables[d]
               e == Q!Evidence(T, x)
           IN  /\ e.cited \subseteq e.nodes
               /\ \A r \in e.edges : Q!Ids(T, {r.source, r.target}) \subseteq e.nodes
               /\ \A r \in e.citedEdges : Q!Ids(T, {r.source, r.target}) \subseteq e.nodes
               /\ Q!Accepted(T) => \A r \in e.edges : {r.source, r.target} \subseteq Q!Titles(T)
<1> DEFINE T == Tables[d]
           g == Q!Grounded(T, x)
           titles == g.titles \cup Q!Ends(T, x)
           basic == titles = {} /\ x.sources # {}
           shown == IF basic THEN Q!InSources(T, x.sources) ELSE titles
           cited == IF basic THEN Q!InSources(T, x.sources \cap x.cites.sources) ELSE g.cited
           edges == IF basic THEN Q!Induced(T, shown) ELSE Q!Edges(T, x, titles)
           e == Q!Evidence(T, x)
<1>1. /\ e.nodes = Q!Ids(T, shown) /\ e.cited = Q!Ids(T, cited)
      /\ e.edges = edges /\ e.citedEdges = Q!CitedRels(T, x)
  BY DEF Q!Evidence
<1>2. g.cited \subseteq g.titles /\ g.titles \subseteq Q!Titles(T)
  BY DEF Q!Grounded, Q!FromReports, Q!Members, Q!Titles
<1>3. cited \subseteq shown /\ shown \subseteq Q!Titles(T)
  <2>1. \A S, U : S \subseteq U => Q!InSources(T, S) \subseteq Q!InSources(T, U)
    BY DEF Q!InSources
  <2>2. \A S : Q!InSources(T, S) \subseteq Q!Titles(T)
    BY DEF Q!InSources, Q!Titles
  <2>3. Q!Ends(T, x) \subseteq Q!Titles(T)
    BY DEF Q!Ends
  <2> QED
    BY <1>2, <2>1, <2>2, <2>3
<1>4. \A S, U : S \cap Q!Titles(T) \subseteq U => Q!Ids(T, S) \subseteq Q!Ids(T, U)
  BY DEF Q!Ids, Q!Titles
<1>5. ASSUME NEW r \in edges PROVE {r.source, r.target} \subseteq shown
  <2>1. \A S : \A s \in Q!Induced(T, S) : {s.source, s.target} \subseteq S
    BY InducedInside
  <2>2. CASE basic
    BY <1>5, <2>1, <2>2
  <2>3. CASE ~basic
    <3> DEFINE inContext == {s \in T.rels :
            /\ <<s.source, s.target>> \in x.rels \/ <<s.target, s.source>> \in x.rels
            /\ {s.source, s.target} \subseteq titles}
    <3>1. edges = IF inContext # {} THEN inContext ELSE Q!Induced(T, titles)
      BY <2>3 DEF Q!Edges
    <3>2. \A s \in inContext : {s.source, s.target} \subseteq titles
      OBVIOUS
    <3> HIDE DEF inContext, titles, edges
    <3>3. {r.source, r.target} \subseteq titles
      BY <1>5, <2>1, <3>1, <3>2
    <3> QED
      BY <2>3, <3>3
  <2> QED
    BY <2>2, <2>3
<1>6. ASSUME NEW r \in Q!CitedRels(T, x) PROVE {r.source, r.target} \cap Q!Titles(T) \subseteq shown
  <2>1. {r.source, r.target} \cap Q!Titles(T) \subseteq Q!Ends(T, x)
    BY DEF Q!Ends
  <2>2. Q!Ends(T, x) \subseteq titles /\ titles \subseteq shown
    OBVIOUS
  <2> HIDE DEF titles, shown
  <2> QED
    BY <2>1, <2>2
<1> HIDE DEF T, g, titles, basic, shown, cited, edges, e
<1>7. /\ e.cited \subseteq e.nodes
      /\ \A r \in e.edges : Q!Ids(T, {r.source, r.target}) \subseteq e.nodes
      /\ \A r \in e.citedEdges : Q!Ids(T, {r.source, r.target}) \subseteq e.nodes
      /\ \A r \in e.edges : {r.source, r.target} \subseteq Q!Titles(T)
  BY <1>1, <1>3, <1>4, <1>5, <1>6
<1> QED
  BY <1>7 DEF e, T

LEMMA QueryIsSound == ASSUME QueryInv PROVE Q!AnswersUseOwnModels /\ Q!EvidenceIsClosed
<1>1. Q!AnswersUseOwnModels
  BY DEF QueryInv, Q!AnswersUseOwnModels
<1>2. ASSUME NEW c \in Clients, pc[c] = "answered", ask[c].stream
      PROVE  \E x \in Contexts : ask[c].data \in DOMAIN Tables /\ answer[c].evidence = Q!Evidence(Tables[ask[c].data], x)
  BY <1>2 DEF QueryInv
<1>3. Q!EvidenceIsClosed
  BY <1>2, EvidenceClosed DEF Q!EvidenceIsClosed
<1> QED
  BY <1>1, <1>3

----
(* The numbers of a finite set, the least first.                            *)
Sorted(S) == [i \in 1 .. Cardinality(S) |-> CHOOSE n \in S : Cardinality({m \in S : m < n}) = i - 1]

LEMMA SortedIs ==
    ASSUME NEW S \in SUBSET Nat, IsFiniteSet(S)
    PROVE  /\ Cardinality(S) \in Nat
           /\ Sorted(S) \in [1 .. Cardinality(S) -> S]
           /\ \A i, j \in 1 .. Cardinality(S) : i < j => Sorted(S)[i] < Sorted(S)[j]
           /\ \A x \in S : \E i \in 1 .. Cardinality(S) : Sorted(S)[i] = x
<1> DEFINE n == Cardinality(S)
           Under(x) == {m \in S : m < x}
           rank == [x \in S |-> Cardinality(Under(x)) + 1]
<1>1. n \in Nat
  BY FS_CardinalityType
<1>2. ASSUME NEW x \in S PROVE IsFiniteSet(Under(x)) /\ Cardinality(Under(x)) \in Nat /\ rank[x] \in 1 .. n
  <2>1. Under(x) \in SUBSET S /\ x \notin Under(x)
    OBVIOUS
  <2>5. rank[x] = Cardinality(Under(x)) + 1
    OBVIOUS
  <2> HIDE DEF Under, rank
  <2>2. IsFiniteSet(Under(x)) /\ Cardinality(Under(x)) <= n /\ (n = Cardinality(Under(x)) => S = Under(x))
    BY <2>1, FS_Subset
  <2>3. Cardinality(Under(x)) \in Nat
    BY <2>2, FS_CardinalityType
  <2>4. Cardinality(Under(x)) # n
    BY <2>1, <2>2
  <2> QED
    BY <1>1, <2>2, <2>3, <2>4, <2>5
<1>3. ASSUME NEW x \in S, NEW y \in S, x < y PROVE rank[x] < rank[y]
  <2>1. Under(x) \cup {x} \in SUBSET Under(y) /\ x \notin Under(x)
    <3>1. \A m \in S : m \in Nat
      OBVIOUS
    <3>2. \A m \in S : m < x => m < y
      BY <1>3, <3>1
    <3>3. ~(x < x)
      BY <3>1
    <3> QED
      BY <1>3, <3>2, <3>3
  <2> HIDE DEF Under
  <2>2. Cardinality(Under(x) \cup {x}) = Cardinality(Under(x)) + 1
    BY <1>2, <2>1, FS_AddElement
  <2>3. Cardinality(Under(x) \cup {x}) <= Cardinality(Under(y))
    BY <1>2, <2>1, FS_Subset
  <2> QED
    BY <1>2, <2>2, <2>3
<1>4. rank \in [S -> 1 .. n]
  BY <1>2
<1>5. \A x, y \in S : rank[x] = rank[y] => x = y
  <2> HIDE DEF rank
  <2> TAKE x, y \in S
  <2>1. rank[x] \in Nat /\ rank[y] \in Nat /\ x \in Nat /\ y \in Nat
    BY <1>1, <1>4
  <2> QED
    BY <1>3, <2>1
<1>6. \A i \in 1 .. n : \E x \in S : rank[x] = i
  <2>1. rank \in Injection(S, 1 .. n)
    BY <1>4, <1>5 DEF Injection, IsInjective
  <2>2. IsFiniteSet(1 .. n) /\ Cardinality(1 .. n) = n
    BY <1>1, FS_Interval
  <2> HIDE DEF rank
  <2>3. rank \in Surjection(S, 1 .. n)
    BY <2>1, <2>2, FS_Injection
  <2> QED
    BY <2>3 DEF Surjection
<1>7. ASSUME NEW i \in 1 .. n PROVE Sorted(S)[i] \in S /\ rank[Sorted(S)[i]] = i
  <2>1. PICK x \in S : rank[x] = i
    BY <1>6
  <2>2. Cardinality(Under(x)) = i - 1
    BY <1>2, <2>1
  <2>3. Sorted(S)[i] = CHOOSE y \in S : Cardinality(Under(y)) = i - 1
    BY DEF Sorted
  <2> HIDE DEF Under
  <2>4. Sorted(S)[i] \in S /\ Cardinality(Under(Sorted(S)[i])) = i - 1
    BY <2>2, <2>3
  <2>5. \A y \in S : rank[y] = Cardinality(Under(y)) + 1
    OBVIOUS
  <2> QED
    BY <1>1, <2>4, <2>5
<1>8. DOMAIN Sorted(S) = 1 .. n /\ Sorted(S) = [i \in 1 .. n |-> Sorted(S)[i]]
  <2> DEFINE pick(i) == CHOOSE y \in S : Cardinality(Under(y)) = i - 1
  <2>1. Sorted(S) = [i \in 1 .. n |-> pick(i)]
    BY DEF Sorted
  <2> HIDE DEF pick, n
  <2> QED
    BY <2>1
<1> HIDE DEF rank, Under
<1>9. Sorted(S) \in [1 .. n -> S]
  BY <1>7, <1>8
<1>10. ASSUME NEW i \in 1 .. n, NEW j \in 1 .. n, i < j PROVE Sorted(S)[i] < Sorted(S)[j]
  <2> DEFINE x == Sorted(S)[i]
             y == Sorted(S)[j]
  <2>1. x \in S /\ y \in S /\ rank[x] = i /\ rank[y] = j
    BY <1>7
  <2>2. x \in Nat /\ y \in Nat
    BY <2>1
  <2> HIDE DEF x, y
  <2>3. x < y
    BY <1>1, <1>3, <1>10, <2>1, <2>2
  <2> QED
    BY <2>3 DEF x, y
<1>11. ASSUME NEW x \in S PROVE \E i \in 1 .. n : Sorted(S)[i] = x
  BY <1>4, <1>5, <1>7
<1> QED
  BY <1>1, <1>9, <1>10, <1>11

LEMMA BrowserSets ==
    /\ \A S : V!Ascending(S) = Sorted(S)
    /\ \A S : V!Cardinality(S) = Cardinality(S)
    /\ \A S : V!IsFiniteSet(S) <=> IsFiniteSet(S)
<1>1. \A S : V!Ascending(S) = Sorted(S)
  BY DEF V!Ascending, Sorted, V!Cardinality, Cardinality
<1> QED
  BY <1>1 DEF V!Cardinality, Cardinality, V!IsFiniteSet, IsFiniteSet

LEMMA BrowserFacts ==
    /\ None \notin Versions /\ PageLimit \in Nat \ {0} /\ PageEdges \in Nat
    /\ \A v \in Versions :
        /\ Content[v].nodes \in [DOMAIN Content[v].nodes -> Concepts]
        /\ DOMAIN Content[v].nodes \subseteq Nat \ {0}
        /\ IsFiniteSet(DOMAIN Content[v].nodes) /\ IsFiniteSet(Content[v].edges)
BY InputsAssumption, BrowserSets DEF V!BrowserConstants

LEMMA MinOf ==
    ASSUME NEW a \in Nat, NEW b \in Nat PROVE V!Min({a, b}) = IF a <= b THEN a ELSE b
BY DEF V!Min

----
(* Pages of a version.                                                      *)

Foci == UNION {DOMAIN Content[w].nodes : w \in Versions}
Page == [ids : Seq(Nat), edges : SUBSET UNION {Content[w].edges : w \in Versions}, truncated : BOOLEAN]
View == [stage : {"idle", "count", "ids", "edges", "page", "end"}, version : Versions \cup {None},
         concept : Concepts \cup {None}, focus : Foci \cup {None}, pages : Seq(Page),
         total : Nat \cup {None}, ids : Seq(Nat), more : BOOLEAN]

\* The instances that a view pages through, and those on its pages.
Wants(w) ==
    {n \in DOMAIN Content[w.version].nodes :
        /\ w.concept \in {None, Content[w.version].nodes[n]}
        /\ w.focus # None => \E e \in Content[w.version].edges : {e[1], e[2]} = {w.focus, n}}
On(pages, n) == \E i \in DOMAIN pages : \E k \in DOMAIN pages[i].ids : pages[i].ids[k] = n
LastOf(pages) ==
    IF pages = <<>> THEN 0 ELSE pages[Len(pages)].ids[Len(pages[Len(pages)].ids)]
Rest(w) == {n \in Wants(w) : n > LastOf(w.pages)}

\* Instances come in the order of their numbers.
Ordered(pages) ==
    \A i, j \in DOMAIN pages : \A k \in DOMAIN pages[i].ids, l \in DOMAIN pages[j].ids :
        i < j \/ (i = j /\ k < l) => pages[i].ids[k] < pages[j].ids[l]

EdgesAre(w) ==
    \A i \in DOMAIN w.pages :
        LET p == w.pages[i]
            shown == V!ToSet(p.ids) \cup ({w.focus} \ {None})
            among == {e \in Content[w.version].edges : {e[1], e[2]} \subseteq shown}
        IN  p.edges \subseteq among /\ (~p.truncated /\ p.ids # <<>> => p.edges = among)

\* What is on the page that is being made.
Full(w) == IF PageLimit <= Cardinality(Rest(w)) THEN PageLimit ELSE Cardinality(Rest(w))

ViewSound(w) ==
    /\ w \in View
    /\ w.stage = "idle" => w.pages = <<>>
    /\ w.stage # "idle" => w.version \in Versions
    /\ Ordered(w.pages) /\ EdgesAre(w) /\ \A n : On(w.pages, n) => n \in Wants(w)
    /\ w.stage \in {"ids", "edges", "page", "end"} => w.total = Cardinality(Wants(w))
    /\ w.stage \in {"count", "ids", "edges", "page"} =>
        /\ \A n \in Wants(w) : n <= LastOf(w.pages) <=> On(w.pages, n)
        /\ w.pages # <<>> => Rest(w) # {} /\ w.pages[Len(w.pages)].ids # <<>>
    /\ w.stage = "edges" =>
        w.ids = SubSeq(Sorted(Rest(w)), 1, Full(w)) /\ (w.more <=> Cardinality(Rest(w)) > PageLimit)
    /\ w.stage = "end" =>
        /\ \A n \in Wants(w) : On(w.pages, n)
        /\ Wants(w) # {} => w.pages[Len(w.pages)].ids # <<>>

\* A version that was published is whole and stays so.
StoreSound ==
    /\ DOMAIN store = Versions
    /\ \A v \in Versions :
        /\ store[v] = [status |-> store[v].status, nodes |-> store[v].nodes, edges |-> store[v].edges]
        /\ store[v].status = "ready" =>
              store[v].nodes = Content[v].nodes /\ store[v].edges = Content[v].edges
    /\ current # None => current \in Versions /\ store[current].status = "ready"

BrowserInv ==
    /\ StoreSound /\ ViewSound(view)
    /\ view.stage # "idle" => store[view.version].status = "ready"

LEMMA IdleSound == ViewSound(V!Idle)
BY DEF ViewSound, V!Idle, View, Ordered, EdgesAre, On

LEMMA BrowserInit == V!Init => BrowserInv
BY IdleSound, BrowserFacts DEF V!Init, BrowserInv, StoreSound, V!Idle

\* The publisher.
LEMMA PublisherInv ==
    ASSUME BrowserInv, NEW v \in Versions, V!Create(v) \/ V!WriteNode(v) \/ V!WriteEdge(v) \/ V!Publish(v)
    PROVE  BrowserInv'
<1>1. /\ store[v].status # "ready" /\ view' = view
      /\ \A w \in Versions \ {v} : store'[w] = store[w]
      /\ DOMAIN store' = Versions
      /\ store'[v] = [status |-> store'[v].status, nodes |-> store'[v].nodes, edges |-> store'[v].edges]
  BY DEF V!Create, V!WriteNode, V!WriteEdge, V!Publish, BrowserInv, StoreSound
<1>2. store'[v].status = "ready" =>
        store'[v].nodes = Content[v].nodes /\ store'[v].edges = Content[v].edges
  BY <1>1 DEF V!Create, V!WriteNode, V!WriteEdge, V!Publish, BrowserInv, StoreSound
<1>3. current' # None => current' \in Versions /\ store'[current'].status = "ready"
  BY <1>1 DEF V!Create, V!WriteNode, V!WriteEdge, V!Publish, BrowserInv, StoreSound
<1>4. StoreSound'
  BY <1>1, <1>2, <1>3 DEF BrowserInv, StoreSound
<1>5. view.stage # "idle" => view.version \in Versions /\ view.version # v
  BY <1>1 DEF BrowserInv, ViewSound
<1>6. view'.stage # "idle" => store'[view'.version].status = "ready"
  BY <1>1, <1>5 DEF BrowserInv
<1>7. ViewSound(view')
  BY <1>1 DEF BrowserInv
<1> QED
  BY <1>4, <1>6, <1>7 DEF BrowserInv

\* What remains to be paged through, in order.
LEMMA RestIs ==
    ASSUME NEW w, ViewSound(w), w.stage # "idle"
    PROVE  /\ Wants(w) \subseteq Nat \ {0} /\ IsFiniteSet(Wants(w))
           /\ Rest(w) \in SUBSET Nat /\ IsFiniteSet(Rest(w)) /\ Cardinality(Rest(w)) \in Nat
           /\ Full(w) \in Nat /\ Full(w) <= Cardinality(Rest(w)) /\ Full(w) <= PageLimit
           /\ SubSeq(Sorted(Rest(w)), 1, Full(w)) \in Seq(Rest(w))
           /\ Len(SubSeq(Sorted(Rest(w)), 1, Full(w))) = Full(w)
           /\ \A k \in 1 .. Full(w) : SubSeq(Sorted(Rest(w)), 1, Full(w))[k] = Sorted(Rest(w))[k]
<1>1. w.version \in Versions
  BY DEF ViewSound
<1>2. Wants(w) \subseteq Nat \ {0} /\ IsFiniteSet(Wants(w))
  BY <1>1, BrowserFacts, FS_Subset DEF Wants
<1>3. Rest(w) \in SUBSET Nat /\ IsFiniteSet(Rest(w)) /\ Cardinality(Rest(w)) \in Nat
  <2>1. Rest(w) \in SUBSET Wants(w)
    BY DEF Rest
  <2> QED
    BY <1>2, <2>1, FS_Subset, FS_CardinalityType
<1>4. Full(w) \in Nat /\ Full(w) <= Cardinality(Rest(w)) /\ Full(w) <= PageLimit
  BY <1>3, BrowserFacts DEF Full
<1>5. Sorted(Rest(w)) \in [1 .. Cardinality(Rest(w)) -> Rest(w)]
  BY <1>3, SortedIs
<1> DEFINE s == Sorted(Rest(w))
           n == Cardinality(Rest(w))
           m == Full(w)
<1>6. s \in Seq(Rest(w)) /\ Len(s) = n
  BY <1>3, <1>5
<1> HIDE DEF s, n, m
<1>7. /\ SubSeq(s, 1, m) \in Seq(Rest(w)) /\ Len(SubSeq(s, 1, m)) = m
      /\ \A k \in 1 .. m : SubSeq(s, 1, m)[k] = s[k]
  <2>1. m \in Nat /\ m <= Len(s)
    BY <1>4, <1>6 DEF m, n
  <2> QED
    BY <1>6, <2>1
<1> QED
  BY <1>2, <1>3, <1>4, <1>7 DEF s, n, m

\* Views that differ in what the conditions do not look at.
LEMMA WantsSame ==
    ASSUME NEW w, NEW x, x.version = w.version, x.concept = w.concept, x.focus = w.focus
    PROVE  Wants(x) = Wants(w)
BY DEF Wants

\* A published version is what a view of it is served.
LEMMA MatchingIs ==
    ASSUME BrowserInv, view.stage # "idle"
    PROVE  /\ V!Served(view.version) = view.version /\ view.version \in Versions
           /\ V!Served(view.version) # None
           /\ V!Matching(view.version) = Wants(view)
           /\ store[view.version].edges = Content[view.version].edges
<1>1. view.version \in Versions /\ store[view.version].status = "ready"
  BY DEF BrowserInv, ViewSound
<1>2. store[view.version].nodes = Content[view.version].nodes /\ store[view.version].edges = Content[view.version].edges
  BY <1>1 DEF BrowserInv, StoreSound
<1>3. V!Served(view.version) = view.version /\ view.version # None
  BY <1>1, BrowserFacts DEF V!Served
<1>4. V!Matching(view.version) = Wants(view)
  BY <1>2 DEF V!Matching, Wants
<1> QED
  BY <1>1, <1>2, <1>3, <1>4

LEMMA AfterIs ==
    ASSUME BrowserInv, view.stage # "idle" PROVE V!After = Sorted(Rest(view))
<1>1. V!LastId = LastOf(view.pages)
  BY DEF V!LastId, V!Last, LastOf
<1>2. {n \in V!Matching(V!Served(view.version)) : n > V!LastId} = Rest(view)
  BY <1>1, MatchingIs DEF Rest
<1> QED
  BY <1>2, BrowserSets DEF V!After

LEMMA LeaveInv == ASSUME BrowserInv, V!Leave PROVE BrowserInv'
<1>1. view' = V!Idle /\ UNCHANGED <<store, current>>
  BY DEF V!Leave
<1>2. ViewSound(view') /\ view'.stage = "idle"
  BY <1>1, IdleSound DEF V!Idle
<1> QED
  BY <1>1, <1>2 DEF BrowserInv, StoreSound

LEMMA OpenInv == ASSUME BrowserInv, V!Open PROVE BrowserInv'
<1>1. PICK v \in ({current} \ {None}) \cup {w \in Versions : V!Served(w) = w},
           c \in Concepts \cup {None}, f \in Foci \cup {None} :
        view' = [V!Idle EXCEPT !.stage = "count", !.version = v, !.concept = c, !.focus = f]
  BY DEF V!Open, Foci
<1>2. v \in Versions /\ store[v].status = "ready" /\ UNCHANGED <<store, current>>
  BY <1>1, BrowserFacts DEF V!Open, V!Served, BrowserInv, StoreSound
<1>3. view' = [stage |-> "count", version |-> v, concept |-> c, focus |-> f, pages |-> <<>>,
               total |-> None, ids |-> <<>>, more |-> FALSE]
  BY <1>1 DEF V!Idle
<1>4. view' \in View
  <2>1. <<>> \in Seq(Page) /\ <<>> \in Seq(Nat)
    OBVIOUS
  <2>2. c \in Concepts \cup {None} /\ f \in Foci \cup {None} /\ v \in Versions \cup {None}
    BY <1>2
  <2>3. /\ "count" \in {"idle", "count", "ids", "edges", "page", "end"}
        /\ None \in Nat \cup {None} /\ FALSE \in BOOLEAN
    OBVIOUS
  <2>4. [stage |-> "count", version |-> v, concept |-> c, focus |-> f, pages |-> <<>>,
         total |-> None, ids |-> <<>>, more |-> FALSE] \in View
    BY <2>1, <2>2, <2>3 DEF View
  <2> QED
    BY <1>3, <2>4
<1>5. Wants(view') \subseteq Nat \ {0}
  BY <1>2, <1>3, BrowserFacts DEF Wants
<1>6. ViewSound(view')
  <2>1. view'.pages = <<>> /\ view'.stage = "count" /\ view'.version \in Versions
    BY <1>2, <1>3
  <2>2. DOMAIN view'.pages = {} /\ LastOf(view'.pages) = 0
    BY <2>1 DEF LastOf
  <2>3. Ordered(view'.pages) /\ EdgesAre(view') /\ \A n : ~On(view'.pages, n)
    BY <2>2 DEF Ordered, EdgesAre, On
  <2>4. \A n \in Wants(view') : ~(n <= LastOf(view'.pages))
    BY <1>5, <2>2
  <2> QED
    BY <1>4, <2>1, <2>3, <2>4 DEF ViewSound
<1> QED
  BY <1>2, <1>3, <1>6 DEF BrowserInv, StoreSound

LEMMA CountInv == ASSUME BrowserInv, V!Count PROVE BrowserInv'
<1>1. view.stage = "count" /\ UNCHANGED <<store, current>>
  BY DEF V!Count
<1>2. view' = [view EXCEPT !.stage = "ids", !.total = Cardinality(Wants(view))]
  BY <1>1, MatchingIs, BrowserSets DEF V!Count
<1>3. view \in View /\ ViewSound(view) /\ Cardinality(Wants(view)) \in Nat
  BY <1>1, RestIs, FS_CardinalityType DEF BrowserInv, ViewSound
<1>4. /\ view' \in View /\ view'.stage = "ids" /\ view'.total = Cardinality(Wants(view))
      /\ view'.version = view.version /\ view'.concept = view.concept /\ view'.focus = view.focus
      /\ view'.pages = view.pages
  BY <1>2, <1>3 DEF View
<1>5. Wants(view') = Wants(view)
  BY <1>4, WantsSame
<1>6. Rest(view') = Rest(view)
  BY <1>4, <1>5 DEF Rest
<1>7. ViewSound(view')
  BY <1>1, <1>3, <1>4, <1>5, <1>6 DEF ViewSound, EdgesAre
<1> QED
  BY <1>1, <1>4, <1>7 DEF BrowserInv, StoreSound

LEMMA NextPageInv == ASSUME BrowserInv, V!NextPage PROVE BrowserInv'
<1>1. view.stage = "page" /\ UNCHANGED <<store, current>> /\ view' = [view EXCEPT !.stage = "count"]
  BY DEF V!NextPage
<1>3. view \in View /\ ViewSound(view)
  BY <1>1 DEF BrowserInv, ViewSound
<1>4. /\ view' \in View /\ view'.stage = "count"
      /\ view'.version = view.version /\ view'.concept = view.concept /\ view'.focus = view.focus
      /\ view'.pages = view.pages
  BY <1>1, <1>3 DEF View
<1>5. Wants(view') = Wants(view)
  BY <1>4, WantsSame
<1>6. Rest(view') = Rest(view)
  BY <1>4, <1>5 DEF Rest
<1>7. ViewSound(view')
  BY <1>1, <1>3, <1>4, <1>5, <1>6 DEF ViewSound, EdgesAre
<1> QED
  BY <1>1, <1>4, <1>7 DEF BrowserInv, StoreSound

LEMMA IdsInv == ASSUME BrowserInv, V!Ids PROVE BrowserInv'
<1>1. view.stage = "ids" /\ UNCHANGED <<store, current>>
  BY DEF V!Ids
<1>2. view \in View /\ ViewSound(view)
  BY <1>1 DEF BrowserInv, ViewSound
<1>3. V!After = Sorted(Rest(view)) /\ Len(Sorted(Rest(view))) = Cardinality(Rest(view)) /\ Cardinality(Rest(view)) \in Nat
  <2>1. Sorted(Rest(view)) \in [1 .. Cardinality(Rest(view)) -> Rest(view)] /\ Cardinality(Rest(view)) \in Nat
    BY <1>1, <1>2, RestIs, SortedIs
  <2> QED
    BY <1>1, <2>1, AfterIs
<1>4. V!More = (Cardinality(Rest(view)) > PageLimit) /\ V!Min({PageLimit, Len(V!After)}) = Full(view)
  BY <1>3, MinOf, BrowserFacts DEF V!More, Full
<1> DEFINE ids == SubSeq(Sorted(Rest(view)), 1, Full(view))
           more == Cardinality(Rest(view)) > PageLimit
<1>5. view' = [view EXCEPT !.stage = "edges", !.ids = ids, !.more = more]
  BY <1>3, <1>4 DEF V!Ids
<1>6. ids \in Seq(Nat) /\ more \in BOOLEAN
  BY <1>1, <1>2, RestIs
<1> HIDE DEF ids, more
<1>7. /\ view' \in View /\ view'.stage = "edges" /\ view'.total = view.total
      /\ view'.version = view.version /\ view'.concept = view.concept /\ view'.focus = view.focus
      /\ view'.pages = view.pages /\ view'.ids = ids /\ view'.more = more
  BY <1>2, <1>5, <1>6 DEF View
<1>8. Wants(view') = Wants(view)
  BY <1>7, WantsSame
<1>9. Rest(view') = Rest(view) /\ Full(view') = Full(view)
  BY <1>7, <1>8 DEF Rest, Full
<1>10. view'.more <=> Cardinality(Rest(view')) > PageLimit
  BY <1>7, <1>9 DEF more
<1>11. ViewSound(view')
  BY <1>1, <1>2, <1>7, <1>8, <1>9, <1>10 DEF ViewSound, EdgesAre, ids
<1> QED
  BY <1>1, <1>7, <1>11 DEF BrowserInv, StoreSound

LEMMA LastIsNat ==
    ASSUME NEW w, ViewSound(w), w.stage = "edges" PROVE LastOf(w.pages) \in Nat
<1> DEFINE m == Len(w.pages)
<1>1. CASE w.pages = <<>>
  BY <1>1 DEF LastOf
<1>2. CASE w.pages # <<>>
  <2>1. w.pages \in Seq(Page) /\ w.pages[m].ids # <<>>
    BY <1>2 DEF ViewSound, View
  <2>2. w.pages[m] \in Page
    BY <1>2, <2>1
  <2>3. w.pages[m].ids \in Seq(Nat)
    BY <2>2 DEF Page
  <2>4. w.pages[m].ids[Len(w.pages[m].ids)] \in Nat
    BY SMTT(30), <2>1, <2>3
  <2> QED
    BY <1>2, <2>4 DEF LastOf
<1> QED
  BY <1>1, <1>2

Grows(w, p, more) ==
    /\ more \in Seq(Page) /\ DOMAIN more = 1 .. Len(w.pages) + 1 /\ Len(more) = Len(w.pages) + 1
    /\ Len(w.pages) \in Nat /\ DOMAIN w.pages = 1 .. Len(w.pages)
    /\ \A i \in DOMAIN w.pages : more[i] = w.pages[i]
    /\ more[Len(w.pages) + 1] = p
    /\ DOMAIN p.ids = 1 .. Full(w) /\ Len(p.ids) = Full(w)
    /\ \A k \in 1 .. Full(w) : p.ids[k] = Sorted(Rest(w))[k] /\ p.ids[k] \in Rest(w)
    /\ Ordered(more)
    /\ \A n : On(more, n) <=> On(w.pages, n) \/ \E k \in 1 .. Full(w) : Sorted(Rest(w))[k] = n

\* One more page: what it shows, and that all of it comes after what was shown.
LEMMA PagesGrow ==
    ASSUME NEW w, ViewSound(w), w.stage = "edges", NEW p \in Page, p.ids = w.ids,
           NEW more, more = Append(w.pages, p)
    PROVE  Grows(w, p, more)
<1> DEFINE m == Len(w.pages)
           s == Sorted(Rest(w))
<1>1. w.pages \in Seq(Page)
  BY DEF ViewSound, View
<1>2. /\ more \in Seq(Page) /\ DOMAIN more = 1 .. m + 1 /\ Len(more) = m + 1 /\ m \in Nat /\ DOMAIN w.pages = 1 .. m
      /\ \A i \in 1 .. m : more[i] = w.pages[i]
      /\ more[m + 1] = p
  BY <1>1
<1>3. /\ DOMAIN p.ids = 1 .. Full(w) /\ Len(p.ids) = Full(w) /\ Full(w) \in Nat
      /\ \A k \in 1 .. Full(w) : p.ids[k] = s[k] /\ p.ids[k] \in Rest(w)
  <2>1. p.ids = SubSeq(s, 1, Full(w))
    BY DEF ViewSound
  <2> HIDE DEF s
  <2>2. /\ p.ids \in Seq(Rest(w)) /\ Len(p.ids) = Full(w) /\ Full(w) \in Nat
        /\ \A k \in 1 .. Full(w) : p.ids[k] = s[k]
    BY <2>1, RestIs DEF s
  <2> QED
    BY <2>2
<1>4. \A k, l \in 1 .. Full(w) : k < l => p.ids[k] < p.ids[l]
  <2>1. \A k, l \in 1 .. Cardinality(Rest(w)) : k < l => s[k] < s[l]
    BY RestIs, SortedIs
  <2>2. \A k \in 1 .. Full(w) : k \in 1 .. Cardinality(Rest(w))
    BY RestIs
  <2> HIDE DEF s
  <2> QED
    BY <1>3, <2>1, <2>2
<1>5. ASSUME NEW i \in 1 .. m, NEW k \in DOMAIN w.pages[i].ids, NEW l \in 1 .. Full(w)
      PROVE  w.pages[i].ids[k] < p.ids[l]
  <2> DEFINE n == w.pages[i].ids[k]
  <2>1. On(w.pages, n)
    BY <1>2 DEF On
  <2>2. n \in Wants(w) /\ n <= LastOf(w.pages)
    BY <2>1 DEF ViewSound
  <2>3. p.ids[l] \in Wants(w) /\ p.ids[l] > LastOf(w.pages)
    BY <1>3 DEF Rest
  <2>4. n \in Nat /\ p.ids[l] \in Nat
    BY <2>2, <2>3, RestIs
  <2>5. LastOf(w.pages) \in Nat
    BY LastIsNat
  <2> HIDE DEF n
  <2>6. n < p.ids[l]
    BY <2>2, <2>3, <2>4, <2>5
  <2> QED
    BY <2>6 DEF n
<1> HIDE DEF m, s
<1>6. Ordered(more)
  <2> SUFFICES ASSUME NEW i \in DOMAIN more, NEW j \in DOMAIN more,
                      NEW k \in DOMAIN more[i].ids, NEW l \in DOMAIN more[j].ids,
                      i < j \/ (i = j /\ k < l)
               PROVE  more[i].ids[k] < more[j].ids[l]
    BY DEF Ordered
  <2>1. CASE j = m + 1 /\ i = m + 1
    BY <1>2, <1>3, <1>4, <2>1
  <2>2. CASE j = m + 1 /\ i # m + 1
    <3>1. i \in 1 .. m /\ more[i] = w.pages[i] /\ more[j] = p
      BY <1>2, <2>2
    <3> QED
      BY <1>3, <1>5, <3>1
  <2>3. CASE j # m + 1
    <3>1. i \in 1 .. m /\ j \in 1 .. m /\ more[i] = w.pages[i] /\ more[j] = w.pages[j]
      BY <1>2, <2>3
    <3>2. Ordered(w.pages)
      BY DEF ViewSound
    <3> QED
      BY <1>2, <3>1, <3>2 DEF Ordered
  <2> QED
    BY <2>1, <2>2, <2>3
<1>7. ASSUME NEW n
      PROVE  On(more, n) <=> On(w.pages, n) \/ \E k \in 1 .. Full(w) : s[k] = n
  <2>1. \A i \in 1 .. m : more[i] = w.pages[i]
    BY <1>2
  <2>2. On(w.pages, n) => On(more, n)
    BY <1>2, <2>1 DEF On
  <2>3. ASSUME NEW k \in 1 .. Full(w), s[k] = n PROVE On(more, n)
    <3>1. m + 1 \in DOMAIN more /\ k \in DOMAIN more[m + 1].ids /\ more[m + 1].ids[k] = n
      BY <1>2, <1>3, <2>3
    <3> QED
      BY <3>1 DEF On
  <2>4. ASSUME On(more, n) PROVE On(w.pages, n) \/ \E k \in 1 .. Full(w) : s[k] = n
    <3>1. PICK i \in DOMAIN more : \E k \in DOMAIN more[i].ids : more[i].ids[k] = n
      BY <2>4 DEF On
    <3>2. CASE i = m + 1
      BY <1>2, <1>3, <3>1, <3>2
    <3>3. CASE i # m + 1
      <4>1. i \in 1 .. m /\ more[i] = w.pages[i]
        BY <1>2, <3>3
      <4> QED
        BY <1>2, <3>1, <4>1 DEF On
    <3> QED
      BY <3>2, <3>3
  <2> QED
    BY <2>2, <2>3, <2>4
<1> QED
  BY <1>2, <1>3, <1>6, <1>7 DEF Grows, m, s

\* After the page has been made.
LEMMA EdgesInv == ASSUME BrowserInv, V!Edges PROVE BrowserInv'
<1> DEFINE shown == V!ToSet(view.ids) \cup ({view.focus} \ {None})
           among == IF view.ids = <<>> THEN {}
                    ELSE {e \in Content[view.version].edges : {e[1], e[2]} \subseteq shown}
           w == view
           m == Len(w.pages)
<1>1. view.stage = "edges" /\ UNCHANGED <<store, current>> /\ ViewSound(view) /\ view \in View
  BY SMTT(30) DEF V!Edges, BrowserInv, ViewSound
<1>2. PICK kept \in V!kSubset(V!Min({PageEdges, Cardinality(among)}), among) :
        view' = [view EXCEPT
                !.stage = IF view.more THEN "page" ELSE "end",
                !.pages = Append(view.pages, [ids |-> view.ids, edges |-> kept, truncated |-> Cardinality(among) > PageEdges])]
  BY <1>1, MatchingIs, BrowserSets DEF V!Edges
<1>3. view.version \in Versions /\ among \in SUBSET Content[view.version].edges
  BY <1>1 DEF ViewSound
<1>4. IsFiniteSet(among) /\ Cardinality(among) \in Nat
  <2>1. IsFiniteSet(Content[view.version].edges)
    BY <1>3, BrowserFacts
  <2> HIDE DEF among
  <2> QED
    BY <1>3, <2>1, FS_Subset, FS_CardinalityType
<1>5. kept \subseteq among /\ (~(Cardinality(among) > PageEdges) => kept = among)
  <2> HIDE DEF among
  <2>1. kept \in SUBSET among /\ Cardinality(kept) = V!Min({PageEdges, Cardinality(among)})
    BY <1>2, BrowserSets DEF V!kSubset
  <2>2. ~(Cardinality(among) > PageEdges) => Cardinality(among) = Cardinality(kept)
    BY <1>4, <2>1, MinOf, BrowserFacts
  <2> QED
    BY <1>4, <2>1, <2>2, FS_Subset
<1> DEFINE p == [ids |-> view.ids, edges |-> kept, truncated |-> Cardinality(among) > PageEdges]
           pages == Append(view.pages, p)
<1>6. p \in Page /\ p.ids = w.ids /\ p.edges = kept /\ p.truncated = (Cardinality(among) > PageEdges)
  <2>1. kept \in SUBSET UNION {Content[v].edges : v \in Versions}
    BY <1>3, <1>5
  <2>2. view.ids \in Seq(Nat)
    BY <1>1 DEF View
  <2> HIDE DEF among
  <2> QED
    BY <2>1, <2>2 DEF Page
<1>7. ~p.truncated => p.edges = among
  BY <1>5, <1>6
<1> HIDE DEF p, pages, among
<1>8. /\ view'.stage = (IF w.more THEN "page" ELSE "end") /\ view'.pages = pages
      /\ view'.version = w.version /\ view'.concept = w.concept /\ view'.focus = w.focus
      /\ view'.total = w.total
  BY <1>1, <1>2 DEF View, p, pages
<1>9. /\ pages \in Seq(Page) /\ DOMAIN pages = 1 .. m + 1 /\ Len(pages) = m + 1 /\ m \in Nat /\ DOMAIN w.pages = 1 .. m
      /\ \A i \in 1 .. m : pages[i] = w.pages[i]
      /\ pages[m + 1] = p
      /\ DOMAIN p.ids = 1 .. Full(w) /\ Len(p.ids) = Full(w)
      /\ \A k \in 1 .. Full(w) : p.ids[k] = Sorted(Rest(w))[k] /\ p.ids[k] \in Rest(w)
      /\ Ordered(pages)
      /\ \A n : On(pages, n) <=> On(w.pages, n) \/ \E k \in 1 .. Full(w) : Sorted(Rest(w))[k] = n
  <2>1. ViewSound(w) /\ w.stage = "edges" /\ pages = Append(w.pages, p) /\ p \in Page /\ p.ids = w.ids
    BY <1>1, <1>6 DEF pages
  <2> HIDE DEF w, m
  <2>2. Grows(w, p, pages)
    BY <2>1, PagesGrow
  <2> QED
    BY <2>2 DEF Grows, m
<1>10. view' \in View
  <2>1. \A x \in View : [x EXCEPT !.stage = IF w.more THEN "page" ELSE "end", !.pages = pages] \in View
    BY <1>9 DEF View
  <2> QED
    BY <1>1, <1>2, <2>1 DEF p, pages
<1>11. Wants(view') = Wants(w)
  BY <1>8, WantsSame
<1>12. EdgesAre(view')
  <2> SUFFICES ASSUME NEW i \in DOMAIN pages
               PROVE  LET q == pages[i]
                          on == V!ToSet(q.ids) \cup ({w.focus} \ {None})
                          all == {e \in Content[w.version].edges : {e[1], e[2]} \subseteq on}
                      IN  q.edges \subseteq all /\ (~q.truncated /\ q.ids # <<>> => q.edges = all)
    BY <1>8 DEF EdgesAre
  <2>1. CASE i = m + 1
    <3>1. pages[i] = p
      BY <1>9, <2>1
    <3>2. p.edges \subseteq among
      BY <1>5, <1>6
    <3> QED
      BY <1>6, <1>7, <3>1, <3>2 DEF among
  <2>2. CASE i # m + 1
    <3>1. i \in DOMAIN w.pages /\ pages[i] = w.pages[i]
      BY <1>9, <2>2
    <3>2. EdgesAre(w)
      BY <1>1 DEF ViewSound
    <3> QED
      BY <3>1, <3>2 DEF EdgesAre
  <2> QED
    BY <2>1, <2>2
<1>13. \A n : On(pages, n) => n \in Wants(w)
  <2>1. \A k \in 1 .. Full(w) : Sorted(Rest(w))[k] \in Wants(w)
    BY <1>9 DEF Rest
  <2>2. \A n : On(w.pages, n) => n \in Wants(w)
    BY <1>1 DEF ViewSound
  <2> QED
    BY <1>9, <2>1, <2>2
<1>14. /\ Cardinality(Rest(w)) \in Nat /\ Sorted(Rest(w)) \in [1 .. Cardinality(Rest(w)) -> Rest(w)]
       /\ \A i, j \in 1 .. Cardinality(Rest(w)) : i < j => Sorted(Rest(w))[i] < Sorted(Rest(w))[j]
       /\ \A x \in Rest(w) : \E i \in 1 .. Cardinality(Rest(w)) : Sorted(Rest(w))[i] = x
       /\ Rest(w) \subseteq Nat /\ Wants(w) \subseteq Nat \ {0}
  <2>1. Rest(w) \in SUBSET Nat /\ IsFiniteSet(Rest(w)) /\ Wants(w) \subseteq Nat \ {0}
    BY <1>1, RestIs
  <2> QED
    BY <2>1, SortedIs
<1>15. \A n \in Wants(w) : On(w.pages, n) \/ n \in Rest(w)
  <2>1. \A n \in Wants(w) : n <= LastOf(w.pages) => On(w.pages, n)
    BY <1>1 DEF ViewSound
  <2>2. LastOf(w.pages) \in Nat
    BY <1>1, LastIsNat
  <2>3. \A n \in Wants(w) : n <= LastOf(w.pages) \/ n > LastOf(w.pages)
    BY <1>14, <2>2
  <2> QED
    BY <2>1, <2>3 DEF Rest
<1>16. w.total = Cardinality(Wants(w)) /\ (w.more <=> Cardinality(Rest(w)) > PageLimit)
  BY <1>1 DEF ViewSound
<1> HIDE DEF m, w
<1>17. CASE w.more
  <2>1. Full(w) = PageLimit /\ PageLimit \in 1 .. Cardinality(Rest(w)) /\ PageLimit + 1 \in 1 .. Cardinality(Rest(w))
    BY <1>14, <1>16, <1>17, BrowserFacts DEF Full
  <2> DEFINE s == Sorted(Rest(w))
             final == s[PageLimit]
  <2>2. p.ids[PageLimit] = final /\ LastOf(pages) = final /\ final \in Rest(w) /\ final \in Nat
    <3>1. pages # <<>> /\ pages[Len(pages)] = p /\ Len(p.ids) = PageLimit
      BY <1>9, <2>1
    <3>2. p.ids[PageLimit] = final
      BY <1>9, <2>1
    <3>3. final \in Rest(w)
      BY <1>14, <2>1
    <3> HIDE DEF final
    <3> QED
      BY <1>14, <3>1, <3>2, <3>3 DEF LastOf
  <2>3. ASSUME NEW n \in Wants(w) PROVE n <= final <=> On(pages, n)
    <3>1. CASE n \in Rest(w)
      <4>1. PICK i \in 1 .. Cardinality(Rest(w)) : s[i] = n
        BY <1>14, <3>1
      <4>2. i <= PageLimit => n <= final
        <5>1. i < PageLimit => s[i] < s[PageLimit]
          BY <1>14, <2>1
        <5> QED
          BY <1>14, <2>1, <2>2, <3>1, <4>1, <5>1
      <4>3. i > PageLimit => ~(n <= final)
        <5>1. i > PageLimit => s[PageLimit] < s[i]
          BY <1>14, <2>1
        <5> QED
          BY <1>14, <2>2, <3>1, <4>1, <5>1
      <4>4. i <= PageLimit => On(pages, n)
        BY <1>9, <2>1, <4>1
      <4> QED
        <5>1. i <= PageLimit \/ i > PageLimit
          BY <1>14, <2>1
        <5>2. i > PageLimit => ~On(pages, n)
          <6>1. ~On(w.pages, n)
            <7>1. ViewSound(w) /\ w.stage = "edges"
              BY <1>1 DEF w
            <7>2. n > LastOf(w.pages)
              BY <3>1 DEF Rest
            <7>4. On(w.pages, n) => n <= LastOf(w.pages)
              BY <7>1 DEF ViewSound
            <7>5. LastOf(w.pages) \in Nat
              BY <7>1, LastIsNat
            <7> QED
              BY <1>14, <7>2, <7>4, <7>5
          <6>2. ASSUME NEW k \in 1 .. PageLimit, s[k] = n, i > PageLimit PROVE FALSE
            <7>1. k < i /\ k \in 1 .. Cardinality(Rest(w))
              BY <1>14, <2>1, <6>2
            <7>2. s[k] < s[i]
              BY <1>14, <7>1
            <7>3. n \in Nat
              BY <1>14
            <7> QED
              BY <4>1, <6>2, <7>2, <7>3
          <6> QED
            BY <1>9, <2>1, <6>1, <6>2
        <5> QED
          BY <4>2, <4>3, <4>4, <5>1, <5>2
    <3>2. CASE n \notin Rest(w)
      <4>1. On(w.pages, n)
        BY <1>15, <3>2
      <4>2. On(pages, n)
        BY <1>9, <4>1
      <4>3. ViewSound(w) /\ w.stage = "edges"
        BY <1>1 DEF w
      <4>4. n <= LastOf(w.pages) /\ LastOf(w.pages) < final /\ LastOf(w.pages) \in Nat
        BY <2>2, <4>1, <4>3, LastIsNat DEF ViewSound, Rest
      <4> QED
        BY <1>14, <2>2, <4>2, <4>4
    <3> QED
      BY <3>1, <3>2
  <2>4. view'.stage = "page"
    BY <1>8, <1>17
  <2>5. s[PageLimit + 1] \in Rest(view')
    <3>1. s[PageLimit + 1] > final /\ s[PageLimit + 1] \in Wants(w)
      <4>1. s[PageLimit] < s[PageLimit + 1] /\ s[PageLimit + 1] \in Rest(w)
        BY <1>14, <2>1
      <4> QED
        BY <4>1 DEF Rest
    <3> QED
      BY <1>8, <1>11, <2>2, <3>1 DEF Rest
  <2>6. pages[Len(pages)].ids # <<>>
    <3>1. Len(p.ids) # 0
      BY <1>9, <2>1
    <3> QED
      BY <1>9, <3>1
  <2> HIDE DEF s, final
  <2>7. \A n \in Wants(view') : n <= LastOf(view'.pages) <=> On(view'.pages, n)
    BY <1>8, <1>11, <2>2, <2>3
  <2>8. /\ Ordered(view'.pages) /\ (\A n : On(view'.pages, n) => n \in Wants(view'))
        /\ view'.total = Cardinality(Wants(view')) /\ view'.version \in Versions
        /\ Rest(view') # {} /\ view'.pages[Len(view'.pages)].ids # <<>>
    BY <1>3, <1>8, <1>9, <1>11, <1>13, <1>16, <2>5, <2>6 DEF w
  <2>9. ViewSound(view')
    BY <1>10, <1>12, <2>4, <2>7, <2>8 DEF ViewSound
  <2> QED
    BY <1>1, <1>8, <2>4, <2>9 DEF BrowserInv, StoreSound, w
<1>18. CASE ~w.more
  <2>1. Full(w) = Cardinality(Rest(w))
    BY <1>14, <1>16, <1>18, BrowserFacts DEF Full
  <2>2. \A n \in Wants(w) : On(pages, n)
    BY <1>9, <1>14, <1>15, <2>1
  <2>3. ASSUME Wants(w) # {} PROVE pages[Len(pages)].ids # <<>>
    <3>1. ViewSound(w) /\ w.stage = "edges"
      BY <1>1 DEF w
    <3>2. Rest(w) # {}
      <4>1. CASE w.pages = <<>>
        BY <1>14, <2>3, <4>1 DEF Rest, LastOf
      <4>2. CASE w.pages # <<>>
        BY <3>1, <4>2 DEF ViewSound
      <4> QED
        BY <4>1, <4>2
    <3>3. Len(p.ids) # 0
      BY <1>9, <1>14, <2>1, <3>2
    <3> QED
      BY <1>9, <3>3
  <2>4. view'.stage = "end"
    BY <1>8, <1>18
  <2>5. ViewSound(view')
    BY <1>3, <1>8, <1>9, <1>10, <1>11, <1>12, <1>13, <1>16, <2>2, <2>3, <2>4 DEF ViewSound, w
  <2> QED
    BY <1>1, <1>8, <2>4, <2>5 DEF BrowserInv, StoreSound, w
<1> QED
  BY <1>17, <1>18

LEMMA BrowserNext == ASSUME BrowserInv, [V!Next]_browserVars PROVE BrowserInv'
<1>1. CASE UNCHANGED browserVars
  BY <1>1 DEF browserVars, BrowserInv, StoreSound
<1> QED
  BY <1>1, PublisherInv, OpenInv, CountInv, IdsInv, EdgesInv, NextPageInv, LeaveInv DEF V!Next

LEMMA BrowserIsSound == ASSUME BrowserInv PROVE V!PagesAreOneVersion
<1>1. ViewSound(view) /\ V!Wanted = Wants(view) /\ view \in View
  BY DEF BrowserInv, ViewSound, V!Wanted, Wants
<1>2. view.pages \in Seq(Page) /\ view.stage # "missing"
  <2>1. view.stage \in {"idle", "count", "ids", "edges", "page", "end"} /\ view.pages \in Seq(Page)
    BY <1>1 DEF View
  <2> QED
    BY <2>1
<1>3. ASSUME NEW i \in DOMAIN view.pages, NEW j \in DOMAIN view.pages,
             NEW k \in DOMAIN view.pages[i].ids, NEW l \in DOMAIN view.pages[j].ids,
             view.pages[i].ids[k] = view.pages[j].ids[l]
      PROVE  i = j /\ k = l
  <2>1. i \in Nat /\ j \in Nat /\ view.pages[i] \in Page /\ view.pages[j] \in Page
    BY <1>2
  <2>2. k \in Nat /\ l \in Nat /\ view.pages[i].ids[k] \in Nat
    <3> DEFINE a == view.pages[i].ids
               b == view.pages[j].ids
    <3>1. a \in Seq(Nat) /\ b \in Seq(Nat) /\ k \in DOMAIN a /\ l \in DOMAIN b
      BY <2>1 DEF Page
    <3> HIDE DEF a, b
    <3>2. k \in Nat /\ l \in Nat /\ a[k] \in Nat
      BY <3>1
    <3> QED
      BY <3>2 DEF a
  <2>3. Ordered(view.pages)
    BY <1>1 DEF ViewSound
  <2>4. ~(i < j) /\ ~(j < i)
    BY <1>3, <2>2, <2>3 DEF Ordered
  <2>5. i = j
    BY <2>1, <2>4
  <2>6. ~(k < l) /\ ~(l < k)
    BY <1>3, <2>2, <2>3, <2>5 DEF Ordered
  <2> QED
    BY <2>2, <2>5, <2>6
<1>4. UNION {V!ToSet(p.ids) : p \in V!ToSet(view.pages)} = {n \in Nat : On(view.pages, n)}
  <2>1. ASSUME NEW i \in DOMAIN view.pages PROVE view.pages[i].ids \in Seq(Nat)
    <3>1. view.pages[i] \in Page
      BY <1>2
    <3> QED
      BY <3>1 DEF Page
  <2>2. ASSUME NEW i \in DOMAIN view.pages, NEW k \in DOMAIN view.pages[i].ids
        PROVE  view.pages[i].ids[k] \in UNION {V!ToSet(p.ids) : p \in V!ToSet(view.pages)}
    <3>1. view.pages[i] \in V!ToSet(view.pages) /\ view.pages[i].ids[k] \in V!ToSet(view.pages[i].ids)
      BY DEF V!ToSet
    <3> QED
      BY <3>1
  <2>3. ASSUME NEW n \in UNION {V!ToSet(p.ids) : p \in V!ToSet(view.pages)} PROVE n \in Nat /\ On(view.pages, n)
    <3>1. PICK p \in V!ToSet(view.pages) : n \in V!ToSet(p.ids)
      OBVIOUS
    <3>2. PICK i \in DOMAIN view.pages : p = view.pages[i]
      BY <3>1 DEF V!ToSet
    <3>3. PICK k \in DOMAIN p.ids : n = p.ids[k]
      BY <3>1 DEF V!ToSet
    <3> QED
      BY <2>1, <3>2, <3>3 DEF On
  <2>4. ASSUME NEW n \in Nat, On(view.pages, n) PROVE n \in UNION {V!ToSet(p.ids) : p \in V!ToSet(view.pages)}
    BY <2>2, <2>4 DEF On
  <2> DEFINE paged == UNION {V!ToSet(p.ids) : p \in V!ToSet(view.pages)}
  <2> HIDE DEF paged
  <2>5. \A n : n \in paged <=> n \in Nat /\ On(view.pages, n)
    BY <2>3, <2>4 DEF paged
  <2>6. paged = {n \in Nat : On(view.pages, n)}
    BY <2>5
  <2> QED
    BY <2>6 DEF paged
<1>5. ASSUME view.stage = "end"
      PROVE  /\ UNION {V!ToSet(p.ids) : p \in V!ToSet(view.pages)} = V!Wanted
             /\ view.total = V!Cardinality(V!Wanted)
             /\ V!Wanted # {} => V!Last(view.pages).ids # <<>>
  <2>1. Wants(view) \subseteq Nat
    BY <1>1, <1>5, RestIs
  <2> QED
    BY <1>1, <1>4, <1>5, <2>1, BrowserSets DEF ViewSound, V!Last
<1>6. EdgesAre(view)
  BY <1>1 DEF ViewSound
<1> QED
  BY <1>2, <1>3, <1>5, <1>6 DEF V!PagesAreOneVersion, EdgesAre

----
(* Documents.                                                               *)

LEMMA DocumentSets ==
    /\ \A S : D!Ascending(S) = Sorted(S)
    /\ \A S : D!Cardinality(S) = Cardinality(S)
<1>1. \A S : D!Ascending(S) = Sorted(S)
  BY DEF D!Ascending, Sorted, D!Cardinality, Cardinality
<1> QED
  BY <1>1 DEF D!Cardinality, Cardinality

IsList(s) == s \in Seq(D!Range(s))

LEMMA ListIs == ASSUME NEW s, IsList(s) PROVE Len(s) \in Nat /\ DOMAIN s = 1 .. Len(s) /\ s = [i \in 1 .. Len(s) |-> s[i]]
BY DEF IsList

LEMMA RangeIs == ASSUME NEW s, NEW i \in DOMAIN s PROVE s[i] \in D!Range(s)
BY DEF D!Range

LEMMA DocumentFacts ==
    /\ Bad \notin Nat /\ MaxText \in Nat
    /\ \A files \in Uploads :
        /\ IsList(files)
        /\ \A i \in DOMAIN files :
            /\ IsList(files[i].entries)
            /\ \A k \in DOMAIN files[i].entries :
                /\ D!TextOf(files[i], files[i].entries[k]) \in Nat \cup {Bad}
                /\ files[i].entries[k] = None => files[i].extension \in {"csv", "json", "jsonl"}
    /\ \A raw \in Extractions : IsList(raw.entities) /\ IsList(raw.relations)
<1>1. D!DocumentConstants
  BY InputsAssumption
<1>2. ASSUME NEW files \in Uploads, NEW i \in DOMAIN files
      PROVE  /\ IsList(files[i].entries)
             /\ \A k \in DOMAIN files[i].entries :
                /\ D!TextOf(files[i], files[i].entries[k]) \in Nat \cup {Bad}
                /\ files[i].entries[k] = None => files[i].extension \in {"csv", "json", "jsonl"}
  <2>1. files[i] \in D!Range(files)
    BY RangeIs
  <2>2. \A k \in DOMAIN files[i].entries : files[i].entries[k] \in D!Range(files[i].entries)
    BY RangeIs
  <2> QED
    BY <1>1, <2>1, <2>2 DEF D!DocumentConstants, IsList, D!Rows
<1> QED
  BY <1>1, <1>2 DEF D!DocumentConstants, IsList

\* The numbers from 1 to n are sorted as they are.
LEMMA SortedAll == ASSUME NEW n \in Nat, NEW i \in 1 .. n PROVE Cardinality(1 .. n) = n /\ Sorted(1 .. n)[i] = i
<1>1. Cardinality(1 .. n) = n
  BY FS_Interval
<1> DEFINE Under(y) == {m \in 1 .. n : m < y}
<1>2. ASSUME NEW y \in 1 .. n PROVE Cardinality(Under(y)) = y - 1
  <2>1. Under(y) = 1 .. y - 1
    OBVIOUS
  <2>2. Cardinality(1 .. y - 1) = y - 1
    BY FS_Interval
  <2> QED
    BY <2>1, <2>2
<1>3. Sorted(1 .. n)[i] = CHOOSE y \in 1 .. n : Cardinality(Under(y)) = i - 1
  BY <1>1 DEF Sorted
<1> HIDE DEF Under
<1>4. \E y \in 1 .. n : Cardinality(Under(y)) = i - 1
  BY <1>2
<1> DEFINE x == CHOOSE y \in 1 .. n : Cardinality(Under(y)) = i - 1
<1>5. x \in 1 .. n /\ Cardinality(Under(x)) = i - 1
  BY <1>4
<1> HIDE DEF x
<1>6. x = i
  BY <1>2, <1>5
<1> QED
  BY <1>1, <1>3, <1>6 DEF x

\* What is there of some entries, in their order.
There(entries) == {i \in DOMAIN entries : entries[i] # None}

LEMMA PresentIs ==
    ASSUME NEW entries, IsList(entries)
    PROVE  LET n == Cardinality(There(entries)) IN
           /\ n \in Nat /\ DOMAIN D!Present(entries) = 1 .. n /\ Len(D!Present(entries)) = n
           /\ D!Present(entries) = [k \in 1 .. n |-> D!Present(entries)[k]]
           /\ \A k \in 1 .. n : \E i \in There(entries) : D!Present(entries)[k] = entries[i]
           /\ \A i \in There(entries) : \E k \in 1 .. n : D!Present(entries)[k] = entries[i]
           /\ There(entries) = DOMAIN entries => D!Present(entries) = entries
<1> DEFINE S == There(entries)
           n == Cardinality(S)
<1>1. S \in SUBSET Nat /\ IsFiniteSet(S) /\ DOMAIN entries = 1 .. Len(entries) /\ Len(entries) \in Nat
  <2>1. DOMAIN entries = 1 .. Len(entries) /\ Len(entries) \in Nat
    BY ListIs
  <2>2. IsFiniteSet(1 .. Len(entries)) /\ S \in SUBSET (1 .. Len(entries))
    BY <2>1, FS_Interval DEF There
  <2> HIDE DEF S
  <2>3. IsFiniteSet(S)
    BY <2>2, FS_Subset
  <2> QED
    BY <2>1, <2>2, <2>3
<1>2. D!Present(entries) = [k \in DOMAIN Sorted(S) |-> entries[Sorted(S)[k]]]
  BY DocumentSets DEF D!Present, There
<1>3. /\ n \in Nat /\ Sorted(S) \in [1 .. n -> S]
      /\ \A x \in S : \E k \in 1 .. n : Sorted(S)[k] = x
  BY <1>1, SortedIs
<1>4. D!Present(entries) = [k \in 1 .. n |-> entries[Sorted(S)[k]]]
  BY <1>2, <1>3
<1>5. S = DOMAIN entries => D!Present(entries) = entries
  <2> SUFFICES ASSUME S = DOMAIN entries PROVE D!Present(entries) = entries
    OBVIOUS
  <2>1. S = 1 .. Len(entries) /\ n = Len(entries)
    <3> DEFINE m == Len(entries)
    <3>1. m \in Nat /\ S = 1 .. m
      BY <1>1
    <3> HIDE DEF m, S
    <3>2. Cardinality(1 .. m) = m
      BY <3>1, FS_Interval
    <3>3. Cardinality(S) = m
      BY <3>1, <3>2
    <3> QED
      BY <3>1, <3>3 DEF m
  <2>2. \A k \in 1 .. n : Sorted(S)[k] = k
    BY <1>1, <2>1, SortedAll
  <2>3. D!Present(entries) = [k \in 1 .. n |-> entries[k]]
    BY <1>4, <2>2
  <2> QED
    BY <2>1, <2>3, ListIs
<1> HIDE DEF S, n
<1>6. /\ DOMAIN D!Present(entries) = 1 .. n /\ Len(D!Present(entries)) = n
      /\ D!Present(entries) = [k \in 1 .. n |-> D!Present(entries)[k]]
      /\ \A k \in 1 .. n : D!Present(entries)[k] = entries[Sorted(S)[k]]
  BY <1>3, <1>4
<1> QED
  BY <1>3, <1>5, <1>6 DEF S, n

----
(* The texts of the documents of the files, one file after the other.       *)

Joins(s, n, g) == g = [i \in 1 .. n |-> IF i = 1 THEN s[i] ELSE g[i - 1] \o s[i]]

LEMMA JoinsExist ==
    ASSUME NEW s, NEW n \in Nat PROVE \E g : Joins(s, n, g)
<1> DEFINE stuck == {k \in Nat : ~ \E g : Joins(s, k, g)}
<1> SUFFICES ASSUME stuck # {} PROVE FALSE
  OBVIOUS
<1>1. PICK k \in stuck : \A j \in stuck : k <= j
  BY LeastNat
<1>2. CASE k = 0
  <2> DEFINE g == [i \in 1 .. 0 |-> s[i]]
  <2>1. g = [i \in 1 .. 0 |-> IF i = 1 THEN s[i] ELSE g[i - 1] \o s[i]]
    OBVIOUS
  <2> QED
    BY <1>2, <2>1 DEF Joins
<1>3. CASE k # 0
  <2>1. k - 1 \in Nat /\ k - 1 < k
    BY <1>3
  <2>2. PICK g : Joins(s, k - 1, g)
    BY <1>1, <2>1
  <2> DEFINE next == IF k = 1 THEN s[k] ELSE g[k - 1] \o s[k]
             h == [j \in 1 .. k |-> IF j = k THEN next ELSE g[j]]
  <2>3. ASSUME NEW j \in 1 .. k PROVE h[j] = IF j = 1 THEN s[j] ELSE h[j - 1] \o s[j]
    <3>1. CASE j = k
      <4>1. j # 1 => h[j - 1] = g[j - 1]
        BY <1>3, <3>1
      <4> QED
        BY <3>1, <4>1
    <3>2. CASE j # k
      <4>1. j \in 1 .. (k - 1) /\ h[j] = g[j]
        BY <3>2
      <4>2. g[j] = IF j = 1 THEN s[j] ELSE g[j - 1] \o s[j]
        BY <2>2, <4>1 DEF Joins
      <4>3. j # 1 => h[j - 1] = g[j - 1]
        BY <3>2
      <4> QED
        BY <4>1, <4>2, <4>3
    <3> QED
      BY <3>1, <3>2
  <2>4. h = [j \in 1 .. k |-> h[j]]
    OBVIOUS
  <2> HIDE DEF h
  <2>5. Joins(s, k, h)
    BY <2>3, <2>4 DEF Joins
  <2> QED
    BY <1>1, <2>5
<1> QED
  BY <1>2, <1>3

\* The texts of some documents, in their order.
Texts(docs, texts) == Len(texts) = Len(docs) /\ \A i \in 1 .. Len(docs) : texts[i] = docs[i].text

LEMMA TextsJoin ==
    ASSUME NEW S, NEW T, NEW d \in Seq(S), NEW e \in Seq(S), NEW t \in Seq(T), NEW u \in Seq(T),
           Texts(d, t), Texts(e, u)
    PROVE  Texts(d \o e, t \o u) /\ d \o e \in Seq(S) /\ t \o u \in Seq(T)
<1>0. d \o e \in Seq(S) /\ Len(d \o e) = Len(d) + Len(e) /\ Len(d) \in Nat /\ Len(e) \in Nat
  OBVIOUS
<1>00. t \o u \in Seq(T) /\ Len(t \o u) = Len(t) + Len(u) /\ Len(t) = Len(d) /\ Len(u) = Len(e)
  <2>1. t \o u \in Seq(T) /\ Len(t \o u) = Len(t) + Len(u)
    OBVIOUS
  <2>2. Len(t) = Len(d) /\ Len(u) = Len(e)
    BY DEF Texts
  <2> QED
    BY <2>1, <2>2
<1>1. Len(d \o e) = Len(d) + Len(e) /\ Len(t \o u) = Len(d \o e)
  BY <1>0, <1>00
<1>2. ASSUME NEW i \in 1 .. Len(d \o e) PROVE (t \o u)[i] = (d \o e)[i].text
  <2>1. CASE i <= Len(d)
    BY <1>1, <2>1 DEF Texts
  <2>2. CASE ~(i <= Len(d))
    <3>1. i - Len(d) \in 1 .. Len(e) /\ Len(t) = Len(d)
      BY <1>1, <2>2 DEF Texts
    <3>2. (d \o e)[i] = e[i - Len(d)] /\ (t \o u)[i] = u[i - Len(d)]
      BY <1>1, <2>2, <3>1
    <3> QED
      BY <3>1, <3>2 DEF Texts
  <2> QED
    BY <2>1, <2>2
<1> QED
  BY <1>0, <1>00, <1>1, <1>2 DEF Texts

LEMMA FlatIs ==
    ASSUME NEW s, NEW n \in Nat \ {0}, Len(s) = n
    PROVE  \E g : Joins(s, n, g) /\ D!FlattenSeq(s) = g[n]
<1> DEFINE g == CHOOSE g : Joins(s, n, g)
<1>1. Joins(s, n, g)
  BY JoinsExist
<1>2. D!FlattenSeq(s) = g[n]
  BY DEF D!FlattenSeq, Joins
<1> QED
  BY <1>1, <1>2

LEMMA FlatTexts ==
    ASSUME NEW S, NEW T, NEW n \in Nat \ {0}, NEW d \in [1 .. n -> Seq(S)], NEW t \in [1 .. n -> Seq(T)],
           \A i \in 1 .. n : Texts(d[i], t[i])
    PROVE  /\ D!FlattenSeq(d) \in Seq(S) /\ D!FlattenSeq(t) \in Seq(T)
           /\ Texts(D!FlattenSeq(d), D!FlattenSeq(t))
<1>0. Len(d) = n /\ Len(t) = n
  OBVIOUS
<1>1. PICK g : Joins(d, n, g) /\ D!FlattenSeq(d) = g[n]
  BY <1>0, FlatIs
<1>2. PICK h : Joins(t, n, h) /\ D!FlattenSeq(t) = h[n]
  BY <1>0, FlatIs
<1> DEFINE Fine(k) == g[k] \in Seq(S) /\ h[k] \in Seq(T) /\ Texts(g[k], h[k])
           wrong == {k \in 1 .. n : ~Fine(k)}
<1>3. wrong = {}
  <2> SUFFICES ASSUME wrong # {} PROVE FALSE
    OBVIOUS
  <2>1. wrong \subseteq Nat
    OBVIOUS
  <2>2. PICK k \in wrong : \A j \in wrong : k <= j
    BY <2>1, LeastNat
  <2>3. /\ g[k] = IF k = 1 THEN d[k] ELSE g[k - 1] \o d[k]
        /\ h[k] = IF k = 1 THEN t[k] ELSE h[k - 1] \o t[k]
    BY <1>1, <1>2, <2>2 DEF Joins
  <2>4. CASE k = 1
    BY <2>2, <2>3, <2>4
  <2>5. CASE k # 1
    <3>1. k - 1 \in 1 .. n /\ ~(k <= k - 1)
      BY <2>2, <2>5
    <3>2. Fine(k - 1)
      BY <2>2, <3>1
    <3>3. d[k] \in Seq(S) /\ t[k] \in Seq(T) /\ Texts(d[k], t[k])
      BY <2>2
    <3>4. Fine(k)
      <4> DEFINE a == g[k - 1]
                 b == h[k - 1]
      <4>1. a \in Seq(S) /\ b \in Seq(T) /\ Texts(a, b) /\ g[k] = a \o d[k] /\ h[k] = b \o t[k]
        BY <2>3, <2>5, <3>2
      <4> HIDE DEF a, b
      <4>2. Texts(a \o d[k], b \o t[k]) /\ a \o d[k] \in Seq(S) /\ b \o t[k] \in Seq(T)
        BY <3>3, <4>1, TextsJoin
      <4> QED
        BY <4>1, <4>2
    <3> QED
      BY <2>2, <3>4
  <2> QED
    BY <2>4, <2>5
<1>4. Fine(n)
  <2>1. n \in 1 .. n
    OBVIOUS
  <2> QED
    BY <1>3, <2>1
<1> QED
  BY <1>1, <1>2, <1>4

----
(* The files of an upload.                                                  *)

Sizes == Nat \cup {Bad}
Document(files) == [text : Sizes, source : {files[i].name : i \in DOMAIN files}]

\* The texts that a file has, blank lines left out.
OwnTexts(f) == [j \in DOMAIN D!Present(f.entries) |-> D!TextOf(f, D!Present(f.entries)[j])]

LEMMA FileIsWhole ==
    ASSUME NEW files \in Uploads, NEW i \in DOMAIN files
    PROVE  /\ D!Acceptable(files[i]) <=> ~D!Broken(files[i])
           /\ OwnTexts(files[i]) \in Seq(Sizes)
           /\ D!Acceptable(files[i]) =>
                /\ D!Parsed(files[i]) \in Seq(Document(files)) /\ D!Parsed(files[i]) # <<>>
                /\ Texts(D!Parsed(files[i]), OwnTexts(files[i]))
                /\ \A k \in 1 .. Len(D!Parsed(files[i])) : D!Parsed(files[i])[k].text \in Nat
<1> DEFINE f == files[i]
           entries == f.entries
           P == D!Present(entries)
           text(e) == D!TextOf(f, e)
           S == There(entries)
           n == Cardinality(S)
           Fine == \A k \in S : text(entries[k]) \in 1 .. MaxText
           Base == /\ f.named /\ f.bytes \in 1 .. MaxFile
                   /\ f.extension \in D!Plain \cup D!Archives \cup D!Rows
                   /\ D!Decodes(f) /\ f.wellFormed
<1>0. /\ IsList(entries)
      /\ \A k \in DOMAIN entries : text(entries[k]) \in Sizes
      /\ \A k \in DOMAIN entries : entries[k] = None => f.extension \in {"csv", "json", "jsonl"}
      /\ Bad \notin Nat /\ MaxText \in Nat
  BY DocumentFacts DEF Sizes
<1>1. /\ n \in Nat /\ DOMAIN P = 1 .. n /\ Len(P) = n /\ P = [k \in 1 .. n |-> P[k]]
      /\ \A k \in 1 .. n : \E j \in S : P[k] = entries[j]
      /\ \A j \in S : \E k \in 1 .. n : P[k] = entries[j]
      /\ S = DOMAIN entries => P = entries
  BY <1>0, PresentIs
<1>2. S \subseteq DOMAIN entries /\ \A k \in DOMAIN entries : k \notin S <=> entries[k] = None
  BY DEF There
<1>3. f.extension = "json" /\ (\E k \in DOMAIN entries : entries[k] = None) => D!Broken(f) /\ ~D!Acceptable(f)
  <2> SUFFICES ASSUME f.extension = "json", NEW k \in DOMAIN entries, entries[k] = None
               PROVE  D!Broken(f) /\ ~D!Acceptable(f)
    OBVIOUS
  <2>1. D!Broken(f)
    BY DEF D!Broken
  <2>2. D!Entries(f) = entries
    BY DEF D!Entries
  <2>3. k \in DOMAIN D!Parsed(f) /\ D!Parsed(f)[k].text = text(entries[k])
    BY <2>2 DEF D!Parsed
  <2>4. text(entries[k]) = Bad
    BY DEF D!TextOf, D!Rows
  <2>5. ~D!Acceptable(f)
    BY <2>3, <2>4 DEF D!Acceptable, D!Readable
  <2> QED
    BY <2>1, <2>5
<1>4. ~(f.extension = "json" /\ (\E k \in DOMAIN entries : entries[k] = None)) => D!Entries(f) = P
  <2> SUFFICES ASSUME ~(f.extension = "json" /\ (\E k \in DOMAIN entries : entries[k] = None)),
                      f.extension \notin {"csv", "jsonl"}
               PROVE  D!Entries(f) = P
    BY DEF D!Entries
  <2>1. D!Entries(f) = entries
    BY DEF D!Entries
  <2>2. S = DOMAIN entries
    BY <1>0, <1>2
  <2> QED
    BY <1>1, <2>1, <2>2
<1>5. \A k \in 1 .. n : text(P[k]) \in Sizes
  BY <1>0, <1>1, <1>2
<1>6. OwnTexts(f) = [k \in 1 .. n |-> text(P[k])] /\ OwnTexts(f) \in Seq(Sizes) /\ Len(OwnTexts(f)) = n
  <2>1. OwnTexts(f) = [k \in 1 .. n |-> text(P[k])]
    BY <1>1 DEF OwnTexts
  <2> HIDE DEF n, P, text
  <2> QED
    BY <1>1, <1>5, <2>1
<1>7. ASSUME D!Entries(f) = P
      PROVE  /\ D!Parsed(f) \in Seq(Document(files)) /\ Len(D!Parsed(f)) = n
             /\ \A k \in 1 .. n : D!Parsed(f)[k].text = text(P[k])
             /\ D!Parsed(f) # <<>> <=> n # 0
  <2>1. D!Parsed(f) = [k \in 1 .. n |-> [text |-> text(P[k]), source |-> f.name]]
    BY <1>1, <1>7 DEF D!Parsed
  <2>2. \A k \in 1 .. n : [text |-> text(P[k]), source |-> f.name] \in Document(files)
    BY <1>5 DEF Document
  <2> HIDE DEF n, P, text, f
  <2>3. D!Parsed(f) \in Seq(Document(files)) /\ Len(D!Parsed(f)) = n
    BY <1>1, <2>1, <2>2
  <2>4. \A k \in 1 .. n : D!Parsed(f)[k].text = text(P[k])
    BY <2>1
  <2>5. D!Parsed(f) # <<>> <=> n # 0
    BY <2>3
  <2> QED
    BY <2>3, <2>4, <2>5
<1>8. Fine <=> \A k \in 1 .. n : text(P[k]) \in 1 .. MaxText
  <2> HIDE DEF n, P, text, S, f
  <2> QED
    BY <1>1
<1>9. n = 0 <=> S = {}
  <2>1. IsFiniteSet(DOMAIN entries)
    <3> DEFINE m == Len(entries)
    <3>1. DOMAIN entries = 1 .. m /\ m \in Nat
      BY <1>0, ListIs
    <3> HIDE DEF m
    <3>2. IsFiniteSet(1 .. m)
      BY <3>1, FS_Interval
    <3> QED
      BY <3>1, <3>2
  <2>2. IsFiniteSet(S)
    BY <1>2, <2>1, FS_Subset
  <2> QED
    BY <2>2, FS_EmptySet
<1>10. ASSUME D!Entries(f) = P PROVE D!Acceptable(f) <=> Base /\ n # 0 /\ Fine
  <2>1. DOMAIN D!Parsed(f) = 1 .. n
    BY <1>1, <1>7, <1>10
  <2>2. \A k \in 1 .. n : D!Readable(D!Parsed(f)[k]) <=> text(P[k]) \in 1 .. MaxText
    <3>1. \A k \in 1 .. n : D!Parsed(f)[k].text = text(P[k])
      BY <1>7, <1>10
    <3> HIDE DEF text, P, n, f
    <3>2. ASSUME NEW k \in 1 .. n PROVE D!Readable(D!Parsed(f)[k]) <=> text(P[k]) \in 1 .. MaxText
      <4> DEFINE z == text(P[k])
      <4>1. D!Readable(D!Parsed(f)[k]) <=> z # Bad /\ z > 0 /\ z <= MaxText
        BY <3>1 DEF D!Readable
      <4>2. z = Bad \/ z \in Nat
        BY <1>5 DEF Sizes
      <4>3. Bad \notin 1 .. MaxText
        BY <1>0
      <4> HIDE DEF z
      <4>4. z # Bad /\ z > 0 /\ z <= MaxText <=> z \in 1 .. MaxText
        BY <1>0, <4>2, <4>3
      <4> QED
        BY <4>1, <4>4 DEF z
    <3> QED
      BY <3>2
  <2>3. D!Parsed(f) # <<>> <=> n # 0
    BY <1>7, <1>10
  <2> HIDE DEF text, P, n, f, S, Fine, entries
  <2>4. D!Acceptable(f) <=> Base /\ n # 0 /\ \A k \in 1 .. n : text(P[k]) \in 1 .. MaxText
    BY <2>1, <2>2, <2>3 DEF D!Acceptable
  <2> QED
    BY <1>8, <2>4
<1>11. ~(f.extension = "json" /\ (\E k \in DOMAIN entries : entries[k] = None)) => (D!Broken(f) <=> ~(Base /\ S # {} /\ Fine))
  <2>1. (\A k \in DOMAIN entries : entries[k] = None) <=> S = {}
    BY <1>2
  <2>2. (\E k \in DOMAIN entries : entries[k] # None /\ text(entries[k]) \notin 1 .. MaxText) <=> ~Fine
    BY <1>2
  <2>3. D!Broken(f) <=>
          \/ ~Base \/ (\A k \in DOMAIN entries : entries[k] = None)
          \/ (\E k \in DOMAIN entries : entries[k] # None /\ text(entries[k]) \notin 1 .. MaxText)
          \/ (f.extension = "json" /\ \E k \in DOMAIN entries : entries[k] = None)
    BY DEF D!Broken
  <2> HIDE DEF S, Fine, Base
  <2> QED
    BY <2>1, <2>2, <2>3
<1>12. D!Acceptable(f) <=> ~D!Broken(f)
  BY <1>3, <1>4, <1>9, <1>10, <1>11
<1>13. D!Acceptable(f) =>
          /\ D!Parsed(f) \in Seq(Document(files)) /\ D!Parsed(f) # <<>>
          /\ Texts(D!Parsed(f), OwnTexts(f))
          /\ \A k \in 1 .. Len(D!Parsed(f)) : D!Parsed(f)[k].text \in Nat
  <2> SUFFICES ASSUME D!Acceptable(f)
               PROVE  /\ D!Parsed(f) \in Seq(Document(files)) /\ D!Parsed(f) # <<>>
                      /\ Texts(D!Parsed(f), OwnTexts(f))
                      /\ \A k \in 1 .. Len(D!Parsed(f)) : D!Parsed(f)[k].text \in Nat
    OBVIOUS
  <2>1. D!Entries(f) = P
    BY <1>3, <1>4
  <2>2. n # 0 /\ \A k \in 1 .. n : text(P[k]) \in 1 .. MaxText
    BY <1>8, <1>10, <2>1
  <2>3. /\ D!Parsed(f) \in Seq(Document(files)) /\ Len(D!Parsed(f)) = n
        /\ \A k \in 1 .. n : D!Parsed(f)[k].text = text(P[k])
        /\ D!Parsed(f) # <<>>
    BY <1>7, <2>1, <2>2
  <2> HIDE DEF text, P, n, f, S, Fine, entries
  <2> QED
    BY <1>6, <2>2, <2>3 DEF Texts
<1> QED
  BY <1>6, <1>12, <1>13

LEMMA UploadIsWhole ==
    ASSUME NEW files \in Uploads, files # <<>>, \A i \in DOMAIN files : D!Acceptable(files[i])
    PROVE  /\ D!Documents(files) \in Seq(Document(files)) /\ D!TextsOf(files) \in Seq(Sizes)
           /\ Texts(D!Documents(files), D!TextsOf(files))
           /\ D!TextsOf(files) = [i \in DOMAIN D!Documents(files) |-> D!Documents(files)[i].text]
<1> DEFINE n == Len(files)
           d == [i \in 1 .. n |-> D!Parsed(files[i])]
           t == [i \in 1 .. n |-> OwnTexts(files[i])]
<1>1. n \in Nat \ {0} /\ DOMAIN files = 1 .. n
  <2>1. files \in Seq(D!Range(files))
    BY DocumentFacts DEF IsList
  <2> QED
    BY <2>1
<1>2. D!Documents(files) = D!FlattenSeq(d) /\ D!TextsOf(files) = D!FlattenSeq(t)
  <2>1. D!Documents(files) = D!FlattenSeq(d)
    BY <1>1 DEF D!Documents
  <2>2. D!TextsOf(files) = D!FlattenSeq(t)
    BY <1>1 DEF D!TextsOf, OwnTexts
  <2> QED
    BY <2>1, <2>2
<1>3. /\ d \in [1 .. n -> Seq(Document(files))] /\ t \in [1 .. n -> Seq(Sizes)]
      /\ \A i \in 1 .. n : Texts(d[i], t[i])
  <2>1. \A i \in 1 .. n : /\ D!Parsed(files[i]) \in Seq(Document(files)) /\ OwnTexts(files[i]) \in Seq(Sizes)
                          /\ Texts(D!Parsed(files[i]), OwnTexts(files[i]))
    BY <1>1, FileIsWhole
  <2> QED
    BY <2>1
<1> DEFINE docs == D!Documents(files)
           texts == D!TextsOf(files)
<1>4. docs \in Seq(Document(files)) /\ texts \in Seq(Sizes) /\ Texts(docs, texts)
  <2> HIDE DEF d, t, n
  <2>1. /\ D!FlattenSeq(d) \in Seq(Document(files)) /\ D!FlattenSeq(t) \in Seq(Sizes)
        /\ Texts(D!FlattenSeq(d), D!FlattenSeq(t))
    BY <1>1, <1>3, FlatTexts
  <2> QED
    BY <1>2, <2>1
<1> HIDE DEF docs, texts
<1>5. texts = [i \in DOMAIN docs |-> docs[i].text]
  BY <1>4 DEF Texts
<1> QED
  BY <1>4, <1>5 DEF docs, texts

----
(* The rows of a dataset.                                                   *)

Rowed(docs, at) ==
    [rows |-> [r \in DOMAIN at |-> docs[at[r]]],
     duplicates |-> {[source |-> docs[i].source, of |-> CHOOSE r \in DOMAIN at : docs[at[r]].text = docs[i].text] :
                        i \in DOMAIN docs \ D!ToSet(at)},
     count |-> D!Cardinality(DOMAIN docs \ D!ToSet(at))]

LEMMA DatasetIsWhole ==
    ASSUME NEW S, NEW T, NEW docs \in Seq(S), NEW texts \in Seq(T), Texts(docs, texts)
    PROVE  LET ds == D!Dataset(docs) IN
           /\ {r.text : r \in D!ToSet(ds.rows)} = D!ToSet(texts)
           /\ Len(ds.rows) = D!Cardinality(D!ToSet(texts))
           /\ Len(ds.rows) + ds.count = Len(texts)
<1> DEFINE n == Len(docs)
           F == {i \in DOMAIN docs : D!First(docs, i)}
           c == Cardinality(F)
           at == Sorted(F)
           rows == [r \in 1 .. c |-> docs[at[r]]]
           all == {texts[i] : i \in 1 .. n}
<1>1. n \in Nat /\ DOMAIN docs = 1 .. n /\ DOMAIN texts = 1 .. n /\ Len(texts) = n
  BY DEF Texts
<1>2. F \in SUBSET (1 .. n) /\ IsFiniteSet(1 .. n) /\ Cardinality(1 .. n) = n
  <2>1. F \in SUBSET (1 .. n)
    BY <1>1
  <2> HIDE DEF n, F
  <2>2. IsFiniteSet(1 .. n) /\ Cardinality(1 .. n) = n
    BY <1>1, FS_Interval
  <2> QED
    BY <2>1, <2>2
<1>3. F \in SUBSET Nat /\ IsFiniteSet(F)
  <2> HIDE DEF F, n
  <2>1. IsFiniteSet(F)
    BY <1>2, FS_Subset
  <2> QED
    BY <1>2, <2>1
<1>4. c \in Nat /\ at \in [1 .. c -> F] /\ \A x \in F : \E i \in 1 .. c : at[i] = x
  BY <1>3, SortedIs
<1>5. D!ToSet(at) = F /\ DOMAIN at = 1 .. c
  BY <1>4 DEF D!ToSet
<1>6. D!ToSet(texts) = all
  BY <1>1 DEF D!ToSet
<1>7. D!Ascending(F) = at
  BY DocumentSets
<1>8. D!Dataset(docs).rows = rows /\ D!Dataset(docs).count = Cardinality((1 .. n) \ F)
  <2>1. D!Dataset(docs) = Rowed(docs, D!Ascending(F))
    BY DEF D!Dataset, Rowed
  <2>2. D!Dataset(docs) = Rowed(docs, at)
    BY <1>7, <2>1
  <2> HIDE DEF at, F, n, c
  <2>3. /\ D!Dataset(docs).rows = [r \in DOMAIN at |-> docs[at[r]]]
        /\ D!Dataset(docs).count = D!Cardinality(DOMAIN docs \ D!ToSet(at))
    BY <2>2 DEF Rowed
  <2> QED
    BY <1>1, <1>5, <2>3, DocumentSets
<1>9. \A i \in 1 .. n : texts[i] = docs[i].text
  BY DEF Texts
<1>10. ASSUME NEW i \in 1 .. n PROVE \E j \in F : texts[j] = texts[i]
  <2> DEFINE same == {j \in 1 .. n : texts[j] = texts[i]}
  <2>1. same \subseteq Nat /\ same # {}
    OBVIOUS
  <2>2. PICK j \in same : \A k \in same : j <= k
    BY <2>1, LeastNat
  <2>3. \A k \in 1 .. j - 1 : k \in 1 .. n /\ ~(j <= k)
    BY <1>1, <2>2
  <2>4. \A k \in 1 .. j - 1 : docs[k].text # docs[j].text
    BY <1>9, <2>2, <2>3
  <2>5. j \in F
    BY <1>1, <2>2, <2>4 DEF D!First
  <2> QED
    BY <2>2, <2>5
<1>11. ASSUME NEW i \in F, NEW j \in F, texts[i] = texts[j] PROVE i = j
  <2>1. i \in 1 .. n /\ j \in 1 .. n /\ docs[i].text = docs[j].text
    BY <1>2, <1>9, <1>11
  <2>2. ~(i < j)
    <3> SUFFICES ASSUME i < j PROVE FALSE
      OBVIOUS
    <3>1. i \in 1 .. j - 1 /\ D!First(docs, j)
      BY <2>1
    <3> QED
      BY <2>1, <3>1 DEF D!First
  <2>3. ~(j < i)
    <3> SUFFICES ASSUME j < i PROVE FALSE
      OBVIOUS
    <3>1. j \in 1 .. i - 1 /\ D!First(docs, i)
      BY <2>1
    <3> QED
      BY <2>1, <3>1 DEF D!First
  <2> QED
    BY <2>1, <2>2, <2>3
<1> HIDE DEF F
<1>12. c = Cardinality(all)
  <2> DEFINE f == [i \in F |-> texts[i]]
  <2>1. f \in Surjection(F, all)
    BY <1>2, <1>10 DEF Surjection
  <2>2. f \in Injection(F, all)
    BY <1>2, <1>11 DEF Injection, IsInjective
  <2> HIDE DEF f, all
  <2> QED
    BY <1>3, <2>1, <2>2, FS_Surjection
<1>13. {r.text : r \in D!ToSet(rows)} = all
  <2>1. D!ToSet(rows) = {docs[i] : i \in F}
    <3> HIDE DEF at, c, n
    <3> QED
      BY <1>4 DEF D!ToSet
  <2> HIDE DEF rows
  <2>2. {r.text : r \in D!ToSet(rows)} = {docs[i].text : i \in F}
    BY <2>1
  <2>3. {docs[i].text : i \in F} = {texts[i] : i \in F}
    BY <1>2, <1>9
  <2>4. {texts[i] : i \in F} = all
    <3>1. \A x \in all : \E j \in F : x = texts[j]
      BY <1>10
    <3> QED
      BY <1>2, <3>1
  <2> QED
    BY <2>2, <2>3, <2>4
<1>14. Cardinality((1 .. n) \ F) = n - c
  <2>1. (1 .. n) \cap F = F
    BY <1>2
  <2> DEFINE I == 1 .. n
  <2>2. IsFiniteSet(I) /\ Cardinality(I) = n /\ I \cap F = F
    BY <1>2, <2>1
  <2> HIDE DEF I
  <2>3. Cardinality(I \ F) = Cardinality(I) - Cardinality(I \cap F)
    BY <2>2, FS_Difference
  <2>4. Cardinality(I \ F) = n - c
    BY <2>2, <2>3
  <2> QED
    BY <2>4 DEF I
<1>15. Len(rows) = c
  <2> HIDE DEF c
  <2> QED
    BY <1>4
<1> HIDE DEF n, c, at, rows, all
<1> QED
  BY <1>1, <1>4, <1>6, <1>8, <1>12, <1>13, <1>14, <1>15, DocumentSets

----
(* The records of an attempt.                                               *)

Before(raw, i) == {j \in 1 .. i - 1 : raw.entities[j] = raw.entities[i]}
Mark(raw, i) == <<raw.entities[i], Cardinality(Before(raw, i))>>
Ends(raw, r) == <<D!Named(raw, r.unit, r.source), D!Named(raw, r.unit, r.target)>>
Clear(raw) == {k \in DOMAIN raw.relations : \A s \in {1, 2} : Cardinality(Ends(raw, raw.relations[k])[s]) = 1}
Only(S) == CHOOSE x \in S : TRUE
Edge(raw, k) ==
    [id |-> <<raw.relations[k], k>>, left |-> Mark(raw, Only(Ends(raw, raw.relations[k])[1])),
     right |-> Mark(raw, Only(Ends(raw, raw.relations[k])[2]))]

LEMMA CorpusIs ==
    ASSUME NEW raw
    PROVE  D!Corpus(raw) =
              [mentions |-> [i \in DOMAIN raw.entities |->
                        [id |-> Mark(raw, i), name |-> raw.entities[i].title, unit |-> raw.entities[i].unit]],
               relations |-> {Edge(raw, k) : k \in Clear(raw)},
               unresolved |-> {k \in DOMAIN raw.relations : k \notin Clear(raw)},
               raw |-> raw]
BY ZenonT(40), DocumentSets DEF D!Corpus, Mark, Ends, Clear, Only, Edge, Before

\* Two records of an attempt have different marks.
LEMMA MarksDiffer ==
    ASSUME NEW raw \in Extractions, NEW i \in DOMAIN raw.entities, NEW k \in DOMAIN raw.entities,
           Mark(raw, i) = Mark(raw, k)
    PROVE  i = k
<1>1. i \in Nat /\ k \in Nat /\ i >= 1 /\ k >= 1
  <2>1. raw.entities \in Seq(D!Range(raw.entities))
    BY DocumentFacts DEF IsList
  <2> QED
    BY <2>1
<1>2. ASSUME NEW a \in Nat, NEW b \in Nat, a >= 1, a < b, raw.entities[a] = raw.entities[b]
      PROVE  Cardinality(Before(raw, a)) < Cardinality(Before(raw, b))
  <2>1. Before(raw, a) \cup {a} \in SUBSET Before(raw, b) /\ a \notin Before(raw, a)
    BY <1>2 DEF Before
  <2>2. IsFiniteSet(Before(raw, a)) /\ IsFiniteSet(Before(raw, b))
    <3>1. IsFiniteSet(1 .. a - 1) /\ IsFiniteSet(1 .. b - 1)
      BY FS_Interval
    <3>2. Before(raw, a) \in SUBSET (1 .. a - 1) /\ Before(raw, b) \in SUBSET (1 .. b - 1)
      BY DEF Before
    <3> QED
      BY <3>1, <3>2, FS_Subset
  <2>3. Cardinality(Before(raw, a) \cup {a}) = Cardinality(Before(raw, a)) + 1
    BY <2>1, <2>2, FS_AddElement
  <2>4. Cardinality(Before(raw, a) \cup {a}) <= Cardinality(Before(raw, b))
    BY <2>1, <2>2, FS_Subset
  <2>5. Cardinality(Before(raw, a)) \in Nat /\ Cardinality(Before(raw, b)) \in Nat
    BY <2>2, FS_CardinalityType
  <2> QED
    BY <2>3, <2>4, <2>5
<1>3. raw.entities[i] = raw.entities[k] /\ Cardinality(Before(raw, i)) = Cardinality(Before(raw, k))
  BY DEF Mark
<1>4. ~(i < k) /\ ~(k < i)
  <2>1. \A a \in Nat : IsFiniteSet(Before(raw, a)) /\ Cardinality(Before(raw, a)) \in Nat
    <3> TAKE a \in Nat
    <3>1. IsFiniteSet(1 .. a - 1) /\ Before(raw, a) \in SUBSET (1 .. a - 1)
      BY FS_Interval DEF Before
    <3> QED
      BY <3>1, FS_Subset, FS_CardinalityType
  <2>2. i < k => Cardinality(Before(raw, i)) < Cardinality(Before(raw, k))
    BY <1>1, <1>2, <1>3
  <2>3. k < i => Cardinality(Before(raw, k)) < Cardinality(Before(raw, i))
    BY <1>1, <1>2, <1>3
  <2>4. Cardinality(Before(raw, i)) \in Nat /\ Cardinality(Before(raw, k)) \in Nat
    BY <1>1, <2>1
  <2> QED
    BY <1>3, <2>2, <2>3, <2>4
<1> QED
  BY <1>1, <1>4

\* The nodes of a title in a text unit; a relation is an edge between the
\* only ones of its ends, or unresolved.
NodesOf(N, u, title) == {n \in N : n.unit = u /\ Clean[n.properties.title] = Clean[title]}
Placed(k, r, unresolved, E, N) ==
    \/ /\ k \in unresolved
       /\ Cardinality(NodesOf(N, r.unit, r.source)) # 1 \/ Cardinality(NodesOf(N, r.unit, r.target)) # 1
    \/ \E e \in E : e.properties = r
        /\ {e.from} = {n.id : n \in NodesOf(N, r.unit, r.source)}
        /\ {e.to} = {n.id : n \in NodesOf(N, r.unit, r.target)}

LEMMA RecordsFollow ==
    ASSUME NEW raw \in Extractions, latest = D!Corpus(raw)
    PROVE  /\ Len(D!Graph.nodes) = Len(raw.entities)
           /\ D!Cardinality({n.id : n \in D!ToSet(D!Graph.nodes)}) = Len(raw.entities)
           /\ \A i \in DOMAIN raw.entities :
                /\ D!Graph.nodes[i].properties = raw.entities[i]
                /\ D!Graph.nodes[i].unit = raw.entities[i].unit
           /\ D!Cardinality(D!Graph.edges) <= Len(raw.relations)
           /\ \A k \in DOMAIN raw.relations :
                Placed(k, raw.relations[k], latest.unresolved, D!Graph.edges, D!ToSet(D!Graph.nodes))
<1> DEFINE m == Len(raw.entities)
           l == Len(raw.relations)
           E == raw.entities
           nodes == [i \in 1 .. m |-> [id |-> Mark(raw, i), unit |-> E[i].unit, properties |-> E[i]]]
           Kept == Clear(raw)
           edge(k) == [from |-> Edge(raw, k).left, to |-> Edge(raw, k).right, properties |-> raw.relations[k]]
           edges == {edge(k) : k \in Kept}
<1>1. m \in Nat /\ DOMAIN E = 1 .. m /\ l \in Nat /\ DOMAIN raw.relations = 1 .. l
  <2>1. E \in Seq(D!Range(E)) /\ raw.relations \in Seq(D!Range(raw.relations))
    BY DocumentFacts DEF IsList
  <2> QED
    BY <2>1
<1>2. /\ latest.mentions = [i \in DOMAIN E |-> [id |-> Mark(raw, i), name |-> E[i].title, unit |-> E[i].unit]]
      /\ latest.relations = {Edge(raw, k) : k \in Kept}
      /\ latest.unresolved = {k \in DOMAIN raw.relations : k \notin Kept}
      /\ latest.raw = raw
  BY CorpusIs
<1>3. D!Graph.nodes = nodes
  <2>1. D!Graph.nodes = [i \in DOMAIN latest.mentions |->
                  [id |-> latest.mentions[i].id, unit |-> latest.mentions[i].unit,
                   properties |-> latest.raw.entities[i]]]
    BY DEF D!Graph
  <2> QED
    BY <1>1, <1>2, <2>1
<1>4. D!Graph.edges = edges
  <2>1. D!Graph.edges = {[from |-> r.left, to |-> r.right, properties |-> latest.raw.relations[r.id[2]]] :
                  r \in latest.relations}
    BY DEF D!Graph
  <2>2. \A k \in Kept : Edge(raw, k).id[2] = k
    BY DEF Edge
  <2> HIDE DEF Kept
  <2> QED
    BY <1>2, <2>1, <2>2
<1> DEFINE N == D!ToSet(nodes)
<1>5. N = {nodes[i] : i \in 1 .. m}
  BY DEF D!ToSet
<1>6. \A i \in 1 .. m : /\ nodes[i].id = Mark(raw, i) /\ nodes[i].unit = E[i].unit
                        /\ nodes[i].properties = E[i]
  OBVIOUS
<1>7. \A i, k \in 1 .. m : nodes[i].id = nodes[k].id => i = k
  BY <1>1, <1>6, MarksDiffer
<1>8. IsFiniteSet(1 .. m) /\ Cardinality(1 .. m) = m /\ IsFiniteSet(1 .. l) /\ Cardinality(1 .. l) = l
  <2> HIDE DEF m, l
  <2> QED
    BY <1>1, FS_Interval
<1>9. Len(nodes) = m
  <2> HIDE DEF m
  <2> QED
    BY <1>1
<1> HIDE DEF nodes
<1>10. Cardinality({n.id : n \in N}) = m
  <2> DEFINE f == [i \in 1 .. m |-> nodes[i].id]
             ids == {n.id : n \in N}
  <2>1. f \in Surjection(1 .. m, ids)
    BY <1>5 DEF Surjection
  <2>2. f \in Injection(1 .. m, ids)
    BY <1>5, <1>7 DEF Injection, IsInjective
  <2> HIDE DEF f, ids
  <2>3. Cardinality(ids) = m
    BY <1>8, <2>1, <2>2, FS_Surjection
  <2> QED
    BY <2>3 DEF ids
<1>11. Cardinality(edges) <= l
  <2>1. Kept \in SUBSET (1 .. l)
    BY <1>1 DEF Clear
  <2> DEFINE f == [k \in Kept |-> edge(k)]
  <2>2. f \in Surjection(Kept, edges)
    <3> HIDE DEF Kept, edge
    <3> QED
      BY DEF Surjection
  <2> HIDE DEF f, edges, Kept, l
  <2>3. IsFiniteSet(Kept) /\ Cardinality(Kept) <= l
    <3> DEFINE I == 1 .. l
    <3>1. IsFiniteSet(I) /\ Cardinality(I) = l /\ Kept \in SUBSET I
      BY <1>8, <2>1
    <3> HIDE DEF I
    <3>2. IsFiniteSet(Kept) /\ Cardinality(Kept) <= Cardinality(I)
      BY <3>1, FS_Subset
    <3> QED
      BY <3>1, <3>2
  <2>4. IsFiniteSet(edges) /\ Cardinality(edges) <= Cardinality(Kept)
    BY <2>2, <2>3, FS_Surjection
  <2>5. Cardinality(edges) \in Nat /\ Cardinality(Kept) \in Nat /\ l \in Nat
    BY <1>1, <2>3, <2>4, FS_CardinalityType
  <2> QED
    BY <2>3, <2>4, <2>5
<1> DEFINE node(u, title) == NodesOf(N, u, title)
<1>12. ASSUME NEW u, NEW title
       PROVE  /\ node(u, title) = {nodes[i] : i \in D!Named(raw, u, title)}
              /\ D!Named(raw, u, title) \in SUBSET (1 .. m)
              /\ Cardinality(node(u, title)) = Cardinality(D!Named(raw, u, title))
  <2> DEFINE A == D!Named(raw, u, title)
             B == node(u, title)
             f == [i \in A |-> nodes[i]]
  <2>1. A = {i \in 1 .. m : E[i].unit = u /\ Clean[E[i].title] = Clean[title]}
    BY <1>1 DEF D!Named
  <2>2. B = {nodes[i] : i \in A}
    BY <1>5, <1>6, <2>1 DEF NodesOf
  <2>3. A \in SUBSET (1 .. m)
    BY <2>1
  <2> HIDE DEF A, B
  <2>4. f \in Surjection(A, B)
    BY <2>2 DEF Surjection
  <2>5. f \in Injection(A, B)
    BY <1>7, <2>2, <2>3 DEF Injection, IsInjective
  <2>6. IsFiniteSet(A)
    BY <1>8, <2>3, FS_Subset
  <2> HIDE DEF f
  <2>7. Cardinality(B) = Cardinality(A)
    BY <2>4, <2>5, <2>6, FS_Surjection
  <2> QED
    BY <2>2, <2>3, <2>7 DEF A, B
<1>13. ASSUME NEW u, NEW title, Cardinality(D!Named(raw, u, title)) = 1
       PROVE  {n.id : n \in node(u, title)} = {Mark(raw, Only(D!Named(raw, u, title)))}
  <2> DEFINE A == D!Named(raw, u, title)
  <2>1. A \in SUBSET (1 .. m) /\ Cardinality(A) = 1 /\ node(u, title) = {nodes[i] : i \in A}
    BY <1>12, <1>13
  <2> HIDE DEF A, node
  <2>2. PICK i : A = {i}
    <3>1. IsFiniteSet(A)
      BY <1>8, <2>1, FS_Subset
    <3> QED
      BY <2>1, <3>1, FS_Singleton
  <2>3. Only(A) = i /\ i \in 1 .. m
    BY <2>1, <2>2 DEF Only
  <2>4. node(u, title) = {nodes[i]}
    BY <2>1, <2>2
  <2> QED
    BY <1>6, <2>3, <2>4 DEF A
<1>14. ASSUME NEW k \in 1 .. l PROVE Placed(k, raw.relations[k], latest.unresolved, edges, N)
  <2> DEFINE r == raw.relations[k]
             left == D!Named(raw, r.unit, r.source)
             right == D!Named(raw, r.unit, r.target)
  <2>1. k \in Kept <=> Cardinality(left) = 1 /\ Cardinality(right) = 1
    <3>1. Ends(raw, r)[1] = left /\ Ends(raw, r)[2] = right
      BY DEF Ends
    <3>2. k \in Kept <=> \A s \in {1, 2} : Cardinality(Ends(raw, r)[s]) = 1
      BY <1>1 DEF Clear
    <3> HIDE DEF Kept, r, left, right
    <3> QED
      BY <3>1, <3>2
  <2>2. CASE k \in Kept
    <3>1. edge(k) \in edges /\ edge(k).properties = r
      BY <2>2
    <3>2. edge(k).from = Mark(raw, Only(left)) /\ edge(k).to = Mark(raw, Only(right))
      BY DEF Edge, Ends
    <3>3. /\ {n.id : n \in node(r.unit, r.source)} = {Mark(raw, Only(left))}
          /\ {n.id : n \in node(r.unit, r.target)} = {Mark(raw, Only(right))}
      BY <1>13, <2>1, <2>2
    <3> HIDE DEF edge, edges, left, right, N, Kept
    <3>4. \E e \in edges : e.properties = r
            /\ {e.from} = {n.id : n \in node(r.unit, r.source)}
            /\ {e.to} = {n.id : n \in node(r.unit, r.target)}
      BY <3>1, <3>2, <3>3
    <3> QED
      BY <3>4 DEF Placed
  <2>3. CASE k \notin Kept
    <3>1. k \in latest.unresolved
      BY <1>1, <1>2, <2>3
    <3>2. /\ Cardinality(node(r.unit, r.source)) = Cardinality(left)
          /\ Cardinality(node(r.unit, r.target)) = Cardinality(right)
      BY <1>12
    <3> HIDE DEF left, right, N, Kept
    <3> QED
      BY <2>1, <2>3, <3>1, <3>2 DEF Placed
  <2> QED
    BY <2>2, <2>3
<1> HIDE DEF edges, m, l, Kept
<1>15. D!Cardinality({n.id : n \in N}) = m /\ D!Cardinality(edges) <= l
  BY <1>10, <1>11, DocumentSets
<1>16. \A k \in 1 .. l : Placed(k, raw.relations[k], latest.unresolved, D!Graph.edges, D!ToSet(D!Graph.nodes))
  BY <1>3, <1>4, <1>14
<1>17. Len(D!Graph.nodes) = m /\ D!Cardinality({n.id : n \in D!ToSet(D!Graph.nodes)}) = m
  BY <1>3, <1>9, <1>15
<1>18. D!Cardinality(D!Graph.edges) <= l
  BY <1>4, <1>15
<1>19. \A i \in 1 .. m : D!Graph.nodes[i].properties = E[i] /\ D!Graph.nodes[i].unit = E[i].unit
  BY <1>3, <1>6
<1> HIDE DEF N, node
<1> QED
  BY <1>1, <1>16, <1>17, <1>18, <1>19 DEF m, l

----
(* The import and the attempts.                                             *)

Imported ==
    /\ dataset # None => D!Parses(input) /\ dataset = D!Dataset(D!Documents(input))
    /\ phase = "refused" => ~D!Parses(input)

DocumentsInv ==
    /\ input \in Uploads
    /\ Imported
    /\ phase \in {"saved", "indexed", "succeeded"} => captured \in Extractions
    /\ phase \in {"indexed", "succeeded"} => latest = D!Corpus(captured)
    /\ phase = "succeeded" => documentsIndexed = D!Units

LEMMA DocumentsInit == D!Init => DocumentsInv
BY DEF D!Init, DocumentsInv, Imported

LEMMA DocumentsStep ==
    ASSUME DocumentsInv, [D!Next]_documentsVars PROVE DocumentsInv'
<1>1. CASE UNCHANGED documentsVars
  BY <1>1 DEF DocumentsInv, Imported, documentsVars, D!Units
<1>2. CASE D!Upload
  <2>1. UNCHANGED input /\ (D!Parses(input))' = D!Parses(input) /\ (D!Documents(input))' = D!Documents(input)
    BY <1>2 DEF D!Upload
  <2>2. CASE D!Parses(input)
    BY <1>2, <2>1, <2>2 DEF D!Upload, DocumentsInv, Imported
  <2>3. CASE ~D!Parses(input)
    BY <1>2, <2>1, <2>3 DEF D!Upload, DocumentsInv, Imported
  <2> QED
    BY <2>2, <2>3
<1>3. CASE D!Start
  BY <1>3 DEF D!Start, D!uploadVars, DocumentsInv, Imported
<1>4. CASE D!Capture
  BY <1>4 DEF D!Capture, D!uploadVars, DocumentsInv, Imported
<1>5. CASE D!Point
  BY <1>5 DEF D!Point, D!uploadVars, DocumentsInv, Imported
<1>6. CASE D!Verify
  BY <1>6 DEF D!Verify, D!Covers, D!Units, D!uploadVars, DocumentsInv, Imported
<1>7. CASE D!Break
  BY <1>7 DEF D!Break, D!uploadVars, DocumentsInv, Imported
<1> QED
  BY <1>1, <1>2, <1>3, <1>4, <1>5, <1>6, <1>7 DEF D!Next

\* What an upload that parses has, and why one does not.
LEMMA ParsesIs ==
    ASSUME NEW files \in Uploads
    PROVE  /\ D!Parses(files) =>
                /\ files # <<>> /\ \A i \in DOMAIN files : ~D!Broken(files[i])
                /\ Len(D!TextsOf(files)) <= MaxDocuments /\ D!Total(D!TextsOf(files)) <= MaxText
           /\ ~D!Parses(files) =>
                \/ files = <<>> \/ \E i \in DOMAIN files : D!Broken(files[i])
                \/ ~(D!Bytes(files) <= MaxBatch)
                \/ ~(Len(D!TextsOf(files)) <= MaxDocuments /\ D!Total(D!TextsOf(files)) <= MaxText)
<1> SUFFICES ASSUME files # <<>>, \A i \in DOMAIN files : D!Acceptable(files[i])
             PROVE  D!Parses(files) <=>
                      /\ D!Bytes(files) <= MaxBatch
                      /\ Len(D!TextsOf(files)) <= MaxDocuments /\ D!Total(D!TextsOf(files)) <= MaxText
  BY FileIsWhole DEF D!Parses
<1>1. /\ Len(D!Documents(files)) = Len(D!TextsOf(files))
      /\ D!Total([i \in DOMAIN D!Documents(files) |-> D!Documents(files)[i].text]) = D!Total(D!TextsOf(files))
  BY UploadIsWhole DEF Texts
<1> QED
  BY <1>1 DEF D!Parses

LEMMA DocumentsAreSound == ASSUME DocumentsInv PROVE D!ImportIsWhole /\ D!RecordsAreWhole
<1>1. D!ImportIsWhole
  <2>1. ASSUME dataset # None
        PROVE  /\ input # <<>> /\ \A i \in DOMAIN input : ~D!Broken(input[i])
               /\ {r.text : r \in D!ToSet(dataset.rows)} = D!ToSet(D!TextsOf(input))
               /\ Len(dataset.rows) = D!Cardinality(D!ToSet(D!TextsOf(input)))
               /\ Len(dataset.rows) + dataset.count = Len(D!TextsOf(input))
               /\ Len(D!TextsOf(input)) <= MaxDocuments /\ D!Total(D!TextsOf(input)) <= MaxText
    <3>1. input \in Uploads /\ D!Parses(input) /\ dataset = D!Dataset(D!Documents(input))
      BY <2>1 DEF DocumentsInv, Imported
    <3>2. input # <<>> /\ \A i \in DOMAIN input : D!Acceptable(input[i])
      BY <3>1 DEF D!Parses
    <3>3. /\ D!Documents(input) \in Seq(Document(input)) /\ D!TextsOf(input) \in Seq(Sizes)
          /\ Texts(D!Documents(input), D!TextsOf(input))
      BY <3>1, <3>2, UploadIsWhole
    <3>4. /\ {r.text : r \in D!ToSet(dataset.rows)} = D!ToSet(D!TextsOf(input))
          /\ Len(dataset.rows) = D!Cardinality(D!ToSet(D!TextsOf(input)))
          /\ Len(dataset.rows) + dataset.count = Len(D!TextsOf(input))
      BY <3>1, <3>3, DatasetIsWhole
    <3> QED
      BY <3>1, <3>4, ParsesIs
  <2>2. ASSUME phase = "refused"
        PROVE  \/ input = <<>> \/ \E i \in DOMAIN input : D!Broken(input[i])
               \/ ~(D!Bytes(input) <= MaxBatch)
               \/ ~(Len(D!TextsOf(input)) <= MaxDocuments /\ D!Total(D!TextsOf(input)) <= MaxText)
    BY <2>2, ParsesIs DEF DocumentsInv, Imported
  <2> QED
    BY <2>1, <2>2 DEF D!ImportIsWhole
<1>2. D!RecordsAreWhole
  <2> SUFFICES ASSUME phase = "succeeded" PROVE D!RecordsAreWhole
    BY DEF D!RecordsAreWhole
  <2>1. captured \in Extractions /\ latest = D!Corpus(captured) /\ documentsIndexed = DOMAIN dataset.rows
    BY DEF DocumentsInv, D!Units
  <2>2. latest.raw = captured
    BY <2>1, CorpusIs
  <2>3. /\ Len(D!Graph.nodes) = Len(captured.entities)
        /\ D!Cardinality({n.id : n \in D!ToSet(D!Graph.nodes)}) = Len(captured.entities)
        /\ \A i \in DOMAIN captured.entities :
                /\ D!Graph.nodes[i].properties = captured.entities[i]
                /\ D!Graph.nodes[i].unit = captured.entities[i].unit
        /\ D!Cardinality(D!Graph.edges) <= Len(captured.relations)
        /\ \A k \in DOMAIN captured.relations :
                Placed(k, captured.relations[k], latest.unresolved, D!Graph.edges, D!ToSet(D!Graph.nodes))
    BY <2>1, RecordsFollow
  <2> QED
    BY <2>1, <2>2, <2>3, DocumentSets DEF D!RecordsAreWhole, Placed, NodesOf
<1> QED
  BY <1>1, <1>2

----
(* Side by side.                                                            *)

GroundedInv ==
    /\ part = "jobs" => Inv
    /\ part = "browser" => BrowserInv
    /\ part = "queries" => QueryInv
    /\ part = "documents" => DocumentsInv

(* Pages are of one version and miss nothing, an answer uses its question's *)
(* own models and its evidence names only what is there, an upload is       *)
(* imported whole or refused, and the records a succeeded dataset offers    *)
(* are those of the attempt that succeeded, each once (browsing.py:95,      *)
(* exploration.py:195, parsers.py:263, records.py).                         *)
THEOREM AnswersStayGrounded == MCSpec => []AnswersAreGrounded
<1>1. MCInit => GroundedInv
  BY InitInv, BrowserInit, QueryInit, DocumentsInit DEF MCInit, GroundedInv
<1>2. GroundedInv /\ [MCNext]_allVars => GroundedInv'
  <2> SUFFICES ASSUME GroundedInv, [MCNext]_allVars PROVE GroundedInv'
    OBVIOUS
  <2>1. part' = part
    BY DEF MCNext, allVars
  <2>2. part = "jobs" => [Next]_vars
    BY DEF MCNext, allVars
  <2>3. part = "browser" => [V!Next]_browserVars
    BY DEF MCNext, allVars
  <2>4. part = "queries" => [Q!Next]_queriesVars
    BY DEF MCNext, allVars
  <2>5. part = "documents" => [D!Next]_documentsVars
    BY DEF MCNext, allVars
  <2> QED
    BY <2>1, <2>2, <2>3, <2>4, <2>5, NextInv, BrowserNext, QueryStep, DocumentsStep DEF GroundedInv
<1>3. GroundedInv => AnswersAreGrounded
  BY BrowserIsSound, QueryIsSound, DocumentsAreSound DEF GroundedInv, Inv, AnswersAreGrounded
<1> QED
  BY <1>1, <1>2, <1>3, PTL DEF MCSpec
====
