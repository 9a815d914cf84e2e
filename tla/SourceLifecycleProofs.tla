---- MODULE SourceLifecycleProofs ----
(* What an analysis refers to stays whole, a purge leaves nothing behind,  *)
(* and the requests, cleaners and the guard implement Retention: for every *)
(* number of batches, runs, requests, cleaners and readers.                *)
(*                                                                         *)
(* The reference count and the batch are in two databases.  The invariant  *)
(* says what the guard makes of them: only its holder is under way, and    *)
(* what the holder has seen (a batch listed, a batch that nobody refers    *)
(* to) is still so when it acts on it.                                     *)
(*                                                                         *)
(* Second part: what a template is compiled to, by publishers that share   *)
(* key sets with each other and with the collector.                        *)
(*                                                                         *)
(* Third part: what an analysis drafts, and what reviewers make of it.  A  *)
(* draft is some tables as they are and the others as the groups found for *)
(* them, whatever the order of the selection; every version of it keeps    *)
(* its objects and relations in form, and is valid unless it was edited.   *)
(*                                                                         *)
(* Fourth part: what the readers make of a source.  Row by row, the table  *)
(* under way is the table of the rows so far, and the cells counted are    *)
(* theirs; a row that is accepted is sound, one that is refused is not.    *)
EXTENDS MCSources, FiniteSetTheorems, WellFoundedInduction, NaturalsInduction, TLAPS

Single == {"remove", "mark", "restore", "purge", "count", "condemn", "leave"}

GuardIsExclusive == \A q \in Requests : request[q].pc # "idle" => guard = q

OneWanted ==
    \A q \in Requests :
        request[q].pc \in Single => \E b \in Batches : request[q].wants = {b}

Active(b) == state[b] = "ready" /\ ~deleted[b]

\* What the holder of the guard has found is still so.
SeenIsActive ==
    \A q \in Requests :
        /\ request[q].pc \in {"read", "register"} => \A b \in request[q].seen : Active(b)
        /\ request[q].pc = "mark" => \A b \in request[q].wants : Active(b)
        /\ request[q].pc = "condemn" => \A b \in request[q].wants : ~Referenced(b)

ReadyIsWhole ==
    \A b \in Batches :
        /\ state[b] = "ready" => rows[b] = Portions /\ upload[b]
        /\ state[b] # "ready" => deleted[b] /\ ~Referenced(b)

CleanerHolds ==
    \A c \in Cleaners :
        cleaning[c] # None =>
            /\ state[cleaning[c]] = "purging" /\ rows[cleaning[c]] = 0 /\ ~upload[cleaning[c]]
            /\ \A d \in Cleaners : cleaning[d] = cleaning[c] => d = c

Inv ==
    /\ TypeOK /\ GuardIsExclusive /\ OneWanted /\ SeenIsActive /\ ReadyIsWhole
    /\ CleanerHolds /\ GoneLeavesNothing

LEMMA InitInv == ASSUME LifecycleConstants, Init PROVE Inv
<1> USE DEF Init, Idle
<1>1. TypeOK
  BY DEF LifecycleConstants, TypeOK, Thread, Points
<1>2. GuardIsExclusive /\ OneWanted /\ SeenIsActive /\ ReadyIsWhole
  BY DEF GuardIsExclusive, OneWanted, SeenIsActive, ReadyIsWhole, Single, Referenced
<1>3. CleanerHolds /\ GoneLeavesNothing
  BY DEF CleanerHolds, GoneLeavesNothing
<1> QED
  BY <1>1, <1>2, <1>3 DEF Inv

(* Steps of a request that read, or end it.                                *)
Looks(q) ==
    \/ Begin(q) \/ Leave(q)
    \/ \E b \in Batches :
        ReadSource(q, b) \/ CheckListed(q, b) \/ CheckKnown(q, b) \/ CountReferences(q, b)

LEMMA LooksInv == ASSUME LifecycleConstants, Inv, NEW q \in Requests, Looks(q) PROVE Inv'
<1>1. UNCHANGED <<batchVars, refs, cleaning, pageVars>>
  BY DEF Looks, Begin, Leave, ReadSource, CheckListed, CheckKnown, CountReferences
<1>2. /\ request \in [Requests -> Thread]
      /\ GuardIsExclusive /\ OneWanted /\ SeenIsActive
  BY DEF Inv, TypeOK
<1>3. \A p \in Requests \ {q} : request'[p] = request[p]
  <2> USE <1>2
  <2>1. CASE Begin(q)
    BY <2>1 DEF Begin, Acquire
  <2>2. CASE Leave(q)
    BY <2>2 DEF Leave, Release
  <2>3. CASE \E b \in Batches : ReadSource(q, b)
    BY <2>3 DEF ReadSource
  <2>4. CASE \E b \in Batches : CheckListed(q, b) \/ CheckKnown(q, b) \/ CountReferences(q, b)
    BY <2>4 DEF CheckListed, CheckKnown, CountReferences, Goto
  <2> QED
    BY <2>1, <2>2, <2>3, <2>4 DEF Looks
<1>4. \A p \in Requests \ {q} : request'[p].pc # "idle" => guard' = p
  <2> SUFFICES ASSUME NEW p \in Requests \ {q}, request[p].pc # "idle" PROVE guard' = p
    BY <1>3
  <2>1. guard = p
    BY <1>2 DEF GuardIsExclusive
  <2>2. request[q].pc = "idle"
    BY <2>1, <1>2 DEF GuardIsExclusive
  <2>3. ~Begin(q)
    BY <2>1 DEF Begin, Acquire, LifecycleConstants
  <2> QED
    BY <2>2, <2>3 DEF Looks, Leave, ReadSource, CheckListed, CheckKnown, CountReferences
<1>5. /\ request'[q] \in Thread /\ request' \in [Requests -> Thread]
      /\ guard' \in Requests \cup {None}
      /\ request'[q].pc # "idle" => guard' = q
      /\ request'[q].pc \in Single => \E b \in Batches : request'[q].wants = {b}
      /\ request'[q].pc \in {"read", "register"} => \A b \in request'[q].seen : Active(b)
      /\ request'[q].pc = "mark" => \A b \in request'[q].wants : Active(b)
      /\ request'[q].pc = "condemn" => \A b \in request'[q].wants : ~Referenced(b)
  <2> USE <1>2 DEF Thread, Points, Single, GuardIsExclusive, OneWanted, SeenIsActive
  <2>0. guard \in Requests \cup {None} /\ state \in [Batches -> {"ready", "purging", "gone"}]
    BY DEF Inv, TypeOK
  <2>1. CASE Begin(q)
    BY <2>1 DEF Begin, Acquire
  <2>2. CASE Leave(q)
    BY <2>0, <2>2 DEF Leave, Release, Idle
  <2>3. ASSUME NEW b \in Batches, ReadSource(q, b) PROVE <1>5!:
    <3>1. Active(b)
      BY <2>0, <2>3 DEF ReadSource, Listed, Active, Inv, ReadyIsWhole
    <3> QED
      <4>1. /\ request'[q].seen = request[q].seen \cup {b} /\ request'[q].wants = request[q].wants
            /\ request'[q].pc \in {"read", "register"} /\ guard' = guard
            /\ request[q].pc = "read" /\ request' \in [Requests -> Thread]
        <5> DEFINE next == IF request[q].wants \subseteq request[q].seen \cup {b}
                           THEN "register" ELSE "read"
                   read == [request[q] EXCEPT !.seen = @ \cup {b}, !.pc = next]
        <5>1. request[q] \in Thread /\ next \in {"read", "register"}
          OBVIOUS
        <5>2. /\ read \in Thread /\ read.pc = next
              /\ read.seen = request[q].seen \cup {b} /\ read.wants = request[q].wants
          BY <5>1
        <5>3. request' = [request EXCEPT ![q] = read] /\ guard' = guard /\ request[q].pc = "read"
          BY <2>3 DEF ReadSource
        <5> HIDE DEF next, read
        <5> QED
          BY <5>1, <5>2, <5>3
      <4> QED
        BY <2>0, <3>1, <4>1
  <2>4. ASSUME NEW b \in Batches, CheckListed(q, b) PROVE <1>5!:
    <3>1. Active(b)
      BY <2>0, <2>4 DEF CheckListed, Listed, Active, Inv, ReadyIsWhole
    <3> QED
      BY <2>0, <2>4, <3>1 DEF CheckListed, Goto
  <2>5. ASSUME NEW b \in Batches, CheckKnown(q, b) PROVE <1>5!:
    BY <2>0, <2>5 DEF CheckKnown, Goto
  <2>6. ASSUME NEW b \in Batches, CountReferences(q, b) PROVE <1>5!:
    BY <2>0, <2>6 DEF CountReferences, Goto
  <2> QED
    BY <2>1, <2>2, <2>3, <2>4, <2>5, <2>6 DEF Looks
<1>6. TypeOK'
  BY <1>1, <1>5 DEF Inv, TypeOK, batchVars, pageVars
<1>7. (GuardIsExclusive /\ OneWanted)'
  BY <1>2, <1>3, <1>4, <1>5 DEF GuardIsExclusive, OneWanted
<1>8. SeenIsActive'
  BY <1>1, <1>2, <1>3, <1>5 DEF SeenIsActive, Active, Referenced, batchVars
<1>9. (ReadyIsWhole /\ CleanerHolds /\ GoneLeavesNothing)'
  BY <1>1 DEF Inv, ReadyIsWhole, CleanerHolds, GoneLeavesNothing, Referenced, batchVars
<1> QED
  BY <1>6, <1>7, <1>8, <1>9 DEF Inv

(* The holder of the guard is the only request under way.                  *)
LEMMA HolderIsAlone ==
    ASSUME LifecycleConstants, Inv, NEW q \in Requests, request[q].pc # "idle"
    PROVE  \A p \in Requests \ {q} : request[p].pc = "idle"
BY DEF Inv, GuardIsExclusive

(* A holder that acted on MySQL only has to leave.                         *)
LEMMA LeavingHolder ==
    ASSUME LifecycleConstants, Inv, NEW q \in Requests, request[q].pc \in Single, Goto(q, "leave")
    PROVE  /\ request' \in [Requests -> Thread] /\ guard' \in Requests \cup {None}
           /\ (GuardIsExclusive /\ OneWanted /\ SeenIsActive)'
<1>1. request \in [Requests -> Thread] /\ guard \in Requests \cup {None}
  BY DEF Inv, TypeOK
<1>2. \A p \in Requests \ {q} : request'[p].pc = "idle"
  BY <1>1, HolderIsAlone DEF Goto, Single
<1>3. /\ request' \in [Requests -> Thread] /\ guard' = guard
      /\ request'[q].pc = "leave" /\ request'[q].wants = request[q].wants
  BY <1>1 DEF Goto, Thread, Points
<1>4. GuardIsExclusive'
  BY <1>2, <1>3 DEF Inv, GuardIsExclusive, Single
<1>5. OneWanted'
  BY <1>2, <1>3 DEF Inv, OneWanted, Single
<1>6. SeenIsActive'
  BY <1>2, <1>3 DEF SeenIsActive
<1> QED
  BY <1>1, <1>3, <1>4, <1>5, <1>6

LEMMA MarkInv ==
    ASSUME LifecycleConstants, Inv, NEW q \in Requests, NEW b \in Batches, MarkDeleted(q, b)
    PROVE  Inv'
<1>1. /\ request' \in [Requests -> Thread] /\ guard' \in Requests \cup {None}
      /\ (GuardIsExclusive /\ OneWanted /\ SeenIsActive)'
  BY LeavingHolder DEF MarkDeleted, Single
<1>2. TypeOK'
  BY <1>1 DEF MarkDeleted, Inv, TypeOK, pageVars
<1>3. (ReadyIsWhole /\ CleanerHolds /\ GoneLeavesNothing)'
  BY DEF MarkDeleted, Inv, TypeOK, ReadyIsWhole, CleanerHolds, GoneLeavesNothing, Referenced
<1> QED
  BY <1>1, <1>2, <1>3 DEF Inv

(* Only what is not purged is restored.                                    *)
LEMMA RestoreInv ==
    ASSUME LifecycleConstants, Inv, NEW q \in Requests, NEW b \in Batches, Restore(q, b)
    PROVE  Inv'
<1>1. /\ request' \in [Requests -> Thread] /\ guard' \in Requests \cup {None}
      /\ (GuardIsExclusive /\ OneWanted /\ SeenIsActive)'
  BY LeavingHolder DEF Restore, Single
<1>2. TypeOK'
  BY <1>1 DEF Restore, Inv, TypeOK, pageVars
<1>3. (ReadyIsWhole /\ CleanerHolds /\ GoneLeavesNothing)'
  BY DEF Restore, Inv, TypeOK, ReadyIsWhole, CleanerHolds, GoneLeavesNothing, Referenced
<1> QED
  BY <1>1, <1>2, <1>3 DEF Inv

(* What the count in SQLite said is still true when MySQL condemns.        *)
LEMMA CondemnInv ==
    ASSUME LifecycleConstants, Inv, NEW q \in Requests, NEW b \in Batches, Condemn(q, b)
    PROVE  Inv'
<1>1. /\ request' \in [Requests -> Thread] /\ guard' \in Requests \cup {None}
      /\ (GuardIsExclusive /\ OneWanted /\ SeenIsActive)'
  BY LeavingHolder DEF Condemn, Single
<1>2. TypeOK'
  BY <1>1 DEF Condemn, Inv, TypeOK, pageVars
<1>3. ~Referenced(b) /\ deleted[b]
  BY DEF Condemn, Inv, SeenIsActive
<1>4. ReadyIsWhole'
  BY <1>3 DEF Condemn, Inv, TypeOK, ReadyIsWhole, Referenced
<1>5. (CleanerHolds /\ GoneLeavesNothing)'
  BY DEF Condemn, Inv, TypeOK, CleanerHolds, GoneLeavesNothing
<1> QED
  BY <1>1, <1>2, <1>4, <1>5 DEF Inv

(* A run that is registered refers to what its request has seen active.    *)
LEMMA RegisterInv ==
    ASSUME LifecycleConstants, Inv, NEW q \in Requests, NEW r \in Runs, Register(q, r)
    PROVE  Inv'
<1>1. /\ request \in [Requests -> Thread] /\ refs \in [Runs -> SUBSET Batches]
      /\ guard \in Requests \cup {None}
  BY DEF Inv, TypeOK
<1>2. /\ request' = [request EXCEPT ![q] = Idle] /\ guard' \in Requests \cup {None}
      /\ refs' = [refs EXCEPT ![r] = request[q].seen]
      /\ UNCHANGED <<batchVars, cleaning, pageVars>>
  BY <1>1 DEF Register, Release
<1>3. \A p \in Requests : request'[p].pc = "idle"
  BY <1>1, <1>2, HolderIsAlone DEF Idle, Register
<1>4. \A b \in request[q].seen : Active(b)
  BY DEF Register, Inv, SeenIsActive
<1>5. request[q].seen \in SUBSET Batches /\ Idle \in Thread
  BY <1>1 DEF Thread, Idle, Points
<1>6. TypeOK'
  BY <1>1, <1>2, <1>5 DEF Inv, TypeOK, batchVars, pageVars
<1>7. (GuardIsExclusive /\ OneWanted /\ SeenIsActive)'
  BY <1>3 DEF GuardIsExclusive, OneWanted, SeenIsActive, Single
<1>8. \A b \in Batches : Referenced(b)' => Referenced(b) \/ Active(b)
  BY <1>1, <1>2, <1>4 DEF Referenced
<1>9. (ReadyIsWhole /\ CleanerHolds /\ GoneLeavesNothing)'
  BY <1>2, <1>8 DEF Inv, ReadyIsWhole, CleanerHolds, GoneLeavesNothing, Active, batchVars
<1> QED
  BY <1>6, <1>7, <1>9 DEF Inv

LEMMA ReviseInv ==
    ASSUME LifecycleConstants, Inv, NEW original \in Runs, NEW r \in Runs, Revise(original, r)
    PROVE  Inv'
<1>1. refs \in [Runs -> SUBSET Batches] /\ UNCHANGED <<batchVars, guard, request, cleaning, pageVars>>
  BY DEF Revise, Inv, TypeOK
<1>2. \A b \in Batches : Referenced(b)' <=> Referenced(b)
  BY <1>1 DEF Revise, Referenced
<1>3. TypeOK'
  BY <1>1 DEF Revise, Inv, TypeOK, batchVars, pageVars
<1>4. \A q \in Requests : request[q].pc = "idle"
  BY DEF Revise, LifecycleConstants, Inv, GuardIsExclusive
<1>5. (GuardIsExclusive /\ OneWanted /\ SeenIsActive)'
  BY <1>1, <1>4 DEF GuardIsExclusive, OneWanted, SeenIsActive, Single
<1>6. (ReadyIsWhole /\ CleanerHolds /\ GoneLeavesNothing)'
  BY <1>1, <1>2 DEF Inv, ReadyIsWhole, CleanerHolds, GoneLeavesNothing, batchVars
<1> QED
  BY <1>3, <1>5, <1>6 DEF Inv

(* Cleaners touch purging batches only, which no request and no run has.   *)
LEMMA CleanerInv ==
    ASSUME LifecycleConstants, Inv, NEW c \in Cleaners, Collect(c) \/ Rollback(c)
    PROVE  Inv'
<1>1. TypeOK /\ Portions \in Nat /\ None \notin Batches
  BY DEF Inv, LifecycleConstants
<1>2. /\ refs' = refs /\ guard' = guard /\ request' = request /\ deleted' = deleted
      /\ reader' = reader /\ page' = page
  BY DEF Collect, Rollback, DeletePortion, Unlink, DeleteBatch, batchVars, pageVars
<1>3. \A b \in Batches : Active(b) => Active(b)'
  BY <1>1, <1>2 DEF Collect, Rollback, DeletePortion, Unlink, DeleteBatch, batchVars, Active,
         TypeOK, Inv, CleanerHolds
<1>4. (GuardIsExclusive /\ OneWanted /\ SeenIsActive)'
  <2>1. \A q \in Requests : request[q].seen \subseteq Batches /\ request[q].wants \subseteq Batches
    BY <1>1 DEF TypeOK, Thread
  <2> QED
    BY <1>2, <1>3, <2>1 DEF Inv, GuardIsExclusive, OneWanted, SeenIsActive, Referenced
<1>5. ASSUME NEW b \in Batches, DeletePortion(c, b) PROVE Inv'
  <2>1. TypeOK'
    BY <1>1, <1>5 DEF DeletePortion, TypeOK, pageVars
  <2>2. (ReadyIsWhole /\ CleanerHolds /\ GoneLeavesNothing)'
    BY <1>1, <1>5 DEF DeletePortion, Cleanable, Locked, Inv, TypeOK, ReadyIsWhole, CleanerHolds,
           GoneLeavesNothing, Referenced
  <2> QED
    BY <1>4, <2>1, <2>2 DEF Inv
<1>6. ASSUME NEW b \in Batches, Unlink(c, b) PROVE Inv'
  <2>1. TypeOK'
    BY <1>1, <1>6 DEF Unlink, TypeOK, pageVars
  <2>2. (ReadyIsWhole /\ CleanerHolds /\ GoneLeavesNothing)'
    BY <1>1, <1>6 DEF Unlink, Cleanable, Locked, Inv, TypeOK, ReadyIsWhole, CleanerHolds,
           GoneLeavesNothing, Referenced
  <2> QED
    BY <1>4, <2>1, <2>2 DEF Inv
<1>7. CASE DeleteBatch(c)
  <2>1. TypeOK'
    BY <1>1, <1>7 DEF DeleteBatch, TypeOK, pageVars
  <2>2. (ReadyIsWhole /\ CleanerHolds /\ GoneLeavesNothing)'
    BY <1>1, <1>7 DEF DeleteBatch, Inv, TypeOK, ReadyIsWhole, CleanerHolds, GoneLeavesNothing,
           Referenced
  <2> QED
    BY <1>4, <2>1, <2>2 DEF Inv
<1>8. CASE Rollback(c)
  <2>1. TypeOK'
    BY <1>1, <1>8 DEF Rollback, TypeOK, batchVars, pageVars
  <2>2. (ReadyIsWhole /\ CleanerHolds /\ GoneLeavesNothing)'
    BY <1>1, <1>8 DEF Rollback, Inv, TypeOK, ReadyIsWhole, CleanerHolds, GoneLeavesNothing,
           Referenced, batchVars
  <2> QED
    BY <1>4, <2>1, <2>2 DEF Inv
<1> QED
  BY <1>5, <1>6, <1>7, <1>8 DEF Collect

LEMMA ReaderInv ==
    ASSUME Inv, NEW v \in Readers, ReadPage(v) \/ \E b \in Batches : LookUp(v, b)
    PROVE  Inv'
<1>1. UNCHANGED <<batchVars, refs, guard, request, cleaning>>
  BY DEF ReadPage, LookUp
<1>2. TypeOK'
  BY <1>1 DEF ReadPage, LookUp, Inv, TypeOK, batchVars
<1> QED
  BY <1>1, <1>2 DEF Inv, GuardIsExclusive, OneWanted, SeenIsActive, ReadyIsWhole, CleanerHolds,
       GoneLeavesNothing, Active, Referenced, batchVars

LEMMA NextInv == ASSUME LifecycleConstants PROVE Inv /\ [Next]_vars => Inv'
<1> SUFFICES ASSUME Inv, [Next]_vars PROVE Inv'
  OBVIOUS
<1>1. ASSUME NEW q \in Requests, Step(q) PROVE Inv'
  BY <1>1, LooksInv, MarkInv, RestoreInv, CondemnInv, RegisterInv DEF Step, Looks
<1>2. CASE UNCHANGED vars
  BY <1>2 DEF vars, batchVars, pageVars, Inv, TypeOK, GuardIsExclusive, OneWanted, SeenIsActive,
       ReadyIsWhole, CleanerHolds, GoneLeavesNothing, Active, Referenced
<1> QED
  BY <1>1, <1>2, ReviseInv, CleanerInv, ReaderInv DEF Next

(* The invariant holds in every reachable state, for every number of        *)
(* batches, runs, requests, cleaners and readers.                           *)
THEOREM InvHolds == ASSUME LifecycleConstants PROVE Spec => []Inv
<1>1. Init => Inv
  BY InitInv
<1>2. Inv /\ [Next]_vars => Inv'
  BY NextInv
<1> QED
  BY <1>1, <1>2, PTL DEF Spec

(* Type correctness.                                                        *)
THEOREM TypeCorrect == ASSUME LifecycleConstants PROVE Spec => []TypeOK
<1>1. Inv => TypeOK
  BY DEF Inv
<1> QED
  BY <1>1, InvHolds, PTL

(* Whatever is removed, restored and purged beside it, a batch some analysis *)
(* refers to keeps its rows and its upload (intake/lifecycle.py:27).         *)
THEOREM ReferencesAreSafe == ASSUME LifecycleConstants PROVE Spec => []ReferencedIsIntact
<1>1. Inv => ReferencedIsIntact
  BY DEF Inv, ReadyIsWhole, ReferencedIsIntact
<1> QED
  BY <1>1, InvHolds, PTL

(* What is gone has left no row, upload or job (staging/cleanup.py:37).      *)
THEOREM PurgesAreComplete == ASSUME LifecycleConstants PROVE Spec => []GoneLeavesNothing
<1>1. Inv => GoneLeavesNothing
  BY DEF Inv
<1> QED
  BY <1>1, InvHolds, PTL

----
(* The refinement: shelf and used change in four steps, each one of         *)
(* Retention's.                                                              *)

\* Neither a batch's shelf nor the references change.
Stutters == shelf' = shelf /\ used' = used

LEMMA QuietStutters ==
    ASSUME UNCHANGED <<state, deleted, refs>>
    PROVE  Stutters
BY DEF Stutters, shelf, used, Referenced

LEMMA MarkRemoves ==
    ASSUME Inv, NEW q \in Requests, NEW b \in Batches, MarkDeleted(q, b)
    PROVE  Abstract!Remove(b)
<1>1. Active(b) /\ state' = state /\ refs' = refs /\ deleted' = [deleted EXCEPT ![b] = TRUE]
  BY DEF MarkDeleted, Inv, SeenIsActive
<1>2. shelf' = [shelf EXCEPT ![b] = "removed"]
  BY <1>1 DEF shelf, Active, Inv, TypeOK
<1>3. used' = used /\ shelf[b] = "active"
  BY <1>1 DEF used, Referenced, shelf, Active
<1> QED
  BY <1>2, <1>3 DEF Abstract!Remove

LEMMA RestoreRestores ==
    ASSUME Inv, NEW q \in Requests, NEW b \in Batches, Restore(q, b)
    PROVE  Abstract!Restore(b) \/ Stutters
<1>1. /\ state[b] = "ready" /\ state' = state /\ refs' = refs
      /\ deleted' = [deleted EXCEPT ![b] = FALSE]
  BY DEF Restore
<1>2. used' = used /\ deleted \in [Batches -> BOOLEAN]
  BY <1>1 DEF used, Referenced, Inv, TypeOK
<1>3. shelf' = [shelf EXCEPT ![b] = "active"]
  BY <1>1, <1>2 DEF shelf
<1>4. CASE deleted[b]
  BY <1>1, <1>2, <1>3, <1>4 DEF Abstract!Restore, shelf
<1>5. CASE ~deleted[b]
  <2>1. shelf' = shelf
    BY <1>1, <1>2, <1>5 DEF shelf
  <2> QED
    BY <1>2, <2>1 DEF Stutters
<1> QED
  BY <1>4, <1>5

LEMMA CondemnPurges ==
    ASSUME Inv, NEW q \in Requests, NEW b \in Batches, Condemn(q, b)
    PROVE  Abstract!Purge(b) \/ Stutters
<1>1. /\ deleted[b] /\ state[b] \in {"ready", "purging"} /\ ~Referenced(b)
      /\ refs' = refs /\ deleted' = deleted /\ state' = [state EXCEPT ![b] = "purging"]
  BY DEF Condemn, Inv, SeenIsActive
<1>2. used' = used /\ b \notin used /\ state \in [Batches -> {"ready", "purging", "gone"}]
  BY <1>1 DEF used, Referenced, Inv, TypeOK
<1>3. shelf' = [shelf EXCEPT ![b] = "purged"]
  BY <1>1, <1>2 DEF shelf
<1>4. CASE state[b] = "ready"
  BY <1>1, <1>2, <1>3, <1>4 DEF Abstract!Purge, shelf
<1>5. CASE state[b] = "purging"
  <2>1. shelf' = shelf
    BY <1>1, <1>2, <1>5 DEF shelf
  <2> QED
    BY <1>2, <2>1 DEF Stutters
<1> QED
  BY <1>1, <1>4, <1>5

LEMMA RegisterAnalyzes ==
    ASSUME Inv, NEW q \in Requests, NEW r \in Runs, Register(q, r)
    PROVE  \E B \in SUBSET Batches : Abstract!Analyze(B)
<1>1. /\ request[q].seen \in SUBSET Batches /\ refs \in [Runs -> SUBSET Batches]
      /\ \A b \in request[q].seen : Active(b)
  BY DEF Register, Inv, TypeOK, Thread, SeenIsActive
<1>2. /\ refs[r] = {} /\ refs' = [refs EXCEPT ![r] = request[q].seen]
      /\ state' = state /\ deleted' = deleted
  BY DEF Register, batchVars
<1>3. shelf' = shelf /\ \A b \in request[q].seen : shelf[b] = "active"
  BY <1>1, <1>2 DEF shelf, Active
<1>4. used' = used \cup request[q].seen
  BY <1>1, <1>2 DEF used, Referenced
<1> QED
  BY <1>1, <1>3, <1>4 DEF Abstract!Analyze

LEMMA ReviseStutters ==
    ASSUME Inv, NEW original \in Runs, NEW r \in Runs, Revise(original, r)
    PROVE  Stutters
<1>1. \A b \in Batches : Referenced(b)' <=> Referenced(b)
  BY DEF Revise, Referenced, Inv, TypeOK
<1>2. state' = state /\ deleted' = deleted
  BY DEF Revise, batchVars
<1> QED
  BY <1>1, <1>2 DEF Stutters, shelf, used

LEMMA DeleteStutters ==
    ASSUME Inv, NEW c \in Cleaners, DeleteBatch(c)
    PROVE  Stutters
<1>1. /\ state[cleaning[c]] = "purging" /\ deleted' = deleted /\ refs' = refs
      /\ state' = [state EXCEPT ![cleaning[c]] = "gone"]
      /\ state \in [Batches -> {"ready", "purging", "gone"}]
  BY DEF DeleteBatch, Inv, TypeOK, CleanerHolds
<1> QED
  BY <1>1 DEF Stutters, shelf, used, Referenced

(* Requests that overlap in time, cleaners and crashes together do what      *)
(* Retention does in single steps: only active batches enter an analysis,    *)
(* and what was analysed is never purged.                                    *)
THEOREM Refinement == ASSUME LifecycleConstants PROVE Spec => ImplementsRetention
<1>1. Init => Abstract!Init
  BY DEF Init, Abstract!Init, shelf, used, Referenced
<1>2. Inv /\ [Next]_vars => [Abstract!Next]_<<shelf, used>>
  <2> SUFFICES ASSUME Inv, [Next]_vars PROVE Abstract!Next \/ Stutters
    BY DEF Stutters
  <2>1. ASSUME NEW q \in Requests, Step(q) PROVE Abstract!Next \/ Stutters
    <3>1. CASE Looks(q)
      <4>1. UNCHANGED <<state, deleted, refs>>
        BY <3>1 DEF Looks, Begin, Leave, ReadSource, CheckListed, CheckKnown, CountReferences,
               batchVars
      <4> QED
        BY <4>1, QuietStutters
    <3>2. ASSUME NEW b \in Batches, MarkDeleted(q, b) \/ Restore(q, b) \/ Condemn(q, b)
          PROVE  Abstract!Next \/ Stutters
      BY <3>2, MarkRemoves, RestoreRestores, CondemnPurges DEF Abstract!Next
    <3>3. ASSUME NEW r \in Runs, Register(q, r) PROVE Abstract!Next
      BY <3>3, RegisterAnalyzes DEF Abstract!Next
    <3> QED
      BY <2>1, <3>1, <3>2, <3>3 DEF Step, Looks
  <2>2. ASSUME NEW c \in Cleaners, Collect(c) \/ Rollback(c) PROVE Stutters
    <3>1. CASE DeleteBatch(c)
      BY <3>1, DeleteStutters
    <3>2. CASE Rollback(c) \/ \E b \in Batches : DeletePortion(c, b) \/ Unlink(c, b)
      <4>1. UNCHANGED <<state, deleted, refs>>
        BY <3>2 DEF Rollback, DeletePortion, Unlink, batchVars
      <4> QED
        BY <4>1, QuietStutters
    <3> QED
      BY <2>2, <3>1, <3>2 DEF Collect
  <2>3. ASSUME NEW v \in Readers, ReadPage(v) \/ \E b \in Batches : LookUp(v, b) PROVE Stutters
    <3>1. UNCHANGED <<state, deleted, refs>>
      BY <2>3 DEF ReadPage, LookUp, batchVars
    <3> QED
      BY <3>1, QuietStutters
  <2>4. CASE UNCHANGED vars
    BY <2>4, QuietStutters DEF vars, batchVars
  <2> QED
    BY <2>1, <2>2, <2>3, <2>4, ReviseStutters DEF Next
<1> QED
  BY <1>1, <1>2, InvHolds, PTL DEF Spec, ImplementsRetention, Abstract!Spec

----
(* The same among the components of MCSources.                              *)

(* Whatever is removed, restored and purged beside it, what an analysis      *)
(* refers to is kept, and what is gone has left nothing                      *)
(* (intake/lifecycle.py:27, staging/cleanup.py:37).                          *)
THEOREM SourcesStayKept == MCSpec => []SourcesAreKept
<1>1. MCInit => Inv
  BY InitInv, InputsAssumption DEF MCInit, InputsAssumption
<1>2. Inv /\ [MCNext]_allVars => Inv'
  <2> SUFFICES ASSUME Inv, [MCNext]_allVars PROVE Inv'
    OBVIOUS
  <2>1. [Next]_vars
    BY DEF MCNext, allVars
  <2> QED
    BY <2>1, NextInv, InputsAssumption DEF InputsAssumption
<1>3. Inv => SourcesAreKept
  BY DEF Inv, SourcesAreKept, ReadyIsWhole, ReferencedIsIntact
<1> QED
  BY <1>1, <1>2, <1>3, PTL DEF MCSpec

----
(* TemplateCompile: bindings, nodes and edges are what the template says of *)
(* the rows written so far; a key set that is ready holds all keys of its   *)
(* table, whoever wrote them; and no draft holds what the rows do not say.   *)

\* Fields that a set of bound rows gives a node, and the nodes they make.
FieldsBy(B, id) == UNION {T!Fields(c[1], c[2]) : c \in {d \in B : d[3] = id}}
NodesBy(B) == {<<b[3], FieldsBy(B, b[3])>> : b \in B}

\* What is written when row k of node (edge) n is.
BoundBy(n, k) == {b \in T!Bound : b[1] < n \/ (b[1] = n /\ b[2] <= k)}
Pairs(e) == {y \in T!Bound \X T!Bound : T!Linked(input.edges[e], y[1], y[2])}
LinksBy(n, k) ==
    {z \in T!Links : \E e \in DOMAIN input.edges : \E y \in Pairs(e) :
        z = <<e, y[1][3], y[2][3]>> /\ (e < n \/ (e = n /\ y[1][2] <= k))}

AllKeys(s) == {<<k, T!KeyOf(s, k)>> : k \in {j \in DOMAIN input.rows[s[1]] : T!KeyOf(s, j) # None}}

Stages == {"nodes", "keys", "edges", "read", "copied"}

CompileTypes ==
    /\ input \in Inputs
    /\ DOMAIN pc = Publishers /\ DOMAIN item = Publishers /\ DOMAIN row = Publishers
    /\ DOMAIN side = Publishers /\ DOMAIN filled = Publishers /\ DOMAIN runs = Publishers
    /\ DOMAIN idle = Publishers /\ DOMAIN drafts = Publishers /\ DOMAIN graph = Publishers
    /\ DOMAIN sets = T!KeySets
    /\ \A p \in Publishers :
          /\ item[p] \in Nat \ {0} /\ row[p] \in Nat /\ side[p] \in 1 .. 3
          /\ filled[p] # None => filled[p] \in Nat
          /\ DOMAIN drafts[p] = {"bindings", "nodes", "edges"}
          /\ DOMAIN graph[p] = {"nodes", "edges"}
    /\ \A s \in T!KeySets : DOMAIN sets[s] = {"ready", "keys"}

\* A key set holds keys of its table, all of them once it is ready.
KeysAreKept ==
    \A s \in T!KeySets : sets[s].keys \subseteq AllKeys(s) /\ (sets[s].ready => AllKeys(s) \subseteq sets[s].keys)

\* Where a publisher is.
CompileAt(p) ==
    /\ pc[p] \in Stages \cup {"idle", "published", "refused", "stopped", "dead"}
    /\ pc[p] = "idle" => item[p] = 1 /\ row[p] = 0 /\ side[p] = 1 /\ filled[p] = None
    /\ pc[p] = "nodes" =>
          /\ side[p] = 1 /\ filled[p] = None
          /\ item[p] <= Len(input.nodes) => row[p] <= Len(T!RowsOf(item[p]))
    /\ pc[p] = "keys" =>
          /\ item[p] <= Len(input.edges) + 1 /\ row[p] = 0
          /\ item[p] <= Len(input.edges) =>
                /\ side[p] >= 2 => sets[T!KeySet(p, 1)].ready
                /\ side[p] = 3 => sets[T!KeySet(p, 2)].ready
          /\ filled[p] # None =>
                /\ T!Ensuring(p) /\ filled[p] <= Len(input.rows[T!KeySet(p, side[p])[1]])
                /\ \A x \in AllKeys(T!KeySet(p, side[p])) :
                      x[1] <= filled[p] => x \in sets[T!KeySet(p, side[p])].keys
          /\ side[p] > 1 => T!Edge(p).join /\ item[p] <= Len(input.edges)
    /\ pc[p] = "edges" =>
          /\ item[p] <= Len(input.edges) /\ filled[p] = None
          /\ row[p] <= Len(T!RowsOf(T!Edge(p).source))
          /\ T!Edge(p).join => sets[T!KeySet(p, 1)].ready /\ sets[T!KeySet(p, 2)].ready
    /\ pc[p] = "refused" => T!Faulty

\* What its draft and its graph hold, unless it was collected meanwhile.
DraftIs(p) ==
    LET d == drafts[p] IN
    /\ pc[p] = "idle" => runs[p] = "none" /\ d = T!Empty /\ ~idle[p]
    /\ pc[p] \in Stages => runs[p] = "building"
    /\ pc[p] = "nodes" => d.bindings = BoundBy(item[p], row[p]) /\ d.nodes = NodesBy(d.bindings) /\ d.edges = {}
    /\ pc[p] \in Stages \ {"nodes"} => d.bindings = T!Bound /\ d.nodes = T!Instances
    /\ pc[p] \in {"keys", "edges"} => d.edges = LinksBy(item[p], row[p])
    /\ pc[p] \in {"read", "copied"} => d.edges = T!Links
    /\ pc[p] \in {"read", "copied", "published"} => graph[p].nodes = T!Instances
    /\ pc[p] \in {"copied", "published"} => graph[p].edges = T!Links

\* Nodes of the rows, with no field that their rows do not give them.
Told(ns) == \A x \in ns : x[2] \subseteq FieldsBy(T!Bound, x[1]) /\ \E b \in T!Bound : b[3] = x[1]

\* Even then they hold only what the rows say.
NothingInvented(p) ==
    /\ drafts[p].bindings \subseteq T!Bound /\ Told(drafts[p].nodes) /\ drafts[p].edges \subseteq T!Links
    /\ Told(graph[p].nodes) /\ graph[p].edges \subseteq T!Links

CompileInv ==
    /\ CompileTypes /\ KeysAreKept
    /\ \A p \in Publishers :
          CompileAt(p) /\ NothingInvented(p) /\ (p \notin collected \/ pc[p] = "idle" => DraftIs(p))
CInv == part = "compile" => CompileInv

----
(* What an input is.                                                        *)

LEMMA InputFacts ==
    ASSUME input \in Inputs
    PROVE  /\ Len(input.nodes) \in Nat /\ DOMAIN input.nodes = 1 .. Len(input.nodes)
           /\ Len(input.edges) \in Nat /\ DOMAIN input.edges = 1 .. Len(input.edges)
           /\ \A n \in DOMAIN input.nodes :
                 /\ T!Node(n).table \in DOMAIN input.rows
                 /\ Len(T!RowsOf(n)) \in Nat /\ DOMAIN T!RowsOf(n) = 1 .. Len(T!RowsOf(n))
           /\ \A t \in DOMAIN input.rows :
                 Len(input.rows[t]) \in Nat /\ DOMAIN input.rows[t] = 1 .. Len(input.rows[t])
           /\ \A e \in DOMAIN input.edges :
                 /\ input.edges[e].source \in DOMAIN input.nodes
                 /\ input.edges[e].target \in DOMAIN input.nodes
<1>1. /\ \A x \in T!Range(input.rows) \cup {input.nodes, input.edges} : x \in Seq(T!Range(x))
      /\ \A n \in DOMAIN input.nodes : input.nodes[n].table \in DOMAIN input.rows
      /\ \A e \in DOMAIN input.edges :
            {input.edges[e].source, input.edges[e].target} \subseteq DOMAIN input.nodes
  BY InputsAssumption DEF InputsAssumption, T!CompileAssumption
<1>2. \A x : x \in Seq(T!Range(x)) => Len(x) \in Nat /\ DOMAIN x = 1 .. Len(x)
  OBVIOUS
<1>3. \A t \in DOMAIN input.rows : input.rows[t] \in T!Range(input.rows)
  BY DEF T!Range
<1>4. \A t \in DOMAIN input.rows : input.rows[t] \in Seq(T!Range(input.rows[t]))
  BY <1>1, <1>3
<1>5. \A n \in DOMAIN input.nodes : T!Node(n).table \in DOMAIN input.rows
  BY <1>1 DEF T!Node
<1>6. \A t \in DOMAIN input.rows :
        Len(input.rows[t]) \in Nat /\ DOMAIN input.rows[t] = 1 .. Len(input.rows[t])
  BY <1>2, <1>4
<1>7. input.nodes \in Seq(T!Range(input.nodes)) /\ input.edges \in Seq(T!Range(input.edges))
  BY <1>1
<1> QED
  BY <1>1, <1>2, <1>5, <1>6, <1>7 DEF T!RowsOf

LEMMA KeySetsOf ==
    ASSUME input \in Inputs
    PROVE  /\ \A e \in DOMAIN input.edges :
                 /\ <<T!Node(input.edges[e].source).table, input.edges[e].left>> \in T!KeySets
                 /\ <<T!Node(input.edges[e].target).table, input.edges[e].right>> \in T!KeySets
           /\ \A s \in T!KeySets : s[1] \in DOMAIN input.rows
<1>1. \A e \in DOMAIN input.edges : input.edges[e] \in T!Range(input.edges)
  BY DEF T!Range
<1>2. \A x \in T!Range(input.edges) : \E e \in DOMAIN input.edges : x = input.edges[e]
  BY DEF T!Range
<1>3. \A x \in T!Range(input.edges) :
        T!Node(x.source).table \in DOMAIN input.rows /\ T!Node(x.target).table \in DOMAIN input.rows
  BY <1>2, InputFacts
<1> QED
  BY <1>1, <1>3 DEF T!KeySets

\* The row of a node, bound to what it identifies.
Binding(n, k) == <<n, k, T!Identity(n, k)>>

LEMMA BoundFacts ==
    /\ \A n \in DOMAIN input.nodes : \A k \in DOMAIN T!RowsOf(n) : Binding(n, k) \in T!Bound
    /\ \A b \in T!Bound : \E n \in DOMAIN input.nodes : \E k \in DOMAIN T!RowsOf(n) : b = Binding(n, k)
BY DEF T!Bound, Binding

(* What holds of the input stays.                                           *)
LEMMA InputStays ==
    ASSUME input' = input
    PROVE  /\ T!Bound' = T!Bound /\ T!Instances' = T!Instances /\ T!Links' = T!Links
           /\ T!Faulty' = T!Faulty /\ T!KeySets' = T!KeySets
           /\ \A n, k : BoundBy(n, k)' = BoundBy(n, k) /\ LinksBy(n, k)' = LinksBy(n, k)
           /\ \A s : AllKeys(s)' = AllKeys(s)
           /\ \A B : NodesBy(B)' = NodesBy(B)
           /\ \A B, id : FieldsBy(B, id)' = FieldsBy(B, id)
           /\ \A n : T!RowsOf(n)' = T!RowsOf(n)
<1> USE DEF T!Node, T!RowsOf, T!Encoded, T!Identity, T!Fields
<1>1. T!Bound' = T!Bound
  BY DEF T!Bound
<1>2. T!Links' = T!Links
  BY <1>1 DEF T!Links, T!Linked, T!SameKey
<1>3. T!Instances' = T!Instances
  BY <1>1 DEF T!Instances
<1>4. T!Faulty' = T!Faulty
  BY <1>1, <1>3 DEF T!Faulty, T!SameKey
<1>5. T!KeySets' = T!KeySets
  BY DEF T!KeySets
<1>6. \A n, k : BoundBy(n, k)' = BoundBy(n, k) /\ LinksBy(n, k)' = LinksBy(n, k)
  BY <1>1, <1>2 DEF BoundBy, LinksBy, Pairs, T!Linked, T!SameKey
<1>7. \A s : AllKeys(s)' = AllKeys(s)
  BY DEF AllKeys, T!KeyOf
<1>8. /\ \A B : NodesBy(B)' = NodesBy(B)
      /\ \A B, id : FieldsBy(B, id)' = FieldsBy(B, id)
  BY DEF NodesBy, FieldsBy
<1> QED
  BY <1>1, <1>2, <1>3, <1>4, <1>5, <1>6, <1>7, <1>8

----
(* Nodes are merged row by row.                                             *)

LEMMA FieldsOfNodes ==
    ASSUME NEW B, NEW id PROVE T!FieldsOf(NodesBy(B), id) = FieldsBy(B, id)
<1>1. \A f \in T!FieldsOf(NodesBy(B), id) : f \in FieldsBy(B, id)
  BY DEF T!FieldsOf, NodesBy
<1>2. ASSUME NEW f \in FieldsBy(B, id) PROVE f \in T!FieldsOf(NodesBy(B), id)
  <2>1. PICK c \in B : c[3] = id
    BY DEF FieldsBy
  <2>2. <<id, FieldsBy(B, id)>> \in NodesBy(B)
    BY <2>1 DEF NodesBy
  <2> QED
    BY <2>2 DEF T!FieldsOf
<1> QED
  BY <1>1, <1>2

LEMMA FieldsAdded ==
    ASSUME NEW B, NEW b, NEW id
    PROVE  FieldsBy(B \cup {b}, id) =
             IF b[3] = id THEN FieldsBy(B, id) \cup T!Fields(b[1], b[2]) ELSE FieldsBy(B, id)
BY DEF FieldsBy

LEMMA NodesAdded ==
    ASSUME NEW B, NEW b
    PROVE  NodesBy(B \cup {b}) =
             {x \in NodesBy(B) : x[1] # b[3]}
               \cup {<<b[3], FieldsBy(B, b[3]) \cup T!Fields(b[1], b[2])>>}
<1>0. \A id : FieldsBy(B \cup {b}, id) =
        IF b[3] = id THEN FieldsBy(B, id) \cup T!Fields(b[1], b[2]) ELSE FieldsBy(B, id)
  BY FieldsAdded
<1>1. ASSUME NEW x \in NodesBy(B \cup {b})
      PROVE  x \in {y \in NodesBy(B) : y[1] # b[3]} \cup {<<b[3], FieldsBy(B, b[3]) \cup T!Fields(b[1], b[2])>>}
  <2>1. PICK c \in B \cup {b} : x = <<c[3], FieldsBy(B \cup {b}, c[3])>>
    BY DEF NodesBy
  <2>2. CASE c[3] = b[3]
    BY <1>0, <2>1, <2>2
  <2>3. CASE c[3] # b[3]
    <3>1. c \in B /\ x = <<c[3], FieldsBy(B, c[3])>>
      BY <1>0, <2>1, <2>3
    <3> QED
      BY <2>3, <3>1 DEF NodesBy
  <2> QED
    BY <2>2, <2>3
<1>2. ASSUME NEW x \in NodesBy(B), x[1] # b[3] PROVE x \in NodesBy(B \cup {b})
  <2>1. PICK c \in B : x = <<c[3], FieldsBy(B, c[3])>>
    BY DEF NodesBy
  <2>2. x = <<c[3], FieldsBy(B \cup {b}, c[3])>>
    BY <1>0, <1>2, <2>1
  <2> QED
    BY <2>2 DEF NodesBy
<1>3. <<b[3], FieldsBy(B, b[3]) \cup T!Fields(b[1], b[2])>> \in NodesBy(B \cup {b})
  BY <1>0 DEF NodesBy
<1> QED
  BY <1>1, <1>2, <1>3

LEMMA AllNodes == T!Instances = NodesBy(T!Bound)
BY DEF T!Instances, NodesBy, FieldsBy

----
(* How far bindings and edges are written.                                  *)

LEMMA BoundNumbers ==
    ASSUME input \in Inputs, NEW b \in T!Bound
    PROVE  /\ b[1] \in DOMAIN input.nodes /\ b[2] \in DOMAIN T!RowsOf(b[1]) /\ b = Binding(b[1], b[2])
           /\ b[1] \in Nat /\ b[1] >= 1 /\ b[2] \in Nat /\ b[2] >= 1 /\ b[2] <= Len(T!RowsOf(b[1]))
           /\ b[1] <= Len(input.nodes)
<1>1. PICK n \in DOMAIN input.nodes : \E k \in DOMAIN T!RowsOf(n) : b = Binding(n, k)
  BY BoundFacts
<1>2. PICK k \in DOMAIN T!RowsOf(n) : b = Binding(n, k)
  BY <1>1
<1>3. b[1] = n /\ b[2] = k
  BY <1>2 DEF Binding
<1> QED
  BY <1>2, <1>3, InputFacts

LEMMA BoundByRows ==
    ASSUME input \in Inputs
    PROVE  /\ BoundBy(1, 0) = {}
           /\ \A n \in DOMAIN input.nodes : \A k \in Nat :
                 /\ k + 1 <= Len(T!RowsOf(n)) => BoundBy(n, k + 1) = BoundBy(n, k) \cup {Binding(n, k + 1)}
                 /\ k >= Len(T!RowsOf(n)) => BoundBy(n, k) = BoundBy(n + 1, 0)
           /\ \A n : n = Len(input.nodes) + 1 => BoundBy(n, 0) = T!Bound
<1>1. BoundBy(1, 0) = {}
  BY BoundNumbers DEF BoundBy
<1>2. ASSUME NEW n \in DOMAIN input.nodes, NEW k \in Nat, k + 1 <= Len(T!RowsOf(n))
      PROVE  BoundBy(n, k + 1) = BoundBy(n, k) \cup {Binding(n, k + 1)}
  <2>1. k + 1 \in DOMAIN T!RowsOf(n)
    BY <1>2, InputFacts
  <2>2. Binding(n, k + 1) \in T!Bound
    BY <2>1, BoundFacts
  <2>3. Binding(n, k + 1)[1] = n /\ Binding(n, k + 1)[2] = k + 1
    BY DEF Binding
  <2>4. \A b \in T!Bound : b[1] = n /\ b[2] = k + 1 => b = Binding(n, k + 1)
    BY BoundNumbers
  <2> QED
    BY <2>2, <2>3, <2>4, BoundNumbers DEF BoundBy
<1>3. ASSUME NEW n \in DOMAIN input.nodes, NEW k \in Nat, k >= Len(T!RowsOf(n))
      PROVE  BoundBy(n, k) = BoundBy(n + 1, 0)
  <2>1. n \in Nat /\ Len(T!RowsOf(n)) \in Nat
    BY InputFacts
  <2>2. \A b \in T!Bound : b[1] \in Nat /\ b[2] \in Nat /\ b[2] >= 1 /\ (b[1] = n => b[2] <= k)
    BY <1>3, <2>1, BoundNumbers
  <2> QED
    BY <2>1, <2>2 DEF BoundBy
<1>4. \A n : n = Len(input.nodes) + 1 => BoundBy(n, 0) = T!Bound
  <2>1. Len(input.nodes) \in Nat
    BY InputFacts
  <2>2. \A b \in T!Bound : b[1] \in Nat /\ b[1] <= Len(input.nodes)
    BY BoundNumbers
  <2> QED
    BY <2>1, <2>2 DEF BoundBy
<1> QED
  BY <1>1, <1>2, <1>3, <1>4

LEMMA PairsOf ==
    ASSUME input \in Inputs, NEW e \in DOMAIN input.edges, NEW y \in Pairs(e)
    PROVE  /\ y[1] \in T!Bound /\ y[2] \in T!Bound /\ y[1][2] \in Nat /\ y[1][2] >= 1
           /\ y[1][2] <= Len(T!RowsOf(input.edges[e].source)) /\ e \in Nat /\ e >= 1
           /\ e <= Len(input.edges)
           /\ <<e, y[1][3], y[2][3]>> \in T!Links
<1>1. y[1] \in T!Bound /\ y[2] \in T!Bound /\ y[1][1] = input.edges[e].source
  BY DEF Pairs, T!Linked
<1>2. y[1][2] \in Nat /\ y[1][2] >= 1 /\ y[1][2] <= Len(T!RowsOf(input.edges[e].source))
  BY <1>1, BoundNumbers
<1>3. e \in Nat /\ e >= 1 /\ e <= Len(input.edges)
  BY InputFacts
<1>4. <<e, y[1][3], y[2][3]>> \in T!Links
  BY DEF T!Links, Pairs
<1> QED
  BY <1>1, <1>2, <1>3, <1>4

LEMMA LinksOf ==
    ASSUME NEW z \in T!Links
    PROVE  \E e \in DOMAIN input.edges : \E y \in Pairs(e) : z = <<e, y[1][3], y[2][3]>>
BY DEF T!Links, Pairs

LEMMA LinksByRows ==
    ASSUME input \in Inputs
    PROVE  /\ LinksBy(1, 0) = {}
           /\ \A n \in DOMAIN input.edges : \A k \in Nat :
                 /\ LinksBy(n, k + 1) = LinksBy(n, k) \cup
                       {<<n, y[1][3], y[2][3]>> : y \in {x \in Pairs(n) : x[1][2] = k + 1}}
                 /\ k >= Len(T!RowsOf(input.edges[n].source)) => LinksBy(n, k) = LinksBy(n + 1, 0)
           /\ \A n : n = Len(input.edges) + 1 => LinksBy(n, 0) = T!Links
<1>1. LinksBy(1, 0) = {}
  BY PairsOf DEF LinksBy
<1>2. ASSUME NEW n \in DOMAIN input.edges, NEW k \in Nat
      PROVE  LinksBy(n, k + 1) = LinksBy(n, k) \cup
                {<<n, y[1][3], y[2][3]>> : y \in {x \in Pairs(n) : x[1][2] = k + 1}}
  <2>1. \A y \in Pairs(n) : y[1][2] \in Nat /\ <<n, y[1][3], y[2][3]>> \in T!Links
    BY PairsOf
  <2>2. \A y \in Pairs(n) : y[1][2] <= k + 1 <=> y[1][2] <= k \/ y[1][2] = k + 1
    <3>1. \A i \in Nat : i <= k + 1 <=> i <= k \/ i = k + 1
      OBVIOUS
    <3> QED
      BY <2>1, <3>1
  <2> DEFINE new == {<<n, y[1][3], y[2][3]>> : y \in {x \in Pairs(n) : x[1][2] = k + 1}}
  <2>3. ASSUME NEW z \in LinksBy(n, k + 1) PROVE z \in LinksBy(n, k) \cup new
    <3>1. PICK e \in DOMAIN input.edges : \E y \in Pairs(e) :
             z = <<e, y[1][3], y[2][3]>> /\ (e < n \/ (e = n /\ y[1][2] <= k + 1))
      BY DEF LinksBy
    <3>2. PICK y \in Pairs(e) :
             z = <<e, y[1][3], y[2][3]>> /\ (e < n \/ (e = n /\ y[1][2] <= k + 1))
      BY <3>1
    <3>3. CASE e < n \/ y[1][2] <= k
      BY <3>2, <3>3 DEF LinksBy
    <3>4. CASE e = n /\ y[1][2] = k + 1
      BY <3>2, <3>4
    <3> QED
      BY <2>2, <3>2, <3>3, <3>4
  <2>4. ASSUME NEW z \in LinksBy(n, k) PROVE z \in LinksBy(n, k + 1)
    BY <2>2 DEF LinksBy
  <2>5. ASSUME NEW z \in new PROVE z \in LinksBy(n, k + 1)
    <3>1. PICK y \in Pairs(n) : z = <<n, y[1][3], y[2][3]>> /\ y[1][2] = k + 1
      OBVIOUS
    <3>2. y[1][2] <= k + 1 /\ z \in T!Links
      BY <2>1, <3>1
    <3> QED
      BY <3>1, <3>2 DEF LinksBy
  <2> QED
    BY <2>3, <2>4, <2>5
<1>3. ASSUME NEW n \in DOMAIN input.edges, NEW k \in Nat, k >= Len(T!RowsOf(input.edges[n].source))
      PROVE  LinksBy(n, k) = LinksBy(n + 1, 0)
  <2>1. \A e \in DOMAIN input.edges : \A y \in Pairs(e) :
          /\ e \in Nat /\ y[1][2] \in Nat /\ y[1][2] >= 1
          /\ e = n => y[1][2] <= Len(T!RowsOf(input.edges[n].source))
    BY PairsOf
  <2>2. n \in Nat /\ Len(T!RowsOf(input.edges[n].source)) \in Nat
    BY InputFacts
  <2>3. \A e \in DOMAIN input.edges : \A y \in Pairs(e) :
          (e < n \/ (e = n /\ y[1][2] <= k)) <=> (e < n + 1 \/ (e = n + 1 /\ y[1][2] <= 0))
    <3> SUFFICES ASSUME NEW e \in DOMAIN input.edges, NEW y \in Pairs(e)
                 PROVE  (e < n \/ (e = n /\ y[1][2] <= k)) <=> (e < n + 1 \/ (e = n + 1 /\ y[1][2] <= 0))
      OBVIOUS
    <3> DEFINE m == Len(T!RowsOf(input.edges[n].source))
               i == y[1][2]
    <3>1. e \in Nat /\ n \in Nat /\ m \in Nat /\ i \in Nat /\ i >= 1 /\ k >= m /\ (e = n => i <= m)
      BY <1>3, <2>1, <2>2
    <3> HIDE DEF m, i
    <3>2. (e < n \/ (e = n /\ i <= k)) <=> (e < n + 1 \/ (e = n + 1 /\ i <= 0))
      BY <3>1
    <3> QED
      BY <3>2 DEF i
  <2> QED
    BY <2>3 DEF LinksBy
<1>4. \A n : n = Len(input.edges) + 1 => LinksBy(n, 0) = T!Links
  <2>1. \A e \in DOMAIN input.edges : e < Len(input.edges) + 1
    BY InputFacts
  <2> QED
    BY <2>1, LinksOf DEF LinksBy
<1> QED
  BY <1>1, <1>2, <1>3, <1>4

----
(* What the key sets of a join say, once they hold all keys.                *)

LEMMA KeySetHere ==
    ASSUME CompileTypes, NEW p \in Publishers, item[p] <= Len(input.edges)
    PROVE  /\ item[p] \in DOMAIN input.edges /\ T!Edge(p) = input.edges[item[p]]
           /\ \A s : T!KeySet(p, s) \in T!KeySets
           /\ T!KeySet(p, 1) = <<T!Node(T!Edge(p).source).table, T!Edge(p).left>>
           /\ T!KeySet(p, 2) = <<T!Node(T!Edge(p).target).table, T!Edge(p).right>>
<1>1. item[p] \in DOMAIN input.edges
  BY InputFacts DEF CompileTypes
<1>2. T!Edge(p) = input.edges[item[p]]
  BY DEF T!Edge
<1>3. /\ <<T!Node(T!Edge(p).source).table, T!Edge(p).left>> \in T!KeySets
      /\ <<T!Node(T!Edge(p).target).table, T!Edge(p).right>> \in T!KeySets
  BY <1>1, <1>2, KeySetsOf DEF CompileTypes
<1>4. /\ T!KeySet(p, 1) = <<T!Node(T!Edge(p).source).table, T!Edge(p).left>>
      /\ T!KeySet(p, 2) = <<T!Node(T!Edge(p).target).table, T!Edge(p).right>>
      /\ \A s : T!KeySet(p, s) = T!KeySet(p, 1) \/ T!KeySet(p, s) = T!KeySet(p, 2)
  BY DEF T!KeySet
<1> QED
  BY <1>1, <1>2, <1>3, <1>4

LEMMA KeyHere ==
    ASSUME CompileTypes, NEW p \in Publishers, item[p] <= Len(input.edges)
    PROVE  /\ \A x : x \in AllKeys(T!KeySet(p, 1)) <=>
                 \E k \in DOMAIN T!RowsOf(T!Edge(p).source) :
                    /\ x = <<k, T!Encoded(T!RowsOf(T!Edge(p).source)[k], T!Edge(p).left)>>
                    /\ x[2] # None
           /\ \A x : x \in AllKeys(T!KeySet(p, 2)) <=>
                 \E k \in DOMAIN T!RowsOf(T!Edge(p).target) :
                    /\ x = <<k, T!Encoded(T!RowsOf(T!Edge(p).target)[k], T!Edge(p).right)>>
                    /\ x[2] # None
<1>1. /\ T!KeySet(p, 1) = <<T!Node(T!Edge(p).source).table, T!Edge(p).left>>
      /\ T!KeySet(p, 2) = <<T!Node(T!Edge(p).target).table, T!Edge(p).right>>
  BY KeySetHere
<1> QED
  BY <1>1 DEF AllKeys, T!KeyOf, T!RowsOf

BothReady(p) ==
    /\ sets[T!KeySet(p, 1)].keys = AllKeys(T!KeySet(p, 1))
    /\ sets[T!KeySet(p, 2)].keys = AllKeys(T!KeySet(p, 2))

LEMMA JoinedMeans ==
    ASSUME CompileTypes, NEW p \in Publishers, item[p] <= Len(input.edges), T!Edge(p).join => BothReady(p),
           NEW s \in DOMAIN T!RowsOf(T!Edge(p).source), NEW t \in DOMAIN T!RowsOf(T!Edge(p).target)
    PROVE  T!Joined(p, s, t) <=> IF T!Edge(p).join THEN T!SameKey(T!Edge(p), s, t) ELSE s = t
<1>1. CASE ~T!Edge(p).join
  BY <1>1 DEF T!Joined
<1>2. CASE T!Edge(p).join
  <2> DEFINE left == T!Encoded(T!RowsOf(T!Edge(p).source)[s], T!Edge(p).left)
             right == T!Encoded(T!RowsOf(T!Edge(p).target)[t], T!Edge(p).right)
  <2>1. T!SameKey(T!Edge(p), s, t) <=> left # None /\ left = right
    BY DEF T!SameKey
  <2>2. \A a \in T!SourceKeys(p) : a[1] = s => a[2] = left /\ left # None
    BY <1>2, KeyHere DEF BothReady, T!SourceKeys
  <2>3. \A b \in T!TargetKeys(p) : b[1] = t => b[2] = right /\ right # None
    BY <1>2, KeyHere DEF BothReady, T!TargetKeys
  <2>4. left # None => <<s, left>> \in T!SourceKeys(p)
    BY <1>2, KeyHere DEF BothReady, T!SourceKeys
  <2>5. right # None => <<t, right>> \in T!TargetKeys(p)
    BY <1>2, KeyHere DEF BothReady, T!TargetKeys
  <2> HIDE DEF left, right
  <2>6. T!Joined(p, s, t) <=> \E a \in T!SourceKeys(p), b \in T!TargetKeys(p) :
                                 a[1] = s /\ b[1] = t /\ a[2] = b[2]
    BY <1>2 DEF T!Joined
  <2>7. T!Joined(p, s, t) => left # None /\ left = right
    BY <2>2, <2>3, <2>6
  <2>8. left # None /\ left = right => T!Joined(p, s, t)
    <3> SUFFICES ASSUME left # None, left = right PROVE T!Joined(p, s, t)
      OBVIOUS
    <3> DEFINE a == <<s, left>>
               b == <<t, right>>
    <3>1. a \in T!SourceKeys(p) /\ b \in T!TargetKeys(p) /\ a[1] = s /\ b[1] = t /\ a[2] = b[2]
      BY <2>4, <2>5
    <3> QED
      BY <2>6, <3>1
  <2> QED
    BY <1>2, <2>1, <2>7, <2>8
<1> QED
  BY <1>1, <1>2

(* A join that is refused contradicts the rows.                             *)
LEMMA UnsoundIsFaulty ==
    ASSUME CompileTypes, NEW p \in Publishers, item[p] <= Len(input.edges), T!Edge(p).join, BothReady(p),
           ~T!Sound(p)
    PROVE  T!Faulty
<1> DEFINE e == T!Edge(p)
           Left(k) == T!Encoded(T!RowsOf(e.source)[k], e.left)
           Right(k) == T!Encoded(T!RowsOf(e.target)[k], e.right)
<1>1. e \in {x \in T!Range(input.edges) : x.join}
  BY KeySetHere DEF T!Range
<1>2. \A k \in DOMAIN T!RowsOf(e.target) : Right(k) # None => <<k, Right(k)>> \in T!TargetKeys(p)
  BY KeyHere DEF BothReady, T!TargetKeys
<1>3. CASE \E a, b \in T!TargetKeys(p) : a[2] = b[2] /\ a # b
  <2>1. PICK a, b \in T!TargetKeys(p) : a[2] = b[2] /\ a # b
    BY <1>3
  <2>2. PICK t \in DOMAIN T!RowsOf(e.target) : a = <<t, Right(t)>> /\ a[2] # None
    BY KeyHere DEF BothReady, T!TargetKeys
  <2>3. PICK u \in DOMAIN T!RowsOf(e.target) : b = <<u, Right(u)>> /\ b[2] # None
    BY KeyHere DEF BothReady, T!TargetKeys
  <2>4. t # u /\ Right(t) = Right(u) /\ Right(t) # None
    BY <2>1, <2>2, <2>3
  <2> HIDE DEF e
  <2> QED
    BY <1>1, <2>4 DEF T!Faulty
<1>4. CASE \E a \in T!SourceKeys(p) : ~\E b \in T!TargetKeys(p) : a[2] = b[2]
  <2>1. PICK a \in T!SourceKeys(p) : ~\E b \in T!TargetKeys(p) : a[2] = b[2]
    BY <1>4
  <2>2. PICK s \in DOMAIN T!RowsOf(e.source) : a = <<s, Left(s)>> /\ a[2] # None
    BY KeyHere DEF BothReady, T!SourceKeys
  <2>3. \A t \in DOMAIN T!RowsOf(e.target) : Left(s) # Right(t)
    <3> SUFFICES ASSUME NEW t \in DOMAIN T!RowsOf(e.target), Left(s) = Right(t) PROVE FALSE
      OBVIOUS
    <3>1. <<t, Right(t)>> \in T!TargetKeys(p)
      BY <1>2, <2>2
    <3>2. <<t, Right(t)>>[2] = a[2]
      BY <2>2
    <3> QED
      BY <2>1, <3>1, <3>2
  <2>4. Left(s) # None /\ ~\E t \in DOMAIN T!RowsOf(e.target) : T!SameKey(e, s, t)
    BY <2>2, <2>3 DEF T!SameKey
  <2> HIDE DEF e
  <2> QED
    BY <1>1, <2>2, <2>4 DEF T!Faulty
<1> QED
  BY <1>3, <1>4 DEF T!Sound

----
(* What a step of one publisher leaves alone.                               *)

KeysGrow ==
    \A s \in T!KeySets :
        sets[s].keys \subseteq sets'[s].keys /\ (sets[s].ready => sets'[s].ready)

Aside(q) ==
    /\ pc'[q] = pc[q] /\ item'[q] = item[q] /\ row'[q] = row[q] /\ side'[q] = side[q]
    /\ filled'[q] = filled[q] /\ runs'[q] = runs[q] /\ idle'[q] = idle[q]
    /\ drafts'[q] = drafts[q] /\ graph'[q] = graph[q] /\ (q \in collected' <=> q \in collected)

Stands(q) ==
    pc'[q] = pc[q] /\ item'[q] = item[q] /\ row'[q] = row[q] /\ side'[q] = side[q] /\ filled'[q] = filled[q]

LEMMA PlaceKeeps ==
    ASSUME CompileInv, NEW q \in Publishers, input' = input, KeysGrow, Stands(q)
    PROVE  CompileAt(q)'
<1> USE DEF Stands
<1>1. CompileTypes /\ CompileAt(q)
  BY DEF CompileInv
<1>2. T!Edge(q)' = T!Edge(q) /\ (T!Ensuring(q)' <=> T!Ensuring(q))
  BY DEF T!Edge, T!Ensuring
<1>3. T!KeySet(q, 1)' = T!KeySet(q, 1) /\ T!KeySet(q, 2)' = T!KeySet(q, 2)
      /\ T!KeySet(q, side[q])' = T!KeySet(q, side[q])
  BY <1>2 DEF T!KeySet, T!Node
<1>4. item[q] <= Len(input.edges) => T!KeySet(q, 1) \in T!KeySets /\ T!KeySet(q, 2) \in T!KeySets
      /\ T!KeySet(q, side[q]) \in T!KeySets
  BY <1>1, KeySetHere DEF CompileTypes
<1>5. T!RowsOf(item[q])' = T!RowsOf(item[q]) /\ T!RowsOf(T!Edge(q).source)' = T!RowsOf(T!Edge(q).source)
  BY <1>2, InputStays
<1>6. T!Faulty' = T!Faulty /\ AllKeys(T!KeySet(q, side[q]))' = AllKeys(T!KeySet(q, side[q]))
  BY <1>3, InputStays
<1>7. T!Ensuring(q) => item[q] <= Len(input.edges)
  BY DEF T!Ensuring
<1> QED
  BY <1>1, <1>2, <1>3, <1>4, <1>5, <1>6, <1>7 DEF CompileAt, KeysGrow

LEMMA ToldStays ==
    ASSUME input' = input
    PROVE  /\ \A ns : Told(ns)' <=> Told(ns)
           /\ \A ns : \A m \in SUBSET ns : Told(ns) => Told(m)
           /\ T!Bound' = T!Bound /\ T!Links' = T!Links
BY InputStays DEF Told

LEMMA AsideKeeps ==
    ASSUME CompileInv, NEW q \in Publishers, input' = input, KeysGrow, Aside(q)
    PROVE  /\ CompileAt(q)' /\ NothingInvented(q)'
           /\ (q \notin collected \/ pc[q] = "idle" => DraftIs(q))'
<1>1. CompileTypes /\ NothingInvented(q) /\ (q \notin collected \/ pc[q] = "idle" => DraftIs(q))
  BY DEF CompileInv
<1>2. NothingInvented(q)'
  BY <1>1, ToldStays DEF Aside, NothingInvented
<1>3. (q \notin collected \/ pc[q] = "idle" => DraftIs(q))'
  BY <1>1, InputStays DEF Aside, DraftIs, T!Empty
<1> QED
  BY <1>2, <1>3, PlaceKeeps DEF Aside, Stands

LEMMA StepKeeps ==
    ASSUME CompileInv, NEW p \in Publishers, input' = input, KeysGrow,
           \A q \in Publishers \ {p} : Aside(q), CompileTypes', KeysAreKept', CompileAt(p)',
           NothingInvented(p)', (p \notin collected \/ pc[p] = "idle" => DraftIs(p))'
    PROVE  CompileInv'
<1>1. ASSUME NEW q \in Publishers
      PROVE  (CompileAt(q) /\ NothingInvented(q) /\ (q \notin collected \/ pc[q] = "idle" => DraftIs(q)))'
  <2>1. CASE q = p
    BY <2>1
  <2>2. CASE q # p
    BY <2>2, AsideKeeps
  <2> QED
    BY <2>1, <2>2
<1> QED
  BY <1>1 DEF CompileInv

LEMMA SetsStay ==
    ASSUME CompileInv, UNCHANGED <<input, sets>> PROVE KeysGrow /\ KeysAreKept'
BY InputStays DEF CompileInv, KeysGrow, KeysAreKept

LEMMA GivenStays ==
    ASSUME CompileInv, NEW p \in Publishers, input' = input, graph'[p] = graph[p],
           drafts'[p].bindings \subseteq drafts[p].bindings, drafts'[p].nodes \subseteq drafts[p].nodes,
           drafts'[p].edges \subseteq drafts[p].edges
    PROVE  NothingInvented(p)'
BY ToldStays DEF CompileInv, NothingInvented

----
(* Steps that end a compilation, or do not touch what it wrote.             *)

LEMMA BeginKeeps == ASSUME CompileInv, NEW p \in Publishers, T!Begin(p) PROVE CompileInv'
<1> USE DEF T!Begin, T!Goto, T!jobVars
<1>1. UNCHANGED <<input, sets>> /\ drafts'[p].nodes \subseteq drafts[p].nodes
  OBVIOUS
<1>2. CompileTypes'
  BY InputStays DEF CompileInv, CompileTypes
<1>3. \A q \in Publishers \ {p} : Aside(q)
  BY DEF Aside, CompileInv, CompileTypes
<1>4. /\ pc[p] = "idle" /\ pc'[p] = "nodes" /\ runs'[p] = "building" /\ DraftIs(p) /\ CompileAt(p)
      /\ item'[p] = item[p] /\ row'[p] = row[p] /\ side'[p] = side[p] /\ filled'[p] = filled[p]
      /\ idle'[p] = idle[p] /\ drafts'[p] = drafts[p]
  BY DEF CompileInv, CompileTypes
<1>5. item'[p] = 1 /\ row'[p] = 0 /\ side'[p] = 1 /\ filled'[p] = None
  BY <1>4 DEF CompileAt
<1>6. CompileAt(p)'
  <2>1. item'[p] <= Len(input'.nodes) => item'[p] \in DOMAIN input.nodes
    BY <1>1, <1>5, InputFacts DEF CompileInv, CompileTypes
  <2>2. item'[p] <= Len(input'.nodes) => Len(T!RowsOf(item'[p])) \in Nat
    BY <2>1, InputFacts DEF CompileInv, CompileTypes
  <2>3. T!RowsOf(item[p])' = T!RowsOf(item'[p])
    BY <1>1 DEF T!RowsOf, T!Node
  <2>4. item'[p] <= Len(input'.nodes) => row'[p] <= Len(T!RowsOf(item[p])')
    BY <1>5, <2>2, <2>3
  <2> QED
    BY <1>4, <1>5, <2>4 DEF CompileAt, Stages
<1>7. DraftIs(p)'
  <2>1. drafts[p] = T!Empty /\ ~idle[p]
    BY <1>4 DEF DraftIs
  <2>2. BoundBy(1, 0) = {} /\ BoundBy(item[p], row[p])' = BoundBy(1, 0) /\ NodesBy({}) = {}
    BY <1>1, <1>5, BoundByRows, InputStays DEF CompileInv, CompileTypes, NodesBy
  <2>3. NodesBy(drafts[p].bindings)' = {}
    BY <1>1, <1>4, <2>1, <2>2, InputStays DEF T!Empty
  <2> QED
    BY <1>4, <2>1, <2>2, <2>3 DEF DraftIs, Stages, T!Empty
<1> QED
  BY <1>1, <1>2, <1>3, <1>6, <1>7, StepKeeps, SetsStay, GivenStays

(* Whoever stops at a cause, or for none.                                   *)
Ended == {"refused", "stopped", "dead"}

LEMMA EndKeeps ==
    ASSUME CompileInv, NEW p \in Publishers, NEW where \in Ended, T!Goto(p, where),
           where = "refused" => T!Faulty, T!Released(p) \/ runs' = runs,
           UNCHANGED <<input, T!jobVars, idle, drafts, sets, graph, lingered, collected>>
    PROVE  CompileInv'
<1> USE DEF T!Goto, T!Released, T!jobVars
<1>1. CompileTypes'
  BY InputStays DEF CompileInv, CompileTypes
<1>2. \A q \in Publishers \ {p} : Aside(q)
  BY DEF Aside, CompileInv, CompileTypes
<1>3. pc'[p] = where
  BY DEF CompileInv, CompileTypes
<1>4. CompileAt(p)' /\ DraftIs(p)'
  BY <1>3, InputStays DEF CompileAt, DraftIs, Stages, Ended
<1> QED
  BY <1>1, <1>2, <1>4, StepKeeps, SetsStay, GivenStays

LEMMA LingerKeeps == ASSUME CompileInv, NEW p \in Publishers, T!Linger(p) PROVE CompileInv'
<1> USE DEF T!Linger, T!jobVars
<1>1. CompileTypes'
  BY InputStays DEF CompileInv, CompileTypes
<1>2. \A q \in Publishers \ {p} : Aside(q)
  BY DEF Aside, CompileInv, CompileTypes
<1>3. UNCHANGED <<input, pc, item, row, side, filled, sets, drafts, graph, collected>> /\ runs[p] = "building"
      /\ runs' = runs
  OBVIOUS
<1>4. CompileAt(p)'
  BY <1>3, SetsStay, PlaceKeeps DEF Stands
<1>5. (p \notin collected \/ pc[p] = "idle" => DraftIs(p))'
  <2>1. pc[p] # "idle"
    BY <1>3 DEF CompileInv, DraftIs
  <2>2. p \notin collected => DraftIs(p)
    BY DEF CompileInv
  <2> QED
    BY <1>3, <2>1, <2>2, InputStays DEF DraftIs, Stages
<1> QED
  BY <1>1, <1>2, <1>3, <1>4, <1>5, StepKeeps, SetsStay, GivenStays

(* Whose draft is collected while it compiles is told apart.                *)
LEMMA CollectKeeps == ASSUME CompileInv, NEW p \in Publishers, T!Collect(p) PROVE CompileInv'
<1> USE DEF T!Collect, T!jobVars
<1>1. CompileTypes'
  BY InputStays DEF CompileInv, CompileTypes, T!Empty
<1>2. \A q \in Publishers \ {p} : Aside(q)
  BY DEF Aside, CompileInv, CompileTypes
<1>3. UNCHANGED <<input, pc, item, row, side, filled, sets, graph, lingered>> /\ T!Collectable(p)
      /\ collected' = IF T!Compiling(p) THEN collected \cup {p} ELSE collected
  OBVIOUS
<1>4. CompileAt(p)'
  BY <1>3, SetsStay, PlaceKeeps DEF Stands
<1>5. /\ drafts'[p].bindings \subseteq drafts[p].bindings /\ drafts'[p].nodes \subseteq drafts[p].nodes
      /\ drafts'[p].edges \subseteq drafts[p].edges /\ graph'[p] = graph[p]
  BY DEF CompileInv, CompileTypes, T!Empty
<1>6. (p \notin collected \/ pc[p] = "idle" => DraftIs(p))'
  <2>1. pc[p] # "idle"
    BY <1>3 DEF CompileInv, DraftIs, T!Collectable
  <2>2. p \notin collected' => p \notin collected /\ pc[p] \notin Stages /\ DraftIs(p)
    BY <1>3 DEF CompileInv, T!Compiling, Stages
  <2> QED
    BY <1>3, <2>1, <2>2, InputStays DEF DraftIs, Stages
<1> QED
  BY <1>1, <1>2, <1>3, <1>4, <1>5, <1>6, StepKeeps, SetsStay, GivenStays

----
(* Nodes.                                                                   *)

LEMMA WriteNodeKeeps == ASSUME CompileInv, NEW p \in Publishers, T!WriteNode(p) PROVE CompileInv'
<1> DEFINE n == item[p]
           k == T!NextRow(p)
           id == T!Identity(n, k)
           merged == T!Merged(drafts[p].nodes, id, T!Fields(n, k))
<1>1. pc[p] = "nodes" /\ n <= Len(input.nodes) /\ k <= Len(T!RowsOf(n)) /\ k = row[p] + 1 /\ row[p] \in Nat
  BY DEF T!WriteNode, T!NextRow, CompileInv, CompileTypes
<1>2. n \in DOMAIN input.nodes /\ k \in DOMAIN T!RowsOf(n) /\ Binding(n, k) \in T!Bound
  <2>1. n \in DOMAIN input.nodes
    BY <1>1, InputFacts DEF CompileInv, CompileTypes
  <2>2. k \in DOMAIN T!RowsOf(n)
    BY <1>1, <2>1, InputFacts DEF CompileInv, CompileTypes
  <2> QED
    BY <2>1, <2>2, BoundFacts
<1>3. Binding(n, k)[1] = n /\ Binding(n, k)[2] = k /\ Binding(n, k)[3] = id
  BY DEF Binding
<1>4. merged \subseteq FieldsBy(T!Bound, id)
  <2>1. T!Fields(n, k) \subseteq FieldsBy(T!Bound, id)
    BY <1>2, <1>3 DEF FieldsBy
  <2>2. T!FieldsOf(drafts[p].nodes, id) \subseteq FieldsBy(T!Bound, id)
    BY DEF T!FieldsOf, CompileInv, NothingInvented, Told
  <2> QED
    BY <2>1, <2>2 DEF T!Merged
<1>5. CASE id[2] = None \/ ~T!Consistent(merged)
  <2>1. T!Refuse(p)
    BY <1>5 DEF T!WriteNode
  <2>2. T!Faulty
    <3>1. CASE id[2] = None
      BY <1>2, <1>3, <3>1 DEF T!Faulty
    <3>2. CASE ~T!Consistent(merged)
      <4>1. <<id, FieldsBy(T!Bound, id)>> \in T!Instances
        BY <1>2, <1>3, AllNodes DEF NodesBy
      <4>2. ~T!Consistent(FieldsBy(T!Bound, id))
        BY <1>4, <3>2 DEF T!Consistent
      <4> QED
        BY <4>1, <4>2 DEF T!Faulty
    <3> QED
      BY <1>5, <3>1, <3>2
  <2> QED
    BY <2>1, <2>2, EndKeeps DEF T!Refuse, Ended
<1>6. CASE ~(id[2] = None \/ ~T!Consistent(merged))
  <2> DEFINE d == drafts'[p]
  <2>1. /\ drafts' = [drafts EXCEPT ![p].nodes = {x \in @ : x[1] # id} \cup {<<id, merged>>},
                                    ![p].bindings = @ \cup {Binding(n, k)}]
        /\ row' = [row EXCEPT ![p] = k] /\ idle' = [idle EXCEPT ![p] = FALSE]
        /\ UNCHANGED <<input, pc, item, side, filled, runs, sets, graph, lingered, collected>>
    BY <1>6 DEF T!WriteNode, T!Touched, Binding
  <2>2. /\ d.nodes = {x \in drafts[p].nodes : x[1] # id} \cup {<<id, merged>>}
        /\ d.bindings = drafts[p].bindings \cup {Binding(n, k)} /\ d.edges = drafts[p].edges
        /\ DOMAIN d = {"bindings", "nodes", "edges"}
        /\ row'[p] = k /\ idle'[p] = FALSE
    BY <2>1 DEF CompileInv, CompileTypes
  <2>3. \A q \in Publishers \ {p} : Aside(q)
    BY <2>1 DEF Aside, CompileInv, CompileTypes
  <2>4. CompileTypes'
    <3>1. k \in Nat /\ DOMAIN drafts' = Publishers /\ DOMAIN row' = Publishers /\ DOMAIN idle' = Publishers
      BY <1>1, <2>1 DEF CompileInv, CompileTypes
    <3>2. \A q \in Publishers : DOMAIN drafts'[q] = {"bindings", "nodes", "edges"} /\ row'[q] \in Nat
      BY <2>2, <2>3, <3>1 DEF Aside, CompileInv, CompileTypes
    <3> QED
      BY <2>1, <3>1, <3>2, InputStays DEF CompileInv, CompileTypes
  <2> HIDE DEF d, merged, id
  <2>5. CompileAt(p)'
    <3>1. T!RowsOf(item[p])' = T!RowsOf(item[p])
      BY <2>1, InputStays
    <3> QED
      BY <1>1, <2>1, <2>2, <3>1 DEF CompileAt, CompileInv, Stages
  <2>6. NothingInvented(p)'
    <3>0. NothingInvented(p)
      BY DEF CompileInv
    <3>1. Told(d.nodes)
      BY <1>2, <1>3, <1>4, <2>2, <3>0 DEF NothingInvented, Told
    <3>2. d.bindings \subseteq T!Bound /\ d.edges \subseteq T!Links
      BY <1>2, <2>2, <3>0 DEF NothingInvented
    <3> QED
      BY <2>1, <3>0, <3>1, <3>2, ToldStays DEF NothingInvented, d
  <2>7. (p \notin collected \/ pc[p] = "idle" => DraftIs(p))'
    <3> SUFFICES ASSUME p \notin collected PROVE DraftIs(p)'
      BY <1>1, <2>1
    <3>1. /\ runs[p] = "building" /\ drafts[p].edges = {}
          /\ drafts[p].bindings = BoundBy(n, row[p]) /\ drafts[p].nodes = NodesBy(drafts[p].bindings)
      BY <1>1 DEF CompileInv, DraftIs, Stages
    <3>2. d.bindings = BoundBy(n, k)
      BY <1>1, <1>2, <2>2, <3>1, BoundByRows DEF CompileInv, CompileTypes
    <3>3. d.nodes = NodesBy(d.bindings)
      <4>1. merged = FieldsBy(drafts[p].bindings, id) \cup T!Fields(n, k)
        BY <3>1, FieldsOfNodes DEF merged, T!Merged
      <4>2. NodesBy(d.bindings) = {x \in NodesBy(drafts[p].bindings) : x[1] # id}
              \cup {<<id, FieldsBy(drafts[p].bindings, id) \cup T!Fields(n, k)>>}
        <5> DEFINE B == drafts[p].bindings
                   b == Binding(n, k)
        <5>1. d.bindings = B \cup {b} /\ b[1] = n /\ b[2] = k /\ b[3] = id
          BY <1>3, <2>2
        <5> HIDE DEF B, b
        <5>2. NodesBy(B \cup {b}) = {x \in NodesBy(B) : x[1] # b[3]}
                \cup {<<b[3], FieldsBy(B, b[3]) \cup T!Fields(b[1], b[2])>>}
          BY NodesAdded
        <5>3. NodesBy(d.bindings) = {x \in NodesBy(B) : x[1] # id}
                \cup {<<id, FieldsBy(B, id) \cup T!Fields(n, k)>>}
          BY <5>1, <5>2
        <5> QED
          BY <5>3 DEF B
      <4> QED
        BY <2>2, <3>1, <4>1, <4>2
    <3>4. BoundBy(item[p], row[p])' = BoundBy(n, k)
      <4>1. item'[p] = n /\ row'[p] = k
        BY <2>1, <2>2
      <4>2. \A i, j : BoundBy(i, j)' = BoundBy(i, j)
        BY <2>1, InputStays
      <4> QED
        BY <4>1, <4>2
    <3>5. NodesBy(drafts[p].bindings)' = NodesBy(d.bindings)
      BY <2>1, InputStays DEF d
    <3>6. /\ pc'[p] = "nodes" /\ runs'[p] = "building" /\ idle'[p] = FALSE /\ d.edges = {}
      BY <1>1, <2>1, <2>2, <3>1
    <3> QED
      BY <3>2, <3>3, <3>4, <3>5, <3>6 DEF DraftIs, Stages, d
  <2> QED
    BY <2>1, <2>3, <2>4, <2>5, <2>6, <2>7, StepKeeps, SetsStay
<1> QED
  BY <1>5, <1>6

LEMMA EndNodeKeeps == ASSUME CompileInv, NEW p \in Publishers, T!EndNode(p) PROVE CompileInv'
<1> DEFINE n == item[p]
<1>1. /\ pc[p] = "nodes" /\ n <= Len(input.nodes) /\ row[p] + 1 > Len(T!RowsOf(n))
      /\ row[p] \in Nat /\ n \in Nat \ {0} /\ input \in Inputs
      /\ UNCHANGED <<input, side, filled, runs, idle, drafts, sets, graph, lingered, collected>>
      /\ row' = [row EXCEPT ![p] = 0]
      /\ \/ n < Len(input.nodes) /\ item' = [item EXCEPT ![p] = @ + 1] /\ pc' = pc
         \/ ~(n < Len(input.nodes)) /\ item' = [item EXCEPT ![p] = 1] /\ pc' = [pc EXCEPT ![p] = "keys"]
  BY DEF T!EndNode, T!NextRow, T!Goto, CompileInv, CompileTypes
<1>2. n \in DOMAIN input.nodes /\ Len(input.nodes) \in Nat /\ Len(input.edges) \in Nat
      /\ Len(T!RowsOf(n)) \in Nat
  BY <1>1, InputFacts
<1>3. /\ \A q \in Publishers \ {p} : Aside(q)
      /\ row'[p] = 0 /\ side'[p] = side[p] /\ filled'[p] = filled[p]
      /\ \/ n < Len(input.nodes) /\ item'[p] = n + 1 /\ pc'[p] = "nodes"
         \/ n = Len(input.nodes) /\ item'[p] = 1 /\ pc'[p] = "keys"
  BY <1>1, <1>2 DEF Aside, CompileInv, CompileTypes
<1>4. CompileTypes'
  <2>1. \A q \in Publishers : item'[q] \in Nat \ {0} /\ row'[q] \in Nat
    BY <1>1, <1>3 DEF Aside, CompileInv, CompileTypes
  <2> QED
    BY <1>1, <2>1, InputStays DEF CompileInv, CompileTypes
<1>5. side[p] = 1 /\ filled[p] = None
  BY <1>1 DEF CompileInv, CompileAt
<1>6. CompileAt(p)'
  <2>1. CASE n < Len(input.nodes)
    <3>1. n + 1 \in DOMAIN input.nodes
      BY <1>1, <1>2, <2>1, InputFacts
    <3>2. T!RowsOf(item[p])' = T!RowsOf(n + 1) /\ Len(T!RowsOf(n + 1)) \in Nat
      BY <1>1, <1>3, <2>1, <3>1, InputFacts DEF T!RowsOf, T!Node
    <3>3. row'[p] <= Len(T!RowsOf(item[p])')
      BY <1>3, <3>2
    <3> QED
      BY <1>3, <1>5, <2>1, <3>3 DEF CompileAt, Stages
  <2>2. CASE n = Len(input.nodes)
    <3>1. pc'[p] = "keys" /\ item'[p] <= Len(input'.edges) + 1 /\ row'[p] = 0 /\ side'[p] = 1 /\ filled'[p] = None
      BY <1>1, <1>2, <1>3, <1>5, <2>2
    <3> QED
      BY <3>1 DEF CompileAt, Stages
  <2> QED
    BY <1>1, <1>2, <2>1, <2>2
<1>7. (p \notin collected \/ pc[p] = "idle" => DraftIs(p))'
  <2> SUFFICES ASSUME p \notin collected PROVE DraftIs(p)'
    BY <1>1, <1>3
  <2>1. /\ runs[p] = "building" /\ drafts[p].edges = {} /\ drafts[p].bindings = BoundBy(n, row[p])
        /\ drafts[p].nodes = NodesBy(drafts[p].bindings)
    BY <1>1 DEF CompileInv, DraftIs, Stages
  <2>2. BoundBy(n, row[p]) = BoundBy(n + 1, 0)
    BY <1>1, <1>2, BoundByRows
  <2>3. n = Len(input.nodes) => BoundBy(n + 1, 0) = T!Bound
    BY <1>1, BoundByRows
  <2>4. (BoundBy(item[p], row[p]))' = BoundBy(item'[p], 0) /\ LinksBy(item[p], row[p])' = LinksBy(item'[p], 0)
        /\ NodesBy(drafts[p].bindings)' = NodesBy(drafts[p].bindings)
        /\ T!Bound' = T!Bound /\ T!Instances' = T!Instances
    BY <1>1, <1>3, InputStays
  <2>5. CASE n < Len(input.nodes)
    BY <1>1, <1>3, <2>1, <2>2, <2>4, <2>5 DEF DraftIs, Stages
  <2>6. CASE n = Len(input.nodes)
    <3>1. LinksBy(1, 0) = {}
      BY <1>1, LinksByRows
    <3>2. item'[p] = 1 /\ pc'[p] = "keys"
      BY <1>2, <1>3, <2>6
    <3> QED
      BY <1>1, <1>3, <2>1, <2>2, <2>3, <2>4, <2>6, <3>1, <3>2, AllNodes DEF DraftIs, Stages
  <2> QED
    BY <1>1, <1>2, <2>5, <2>6
<1> QED
  BY <1>1, <1>3, <1>4, <1>6, <1>7, StepKeeps, SetsStay, GivenStays

----
(* Key sets.                                                                *)

\* A publisher that ensures the key set of one side.
LEMMA EnsuringFacts ==
    ASSUME CompileInv, NEW p \in Publishers, T!Ensuring(p)
    PROVE  /\ pc[p] = "keys" /\ item[p] <= Len(input.edges) /\ T!Edge(p).join /\ side[p] \in {1, 2}
           /\ T!KeySet(p, side[p]) \in T!KeySets
           /\ T!KeySet(p, side[p])[1] \in DOMAIN input.rows
           /\ Len(input.rows[T!KeySet(p, side[p])[1]]) \in Nat
           /\ DOMAIN input.rows[T!KeySet(p, side[p])[1]] = 1 .. Len(input.rows[T!KeySet(p, side[p])[1]])
<1>1. pc[p] = "keys" /\ item[p] <= Len(input.edges) /\ T!Edge(p).join /\ side[p] \in {1, 2}
  BY DEF T!Ensuring, CompileInv, CompileTypes
<1>2. T!KeySet(p, side[p]) \in T!KeySets
  BY <1>1, KeySetHere DEF CompileInv
<1> QED
  BY <1>1, <1>2, KeySetsOf, InputFacts DEF CompileInv, CompileTypes

\* The draft is not concerned.
LEMMA KeysStepDraft ==
    ASSUME CompileInv, NEW p \in Publishers, UNCHANGED <<input, pc, item, row, runs, idle, drafts, graph, lingered, collected>>
    PROVE  /\ NothingInvented(p)' /\ (p \notin collected \/ pc[p] = "idle" => DraftIs(p))'
<1>1. NothingInvented(p)'
  BY GivenStays
<1>2. (p \notin collected \/ pc[p] = "idle" => DraftIs(p))'
  BY InputStays DEF CompileInv, DraftIs
<1> QED
  BY <1>1, <1>2

\* From one side to the next, when the key set is ready.
LEMMA NextSideAt ==
    ASSUME CompileInv, NEW p \in Publishers, T!Ensuring(p), T!NextSide(p), KeysGrow,
           sets'[T!KeySet(p, side[p])].ready, UNCHANGED <<input, pc, item, row>>
    PROVE  CompileAt(p)' /\ side'[p] \in 1 .. 3 /\ side'[p] = side[p] + 1 /\ filled'[p] = None
<1>1. side'[p] = side[p] + 1 /\ filled'[p] = None
  BY DEF T!NextSide, CompileInv, CompileTypes
<1>2. side[p] \in {1, 2} /\ pc[p] = "keys" /\ item[p] <= Len(input.edges) /\ T!Edge(p).join
      /\ T!KeySet(p, 1) \in T!KeySets /\ row[p] = 0 /\ item[p] <= Len(input.edges) + 1
  BY EnsuringFacts, KeySetHere DEF CompileInv, CompileAt
<1>3. T!Edge(p)' = T!Edge(p)
  BY DEF T!Edge
<1>4. T!KeySet(p, 1)' = T!KeySet(p, 1) /\ T!KeySet(p, 2)' = T!KeySet(p, 2)
  BY <1>3 DEF T!KeySet, T!Node
<1>5. side[p] >= 2 => sets[T!KeySet(p, 1)].ready
  BY <1>2 DEF CompileInv, CompileAt
<1>6. sets'[T!KeySet(p, 1)].ready /\ (side[p] = 2 => sets'[T!KeySet(p, 2)].ready)
  BY <1>2, <1>5 DEF KeysGrow
<1>7. CompileAt(p)'
  BY <1>1, <1>2, <1>3, <1>4, <1>6 DEF CompileAt, Stages
<1> QED
  BY <1>1, <1>2, <1>7

LEMMA EnsureKeeps == ASSUME CompileInv, NEW p \in Publishers, T!Ensure(p) PROVE CompileInv'
<1>1. /\ T!Ensuring(p) /\ filled[p] = None
      /\ UNCHANGED <<input, pc, item, row, runs, idle, drafts, sets, graph, lingered, collected>>
      /\ \/ sets[T!KeySet(p, side[p])].ready /\ T!NextSide(p)
         \/ filled' = [filled EXCEPT ![p] = 0] /\ side' = side
  BY DEF T!Ensure
<1>2. KeysGrow /\ KeysAreKept'
  BY <1>1, SetsStay
<1>3. \A q \in Publishers \ {p} : Aside(q)
  BY <1>1 DEF Aside, CompileInv, CompileTypes, T!NextSide
<1>4. CASE sets[T!KeySet(p, side[p])].ready /\ T!NextSide(p)
  <2>1. CompileAt(p)' /\ side'[p] \in 1 .. 3 /\ filled'[p] = None
    BY <1>1, <1>2, <1>4, NextSideAt
  <2>2. CompileTypes'
    <3>1. DOMAIN side' = Publishers /\ DOMAIN filled' = Publishers
      BY <1>4 DEF T!NextSide, CompileInv, CompileTypes
    <3>2. \A q \in Publishers : side'[q] \in 1 .. 3 /\ (filled'[q] # None => filled'[q] \in Nat)
      BY <1>3, <2>1 DEF Aside, CompileInv, CompileTypes
    <3> QED
      BY <1>1, <3>1, <3>2, InputStays DEF CompileInv, CompileTypes
  <2> QED
    BY <1>1, <1>2, <1>3, <2>1, <2>2, KeysStepDraft, StepKeeps
<1>5. CASE filled' = [filled EXCEPT ![p] = 0] /\ side' = side
  <2>1. filled'[p] = 0 /\ CompileTypes'
    BY <1>1, <1>5, InputStays DEF CompileInv, CompileTypes
  <2>2. T!Edge(p)' = T!Edge(p) /\ T!Ensuring(p)'
    BY <1>1, <1>5 DEF T!Edge, T!Ensuring
  <2>3. T!KeySet(p, 1)' = T!KeySet(p, 1) /\ T!KeySet(p, 2)' = T!KeySet(p, 2)
        /\ T!KeySet(p, side[p])' = T!KeySet(p, side[p])
    BY <1>1, <1>5, <2>2 DEF T!KeySet, T!Node
  <2>4. \A x \in AllKeys(T!KeySet(p, side[p])) : ~(x[1] <= 0)
    BY <1>1, EnsuringFacts DEF AllKeys
  <2>5. AllKeys(T!KeySet(p, side[p]))' = AllKeys(T!KeySet(p, side[p]))
    BY <1>1, <2>3, InputStays
  <2>6. CompileAt(p)'
    <3>1. pc[p] = "keys" /\ CompileAt(p) /\ Len(input.rows[T!KeySet(p, side[p])[1]]) \in Nat
      BY <1>1, EnsuringFacts DEF CompileInv
    <3>2. 0 <= Len(input.rows[T!KeySet(p, side[p])[1]])
      BY <3>1
    <3> QED
      BY <1>1, <1>5, <2>1, <2>2, <2>3, <2>4, <2>5, <3>1, <3>2 DEF CompileAt, Stages
  <2> QED
    BY <1>1, <1>2, <1>3, <2>1, <2>6, KeysStepDraft, StepKeeps
<1> QED
  BY <1>1, <1>4, <1>5

LEMMA FillKeysKeeps == ASSUME CompileInv, NEW p \in Publishers, T!FillKeys(p) PROVE CompileInv'
<1> DEFINE set == T!KeySet(p, side[p])
           pos == filled[p] + 1
           new == <<pos, T!KeyOf(set, pos)>>
<1>1. /\ T!Ensuring(p) /\ filled[p] # None /\ filled[p] < Len(input.rows[set[1]])
      /\ filled' = [filled EXCEPT ![p] = pos]
      /\ UNCHANGED <<input, pc, item, row, side, runs, idle, drafts, graph, lingered, collected>>
      /\ sets' = IF T!KeyOf(set, pos) = None THEN sets ELSE [sets EXCEPT ![set].keys = @ \cup {new}]
  BY DEF T!FillKeys
<1>2. /\ pc[p] = "keys" /\ set \in T!KeySets /\ filled[p] \in Nat /\ pos \in Nat
      /\ pos \in DOMAIN input.rows[set[1]] /\ pos <= Len(input.rows[set[1]])
  BY <1>1, EnsuringFacts DEF CompileInv, CompileTypes
<1>3. T!KeyOf(set, pos) # None => new \in AllKeys(set)
  BY <1>2 DEF AllKeys
<1>4. /\ DOMAIN sets' = T!KeySets /\ \A s \in T!KeySets : DOMAIN sets'[s] = {"ready", "keys"}
      /\ \A s \in T!KeySets : sets'[s].ready = sets[s].ready /\ sets[s].keys \subseteq sets'[s].keys
      /\ \A s \in T!KeySets \ {set} : sets'[s].keys = sets[s].keys
      /\ sets'[set].keys \subseteq sets[set].keys \cup {new}
      /\ T!KeyOf(set, pos) # None => new \in sets'[set].keys
      /\ T!KeyOf(set, pos) = None => sets' = sets
  <2>1. DOMAIN sets = T!KeySets /\ \A s \in T!KeySets : DOMAIN sets[s] = {"ready", "keys"}
    BY DEF CompileInv, CompileTypes
  <2> HIDE DEF set, new
  <2> QED
    BY <1>1, <1>2, <2>1
<1> HIDE DEF new
<1>5. KeysGrow
  BY <1>4 DEF KeysGrow
<1>6. KeysAreKept'
  <2>1. \A s \in T!KeySets :
          sets'[s].keys \subseteq AllKeys(s) /\ (sets'[s].ready => AllKeys(s) \subseteq sets'[s].keys)
    <3> SUFFICES ASSUME NEW s \in T!KeySets
                 PROVE  sets'[s].keys \subseteq AllKeys(s) /\ (sets'[s].ready => AllKeys(s) \subseteq sets'[s].keys)
      OBVIOUS
    <3>1. sets[s].keys \subseteq AllKeys(s) /\ (sets[s].ready => AllKeys(s) \subseteq sets[s].keys)
      BY DEF CompileInv, KeysAreKept
    <3>2. s = set => sets'[s].keys \subseteq AllKeys(s)
      BY <1>3, <1>4, <3>1
    <3>3. s # set => sets'[s].keys \subseteq AllKeys(s)
      BY <1>4, <3>1
    <3> QED
      BY <1>4, <3>1, <3>2, <3>3
  <2> QED
    BY <1>1, <2>1, InputStays DEF KeysAreKept
<1>7. \A q \in Publishers \ {p} : Aside(q)
  BY <1>1 DEF Aside, CompileInv, CompileTypes
<1>8. CompileTypes' /\ filled'[p] = pos
  <2>1. DOMAIN filled' = Publishers /\ filled'[p] = pos
    BY <1>1 DEF CompileInv, CompileTypes
  <2>2. \A q \in Publishers : filled'[q] # None => filled'[q] \in Nat
    BY <1>2, <1>7, <2>1 DEF Aside, CompileInv, CompileTypes
  <2> QED
    BY <1>1, <1>4, <2>1, <2>2, InputStays DEF CompileInv, CompileTypes
<1>9. CompileAt(p)'
  <2>1. T!Edge(p)' = T!Edge(p) /\ T!Ensuring(p)'
    BY SMTT(30), <1>1 DEF T!Edge, T!Ensuring
  <2>2. T!KeySet(p, 1)' = T!KeySet(p, 1) /\ T!KeySet(p, 2)' = T!KeySet(p, 2) /\ T!KeySet(p, side[p])' = set
    BY <1>1, <2>1 DEF T!KeySet, T!Node
  <2>3. \A x \in AllKeys(set) : x[1] <= pos => x \in sets'[set].keys
    <3> SUFFICES ASSUME NEW x \in AllKeys(set), x[1] <= pos PROVE x \in sets'[set].keys
      OBVIOUS
    <3>1. x[1] \in Nat /\ x = <<x[1], T!KeyOf(set, x[1])>> /\ T!KeyOf(set, x[1]) # None
      <4>1. PICK k \in DOMAIN input.rows[set[1]] : x = <<k, T!KeyOf(set, k)>> /\ T!KeyOf(set, k) # None
        BY DEF AllKeys
      <4>2. k \in Nat /\ x[1] = k
        BY <1>1, <4>1, EnsuringFacts
      <4> QED
        BY <4>1, <4>2
    <3>2. x[1] <= filled[p] => x \in sets[set].keys
      BY <1>1, <1>2 DEF CompileInv, CompileAt
    <3>3. x[1] = pos => x = new /\ T!KeyOf(set, pos) # None
      BY <3>1 DEF new
    <3>4. x[1] <= filled[p] \/ x[1] = pos
      BY <1>2, <3>1
    <3> QED
      BY <1>2, <1>4, <3>2, <3>3, <3>4
  <2>4. AllKeys(T!KeySet(p, side[p]))' = AllKeys(set)
    BY <1>1, <2>2, InputStays
  <2>5. T!KeySet(p, 1) \in T!KeySets /\ T!KeySet(p, 2) \in T!KeySets
    BY <1>1, EnsuringFacts, KeySetHere DEF CompileInv
  <2> HIDE DEF set, pos
  <2>6. CompileAt(p)
    BY DEF CompileInv
  <2> QED
    BY <1>1, <1>2, <1>4, <1>8, <2>1, <2>2, <2>3, <2>4, <2>5, <2>6 DEF CompileAt, Stages
<1> QED
  BY <1>1, <1>5, <1>6, <1>7, <1>8, <1>9, KeysStepDraft, StepKeeps

(* A key set is announced when all its keys are there, whoever wrote them.  *)
LEMMA AnnounceKeeps == ASSUME CompileInv, NEW p \in Publishers, T!Announce(p) PROVE CompileInv'
<1> DEFINE set == T!KeySet(p, side[p])
<1>1. /\ T!Ensuring(p) /\ filled[p] # None /\ filled[p] = Len(input.rows[set[1]])
      /\ sets' = [sets EXCEPT ![set].ready = TRUE] /\ T!NextSide(p)
      /\ UNCHANGED <<input, pc, item, row, runs, idle, drafts, graph, lingered, collected>>
  BY DEF T!Announce
<1>2. pc[p] = "keys" /\ set \in T!KeySets
  BY <1>1, EnsuringFacts
<1>3. /\ DOMAIN sets' = T!KeySets /\ \A s \in T!KeySets : DOMAIN sets'[s] = {"ready", "keys"}
      /\ \A s \in T!KeySets : sets'[s].keys = sets[s].keys
      /\ \A s \in T!KeySets \ {set} : sets'[s].ready = sets[s].ready
      /\ sets'[set].ready
  <2>1. DOMAIN sets = T!KeySets /\ \A s \in T!KeySets : DOMAIN sets[s] = {"ready", "keys"}
    BY DEF CompileInv, CompileTypes
  <2> HIDE DEF set
  <2> QED
    BY <1>1, <1>2, <2>1
<1>4. KeysGrow
  BY <1>3 DEF KeysGrow
<1>5. AllKeys(set) \subseteq sets[set].keys
  <2>1. \A x \in AllKeys(set) : x[1] <= filled[p]
    <3> SUFFICES ASSUME NEW x \in AllKeys(set) PROVE x[1] <= filled[p]
      OBVIOUS
    <3>1. PICK k \in DOMAIN input.rows[set[1]] : x = <<k, T!KeyOf(set, k)>>
      BY DEF AllKeys
    <3> QED
      BY <1>1, <3>1, EnsuringFacts
  <2> QED
    BY <1>1, <1>2, <2>1 DEF CompileInv, CompileAt
<1>6. KeysAreKept'
  <2>1. \A s \in T!KeySets :
          sets'[s].keys \subseteq AllKeys(s) /\ (sets'[s].ready => AllKeys(s) \subseteq sets'[s].keys)
    <3> HIDE DEF set
    <3> QED
      BY <1>3, <1>5 DEF CompileInv, KeysAreKept
  <2> QED
    BY <1>1, <2>1, InputStays DEF KeysAreKept
<1>7. \A q \in Publishers \ {p} : Aside(q)
  BY <1>1 DEF Aside, CompileInv, CompileTypes, T!NextSide
<1>8. CompileAt(p)' /\ side'[p] \in 1 .. 3 /\ filled'[p] = None
  BY <1>1, <1>3, <1>4, NextSideAt
<1>9. CompileTypes'
  <2>1. DOMAIN side' = Publishers /\ DOMAIN filled' = Publishers
    BY <1>1 DEF T!NextSide, CompileInv, CompileTypes
  <2>2. \A q \in Publishers : side'[q] \in 1 .. 3 /\ (filled'[q] # None => filled'[q] \in Nat)
    BY <1>7, <1>8 DEF Aside, CompileInv, CompileTypes
  <2> QED
    BY <1>1, <1>3, <2>1, <2>2, InputStays DEF CompileInv, CompileTypes
<1> QED
  BY <1>1, <1>4, <1>6, <1>7, <1>8, <1>9, KeysStepDraft, StepKeeps

----
(* Edges.                                                                   *)

\* Ready key sets hold all keys.
LEMMA ReadyIsAll ==
    ASSUME CompileInv, NEW p \in Publishers, item[p] <= Len(input.edges),
           sets[T!KeySet(p, 1)].ready, sets[T!KeySet(p, 2)].ready
    PROVE  BothReady(p)
<1>1. /\ T!KeySet(p, 1) \in T!KeySets /\ T!KeySet(p, 2) \in T!KeySets
  BY KeySetHere DEF CompileInv
<1>2. \A s \in T!KeySets : sets[s].ready => sets[s].keys = AllKeys(s)
  BY DEF CompileInv, KeysAreKept
<1> QED
  BY <1>1, <1>2 DEF BothReady

LEMMA CheckJoinKeeps == ASSUME CompileInv, NEW p \in Publishers, T!CheckJoin(p) PROVE CompileInv'
<1>1. pc[p] = "keys" /\ item[p] <= Len(input.edges) /\ ~T!Ensuring(p) /\ CompileAt(p) /\ side[p] \in 1 .. 3
  BY DEF T!CheckJoin, CompileInv, CompileTypes
<1>2. T!Edge(p).join => side[p] = 3
  BY <1>1 DEF T!Ensuring
<1>3. filled[p] = None
  BY <1>1 DEF CompileAt
<1>4. T!Edge(p).join => sets[T!KeySet(p, 1)].ready /\ sets[T!KeySet(p, 2)].ready
  BY <1>1, <1>2 DEF CompileAt
<1>5. CASE T!Edge(p).join /\ ~T!Sound(p)
  <2>1. T!Refuse(p)
    BY <1>5 DEF T!CheckJoin
  <2>2. T!Faulty
    BY <1>1, <1>4, <1>5, ReadyIsAll, UnsoundIsFaulty DEF CompileInv
  <2> QED
    BY <2>1, <2>2, EndKeeps DEF T!Refuse, Ended
<1>6. CASE ~(T!Edge(p).join /\ ~T!Sound(p))
  <2>1. /\ pc' = [pc EXCEPT ![p] = "edges"]
        /\ UNCHANGED <<input, item, row, side, filled, runs, idle, drafts, sets, graph, lingered, collected>>
    BY <1>6 DEF T!CheckJoin, T!Goto, T!jobVars
  <2>2. CompileTypes' /\ pc'[p] = "edges"
    BY <2>1, InputStays DEF CompileInv, CompileTypes
  <2>3. \A q \in Publishers \ {p} : Aside(q)
    BY <2>1 DEF Aside, CompileInv, CompileTypes
  <2>4. CompileAt(p)'
    <3>1. T!Edge(p)' = T!Edge(p)
      BY <2>1 DEF T!Edge
    <3>2. T!KeySet(p, 1)' = T!KeySet(p, 1) /\ T!KeySet(p, 2)' = T!KeySet(p, 2)
      BY <2>1, <3>1 DEF T!KeySet, T!Node
    <3>3. Len(T!RowsOf(T!Edge(p).source)) \in Nat
      BY <1>1, KeySetHere, InputFacts DEF CompileInv, CompileTypes
    <3>4. T!RowsOf(T!Edge(p).source)' = T!RowsOf(T!Edge(p).source)
      BY <2>1, <3>1, InputStays
    <3>5. row[p] = 0
      BY <1>1 DEF CompileAt
    <3>6. row'[p] <= Len(T!RowsOf(T!Edge(p).source)')
      BY <2>1, <3>3, <3>4, <3>5
    <3> QED
      BY <1>1, <1>3, <1>4, <2>1, <2>2, <3>1, <3>2, <3>6 DEF CompileAt, Stages
  <2>5. (p \notin collected \/ pc[p] = "idle" => DraftIs(p))'
    <3> SUFFICES ASSUME p \notin collected PROVE DraftIs(p)'
      BY <2>1, <2>2
    <3>1. DraftIs(p)
      BY <2>1 DEF CompileInv
    <3> QED
      BY <1>1, <2>1, <2>2, <3>1, InputStays DEF DraftIs, Stages
  <2> QED
    BY <2>1, <2>2, <2>3, <2>4, <2>5, StepKeeps, SetsStay, GivenStays
<1> QED
  BY <1>5, <1>6

(* The edges of one more source row.                                        *)
LEMMA RowsEdges ==
    ASSUME CompileTypes, NEW p \in Publishers, item[p] <= Len(input.edges), T!Edge(p).join => BothReady(p),
           NEW k
    PROVE  {y \in T!Bound \X T!Bound :
              /\ y[1][1] = T!Edge(p).source /\ y[1][2] = k
              /\ y[2][1] = T!Edge(p).target /\ T!Joined(p, k, y[2][2])}
           = {y \in Pairs(item[p]) : y[1][2] = k}
<1> DEFINE e == T!Edge(p)
<1>1. ASSUME NEW y \in T!Bound \X T!Bound, y[1][1] = e.source, y[2][1] = e.target, y[1][2] = k
      PROVE  T!Joined(p, k, y[2][2]) <=> T!Linked(e, y[1], y[2])
  <2>1. y[1] \in T!Bound /\ y[2] \in T!Bound
    OBVIOUS
  <2>2. k \in DOMAIN T!RowsOf(e.source) /\ y[2][2] \in DOMAIN T!RowsOf(e.target)
    BY <1>1, <2>1, BoundNumbers DEF CompileTypes
  <2>3. T!Joined(p, k, y[2][2]) <=> IF e.join THEN T!SameKey(e, k, y[2][2]) ELSE k = y[2][2]
    BY <2>2, JoinedMeans
  <2> HIDE DEF e
  <2> QED
    BY <1>1, <2>3 DEF T!Linked
<1>2. e = input.edges[item[p]]
  BY DEF T!Edge
<1>3. \A y \in Pairs(item[p]) : y \in T!Bound \X T!Bound /\ y[1][1] = e.source /\ y[2][1] = e.target
  BY <1>2 DEF Pairs, T!Linked
<1> HIDE DEF e
<1>4. \A y \in T!Bound \X T!Bound : y \in Pairs(item[p]) <=> T!Linked(e, y[1], y[2])
  BY <1>2 DEF Pairs
<1> QED
  BY <1>1, <1>3, <1>4 DEF e

LEMMA WriteEdgeKeeps == ASSUME CompileInv, NEW p \in Publishers, T!WriteEdge(p) PROVE CompileInv'
<1> DEFINE k == row[p] + 1
           source == T!RowsOf(T!Edge(p).source)
           found == {y \in drafts[p].bindings \X drafts[p].bindings :
                       /\ y[1][1] = T!Edge(p).source /\ y[1][2] = k
                       /\ y[2][1] = T!Edge(p).target /\ T!Joined(p, k, y[2][2])}
           new == {<<item[p], y[1][3], y[2][3]>> : y \in found}
<1>1. /\ pc[p] = "edges" /\ k <= Len(source) /\ row[p] \in Nat /\ CompileAt(p)
      /\ drafts' = [drafts EXCEPT ![p].edges = @ \cup new]
      /\ row' = [row EXCEPT ![p] = k] /\ idle' = [idle EXCEPT ![p] = FALSE]
      /\ UNCHANGED <<input, pc, item, side, filled, runs, sets, graph, lingered, collected>>
  BY DEF T!WriteEdge, T!NextRow, T!Touched, CompileInv, CompileTypes
<1>2. item[p] <= Len(input.edges) /\ (T!Edge(p).join => BothReady(p))
  BY <1>1, ReadyIsAll DEF CompileAt
<1>3. /\ drafts'[p].nodes = drafts[p].nodes /\ drafts'[p].bindings = drafts[p].bindings
      /\ drafts'[p].edges = drafts[p].edges \cup new
      /\ DOMAIN drafts'[p] = {"bindings", "nodes", "edges"}
      /\ row'[p] = k /\ idle'[p] = FALSE
  <2> HIDE DEF new
  <2> QED
    BY <1>1 DEF CompileInv, CompileTypes
<1>4. \A q \in Publishers \ {p} : Aside(q)
  <2> HIDE DEF new
  <2> QED
    BY <1>1 DEF Aside, CompileInv, CompileTypes
<1>5. CompileTypes'
  <2>1. DOMAIN drafts' = Publishers /\ DOMAIN row' = Publishers /\ DOMAIN idle' = Publishers
    BY <1>1 DEF CompileInv, CompileTypes
  <2>2. \A q \in Publishers : row'[q] \in Nat /\ DOMAIN drafts'[q] = {"bindings", "nodes", "edges"}
    BY <1>1, <1>3, <1>4 DEF Aside, CompileInv, CompileTypes
  <2> QED
    BY <1>1, <2>1, <2>2, InputStays DEF CompileInv, CompileTypes
<1>6. CompileAt(p)'
  <2>1. T!Edge(p)' = T!Edge(p)
    BY <1>1 DEF T!Edge
  <2>2. T!KeySet(p, 1)' = T!KeySet(p, 1) /\ T!KeySet(p, 2)' = T!KeySet(p, 2)
    BY <1>1, <2>1 DEF T!KeySet, T!Node
  <2>3. T!RowsOf(T!Edge(p).source)' = source
    BY <1>1, <2>1, InputStays
  <2> HIDE DEF source
  <2> QED
    BY <1>1, <1>3, <2>1, <2>2, <2>3 DEF CompileAt, Stages
<1>8. NothingInvented(p)'
  <2>0. NothingInvented(p) /\ item[p] \in DOMAIN input.edges
    BY <1>2, KeySetHere DEF CompileInv
  <2>1. \A y \in found : y \in Pairs(item[p])
    <3>1. \A y \in found :
            /\ y \in T!Bound \X T!Bound /\ y[1][1] = T!Edge(p).source /\ y[1][2] = k
            /\ y[2][1] = T!Edge(p).target /\ T!Joined(p, k, y[2][2])
      BY <2>0 DEF NothingInvented
    <3> HIDE DEF found, k
    <3> QED
      BY <1>2, <3>1, RowsEdges DEF CompileInv
  <2>2. \A z \in new : z \in T!Links
    <3> HIDE DEF found
    <3> QED
      BY <2>0, <2>1, PairsOf DEF CompileInv, CompileTypes
  <2> HIDE DEF new
  <2> QED
    BY <1>1, <1>3, <2>0, <2>2, ToldStays DEF NothingInvented
<1>7. (p \notin collected \/ pc[p] = "idle" => DraftIs(p))'
  <2> SUFFICES ASSUME p \notin collected PROVE DraftIs(p)'
    BY <1>1
  <2>1. /\ runs[p] = "building" /\ drafts[p].bindings = T!Bound /\ drafts[p].nodes = T!Instances
        /\ drafts[p].edges = LinksBy(item[p], row[p])
    BY <1>1 DEF CompileInv, DraftIs, Stages
  <2>2. found = {y \in Pairs(item[p]) : y[1][2] = k}
    BY <1>2, <2>1, RowsEdges DEF CompileInv
  <2>3. drafts[p].edges \cup new = LinksBy(item[p], k)
    <3>1. item[p] \in DOMAIN input.edges
      BY <1>2, KeySetHere DEF CompileInv
    <3>2. new = {<<item[p], y[1][3], y[2][3]>> : y \in {x \in Pairs(item[p]) : x[1][2] = k}}
      BY <2>2
    <3>3. LinksBy(item[p], k) = LinksBy(item[p], row[p]) \cup
            {<<item[p], y[1][3], y[2][3]>> : y \in {x \in Pairs(item[p]) : x[1][2] = row[p] + 1}}
      BY <1>1, <3>1, LinksByRows DEF CompileInv, CompileTypes
    <3> QED
      BY <2>1, <3>2, <3>3
  <2>4. LinksBy(item[p], row[p])' = LinksBy(item[p], k)
    <3>1. \A i, j : LinksBy(i, j)' = LinksBy(i, j)
      BY <1>1, InputStays
    <3> QED
      BY <1>1, <1>3, <3>1
  <2>5. T!Bound' = T!Bound /\ T!Instances' = T!Instances
    BY <1>1, InputStays
  <2> HIDE DEF new
  <2> QED
    BY <1>1, <1>3, <2>1, <2>3, <2>4, <2>5 DEF DraftIs, Stages
<1> QED
  BY <1>1, <1>4, <1>5, <1>6, <1>7, <1>8, StepKeeps, SetsStay

LEMMA EndEdgeKeeps == ASSUME CompileInv, NEW p \in Publishers, T!EndEdge(p) PROVE CompileInv'
<1> DEFINE source == T!RowsOf(T!Edge(p).source)
<1>1. /\ pc[p] = "edges" /\ row[p] + 1 > Len(source) /\ row[p] \in Nat /\ item[p] \in Nat \ {0}
      /\ item[p] <= Len(input.edges) /\ filled[p] = None
      /\ item' = [item EXCEPT ![p] = @ + 1] /\ row' = [row EXCEPT ![p] = 0] /\ side' = [side EXCEPT ![p] = 1]
      /\ pc' = [pc EXCEPT ![p] = "keys"] /\ idle' = [idle EXCEPT ![p] = FALSE]
      /\ UNCHANGED <<input, filled, runs, drafts, sets, graph, lingered, collected>>
  BY DEF T!EndEdge, T!NextRow, T!Touched, T!Goto, CompileInv, CompileTypes, CompileAt
<1>2. item[p] \in DOMAIN input.edges /\ Len(source) \in Nat /\ Len(input.edges) \in Nat
      /\ source = T!RowsOf(input.edges[item[p]].source)
  BY <1>1, KeySetHere, InputFacts DEF CompileInv, CompileTypes
<1>3. /\ item'[p] = item[p] + 1 /\ row'[p] = 0 /\ side'[p] = 1 /\ pc'[p] = "keys" /\ idle'[p] = FALSE
      /\ filled'[p] = None
  BY <1>1 DEF CompileInv, CompileTypes
<1>4. \A q \in Publishers \ {p} : Aside(q)
  BY <1>1 DEF Aside, CompileInv, CompileTypes
<1>5. CompileTypes'
  <2>1. \A q \in Publishers : item'[q] \in Nat \ {0} /\ row'[q] \in Nat /\ side'[q] \in 1 .. 3
    BY <1>1, <1>3, <1>4 DEF Aside, CompileInv, CompileTypes
  <2> QED
    BY <1>1, <2>1, InputStays DEF CompileInv, CompileTypes
<1>6. CompileAt(p)'
  <2>1. item'[p] <= Len(input'.edges) + 1
    BY <1>1, <1>2, <1>3
  <2> QED
    BY <1>3, <2>1 DEF CompileAt, Stages
<1>7. (p \notin collected \/ pc[p] = "idle" => DraftIs(p))'
  <2> SUFFICES ASSUME p \notin collected PROVE DraftIs(p)'
    BY <1>1, <1>3
  <2>1. /\ runs[p] = "building" /\ drafts[p].bindings = T!Bound /\ drafts[p].nodes = T!Instances
        /\ drafts[p].edges = LinksBy(item[p], row[p])
    BY <1>1 DEF CompileInv, DraftIs, Stages
  <2>2. row[p] >= Len(source)
    BY <1>1, <1>2
  <2>3. LinksBy(item[p], row[p]) = LinksBy(item[p] + 1, 0)
    BY <1>1, <1>2, <2>2, LinksByRows DEF CompileInv, CompileTypes
  <2>4. LinksBy(item[p], row[p])' = LinksBy(item[p] + 1, 0)
    <3>1. \A i, j : LinksBy(i, j)' = LinksBy(i, j)
      BY <1>1, InputStays
    <3> QED
      BY <1>3, <3>1
  <2>5. T!Bound' = T!Bound /\ T!Instances' = T!Instances
    BY <1>1, InputStays
  <2> QED
    BY <1>1, <1>3, <2>1, <2>3, <2>4, <2>5 DEF DraftIs, Stages
<1> QED
  BY <1>1, <1>4, <1>5, <1>6, <1>7, StepKeeps, SetsStay, GivenStays

----
(* Publication.                                                             *)

LEMMA CopyKeeps ==
    ASSUME CompileInv, NEW p \in Publishers, T!CopyNodes(p) \/ T!CopyEdges(p) PROVE CompileInv'
<1>1. /\ UNCHANGED <<input, item, row, side, filled, runs, drafts, sets, lingered, collected>>
      /\ idle' = [idle EXCEPT ![p] = FALSE] /\ pc[p] \in {"keys", "read"}
      /\ \/ /\ pc[p] = "keys" /\ item[p] > Len(input.edges)
            /\ graph' = [graph EXCEPT ![p].nodes = drafts[p].nodes] /\ pc' = [pc EXCEPT ![p] = "read"]
         \/ /\ pc[p] = "read"
            /\ graph' = [graph EXCEPT ![p].edges = drafts[p].edges] /\ pc' = [pc EXCEPT ![p] = "copied"]
  BY DEF T!CopyNodes, T!CopyEdges, T!Goto, T!Touched, T!jobVars
<1>2. CompileTypes' /\ pc'[p] \in {"read", "copied"}
  BY <1>1, InputStays DEF CompileInv, CompileTypes
<1>3. \A q \in Publishers \ {p} : Aside(q)
  BY <1>1 DEF Aside, CompileInv, CompileTypes
<1>4. CompileAt(p)'
  BY <1>2 DEF CompileAt, Stages
<1>5. (p \notin collected \/ pc[p] = "idle" => DraftIs(p))'
  <2> SUFFICES ASSUME p \notin collected PROVE DraftIs(p)'
    BY <1>1, <1>2
  <2>1. DraftIs(p) /\ CompileAt(p)
    BY DEF CompileInv
  <2>2. drafts[p].edges = T!Links
    <3>1. CASE pc[p] = "keys"
      <4>1. item[p] = Len(input.edges) + 1 /\ row[p] = 0
        BY <1>1, <2>1, <3>1, InputFacts DEF CompileInv, CompileTypes, CompileAt
      <4> QED
        BY <2>1, <3>1, <4>1, LinksByRows DEF DraftIs, CompileInv, CompileTypes
    <3>2. CASE pc[p] = "read"
      BY <2>1, <3>2 DEF DraftIs
    <3> QED
      BY <1>1, <3>1, <3>2
  <2>3. /\ runs'[p] = "building" /\ idle'[p] = FALSE /\ drafts'[p].bindings = T!Bound
        /\ drafts'[p].nodes = T!Instances /\ drafts'[p].edges = T!Links
    BY <1>1, <2>1, <2>2 DEF DraftIs, Stages, CompileInv, CompileTypes
  <2>4. graph'[p].nodes = T!Instances /\ (pc'[p] = "copied" => graph'[p].edges = T!Links)
    BY <1>1, <2>1, <2>2 DEF DraftIs, Stages, CompileInv, CompileTypes
  <2>5. T!Bound' = T!Bound /\ T!Instances' = T!Instances /\ T!Links' = T!Links
    BY <1>1, InputStays
  <2> QED
    BY <1>2, <2>3, <2>4, <2>5 DEF DraftIs, Stages
<1>6. NothingInvented(p)'
  <2>1. NothingInvented(p)
    BY DEF CompileInv
  <2>2. /\ graph'[p].nodes \in {graph[p].nodes, drafts[p].nodes}
        /\ graph'[p].edges \in {graph[p].edges, drafts[p].edges}
    BY <1>1 DEF CompileInv, CompileTypes
  <2>3. Told(graph'[p].nodes) /\ graph'[p].edges \subseteq T!Links
    BY <2>1, <2>2 DEF NothingInvented
  <2> QED
    BY <1>1, <2>1, <2>3, ToldStays DEF NothingInvented
<1> QED
  BY <1>1, <1>2, <1>3, <1>4, <1>5, <1>6, StepKeeps, SetsStay

LEMMA PublishKeeps == ASSUME CompileInv, NEW p \in Publishers, T!Publish(p) PROVE CompileInv'
<1>1. /\ UNCHANGED <<input, item, row, side, filled, idle, drafts, sets, graph, lingered, collected>>
      /\ pc[p] = "copied" /\ T!Released(p)
      /\ pc' = [pc EXCEPT ![p] = "published"] \/ pc' = [pc EXCEPT ![p] = "stopped"]
  BY DEF T!Publish, T!Goto, T!jobVars
<1>2. CompileTypes' /\ pc'[p] \in {"published", "stopped"}
  BY <1>1, InputStays DEF CompileInv, CompileTypes, T!Released
<1>3. \A q \in Publishers \ {p} : Aside(q)
  BY <1>1 DEF Aside, CompileInv, CompileTypes, T!Released
<1>4. CompileAt(p)'
  BY <1>2 DEF CompileAt, Stages
<1>5. (p \notin collected \/ pc[p] = "idle" => DraftIs(p))'
  <2> SUFFICES ASSUME p \notin collected PROVE DraftIs(p)'
    BY <1>1, <1>2
  <2>1. graph[p].nodes = T!Instances /\ graph[p].edges = T!Links
    BY <1>1 DEF CompileInv, DraftIs
  <2> QED
    BY <1>1, <1>2, <2>1, InputStays DEF DraftIs, Stages
<1> QED
  BY <1>1, <1>2, <1>3, <1>4, <1>5, StepKeeps, SetsStay, GivenStays

----
LEMMA CompileInit == T!Init => CompileInv
<1> SUFFICES ASSUME T!Init PROVE CompileInv
  OBVIOUS
<1>1. CompileTypes
  BY DEF T!Init, T!Empty, CompileTypes
<1>2. KeysAreKept
  BY DEF T!Init, KeysAreKept
<1>3. ASSUME NEW p \in Publishers
      PROVE  CompileAt(p) /\ NothingInvented(p) /\ DraftIs(p)
  BY DEF T!Init, T!Empty, CompileAt, NothingInvented, Told, DraftIs, Stages
<1> QED
  BY <1>1, <1>2, <1>3 DEF CompileInv

LEMMA CompileNext == ASSUME CompileInv, [T!Next]_compileVars PROVE CompileInv'
<1>1. CASE UNCHANGED compileVars
  <2> USE <1>1 DEF compileVars
  <2>1. CompileTypes' /\ KeysGrow /\ KeysAreKept'
    BY InputStays, SetsStay DEF CompileInv, CompileTypes
  <2>2. \A q \in Publishers : Aside(q)
    BY DEF Aside
  <2> QED
    BY <2>1, <2>2, AsideKeeps DEF CompileInv
<1>2. ASSUME NEW p \in Publishers, T!Compile(p) PROVE CompileInv'
  BY <1>2, BeginKeeps, WriteNodeKeeps, EndNodeKeeps, EnsureKeeps, FillKeysKeeps, AnnounceKeeps,
     CheckJoinKeeps, WriteEdgeKeeps, EndEdgeKeeps, CopyKeeps, PublishKeeps DEF T!Compile
<1>3. ASSUME NEW p \in Publishers, T!Stop(p) \/ T!Crash(p) PROVE CompileInv'
  BY <1>3, EndKeeps DEF T!Stop, T!Crash, Ended
<1> QED
  BY <1>1, <1>2, <1>3, LingerKeeps, CollectKeeps DEF T!Next

(* A published graph is exactly what the template says of the rows, however *)
(* publishers that share key sets, collectors and crashes interleave, unless *)
(* its draft was collected while it compiled; it never holds what the rows  *)
(* do not say, and a refused template contradicts its rows                  *)
(* (staging/compile.py, keys.py).                                           *)
THEOREM CompilationStaysExact == MCSpec => []CompilationIsExact
<1>1. MCInit => CompileInv
  BY CompileInit DEF MCInit, NoCompilation
<1>2. CompileInv /\ [MCNext]_allVars => CompileInv'
  <2>1. [MCNext]_allVars => [T!Next]_compileVars
    BY DEF MCNext, allVars
  <2> QED
    BY <2>1, CompileNext
<1>3. CompileInv => CompilationIsExact
  <2>1. ASSUME CompileInv, NEW p \in Publishers, NEW x \in graph[p].nodes
        PROVE  \E i \in T!Instances : x[1] = i[1] /\ x[2] \subseteq i[2]
    <3>1. PICK b \in T!Bound : b[3] = x[1]
      BY <2>1 DEF CompileInv, NothingInvented, Told
    <3>2. <<b[3], FieldsBy(T!Bound, b[3])>> \in T!Instances
      BY AllNodes DEF NodesBy
    <3>3. x[2] \subseteq FieldsBy(T!Bound, x[1])
      BY <2>1 DEF CompileInv, NothingInvented, Told
    <3> QED
      BY <3>1, <3>2, <3>3
  <2> QED
    BY <2>1 DEF CompileInv, NothingInvented, CompileAt, DraftIs, CompilationIsExact, T!CompiledIsExact,
       T!RefusedForCause
<1> QED
  BY <1>1, <1>2, <1>3, PTL DEF MCSpec

----
(* The templates that are drafted and reviewed.                             *)

Less == {p \in Nat \X Nat : p[1] < p[2]}

LEMMA LessWF == IsWellFoundedOn(Less, Nat)
BY NatLessThanWellFounded DEF OpToRel, Less

LEMMA LeastNat ==
    ASSUME NEW numbers, numbers \subseteq Nat, numbers # {}
    PROVE  \E x \in numbers : \A y \in numbers : x <= y
<1>1. PICK x \in numbers : \A y \in numbers : ~(<<y, x>> \in Less)
  BY LessWF, WFMin
<1>2. ASSUME NEW a \in Nat, NEW b \in Nat, a < b PROVE <<a, b>> \in Less
  <2>1. <<a, b>>[1] = a /\ <<a, b>>[2] = b /\ <<a, b>> \in Nat \X Nat
    OBVIOUS
  <2> QED
    BY <1>2, <2>1 DEF Less
<1>3. ASSUME NEW y \in numbers PROVE x <= y
  <2>1. ~(y < x)
    BY <1>1, <1>2, <1>3
  <2> QED
    BY <2>1
<1> QED
  BY <1>3

----
(* Templates.                                                               *)

LEMMA TemplateSets ==
    /\ \A Q : A!Cardinality(Q) = Cardinality(Q)
    /\ \A Q : A!IsFiniteSet(Q) <=> IsFiniteSet(Q)
BY DEF A!Cardinality, Cardinality, A!IsFiniteSet, IsFiniteSet

LEMMA TemplateFacts ==
    /\ IsFiniteSet(A!TableIds) /\ IsFiniteSet(Proposals)
    /\ \A t \in A!TableIds :
        /\ IsFiniteSet(StagedTables[t].columns) /\ IsFiniteSet(StagedTables[t].fks)
        /\ StagedTables[t].keys \subseteq StagedTables[t].columns
        /\ \A o \in Outcomes[t] : IsFiniteSet(o.entities) /\ IsFiniteSet(o.edges)
<1>1. A!TemplateAssumption
  BY InputsAssumption
<1> QED
  BY <1>1, TemplateSets DEF A!TemplateAssumption

NodeOf(tpl, id) == CHOOSE n \in tpl.nodes : n.id = id
IdsOf(tpl) == {n.id : n \in tpl.nodes}
ColumnsOf(n) == {p[1] : p \in n.props}

NodeGood(n) ==
    /\ n.table \in A!TableIds /\ n.concept \in Concepts /\ n.keys \subseteq StagedTables[n.table].columns
    /\ Cardinality({p[2] : p \in n.props}) = Cardinality(n.props)
    /\ ColumnsOf(n) \subseteq StagedTables[n.table].columns

Scoped(tpl) == \A n, m \in tpl.nodes : m.scope = n.scope => m.concept = n.concept /\ Cardinality(m.keys) = Cardinality(n.keys)

EdgeGood(tpl, e) ==
    /\ {e.source, e.target} \subseteq IdsOf(tpl)
    /\ IF e.mode = "same_row" THEN NodeOf(tpl, e.source).table = NodeOf(tpl, e.target).table
       ELSE /\ e.left # <<>> /\ Len(e.left) = Len(e.right) /\ A!Distinct(e.left) /\ A!Distinct(e.right)
            /\ A!Rng(e.left) \subseteq StagedTables[NodeOf(tpl, e.source).table].columns
            /\ A!Rng(e.right) \subseteq StagedTables[NodeOf(tpl, e.target).table].columns

ByRows(tpl) ==
    /\ tpl.edges = {} /\ Cardinality({n.table : n \in tpl.nodes}) = Cardinality(tpl.nodes)
    /\ \A n \in tpl.nodes : n.keys = {} /\ n.scope = <<"row", n.table>>
                          /\ n.props = {<<c, c>> : c \in StagedTables[n.table].columns}

\* What validate_template asks, part by part.
LEMMA ValidMeans ==
    ASSUME NEW tpl
    PROVE  A!Valid(tpl) <=>
            /\ tpl.nodes # {} /\ Cardinality(IdsOf(tpl)) = Cardinality(tpl.nodes)
            /\ Cardinality({e.id : e \in tpl.edges}) = Cardinality(tpl.edges)
            /\ \A n \in tpl.nodes : NodeGood(n)
            /\ Scoped(tpl) /\ (\A e \in tpl.edges : EdgeGood(tpl, e))
            /\ (tpl.mode = "row_records" => ByRows(tpl))
<1>1. \A Q : A!Cardinality(Q) = Cardinality(Q)
  BY TemplateSets
<1> QED
  BY <1>1 DEF A!Valid, NodeOf, IdsOf, ColumnsOf, NodeGood, Scoped, EdgeGood, ByRows

\* As many identifiers as there are things, if and only if they differ.
LEMMA AsManyIds ==
    ASSUME NEW Q, IsFiniteSet(Q)
    PROVE  Cardinality({n.id : n \in Q}) = Cardinality(Q) <=> \A n, m \in Q : n.id = m.id => n = m
<1> DEFINE f == [n \in Q |-> n.id]
           ids == {n.id : n \in Q}
<1>1. f \in Surjection(Q, ids)
  BY DEF Surjection
<1>2. f \in Injection(Q, ids) <=> \A n, m \in Q : n.id = m.id => n = m
  BY DEF Injection, IsInjective
<1> QED
  BY <1>1, <1>2, FS_Surjection

LEMMA AsManyTables ==
    ASSUME NEW Q, IsFiniteSet(Q), \A n, m \in Q : n.table = m.table => n = m
    PROVE  Cardinality({n.table : n \in Q}) = Cardinality(Q)
<1> DEFINE f == [n \in Q |-> n.table]
           all == {n.table : n \in Q}
<1>1. f \in Surjection(Q, all)
  BY DEF Surjection
<1>2. f \in Injection(Q, all)
  BY DEF Injection, IsInjective
<1> QED
  BY <1>1, <1>2, FS_Surjection

\* Columns that keep their names.
Plain(C) == {<<c, c>> : c \in C}

LEMMA PlainNames ==
    ASSUME NEW C, IsFiniteSet(C)
    PROVE  /\ Cardinality({p[2] : p \in Plain(C)}) = Cardinality(Plain(C)) /\ {p[1] : p \in Plain(C)} = C
<1> DEFINE f == [c \in C |-> <<c, c>>]
<1>1. {p[2] : p \in Plain(C)} = C /\ {p[1] : p \in Plain(C)} = C
  <2>1. \A c \in C : <<c, c>> \in Plain(C) /\ <<c, c>>[1] = c /\ <<c, c>>[2] = c
    BY DEF Plain
  <2>2. \A p \in Plain(C) : p[1] \in C /\ p[2] \in C
    BY DEF Plain
  <2> QED
    BY <2>1, <2>2
<1>2. f \in Surjection(C, Plain(C)) /\ f \in Injection(C, Plain(C))
  BY DEF Surjection, Injection, IsInjective, Plain
<1>3. Cardinality(Plain(C)) = Cardinality(C)
  BY <1>2, FS_Surjection
<1> QED
  BY <1>1, <1>3

----
(* The draft.                                                               *)

GroupObjects(t, o) == A!GroupNodes(t, A!Groups(t, o))
GroupLinks(t, o) == A!GroupEdges(t, o, A!Groups(t, o))
Alone(t, o) == [nodes |-> GroupObjects(t, o), edges |-> GroupLinks(t, o), mode |-> "suggested"]
GoodGroups(t, o) == A!Groups(t, o) # {} /\ A!Valid(Alone(t, o))

TableNodes(maps, Q) == {A!TableNode(t, maps[t]) : t \in {u \in Q : A!Usable(maps[u])}}

\* A stage of the draft: some tables are shown as the groups found for them.
Staged(s, maps, found, D) ==
    /\ D \subseteq A!TableIds /\ \A t \in D : GoodGroups(t, found[t])
    /\ s.nodes = TableNodes(maps, A!TableIds \ D) \cup UNION {GroupObjects(t, found[t]) : t \in D}
    /\ s.suggested = UNION {GroupLinks(t, found[t]) : t \in D}

LEMMA GroupNodesAre ==
    ASSUME NEW t, NEW o, NEW n \in GroupObjects(t, o)
    PROVE  /\ n = [id |-> n.id, table |-> n.table, concept |-> n.concept, scope |-> n.scope, keys |-> n.keys, props |-> n.props]
           /\ n.table = t /\ n.scope = n.id /\ n.id[1] = t
           /\ n.id = <<t>> <=> Cardinality(A!Groups(t, o)) = 1
BY TemplateSets DEF GroupObjects, A!GroupNodes

LEMMA TableNodesAre ==
    ASSUME NEW maps, NEW Q, NEW n \in TableNodes(maps, Q), Q \subseteq A!TableIds
    PROVE  /\ n = [id |-> n.id, table |-> n.table, concept |-> n.concept, scope |-> n.scope, keys |-> n.keys, props |-> n.props]
           /\ n.table \in Q /\ n = A!TableNode(n.table, maps[n.table]) /\ n.scope = n.id /\ n.id = <<n.table>> /\ n.id[1] = n.table
           /\ NodeGood(n)
<1>1. PICK t \in Q : A!Usable(maps[t]) /\ n = A!TableNode(t, maps[t])
  BY DEF TableNodes
<1> DEFINE C == StagedTables[t].columns \ maps[t].ignored
<1>2. /\ n.table = t /\ n.id = <<t>> /\ n.scope = n.id /\ n.concept = maps[t].concept
      /\ n.keys = StagedTables[t].keys /\ n.props = Plain(C)
      /\ n = [id |-> n.id, table |-> n.table, concept |-> n.concept, scope |-> n.scope, keys |-> n.keys, props |-> n.props]
  BY <1>1 DEF A!TableNode, Plain
<1>3. IsFiniteSet(C)
  BY <1>1, TemplateFacts, FS_Subset
<1>4. NodeGood(n)
  <2>1. Cardinality({p[2] : p \in n.props}) = Cardinality(n.props) /\ ColumnsOf(n) = C
    <3> HIDE DEF C
    <3>1. Cardinality({p[2] : p \in Plain(C)}) = Cardinality(Plain(C)) /\ {p[1] : p \in Plain(C)} = C
      BY <1>3, PlainNames
    <3>2. n.props = Plain(C)
      BY <1>2
    <3> QED
      BY <3>1, <3>2 DEF ColumnsOf
  <2>2. n.concept \in Concepts
    BY <1>1, <1>2 DEF A!Usable
  <2> QED
    BY <1>1, <1>2, <2>1, <2>2, TemplateFacts DEF NodeGood
<1> QED
  BY <1>1, <1>2, <1>4

LEMMA SuggestKeeps ==
    ASSUME NEW s, NEW maps, NEW found, NEW D, Staged(s, maps, found, D), NEW t \in A!TableIds
    PROVE  \E F : Staged(A!Suggest(s, t, found[t]), maps, found, F)
<1> DEFINE others == {n \in s.nodes : n.table # t}
           next == [nodes |-> others \cup GroupObjects(t, found[t]), suggested |-> s.suggested \cup GroupLinks(t, found[t])]
<1>1. CASE A!Suggest(s, t, found[t]) = s
  BY <1>1
<1>2. CASE A!Suggest(s, t, found[t]) # s
  <2>1. A!Suggest(s, t, found[t]) = next /\ GoodGroups(t, found[t])
    BY <1>2 DEF A!Suggest, GroupObjects, GroupLinks, Alone, GoodGroups
  <2>2. D \subseteq A!TableIds
    BY DEF Staged
  <2>3. others = TableNodes(maps, A!TableIds \ (D \cup {t})) \cup UNION {GroupObjects(u, found[u]) : u \in D \ {t}}
    <3>1. \A n \in TableNodes(maps, A!TableIds \ D) : n.table # t <=> n \in TableNodes(maps, A!TableIds \ (D \cup {t}))
      <4> TAKE n \in TableNodes(maps, A!TableIds \ D)
      <4>1. n.table \in A!TableIds \ D /\ n = A!TableNode(n.table, maps[n.table])
        BY TableNodesAre
      <4>2. ASSUME n.table # t PROVE n \in TableNodes(maps, A!TableIds \ (D \cup {t}))
        <5>1. PICK u \in A!TableIds \ D : A!Usable(maps[u]) /\ n = A!TableNode(u, maps[u])
          BY DEF TableNodes
        <5>2. n.table = u
          BY <5>1 DEF A!TableNode
        <5> QED
          BY <4>2, <5>1, <5>2 DEF TableNodes
      <4>3. ASSUME n \in TableNodes(maps, A!TableIds \ (D \cup {t})) PROVE n.table # t
        BY <4>3, TableNodesAre
      <4> QED
        BY <4>2, <4>3
    <3>2. TableNodes(maps, A!TableIds \ (D \cup {t})) \subseteq TableNodes(maps, A!TableIds \ D)
      BY DEF TableNodes
    <3>3. \A u \in D : \A n \in GroupObjects(u, found[u]) : n.table = u
      BY GroupNodesAre
    <3>4. \A n \in others : n \in TableNodes(maps, A!TableIds \ (D \cup {t})) \/ \E u \in D \ {t} : n \in GroupObjects(u, found[u])
      BY <3>1, <3>3 DEF Staged
    <3>5. \A n \in TableNodes(maps, A!TableIds \ (D \cup {t})) : n \in others
      BY <3>1, <3>2 DEF Staged
    <3>6. \A u \in D \ {t} : \A n \in GroupObjects(u, found[u]) : n \in others
      BY <3>3 DEF Staged
    <3> HIDE DEF others
    <3> QED
      BY <3>4, <3>5, <3>6
  <2>4. Staged(next, maps, found, D \cup {t})
    <3>1. next.nodes = TableNodes(maps, A!TableIds \ (D \cup {t})) \cup UNION {GroupObjects(u, found[u]) : u \in D \cup {t}}
      <4>1. \A n : (\E u \in D \cup {t} : n \in GroupObjects(u, found[u])) <=> n \in GroupObjects(t, found[t]) \/ \E u \in D \ {t} : n \in GroupObjects(u, found[u])
        OBVIOUS
      <4>2. next.nodes = others \cup GroupObjects(t, found[t])
        OBVIOUS
      <4> HIDE DEF others, next
      <4> QED
        BY <2>3, <4>1, <4>2
    <3>2. next.suggested = UNION {GroupLinks(u, found[u]) : u \in D \cup {t}}
      BY DEF Staged
    <3> HIDE DEF next
    <3>3. \A u \in D \cup {t} : GoodGroups(u, found[u])
      BY <2>1 DEF Staged
    <3> QED
      BY <2>2, <3>1, <3>2, <3>3 DEF Staged
  <2> QED
    BY <2>1, <2>4
<1> QED
  BY <1>1, <1>2

Beginning(maps) ==
    [nodes |-> {A!TableNode(t, maps[t]) : t \in {u \in A!TableIds : A!Usable(maps[u])}}, suggested |-> {}]

Drafts(order, maps, found, m, g) ==
    g = [i \in 0 .. m |-> IF i = 0 THEN Beginning(maps) ELSE A!Suggest(g[i - 1], order[i], found[order[i]])]

LEMMA DraftsExist ==
    ASSUME NEW order, NEW maps, NEW found, NEW m \in Nat PROVE \E g : Drafts(order, maps, found, m, g)
<1> DEFINE stuck == {k \in Nat : ~ \E g : Drafts(order, maps, found, k, g)}
<1> SUFFICES ASSUME stuck # {} PROVE FALSE
  OBVIOUS
<1>1. PICK k \in stuck : \A j \in stuck : k <= j
  BY LeastNat
<1>2. CASE k = 0
  <2> DEFINE g == [j \in 0 .. 0 |-> Beginning(maps)]
  <2>1. g = [j \in 0 .. 0 |-> IF j = 0 THEN Beginning(maps) ELSE A!Suggest(g[j - 1], order[j], found[order[j]])]
    OBVIOUS
  <2> QED
    BY <1>2, <2>1 DEF Drafts
<1>3. CASE k # 0
  <2>1. k - 1 \in Nat /\ k - 1 < k
    BY <1>3
  <2>2. PICK g : Drafts(order, maps, found, k - 1, g)
    BY <1>1, <2>1
  <2> DEFINE step == A!Suggest(g[k - 1], order[k], found[order[k]])
             h == [j \in 0 .. k |-> IF j = k THEN step ELSE g[j]]
  <2>3. ASSUME NEW j \in 0 .. k
        PROVE  h[j] = IF j = 0 THEN Beginning(maps) ELSE A!Suggest(h[j - 1], order[j], found[order[j]])
    <3>1. CASE j = k
      <4>1. h[j - 1] = g[j - 1] /\ h[j] = step
        BY <1>3, <3>1
      <4> QED
        BY <1>3, <3>1, <4>1
    <3>2. CASE j # k
      <4>1. j \in 0 .. (k - 1) /\ h[j] = g[j] /\ (j # 0 => h[j - 1] = g[j - 1])
        BY <3>2
      <4>2. g[j] = IF j = 0 THEN Beginning(maps) ELSE A!Suggest(g[j - 1], order[j], found[order[j]])
        BY <2>2, <4>1 DEF Drafts
      <4> QED
        BY <4>1, <4>2
    <3> QED
      BY <3>1, <3>2
  <2>4. h = [j \in 0 .. k |-> h[j]]
    OBVIOUS
  <2> HIDE DEF h
  <2>5. h = [j \in 0 .. k |-> IF j = 0 THEN Beginning(maps) ELSE A!Suggest(h[j - 1], order[j], found[order[j]])]
    BY <2>3, <2>4
  <2>6. Drafts(order, maps, found, k, h)
    BY <2>5 DEF Drafts
  <2> QED
    BY <1>1, <2>6
<1> QED
  BY <1>2, <1>3

LEMMA DraftIsStaged ==
    ASSUME NEW order, Len(order) \in Nat, \A i \in 1 .. Len(order) : order[i] \in A!TableIds,
           NEW maps, NEW relations, NEW found
    PROVE  \E end, D : /\ Staged(end, maps, found, D)
                       /\ A!Draft(order, maps, relations, found) =
                            [nodes |-> end.nodes, edges |-> A!JoinEdges(relations, end.nodes) \cup end.suggested,
                             confirmed |-> FALSE, mode |-> "suggested"]
<1> DEFINE upTo == CHOOSE g : Drafts(order, maps, found, Len(order), g)
           end == upTo[Len(order)]
           wrong == {i \in 0 .. Len(order) : ~ \E D : Staged(upTo[i], maps, found, D)}
<1>1. A!Draft(order, maps, relations, found) =
        [nodes |-> end.nodes, edges |-> A!JoinEdges(relations, end.nodes) \cup end.suggested,
         confirmed |-> FALSE, mode |-> "suggested"]
  BY DEF A!Draft, Drafts, Beginning
<1>2. Drafts(order, maps, found, Len(order), upTo)
  BY DraftsExist
<1> HIDE DEF upTo
<1>3. wrong = {}
  <2> SUFFICES ASSUME wrong # {} PROVE FALSE
    OBVIOUS
  <2>1. wrong \subseteq Nat
    OBVIOUS
  <2> HIDE DEF wrong
  <2>2. PICK k \in wrong : \A j \in wrong : k <= j
    BY <2>1, LeastNat
  <2>3. k \in 0 .. Len(order) /\ ~ \E D : Staged(upTo[k], maps, found, D)
    BY <2>2 DEF wrong
  <2>4. upTo[k] = IF k = 0 THEN Beginning(maps) ELSE A!Suggest(upTo[k - 1], order[k], found[order[k]])
    BY <1>2, <2>3 DEF Drafts
  <2>5. CASE k = 0
    <3>1. Staged(Beginning(maps), maps, found, {})
      BY DEF Staged, Beginning, TableNodes
    <3> QED
      BY <2>3, <2>4, <2>5, <3>1
  <2>6. CASE k # 0
    <3>1. k - 1 \in 0 .. Len(order) /\ ~(k <= k - 1) /\ k \in 1 .. Len(order)
      BY <2>3, <2>6
    <3>2. k - 1 \notin wrong
      BY <2>2, <3>1
    <3>3. PICK D : Staged(upTo[k - 1], maps, found, D)
      BY <3>1, <3>2 DEF wrong
    <3>4. order[k] \in A!TableIds
      BY <3>1
    <3> QED
      BY <2>3, <2>4, <2>6, <3>3, <3>4, SuggestKeeps
  <2> QED
    BY <2>5, <2>6
<1>4. \E D : Staged(end, maps, found, D)
  BY <1>3
<1> QED
  BY <1>1, <1>4

\* Groups are few, and so are the objects and relations drafted from them.
LEMMA GroupsAreFew ==
    ASSUME NEW t, NEW o, IsFiniteSet(o.entities), IsFiniteSet(o.edges)
    PROVE  IsFiniteSet(A!Groups(t, o)) /\ IsFiniteSet(GroupObjects(t, o)) /\ IsFiniteSet(GroupLinks(t, o))
<1> DEFINE kept == {e \in o.entities : e.concept # None}
           missing == StagedTables[t].columns \ UNION {{p[1] : p \in e.props} : e \in kept}
           owner(e) == e.primary /\ kept = o.entities
           grow(e) == [e EXCEPT !.props = IF owner(e) THEN @ \cup {<<c, c>> : c \in missing} ELSE @]
           grown == {grow(e) : e \in kept}
<1>1. A!Groups(t, o) \subseteq grown
  BY DEF A!Groups
<1>2. IsFiniteSet(grown)
  <2> DEFINE f == [e \in kept |-> grow(e)]
  <2>1. f \in Surjection(kept, grown)
    BY DEF Surjection
  <2>2. IsFiniteSet(kept)
    BY FS_Subset
  <2> HIDE DEF f, kept, grown
  <2> QED
    BY <2>1, <2>2, FS_Surjection
<1>3. IsFiniteSet(A!Groups(t, o))
  <2> HIDE DEF grown
  <2> QED
    BY <1>1, <1>2, FS_Subset
<1> DEFINE groups == A!Groups(t, o)
<1>4. IsFiniteSet(GroupObjects(t, o))
  <2> DEFINE single == {[id |-> <<t>>, table |-> t, concept |-> g.concept, scope |-> <<t>>, keys |-> StagedTables[t].keys,
                         props |-> {<<c, c>> : c \in StagedTables[t].columns}] : g \in groups}
             several == {[id |-> <<t, g.id>>, table |-> t, concept |-> g.concept, scope |-> <<t, g.id>>,
                          keys |-> g.keys, props |-> g.props] : g \in groups}
  <2>1. GroupObjects(t, o) = single \/ GroupObjects(t, o) = several
    BY DEF GroupObjects, A!GroupNodes
  <2>2. IsFiniteSet(single)
    <3> DEFINE f == [g \in groups |-> [id |-> <<t>>, table |-> t, concept |-> g.concept, scope |-> <<t>>,
                        keys |-> StagedTables[t].keys, props |-> {<<c, c>> : c \in StagedTables[t].columns}]]
    <3>1. f \in Surjection(groups, single)
      BY DEF Surjection
    <3> HIDE DEF f, groups, single
    <3> QED
      BY <1>3, <3>1, FS_Surjection DEF groups
  <2>3. IsFiniteSet(several)
    <3> DEFINE f == [g \in groups |-> [id |-> <<t, g.id>>, table |-> t, concept |-> g.concept, scope |-> <<t, g.id>>,
                        keys |-> g.keys, props |-> g.props]]
    <3>1. f \in Surjection(groups, several)
      BY DEF Surjection
    <3> HIDE DEF f, groups, several
    <3> QED
      BY <1>3, <3>1, FS_Surjection DEF groups
  <2> QED
    BY <2>1, <2>2, <2>3
<1>5. IsFiniteSet(GroupLinks(t, o))
  <2> DEFINE local(e) == IF A!Cardinality(groups) = 1 THEN <<t>> ELSE <<t, e>>
             ids == {g.id : g \in groups}
             inner == {y \in o.edges : {y[1], y[2]} \subseteq ids}
             f == [x \in inner |-> [id |-> <<t, x>>, source |-> local(x[1]), target |-> local(x[2]), mode |-> "same_row",
                                    left |-> <<>>, right |-> <<>>]]
  <2>1. GroupLinks(t, o) = {f[x] : x \in inner}
    BY DEF GroupLinks, A!GroupEdges
  <2>2. IsFiniteSet(inner)
    BY FS_Subset
  <2>3. f \in Surjection(inner, {f[x] : x \in inner})
    BY DEF Surjection
  <2> HIDE DEF f, inner
  <2> QED
    BY <2>1, <2>2, <2>3, FS_Surjection
<1> QED
  BY <1>3, <1>4, <1>5

\* A node of the draft is of one table, and named for it.
LEMMA StagedNodes ==
    ASSUME NEW s, NEW maps, NEW found, NEW D, Staged(s, maps, found, D), NEW n \in s.nodes
    PROVE  /\ n = [id |-> n.id, table |-> n.table, concept |-> n.concept, scope |-> n.scope, keys |-> n.keys, props |-> n.props]
           /\ n.table \in A!TableIds /\ n.scope = n.id /\ n.id[1] = n.table /\ NodeGood(n)
           /\ IF n.table \in D THEN n \in GroupObjects(n.table, found[n.table])
              ELSE n = A!TableNode(n.table, maps[n.table]) /\ n.id = <<n.table>>
<1>1. D \subseteq A!TableIds
  BY DEF Staged
<1>2. CASE n \in TableNodes(maps, A!TableIds \ D)
  <2>1. A!TableIds \ D \subseteq A!TableIds
    OBVIOUS
  <2> QED
    BY <1>2, <2>1, TableNodesAre
<1>3. ASSUME NEW t \in D, n \in GroupObjects(t, found[t])
      PROVE  /\ n = [id |-> n.id, table |-> n.table, concept |-> n.concept, scope |-> n.scope, keys |-> n.keys, props |-> n.props]
             /\ n.table = t /\ n.scope = n.id /\ n.id[1] = n.table /\ NodeGood(n)
  <2>1. A!Valid(Alone(t, found[t]))
    BY DEF Staged, GoodGroups
  <2>2. n \in Alone(t, found[t]).nodes
    BY <1>3 DEF Alone
  <2>3. NodeGood(n)
    BY <2>1, <2>2, ValidMeans
  <2> QED
    BY <1>3, <2>3, GroupNodesAre
<1> QED
  BY <1>1, <1>2, <1>3 DEF Staged

LEMMA StagedDiffer ==
    ASSUME NEW s, NEW maps, NEW found, NEW D, Staged(s, maps, found, D),
           \A t \in A!TableIds : found[t] \in Outcomes[t]
    PROVE  IsFiniteSet(s.nodes) /\ A!OwnIdentities(s)
<1>1. D \subseteq A!TableIds /\ IsFiniteSet(D)
  BY TemplateFacts, FS_Subset DEF Staged
<1>2. \A t \in D : IsFiniteSet(GroupObjects(t, found[t]))
  BY <1>1, TemplateFacts, GroupsAreFew
<1>3. IsFiniteSet(s.nodes)
  <2> DEFINE few == {u \in A!TableIds \ D : A!Usable(maps[u])}
             f == [t \in few |-> A!TableNode(t, maps[t])]
             g == [t \in D |-> GroupObjects(t, found[t])]
             parts == {GroupObjects(t, found[t]) : t \in D}
  <2>1. IsFiniteSet(few)
    BY TemplateFacts, FS_Subset
  <2>2. f \in Surjection(few, TableNodes(maps, A!TableIds \ D))
    BY DEF Surjection, TableNodes
  <2>3. IsFiniteSet(TableNodes(maps, A!TableIds \ D))
    <3> HIDE DEF f, few
    <3> QED
      BY <2>1, <2>2, FS_Surjection
  <2>4. g \in Surjection(D, parts)
    BY DEF Surjection
  <2>5. \A part1 \in parts : IsFiniteSet(part1)
    BY <1>2
  <2>6. IsFiniteSet(parts)
    <3> HIDE DEF g, parts
    <3> QED
      BY <1>1, <2>4, FS_Surjection
  <2>7. IsFiniteSet(UNION parts)
    <3> HIDE DEF parts
    <3> QED
      BY <2>5, <2>6, FS_UNION
  <2> DEFINE plain == TableNodes(maps, A!TableIds \ D)
  <2>8. s.nodes = plain \cup UNION parts
    BY DEF Staged
  <2>9. IsFiniteSet(plain)
    BY <2>3
  <2> HIDE DEF plain, parts
  <2> QED
    BY <2>7, <2>8, <2>9, FS_Union
<1>4. ASSUME NEW n \in s.nodes, NEW m \in s.nodes, n.id = m.id PROVE n = m
  <2>1. n.table = m.table
    BY <1>4, StagedNodes
  <2> DEFINE t == n.table
  <2>2. CASE t \in D
    <3>1. n \in Alone(t, found[t]).nodes /\ m \in Alone(t, found[t]).nodes /\ Alone(t, found[t]).nodes = GroupObjects(t, found[t])
      BY <2>1, <2>2, StagedNodes DEF Alone
    <3>2. A!Valid(Alone(t, found[t]))
      BY <2>2 DEF Staged, GoodGroups
    <3>3. Cardinality(IdsOf(Alone(t, found[t]))) = Cardinality(Alone(t, found[t]).nodes)
      BY <3>2, ValidMeans
    <3>4. \A x, y \in GroupObjects(t, found[t]) : x.id = y.id => x = y
      <4>1. Cardinality({x.id : x \in GroupObjects(t, found[t])}) = Cardinality(GroupObjects(t, found[t]))
        BY <3>1, <3>3 DEF IdsOf
      <4> QED
        BY <1>2, <2>2, <4>1, AsManyIds
    <3> QED
      BY <1>4, <3>1, <3>4
  <2>3. CASE t \notin D
    BY <2>1, <2>3, StagedNodes
  <2> QED
    BY <2>2, <2>3
<1>5. \A n \in s.nodes : n.scope = n.id
  BY StagedNodes
<1> QED
  BY <1>3, <1>4, <1>5 DEF A!OwnIdentities

----
(* The relations of the draft.                                              *)

\* Joins a version lists: from the schema or proposed, and exact if ready.
Exact(r) == r.ready => A!Unique(r.cand.target, r.cand.right) /\ A!MatchedRows(r.cand) # {}
RelationsOk(relations) == \A r \in relations : r.cand \in A!Declared \cup Proposals /\ Exact(r)

LEMMA RelationsAreExact ==
    ASSUME NEW maps, NEW proposed, proposed \subseteq A!Declared \cup Proposals
    PROVE  RelationsOk(A!MapRelations(maps, proposed))
<1> SUFFICES ASSUME NEW r \in A!MapRelations(maps, proposed)
             PROVE  r.cand \in A!Declared \cup Proposals /\ Exact(r)
  BY DEF RelationsOk
<1>1. PICK c \in A!Declared \cup proposed :
        r = [cand |-> c,
             ready |-> A!Joinable(c, maps) /\ A!Unique(c.target, c.right) /\ A!MatchedRows(c) # {}]
  BY DEF A!MapRelations
<1>2. r.cand = c /\ (r.ready => A!Unique(c.target, c.right) /\ A!MatchedRows(c) # {})
  BY <1>1
<1> QED
  BY <1>2 DEF Exact

LEMMA DeclaredAreFew == IsFiniteSet(A!Declared)
<1> DEFINE fks(t) == {[source |-> t, target |-> A!FkTarget(t, fk), left |-> fk.left, right |-> fk.right] :
                        fk \in StagedTables[t].fks}
           parts == {fks(t) : t \in A!TableIds}
           g == [t \in A!TableIds |-> fks(t)]
<1>1. A!Declared = UNION parts
  BY DEF A!Declared
<1>2. ASSUME NEW t \in A!TableIds PROVE IsFiniteSet(fks(t))
  <2> DEFINE f == [fk \in StagedTables[t].fks |->
                    [source |-> t, target |-> A!FkTarget(t, fk), left |-> fk.left, right |-> fk.right]]
             all == StagedTables[t].fks
  <2>1. f \in Surjection(all, fks(t))
    BY DEF Surjection
  <2>2. IsFiniteSet(all)
    BY TemplateFacts
  <2> HIDE DEF f, fks, all
  <2> QED
    BY <2>1, <2>2, FS_Surjection
<1>3. g \in Surjection(A!TableIds, parts)
  BY DEF Surjection
<1>4. \A p \in parts : IsFiniteSet(p)
  BY <1>2
<1>5. IsFiniteSet(parts)
  <2> HIDE DEF g, parts
  <2> QED
    BY <1>3, TemplateFacts, FS_Surjection
<1> QED
  <2> HIDE DEF parts
  <2> QED
    BY <1>1, <1>4, <1>5, FS_UNION

\* The relations that are ready join what they name.
LEMMA JoinsJoin ==
    ASSUME NEW maps, NEW proposed, NEW r \in A!MapRelations(maps, proposed), r.ready
    PROVE  /\ r.cand \in A!Declared \cup proposed /\ r.cand.target \in A!TableIds
           /\ r.cand.left # <<>> /\ Len(r.cand.left) = Len(r.cand.right)
           /\ A!Distinct(r.cand.left) /\ A!Distinct(r.cand.right)
           /\ A!Rng(r.cand.left) \subseteq StagedTables[r.cand.source].columns
           /\ A!Rng(r.cand.right) \subseteq StagedTables[r.cand.target].columns
<1>1. PICK c \in A!Declared \cup proposed :
        r = [cand |-> c,
             ready |-> A!Joinable(c, maps) /\ A!Unique(c.target, c.right) /\ A!MatchedRows(c) # {}]
  BY DEF A!MapRelations
<1>2. r.cand = c /\ A!Joinable(c, maps)
  BY <1>1
<1> QED
  BY <1>2 DEF A!Joinable

LEMMA JoinEdgesAreFew ==
    ASSUME NEW maps, NEW proposed \in SUBSET Proposals, NEW nodes
    PROVE  IsFiniteSet(A!JoinEdges(A!MapRelations(maps, proposed), nodes))
<1> DEFINE all == A!Declared \cup proposed
           f == [c \in all |-> A!JoinEdge(c)]
           edges == {f[c] : c \in all}
<1>1. IsFiniteSet(all)
  <2>1. IsFiniteSet(proposed)
    BY TemplateFacts, FS_Subset
  <2> QED
    BY <2>1, DeclaredAreFew, FS_Union
<1>2. f \in Surjection(all, edges)
  BY DEF Surjection
<1>3. A!JoinEdges(A!MapRelations(maps, proposed), nodes) \subseteq edges
  BY DEF A!JoinEdges, A!MapRelations
<1> HIDE DEF f, all, edges
<1>4. IsFiniteSet(edges)
  BY <1>1, <1>2, FS_Surjection
<1> QED
  BY <1>3, <1>4, FS_Subset

\* Within a table, a drafted relation is named for what it relates.
LEMMA GroupEdgesAre ==
    ASSUME NEW t, NEW o, NEW e \in GroupLinks(t, o)
    PROVE  /\ e.mode = "same_row" /\ e.source[1] = t /\ e.target[1] = t
           /\ \E x : e.id = <<t, x>>
           /\ \A d \in GroupLinks(t, o) : d.id = e.id => d = e
<1> DEFINE groups == A!Groups(t, o)
           local(g) == IF A!Cardinality(groups) = 1 THEN <<t>> ELSE <<t, g>>
           ids == {g.id : g \in groups}
           inner == {y \in o.edges : {y[1], y[2]} \subseteq ids}
           edge(x) == [id |-> <<t, x>>, source |-> local(x[1]), target |-> local(x[2]), mode |-> "same_row",
                       left |-> <<>>, right |-> <<>>]
<1>1. GroupLinks(t, o) = {edge(x) : x \in inner}
  BY DEF GroupLinks, A!GroupEdges
<1>2. PICK x \in inner : e = edge(x)
  BY <1>1
<1>3. ASSUME NEW d \in GroupLinks(t, o), d.id = e.id PROVE d = e
  <2>1. PICK y \in inner : d = edge(y)
    BY <1>1, <1>3
  <2>2. <<t, y>> = <<t, x>>
    BY <1>2, <1>3, <2>1
  <2>3. y = x
    BY <2>2
  <2> QED
    BY <1>2, <2>1, <2>3
<1>4. e.mode = "same_row" /\ e.id = <<t, x>> /\ e.source = local(x[1]) /\ e.target = local(x[2])
  BY <1>2
<1> QED
  BY <1>3, <1>4

----
(* The draft is a template.                                                 *)

\* What every version's template is, before its content is looked at.
Parts(tpl) ==
    /\ tpl = [nodes |-> tpl.nodes, edges |-> tpl.edges, confirmed |-> tpl.confirmed, mode |-> tpl.mode]
    /\ IsFiniteSet(tpl.nodes) /\ Cardinality({e.id : e \in tpl.edges}) = Cardinality(tpl.edges)
    /\ \A n \in tpl.nodes :
        /\ n = [id |-> n.id, table |-> n.table, concept |-> n.concept, scope |-> n.scope, keys |-> n.keys, props |-> n.props]
        /\ NodeGood(n)
        /\ \A m \in tpl.nodes : n.id = m.id /\ n.table = m.table => n = m
    /\ \A e \in tpl.edges : {e.source, e.target} \subseteq IdsOf(tpl)
    /\ (\A n, m \in tpl.nodes : n.id = m.id => n = m) => \A e \in tpl.edges : EdgeGood(tpl, e)

\* A table that is shown as several objects has every column in one of them.
ColumnsKept(tpl) ==
    \A t \in A!TableIds :
        LET nodes == {n \in tpl.nodes : n.table = t}
        IN  nodes # {} /\ (\A n \in nodes : n.id # <<t>>) => UNION {{p[1] : p \in n.props} : n \in nodes} = StagedTables[t].columns

LEMMA OwnIsValid ==
    ASSUME NEW tpl, Parts(tpl), tpl.nodes # {}, tpl.mode # "row_records", A!OwnIdentities(tpl)
    PROVE  A!Valid(tpl)
<1>1. \A n, m \in tpl.nodes : n.id = m.id => n = m
  BY DEF A!OwnIdentities
<1>2. Cardinality(IdsOf(tpl)) = Cardinality(tpl.nodes)
  BY <1>1, AsManyIds DEF Parts, IdsOf
<1>3. Scoped(tpl)
  BY DEF A!OwnIdentities, Scoped
<1>4. \A e \in tpl.edges : EdgeGood(tpl, e)
  BY <1>1 DEF Parts
<1>5. /\ Cardinality({e.id : e \in tpl.edges}) = Cardinality(tpl.edges)
      /\ \A n \in tpl.nodes : NodeGood(n)
  BY DEF Parts
<1> QED
  BY <1>2, <1>3, <1>4, <1>5, ValidMeans

LEMMA NodeIsThere ==
    ASSUME NEW tpl, NEW id \in IdsOf(tpl)
    PROVE  NodeOf(tpl, id) \in tpl.nodes /\ NodeOf(tpl, id).id = id
BY DEF NodeOf, IdsOf

DraftOf(s, maps, proposed) ==
    [nodes |-> s.nodes, edges |-> A!JoinEdges(A!MapRelations(maps, proposed), s.nodes) \cup s.suggested,
     confirmed |-> FALSE, mode |-> "suggested"]

LEMMA DraftEdges ==
    ASSUME NEW s, NEW maps, NEW found, NEW D, Staged(s, maps, found, D),
           \A t \in A!TableIds : found[t] \in Outcomes[t], NEW proposed \in SUBSET Proposals
    PROVE  /\ Cardinality({e.id : e \in DraftOf(s, maps, proposed).edges}) = Cardinality(DraftOf(s, maps, proposed).edges)
           /\ \A e \in DraftOf(s, maps, proposed).edges : EdgeGood(DraftOf(s, maps, proposed), e)
<1> DEFINE relations == A!MapRelations(maps, proposed)
           tpl == DraftOf(s, maps, proposed)
           joins == A!JoinEdges(relations, s.nodes)
           parts == {GroupLinks(t, found[t]) : t \in D}
<1>1. tpl.nodes = s.nodes /\ tpl.edges = joins \cup UNION parts
  BY DEF DraftOf, Staged
<1>2. D \subseteq A!TableIds /\ IsFiniteSet(D)
  BY TemplateFacts, FS_Subset DEF Staged
<1>3. IsFiniteSet(joins)
  BY JoinEdgesAreFew
<1>4. IsFiniteSet(UNION parts)
  <2> DEFINE g == [t \in D |-> GroupLinks(t, found[t])]
  <2>1. g \in Surjection(D, parts)
    BY DEF Surjection
  <2>2. \A part1 \in parts : IsFiniteSet(part1)
    BY <1>2, TemplateFacts, GroupsAreFew
  <2> HIDE DEF g, parts
  <2>3. IsFiniteSet(parts)
    BY <1>2, <2>1, FS_Surjection
  <2> QED
    BY <2>2, <2>3, FS_UNION
<1>5. IsFiniteSet(tpl.edges)
  <2> DEFINE local == UNION parts
  <2>1. tpl.edges = joins \cup local /\ IsFiniteSet(joins) /\ IsFiniteSet(local)
    BY <1>1, <1>3, <1>4
  <2> HIDE DEF tpl, joins, parts, local
  <2> QED
    BY <2>1, FS_Union
<1>6. ASSUME NEW e \in joins
      PROVE  \E c : /\ e = A!JoinEdge(c) /\ {<<c.source>>, <<c.target>>} \subseteq IdsOf(s)
                    /\ c.left # <<>> /\ Len(c.left) = Len(c.right) /\ A!Distinct(c.left) /\ A!Distinct(c.right)
                    /\ A!Rng(c.left) \subseteq StagedTables[c.source].columns
                    /\ A!Rng(c.right) \subseteq StagedTables[c.target].columns
  <2>1. PICK r \in relations : /\ r.ready /\ e = A!JoinEdge(r.cand)
                               /\ {<<r.cand.source>>, <<r.cand.target>>} \subseteq IdsOf(s)
    BY <1>6 DEF A!JoinEdges, IdsOf
  <2> QED
    BY <2>1, JoinsJoin
<1>7. ASSUME NEW e \in UNION parts PROVE \E t \in D : e \in GroupLinks(t, found[t])
  OBVIOUS
<1> HIDE DEF joins, parts, tpl
<1>8. ASSUME NEW d \in tpl.edges, NEW e \in tpl.edges, d.id = e.id PROVE d = e
  <2>1. CASE d \in joins /\ e \in joins
    <3>1. PICK b : d = A!JoinEdge(b)
      BY <1>6, <2>1
    <3>2. PICK c : e = A!JoinEdge(c)
      BY <1>6, <2>1
    <3>3. d.id = <<b>> /\ e.id = <<c>>
      BY <3>1, <3>2 DEF A!JoinEdge
    <3>4. <<b>>[1] = b /\ <<c>>[1] = c
      OBVIOUS
    <3>5. b = c
      BY <1>8, <3>3, <3>4
    <3> QED
      BY <3>1, <3>2, <3>5
  <2>2. ASSUME NEW x \in joins, NEW y \in UNION parts PROVE x.id # y.id
    <3>1. PICK c : x = A!JoinEdge(c)
      BY <1>6
    <3>2. PICK t \in D : y \in GroupLinks(t, found[t])
      BY <1>7
    <3>3. PICK z : y.id = <<t, z>>
      BY <3>2, GroupEdgesAre
    <3>4. x.id = <<c>>
      BY <3>1 DEF A!JoinEdge
    <3>5. Len(<<c>>) = 1 /\ Len(<<t, z>>) = 2
      OBVIOUS
    <3> QED
      BY <3>3, <3>4, <3>5
  <2>3. CASE d \in UNION parts /\ e \in UNION parts
    <3>1. PICK t \in D : d \in GroupLinks(t, found[t])
      BY <1>7, <2>3
    <3>2. PICK u \in D : e \in GroupLinks(u, found[u])
      BY <1>7, <2>3
    <3>3. PICK y : d.id = <<t, y>>
      BY <3>1, GroupEdgesAre
    <3>4. PICK z : e.id = <<u, z>>
      BY <3>2, GroupEdgesAre
    <3>5. <<t, y>>[1] = t /\ <<u, z>>[1] = u
      OBVIOUS
    <3>6. t = u
      BY <1>8, <3>3, <3>4, <3>5
    <3> QED
      BY <1>8, <3>1, <3>2, <3>6, GroupEdgesAre
  <2> QED
    BY <1>1, <1>8, <2>1, <2>2, <2>3
<1>9. ASSUME NEW id \in IdsOf(tpl) PROVE NodeOf(tpl, id).table = id[1]
  <2>1. NodeOf(tpl, id) \in s.nodes /\ NodeOf(tpl, id).id = id
    BY <1>1, NodeIsThere
  <2> QED
    BY <2>1, StagedNodes
<1>10. IdsOf(tpl) = IdsOf(s)
  BY <1>1 DEF IdsOf
<1>11. ASSUME NEW e \in joins PROVE EdgeGood(tpl, e)
  <2>1. PICK c : /\ e = A!JoinEdge(c) /\ {<<c.source>>, <<c.target>>} \subseteq IdsOf(s)
                 /\ c.left # <<>> /\ Len(c.left) = Len(c.right) /\ A!Distinct(c.left) /\ A!Distinct(c.right)
                 /\ A!Rng(c.left) \subseteq StagedTables[c.source].columns
                 /\ A!Rng(c.right) \subseteq StagedTables[c.target].columns
    BY <1>6
  <2>2. /\ e.source = <<c.source>> /\ e.target = <<c.target>> /\ e.mode = "join"
        /\ e.left = c.left /\ e.right = c.right
    BY <2>1 DEF A!JoinEdge
  <2>3. NodeOf(tpl, e.source).table = c.source /\ NodeOf(tpl, e.target).table = c.target
    BY <1>9, <1>10, <2>1, <2>2
  <2> QED
    BY <1>10, <2>1, <2>2, <2>3 DEF EdgeGood
<1>12. ASSUME NEW e \in UNION parts PROVE EdgeGood(tpl, e)
  <2>1. PICK t \in D : e \in GroupLinks(t, found[t])
    BY <1>7
  <2>2. e.mode = "same_row" /\ e.source[1] = t /\ e.target[1] = t
    BY <2>1, GroupEdgesAre
  <2>3. A!Valid(Alone(t, found[t])) /\ e \in Alone(t, found[t]).edges
    BY <2>1 DEF Staged, GoodGroups, Alone
  <2>4. {e.source, e.target} \subseteq IdsOf(Alone(t, found[t]))
    BY <2>3, ValidMeans DEF EdgeGood
  <2>5. GroupObjects(t, found[t]) \subseteq s.nodes /\ Alone(t, found[t]).nodes = GroupObjects(t, found[t])
    BY <2>1 DEF Staged, Alone
  <2>6. {e.source, e.target} \subseteq IdsOf(tpl)
    BY <1>10, <2>4, <2>5 DEF IdsOf
  <2>7. NodeOf(tpl, e.source).table = t /\ NodeOf(tpl, e.target).table = t
    BY <1>9, <2>2, <2>6
  <2> QED
    BY <2>2, <2>6, <2>7 DEF EdgeGood
<1> QED
  <2>1. Cardinality({e.id : e \in tpl.edges}) = Cardinality(tpl.edges)
    BY <1>5, <1>8, AsManyIds
  <2>2. \A e \in tpl.edges : EdgeGood(tpl, e)
    BY <1>1, <1>11, <1>12
  <2> QED
    BY <2>1, <2>2 DEF tpl

LEMMA GroupsCover ==
    ASSUME NEW t, NEW o, A!Groups(t, o) # {}
    PROVE  StagedTables[t].columns \subseteq UNION {{p[1] : p \in g.props} : g \in A!Groups(t, o)}
BY DEF A!Groups

\* The draft of an analysis is well formed, and valid unless it is empty.
LEMMA DraftIsWhole ==
    ASSUME NEW s, NEW maps, NEW found, NEW D, Staged(s, maps, found, D),
           \A t \in A!TableIds : found[t] \in Outcomes[t], NEW proposed \in SUBSET Proposals
    PROVE  LET tpl == DraftOf(s, maps, proposed)
           IN  Parts(tpl) /\ (tpl.nodes # {} => A!Valid(tpl)) /\ ColumnsKept(tpl)
<1> DEFINE tpl == DraftOf(s, maps, proposed)
<1>1. /\ tpl.nodes = s.nodes /\ tpl.mode = "suggested"
      /\ tpl = [nodes |-> tpl.nodes, edges |-> tpl.edges, confirmed |-> tpl.confirmed, mode |-> tpl.mode]
  BY DEF DraftOf
<1>2. IsFiniteSet(s.nodes) /\ A!OwnIdentities(s)
  BY StagedDiffer
<1>3. /\ Cardinality({e.id : e \in tpl.edges}) = Cardinality(tpl.edges)
      /\ \A e \in tpl.edges : EdgeGood(tpl, e)
  BY DraftEdges
<1> HIDE DEF tpl
<1>4. Parts(tpl)
  <2>1. \A e \in tpl.edges : {e.source, e.target} \subseteq IdsOf(tpl)
    BY <1>3 DEF EdgeGood
  <2>2. \A n, m \in tpl.nodes : n.id = m.id /\ n.table = m.table => n = m
    BY <1>1, <1>2 DEF A!OwnIdentities
  <2>3. \A n \in tpl.nodes :
            /\ n = [id |-> n.id, table |-> n.table, concept |-> n.concept, scope |-> n.scope, keys |-> n.keys, props |-> n.props]
            /\ NodeGood(n)
    BY <1>1, StagedNodes
  <2> QED
    BY <1>1, <1>2, <1>3, <2>1, <2>2, <2>3 DEF Parts
<1>5. tpl.nodes # {} => A!Valid(tpl)
  <2>1. A!OwnIdentities(tpl)
    BY <1>1, <1>2 DEF A!OwnIdentities
  <2> QED
    BY <1>1, <1>4, <2>1, OwnIsValid
<1>6. ColumnsKept(tpl)
  <2> SUFFICES ASSUME NEW t \in A!TableIds, {n \in tpl.nodes : n.table = t} # {},
                      \A n \in {m \in tpl.nodes : m.table = t} : n.id # <<t>>
               PROVE  UNION {{p[1] : p \in n.props} : n \in {m \in tpl.nodes : m.table = t}} = StagedTables[t].columns
    BY DEF ColumnsKept
  <2> DEFINE own == {n \in tpl.nodes : n.table = t}
             groups == A!Groups(t, found[t])
             C == StagedTables[t].columns
  <2>1. t \in D
    BY <1>1, StagedNodes
  <2>2. own = GroupObjects(t, found[t])
    <3>1. \A n \in own : n \in GroupObjects(t, found[t])
      BY <1>1, <2>1, StagedNodes
    <3>2. \A n \in GroupObjects(t, found[t]) : n \in s.nodes /\ n.table = t
      BY <2>1, GroupNodesAre DEF Staged
    <3> QED
      BY <1>1, <3>1, <3>2
  <2>3. groups # {}
    BY <2>1 DEF Staged, GoodGroups
  <2>4. Cardinality(groups) # 1
    <3>1. PICK n \in own : TRUE
      OBVIOUS
    <3>2. n \in GroupObjects(t, found[t]) /\ n.id # <<t>>
      BY <2>2
    <3> QED
      BY <3>2, GroupNodesAre
  <2>5. own = {[id |-> <<t, g.id>>, table |-> t, concept |-> g.concept, scope |-> <<t, g.id>>,
                keys |-> g.keys, props |-> g.props] : g \in groups}
    BY <2>2, <2>4, TemplateSets DEF GroupObjects, A!GroupNodes
  <2>6. \A g \in groups : \E n \in own : n.props = g.props
    <3> TAKE g \in groups
    <3> DEFINE n == [id |-> <<t, g.id>>, table |-> t, concept |-> g.concept, scope |-> <<t, g.id>>,
                     keys |-> g.keys, props |-> g.props]
    <3>1. n \in own /\ n.props = g.props
      BY <2>5
    <3> HIDE DEF own
    <3> QED
      BY <3>1
  <2>7. ASSUME NEW n \in own PROVE ColumnsOf(n) \subseteq C
    <3>1. n \in s.nodes /\ n.table = t
      BY <1>1
    <3>2. NodeGood(n)
      BY <3>1, StagedNodes
    <3> QED
      BY <3>1, <3>2 DEF NodeGood
  <2>8. C \subseteq UNION {{p[1] : p \in g.props} : g \in groups}
    BY <2>3, GroupsCover
  <2> HIDE DEF own, groups, C
  <2>9. \A c \in C : \E n \in own : c \in {p[1] : p \in n.props}
    BY <2>6, <2>8
  <2>10. \A n \in own : {p[1] : p \in n.props} \subseteq C
    BY <2>7 DEF ColumnsOf
  <2>11. UNION {{p[1] : p \in n.props} : n \in own} = C
    BY <2>9, <2>10
  <2> QED
    BY <2>11 DEF own, C
<1> QED
  BY <1>4, <1>5, <1>6 DEF tpl

----
(* Records, as they are rewritten.                                          *)

Fields == {"nodes", "edges", "confirmed", "mode"}
Form(tpl) == tpl = [nodes |-> tpl.nodes, edges |-> tpl.edges, confirmed |-> tpl.confirmed, mode |-> tpl.mode]

LEMMA SameForm ==
    ASSUME NEW l, NEW N, NEW E, NEW c, NEW m, l = [i \in Fields |-> l[i]],
           l.nodes = N, l.edges = E, l.confirmed = c, l.mode = m
    PROVE  l = [nodes |-> N, edges |-> E, confirmed |-> c, mode |-> m]
<1> DEFINE r == [nodes |-> N, edges |-> E, confirmed |-> c, mode |-> m]
<1>1. r = [i \in Fields |-> r[i]]
  BY DEF Fields
<1>2. r.nodes = N /\ r.edges = E /\ r.confirmed = c /\ r.mode = m
  OBVIOUS
<1> HIDE DEF r
<1>3. \A i \in Fields : l[i] = r[i]
  BY <1>2 DEF Fields
<1>4. l = r
  BY <1>1, <1>3
<1> QED
  BY <1>4 DEF r

Approved(tpl, c) == [tpl EXCEPT !.confirmed = c]
Changed(tpl, c, m) == [tpl EXCEPT !.confirmed = c, !.mode = m]
Made(tpl, N, c, m) == [tpl EXCEPT !.nodes = N, !.confirmed = c, !.mode = m]

LEMMA ApprovedIs ==
    ASSUME NEW tpl, Form(tpl), NEW c
    PROVE  Approved(tpl, c) = [nodes |-> tpl.nodes, edges |-> tpl.edges, confirmed |-> c, mode |-> tpl.mode]
<1> DEFINE l == Approved(tpl, c)
<1>1. DOMAIN tpl = Fields
  BY DEF Form, Fields
<1>2. l = [i \in Fields |-> l[i]] /\ l.nodes = tpl.nodes /\ l.edges = tpl.edges /\ l.confirmed = c /\ l.mode = tpl.mode
  BY <1>1 DEF Fields, Approved
<1> HIDE DEF l
<1>3. l = [nodes |-> tpl.nodes, edges |-> tpl.edges, confirmed |-> c, mode |-> tpl.mode]
  BY <1>2, SameForm
<1> QED
  BY <1>3 DEF l

LEMMA ChangedIs ==
    ASSUME NEW tpl, Form(tpl), NEW c, NEW m
    PROVE  Changed(tpl, c, m) = [nodes |-> tpl.nodes, edges |-> tpl.edges, confirmed |-> c, mode |-> m]
<1> DEFINE l == Changed(tpl, c, m)
<1>1. DOMAIN tpl = Fields
  BY DEF Form, Fields
<1>2. l = [i \in Fields |-> l[i]] /\ l.nodes = tpl.nodes /\ l.edges = tpl.edges /\ l.confirmed = c /\ l.mode = m
  BY <1>1 DEF Fields, Changed
<1> HIDE DEF l
<1>3. l = [nodes |-> tpl.nodes, edges |-> tpl.edges, confirmed |-> c, mode |-> m]
  BY <1>2, SameForm
<1> QED
  BY <1>3 DEF l

LEMMA MadeIs ==
    ASSUME NEW tpl, Form(tpl), NEW N, NEW c, NEW m
    PROVE  Made(tpl, N, c, m) = [nodes |-> N, edges |-> tpl.edges, confirmed |-> c, mode |-> m]
<1> DEFINE l == Made(tpl, N, c, m)
<1>1. DOMAIN tpl = Fields
  BY DEF Form, Fields
<1>2. l = [i \in Fields |-> l[i]] /\ l.nodes = N /\ l.edges = tpl.edges /\ l.confirmed = c /\ l.mode = m
  BY <1>1 DEF Fields, Made
<1> HIDE DEF l
<1>3. l = [nodes |-> N, edges |-> tpl.edges, confirmed |-> c, mode |-> m]
  BY <1>2, SameForm
<1> QED
  BY <1>3 DEF l

RunForm(run) == run = [maps |-> run.maps, relations |-> run.relations, template |-> run.template]

Replaced(run, x) == [run EXCEPT !.template = x]
Reopened(run, c, m) == [run EXCEPT !.template.confirmed = c, !.template.mode = m]

LEMMA SameRun ==
    ASSUME NEW run, NEW x, NEW l, l = [i \in {"maps", "relations", "template"} |-> l[i]],
           l.maps = run.maps, l.relations = run.relations, l.template = x
    PROVE  l = [maps |-> run.maps, relations |-> run.relations, template |-> x]
<1> DEFINE names == {"maps", "relations", "template"}
           r == [maps |-> run.maps, relations |-> run.relations, template |-> x]
<1>1. r = [i \in names |-> r[i]] /\ r.maps = run.maps /\ r.relations = run.relations /\ r.template = x
  OBVIOUS
<1> HIDE DEF r
<1>2. \A i \in names : l[i] = r[i]
  BY <1>1
<1>3. l = r
  BY <1>1, <1>2
<1> QED
  BY <1>3 DEF r

LEMMA ReplacedIs ==
    ASSUME NEW run, RunForm(run), NEW x
    PROVE  Replaced(run, x) = [maps |-> run.maps, relations |-> run.relations, template |-> x]
<1> DEFINE l == Replaced(run, x)
           names == {"maps", "relations", "template"}
<1>1. DOMAIN run = names
  BY DEF RunForm
<1>2. l = [i \in names |-> l[i]] /\ l.maps = run.maps /\ l.relations = run.relations /\ l.template = x
  BY <1>1 DEF Replaced
<1> HIDE DEF l
<1>3. l = [maps |-> run.maps, relations |-> run.relations, template |-> x]
  BY <1>2, SameRun
<1> QED
  BY <1>3 DEF l

LEMMA ReopenedIs ==
    ASSUME NEW run, RunForm(run), NEW c, NEW m
    PROVE  Reopened(run, c, m) = [maps |-> run.maps, relations |-> run.relations, template |-> Changed(run.template, c, m)]
<1> DEFINE l == Reopened(run, c, m)
           x == Changed(run.template, c, m)
           names == {"maps", "relations", "template"}
<1>1. DOMAIN run = names
  BY DEF RunForm
<1>2. DOMAIN l = names /\ l = [i \in DOMAIN l |-> l[i]]
  BY <1>1 DEF Reopened
<1>3. l.maps = run.maps /\ l.relations = run.relations
  BY <1>1 DEF Reopened
<1>4. l.template = x
  BY <1>1 DEF Reopened, Changed
<1> HIDE DEF l, x
<1>5. l = [maps |-> run.maps, relations |-> run.relations, template |-> x]
  BY <1>2, <1>3, <1>4, SameRun
<1> QED
  BY <1>5 DEF l, x

----
(* Presets, and what a reviewer makes of a template.                        *)

LEMMA PresetIsValid ==
    ASSUME NEW maps, NEW tpl, A!RowTemplate(maps, tpl).nodes # {}
    PROVE  A!Valid(A!RowTemplate(maps, tpl))
<1> DEFINE own(t) == {n \in tpl.nodes : n.table = t}
           single(t) == A!Cardinality(own(t)) = 1 /\ \A n \in own(t) : n.concept \in Concepts
           concept(t) == IF single(t) THEN (CHOOSE n \in own(t) : TRUE).concept ELSE maps[t].concept
           taken == {t \in A!TableIds : StagedTables[t].count > 0 /\ (single(t) \/ A!Usable(maps[t]))}
           node(t) == [id |-> <<t>>, table |-> t, concept |-> concept(t), scope |-> <<"row", t>>, keys |-> {},
                       props |-> {<<c, c>> : c \in StagedTables[t].columns}]
           preset == A!RowTemplate(maps, tpl)
<1>1. preset = [nodes |-> {node(t) : t \in taken}, edges |-> {}, confirmed |-> FALSE, mode |-> "row_records"]
  BY DEF A!RowTemplate
<1>2. ASSUME NEW t \in taken PROVE concept(t) \in Concepts
  <2>1. CASE single(t)
    <3>1. own(t) # {}
      <4>1. Cardinality(own(t)) = 1
        BY <2>1, TemplateSets
      <4>2. Cardinality({}) = 0
        BY FS_EmptySet
      <4> HIDE DEF own
      <4> QED
        BY <4>1, <4>2
    <3> HIDE DEF own
    <3> QED
      BY <2>1, <3>1
  <2>2. CASE ~single(t)
    BY <1>2, <2>2 DEF A!Usable
  <2> HIDE DEF single, concept
  <2> QED
    BY <2>1, <2>2
<1> HIDE DEF own, single, concept, preset
<1>3. ASSUME NEW n \in preset.nodes
      PROVE  /\ n.table \in taken /\ n = node(n.table) /\ n.id = <<n.table>> /\ n.scope = <<"row", n.table>>
             /\ n.keys = {} /\ n.props = {<<c, c>> : c \in StagedTables[n.table].columns} /\ n.concept \in Concepts
  <2>1. PICK t \in taken : n = node(t)
    BY <1>1
  <2>2. n.table = t
    BY <2>1
  <2> QED
    BY <1>2, <2>1, <2>2
<1>4. IsFiniteSet(preset.nodes)
  <2> DEFINE f == [t \in taken |-> node(t)]
             nodes == {node(t) : t \in taken}
  <2>1. IsFiniteSet(taken)
    BY TemplateFacts, FS_Subset
  <2>2. f \in Surjection(taken, nodes)
    BY DEF Surjection
  <2>3. preset.nodes = nodes
    BY <1>1
  <2> HIDE DEF f, taken, nodes
  <2> QED
    BY <2>1, <2>2, <2>3, FS_Surjection
<1> HIDE DEF node
<1>5. \A n, m \in preset.nodes : n.table = m.table => n = m
  BY <1>3
<1>6. ASSUME NEW n \in preset.nodes, NEW m \in preset.nodes, n.id = m.id \/ n.scope = m.scope PROVE n = m
  <2>1. <<n.table>>[1] = n.table /\ <<m.table>>[1] = m.table
    OBVIOUS
  <2>2. <<"row", n.table>>[2] = n.table /\ <<"row", m.table>>[2] = m.table
    OBVIOUS
  <2>3. n.table = m.table
    BY <1>3, <1>6, <2>1, <2>2
  <2> QED
    BY <1>5, <2>3
<1>7. Cardinality(IdsOf(preset)) = Cardinality(preset.nodes)
  BY <1>4, <1>6, AsManyIds DEF IdsOf
<1>8. ASSUME NEW n \in preset.nodes PROVE NodeGood(n)
  <2> DEFINE C == StagedTables[n.table].columns
  <2>1. n.table \in A!TableIds /\ n.concept \in Concepts /\ n.keys = {}
    BY <1>3
  <2>2. IsFiniteSet(C) /\ n.props = Plain(C)
    BY <1>3, <2>1, TemplateFacts DEF Plain
  <2>3. Cardinality({p[2] : p \in Plain(C)}) = Cardinality(Plain(C)) /\ {p[1] : p \in Plain(C)} = C
    <3> HIDE DEF C
    <3> QED
      BY <2>2, PlainNames
  <2> QED
    BY <2>1, <2>2, <2>3 DEF NodeGood, ColumnsOf
<1>9. Scoped(preset)
  BY <1>6 DEF Scoped
<1>10. preset.edges = {} /\ Cardinality({e.id : e \in preset.edges}) = Cardinality(preset.edges)
  <2>1. preset.edges = {}
    BY <1>1
  <2>2. {e.id : e \in preset.edges} = {}
    BY <2>1
  <2> QED
    BY <2>1, <2>2
<1>11. ByRows(preset)
  <2>1. Cardinality({n.table : n \in preset.nodes}) = Cardinality(preset.nodes)
    BY <1>4, <1>5, AsManyTables
  <2> QED
    BY <1>3, <1>10, <2>1 DEF ByRows
<1>12. preset.nodes # {}
  BY DEF preset
<1>13. A!Valid(preset)
  BY <1>7, <1>8, <1>9, <1>10, <1>11, <1>12, ValidMeans
<1> QED
  BY <1>13 DEF preset

\* The approval of a template says nothing of its content.
LEMMA SameContent ==
    ASSUME NEW tpl, NEW other, tpl.nodes = other.nodes, tpl.edges = other.edges, tpl.mode = other.mode
    PROVE  A!Valid(tpl) => A!Valid(other)
<1>1. IdsOf(tpl) = IdsOf(other) /\ \A id : NodeOf(tpl, id) = NodeOf(other, id)
  BY DEF IdsOf, NodeOf
<1>2. (Scoped(tpl) => Scoped(other)) /\ (ByRows(tpl) => ByRows(other))
  BY DEF Scoped, ByRows
<1>3. \A e : EdgeGood(tpl, e) => EdgeGood(other, e)
  BY <1>1 DEF EdgeGood
<1> QED
  BY <1>1, <1>2, <1>3, ValidMeans

LEMMA ApprovedParts ==
    ASSUME NEW tpl, A!IsTemplate(tpl), A!Valid(tpl)
    PROVE  LET saved == [tpl EXCEPT !.confirmed = TRUE]
           IN  saved.confirmed /\ A!Valid(saved) /\ Parts(saved)
<1> DEFINE saved == [tpl EXCEPT !.confirmed = TRUE]
<1>1. /\ tpl = [nodes |-> tpl.nodes, edges |-> tpl.edges, confirmed |-> tpl.confirmed, mode |-> tpl.mode]
      /\ IsFiniteSet(tpl.nodes)
      /\ \A n \in tpl.nodes :
            n = [id |-> n.id, table |-> n.table, concept |-> n.concept, scope |-> n.scope, keys |-> n.keys, props |-> n.props]
  BY TemplateSets DEF A!IsTemplate
<1>2. /\ saved.nodes = tpl.nodes /\ saved.edges = tpl.edges /\ saved.mode = tpl.mode /\ saved.confirmed
      /\ saved = [nodes |-> saved.nodes, edges |-> saved.edges, confirmed |-> saved.confirmed, mode |-> saved.mode]
  <2>1. Form(tpl)
    BY <1>1 DEF Form
  <2>2. Approved(tpl, TRUE) = [nodes |-> tpl.nodes, edges |-> tpl.edges, confirmed |-> TRUE, mode |-> tpl.mode]
    BY <2>1, ApprovedIs
  <2>3. saved = [nodes |-> tpl.nodes, edges |-> tpl.edges, confirmed |-> TRUE, mode |-> tpl.mode]
    BY <2>2 DEF Approved
  <2> HIDE DEF saved
  <2> QED
    BY <2>3
<1> HIDE DEF saved
<1>3. A!Valid(saved)
  BY <1>2, SameContent
<1>4. \A n, m \in saved.nodes : n.id = m.id => n = m
  <2>1. Cardinality(IdsOf(saved)) = Cardinality(saved.nodes) /\ IsFiniteSet(saved.nodes)
    BY <1>1, <1>2, <1>3, ValidMeans
  <2> QED
    BY <2>1, AsManyIds DEF IdsOf
<1>5. /\ Cardinality({e.id : e \in saved.edges}) = Cardinality(saved.edges)
      /\ \A n \in saved.nodes : NodeGood(n)
      /\ \A e \in saved.edges : EdgeGood(saved, e)
  BY <1>3, ValidMeans
<1>6. \A e \in saved.edges : {e.source, e.target} \subseteq IdsOf(saved)
  BY <1>5 DEF EdgeGood
<1>7. Parts(saved)
  BY <1>1, <1>2, <1>4, <1>5, <1>6 DEF Parts
<1> QED
  BY <1>2, <1>3, <1>7 DEF saved

Renamed(n, c) == [n EXCEPT !.concept = c]

LEMMA RenamedIs ==
    ASSUME NEW n, NEW c,
           n = [id |-> n.id, table |-> n.table, concept |-> n.concept, scope |-> n.scope, keys |-> n.keys, props |-> n.props]
    PROVE  Renamed(n, c) = [id |-> n.id, table |-> n.table, concept |-> c, scope |-> n.scope, keys |-> n.keys, props |-> n.props]
<1> DEFINE l == Renamed(n, c)
           r == [id |-> n.id, table |-> n.table, concept |-> c, scope |-> n.scope, keys |-> n.keys, props |-> n.props]
           names == {"id", "table", "concept", "scope", "keys", "props"}
<1>1. DOMAIN n = names
  OBVIOUS
<1>2. /\ l = [i \in names |-> l[i]] /\ l.concept = c
      /\ l.id = n.id /\ l.table = n.table /\ l.scope = n.scope /\ l.keys = n.keys /\ l.props = n.props
  BY <1>1 DEF Renamed
<1>3. /\ r = [i \in names |-> r[i]] /\ r.concept = c
      /\ r.id = n.id /\ r.table = n.table /\ r.scope = n.scope /\ r.keys = n.keys /\ r.props = n.props
  OBVIOUS
<1> HIDE DEF l, r
<1>4. \A i \in names : l[i] = r[i]
  BY <1>2, <1>3
<1>5. l = r
  BY <1>2, <1>3, <1>4
<1> QED
  BY <1>5 DEF l, r

\* A mapping that is edited changes the concept of an object, or adds one.
LEMMA EditedParts ==
    ASSUME NEW tpl, Parts(tpl), NEW t \in A!TableIds, NEW c \in Concepts, NEW map, NEW added, NEW no,
           added = IF \E n \in tpl.nodes : n.table = t THEN {} ELSE {[A!TableNode(t, map) EXCEPT !.keys = {}]}
    PROVE  Parts(Made(tpl, {IF n.id = <<t>> THEN [n EXCEPT !.concept = c] ELSE n : n \in tpl.nodes \cup added}, no, "custom"))
<1> DEFINE f(n) == IF n.id = <<t>> THEN [n EXCEPT !.concept = c] ELSE n
           all == tpl.nodes \cup added
           nodes == {f(n) : n \in all}
           new == Made(tpl, nodes, no, "custom")
<1>1. /\ new.nodes = nodes /\ new.edges = tpl.edges
      /\ new = [nodes |-> new.nodes, edges |-> new.edges, confirmed |-> new.confirmed, mode |-> new.mode]
  <2>1. Form(tpl)
    BY DEF Parts, Form
  <2> HIDE DEF nodes, new
  <2>2. Made(tpl, nodes, no, "custom") = [nodes |-> nodes, edges |-> tpl.edges, confirmed |-> no, mode |-> "custom"]
    BY <2>1, MadeIs
  <2>3. new = [nodes |-> nodes, edges |-> tpl.edges, confirmed |-> no, mode |-> "custom"]
    BY <2>2 DEF new
  <2> QED
    BY <2>3
<1>2. ASSUME NEW n \in added
      PROVE  /\ n = [id |-> n.id, table |-> n.table, concept |-> n.concept, scope |-> n.scope, keys |-> n.keys, props |-> n.props]
             /\ n.id = <<t>> /\ n.table = t /\ \A m \in tpl.nodes : m.table # t
             /\ n.table \in A!TableIds /\ n.keys \subseteq StagedTables[n.table].columns
             /\ Cardinality({p[2] : p \in n.props}) = Cardinality(n.props) /\ ColumnsOf(n) \subseteq StagedTables[n.table].columns
             /\ \A m \in added : m = n
  <2> DEFINE C == StagedTables[t].columns \ map.ignored
  <2>1. n = [A!TableNode(t, map) EXCEPT !.keys = {}] /\ (\A m \in added : m = n) /\ \A m \in tpl.nodes : m.table # t
    BY <1>2
  <2>2. n = [id |-> <<t>>, table |-> t, concept |-> map.concept, scope |-> <<t>>, keys |-> {}, props |-> Plain(C)]
    BY <2>1 DEF A!TableNode, Plain
  <2>3. IsFiniteSet(C) /\ C \subseteq StagedTables[t].columns
    BY TemplateFacts, FS_Subset
  <2> HIDE DEF C
  <2>4. Cardinality({p[2] : p \in Plain(C)}) = Cardinality(Plain(C)) /\ {p[1] : p \in Plain(C)} = C
    BY <2>3, PlainNames
  <2>5. n.id = <<t>> /\ n.table = t /\ n.keys = {} /\ n.props = Plain(C)
    BY <2>2
  <2>6. n = [id |-> n.id, table |-> n.table, concept |-> n.concept, scope |-> n.scope, keys |-> n.keys, props |-> n.props]
    BY <2>2
  <2> QED
    BY <2>1, <2>3, <2>4, <2>5, <2>6 DEF ColumnsOf
<1>3. ASSUME NEW n \in all
      PROVE  /\ n = [id |-> n.id, table |-> n.table, concept |-> n.concept, scope |-> n.scope, keys |-> n.keys, props |-> n.props]
             /\ n.table \in A!TableIds /\ n.keys \subseteq StagedTables[n.table].columns
             /\ Cardinality({p[2] : p \in n.props}) = Cardinality(n.props) /\ ColumnsOf(n) \subseteq StagedTables[n.table].columns
             /\ n.id = <<t>> \/ n.concept \in Concepts
  BY <1>2 DEF Parts, NodeGood
<1>4. ASSUME NEW n \in all, NEW m \in all, n.id = m.id, n.table = m.table PROVE n = m
  BY <1>2, <1>4 DEF Parts
<1>5. ASSUME NEW n \in all
      PROVE  /\ f(n) = [id |-> n.id, table |-> n.table, concept |-> f(n).concept, scope |-> n.scope, keys |-> n.keys, props |-> n.props]
             /\ f(n).concept \in Concepts
  <2>1. n = [id |-> n.id, table |-> n.table, concept |-> n.concept, scope |-> n.scope, keys |-> n.keys, props |-> n.props]
    BY <1>3
  <2>2. Renamed(n, c) = [id |-> n.id, table |-> n.table, concept |-> c, scope |-> n.scope, keys |-> n.keys, props |-> n.props]
    BY <2>1, RenamedIs
  <2>3. Renamed(n, c).concept = c
    BY <2>2
  <2>4. CASE n.id = <<t>>
    <3>1. f(n) = Renamed(n, c)
      BY <2>4 DEF Renamed
    <3> HIDE DEF f
    <3> QED
      BY <2>2, <2>3, <3>1
  <2>5. CASE n.id # <<t>>
    <3>1. f(n) = n
      BY <2>5
    <3> HIDE DEF f
    <3> QED
      BY <1>3, <2>5, <3>1
  <2> QED
    BY <2>4, <2>5
<1> HIDE DEF f, all, new
<1>6. ASSUME NEW n \in all
      PROVE  /\ f(n).id = n.id /\ f(n).table = n.table /\ NodeGood(f(n))
             /\ f(n) = [id |-> f(n).id, table |-> f(n).table, concept |-> f(n).concept, scope |-> f(n).scope,
                        keys |-> f(n).keys, props |-> f(n).props]
  <2>1. f(n).id = n.id /\ f(n).table = n.table /\ f(n).scope = n.scope /\ f(n).keys = n.keys /\ f(n).props = n.props
    BY <1>5
  <2> QED
    BY <1>3, <1>5, <2>1 DEF NodeGood, ColumnsOf
<1>7. IsFiniteSet(nodes)
  <2>1. IsFiniteSet(added)
    <3>1. IsFiniteSet({}) /\ IsFiniteSet({[A!TableNode(t, map) EXCEPT !.keys = {}]})
      BY FS_EmptySet, FS_Singleton
    <3> QED
      BY <3>1
  <2>2. IsFiniteSet(all)
    BY <2>1, FS_Union DEF Parts, all
  <2> DEFINE g == [n \in all |-> f(n)]
  <2>3. g \in Surjection(all, nodes)
    BY DEF Surjection
  <2> HIDE DEF g, nodes
  <2> QED
    BY <2>2, <2>3, FS_Surjection
<1>8. \A n, m \in nodes : n.id = m.id /\ n.table = m.table => n = m
  BY <1>4, <1>6
<1>9. \A n \in tpl.nodes : n \in all
  BY DEF all
<1>10. ASSUME NEW id \in IdsOf(tpl) PROVE id \in IdsOf(new)
  <2>1. PICK n \in tpl.nodes : n.id = id
    BY DEF IdsOf
  <2>2. f(n) \in nodes /\ f(n).id = id
    BY <1>6, <1>9, <2>1
  <2> HIDE DEF nodes
  <2> QED
    BY <1>1, <2>2 DEF IdsOf
<1>11. ASSUME \A n, m \in nodes : n.id = m.id => n = m, NEW e \in tpl.edges
       PROVE  EdgeGood(new, e)
  <2>1. ASSUME NEW n \in all, NEW m \in all, n.id = m.id PROVE n = m
    <3>1. f(n) \in nodes /\ f(m) \in nodes
      OBVIOUS
    <3>2. f(n) = f(m)
      <4> HIDE DEF nodes
      <4> QED
        BY <1>6, <1>11, <2>1, <3>1
    <3>3. n.table = m.table
      BY <1>6, <3>2
    <3> QED
      BY <1>4, <2>1, <3>3
  <2>2. EdgeGood(tpl, e) /\ {e.source, e.target} \subseteq IdsOf(tpl)
    BY <1>9, <2>1 DEF Parts
  <2>3. ASSUME NEW id \in IdsOf(tpl) PROVE NodeOf(new, id).table = NodeOf(tpl, id).table
    <3>1. NodeOf(tpl, id) \in all /\ NodeOf(tpl, id).id = id
      BY <1>9, NodeIsThere
    <3>2. NodeOf(new, id) \in nodes /\ NodeOf(new, id).id = id
      BY <1>1, <1>10, NodeIsThere
    <3>3. PICK n \in all : NodeOf(new, id) = f(n)
      BY <3>2
    <3>4. n.id = id
      BY <1>6, <3>2, <3>3
    <3>5. n = NodeOf(tpl, id)
      BY <2>1, <3>1, <3>4
    <3> QED
      BY <1>6, <3>3, <3>5
  <2>4. {e.source, e.target} \subseteq IdsOf(new)
    BY <1>10, <2>2
  <2>5. NodeOf(new, e.source).table = NodeOf(tpl, e.source).table /\ NodeOf(new, e.target).table = NodeOf(tpl, e.target).table
    BY <2>2, <2>3
  <2> QED
    BY <2>2, <2>4, <2>5 DEF EdgeGood
<1>12. \A n \in nodes :
        /\ n = [id |-> n.id, table |-> n.table, concept |-> n.concept, scope |-> n.scope, keys |-> n.keys, props |-> n.props]
        /\ NodeGood(n)
  BY <1>6
<1>13. \A e \in tpl.edges : {e.source, e.target} \subseteq IdsOf(new)
  BY <1>10 DEF Parts
<1>14. Cardinality({e.id : e \in tpl.edges}) = Cardinality(tpl.edges)
  BY DEF Parts
<1> HIDE DEF nodes
<1>15. Parts(new)
  BY <1>1, <1>7, <1>8, <1>11, <1>12, <1>13, <1>14 DEF Parts
<1> QED
  BY <1>15 DEF new, nodes, all, f

----
(* The versions.                                                            *)

TemplateOk(tpl) ==
    /\ Parts(tpl) /\ (tpl.mode # "custom" /\ tpl.nodes # {} => A!Valid(tpl))
    /\ (tpl.mode # "custom" /\ ~tpl.confirmed => ColumnsKept(tpl))

RunOk(run) == RunForm(run) /\ RelationsOk(run.relations) /\ TemplateOk(run.template)

\* An approved version is valid, and its mappings are those of an earlier one.
Reviewed(vs, run, k) ==
    run.template.confirmed => A!Valid(run.template) /\ \E u \in 1 .. k : vs[u].maps = run.maps

VersionsOk(vs, gs) ==
    /\ \A v \in DOMAIN vs : RunOk(vs[v]) /\ Reviewed(vs, vs[v], v - 1)
    /\ gs \subseteq {v \in DOMAIN vs : vs[v].template.confirmed}

IsList(vs) == \E Q : vs \in Seq(Q)

DraftInv == part = "templates" => IsList(versions) /\ VersionsOk(versions, graphs)

LEMMA AppendedTo ==
    ASSUME NEW vs, IsList(vs), NEW run
    PROVE  /\ IsList(Append(vs, run)) /\ Len(vs) \in Nat /\ Len(Append(vs, run)) = Len(vs) + 1
           /\ DOMAIN vs = 1 .. Len(vs) /\ DOMAIN Append(vs, run) = 1 .. Len(vs) + 1
           /\ \A i \in 1 .. Len(vs) : Append(vs, run)[i] = vs[i]
           /\ Append(vs, run)[Len(vs) + 1] = run
<1>1. PICK Q : vs \in Seq(Q)
  BY DEF IsList
<1>2. vs \in Seq(Q \cup {run})
  BY <1>1
<1>3. run \in Q \cup {run}
  OBVIOUS
<1>4. Append(vs, run) \in Seq(Q \cup {run})
  BY <1>2, <1>3
<1>5. IsList(Append(vs, run))
  BY <1>4 DEF IsList
<1>6. /\ Len(vs) \in Nat /\ Len(Append(vs, run)) = Len(vs) + 1
      /\ DOMAIN vs = 1 .. Len(vs) /\ DOMAIN Append(vs, run) = 1 .. Len(vs) + 1
  BY <1>1, <1>2, <1>3, <1>4
<1>7. /\ \A i \in 1 .. Len(vs) : Append(vs, run)[i] = vs[i]
      /\ Append(vs, run)[Len(vs) + 1] = run
  BY <1>2, <1>3
<1> QED
  BY <1>5, <1>6, <1>7

\* One more version, of mappings that were reviewed if it is approved.
LEMMA OneMore ==
    ASSUME NEW vs, NEW gs, IsList(vs), VersionsOk(vs, gs), NEW run, RunOk(run), Reviewed(vs, run, Len(vs)),
           NEW hs, hs \subseteq gs \cup {Len(vs) + 1}, Len(vs) + 1 \in hs => run.template.confirmed
    PROVE  IsList(Append(vs, run)) /\ VersionsOk(Append(vs, run), hs)
<1> DEFINE ws == Append(vs, run)
<1>1. /\ IsList(ws) /\ Len(vs) \in Nat
      /\ DOMAIN vs = 1 .. Len(vs) /\ DOMAIN ws = 1 .. Len(vs) + 1
      /\ \A i \in 1 .. Len(vs) : ws[i] = vs[i]
      /\ ws[Len(vs) + 1] = run
  BY AppendedTo
<1> HIDE DEF ws
<1>2. ASSUME NEW v \in DOMAIN ws PROVE RunOk(ws[v]) /\ Reviewed(ws, ws[v], v - 1)
  <2>1. CASE v = Len(vs) + 1
    <3>1. ws[v] = run /\ v - 1 = Len(vs)
      BY <1>1, <2>1
    <3>2. Reviewed(ws, run, Len(vs))
      BY <1>1 DEF Reviewed
    <3> QED
      BY <3>1, <3>2
  <2>2. CASE v # Len(vs) + 1
    <3>1. v \in 1 .. Len(vs)
      BY <1>1, <2>2
    <3>2. ws[v] = vs[v] /\ RunOk(vs[v]) /\ Reviewed(vs, vs[v], v - 1)
      BY <1>1, <3>1 DEF VersionsOk
    <3>3. \A u \in 1 .. v - 1 : ws[u] = vs[u]
      BY <1>1, <3>1
    <3>4. Reviewed(ws, vs[v], v - 1)
      BY <3>2, <3>3 DEF Reviewed
    <3> QED
      BY <3>2, <3>4
  <2> QED
    BY <2>1, <2>2
<1>3. ASSUME NEW v \in hs PROVE v \in DOMAIN ws /\ ws[v].template.confirmed
  <2>1. CASE v = Len(vs) + 1
    <3>1. v \in DOMAIN ws /\ ws[v] = run /\ run.template.confirmed
      BY <1>1, <1>3, <2>1
    <3> QED
      BY <3>1
  <2>2. CASE v # Len(vs) + 1
    <3>1. v \in gs
      BY <1>3, <2>2
    <3>2. v \in 1 .. Len(vs) /\ vs[v].template.confirmed
      BY <1>1, <3>1 DEF VersionsOk
    <3>3. ws[v] = vs[v] /\ v \in DOMAIN ws
      BY <1>1, <3>2
    <3> QED
      BY <3>2, <3>3
  <2> QED
    BY <2>1, <2>2
<1>4. VersionsOk(ws, hs)
  BY <1>2, <1>3 DEF VersionsOk
<1> QED
  BY <1>1, <1>4 DEF ws

LEMMA UneditedStay ==
    ASSUME NEW run, RunOk(run), NEW vs, NEW k, NEW c, NEW m, c = FALSE, m = "custom"
    PROVE  LET edited == [run EXCEPT !.template.confirmed = c, !.template.mode = m]
           IN  RunOk(edited) /\ Reviewed(vs, edited, k)
<1> DEFINE edited == [run EXCEPT !.template.confirmed = c, !.template.mode = m]
           tpl == Changed(run.template, c, m)
<1>1. edited = [maps |-> run.maps, relations |-> run.relations, template |-> tpl]
  <2>1. Reopened(run, c, m) = [maps |-> run.maps, relations |-> run.relations, template |-> tpl]
    BY ReopenedIs DEF RunOk
  <2> QED
    BY <2>1 DEF Reopened
<1>2. edited.relations = run.relations /\ edited.template = tpl /\ RunForm(edited)
  <2> HIDE DEF edited, tpl
  <2> QED
    BY <1>1 DEF RunForm
<1> HIDE DEF edited
<1>3. Form(run.template) /\ Parts(run.template)
  BY DEF RunOk, TemplateOk, Parts, Form
<1>4. tpl = [nodes |-> run.template.nodes, edges |-> run.template.edges, confirmed |-> c, mode |-> m]
  BY <1>3, ChangedIs
<1> HIDE DEF tpl
<1>5. /\ tpl.nodes = run.template.nodes /\ tpl.edges = run.template.edges /\ tpl.confirmed = c /\ tpl.mode = m
      /\ tpl = [nodes |-> tpl.nodes, edges |-> tpl.edges, confirmed |-> tpl.confirmed, mode |-> tpl.mode]
  BY <1>4
<1>6. IdsOf(tpl) = IdsOf(run.template) /\ \A id : NodeOf(tpl, id) = NodeOf(run.template, id)
  BY <1>5 DEF IdsOf, NodeOf
<1>7. \A e : EdgeGood(run.template, e) => EdgeGood(tpl, e)
  BY <1>6 DEF EdgeGood
<1>8. Parts(tpl)
  BY <1>3, <1>5, <1>6, <1>7 DEF Parts
<1>9. tpl.mode = "custom" /\ ~tpl.confirmed
  BY <1>5
<1>10. RunOk(edited)
  BY <1>2, <1>8, <1>9 DEF RunOk, TemplateOk
<1>11. Reviewed(vs, edited, k)
  BY <1>2, <1>9 DEF Reviewed
<1> QED
  BY <1>10, <1>11 DEF edited

LEMMA SavedIsReviewed ==
    ASSUME NEW vs, NEW gs, IsList(vs), VersionsOk(vs, gs), NEW v \in DOMAIN vs,
           NEW tpl, A!IsTemplate(tpl), A!Valid(tpl)
    PROVE  LET run == [vs[v] EXCEPT !.template = [tpl EXCEPT !.confirmed = TRUE]]
           IN  RunOk(run) /\ Reviewed(vs, run, Len(vs)) /\ run.template.confirmed
<1> DEFINE saved == [tpl EXCEPT !.confirmed = TRUE]
           run == [vs[v] EXCEPT !.template = saved]
<1>1. saved.confirmed /\ A!Valid(saved) /\ Parts(saved)
  BY ApprovedParts
<1>2. RunOk(vs[v])
  BY DEF VersionsOk
<1> HIDE DEF saved
<1>3. run = [maps |-> vs[v].maps, relations |-> vs[v].relations, template |-> saved]
  <2>1. Replaced(vs[v], saved) = [maps |-> vs[v].maps, relations |-> vs[v].relations, template |-> saved]
    BY <1>2, ReplacedIs DEF RunOk
  <2> QED
    BY <2>1 DEF Replaced
<1> HIDE DEF run
<1>4. run.maps = vs[v].maps /\ run.relations = vs[v].relations /\ run.template = saved /\ RunForm(run)
  BY <1>3 DEF RunForm
<1>5. RunOk(run)
  BY <1>1, <1>2, <1>4 DEF RunOk, TemplateOk
<1>6. v \in 1 .. Len(vs)
  BY AppendedTo
<1>7. Reviewed(vs, run, Len(vs))
  BY <1>1, <1>4, <1>6 DEF Reviewed
<1>8. run.template.confirmed
  BY <1>1, <1>4
<1> QED
  BY <1>5, <1>7, <1>8 DEF run, saved

LEMMA EditTableKeeps ==
    ASSUME IsList(versions), VersionsOk(versions, graphs), NEW v \in DOMAIN versions,
           NEW t \in A!TableIds, NEW c \in Concepts, A!EditTable(v, t, c)
    PROVE  IsList(versions') /\ VersionsOk(versions', graphs')
<1> DEFINE run == versions[v]
           maps == [run.maps EXCEPT ![t].concept = c, ![t].status = "mapped", ![t].verification = "manual"]
           added == IF \E n \in run.template.nodes : n.table = t THEN {}
                    ELSE {[A!TableNode(t, maps[t]) EXCEPT !.keys = {}]}
           nodes == {IF n.id = <<t>> THEN [n EXCEPT !.concept = c] ELSE n : n \in run.template.nodes \cup added}
           tpl == [run.template EXCEPT !.nodes = nodes, !.confirmed = FALSE, !.mode = "custom"]
           relations == A!MapRelations(maps, {r.cand : r \in run.relations} \ A!Declared)
           edited == [maps |-> maps, relations |-> relations, template |-> tpl]
<1>1. versions' = Append(versions, edited) /\ graphs' = graphs
  BY DEF A!EditTable, A!Fork
<1>2. RunOk(run)
  BY DEF VersionsOk
<1>3. Parts(tpl)
  <2>1. Parts(run.template)
    BY <1>2 DEF RunOk, TemplateOk
  <2> DEFINE map == maps[t]
  <2>2. added = IF \E n \in run.template.nodes : n.table = t THEN {} ELSE {[A!TableNode(t, map) EXCEPT !.keys = {}]}
    OBVIOUS
  <2> HIDE DEF added, map, maps
  <2>3. \A no : Parts(Made(run.template, nodes, no, "custom"))
    BY <2>1, <2>2, EditedParts
  <2> HIDE DEF nodes
  <2>4. Parts(Made(run.template, nodes, FALSE, "custom"))
    BY <2>3
  <2> QED
    BY <2>4 DEF Made
<1>4. tpl.mode = "custom" /\ ~tpl.confirmed
  <2>1. Form(run.template)
    BY <1>2 DEF RunOk, TemplateOk, Parts, Form
  <2> HIDE DEF nodes
  <2>2. Made(run.template, nodes, FALSE, "custom") =
          [nodes |-> nodes, edges |-> run.template.edges, confirmed |-> FALSE, mode |-> "custom"]
    BY <2>1, MadeIs
  <2>3. tpl = [nodes |-> nodes, edges |-> run.template.edges, confirmed |-> FALSE, mode |-> "custom"]
    BY <2>2 DEF Made
  <2> HIDE DEF tpl
  <2> QED
    BY <2>3
<1>5. RelationsOk(relations)
  <2>1. \A r \in run.relations : r.cand \in A!Declared \cup Proposals
    BY <1>2 DEF RunOk, RelationsOk
  <2>2. {r.cand : r \in run.relations} \ A!Declared \subseteq A!Declared \cup Proposals
    BY <2>1
  <2> QED
    BY <2>2, RelationsAreExact
<1> HIDE DEF tpl, relations, maps
<1>6. edited.maps = maps /\ edited.relations = relations /\ edited.template = tpl /\ RunForm(edited)
  BY DEF RunForm
<1> HIDE DEF edited
<1>7. RunOk(edited)
  BY <1>3, <1>4, <1>5, <1>6 DEF RunOk, TemplateOk
<1>8. Reviewed(versions, edited, Len(versions))
  BY <1>4, <1>6 DEF Reviewed
<1>9. ~edited.template.confirmed
  BY <1>4, <1>6
<1>10. Len(versions) + 1 \notin graphs
  <2>1. Len(versions) \in Nat /\ DOMAIN versions = 1 .. Len(versions)
    BY AppendedTo
  <2> QED
    BY <2>1 DEF VersionsOk
<1> QED
  BY <1>1, <1>7, <1>8, <1>10, OneMore

LEMMA DraftNext ==
    ASSUME IsList(versions), VersionsOk(versions, graphs), A!Next
    PROVE  IsList(versions') /\ VersionsOk(versions', graphs')
<1>1. PICK v \in DOMAIN versions :
        \/ \E t \in A!TableIds : A!EditColumn(v, t) \/ \E c \in Concepts : A!EditTable(v, t, c)
        \/ \E tpl \in A!Submitted(versions[v]) : A!Save(v, tpl) \/ A!AdoptAndGenerate(v, tpl)
        \/ A!Generate(v)
  BY DEF A!Next
<1>2. Len(versions) \in Nat /\ DOMAIN versions = 1 .. Len(versions) /\ Len(versions) + 1 \notin graphs
  <2>1. Len(versions) \in Nat /\ DOMAIN versions = 1 .. Len(versions)
    BY AppendedTo
  <2> QED
    BY <2>1 DEF VersionsOk
<1>3. CASE \E t \in A!TableIds, c \in Concepts : A!EditTable(v, t, c)
  BY <1>3, EditTableKeeps
<1>4. CASE \E t \in A!TableIds : A!EditColumn(v, t)
  <2> DEFINE edited == [versions[v] EXCEPT !.template.confirmed = FALSE, !.template.mode = "custom"]
  <2>1. versions' = Append(versions, edited) /\ graphs' = graphs
    BY <1>4 DEF A!EditColumn, A!Fork
  <2>2. RunOk(versions[v])
    BY DEF VersionsOk
  <2>3. RunOk(edited) /\ Reviewed(versions, edited, Len(versions))
    BY <2>2, UneditedStay
  <2> HIDE DEF edited
  <2> QED
    BY <1>2, <2>1, <2>3, OneMore
<1>5. ASSUME NEW tpl \in A!Submitted(versions[v]), A!Save(v, tpl) \/ A!AdoptAndGenerate(v, tpl)
      PROVE  IsList(versions') /\ VersionsOk(versions', graphs')
  <2> DEFINE saved == [versions[v] EXCEPT !.template = [tpl EXCEPT !.confirmed = TRUE]]
  <2>1. A!IsTemplate(tpl) /\ A!Valid(tpl)
    BY <1>5 DEF A!Submitted, A!Save, A!AdoptAndGenerate
  <2>2. versions' = Append(versions, saved) /\ (graphs' = graphs \/ graphs' = graphs \cup {Len(versions')})
    BY <1>5 DEF A!Save, A!AdoptAndGenerate, A!Fork
  <2>3. RunOk(saved) /\ Reviewed(versions, saved, Len(versions)) /\ saved.template.confirmed
    BY <2>1, SavedIsReviewed
  <2> HIDE DEF saved
  <2>4. Len(versions') = Len(versions) + 1
    BY <2>2, AppendedTo
  <2>5. graphs' \subseteq graphs \cup {Len(versions) + 1}
    BY <2>2, <2>4
  <2> QED
    BY <2>2, <2>3, <2>5, OneMore
<1>6. CASE A!Generate(v)
  <2>1. versions' = versions /\ graphs' = graphs \cup {v} /\ versions[v].template.confirmed
    BY <1>6 DEF A!Generate
  <2> QED
    BY <2>1 DEF VersionsOk
<1> QED
  BY <1>1, <1>3, <1>4, <1>5, <1>6

LEMMA ElementsOf ==
    ASSUME NEW Q, NEW m \in Nat, NEW s \in [1 .. m -> Q]
    PROVE  Len(s) \in Nat /\ \A i \in 1 .. Len(s) : s[i] \in Q
<1>1. s \in Seq(Q) /\ Len(s) = m
  OBVIOUS
<1> QED
  BY <1>1

LEMMA DraftInit == A!Init => IsList(versions) /\ VersionsOk(versions, graphs)
<1> SUFFICES ASSUME A!Init PROVE IsList(versions) /\ VersionsOk(versions, graphs)
  OBVIOUS
<1>1. PICK found \in [A!TableIds -> UNION {Outcomes[t] : t \in A!TableIds}],
           proposed \in SUBSET Proposals,
           order \in {s \in [1 .. A!Cardinality(A!TableIds) -> A!TableIds] : A!Distinct(s)} :
        /\ \A t \in A!TableIds : found[t] \in Outcomes[t]
        /\ versions = <<>> \/ versions = <<A!Analysis(order, found, proposed)>>
        /\ graphs = {}
  BY DEF A!Init
<1> DEFINE maps == [t \in A!TableIds |-> found[t].map]
           relations == A!MapRelations(maps, proposed)
           run == A!Analysis(order, found, proposed)
<1>2. Len(order) \in Nat /\ \A i \in 1 .. Len(order) : order[i] \in A!TableIds
  <2>1. A!Cardinality(A!TableIds) \in Nat
    BY TemplateFacts, TemplateSets, FS_CardinalityType
  <2>2. order \in [1 .. A!Cardinality(A!TableIds) -> A!TableIds]
    OBVIOUS
  <2> QED
    BY <2>1, <2>2, ElementsOf
<1>3. run = [maps |-> maps, relations |-> relations, template |-> A!Draft(order, maps, relations, found)]
  BY DEF A!Analysis
<1>4. PICK end, D : Staged(end, maps, found, D) /\ A!Draft(order, maps, relations, found) = DraftOf(end, maps, proposed)
  <2> HIDE DEF maps
  <2> QED
    BY <1>2, DraftIsStaged DEF DraftOf
<1>5. LET tpl == DraftOf(end, maps, proposed)
      IN  Parts(tpl) /\ (tpl.nodes # {} => A!Valid(tpl)) /\ ColumnsKept(tpl)
  <2> HIDE DEF maps
  <2> QED
    BY <1>1, <1>4, DraftIsWhole
<1>6. RelationsOk(relations)
  BY RelationsAreExact
<1> HIDE DEF maps, relations, run
<1>7. run.relations = relations /\ run.template = DraftOf(end, maps, proposed) /\ RunForm(run)
  BY <1>3, <1>4 DEF RunForm
<1>8. ~run.template.confirmed
  BY <1>7 DEF DraftOf
<1>9. RunOk(run) /\ Reviewed(<<>>, run, Len(<<>>))
  BY <1>5, <1>6, <1>7, <1>8 DEF RunOk, TemplateOk, Reviewed
<1>10. IsList(<<>>) /\ VersionsOk(<<>>, {})
  BY DEF IsList, VersionsOk
<1>11. IsList(Append(<<>>, run)) /\ VersionsOk(Append(<<>>, run), {})
  BY <1>9, <1>10, OneMore
<1>12. Append(<<>>, run) = <<run>>
  OBVIOUS
<1> QED
  BY <1>1, <1>10, <1>11, <1>12 DEF run

\* Rows that share no complete key match at most once.
LEMMA UniqueIsOne ==
    ASSUME NEW u, NEW cols, A!Unique(u, cols), NEW k, A!Whole(k)
    PROVE  A!Cardinality({j \in DOMAIN StagedTables[u].rows : A!KeyOf(StagedTables[u].rows[j], cols) = k}) <= 1
<1> DEFINE matches == {j \in DOMAIN StagedTables[u].rows : A!KeyOf(StagedTables[u].rows[j], cols) = k}
<1>1. \A i, j \in matches : i = j
  BY DEF A!Unique
<1> HIDE DEF matches
<1>2. ASSUME matches = {} PROVE Cardinality(matches) = 0
  <2>1. Cardinality(matches) = 0
    BY <1>2, FS_EmptySet
  <2> QED
    BY <2>1
<1>3. ASSUME matches # {} PROVE Cardinality(matches) = 1
  <2>1. PICK i : matches = {i}
    BY <1>1, <1>3
  <2>2. Cardinality(matches) = 1
    BY <2>1, FS_Singleton
  <2> QED
    BY <2>2
<1>4. A!Cardinality(matches) <= 1
  <2>1. Cardinality(matches) = 0 \/ Cardinality(matches) = 1
    BY <1>2, <1>3
  <2>2. A!Cardinality(matches) = Cardinality(matches)
    BY TemplateSets
  <2> QED
    BY <2>1, <2>2
<1> QED
  BY <1>4 DEF matches

LEMMA DraftsMean == DraftInv => DraftsAreExact
<1> SUFFICES ASSUME IsList(versions), VersionsOk(versions, graphs)
             PROVE  A!JoinsAreExact /\ A!GroupsKeepColumns /\ A!DraftIsAdoptable /\ A!GraphsAreApproved
  BY DEF DraftInv, DraftsAreExact
<1>1. ASSUME NEW v \in DOMAIN versions
      PROVE  RunOk(versions[v]) /\ Reviewed(versions, versions[v], v - 1)
  BY DEF VersionsOk
<1>2. A!JoinsAreExact
  <2> SUFFICES ASSUME NEW v \in DOMAIN versions, NEW r \in versions[v].relations
               PROVE  /\ r.cand \in A!Declared \cup Proposals
                      /\ r.ready =>
                        /\ A!MatchedRows(r.cand) # {}
                        /\ \A i \in DOMAIN StagedTables[r.cand.source].rows :
                            LET k == A!KeyOf(StagedTables[r.cand.source].rows[i], r.cand.left)
                            IN  A!Whole(k) => A!Cardinality({j \in DOMAIN StagedTables[r.cand.target].rows :
                                    A!KeyOf(StagedTables[r.cand.target].rows[j], r.cand.right) = k}) <= 1
    BY DEF A!JoinsAreExact
  <2>1. r.cand \in A!Declared \cup Proposals /\ Exact(r)
    BY <1>1 DEF RunOk, RelationsOk
  <2>2. r.ready => A!Unique(r.cand.target, r.cand.right) /\ A!MatchedRows(r.cand) # {}
    BY <2>1 DEF Exact
  <2> QED
    BY <2>1, <2>2, UniqueIsOne
<1>3. A!GroupsKeepColumns
  BY <1>1 DEF A!GroupsKeepColumns, RunOk, TemplateOk, ColumnsKept
<1>4. A!DraftIsAdoptable
  <2> SUFFICES ASSUME NEW v \in DOMAIN versions
               PROVE  LET run == versions[v]
                          preset == A!RowTemplate(run.maps, run.template)
                      IN  /\ run.template.nodes # {} /\ (run.template.mode = "custom" => A!OwnIdentities(run.template)) =>
                                A!Valid(run.template)
                          /\ preset.nodes # {} => A!Valid(preset)
    BY DEF A!DraftIsAdoptable
  <2>1. TemplateOk(versions[v].template)
    BY <1>1 DEF RunOk
  <2>2. CASE versions[v].template.mode = "custom"
    BY <2>1, <2>2, OwnIsValid, PresetIsValid DEF TemplateOk
  <2>3. CASE versions[v].template.mode # "custom"
    BY <2>1, <2>3, PresetIsValid DEF TemplateOk
  <2> QED
    BY <2>2, <2>3
<1>5. A!GraphsAreApproved
  BY <1>1 DEF A!GraphsAreApproved, VersionsOk, Reviewed
<1> QED
  BY <1>2, <1>3, <1>4, <1>5

(* Drafts join exactly what is unique, keep every column of a table in a    *)
(* group and can be adopted as they stand, and what is compiled was         *)
(* approved as it is, over mappings that were there to be reviewed          *)
(* (alignment/templates.py, analyzer.py, editing.py, relations.py).         *)
THEOREM DraftsStayExact == MCSpec => []DraftsAreExact
<1>1. MCInit => DraftInv
  BY DraftInit DEF MCInit, DraftInv
<1>2. DraftInv /\ [MCNext]_allVars => DraftInv'
  <2> SUFFICES ASSUME DraftInv, [MCNext]_allVars PROVE DraftInv'
    OBVIOUS
  <2>1. CASE part = "templates" /\ A!Next /\ UNCHANGED part
    BY <2>1, DraftNext DEF DraftInv
  <2>2. CASE UNCHANGED <<part, templatesVars>>
    BY <2>2 DEF DraftInv, templatesVars
  <2> QED
    BY <2>1, <2>2 DEF MCNext, allVars
<1>3. DraftInv => DraftsAreExact
  BY DraftsMean
<1> QED
  BY <1>1, <1>2, <1>3, PTL DEF MCSpec

----
(* Readers: sequences, positions and ranks.                                 *)

\* The finite sets of SourceReaders are those of FiniteSets.
LEMMA ReaderSets ==
    /\ \A Q : S!Cardinality(Q) = Cardinality(Q)
    /\ \A Q : S!IsFiniteSet(Q) <=> IsFiniteSet(Q)
BY DEF S!Cardinality, Cardinality, S!IsFiniteSet, IsFiniteSet

\* A sequence is a function on an interval.
LEMMA SequenceFacts ==
    ASSUME NEW s, S!IsSequence(s)
    PROVE  /\ Len(s) \in Nat /\ DOMAIN s = 1 .. Len(s)
           /\ s = [i \in DOMAIN s |-> s[i]]
           /\ s = <<>> <=> Len(s) = 0
BY DEF S!IsSequence

\* A function on an interval is a sequence of that length.
LEMMA LenOf ==
    ASSUME NEW n \in Nat, NEW f, f = [i \in 1 .. n |-> f[i]]
    PROVE  /\ Len(f) = n /\ DOMAIN f = 1 .. n
           /\ f = <<>> <=> n = 0
<1>1. f \in Seq({f[i] : i \in 1 .. n})
  <2>1. f \in [1 .. n -> {f[i] : i \in 1 .. n}]
    OBVIOUS
  <2> QED
    BY <2>1
<1>2. DOMAIN f = 1 .. n
  OBVIOUS
<1> QED
  BY <1>1, <1>2

\* Positions follow the last one unless they are stated.
LEMMA PositionsStep ==
    ASSUME NEW n \in Nat, NEW stated \in [1 .. n -> Nat]
    PROVE  LET at == S!Positions(stated)
           IN  /\ at \in [1 .. n -> Nat \ {0}] /\ Len(at) = n
               /\ \A i \in 1 .. n : at[i] = S!Number(stated[i], IF i = 1 THEN 0 ELSE at[i - 1])
<1>. DEFINE Is(f, k) == f = [i \in 0 .. k |-> IF i = 0 THEN 0 ELSE S!Number(stated[i], f[i - 1])]
            Bad == {k \in 0 .. n : ~\E f : Is(f, k)}
<1>0. Len(stated) = n
  BY LenOf
<1>1. Bad = {}
  <2>1. SUFFICES ASSUME Bad # {} PROVE FALSE
    OBVIOUS
  <2>2. PICK k \in Bad : \A j \in Bad : k <= j
    <3>1. Bad \subseteq Nat
      OBVIOUS
    <3>. HIDE DEF Bad
    <3> QED
      BY <2>1, <3>1, LeastNat
  <2>3. k # 0
    <3>1. Is([i \in 0 .. 0 |-> 0], 0)
      OBVIOUS
    <3> QED
      BY <3>1
  <2>4. PICK f : Is(f, k - 1)
    <3>1. k - 1 \in 0 .. n /\ ~(k <= k - 1)
      BY <2>3
    <3> QED
      BY <2>2, <3>1
  <2>. DEFINE g == [i \in 0 .. k |-> IF i = k THEN S!Number(stated[k], f[k - 1]) ELSE f[i]]
  <2>5. Is(g, k)
    <3>1. ASSUME NEW i \in 0 .. k PROVE g[i] = IF i = 0 THEN 0 ELSE S!Number(stated[i], g[i - 1])
      <4>1. CASE i = k
        BY <2>3, <4>1
      <4>2. CASE i # k
        <5>1. i \in 0 .. k - 1 /\ (i # 0 => i - 1 \in 0 .. k - 1)
          BY <4>2
        <5>2. f[i] = IF i = 0 THEN 0 ELSE S!Number(stated[i], f[i - 1])
          BY <2>4, <5>1
        <5> QED
          BY <4>2, <5>1, <5>2
      <4> QED
        BY <4>1, <4>2
    <3> QED
      BY <3>1
  <2> QED
    BY <2>5
<1>2. PICK at : S!Positions(stated) = [i \in 1 .. n |-> at[i]] /\ Is(at, n)
  <2>. DEFINE at == CHOOSE f : f = [i \in 0 .. Len(stated) |-> IF i = 0 THEN 0 ELSE S!Number(stated[i], f[i - 1])]
  <2>1. S!Positions(stated) = [i \in 1 .. n |-> at[i]]
    BY <1>0 DEF S!Positions
  <2>2. Is(at, n)
    <3>1. \E f : Is(f, n)
      <4>. HIDE DEF Is
      <4>1. n \in 0 .. n
        OBVIOUS
      <4>2. n \notin Bad
        <5>. HIDE DEF Bad
        <5> QED
          BY <1>1
      <4> QED
        BY <4>1, <4>2
    <3> QED
      BY <3>1, <1>0
  <2> QED
    BY <2>1, <2>2
<1>3. \A i \in 1 .. n : at[i] \in Nat \ {0}
  <2>. DEFINE Wrong == {i \in 1 .. n : at[i] \notin Nat \ {0}}
  <2>1. SUFFICES ASSUME Wrong # {} PROVE FALSE
    OBVIOUS
  <2>2. PICK i \in Wrong : \A j \in Wrong : i <= j
    <3>1. Wrong \subseteq Nat
      OBVIOUS
    <3>. HIDE DEF Wrong
    <3> QED
      BY <2>1, <3>1, LeastNat
  <2>3. at[i - 1] \in Nat
    <3>1. CASE i = 1
      BY <1>2, <3>1
    <3>2. CASE i # 1
      <4>1. i - 1 \in 1 .. n /\ ~(i <= i - 1)
        BY <3>2
      <4> QED
        BY <2>2, <4>1
    <3> QED
      BY <3>1, <3>2
  <2>4. at[i] = S!Number(stated[i], at[i - 1])
    BY <1>2
  <2> QED
    BY <2>2, <2>3, <2>4 DEF S!Number
<1>4. Len(S!Positions(stated)) = n
  BY <1>2, LenOf
<1>5. ASSUME NEW i \in 1 .. n PROVE S!Positions(stated)[i] = S!Number(stated[i], IF i = 1 THEN 0 ELSE S!Positions(stated)[i - 1])
  <2>1. at[i] = S!Number(stated[i], at[i - 1])
    BY <1>2
  <2>2. i # 1 => i - 1 \in 1 .. n
    OBVIOUS
  <2>3. i = 1 => at[i - 1] = 0
    BY <1>2
  <2> QED
    BY <1>2, <2>1, <2>2, <2>3
<1> QED
  BY <1>2, <1>3, <1>4, <1>5

\* The rank of a position: how it grows, and that it counts the set in the end.
LEMMA RankFacts ==
    ASSUME NEW n \in Nat, NEW Q, Q \subseteq 1 .. n
    PROVE  /\ IsFiniteSet(Q) /\ Cardinality(Q) \in Nat
           /\ S!Rank(Q, 0) = 0 /\ S!Rank(Q, n) = Cardinality(Q)
           /\ \A i \in 0 .. n : S!Rank(Q, i) \in Nat /\ S!Rank(Q, i) <= Cardinality(Q)
           /\ \A i \in 0 .. n - 1 : S!Rank(Q, i + 1) = IF i + 1 \in Q THEN S!Rank(Q, i) + 1 ELSE S!Rank(Q, i)
           /\ \A i, j \in 0 .. n : i <= j => S!Rank(Q, i) <= S!Rank(Q, j)
           /\ \A i \in Q : S!Rank(Q, i) \in 1 .. Cardinality(Q)
<1>. DEFINE Upto(i) == {j \in Q : j <= i}
<1>1. IsFiniteSet(Q) /\ Cardinality(Q) \in Nat
  <2>1. IsFiniteSet(1 .. n)
    BY FS_Interval
  <2> QED
    BY <2>1, FS_Subset, FS_CardinalityType
<1>2. ASSUME NEW i PROVE S!Rank(Q, i) = Cardinality(Upto(i))
  BY ReaderSets DEF S!Rank
<1>3. ASSUME NEW i PROVE IsFiniteSet(Upto(i)) /\ Cardinality(Upto(i)) \in Nat /\ Cardinality(Upto(i)) <= Cardinality(Q)
  BY <1>1, FS_Subset, FS_CardinalityType
<1>0. \A q \in Q : q \in Int /\ 1 <= q /\ q <= n
  OBVIOUS
<1>4. Upto(0) = {} /\ Upto(n) = Q
  <2>1. \A q \in Q : ~(q <= 0)
    BY <1>0
  <2> QED
    BY <1>0, <2>1
<1>5. ASSUME NEW i \in 0 .. n - 1
      PROVE  Cardinality(Upto(i + 1)) = IF i + 1 \in Q THEN Cardinality(Upto(i)) + 1 ELSE Cardinality(Upto(i))
  <2>1. CASE i + 1 \in Q
    <3>1. Upto(i + 1) = Upto(i) \cup {i + 1} /\ i + 1 \notin Upto(i)
      <4>1. \A q \in Q : (q <= i + 1 <=> q <= i \/ q = i + 1) /\ ~(i + 1 <= i)
        BY <1>0
      <4> QED
        BY <2>1, <4>1
    <3>. HIDE DEF Upto
    <3> QED
      BY <2>1, <3>1, <1>3, FS_AddElement
  <2>2. CASE i + 1 \notin Q
    <3>1. Upto(i + 1) = Upto(i)
      <4>1. \A q \in Q : q # i + 1 => (q <= i + 1 <=> q <= i)
        BY <1>0
      <4> QED
        BY <2>2, <4>1
    <3> QED
      BY <2>2, <3>1
  <2> QED
    BY <2>1, <2>2
<1>6. ASSUME NEW i \in 0 .. n, NEW j \in 0 .. n, i <= j PROVE Cardinality(Upto(i)) <= Cardinality(Upto(j))
  <2>1. Upto(i) \subseteq Upto(j)
    <3>1. \A q \in Q : q <= i => q <= j
      BY <1>0, <1>6
    <3> QED
      BY <3>1
  <2>. HIDE DEF Upto
  <2> QED
    BY <2>1, <1>3, FS_Subset
<1>7. ASSUME NEW i \in Q PROVE Cardinality(Upto(i)) # 0
  <2>1. i \in Upto(i)
    OBVIOUS
  <2>. HIDE DEF Upto
  <2> QED
    BY <2>1, <1>3, FS_EmptySet
<1>8. \A i \in Q : S!Rank(Q, i) \in 1 .. Cardinality(Q)
  <2>. HIDE DEF Upto
  <2> QED
    BY <1>1, <1>2, <1>3, <1>7
<1>. HIDE DEF Upto
<1>9. S!Rank(Q, 0) = 0 /\ S!Rank(Q, n) = Cardinality(Q)
  BY <1>2, <1>4, FS_EmptySet
<1>10. \A i \in 0 .. n - 1 : S!Rank(Q, i + 1) = IF i + 1 \in Q THEN S!Rank(Q, i) + 1 ELSE S!Rank(Q, i)
  BY <1>2, <1>5
<1>11. \A i, j \in 0 .. n : i <= j => S!Rank(Q, i) <= S!Rank(Q, j)
  BY <1>2, <1>6
<1> QED
  BY <1>1, <1>2, <1>3, <1>8, <1>9, <1>10, <1>11

----
(* Sheets as they are parsed: the numbers and the values of their rows.     *)

Parsed(d, s) ==
    /\ S!IsSequence(s.rows)
    /\ \A j \in DOMAIN s.rows :
        /\ s.rows[j].number \in Nat /\ (~S!Workbook(d) => s.rows[j].number = 0)
        /\ S!IsSequence(s.rows[j].cells)
        /\ \A k \in DOMAIN s.rows[j].cells : s.rows[j].cells[k].col \in Nat

\* The limits are numbers.
LEMMA LimitsAreNat == MaxTables \in Nat /\ MaxRows \in Nat /\ MaxColumns \in Nat /\ MaxCells \in Nat
BY InputsAssumption DEF S!ReaderAssumption

\* What is assumed of a parsed file, sheet by sheet.
LEMMA SheetsAreParsed ==
    ASSUME NEW d \in Documents, d.kind # "mysql"
    PROVE  /\ d.header \in Nat \ {0}
           /\ S!IsSequence(S!Sheets(d))
           /\ \A i \in DOMAIN S!Sheets(d) : Parsed(d, S!Sheets(d)[i])
<1>1. S!ReaderAssumption
  BY InputsAssumption
<1>2. d.header \in Nat \ {0} /\ S!IsSequence(S!Sheets(d))
  BY <1>1 DEF S!ReaderAssumption
<1>3. ASSUME NEW i \in DOMAIN S!Sheets(d) PROVE Parsed(d, S!Sheets(d)[i])
  <2>1. S!IsSequence(S!Sheets(d)[i].rows)
    BY <1>1 DEF S!ReaderAssumption
  <2>2. ASSUME NEW j \in DOMAIN S!Sheets(d)[i].rows
        PROVE  /\ S!Sheets(d)[i].rows[j].number \in Nat
               /\ ~S!Workbook(d) => S!Sheets(d)[i].rows[j].number = 0
               /\ S!IsSequence(S!Sheets(d)[i].rows[j].cells)
               /\ \A k \in DOMAIN S!Sheets(d)[i].rows[j].cells : S!Sheets(d)[i].rows[j].cells[k].col \in Nat
    BY <1>1 DEF S!ReaderAssumption
  <2> QED
    BY <2>1, <2>2 DEF Parsed
<1> QED
  BY <1>2, <1>3

\* Rows are numbered from the row before unless they state a number.
LEMMA NumFacts ==
    ASSUME NEW d, NEW s, Parsed(d, s)
    PROVE  /\ Len(s.rows) \in Nat /\ DOMAIN s.rows = S!Rows(s)
           /\ \A i \in S!Rows(s) :
                /\ S!Num(s, i) \in Nat \ {0}
                /\ S!Num(s, i) = S!Number(s.rows[i].number, IF i = 1 THEN 0 ELSE S!Num(s, i - 1))
                /\ ~S!Workbook(d) => S!Num(s, i) = i
<1>. DEFINE n == Len(s.rows)
            refs2 == [k \in 1 .. n |-> s.rows[k].number]
<1>1. n \in Nat /\ DOMAIN s.rows = 1 .. n
  BY SequenceFacts DEF Parsed
<1>2. refs2 \in [1 .. n -> Nat]
  BY <1>1 DEF Parsed
<1>3. \A i : S!Num(s, i) = S!Positions(refs2)[i]
  BY DEF S!Num, S!Rows
<1>4. S!Rows(s) = 1 .. n
  BY DEF S!Rows
<1>5. /\ S!Positions(refs2) \in [1 .. n -> Nat \ {0}]
      /\ \A i \in 1 .. n : S!Positions(refs2)[i] = S!Number(refs2[i], IF i = 1 THEN 0 ELSE S!Positions(refs2)[i - 1])
  <2>. HIDE DEF refs2, n
  <2> QED
    BY <1>1, <1>2, PositionsStep
<1>6. \A i \in 1 .. n : refs2[i] = s.rows[i].number
  OBVIOUS
<1>7. ASSUME ~S!Workbook(d) PROVE \A i \in 1 .. n : S!Num(s, i) = i
  <2>. DEFINE Off == {i \in 1 .. n : S!Num(s, i) # i}
  <2>1. SUFFICES ASSUME Off # {} PROVE FALSE
    OBVIOUS
  <2>2. PICK i \in Off : \A j \in Off : i <= j
    <3>1. Off \subseteq Nat
      OBVIOUS
    <3>. HIDE DEF Off
    <3> QED
      BY <2>1, <3>1, LeastNat
  <2>3. refs2[i] = 0
    BY <1>1, <1>7 DEF Parsed
  <2>4. S!Num(s, i) = (IF i = 1 THEN 0 ELSE S!Num(s, i - 1)) + 1
    <3>. HIDE DEF refs2
    <3> QED
      BY <1>3, <1>5, <2>3 DEF S!Number
  <2>5. CASE i = 1
    BY <2>2, <2>4, <2>5
  <2>6. CASE i # 1
    <3>1. i - 1 \in 1 .. n /\ ~(i <= i - 1)
      BY <2>6
    <3>2. i - 1 \notin Off
      BY <2>2, <3>1
    <3>3. S!Num(s, i - 1) = i - 1
      BY <3>1, <3>2
    <3> QED
      BY <2>2, <2>4, <2>6, <3>3
  <2> QED
    BY <2>5, <2>6
<1>. HIDE DEF refs2, n
<1>8. \A i \in 1 .. n : S!Num(s, i) \in Nat \ {0}
  BY <1>3, <1>5
<1>9. \A i \in 1 .. n : S!Num(s, i) = S!Number(s.rows[i].number, IF i = 1 THEN 0 ELSE S!Num(s, i - 1))
  BY <1>3, <1>5, <1>6
<1> QED
  BY <1>1, <1>4, <1>7, <1>8, <1>9 DEF n

\* Of the cells of one column, the last is the one that is taken.
InColumn(n, at, k) == {i \in 1 .. n : at[i] = k}
LastInColumn(n, at, k) == {j \in 1 .. n : at[j] = k /\ \A l \in 1 .. n : at[l] = k => l <= j}

LEMMA LastOfColumn ==
    ASSUME NEW n \in Nat, NEW at, NEW k
    PROVE  /\ InColumn(n, at, k) = {} <=> LastInColumn(n, at, k) = {}
           /\ InColumn(n, at, k) # {} =>
                (CHOOSE i \in InColumn(n, at, k) : \A j \in InColumn(n, at, k) : j <= i) =
                    (CHOOSE j \in LastInColumn(n, at, k) : TRUE)
<1>. DEFINE here == {i \in 1 .. n : at[i] = k}
            final == {j \in 1 .. n : at[j] = k /\ \A l \in 1 .. n : at[l] = k => l <= j}
<1>0. InColumn(n, at, k) = here /\ LastInColumn(n, at, k) = final
  BY DEF InColumn, LastInColumn
<1>1. final \subseteq here /\ here \subseteq 1 .. n
  OBVIOUS
<1>2. \A i : i \in final <=> i \in here /\ \A j \in here : j <= i
  OBVIOUS
<1>3. ASSUME here # {} PROVE \E i \in here : \A j \in here : j <= i
  <2>. DEFINE bounds == {b \in 1 .. n : \A j \in here : j <= b}
  <2>1. PICK some \in here : TRUE
    BY <1>3
  <2>2. n \in bounds
    BY <2>1
  <2>3. PICK b \in bounds : \A c \in bounds : b <= c
    <3>1. bounds \subseteq Nat
      OBVIOUS
    <3>. HIDE DEF bounds
    <3> QED
      BY <2>2, <3>1, LeastNat
  <2>4. b \in here
    <3>1. SUFFICES ASSUME b \notin here PROVE FALSE
      OBVIOUS
    <3>. HIDE DEF here
    <3>2. \A j \in here : j \in Int /\ j <= b - 1
      BY <1>1, <2>3, <3>1
    <3>3. b - 1 \in 1 .. n
      BY <1>1, <2>1, <2>3, <3>2
    <3>4. b - 1 \in bounds
      BY <3>2, <3>3
    <3> QED
      BY <2>3, <3>3, <3>4
  <2> QED
    BY <2>3, <2>4
<1>4. \A i, j \in here : i <= j /\ j <= i => i = j
  BY <1>1
<1>. HIDE DEF here, final
<1>5. here = {} <=> final = {}
  BY <1>1, <1>2, <1>3
<1>6. ASSUME here # {} PROVE (CHOOSE i \in here : \A j \in here : j <= i) = (CHOOSE j \in final : TRUE)
  <2>1. PICK m \in here : \A j \in here : j <= m
    BY <1>3, <1>6
  <2>2. \A i : i \in here /\ (\A j \in here : j <= i) <=> i = m
    BY <1>4, <2>1
  <2>3. final = {m}
    BY <1>2, <2>2
  <2>4. (CHOOSE i \in here : \A j \in here : j <= i) = m
    BY <2>2
  <2> QED
    BY <2>3, <2>4
<1> QED
  BY <1>0, <1>5, <1>6

\* The reader's values of a row are those of the reference.
LEMMA ValFacts ==
    ASSUME NEW d, NEW s, Parsed(d, s), NEW i \in S!Rows(s)
    PROVE  /\ S!Values(d, s.rows[i]) = S!Val(d, s, i)
           /\ Len(S!Val(d, s, i)) \in Nat /\ DOMAIN S!Val(d, s, i) = 1 .. Len(S!Val(d, s, i))
           /\ S!Val(d, s, i) = [k \in DOMAIN S!Val(d, s, i) |-> S!Val(d, s, i)[k]]
           /\ S!Val(d, s, i) = <<>> <=> Len(S!Val(d, s, i)) = 0
<1>. DEFINE cs == s.rows[i].cells
            cols == [k \in 1 .. Len(cs) |-> cs[k].col]
            at == S!Positions(cols)
            w == IF cs = <<>> THEN 0 ELSE at[Len(cs)]
<1>1. S!IsSequence(cs) /\ \A k \in DOMAIN cs : cs[k].col \in Nat
  BY NumFacts DEF Parsed
<1>2. Len(cs) \in Nat /\ DOMAIN cs = 1 .. Len(cs) /\ (cs = <<>> <=> Len(cs) = 0)
  BY <1>1, SequenceFacts
<1>3. cols \in [1 .. Len(cs) -> Nat]
  BY <1>1, <1>2
<1>4. at \in [1 .. Len(cs) -> Nat \ {0}] /\ Len(at) = Len(cs)
  <2>. HIDE DEF cs, cols
  <2> QED
    BY <1>2, <1>3, PositionsStep
<1>5. w \in Nat
  <2>. HIDE DEF cs, at
  <2> QED
    BY <1>2, <1>4
<1>6. S!Columns(cs) = at
  BY DEF S!Columns
<1>7. CASE S!Workbook(d)
  <2>. DEFINE here(k) == InColumn(Len(cs), at, k)
              final(k) == LastInColumn(Len(cs), at, k)
              taken(k) == IF final(k) = {} THEN None ELSE cs[CHOOSE j \in final(k) : TRUE].value
              v == [k \in 1 .. w |-> taken(k)]
  <2>1. DOMAIN at = 1 .. Len(cs)
    BY <1>4
  <2>2. S!Values(d, s.rows[i]) = v
    <3>. DEFINE there(k) == {j \in DOMAIN cs : S!Columns(cs)[j] = k}
    <3>1. S!Values(d, s.rows[i]) = S!Layout(cs)
      BY <1>7 DEF S!Values
    <3>2. S!Layout(cs) = [k \in 1 .. (IF cs = <<>> THEN 0 ELSE S!Columns(cs)[Len(cs)]) |->
                            IF there(k) = {} THEN None
                            ELSE cs[CHOOSE j \in there(k) : \A l \in there(k) : l <= j].value]
      <4>. HIDE DEF cs
      <4> QED
        BY DEF S!Layout
    <3>3. ASSUME NEW k PROVE there(k) = here(k)
      <4>. HIDE DEF cs, at
      <4> QED
        BY <1>2, <1>6 DEF InColumn
    <3>4. ASSUME NEW k
          PROVE  /\ here(k) = {} <=> final(k) = {}
                 /\ here(k) # {} => (CHOOSE j \in here(k) : \A l \in here(k) : l <= j) = (CHOOSE j \in final(k) : TRUE)
      <4>. HIDE DEF cs, at
      <4> QED
        BY <1>2, LastOfColumn
    <3>5. (IF cs = <<>> THEN 0 ELSE S!Columns(cs)[Len(cs)]) = w
      BY <1>6
    <3>. DEFINE value(k) == IF there(k) = {} THEN None
                            ELSE cs[CHOOSE j \in there(k) : \A l \in there(k) : l <= j].value
    <3>6. ASSUME NEW k PROVE value(k) = taken(k)
      <4>1. PICK one, two : one = here(k) /\ two = final(k)
        OBVIOUS
      <4>2. /\ one = {} <=> two = {}
            /\ one # {} => (CHOOSE j \in one : \A l \in one : l <= j) = (CHOOSE j \in two : TRUE)
        <5>. HIDE DEF here, final
        <5> QED
          BY <3>4, <4>1
      <4>3. there(k) = one
        BY <3>3, <4>1
      <4>. HIDE DEF there, here, final, cs
      <4>4. value(k) = IF one = {} THEN None ELSE cs[CHOOSE j \in one : \A l \in one : l <= j].value
        BY <4>3
      <4>5. taken(k) = IF two = {} THEN None ELSE cs[CHOOSE j \in two : TRUE].value
        BY <4>1
      <4> QED
        BY <4>2, <4>4, <4>5
    <3>7. S!Values(d, s.rows[i]) = [k \in 1 .. w |-> value(k)]
      <4>. HIDE DEF value, cs, w
      <4> QED
        BY <3>1, <3>2, <3>5 DEF value
    <3>. HIDE DEF value, taken, cs, w
    <3> QED
      BY <3>6, <3>7
  <2>3. S!Val(d, s, i) = v
    <3>. DEFINE there(k) == {j \in DOMAIN S!Columns(cs) :
                              S!Columns(cs)[j] = k /\ \A l \in DOMAIN S!Columns(cs) : S!Columns(cs)[l] = k => l <= j}
    <3>1. S!Val(d, s, i) =
            [k \in 1 .. (IF cs = <<>> THEN 0 ELSE S!Columns(cs)[Len(S!Columns(cs))]) |->
                IF there(k) = {} THEN None ELSE cs[CHOOSE j \in there(k) : TRUE].value]
      BY <1>7 DEF S!Val
    <3>2. ASSUME NEW k PROVE there(k) = final(k)
      <4>. HIDE DEF cs, at
      <4> QED
        BY <1>6, <2>1 DEF LastInColumn
    <3>3. (IF cs = <<>> THEN 0 ELSE S!Columns(cs)[Len(S!Columns(cs))]) = w
      <4>. HIDE DEF cs, at
      <4> QED
        BY <1>4, <1>6 DEF w
    <3>. DEFINE value(k) == IF there(k) = {} THEN None ELSE cs[CHOOSE j \in there(k) : TRUE].value
    <3>4. ASSUME NEW k PROVE value(k) = taken(k)
      <4>. HIDE DEF there, final, cs
      <4>1. PICK one : one = there(k)
        OBVIOUS
      <4>2. final(k) = one
        BY <3>2, <4>1
      <4>3. value(k) = IF one = {} THEN None ELSE cs[CHOOSE j \in one : TRUE].value
        BY <4>1
      <4>4. taken(k) = IF one = {} THEN None ELSE cs[CHOOSE j \in one : TRUE].value
        BY <4>2
      <4> QED
        BY <4>3, <4>4
    <3>5. S!Val(d, s, i) = [k \in 1 .. w |-> value(k)]
      <4>. HIDE DEF cs, w
      <4> QED
        BY <3>1, <3>3
    <3>. HIDE DEF value, taken, cs, w
    <3> QED
      BY <3>4, <3>5
  <2>4. v = [k \in 1 .. w |-> v[k]]
    <3>. HIDE DEF taken, w
    <3> QED
      OBVIOUS
  <2>. HIDE DEF v, w
  <2> QED
    BY <2>2, <2>3, <2>4, <1>5, LenOf
<1>8. CASE ~S!Workbook(d)
  <2>. DEFINE v == [k \in 1 .. Len(cs) |-> cs[k].value]
  <2>1. S!Values(d, s.rows[i]) = v
    BY <1>8 DEF S!Values
  <2>2. S!Val(d, s, i) = v
    BY <1>8 DEF S!Val
  <2>3. v = [k \in 1 .. Len(cs) |-> v[k]]
    OBVIOUS
  <2>. HIDE DEF v, cs
  <2> QED
    BY <2>1, <2>2, <2>3, <1>2, LenOf
<1> QED
  BY <1>7, <1>8

----
(* One sheet, row by row.                                                   *)

\* A value by its column.
Cell(d, s, i, k) == IF k \in DOMAIN S!Val(d, s, i) THEN S!Val(d, s, i)[k] ELSE None
RowOf(d, s, i, width) == [number |-> S!Num(s, i), values |-> S!Padded(S!Val(d, s, i), width)]

\* The rows that the reader yields of a sheet: all of them, or those that raise
\* the highest number.
LEMMA YieldedFacts ==
    ASSUME NEW d, NEW s, Parsed(d, s)
    PROVE  /\ S!Yielded(d, s) \subseteq S!Rows(s) /\ S!Rows(s) = 1 .. Len(s.rows)
           /\ d.kind # "buffer" => S!Yielded(d, s) = S!Rows(s)
           /\ d.kind = "buffer" =>
                \A j \in S!Yielded(d, s) : \A i \in 1 .. j - 1 : S!Num(s, i) < S!Num(s, j)
<1>1. S!Rows(s) = 1 .. Len(s.rows)
  BY DEF S!Rows
<1>2. ASSUME d.kind = "buffer", NEW j \in S!Yielded(d, s), NEW i \in 1 .. j - 1 PROVE S!Num(s, i) < S!Num(s, j)
  <2>1. j \in S!Rows(s) /\ ~(S!Num(s, i) >= S!Num(s, j))
    BY <1>2 DEF S!Yielded, S!Skipped
  <2>2. i \in S!Rows(s)
    BY <1>1, <2>1, NumFacts
  <2>3. S!Num(s, i) \in Nat /\ S!Num(s, j) \in Nat
    BY <2>1, <2>2, NumFacts
  <2> QED
    BY <2>1, <2>3
<1>3. S!Yielded(d, s) \subseteq S!Rows(s) /\ (d.kind # "buffer" => S!Yielded(d, s) = S!Rows(s))
  BY DEF S!Yielded
<1> QED
  BY <1>1, <1>2, <1>3

\* The first n rows have a header, or a row where it should have been.
Has(d, s, n) == \E i \in S!Yielded(d, s) : i <= n /\ S!Num(s, i) >= d.header /\ (S!Workbook(d) => ~S!Blank(d, s, i))
DataTo(d, s, n) == {i \in S!DataRows(d, s) : i <= n}
KindsTo(d, s, n, k) == {Cell(d, s, i, k)[1] : i \in {j \in DataTo(d, s, n) : ~S!Untyped(Cell(d, s, j, k))}}
NullsTo(d, s, n, k) == \E i \in DataTo(d, s, n) : S!Untyped(Cell(d, s, i, k))

\* A reader of n rows and the rows it has handed on, with the header in row h.
TableSoFar(d, s, n, h, rd, rs) ==
    LET names == S!HeaderOf(d, S!Val(d, s, h))
    IN  /\ S!Num(s, h) = d.header /\ S!GoodHeader(names)
        /\ rd = [names |-> names, count |-> S!Rank(S!DataRows(d, s), n),
                 kinds |-> [k \in DOMAIN names |-> KindsTo(d, s, n, k)],
                 nulls |-> [k \in DOMAIN names |-> NullsTo(d, s, n, k)]]
        /\ S!Rank(S!DataRows(d, s), n) <= MaxRows
        /\ \A i \in DataTo(d, s, n) : S!Fits(d, s, i, Len(names))
        /\ S!IsSequence(rs) /\ Len(rs) = S!Rank(S!DataRows(d, s), n)
        /\ \A i \in DataTo(d, s, n) : rs[S!Rank(S!DataRows(d, s), i)] = RowOf(d, s, i, Len(names))

OpenSheet(d, s, n, l, rd, rs) ==
    /\ n \in 0 .. Len(s.rows)
    /\ l = IF n = 0 THEN 0 ELSE S!Num(s, n)
    /\ \A i \in S!Yielded(d, s) : i <= n => S!RowIsSound(d, s, i)
    /\ Has(d, s, n) => \E h \in S!Yielded(d, s) : h <= n /\ TableSoFar(d, s, n, h, rd, rs)
    /\ ~Has(d, s, n) => rd = S!NoReader

\* A header is a sequence of names, and empty without a value.
LEMMA HeaderFacts ==
    ASSUME NEW d, NEW s, Parsed(d, s), NEW i \in S!Rows(s)
    PROVE  LET names == S!HeaderOf(d, S!Val(d, s, i))
           IN  /\ Len(names) \in Nat /\ DOMAIN names = 1 .. Len(names)
               /\ S!Workbook(d) /\ S!Blank(d, s, i) => Len(names) = 0
<1>. DEFINE v == S!Val(d, s, i)
            nonempty == {k \in DOMAIN v : v[k] # None}
            m == IF nonempty = {} THEN 0 ELSE CHOOSE k \in nonempty : \A j \in nonempty : j <= k
<1>1. Len(v) \in Nat /\ DOMAIN v = 1 .. Len(v) /\ v = [k \in DOMAIN v |-> v[k]]
  BY ValFacts
<1>2. CASE ~S!Workbook(d)
  <2>1. S!HeaderOf(d, v) = v
    BY <1>2 DEF S!HeaderOf
  <2> QED
    BY <1>1, <1>2, <2>1
<1>3. CASE S!Workbook(d)
  <2>1. S!HeaderOf(d, v) = SubSeq(v, 1, m)
    BY <1>3 DEF S!HeaderOf, S!Stripped
  <2>2. m \in 0 .. Len(v)
    <3>1. CASE nonempty = {}
      BY <1>1, <3>1
    <3>2. CASE nonempty # {}
      <4>. DEFINE bounds == {b \in 1 .. Len(v) : \A j \in nonempty : j <= b}
      <4>1. \A j \in nonempty : j \in Int /\ 1 <= j /\ j <= Len(v)
        BY <1>1
      <4>2. PICK some \in nonempty : TRUE
        BY <3>2
      <4>3. Len(v) \in bounds
        BY <1>1, <4>1, <4>2
      <4>4. PICK b \in bounds : \A c \in bounds : b <= c
        <5>1. bounds \subseteq Nat
          BY <1>1
        <5>. HIDE DEF bounds
        <5> QED
          BY <4>3, <5>1, LeastNat
      <4>5. b \in nonempty
        <5>1. SUFFICES ASSUME b \notin nonempty PROVE FALSE
          OBVIOUS
        <5>2. \A j \in nonempty : j <= b - 1
          BY <4>1, <4>4, <5>1, <1>1
        <5>3. b - 1 \in 1 .. Len(v)
          BY <4>1, <4>2, <4>4, <5>2, <1>1
        <5>4. b - 1 \in bounds
          BY <5>2, <5>3
        <5> QED
          BY <4>4, <5>3, <5>4, <1>1
      <4>6. \A j \in nonempty : j <= b
        BY <4>4
      <4>7. m \in nonempty
        <5>. HIDE DEF nonempty
        <5> QED
          BY <3>2, <4>5, <4>6
      <4>. HIDE DEF m
      <4> QED
        BY <1>1, <4>7
    <3> QED
      BY <3>1, <3>2
  <2>3. Len(SubSeq(v, 1, m)) = m /\ DOMAIN SubSeq(v, 1, m) = 1 .. m
    <3>1. v \in Seq({v[k] : k \in DOMAIN v})
      <4>1. v \in [1 .. Len(v) -> {v[k] : k \in DOMAIN v}]
        BY <1>1
      <4> QED
        BY <1>1, <4>1
    <3>. HIDE DEF m, v
    <3> QED
      BY <2>2, <3>1, <1>1
  <2>4. S!Blank(d, s, i) => m = 0
    BY <1>3 DEF S!Blank, S!AllNone
  <2>5. m \in Nat
    BY <1>1, <2>2
  <2> QED
    BY <1>1, <2>1, <2>3, <2>4, <2>5
<1> QED
  BY <1>2, <1>3

\* One row more: the data rows, kinds and nulls up to it.
LEMMA DataFacts ==
    ASSUME NEW d, NEW s, Parsed(d, s)
    PROVE  /\ S!DataRows(d, s) \subseteq 1 .. Len(s.rows) /\ Len(s.rows) \in Nat
           /\ IsFiniteSet(S!DataRows(d, s)) /\ Cardinality(S!DataRows(d, s)) \in Nat
           /\ S!Rank(S!DataRows(d, s), 0) = 0
           /\ S!Rank(S!DataRows(d, s), Len(s.rows)) = Cardinality(S!DataRows(d, s))
           /\ \A i \in 0 .. Len(s.rows) : S!Rank(S!DataRows(d, s), i) \in 0 .. Cardinality(S!DataRows(d, s))
           /\ \A i \in 0 .. Len(s.rows) - 1 :
                S!Rank(S!DataRows(d, s), i + 1) = S!Rank(S!DataRows(d, s), i) + (IF i + 1 \in S!DataRows(d, s) THEN 1 ELSE 0)
           /\ \A i, j \in 0 .. Len(s.rows) : i <= j => S!Rank(S!DataRows(d, s), i) <= S!Rank(S!DataRows(d, s), j)
           /\ \A i \in S!DataRows(d, s) : S!Rank(S!DataRows(d, s), i) \in 1 .. Cardinality(S!DataRows(d, s))
<1>1. S!DataRows(d, s) \subseteq 1 .. Len(s.rows) /\ Len(s.rows) \in Nat
  BY NumFacts, YieldedFacts DEF S!DataRows
<1>2. PICK Q, size : Q = S!DataRows(d, s) /\ size = Len(s.rows)
  OBVIOUS
<1>3. /\ IsFiniteSet(Q) /\ Cardinality(Q) \in Nat
      /\ S!Rank(Q, 0) = 0 /\ S!Rank(Q, size) = Cardinality(Q)
      /\ \A i \in 0 .. size : S!Rank(Q, i) \in Nat /\ S!Rank(Q, i) <= Cardinality(Q)
      /\ \A i \in 0 .. size - 1 : S!Rank(Q, i + 1) = IF i + 1 \in Q THEN S!Rank(Q, i) + 1 ELSE S!Rank(Q, i)
      /\ \A i, j \in 0 .. size : i <= j => S!Rank(Q, i) <= S!Rank(Q, j)
      /\ \A i \in Q : S!Rank(Q, i) \in 1 .. Cardinality(Q)
  <2>1. Q \subseteq 1 .. size /\ size \in Nat
    BY <1>1, <1>2
  <2> QED
    BY <2>1, RankFacts
<1>4. \A i \in 0 .. size : S!Rank(Q, i) \in 0 .. Cardinality(Q)
  BY <1>3
<1>5. \A i \in 0 .. size - 1 : S!Rank(Q, i + 1) = S!Rank(Q, i) + (IF i + 1 \in Q THEN 1 ELSE 0)
  <2>1. \A i \in 0 .. size - 1 : S!Rank(Q, i) \in Nat
    BY <1>1, <1>2, <1>3
  <2> QED
    BY <1>3, <2>1
<1> QED
  BY <1>1, <1>2, <1>3, <1>4, <1>5

\* The numbers of sound rows grow.
LEMMA NumbersGrow ==
    ASSUME NEW d, NEW s, Parsed(d, s), NEW n, \A i \in S!Yielded(d, s) : i <= n => S!RowIsSound(d, s, i)
    PROVE  \A i, j \in S!Yielded(d, s) : i < j /\ j <= n => S!Num(s, i) < S!Num(s, j)
<1>1. ASSUME NEW i \in S!Yielded(d, s), NEW j \in S!Yielded(d, s), i < j, j <= n PROVE S!Num(s, i) < S!Num(s, j)
  <2>1. i \in S!Rows(s) /\ j \in S!Rows(s)
    BY YieldedFacts
  <2>2. CASE d.kind = "xlsx"
    BY <1>1, <2>1, <2>2 DEF S!RowIsSound
  <2>3. CASE d.kind = "buffer"
    <3>1. i \in 1 .. j - 1
      BY <1>1, <2>1, NumFacts, YieldedFacts
    <3> QED
      BY <2>3, <3>1, YieldedFacts
  <2>4. CASE d.kind \notin {"xlsx", "buffer"}
    <3>1. S!Num(s, i) = i /\ S!Num(s, j) = j
      BY <2>1, <2>4, NumFacts DEF S!Workbook
    <3> QED
      BY <1>1, <3>1
  <2> QED
    BY <2>2, <2>3, <2>4
<1> QED
  BY <1>1

\* The row of a sound sheet that has the header's number is the header.
LEMMA HeaderRowIs ==
    ASSUME NEW d, NEW s, Parsed(d, s), \A i \in S!Yielded(d, s) : S!RowIsSound(d, s, i),
           NEW h \in S!Yielded(d, s), S!Num(s, h) = d.header
    PROVE  S!HeaderRow(d, s) = h
<1>1. /\ S!Yielded(d, s) \subseteq 1 .. Len(s.rows) /\ Len(s.rows) \in Nat
      /\ \A i \in S!Yielded(d, s) : i \in S!Rows(s) /\ i <= Len(s.rows)
  BY NumFacts, YieldedFacts
<1>2. \A i, j \in S!Yielded(d, s) : i < j => S!Num(s, i) < S!Num(s, j)
  BY <1>1, NumbersGrow
<1>3. ASSUME NEW i \in S!Yielded(d, s), S!Num(s, i) = d.header PROVE i = h
  <2>1. S!Num(s, i) \in Nat /\ S!Num(s, h) \in Nat
    BY <1>1, NumFacts
  <2>2. ~(S!Num(s, i) < S!Num(s, h)) /\ ~(S!Num(s, h) < S!Num(s, i))
    BY <1>3, <2>1
  <2>3. ~(i < h) /\ ~(h < i)
    BY <1>2, <2>2
  <2> QED
    BY <1>1, <2>3
<1> QED
  BY <1>3 DEF S!HeaderRow

\* The number of the row that is read next is its number in the sheet.
LEMMA NextNumber ==
    ASSUME NEW d \in Documents, d.kind # "mysql", NEW s, Parsed(d, s), NEW n, NEW l, NEW rd, NEW rs,
           OpenSheet(d, s, n, l, rd, rs), n # Len(s.rows)
    PROVE  /\ n \in Nat /\ n + 1 \in S!Rows(s) /\ n + 1 \in 0 .. Len(s.rows) /\ l \in Nat
           /\ S!Num(s, n + 1) = S!Number(s.rows[n + 1].number, l) /\ S!Num(s, n + 1) \in Nat \ {0}
           /\ S!Values(d, s.rows[n + 1]) = S!Val(d, s, n + 1)
           /\ \A i \in 1 .. n : S!Num(s, i) \in Nat /\ (d.kind = "xlsx" => S!Num(s, i) <= l) /\ i \in S!Rows(s)
           /\ \A i \in S!Yielded(d, s) : i \in S!Rows(s) /\ i \in Nat \ {0} /\ (i <= n + 1 <=> i <= n \/ i = n + 1)
<1>1. n \in 0 .. Len(s.rows) /\ Len(s.rows) \in Nat /\ l = (IF n = 0 THEN 0 ELSE S!Num(s, n))
  BY NumFacts DEF OpenSheet
<1>2. n \in Nat /\ n + 1 \in S!Rows(s) /\ n + 1 \in 0 .. Len(s.rows) /\ \A i \in 1 .. n : i \in S!Rows(s)
  BY <1>1 DEF S!Rows
<1>3. l \in Nat
  BY <1>1, <1>2, NumFacts
<1>4. S!Num(s, n + 1) = S!Number(s.rows[n + 1].number, l) /\ S!Num(s, n + 1) \in Nat \ {0}
  <2>1. S!Num(s, n + 1) = S!Number(s.rows[n + 1].number, IF n + 1 = 1 THEN 0 ELSE S!Num(s, (n + 1) - 1))
    BY <1>2, NumFacts
  <2>2. (n + 1) - 1 = n /\ (n + 1 = 1 <=> n = 0)
    BY <1>2
  <2> QED
    BY <1>1, <1>2, <2>1, <2>2, NumFacts
<1>5. ASSUME NEW i \in 1 .. n PROVE S!Num(s, i) \in Nat /\ (d.kind = "xlsx" => S!Num(s, i) <= l)
  <2>1. S!Num(s, i) \in Nat
    BY <1>2, NumFacts
  <2>2. ASSUME d.kind = "xlsx" PROVE S!Num(s, i) <= l
    <3>1. n \in 1 .. n /\ n # 0 /\ (i = n \/ i < n) /\ n <= n
      BY <1>2
    <3>2. i \in S!Yielded(d, s) /\ n \in S!Yielded(d, s)
      BY <1>2, <2>2, <3>1, YieldedFacts
    <3>3. i < n => S!Num(s, i) < S!Num(s, n)
      BY <3>1, <3>2, NumbersGrow DEF OpenSheet
    <3> QED
      BY <1>1, <1>3, <2>1, <3>1, <3>3
  <2> QED
    BY <2>1, <2>2
<1>6. ASSUME NEW i \in S!Yielded(d, s) PROVE i \in S!Rows(s) /\ i \in Nat \ {0} /\ (i <= n + 1 <=> i <= n \/ i = n + 1)
  <2>1. i \in S!Rows(s) /\ i \in 1 .. Len(s.rows)
    BY YieldedFacts
  <2> QED
    BY <1>1, <1>2, <2>1
<1> QED
  BY <1>2, <1>3, <1>4, <1>5, <1>6, ValFacts

\* The next row is refused as unreadable when it is unsound.
LEMMA NextIsSound ==
    ASSUME NEW d \in Documents, d.kind # "mysql", NEW s, Parsed(d, s), NEW n, NEW l, NEW rd, NEW rs,
           OpenSheet(d, s, n, l, rd, rs), n # Len(s.rows)
    PROVE  S!RowIsSound(d, s, n + 1) <=>
               ~ \/ /\ d.kind = "xlsx"
                    /\ \/ S!Num(s, n + 1) <= l
                       \/ S!Num(s, n + 1) > MaxRows + d.header
                       \/ ~S!Ordered(s.rows[n + 1].cells)
                 \/ d.kind = "buffer" /\ S!Num(s, n + 1) >= d.header /\ Len(S!Val(d, s, n + 1)) > MaxColumns
                 \/ /\ d.kind # "buffer" \/ S!Num(s, n + 1) >= d.header
                    /\ \E k \in DOMAIN S!Val(d, s, n + 1) : S!IsFault(S!Val(d, s, n + 1)[k])
<1>. DEFINE m == S!Num(s, n + 1)
            w == Len(S!Val(d, s, n + 1))
<1>1. n \in Nat /\ l \in Nat /\ m \in Nat \ {0} /\ n + 1 \in S!Rows(s)
  BY NextNumber
<1>2. MaxRows \in Nat /\ d.header \in Nat /\ MaxColumns \in Nat
  BY LimitsAreNat, SheetsAreParsed
<1>3. ASSUME d.kind = "xlsx" PROVE (\A j \in S!Rows(s) : j < n + 1 => S!Num(s, j) < m) <=> ~(m <= l)
  <2>1. ASSUME \A j \in S!Rows(s) : j < n + 1 => S!Num(s, j) < m PROVE ~(m <= l)
    <3>1. CASE n = 0
      BY <1>1, <3>1 DEF OpenSheet
    <3>2. CASE n # 0
      <4>1. l = S!Num(s, n) /\ n \in 1 .. n /\ n < n + 1
        BY <1>1, <3>2 DEF OpenSheet
      <4>2. n \in S!Rows(s)
        BY <4>1, NextNumber
      <4> QED
        BY <1>1, <2>1, <4>1, <4>2
    <3> QED
      BY <3>1, <3>2
  <2>2. ASSUME ~(m <= l), NEW j \in S!Rows(s), j < n + 1 PROVE S!Num(s, j) < m
    <3>1. j \in 1 .. n
      BY <1>1, <2>2, NumFacts DEF S!Rows
    <3>2. S!Num(s, j) \in Nat /\ S!Num(s, j) <= l
      BY <1>3, <3>1, NextNumber
    <3> QED
      BY <1>1, <2>2, <3>2
  <2> QED
    BY <2>1, <2>2
<1>4. m <= MaxRows + d.header <=> ~(m > MaxRows + d.header)
  BY <1>1, <1>2
<1>5. w <= MaxColumns <=> ~(w > MaxColumns)
  <2>1. w \in Nat
    BY <1>1, ValFacts
  <2>. HIDE DEF w
  <2> QED
    BY <1>2, <2>1
<1>. HIDE DEF m, w
<1>6. S!RowIsSound(d, s, n + 1) <=>
        /\ d.kind = "xlsx" =>
            /\ S!Ordered(s.rows[n + 1].cells) /\ m <= MaxRows + d.header
            /\ \A j \in S!Rows(s) : j < n + 1 => S!Num(s, j) < m
        /\ d.kind = "buffer" /\ m >= d.header => w <= MaxColumns
        /\ (d.kind # "buffer" \/ m >= d.header) => \A k \in DOMAIN S!Val(d, s, n + 1) : ~S!IsFault(S!Val(d, s, n + 1)[k])
  BY DEF m, w, S!RowIsSound
<1> QED
  BY <1>3, <1>4, <1>5, <1>6 DEF m, w

\* There is a reader once a row asks for a table.
LEMMA ReaderIsSet ==
    ASSUME NEW d, NEW s, Parsed(d, s), NEW n, NEW l, NEW rd, NEW rs, OpenSheet(d, s, n, l, rd, rs)
    PROVE  rd # S!NoReader <=> Has(d, s, n)
<1>1. Len(S!NoReader.names) = 0
  BY DEF S!NoReader, S!NewReader
<1>2. ASSUME Has(d, s, n) PROVE rd # S!NoReader
  <2>1. PICK h \in S!Yielded(d, s) : TableSoFar(d, s, n, h, rd, rs)
    BY <1>2 DEF OpenSheet
  <2>2. rd.names = S!HeaderOf(d, S!Val(d, s, h)) /\ S!GoodHeader(S!HeaderOf(d, S!Val(d, s, h)))
    BY <2>1 DEF TableSoFar
  <2>3. Len(rd.names) \in 1 .. MaxColumns
    BY <2>2 DEF S!GoodHeader
  <2>4. Len(rd.names) # 0
    BY <2>3, LimitsAreNat
  <2> QED
    BY <1>1, <2>4
<1> QED
  BY <1>2 DEF OpenSheet

\* The data rows up to a row that is not one.
LEMMA DataUnchanged ==
    ASSUME NEW d, NEW s, Parsed(d, s), NEW n \in Nat, n + 1 \in S!Rows(s), n + 1 \notin S!DataRows(d, s)
    PROVE  /\ DataTo(d, s, n + 1) = DataTo(d, s, n)
           /\ S!Rank(S!DataRows(d, s), n + 1) = S!Rank(S!DataRows(d, s), n)
           /\ \A h, rd, rs : TableSoFar(d, s, n, h, rd, rs) => TableSoFar(d, s, n + 1, h, rd, rs)
<1>. DEFINE D == S!DataRows(d, s)
<1>1. DataTo(d, s, n + 1) = DataTo(d, s, n)
  <2>1. \A i \in D : i \in Int
    BY DataFacts
  <2>2. \A i \in D : i <= n + 1 <=> i <= n
    BY <2>1
  <2> QED
    BY <2>2 DEF DataTo
<1>2. S!Rank(D, n + 1) = S!Rank(D, n)
  <2>1. n \in 0 .. Len(s.rows) - 1
    BY DataFacts, YieldedFacts
  <2>2. n \in 0 .. Len(s.rows)
    BY <2>1, DataFacts
  <2>3. S!Rank(D, n + 1) = S!Rank(D, n) + 0 /\ S!Rank(D, n) \in Nat
    BY <2>1, <2>2, DataFacts
  <2> QED
    BY <2>3
<1>3. ASSUME NEW h, NEW rd, NEW rs, TableSoFar(d, s, n, h, rd, rs) PROVE TableSoFar(d, s, n + 1, h, rd, rs)
  <2>1. \A k : KindsTo(d, s, n + 1, k) = KindsTo(d, s, n, k) /\ NullsTo(d, s, n + 1, k) = NullsTo(d, s, n, k)
    BY <1>1 DEF KindsTo, NullsTo
  <2>. DEFINE names == S!HeaderOf(d, S!Val(d, s, h))
  <2>2. [k \in DOMAIN names |-> KindsTo(d, s, n + 1, k)] = [k \in DOMAIN names |-> KindsTo(d, s, n, k)]
    BY <2>1
  <2>3. [k \in DOMAIN names |-> NullsTo(d, s, n + 1, k)] = [k \in DOMAIN names |-> NullsTo(d, s, n, k)]
    BY <2>1
  <2> QED
    BY <1>1, <1>2, <1>3, <2>2, <2>3 DEF TableSoFar
<1> QED
  BY <1>1, <1>2, <1>3

\* A row that is not data changes nothing, nor one that is not yielded.
LEMMA RowIgnored ==
    ASSUME NEW d \in Documents, d.kind # "mysql", NEW s, Parsed(d, s), NEW n, NEW l, NEW rd, NEW rs,
           OpenSheet(d, s, n, l, rd, rs), n # Len(s.rows),
           n + 1 \in S!Yielded(d, s) =>
                /\ S!RowIsSound(d, s, n + 1)
                /\ \/ S!Num(s, n + 1) < d.header
                   \/ S!Workbook(d) /\ S!AllNone(S!Val(d, s, n + 1))
                   \/ ~S!Workbook(d) /\ rd # S!NoReader /\ S!Val(d, s, n + 1) = <<>>
    PROVE  OpenSheet(d, s, n + 1, S!Num(s, n + 1), rd, rs) /\ n + 1 \notin S!DataRows(d, s)
<1>. DEFINE m == S!Num(s, n + 1)
<1>1. n \in Nat /\ n + 1 \in S!Rows(s) /\ n + 1 \in 0 .. Len(s.rows) /\ m \in Nat
  BY NextNumber
<1>2. d.header \in Nat
  BY SheetsAreParsed
<1>3. n + 1 \notin S!DataRows(d, s)
  BY <1>1, <1>2 DEF S!DataRows, S!Blank
<1>4. \A i \in S!Yielded(d, s) : i <= n + 1 <=> i <= n \/ i = n + 1
  BY NextNumber
<1>5. Has(d, s, n + 1) <=> Has(d, s, n)
  <2>1. Has(d, s, n) => Has(d, s, n + 1)
    BY <1>4 DEF Has
  <2>2. ASSUME Has(d, s, n + 1) PROVE Has(d, s, n)
    <3>1. PICK i \in S!Yielded(d, s) : i <= n + 1 /\ S!Num(s, i) >= d.header /\ (S!Workbook(d) => ~S!Blank(d, s, i))
      BY <2>2 DEF Has
    <3>2. CASE i <= n
      BY <3>1, <3>2 DEF Has
    <3>3. CASE ~(i <= n)
      <4>1. i = n + 1
        BY <1>4, <3>1, <3>3
      <4>2. ~(m < d.header)
        BY <1>1, <1>2, <3>1, <4>1
      <4>3. ~S!Workbook(d) /\ rd # S!NoReader
        BY <3>1, <4>1, <4>2 DEF S!Blank
      <4> QED
        BY <4>3, ReaderIsSet
    <3> QED
      BY <3>2, <3>3
  <2> QED
    BY <2>1, <2>2
<1>6. n + 1 # 0 /\ \A i \in S!Yielded(d, s) : i <= n + 1 => S!RowIsSound(d, s, i)
  BY <1>1, <1>4 DEF OpenSheet
<1>7. ASSUME Has(d, s, n) PROVE \E h \in S!Yielded(d, s) : h <= n + 1 /\ TableSoFar(d, s, n + 1, h, rd, rs)
  <2>1. PICK h \in S!Yielded(d, s) : h <= n /\ TableSoFar(d, s, n, h, rd, rs)
    BY <1>7 DEF OpenSheet
  <2>2. TableSoFar(d, s, n + 1, h, rd, rs)
    BY <1>1, <1>3, <2>1, DataUnchanged
  <2> QED
    BY <1>4, <2>1, <2>2
<1>8. ~Has(d, s, n) => rd = S!NoReader
  BY DEF OpenSheet
<1> QED
  BY <1>1, <1>3, <1>5, <1>6, <1>7, <1>8 DEF OpenSheet

\* A header opens a table without rows.
LEMMA HeaderRead ==
    ASSUME NEW d \in Documents, d.kind # "mysql", NEW s, Parsed(d, s), NEW n, NEW l, NEW rd, NEW rs,
           OpenSheet(d, s, n, l, rd, rs), n # Len(s.rows), n + 1 \in S!Yielded(d, s), S!RowIsSound(d, s, n + 1),
           rd = S!NoReader, S!Num(s, n + 1) = d.header,
           S!Workbook(d) => ~S!Blank(d, s, n + 1),
           S!GoodHeader(S!HeaderOf(d, S!Val(d, s, n + 1)))
    PROVE  /\ OpenSheet(d, s, n + 1, S!Num(s, n + 1), S!NewReader(S!HeaderOf(d, S!Val(d, s, n + 1))), <<>>)
           /\ n + 1 \notin S!DataRows(d, s)
<1>. DEFINE m == S!Num(s, n + 1)
            D == S!DataRows(d, s)
            names == S!HeaderOf(d, S!Val(d, s, n + 1))
            new == S!NewReader(names)
<1>1. n \in Nat /\ n + 1 \in S!Rows(s) /\ n + 1 \in 0 .. Len(s.rows) /\ m \in Nat /\ n + 1 <= n + 1
  BY NextNumber
<1>2. ~Has(d, s, n)
  BY ReaderIsSet
<1>3. Has(d, s, n + 1)
  BY <1>1 DEF Has
<1>4. n + 1 \notin D
  BY <1>1 DEF S!DataRows
<1>5. DataTo(d, s, n + 1) = {}
  <2>1. SUFFICES ASSUME NEW i \in DataTo(d, s, n + 1) PROVE FALSE
    OBVIOUS
  <2>2. i \in D /\ i <= n + 1 /\ i \in S!Yielded(d, s) /\ S!Num(s, i) > d.header /\ ~S!Blank(d, s, i)
    BY DEF DataTo, S!DataRows
  <2>3. i <= n /\ i \in S!Rows(s)
    BY <1>4, <2>2, NextNumber
  <2>4. S!Num(s, i) >= d.header
    BY <2>2, <2>3, NumFacts, SheetsAreParsed
  <2> QED
    BY <1>2, <2>2, <2>3, <2>4 DEF Has
<1>6. S!Rank(D, n + 1) = 0
  <2>1. S!Rank(D, n + 1) = S!Cardinality(DataTo(d, s, n + 1))
    BY DEF S!Rank, DataTo
  <2> QED
    BY <1>5, <2>1, FS_EmptySet, ReaderSets
<1>7. new = [names |-> names, count |-> 0, kinds |-> [k \in DOMAIN names |-> KindsTo(d, s, n + 1, k)],
             nulls |-> [k \in DOMAIN names |-> NullsTo(d, s, n + 1, k)]]
  <2>1. \A k : KindsTo(d, s, n + 1, k) = {} /\ NullsTo(d, s, n + 1, k) = FALSE
    BY <1>5 DEF KindsTo, NullsTo
  <2>2. [k \in DOMAIN names |-> KindsTo(d, s, n + 1, k)] = [k \in DOMAIN names |-> {}]
    BY <2>1
  <2>3. [k \in DOMAIN names |-> NullsTo(d, s, n + 1, k)] = [k \in DOMAIN names |-> FALSE]
    BY <2>1
  <2> QED
    BY <2>2, <2>3 DEF S!NewReader
<1>8. S!IsSequence(<<>>) /\ Len(<<>>) = 0
  BY DEF S!IsSequence
<1>9. TableSoFar(d, s, n + 1, n + 1, new, <<>>)
  <2>. HIDE DEF new
  <2> QED
    BY <1>5, <1>6, <1>7, <1>8, LimitsAreNat DEF TableSoFar
<1>10. n + 1 # 0 /\ \A i \in S!Yielded(d, s) : i <= n + 1 => S!RowIsSound(d, s, i)
  BY <1>1, NextNumber DEF OpenSheet
<1> QED
  BY <1>1, <1>3, <1>4, <1>9, <1>10 DEF OpenSheet

\* Append keeps the elements and adds one at the end.
LEMMA AppendFacts ==
    ASSUME NEW q, S!IsSequence(q), NEW x
    PROVE  /\ S!IsSequence(Append(q, x)) /\ Len(Append(q, x)) = Len(q) + 1
           /\ Append(q, x)[Len(q) + 1] = x
           /\ \A j \in 1 .. Len(q) : Append(q, x)[j] = q[j]
<1>. DEFINE V == {q[i] : i \in DOMAIN q} \cup {x}
            r == Append(q, x)
<1>1. q \in Seq(V) /\ x \in V
  BY DEF S!IsSequence
<1>2. /\ r \in Seq(V) /\ Len(r) = Len(q) + 1
      /\ r[Len(q) + 1] = x
      /\ \A j \in 1 .. Len(q) : r[j] = q[j]
  <2>. HIDE DEF V
  <2> QED
    BY <1>1
<1>3. r \in Seq({r[i] : i \in DOMAIN r})
  <2>. HIDE DEF V, r
  <2>1. r \in [1 .. Len(r) -> {r[i] : i \in DOMAIN r}] /\ Len(r) \in Nat
    BY <1>2
  <2> QED
    BY <2>1
<1> QED
  BY <1>2, <1>3 DEF S!IsSequence

\* A row after the header, with a value, is data.
LEMMA AfterHeader ==
    ASSUME NEW d \in Documents, d.kind # "mysql", NEW s, Parsed(d, s), NEW n, NEW l, NEW rd, NEW rs,
           OpenSheet(d, s, n, l, rd, rs), n # Len(s.rows), n + 1 \in S!Yielded(d, s), S!RowIsSound(d, s, n + 1),
           NEW h \in S!Yielded(d, s), h <= n, TableSoFar(d, s, n, h, rd, rs), ~S!Blank(d, s, n + 1)
    PROVE  n + 1 \in S!DataRows(d, s)
<1>1. n \in Nat /\ n + 1 <= n + 1 /\ S!Num(s, n + 1) \in Nat
  BY NextNumber
<1>2. \A i \in S!Yielded(d, s) : i <= n + 1 => S!RowIsSound(d, s, i)
  BY NextNumber DEF OpenSheet
<1>3. h < n + 1 /\ h \in S!Rows(s)
  BY <1>1, NextNumber
<1>4. S!Num(s, h) < S!Num(s, n + 1)
  BY <1>1, <1>2, <1>3, NumbersGrow
<1>5. S!Num(s, h) = d.header /\ S!Num(s, h) \in Nat
  BY <1>3, NumFacts DEF TableSoFar
<1>6. S!Num(s, n + 1) > d.header
  BY <1>1, <1>4, <1>5
<1> QED
  BY <1>6 DEF S!DataRows

\* The cell of a padded row.
LEMMA PaddedCell ==
    ASSUME NEW d, NEW s, Parsed(d, s), NEW i \in S!Rows(s), NEW w \in Nat, NEW k \in 1 .. w
    PROVE  S!Padded(S!Val(d, s, i), w)[k] = Cell(d, s, i, k)
BY DEF S!Padded, Cell

\* The values beyond a width.
LEMMA TailOf ==
    ASSUME NEW V, NEW v \in Seq(V), NEW w \in Nat, w < Len(v)
    PROVE  SubSeq(v, w + 1, Len(v)) = [j \in 1 .. Len(v) - w |-> v[j + w]]
<1>1. /\ w + 1 \in 1 .. Len(v) + 1 /\ Len(v) \in w .. Len(v)
      /\ Len(v) + 1 - (w + 1) = Len(v) - w /\ Len(v) \in Nat
  OBVIOUS
<1> QED
  BY <1>1

\* Nothing is beyond the header.
LEMMA TailIsEmpty ==
    ASSUME NEW v, Len(v) \in Nat, DOMAIN v = 1 .. Len(v), v = [k \in DOMAIN v |-> v[k]], NEW w \in Nat
    PROVE  S!AllNone(SubSeq(v, w + 1, Len(v))) <=> \A k \in DOMAIN v : k > w => v[k] = None
<1>. DEFINE rest == SubSeq(v, w + 1, Len(v))
<1>1. v \in Seq({v[j] : j \in DOMAIN v})
  <2>1. v \in [1 .. Len(v) -> {v[j] : j \in DOMAIN v}]
    OBVIOUS
  <2> QED
    BY <2>1
<1>2. PICK len : len = Len(v) /\ len \in Nat
  OBVIOUS
<1>3. CASE w < len
  <2>3. rest = [j \in 1 .. Len(v) - w |-> v[j + w]]
    <3>1. w < Len(v)
      BY <1>2, <1>3
    <3> QED
      BY <1>1, <3>1, TailOf
  <2>4. DOMAIN rest = 1 .. len - w /\ \A j \in 1 .. len - w : rest[j] = v[j + w]
    BY <1>2, <2>3
  <2>5. \A j \in 1 .. len - w : j + w \in DOMAIN v /\ j + w > w
    BY <1>2
  <2>6. ASSUME NEW k \in DOMAIN v, k > w PROVE k - w \in 1 .. len - w /\ (k - w) + w = k
    BY <1>2, <2>6
  <2>. HIDE DEF rest
  <2> QED
    BY <2>4, <2>5, <2>6 DEF S!AllNone, rest
<1>4. CASE ~(w < len)
  <2>1. DOMAIN rest = {}
    <3>1. w + 1 > Len(v)
      BY <1>2, <1>4
    <3> QED
      BY <1>1, <3>1
  <2>2. \A k \in DOMAIN v : ~(k > w)
    BY <1>2, <1>4
  <2> QED
    BY <2>1, <2>2 DEF S!AllNone
<1> QED
  BY <1>3, <1>4

\* A data row that is accepted extends the table by one.
LEMMA DataRead ==
    ASSUME NEW d \in Documents, d.kind # "mysql", NEW s, Parsed(d, s), NEW n, NEW l, NEW rd, NEW rs,
           OpenSheet(d, s, n, l, rd, rs), n # Len(s.rows), n + 1 \in S!Yielded(d, s), S!RowIsSound(d, s, n + 1),
           rd # S!NoReader, ~S!Blank(d, s, n + 1), ~(rd.count >= MaxRows),
           S!Workbook(d) => S!AllNone(SubSeq(S!Val(d, s, n + 1), Len(rd.names) + 1, Len(S!Val(d, s, n + 1)))),
           ~S!Workbook(d) => Len(S!Val(d, s, n + 1)) = Len(rd.names)
    PROVE  LET padded == S!Padded(S!Val(d, s, n + 1), Len(rd.names))
           IN  /\ OpenSheet(d, s, n + 1, S!Num(s, n + 1), S!Added(rd, padded),
                            Append(rs, [number |-> S!Num(s, n + 1), values |-> padded]))
               /\ n + 1 \in S!DataRows(d, s)
<1>. DEFINE v == S!Val(d, s, n + 1)
            D == S!DataRows(d, s)
            w == Len(rd.names)
            padded == S!Padded(v, w)
            new == S!Added(rd, padded)
            all == Append(rs, [number |-> S!Num(s, n + 1), values |-> padded])
<1>1. /\ n \in Nat /\ n + 1 \in S!Rows(s) /\ n + 1 \in 0 .. Len(s.rows)
      /\ n \in 0 .. Len(s.rows) - 1 /\ n \in 0 .. Len(s.rows)
  <2>1. n \in Nat /\ n + 1 \in S!Rows(s) /\ n + 1 \in 0 .. Len(s.rows)
    BY NextNumber
  <2> QED
    BY <2>1, NumFacts
<1>2. Has(d, s, n)
  BY ReaderIsSet
<1>3. PICK h \in S!Yielded(d, s) : h <= n /\ TableSoFar(d, s, n, h, rd, rs)
  BY <1>2 DEF OpenSheet
<1>4. n + 1 \in D
  BY <1>3, AfterHeader
<1>5. PICK names : names = S!HeaderOf(d, S!Val(d, s, h))
  OBVIOUS
<1>6. /\ S!Num(s, h) = d.header /\ S!GoodHeader(names)
      /\ rd = [names |-> names, count |-> S!Rank(D, n),
               kinds |-> [k \in DOMAIN names |-> KindsTo(d, s, n, k)],
               nulls |-> [k \in DOMAIN names |-> NullsTo(d, s, n, k)]]
      /\ \A i \in DataTo(d, s, n) : S!Fits(d, s, i, Len(names))
      /\ S!IsSequence(rs) /\ Len(rs) = S!Rank(D, n)
      /\ \A i \in DataTo(d, s, n) : rs[S!Rank(D, i)] = RowOf(d, s, i, Len(names))
  BY <1>3, <1>5 DEF TableSoFar
<1>7. w = Len(names) /\ w \in Nat /\ DOMAIN names = 1 .. w
  <2>1. h \in S!Rows(s)
    BY NextNumber
  <2>2. Len(names) \in Nat /\ DOMAIN names = 1 .. Len(names)
    BY <2>1, <1>5, HeaderFacts
  <2>3. rd.names = names
    BY <1>6
  <2> QED
    BY <2>2, <2>3
<1>8. S!Rank(D, n) \in Nat /\ S!Rank(D, n + 1) = S!Rank(D, n) + 1
  <2>1. S!Rank(D, n) \in 0 .. Cardinality(D) /\ S!Rank(D, n + 1) = S!Rank(D, n) + (IF n + 1 \in D THEN 1 ELSE 0)
    BY <1>1, DataFacts
  <2> QED
    BY <2>1, <1>4, DataFacts
<1>9. DataTo(d, s, n + 1) = DataTo(d, s, n) \cup {n + 1}
  <2>1. \A i \in D : i \in Int
    BY DataFacts
  <2>2. \A i \in D : i <= n + 1 <=> i <= n \/ i = n + 1
    BY <1>1, <2>1
  <2> QED
    BY <1>4, <2>2 DEF DataTo
<1>10. S!Fits(d, s, n + 1, w)
  <2>1. CASE S!Workbook(d)
    <3>1. S!AllNone(SubSeq(v, w + 1, Len(v)))
      BY <2>1
    <3>2. Len(v) \in Nat /\ DOMAIN v = 1 .. Len(v) /\ v = [k \in DOMAIN v |-> v[k]]
      BY <1>1, ValFacts
    <3>3. \A k \in DOMAIN v : k > w => v[k] = None
      BY <1>7, <3>1, <3>2, TailIsEmpty
    <3> QED
      BY <2>1, <3>3 DEF S!Fits
  <2>2. CASE ~S!Workbook(d)
    BY <2>2 DEF S!Fits
  <2> QED
    BY <2>1, <2>2
<1>11. \A k \in 1 .. w : padded[k] = Cell(d, s, n + 1, k)
  BY <1>1, <1>7, PaddedCell
<1>12. ASSUME NEW k \in 1 .. w
       PROVE  KindsTo(d, s, n + 1, k) = IF S!Untyped(padded[k]) THEN KindsTo(d, s, n, k)
                                        ELSE KindsTo(d, s, n, k) \cup {padded[k][1]}
  BY <1>9, <1>11 DEF KindsTo
<1>13. ASSUME NEW k \in 1 .. w
       PROVE  NullsTo(d, s, n + 1, k) = (NullsTo(d, s, n, k) \/ S!Untyped(padded[k]))
  BY <1>9, <1>11 DEF NullsTo
<1>14. new = [names |-> names, count |-> S!Rank(D, n + 1),
              kinds |-> [k \in DOMAIN names |-> KindsTo(d, s, n + 1, k)],
              nulls |-> [k \in DOMAIN names |-> NullsTo(d, s, n + 1, k)]]
  <2>. DEFINE kinds == [k \in DOMAIN names |-> KindsTo(d, s, n, k)]
              nulls == [k \in DOMAIN names |-> NullsTo(d, s, n, k)]
              kinds2 == [i \in DOMAIN kinds |-> IF S!Untyped(padded[i]) THEN kinds[i] ELSE kinds[i] \cup {padded[i][1]}]
              nulls2 == [i \in DOMAIN nulls |-> nulls[i] \/ S!Untyped(padded[i])]
  <2>1. new = [names |-> names, count |-> S!Rank(D, n) + 1, kinds |-> kinds2, nulls |-> nulls2]
    <3>1. rd = [names |-> names, count |-> S!Rank(D, n), kinds |-> kinds, nulls |-> nulls]
      BY <1>6
    <3>. HIDE DEF kinds, nulls, D, padded
    <3>2. DOMAIN new = {"names", "count", "kinds", "nulls"} /\ new = [f \in DOMAIN new |-> new[f]]
      BY <3>1 DEF S!Added
    <3>3. new.names = names /\ new.count = S!Rank(D, n) + 1
      BY <3>1 DEF S!Added
    <3>4. new.kinds = kinds2
      BY <3>1 DEF S!Added
    <3>5. new.nulls = nulls2
      BY <3>1 DEF S!Added
    <3>. HIDE DEF new, kinds2, nulls2
    <3> QED
      BY <3>2, <3>3, <3>4, <3>5
  <2>2. kinds2 = [k \in DOMAIN names |-> KindsTo(d, s, n + 1, k)]
    <3>. HIDE DEF padded, w
    <3> QED
      BY <1>7, <1>12
  <2>3. nulls2 = [k \in DOMAIN names |-> NullsTo(d, s, n + 1, k)]
    <3>1. \A k \in DOMAIN names : nulls[k] = NullsTo(d, s, n, k)
      OBVIOUS
    <3>2. \A k \in DOMAIN names : (nulls[k] \/ S!Untyped(padded[k])) = NullsTo(d, s, n + 1, k)
      <4>. HIDE DEF nulls, padded, w
      <4> QED
        BY <1>7, <1>13, <3>1
    <3>3. DOMAIN nulls = DOMAIN names
      OBVIOUS
    <3>. HIDE DEF nulls, padded, w
    <3> QED
      BY <3>2, <3>3
  <2>. HIDE DEF kinds2, nulls2, new, D
  <2> QED
    BY <1>8, <2>1, <2>2, <2>3
<1>15. S!Rank(D, n + 1) <= MaxRows
  <2>1. rd.count = S!Rank(D, n)
    BY <1>6
  <2> QED
    BY <1>8, <2>1, LimitsAreNat
<1>16. S!IsSequence(all) /\ Len(all) = S!Rank(D, n + 1)
  BY <1>6, <1>8, AppendFacts
<1>17. ASSUME NEW i \in DataTo(d, s, n + 1) PROVE all[S!Rank(D, i)] = RowOf(d, s, i, Len(names))
  <2>1. CASE i = n + 1
    <3>1. all[S!Rank(D, n) + 1] = [number |-> S!Num(s, n + 1), values |-> padded]
      BY <1>6, AppendFacts
    <3> QED
      BY <2>1, <3>1, <1>7, <1>8 DEF RowOf
  <2>2. CASE i # n + 1
    <3>1. i \in DataTo(d, s, n) /\ i \in D /\ i <= n
      BY <2>2, <1>9 DEF DataTo
    <3>2. i \in 0 .. Len(s.rows)
      BY <3>1, DataFacts
    <3>3. S!Rank(D, i) \in 1 .. S!Rank(D, n)
      <4>1. S!Rank(D, i) <= S!Rank(D, n) /\ S!Rank(D, i) \in 1 .. Cardinality(D)
        BY <3>1, <3>2, <1>1, DataFacts
      <4> QED
        BY <4>1, <1>8, DataFacts
    <3>4. all[S!Rank(D, i)] = rs[S!Rank(D, i)]
      BY <1>6, <3>3, AppendFacts
    <3> QED
      BY <1>6, <3>1, <3>4
  <2> QED
    BY <2>1, <2>2
<1>18. \A i \in DataTo(d, s, n + 1) : S!Fits(d, s, i, Len(names))
  BY <1>6, <1>7, <1>9, <1>10
<1>19. TableSoFar(d, s, n + 1, h, new, all)
  <2>. HIDE DEF new, all
  <2> QED
    BY <1>5, <1>6, <1>14, <1>15, <1>16, <1>17, <1>18 DEF TableSoFar
<1>20. h <= n + 1 /\ n + 1 # 0 /\ \A i \in S!Yielded(d, s) : i <= n + 1 => S!RowIsSound(d, s, i)
  BY <1>1, <1>3, NextNumber DEF OpenSheet
<1>21. Has(d, s, n + 1)
  BY <1>2, NextNumber DEF Has
<1>. HIDE DEF new, all
<1>22. OpenSheet(d, s, n + 1, S!Num(s, n + 1), new, all)
  BY <1>1, <1>19, <1>20, <1>21 DEF OpenSheet
<1> QED
  BY <1>4, <1>22 DEF new, all

\* A row that is no header where one is due is a fault of the sheet.
LEMMA HeaderRefused ==
    ASSUME NEW d \in Documents, d.kind # "mysql", NEW s, Parsed(d, s), NEW n, NEW l, NEW rd, NEW rs,
           OpenSheet(d, s, n, l, rd, rs), n # Len(s.rows), n + 1 \in S!Yielded(d, s), rd = S!NoReader,
           ~(S!Num(s, n + 1) < d.header), S!Workbook(d) => ~S!Blank(d, s, n + 1),
           \/ S!Num(s, n + 1) # d.header
           \/ ~S!GoodHeader(S!HeaderOf(d, S!Val(d, s, n + 1)))
    PROVE  ~S!SheetIsSound(d, s)
<1>. SUFFICES ASSUME S!SheetIsSound(d, s) PROVE FALSE
  OBVIOUS
<1>1. n \in Nat /\ n + 1 \in S!Rows(s) /\ S!Num(s, n + 1) \in Nat /\ d.header \in Nat /\ S!Num(s, n + 1) >= d.header
  BY NextNumber, SheetsAreParsed
<1>2. S!HasTable(d, s)
  BY <1>1 DEF S!HasTable
<1>3. PICK i \in S!Yielded(d, s) : S!Num(s, i) = d.header
  BY <1>2 DEF S!SheetIsSound
<1>4. \A j \in S!Yielded(d, s) : S!RowIsSound(d, s, j)
  BY DEF S!SheetIsSound
<1>5. S!HeaderRow(d, s) = i
  BY <1>3, <1>4, HeaderRowIs
<1>6. S!GoodHeader(S!HeaderOf(d, S!Val(d, s, i)))
  BY <1>2, <1>5 DEF S!SheetIsSound, S!Names
<1>7. ~Has(d, s, n)
  BY ReaderIsSet
<1>8. CASE S!Num(s, n + 1) = d.header
  <2>1. i = n + 1
    BY <1>1, <1>4, <1>5, <1>8, HeaderRowIs
  <2> QED
    BY <1>6, <1>8, <2>1
<1>9. CASE S!Num(s, n + 1) # d.header
  <2>1. i <= n /\ i \in S!Rows(s)
    <3>1. i \in Nat /\ i <= i /\ i \in S!Rows(s)
      BY NextNumber
    <3>2. ~(n + 1 < i)
      <4>1. n + 1 < i => S!Num(s, n + 1) < S!Num(s, i)
        BY <1>4, <3>1, NumbersGrow
      <4> QED
        BY <1>1, <1>3, <4>1
    <3>3. i # n + 1
      BY <1>3, <1>9
    <3> QED
      BY <1>1, <3>1, <3>2, <3>3
  <2>2. S!Workbook(d) /\ S!Blank(d, s, i)
    BY <1>1, <1>3, <1>7, <2>1 DEF Has
  <2>3. Len(S!HeaderOf(d, S!Val(d, s, i))) = 0
    BY <2>1, <2>2, HeaderFacts
  <2>4. Len(S!HeaderOf(d, S!Val(d, s, i))) \in 1 .. MaxColumns
    BY <1>6 DEF S!GoodHeader
  <2> QED
    BY <2>3, <2>4, LimitsAreNat
<1> QED
  BY <1>8, <1>9

\* So is a data row that does not fit, or for which there is no room.
LEMMA DataRefused ==
    ASSUME NEW d \in Documents, d.kind # "mysql", NEW s, Parsed(d, s), NEW n, NEW l, NEW rd, NEW rs,
           OpenSheet(d, s, n, l, rd, rs), n # Len(s.rows), n + 1 \in S!Yielded(d, s), rd # S!NoReader, ~S!Blank(d, s, n + 1),
           \/ rd.count >= MaxRows
           \/ S!Workbook(d) /\ ~S!AllNone(SubSeq(S!Val(d, s, n + 1), Len(rd.names) + 1, Len(S!Val(d, s, n + 1))))
           \/ ~S!Workbook(d) /\ Len(S!Val(d, s, n + 1)) # Len(rd.names)
    PROVE  ~S!SheetIsSound(d, s)
<1>. SUFFICES ASSUME S!SheetIsSound(d, s) PROVE FALSE
  OBVIOUS
<1>. DEFINE D == S!DataRows(d, s)
            v == S!Val(d, s, n + 1)
            w == Len(rd.names)
<1>1. n \in Nat /\ n + 1 \in S!Rows(s) /\ n \in 0 .. Len(s.rows) - 1 /\ n \in 0 .. Len(s.rows) /\ n + 1 \in 0 .. Len(s.rows)
  <2>1. n \in Nat /\ n + 1 \in S!Rows(s) /\ n + 1 \in 0 .. Len(s.rows)
    BY NextNumber
  <2> QED
    BY <2>1, NumFacts
<1>2. \A j \in S!Yielded(d, s) : S!RowIsSound(d, s, j)
  BY DEF S!SheetIsSound
<1>3. Has(d, s, n)
  BY ReaderIsSet
<1>4. PICK h \in S!Yielded(d, s) : h <= n /\ TableSoFar(d, s, n, h, rd, rs)
  BY <1>3 DEF OpenSheet
<1>5. h \in S!Rows(s) /\ S!Num(s, h) = d.header /\ rd.names = S!HeaderOf(d, S!Val(d, s, h)) /\ rd.count = S!Rank(D, n)
  BY <1>4, NextNumber DEF TableSoFar
<1>6. S!HasTable(d, s)
  BY <1>3 DEF Has, S!HasTable
<1>7. S!Names(d, s) = rd.names
  BY <1>2, <1>5, HeaderRowIs DEF S!Names
<1>8. n + 1 \in D
  BY <1>2, <1>4, AfterHeader
<1>9. S!Fits(d, s, n + 1, w) /\ Cardinality(D) <= MaxRows
  BY <1>6, <1>7, <1>8, ReaderSets DEF S!SheetIsSound
<1>10. w \in Nat
  BY <1>5, HeaderFacts
<1>11. CASE rd.count >= MaxRows
  <2>1. S!Rank(D, n + 1) = S!Rank(D, n) + (IF n + 1 \in D THEN 1 ELSE 0)
    BY <1>1, DataFacts
  <2>2. S!Rank(D, n) \in 0 .. Cardinality(D) /\ S!Rank(D, n + 1) \in 0 .. Cardinality(D) /\ Cardinality(D) \in Nat
    BY <1>1, DataFacts
  <2>. HIDE DEF D
  <2> QED
    BY <1>5, <1>8, <1>9, <1>11, <2>1, <2>2, LimitsAreNat
<1>12. CASE S!Workbook(d) /\ ~S!AllNone(SubSeq(v, w + 1, Len(v)))
  <2>1. Len(v) \in Nat /\ DOMAIN v = 1 .. Len(v) /\ v = [k \in DOMAIN v |-> v[k]]
    BY <1>1, ValFacts
  <2>2. \A k \in DOMAIN v : k > w => v[k] = None
    BY <1>9, <1>12 DEF S!Fits
  <2> QED
    BY <1>10, <1>12, <2>1, <2>2, TailIsEmpty
<1>13. CASE ~S!Workbook(d) /\ Len(v) # w
  BY <1>9, <1>13 DEF S!Fits
<1> QED
  BY <1>11, <1>12, <1>13

\* Integers and decimals are two kinds.
LEMMA PairOfKinds == Cardinality({"integer", "decimal"}) # 1
<1>1. PICK a, b : a = "integer" /\ b = "decimal"
  OBVIOUS
<1>2. a # b
  BY <1>1
<1>3. IsFiniteSet({a, b})
  <2>1. {a, b} = {a} \cup {b}
    OBVIOUS
  <2>2. IsFiniteSet({a} \cup {b})
    BY FS_Singleton, FS_AddElement
  <2> QED
    BY <2>1, <2>2
<1>4. ASSUME NEW x PROVE {a, b} # {x}
  BY <1>2
<1>5. Cardinality({a, b}) # 1
  BY <1>3, <1>4, FS_Singleton
<1> QED
  BY <1>1, <1>5

\* A sheet that was read to its end.
LEMMA SheetRead ==
    ASSUME NEW d \in Documents, d.kind # "mysql", NEW s, Parsed(d, s), NEW l, NEW rd, NEW rs,
           OpenSheet(d, s, Len(s.rows), l, rd, rs)
    PROVE  /\ rd # S!NoReader <=> S!HasTable(d, s)
           /\ rd = S!NoReader /\ ~S!Workbook(d) => ~S!SheetIsSound(d, s)
           /\ rd # S!NoReader \/ S!Workbook(d) => S!SheetIsSound(d, s)
           /\ rd # S!NoReader =>
                S!IsTableOf([name |-> s.name, columns |-> S!Finished(rd), rows |-> rs], d, s)
<1>. DEFINE n == Len(s.rows)
            D == S!DataRows(d, s)
<1>1. n \in Nat /\ \A i \in S!Yielded(d, s) : i <= n /\ i \in S!Rows(s)
  BY NumFacts, YieldedFacts
<1>2. S!HasTable(d, s) <=> Has(d, s, n)
  BY <1>1 DEF S!HasTable, Has
<1>3. rd # S!NoReader <=> S!HasTable(d, s)
  BY <1>2, ReaderIsSet
<1>4. \A i \in S!Yielded(d, s) : S!RowIsSound(d, s, i)
  BY <1>1 DEF OpenSheet
<1>5. ~S!HasTable(d, s) => (S!SheetIsSound(d, s) <=> S!Workbook(d))
  BY <1>4 DEF S!SheetIsSound
<1>6. ASSUME S!HasTable(d, s)
      PROVE  S!SheetIsSound(d, s) /\ S!IsTableOf([name |-> s.name, columns |-> S!Finished(rd), rows |-> rs], d, s)
  <2>1. PICK h \in S!Yielded(d, s) : TableSoFar(d, s, n, h, rd, rs)
    BY <1>2, <1>6 DEF OpenSheet
  <2>2. PICK names : names = S!HeaderOf(d, S!Val(d, s, h))
    OBVIOUS
  <2>3. /\ S!Num(s, h) = d.header /\ S!GoodHeader(names)
        /\ rd = [names |-> names, count |-> S!Rank(D, n),
                 kinds |-> [k \in DOMAIN names |-> KindsTo(d, s, n, k)],
                 nulls |-> [k \in DOMAIN names |-> NullsTo(d, s, n, k)]]
        /\ S!Rank(D, n) <= MaxRows
        /\ \A i \in DataTo(d, s, n) : S!Fits(d, s, i, Len(names))
        /\ S!IsSequence(rs) /\ Len(rs) = S!Rank(D, n)
        /\ \A i \in DataTo(d, s, n) : rs[S!Rank(D, i)] = RowOf(d, s, i, Len(names))
    BY <2>1, <2>2 DEF TableSoFar
  <2>4. S!Names(d, s) = names
    BY <1>4, <2>2, <2>3, HeaderRowIs DEF S!Names
  <2>5. S!Rank(D, n) = Cardinality(D) /\ Cardinality(D) \in Nat /\ IsFiniteSet(D)
    BY DataFacts
  <2>6. DataTo(d, s, n) = D
    <3>1. \A i \in D : i <= n
      BY DataFacts
    <3> QED
      BY <3>1 DEF DataTo
  <2>7. S!SheetIsSound(d, s)
    BY <1>4, <1>6, <2>3, <2>4, <2>5, <2>6, ReaderSets DEF S!SheetIsSound
  <2>8. DOMAIN names = 1 .. Len(names) /\ Len(names) \in Nat
    <3>1. h \in S!Rows(s)
      BY <1>1
    <3> QED
      BY <2>2, <3>1, HeaderFacts
  <2>9. ASSUME NEW k \in DOMAIN names
        PROVE  [name |-> names[k], type |-> S!TypeOf(KindsTo(d, s, n, k)),
                nullable |-> NullsTo(d, s, n, k) \/ S!Rank(D, n) = 0] = S!ExpectedColumn(d, s, k)
    <3>. DEFINE vs == {S!Padded(S!Val(d, s, i), k)[k] : i \in D}
                kinds == {x[1] : x \in {y \in vs : ~S!Untyped(y)}}
                type2 == CASE kinds = {} -> "text"
                           [] S!Cardinality(kinds) = 1 -> CHOOSE x \in kinds : TRUE
                           [] kinds = {"integer", "decimal"} -> "decimal"
                           [] OTHER -> "mixed"
    <3>1. k \in Nat /\ k \in 1 .. k
      BY <2>8
    <3>2. \A i \in D : S!Padded(S!Val(d, s, i), k)[k] = Cell(d, s, i, k)
      <4>1. \A i \in D : i \in S!Rows(s)
        BY <1>1 DEF S!DataRows
      <4> QED
        BY <3>1, <4>1, PaddedCell
    <3>3. kinds = KindsTo(d, s, n, k)
      <4>. HIDE DEF D
      <4> QED
        BY <2>6, <3>2 DEF KindsTo
    <3>4. (vs = {} \/ \E y \in vs : S!Untyped(y)) = (NullsTo(d, s, n, k) \/ S!Rank(D, n) = 0)
      <4>1. vs = {} <=> D = {}
        OBVIOUS
      <4>2. D = {} <=> S!Rank(D, n) = 0
        BY <2>5, FS_EmptySet
      <4>3. (\E y \in vs : S!Untyped(y)) <=> NullsTo(d, s, n, k)
        <5>. HIDE DEF D
        <5> QED
          BY <2>6, <3>2 DEF NullsTo
      <4>. HIDE DEF vs
      <4> QED
        BY <4>1, <4>2, <4>3
    <3>5. S!TypeOf(kinds) = type2
      <4>. HIDE DEF kinds
      <4>1. S!Cardinality(kinds) = 1 => kinds # {}
        <5>1. S!Cardinality({}) = 0
          BY ReaderSets, FS_EmptySet
        <5>2. kinds = {} => S!Cardinality(kinds) = 0
          BY <5>1, Zenon
        <5> QED
          BY <5>2
      <4>2. S!Cardinality({"integer", "decimal"}) # 1
        BY PairOfKinds, ReaderSets
      <4>3. ASSUME kinds # {}, S!Cardinality(kinds) # 1
            PROVE  kinds \subseteq {"integer", "decimal"} <=> kinds = {"integer", "decimal"}
        <5>1. kinds # {"integer"} /\ kinds # {"decimal"}
          BY <4>3, FS_Singleton, ReaderSets
        <5> QED
          BY <4>3, <5>1
      <4>4. CASE kinds = {}
        BY <4>1, <4>4 DEF S!TypeOf
      <4>5. CASE kinds # {} /\ S!Cardinality(kinds) = 1
        <5>1. kinds # {"integer", "decimal"}
          BY <4>2, <4>5
        <5> QED
          BY <4>5, <5>1 DEF S!TypeOf
      <4>6. CASE kinds # {} /\ S!Cardinality(kinds) # 1
        BY <4>3, <4>6 DEF S!TypeOf
      <4> QED
        BY <4>4, <4>5, <4>6
    <3>6. S!ExpectedColumn(d, s, k) =
            [name |-> names[k], type |-> type2, nullable |-> vs = {} \/ \E y \in vs : S!Untyped(y)]
      BY <2>4 DEF S!ExpectedColumn
    <3>. HIDE DEF vs, kinds, type2, D
    <3> QED
      BY <3>3, <3>4, <3>5, <3>6
  <2>10. S!Finished(rd) = [k \in DOMAIN names |-> S!ExpectedColumn(d, s, k)]
    <3>1. S!Finished(rd) = [k \in DOMAIN names |->
            [name |-> names[k], type |-> S!TypeOf(KindsTo(d, s, n, k)), nullable |-> NullsTo(d, s, n, k) \/ S!Rank(D, n) = 0]]
      <4>. HIDE DEF n, D
      <4> QED
        BY <2>3 DEF S!Finished
    <3>. HIDE DEF n, D
    <3> QED
      BY <2>9, <3>1
  <2>11. DOMAIN rs = 1 .. Cardinality(D)
    BY <2>3, <2>5, SequenceFacts
  <2>12. \A i \in D : rs[S!Rank(D, i)] = [number |-> S!Num(s, i), values |-> S!Padded(S!Val(d, s, i), Len(names))]
    BY <2>3, <2>6 DEF RowOf
  <2>13. S!IsTableOf([name |-> s.name, columns |-> S!Finished(rd), rows |-> rs], d, s)
    BY <2>4, <2>10, <2>11, <2>12, ReaderSets DEF S!IsTableOf
  <2> QED
    BY <2>7, <2>13
<1> QED
  BY <1>3, <1>5, <1>6

----
(* The cells of a source: what was read is counted, and what it holds.      *)

\* A union of finitely many finite sets is finite.
LEMMA FamilyIsFinite ==
    ASSUME NEW P, IsFiniteSet(P), NEW f, \A p \in P : IsFiniteSet(f[p])
    PROVE  IsFiniteSet(UNION {f[p] : p \in P})
<1>. DEFINE family == {f[p] : p \in P}
            g == [p \in P |-> f[p]]
<1>1. g \in Surjection(P, family)
  BY DEF Surjection
<1>2. IsFiniteSet(family)
  <2>. HIDE DEF g, family
  <2> QED
    BY <1>1, FS_Surjection
<1>3. \A F \in family : IsFiniteSet(F)
  OBVIOUS
<1> QED
  BY <1>2, <1>3, FS_UNION

\* The cells of a place that was not counted yet.
LEMMA BlockOf ==
    ASSUME NEW counted, IsFiniteSet(counted), NEW p, NEW w \in Nat, counted \cap ({p} \X (1 .. w)) = {}
    PROVE  /\ IsFiniteSet(counted \cup ({p} \X (1 .. w)))
           /\ Cardinality(counted \cup ({p} \X (1 .. w))) = Cardinality(counted) + w
<1>1. IsFiniteSet({p}) /\ Cardinality({p}) = 1
  BY FS_Singleton
<1>2. IsFiniteSet(1 .. w) /\ Cardinality(1 .. w) = w
  BY FS_Interval
<1>3. IsFiniteSet({p} \X (1 .. w)) /\ Cardinality({p} \X (1 .. w)) = w
  <2>1. Cardinality({p} \X (1 .. w)) = Cardinality({p}) * Cardinality(1 .. w) /\ IsFiniteSet({p} \X (1 .. w))
    BY <1>1, <1>2, FS_Product
  <2> QED
    BY <1>1, <1>2, <2>1
<1>4. PICK B : B = {p} \X (1 .. w)
  OBVIOUS
<1>5. IsFiniteSet(counted \cup B) /\ Cardinality(counted \cup B) = Cardinality(counted) + Cardinality(B) - Cardinality(counted \cap B)
  BY <1>3, <1>4, FS_Union
<1>6. Cardinality(counted \cap B) = 0 /\ Cardinality(counted) \in Nat
  BY <1>4, FS_EmptySet, FS_CardinalityType
<1> QED
  BY <1>3, <1>4, <1>5, <1>6

WidthOf(d, p) == DOMAIN S!Val(d, S!Sheets(d)[p[1]], p[2])

\* A charged row is a row of a sheet.
LEMMA PlaceFacts ==
    ASSUME NEW d \in Documents, d.kind # "mysql", NEW p \in S!Charged(d)
    PROVE  /\ p[1] \in DOMAIN S!Sheets(d) /\ p[2] \in S!Rows(S!Sheets(d)[p[1]]) /\ p = <<p[1], p[2]>>
           /\ p[1] \in Nat \ {0} /\ p[2] \in Nat \ {0}
           /\ Len(S!Val(d, S!Sheets(d)[p[1]], p[2])) \in Nat
           /\ WidthOf(d, p) = 1 .. Len(S!Val(d, S!Sheets(d)[p[1]], p[2]))
<1>1. PICK k \in DOMAIN S!Sheets(d) : p \in {k} \X S!Yielded(d, S!Sheets(d)[k])
  BY DEF S!Charged
<1>3. Parsed(d, S!Sheets(d)[k])
  BY SheetsAreParsed
<1>2. p[1] = k /\ p[2] \in S!Rows(S!Sheets(d)[k]) /\ p = <<p[1], p[2]>>
  BY <1>1, <1>3, YieldedFacts
<1>4. k \in Nat \ {0}
  <2>1. DOMAIN S!Sheets(d) = 1 .. Len(S!Sheets(d)) /\ Len(S!Sheets(d)) \in Nat
    BY SheetsAreParsed, SequenceFacts
  <2> QED
    BY <2>1
<1>5. p[2] \in Nat \ {0}
  BY <1>2, <1>3, NumFacts DEF S!Rows
<1> QED
  BY <1>2, <1>3, <1>4, <1>5, ValFacts DEF WidthOf

\* The cells of some charged rows are finitely many, and no more than all.
LEMMA PlacesAreFinite ==
    ASSUME NEW d \in Documents, d.kind # "mysql", NEW P, P \subseteq S!Charged(d)
    PROVE  /\ IsFiniteSet(S!CellsOf(d, P)) /\ Cardinality(S!CellsOf(d, P)) \in Nat
           /\ Cardinality(S!CellsOf(d, P)) <= Cardinality(S!CellsOf(d, S!Charged(d)))
<1>1. IsFiniteSet(S!Charged(d))
  <2>. DEFINE f == [k \in DOMAIN S!Sheets(d) |-> {k} \X S!Rows(S!Sheets(d)[k])]
  <2>1. IsFiniteSet(DOMAIN S!Sheets(d))
    <3>1. DOMAIN S!Sheets(d) = 1 .. Len(S!Sheets(d)) /\ Len(S!Sheets(d)) \in Nat
      BY SheetsAreParsed, SequenceFacts
    <3> QED
      BY <3>1, FS_Interval
  <2>2. ASSUME NEW k \in DOMAIN S!Sheets(d) PROVE IsFiniteSet(f[k])
    <3>1. S!Rows(S!Sheets(d)[k]) = 1 .. Len(S!Sheets(d)[k].rows) /\ Len(S!Sheets(d)[k].rows) \in Nat
      BY SheetsAreParsed, NumFacts DEF S!Rows
    <3>2. IsFiniteSet(S!Rows(S!Sheets(d)[k])) /\ IsFiniteSet({k})
      <4>1. PICK w \in Nat : S!Rows(S!Sheets(d)[k]) = 1 .. w
        BY <3>1
      <4>2. IsFiniteSet(1 .. w)
        BY FS_Interval
      <4> QED
        BY <4>1, <4>2, FS_Singleton
    <3>3. IsFiniteSet({k} \X S!Rows(S!Sheets(d)[k]))
      BY <3>2, FS_Product
    <3> QED
      BY <3>3
  <2>3. IsFiniteSet(UNION {f[k] : k \in DOMAIN S!Sheets(d)})
    <3>. HIDE DEF f
    <3> QED
      BY <2>1, <2>2, FamilyIsFinite
  <2>4. S!Charged(d) \subseteq UNION {f[k] : k \in DOMAIN S!Sheets(d)}
    BY DEF S!Charged, S!Yielded
  <2>. HIDE DEF f
  <2> QED
    BY <2>3, <2>4, FS_Subset
<1>2. IsFiniteSet(S!CellsOf(d, S!Charged(d)))
  <2>. DEFINE f == [p \in S!Charged(d) |-> {p} \X WidthOf(d, p)]
  <2>1. ASSUME NEW p \in S!Charged(d) PROVE IsFiniteSet(f[p])
    <3>1. IsFiniteSet({p}) /\ IsFiniteSet(WidthOf(d, p))
      <4>1. PICK w \in Nat : WidthOf(d, p) = 1 .. w
        BY PlaceFacts
      <4>2. IsFiniteSet(1 .. w)
        BY FS_Interval
      <4> QED
        BY <4>1, <4>2, FS_Singleton
    <3>2. IsFiniteSet({p} \X WidthOf(d, p))
      BY <3>1, FS_Product
    <3> QED
      BY <3>2
  <2>2. IsFiniteSet(UNION {f[p] : p \in S!Charged(d)})
    <3>. HIDE DEF f
    <3> QED
      BY <1>1, <2>1, FamilyIsFinite
  <2>3. S!CellsOf(d, S!Charged(d)) = UNION {f[p] : p \in S!Charged(d)}
    BY DEF S!CellsOf, WidthOf
  <2> QED
    BY <2>2, <2>3
<1>3. S!CellsOf(d, P) \subseteq S!CellsOf(d, S!Charged(d))
  BY DEF S!CellsOf
<1> QED
  BY <1>2, <1>3, FS_Subset, FS_CardinalityType

\* The places of the sheets before k, and of n rows of sheet k.
ReadTo(d, k, n) == {p \in S!Charged(d) : p[1] < k \/ (p[1] = k /\ p[2] <= n)}
CellsRead(d, k, n, cs) == cs = Cardinality(S!CellsOf(d, ReadTo(d, k, n))) /\ cs <= MaxCells

\* The cells read so far are finitely many.
LEMMA ReadIsFinite ==
    ASSUME NEW d \in Documents, d.kind # "mysql", NEW k, NEW n, NEW cs, CellsRead(d, k, n, cs)
    PROVE  cs \in Nat
<1>1. ReadTo(d, k, n) \subseteq S!Charged(d)
  BY DEF ReadTo
<1> QED
  BY <1>1, PlacesAreFinite DEF CellsRead

\* A row whose cells are charged adds them.
LEMMA RowCharged ==
    ASSUME NEW d \in Documents, d.kind # "mysql", NEW k \in DOMAIN S!Sheets(d), NEW n \in Nat, NEW cs,
           CellsRead(d, k, n, cs), <<k, n + 1>> \in S!Charged(d)
    PROVE  LET w == Len(S!Val(d, S!Sheets(d)[k], n + 1))
           IN  /\ w \in Nat
               /\ cs + w = Cardinality(S!CellsOf(d, ReadTo(d, k, n + 1)))
               /\ cs + w <= Cardinality(S!CellsOf(d, S!Charged(d)))
<1>. DEFINE p == <<k, n + 1>>
            w == Len(S!Val(d, S!Sheets(d)[k], n + 1))
            P == ReadTo(d, k, n)
            counted == S!CellsOf(d, P)
<1>1. p[1] = k /\ p[2] = n + 1
  OBVIOUS
<1>2. w \in Nat /\ WidthOf(d, p) = 1 .. w
  BY <1>1, PlaceFacts
<1>3. p \notin P
  BY <1>1, PlaceFacts DEF ReadTo
<1>4. ReadTo(d, k, n + 1) = P \cup {p}
  <2>1. ASSUME NEW q \in S!Charged(d) PROVE q[2] <= n + 1 /\ q[1] = k <=> (q[2] <= n /\ q[1] = k) \/ q = p
    <3>1. q = <<q[1], q[2]>> /\ q[2] \in Nat
      BY PlaceFacts
    <3>2. q = p <=> q[1] = k /\ q[2] = n + 1
      BY <1>1, <3>1
    <3> QED
      BY <3>1, <3>2
  <2>. HIDE DEF p
  <2>2. \A q \in S!Charged(d) : q \in ReadTo(d, k, n + 1) <=> q \in P \/ q = p
    BY <2>1 DEF ReadTo
  <2>3. p \in S!Charged(d)
    BY DEF p
  <2> QED
    BY <2>2, <2>3 DEF ReadTo
<1>5. S!CellsOf(d, P \cup {p}) = counted \cup ({p} \X (1 .. w))
  <2>. HIDE DEF p, P, w
  <2>1. S!CellsOf(d, P \cup {p}) = counted \cup ({p} \X WidthOf(d, p))
    BY DEF S!CellsOf, WidthOf
  <2> QED
    BY <1>2, <2>1
<1>6. counted \cap ({p} \X (1 .. w)) = {}
  <2>. HIDE DEF p, P, w
  <2>1. ASSUME NEW c \in counted PROVE c \notin {p} \X (1 .. w)
    <3>1. PICK q \in P : c \in {q} \X WidthOf(d, q)
      BY DEF S!CellsOf, WidthOf
    <3>2. c[1] = q /\ q # p
      BY <1>3, <3>1
    <3> QED
      BY <3>2
  <2> QED
    BY <2>1
<1>7. IsFiniteSet(counted)
  <2>1. P \subseteq S!Charged(d)
    BY DEF ReadTo
  <2> QED
    BY <2>1, PlacesAreFinite
<1>8. Cardinality(counted \cup ({p} \X (1 .. w))) = Cardinality(counted) + w
  <2>. HIDE DEF counted, p, w
  <2> QED
    BY <1>2, <1>6, <1>7, BlockOf
<1>9. cs = Cardinality(counted)
  BY DEF CellsRead
<1>10. cs + w = Cardinality(S!CellsOf(d, ReadTo(d, k, n + 1)))
  <2>. HIDE DEF counted, p, w, P
  <2> QED
    BY <1>4, <1>5, <1>8, <1>9
<1>11. ReadTo(d, k, n + 1) \subseteq S!Charged(d)
  BY DEF ReadTo
<1>12. Cardinality(S!CellsOf(d, ReadTo(d, k, n + 1))) <= Cardinality(S!CellsOf(d, S!Charged(d)))
  BY <1>11, PlacesAreFinite
<1> QED
  BY <1>2, <1>10, <1>12

\* One that is not charged adds nothing.
LEMMA RowNotCharged ==
    ASSUME NEW d \in Documents, d.kind # "mysql", NEW k \in DOMAIN S!Sheets(d), NEW n \in Nat, NEW cs,
           CellsRead(d, k, n, cs), <<k, n + 1>> \notin S!Charged(d)
    PROVE  CellsRead(d, k, n + 1, cs)
<1>1. ASSUME NEW q \in S!Charged(d) PROVE q[2] <= n + 1 /\ q[1] = k <=> q[2] <= n /\ q[1] = k
  <2>1. q = <<q[1], q[2]>> /\ q[2] \in Nat
    BY PlaceFacts
  <2>2. ~(q[1] = k /\ q[2] = n + 1)
    BY <2>1
  <2> QED
    BY <2>1, <2>2
<1>2. ReadTo(d, k, n + 1) = ReadTo(d, k, n)
  BY <1>1 DEF ReadTo
<1> QED
  BY <1>2 DEF CellsRead

\* What is charged of a sheet.
LEMMA ChargedRows ==
    ASSUME NEW d, NEW k \in DOMAIN S!Sheets(d), NEW i \in S!Yielded(d, S!Sheets(d)[k])
    PROVE  <<k, i>> \in S!Charged(d) <=> S!Workbook(d) \/ i \in S!DataRows(d, S!Sheets(d)[k])
<1>1. <<k, i>>[1] = k /\ <<k, i>>[2] = i /\ <<k, i>> \in {k} \X S!Yielded(d, S!Sheets(d)[k])
  OBVIOUS
<1> QED
  BY <1>1 DEF S!Charged

----
(* A file, sheet by sheet.                                                  *)

\* The first c sheets are closed.
Between(d, c, sk) ==
    /\ c \in 0 .. Len(S!Sheets(d)) /\ (c > 0 => S!ArchiveFits(d) /\ Len(S!Sheets(d)) <= MaxTables)
    /\ \A i \in 1 .. c : S!SheetIsSound(d, S!Sheets(d)[i])
    /\ S!IsSequence(sk) /\ Len(sk) = S!Rank(S!Full(d), c)
    /\ \A i \in S!Full(d) : i <= c => S!IsTableOf(sk[S!Rank(S!Full(d), i)], d, S!Sheets(d)[i])

\* The sheets with a table are finitely many and in order.
LEMMA FullFacts ==
    ASSUME NEW d \in Documents, d.kind # "mysql"
    PROVE  /\ DOMAIN S!Sheets(d) = 1 .. Len(S!Sheets(d)) /\ Len(S!Sheets(d)) \in Nat
           /\ IsFiniteSet(S!Full(d)) /\ Cardinality(S!Full(d)) \in Nat /\ S!Full(d) \subseteq 1 .. Len(S!Sheets(d))
           /\ S!Rank(S!Full(d), 0) = 0 /\ S!Rank(S!Full(d), Len(S!Sheets(d))) = Cardinality(S!Full(d))
           /\ \A i \in 0 .. Len(S!Sheets(d)) : S!Rank(S!Full(d), i) \in Nat
           /\ \A i \in 0 .. Len(S!Sheets(d)) - 1 :
                S!Rank(S!Full(d), i + 1) = IF i + 1 \in S!Full(d) THEN S!Rank(S!Full(d), i) + 1 ELSE S!Rank(S!Full(d), i)
           /\ \A i, j \in 0 .. Len(S!Sheets(d)) : i <= j => S!Rank(S!Full(d), i) <= S!Rank(S!Full(d), j)
           /\ \A i \in S!Full(d) : S!Rank(S!Full(d), i) \in 1 .. Cardinality(S!Full(d))
<1>1. DOMAIN S!Sheets(d) = 1 .. Len(S!Sheets(d)) /\ Len(S!Sheets(d)) \in Nat
  BY SheetsAreParsed, SequenceFacts
<1>2. PICK Q, size : Q = S!Full(d) /\ size = Len(S!Sheets(d))
  OBVIOUS
<1>3. Q \subseteq 1 .. size /\ size \in Nat
  BY <1>1, <1>2 DEF S!Full
<1>4. /\ IsFiniteSet(Q) /\ Cardinality(Q) \in Nat
      /\ S!Rank(Q, 0) = 0 /\ S!Rank(Q, size) = Cardinality(Q)
      /\ \A i \in 0 .. size : S!Rank(Q, i) \in Nat /\ S!Rank(Q, i) <= Cardinality(Q)
      /\ \A i \in 0 .. size - 1 : S!Rank(Q, i + 1) = IF i + 1 \in Q THEN S!Rank(Q, i) + 1 ELSE S!Rank(Q, i)
      /\ \A i, j \in 0 .. size : i <= j => S!Rank(Q, i) <= S!Rank(Q, j)
      /\ \A i \in Q : S!Rank(Q, i) \in 1 .. Cardinality(Q)
  BY <1>3, RankFacts
<1> QED
  BY <1>1, <1>2, <1>3, <1>4

\* Before the first row.
LEMMA SheetOpened ==
    ASSUME NEW d \in Documents, d.kind # "mysql", NEW k \in DOMAIN S!Sheets(d), NEW rs
    PROVE  /\ OpenSheet(d, S!Sheets(d)[k], 0, 0, S!NoReader, rs)
           /\ \A cs : CellsRead(d, k, 0, cs) <=> CellsRead(d, (k - 1) + 1, 0, cs)
<1>1. k \in Nat
  BY FullFacts
<1>2. \A i \in S!Yielded(d, S!Sheets(d)[k]) : ~(i <= 0)
  BY SheetsAreParsed, NumFacts, YieldedFacts
<1>3. 0 \in 0 .. Len(S!Sheets(d)[k].rows)
  BY SheetsAreParsed, NumFacts
<1>4. (k - 1) + 1 = k
  BY <1>1
<1> QED
  BY <1>2, <1>3, <1>4 DEF OpenSheet, Has

\* After the last one.
LEMMA SheetClosed ==
    ASSUME NEW d \in Documents, d.kind # "mysql", NEW k \in DOMAIN S!Sheets(d),
           S!ArchiveFits(d), Len(S!Sheets(d)) <= MaxTables,
           NEW n, NEW l, NEW rd, NEW rs, NEW cs, NEW sk, Between(d, k - 1, sk),
           OpenSheet(d, S!Sheets(d)[k], n, l, rd, rs), n = Len(S!Sheets(d)[k].rows),
           CellsRead(d, k, n, cs)
    PROVE  LET table == [name |-> S!Sheets(d)[k].name, columns |-> S!Finished(rd), rows |-> rs]
           IN  /\ rd = S!NoReader /\ ~S!Workbook(d) => ~S!FileIsSound(d)
               /\ rd = S!NoReader /\ S!Workbook(d) => Between(d, k, sk)
               /\ rd # S!NoReader => Between(d, k, Append(sk, table))
               /\ CellsRead(d, k + 1, 0, cs)
<1>. DEFINE s == S!Sheets(d)[k]
            F == S!Full(d)
            table == [name |-> s.name, columns |-> S!Finished(rd), rows |-> rs]
<1>1. Parsed(d, s)
  BY SheetsAreParsed
<1>2. /\ rd # S!NoReader <=> S!HasTable(d, s)
      /\ rd = S!NoReader /\ ~S!Workbook(d) => ~S!SheetIsSound(d, s)
      /\ rd # S!NoReader \/ S!Workbook(d) => S!SheetIsSound(d, s)
      /\ rd # S!NoReader => S!IsTableOf(table, d, s)
  BY <1>1, SheetRead
<1>3. k \in Nat \ {0} /\ k \in 1 .. Len(S!Sheets(d)) /\ Len(S!Sheets(d)) \in Nat
  BY FullFacts
<1>4. /\ k - 1 \in 0 .. Len(S!Sheets(d)) - 1 /\ k - 1 \in 0 .. Len(S!Sheets(d)) /\ (k - 1) + 1 = k
      /\ k \in 0 .. Len(S!Sheets(d))
  BY <1>3
<1>5. k \in F <=> rd # S!NoReader
  BY <1>2 DEF S!Full
<1>6. /\ S!Rank(F, k) = IF k \in F THEN S!Rank(F, k - 1) + 1 ELSE S!Rank(F, k - 1)
      /\ S!Rank(F, k - 1) \in Nat
  <2>1. S!Rank(F, (k - 1) + 1) = IF (k - 1) + 1 \in F THEN S!Rank(F, k - 1) + 1 ELSE S!Rank(F, k - 1)
    BY <1>4, FullFacts
  <2> QED
    BY <1>4, <2>1, FullFacts
<1>7. /\ S!IsSequence(sk) /\ Len(sk) = S!Rank(F, k - 1)
      /\ \A i \in F : i <= k - 1 => S!IsTableOf(sk[S!Rank(F, i)], d, S!Sheets(d)[i])
      /\ \A i \in 1 .. k - 1 : S!SheetIsSound(d, S!Sheets(d)[i])
  BY DEF Between
<1>8. \A i \in F : i \in Nat /\ (i <= k <=> i <= k - 1 \/ i = k) /\ i \in 0 .. Len(S!Sheets(d))
  BY <1>3, FullFacts
<1>9. ASSUME S!SheetIsSound(d, s) PROVE \A i \in 1 .. k : S!SheetIsSound(d, S!Sheets(d)[i])
  <2>1. \A i \in 1 .. k : i \in 1 .. k - 1 \/ i = k
    BY <1>3
  <2> QED
    BY <1>7, <1>9, <2>1
<1>10. rd = S!NoReader /\ ~S!Workbook(d) => ~S!FileIsSound(d)
  BY <1>2 DEF S!FileIsSound
<1>11. ASSUME rd = S!NoReader, S!Workbook(d) PROVE Between(d, k, sk)
  <2>1. k \notin F
    BY <1>5, <1>11
  <2>2. \A i \in F : i <= k => i <= k - 1
    BY <1>8, <2>1
  <2>. HIDE DEF F
  <2>3. Len(sk) = S!Rank(F, k) /\ \A i \in F : i <= k => S!IsTableOf(sk[S!Rank(F, i)], d, S!Sheets(d)[i])
    BY <1>6, <1>7, <2>1, <2>2
  <2> QED
    BY <1>2, <1>4, <1>7, <1>9, <1>11, <2>3 DEF Between, F
<1>12. ASSUME rd # S!NoReader PROVE Between(d, k, Append(sk, table))
  <2>1. k \in F
    BY <1>5, <1>12
  <2>2. PICK all : all = Append(sk, table)
    OBVIOUS
  <2>3. /\ S!IsSequence(all) /\ Len(all) = S!Rank(F, k) /\ all[S!Rank(F, k)] = table
        /\ \A j \in 1 .. Len(sk) : all[j] = sk[j]
    <3>1. /\ S!IsSequence(all) /\ Len(all) = Len(sk) + 1 /\ all[Len(sk) + 1] = table
          /\ \A j \in 1 .. Len(sk) : all[j] = sk[j]
      BY <1>7, <2>2, AppendFacts
    <3>. HIDE DEF F
    <3> QED
      BY <1>6, <1>7, <2>1, <3>1
  <2>4. ASSUME NEW i \in F, i <= k PROVE S!IsTableOf(all[S!Rank(F, i)], d, S!Sheets(d)[i])
    <3>1. CASE i = k
      BY <1>2, <1>12, <2>3, <3>1
    <3>2. CASE i # k
      <4>1. i <= k - 1 /\ i \in 0 .. Len(S!Sheets(d))
        BY <1>8, <2>4, <3>2
      <4>2. S!Rank(F, i) \in 1 .. Len(sk)
        <5>1. S!Rank(F, i) <= S!Rank(F, k - 1)
          BY <1>4, <4>1, FullFacts
        <5>2. S!Rank(F, i) \in 1 .. Cardinality(F) /\ Cardinality(F) \in Nat
          BY FullFacts
        <5>. HIDE DEF F
        <5> QED
          BY <1>6, <1>7, <5>1, <5>2
      <4> QED
        BY <1>7, <2>3, <4>1, <4>2
    <3> QED
      BY <3>1, <3>2
  <2>5. k > 0 => S!ArchiveFits(d) /\ Len(S!Sheets(d)) <= MaxTables
    OBVIOUS
  <2>6. Between(d, k, all)
    BY <1>2, <1>4, <1>9, <1>12, <2>3, <2>4, <2>5 DEF Between
  <2> QED
    BY <2>2, <2>6
<1>13. CellsRead(d, k + 1, 0, cs)
  <2>1. ASSUME NEW p \in S!Charged(d) PROVE p[1] < k \/ (p[1] = k /\ p[2] <= n) <=> p[1] < k + 1 \/ (p[1] = k + 1 /\ p[2] <= 0)
    <3>1. p[1] \in Nat /\ p[2] \in Nat \ {0} /\ p[2] \in S!Rows(S!Sheets(d)[p[1]])
      BY PlaceFacts
    <3>2. p[1] = k => p[2] <= n
      BY <1>1, <3>1, NumFacts DEF S!Rows
    <3> QED
      BY <1>3, <3>1, <3>2
  <2>2. ReadTo(d, k + 1, 0) = ReadTo(d, k, n)
    BY <2>1 DEF ReadTo
  <2> QED
    BY <2>2 DEF CellsRead
<1> QED
  BY <1>10, <1>11, <1>12, <1>13

\* All sheets are closed.
LEMMA FileRead ==
    ASSUME NEW d \in Documents, d.kind # "mysql", NEW c, NEW cs, NEW sk, Between(d, c, sk),
           CellsRead(d, c + 1, 0, cs), c = Len(S!Sheets(d)), S!ArchiveFits(d), Len(S!Sheets(d)) <= MaxTables
    PROVE  /\ S!FileIsSound(d) <=> sk # <<>>
           /\ DOMAIN sk = 1 .. Cardinality(S!Full(d))
           /\ \A i \in S!Full(d) : S!IsTableOf(sk[S!Rank(S!Full(d), i)], d, S!Sheets(d)[i])
<1>1. Len(sk) = Cardinality(S!Full(d)) /\ DOMAIN sk = 1 .. Len(sk) /\ (sk = <<>> <=> Len(sk) = 0)
  BY FullFacts, SequenceFacts DEF Between
<1>2. \A i \in S!Full(d) : i <= c
  BY FullFacts
<1>3. \A i \in S!Full(d) : S!IsTableOf(sk[S!Rank(S!Full(d), i)], d, S!Sheets(d)[i])
  BY <1>2 DEF Between
<1>4. S!Full(d) = {} <=> Cardinality(S!Full(d)) = 0
  BY FullFacts, FS_EmptySet
<1>5. S!Full(d) # {} <=> \E i \in DOMAIN S!Sheets(d) : S!HasTable(d, S!Sheets(d)[i])
  BY DEF S!Full
<1>6. \A i \in DOMAIN S!Sheets(d) : S!SheetIsSound(d, S!Sheets(d)[i])
  BY FullFacts DEF Between
<1>7. Cardinality(S!CellsOf(d, S!Charged(d))) <= MaxCells
  <2>1. ASSUME NEW p \in S!Charged(d) PROVE p[1] < c + 1
    BY PlaceFacts, FullFacts
  <2>2. ReadTo(d, c + 1, 0) = S!Charged(d)
    BY <2>1 DEF ReadTo
  <2> QED
    BY <2>2 DEF CellsRead
<1> QED
  BY <1>1, <1>3, <1>4, <1>5, <1>6, <1>7, ReaderSets DEF S!FileIsSound

\* The cells that a row is charged, and the rows that are refused.
ChargeOf(d, s, i, rd) == IF S!Workbook(d) \/ rd # S!NoReader THEN Len(S!Val(d, s, i)) ELSE 0

\* A row that is read adds its charge to the cells read.
LEMMA CellsAdded ==
    ASSUME NEW d \in Documents, d.kind # "mysql", NEW k \in DOMAIN S!Sheets(d),
           NEW n, NEW l, NEW rd, NEW rs, NEW cs,
           OpenSheet(d, S!Sheets(d)[k], n, l, rd, rs), n # Len(S!Sheets(d)[k].rows),
           CellsRead(d, k, n, cs),
           n + 1 \in S!Yielded(d, S!Sheets(d)[k]), S!RowIsSound(d, S!Sheets(d)[k], n + 1)
    PROVE  LET charge == ChargeOf(d, S!Sheets(d)[k], n + 1, rd)
           IN  /\ cs + charge > MaxCells => ~S!FileIsSound(d)
               /\ /\ ~(cs + charge > MaxCells)
                  /\ rd = S!NoReader => n + 1 \notin S!DataRows(d, S!Sheets(d)[k])
                  => CellsRead(d, k, n + 1, cs + charge)
<1>. DEFINE s == S!Sheets(d)[k]
            w == Len(S!Val(d, s, n + 1))
            charge == ChargeOf(d, s, n + 1, rd)
            whole == Cardinality(S!CellsOf(d, S!Charged(d)))
<1>1. Parsed(d, s)
  BY SheetsAreParsed
<1>2. n \in Nat /\ n + 1 \in S!Rows(s)
  BY <1>1, NextNumber
<1>3. cs \in Nat /\ cs <= MaxCells /\ MaxCells \in Nat
  BY ReadIsFinite, LimitsAreNat DEF CellsRead
<1>4. w \in Nat /\ (S!Val(d, s, n + 1) = <<>> <=> w = 0)
  BY <1>1, <1>2, ValFacts
<1>5. <<k, n + 1>> \in S!Charged(d) <=> S!Workbook(d) \/ n + 1 \in S!DataRows(d, s)
  BY ChargedRows
<1>6. S!FileIsSound(d) => whole <= MaxCells
  BY ReaderSets DEF S!FileIsSound
<1>7. whole \in Nat
  BY PlacesAreFinite
<1>8. CASE <<k, n + 1>> \in S!Charged(d)
  <2>1. cs + w = Cardinality(S!CellsOf(d, ReadTo(d, k, n + 1))) /\ cs + w <= whole
    BY <1>2, <1>8, RowCharged
  <2>2. CASE charge = w
    <3>1. cs + charge > MaxCells => ~S!FileIsSound(d)
      <4>. HIDE DEF charge, w, whole
      <4> QED
        BY <1>3, <1>4, <1>6, <1>7, <2>1, <2>2
    <3>2. ~(cs + charge > MaxCells) => CellsRead(d, k, n + 1, cs + charge)
      <4>. HIDE DEF charge, w, whole
      <4> QED
        BY <1>3, <1>4, <2>1, <2>2 DEF CellsRead
    <3> QED
      BY <3>1, <3>2
  <2>3. CASE charge # w
    <3>1. ~S!Workbook(d) /\ rd = S!NoReader /\ charge = 0
      BY <2>3 DEF ChargeOf
    <3>2. n + 1 \in S!DataRows(d, s)
      BY <1>5, <1>8, <3>1
    <3>. HIDE DEF charge
    <3> QED
      BY <1>3, <3>1, <3>2 DEF charge
  <2> QED
    BY <2>2, <2>3
<1>9. CASE <<k, n + 1>> \notin S!Charged(d)
  <2>1. charge = 0
    <3>1. ~S!Workbook(d) /\ n + 1 \notin S!DataRows(d, s)
      BY <1>5, <1>9
    <3>2. ASSUME rd # S!NoReader PROVE w = 0
      <4>1. Has(d, s, n)
        BY <1>1, <3>2, ReaderIsSet
      <4>2. PICK h \in S!Yielded(d, s) : h <= n /\ TableSoFar(d, s, n, h, rd, rs)
        BY <4>1 DEF OpenSheet
      <4>3. S!Blank(d, s, n + 1)
        BY <1>1, <3>1, <4>2, AfterHeader
      <4> QED
        BY <1>4, <3>1, <4>3 DEF S!Blank
    <3> QED
      BY <3>1, <3>2 DEF ChargeOf
  <2>2. CellsRead(d, k, n + 1, cs)
    BY <1>2, <1>9, RowNotCharged
  <2>3. cs + charge = cs
    <3>. HIDE DEF charge
    <3> QED
      BY <1>3, <2>1
  <2>. HIDE DEF charge
  <2> QED
    BY <1>3, <2>2, <2>3 DEF charge
<1> QED
  BY <1>8, <1>9

\* What the reader refuses is wrong with the file.
LEMMA RowRefused ==
    ASSUME NEW d \in Documents, d.kind # "mysql", NEW k \in DOMAIN S!Sheets(d),
           NEW n, NEW l, NEW rd, NEW rs, NEW cs,
           OpenSheet(d, S!Sheets(d)[k], n, l, rd, rs), n # Len(S!Sheets(d)[k].rows),
           CellsRead(d, k, n, cs), n + 1 \in S!Yielded(d, S!Sheets(d)[k]),
           LET s == S!Sheets(d)[k]
               m == S!Num(s, n + 1)
               v == S!Val(d, s, n + 1)
           IN  \/ ~S!RowIsSound(d, s, n + 1)
               \/ cs + ChargeOf(d, s, n + 1, rd) > MaxCells
               \/ /\ ~(m < d.header)
                  /\ ~IF S!Workbook(d) THEN S!AllNone(v) ELSE rd # S!NoReader /\ v = <<>>
                  /\ IF rd = S!NoReader THEN m # d.header \/ ~S!GoodHeader(S!HeaderOf(d, v))
                     ELSE \/ rd.count >= MaxRows
                          \/ IF S!Workbook(d) THEN ~S!AllNone(SubSeq(v, Len(rd.names) + 1, Len(v)))
                             ELSE Len(v) # Len(rd.names)
    PROVE  ~S!FileIsSound(d)
<1>. DEFINE s == S!Sheets(d)[k]
            m == S!Num(s, n + 1)
            v == S!Val(d, s, n + 1)
<1>1. Parsed(d, s)
  BY SheetsAreParsed
<1>3. ~S!SheetIsSound(d, s) => ~S!FileIsSound(d)
  BY DEF S!FileIsSound
<1>4. CASE ~S!RowIsSound(d, s, n + 1)
  BY <1>3, <1>4 DEF S!SheetIsSound
<1>5. CASE S!RowIsSound(d, s, n + 1) /\ cs + ChargeOf(d, s, n + 1, rd) > MaxCells
  BY <1>5, CellsAdded
<1>6. ASSUME ~(m < d.header), rd = S!NoReader, S!Workbook(d) => ~S!AllNone(v),
             m # d.header \/ ~S!GoodHeader(S!HeaderOf(d, v))
      PROVE  ~S!SheetIsSound(d, s)
  <2>1. S!Workbook(d) => ~S!Blank(d, s, n + 1)
    BY <1>6 DEF S!Blank
  <2> QED
    BY <1>1, <1>6, <2>1, HeaderRefused
<1>7. ASSUME rd # S!NoReader,
             ~IF S!Workbook(d) THEN S!AllNone(v) ELSE v = <<>>,
             \/ rd.count >= MaxRows
             \/ IF S!Workbook(d) THEN ~S!AllNone(SubSeq(v, Len(rd.names) + 1, Len(v)))
                ELSE Len(v) # Len(rd.names)
      PROVE  ~S!SheetIsSound(d, s)
  <2>1. ~S!Blank(d, s, n + 1)
    BY <1>7 DEF S!Blank
  <2> QED
    BY <1>1, <1>7, <2>1, DataRefused
<1> QED
  BY <1>3, <1>4, <1>5, <1>6, <1>7

\* What it accepts leaves the sheet open, one row further.
LEMMA RowAccepted ==
    ASSUME NEW d \in Documents, d.kind # "mysql", NEW k \in DOMAIN S!Sheets(d),
           NEW n, NEW l, NEW rd, NEW rs, NEW cs,
           OpenSheet(d, S!Sheets(d)[k], n, l, rd, rs), n # Len(S!Sheets(d)[k].rows),
           CellsRead(d, k, n, cs),
           n + 1 \in S!Yielded(d, S!Sheets(d)[k]), S!RowIsSound(d, S!Sheets(d)[k], n + 1),
           ~(cs + ChargeOf(d, S!Sheets(d)[k], n + 1, rd) > MaxCells),
           NEW ignored, NEW rd2, NEW rs2,
           LET s == S!Sheets(d)[k]
               m == S!Num(s, n + 1)
               v == S!Val(d, s, n + 1)
               padded == S!Padded(v, Len(rd.names))
           IN  /\ ignored <=> m < d.header \/ IF S!Workbook(d) THEN S!AllNone(v) ELSE rd # S!NoReader /\ v = <<>>
               /\ ~ignored =>
                    ~IF rd = S!NoReader THEN m # d.header \/ ~S!GoodHeader(S!HeaderOf(d, v))
                     ELSE \/ rd.count >= MaxRows
                          \/ IF S!Workbook(d) THEN ~S!AllNone(SubSeq(v, Len(rd.names) + 1, Len(v)))
                             ELSE Len(v) # Len(rd.names)
               /\ \/ ignored /\ rd2 = rd /\ rs2 = rs
                  \/ ~ignored /\ rd = S!NoReader /\ rd2 = S!NewReader(S!HeaderOf(d, v)) /\ rs2 = <<>>
                  \/ /\ ~ignored /\ rd # S!NoReader
                     /\ rd2 = S!Added(rd, padded) /\ rs2 = Append(rs, [number |-> m, values |-> padded])
    PROVE  LET s == S!Sheets(d)[k]
           IN  /\ OpenSheet(d, s, n + 1, S!Num(s, n + 1), rd2, rs2)
               /\ CellsRead(d, k, n + 1, cs + ChargeOf(d, s, n + 1, rd))
<1>. DEFINE s == S!Sheets(d)[k]
            m == S!Num(s, n + 1)
            v == S!Val(d, s, n + 1)
            padded == S!Padded(v, Len(rd.names))
<1>1. Parsed(d, s)
  BY SheetsAreParsed
<1>2. CASE ignored
  <2>1. \/ m < d.header
        \/ S!Workbook(d) /\ S!AllNone(v)
        \/ ~S!Workbook(d) /\ rd # S!NoReader /\ v = <<>>
    BY <1>2
  <2>2. OpenSheet(d, s, n + 1, m, rd, rs) /\ n + 1 \notin S!DataRows(d, s)
    BY <1>1, <2>1, RowIgnored
  <2>3. rd2 = rd /\ rs2 = rs
    BY <1>2
  <2> QED
    BY <2>2, <2>3, CellsAdded
<1>3. CASE ~ignored /\ rd = S!NoReader
  <2>1. m = d.header /\ S!GoodHeader(S!HeaderOf(d, v)) /\ rd2 = S!NewReader(S!HeaderOf(d, v)) /\ rs2 = <<>>
    BY <1>3
  <2>2. S!Workbook(d) => ~S!Blank(d, s, n + 1)
    BY <1>3 DEF S!Blank
  <2>3. OpenSheet(d, s, n + 1, m, S!NewReader(S!HeaderOf(d, v)), <<>>) /\ n + 1 \notin S!DataRows(d, s)
    BY <1>1, <1>3, <2>1, <2>2, HeaderRead
  <2> QED
    BY <2>1, <2>3, CellsAdded
<1>4. CASE ~ignored /\ rd # S!NoReader
  <2>1. /\ ~(rd.count >= MaxRows)
        /\ S!Workbook(d) => S!AllNone(SubSeq(v, Len(rd.names) + 1, Len(v)))
        /\ ~S!Workbook(d) => Len(v) = Len(rd.names)
        /\ rd2 = S!Added(rd, padded) /\ rs2 = Append(rs, [number |-> m, values |-> padded])
    BY <1>4
  <2>2. ~S!Blank(d, s, n + 1)
    BY <1>4 DEF S!Blank
  <2>3. OpenSheet(d, s, n + 1, m, S!Added(rd, padded), Append(rs, [number |-> m, values |-> padded]))
    BY <1>1, <1>4, <2>1, <2>2, DataRead
  <2> QED
    BY <1>4, <2>1, <2>3, CellsAdded
<1> QED
  BY <1>2, <1>3, <1>4

\* A row that is not yielded leaves the table and the cells as they are.
LEMMA RowSkipped ==
    ASSUME NEW d \in Documents, d.kind # "mysql", NEW k \in DOMAIN S!Sheets(d),
           NEW n, NEW l, NEW rd, NEW rs, NEW cs,
           OpenSheet(d, S!Sheets(d)[k], n, l, rd, rs), n # Len(S!Sheets(d)[k].rows),
           CellsRead(d, k, n, cs), n + 1 \notin S!Yielded(d, S!Sheets(d)[k])
    PROVE  /\ OpenSheet(d, S!Sheets(d)[k], n + 1, S!Num(S!Sheets(d)[k], n + 1), rd, rs)
           /\ CellsRead(d, k, n + 1, cs)
<1>. DEFINE s == S!Sheets(d)[k]
<1>1. Parsed(d, s)
  BY SheetsAreParsed
<1>2. n \in Nat
  BY <1>1, NextNumber
<1>3. OpenSheet(d, s, n + 1, S!Num(s, n + 1), rd, rs)
  BY <1>1, RowIgnored
<1>4. <<k, n + 1>> \notin S!Charged(d)
  <2>1. SUFFICES ASSUME <<k, n + 1>> \in S!Charged(d) PROVE FALSE
    OBVIOUS
  <2>2. PICK j \in DOMAIN S!Sheets(d) : <<k, n + 1>> \in {j} \X S!Yielded(d, S!Sheets(d)[j])
    BY <2>1 DEF S!Charged
  <2>3. j = k /\ n + 1 \in S!Yielded(d, S!Sheets(d)[j])
    BY <2>2
  <2> QED
    BY <2>3
<1> QED
  BY <1>2, <1>3, <1>4, RowNotCharged

\* A file between two sheets, in one, at its end, or refused for a cause.
Waiting == (sheet = 0 \/ readersRow = -1) /\ Between(doc, sheet, sink) /\ CellsRead(doc, sheet + 1, 0, cells)
InSheet ==
    /\ sheet \in DOMAIN S!Sheets(doc) /\ S!ArchiveFits(doc) /\ Len(S!Sheets(doc)) <= MaxTables
    /\ Between(doc, sheet - 1, sink)
    /\ OpenSheet(doc, S!Sheets(doc)[sheet], readersRow, last, readersReader, readersRows)
    /\ CellsRead(doc, sheet, readersRow, cells)
Complete ==
    /\ Between(doc, Len(S!Sheets(doc)), sink) /\ CellsRead(doc, Len(S!Sheets(doc)) + 1, 0, cells)
    /\ S!ArchiveFits(doc) /\ Len(S!Sheets(doc)) <= MaxTables /\ sink # <<>>
FileInv ==
    \/ result = "reading" /\ Waiting
    \/ result = "reading" /\ InSheet
    \/ result = "done" /\ Complete
    \/ result = "refused" /\ ~S!FileIsSound(doc)

\* A file that was not begun.
LEMMA FileInit ==
    ASSUME S!Init, doc.kind # "mysql"
    PROVE  FileInv
<1>1. doc \in Documents /\ sheet = 0 /\ cells = 0 /\ sink = <<>> /\ result = "reading"
  BY DEF S!Init
<1>2. S!IsSequence(<<>>) /\ Len(<<>>) = 0
  BY DEF S!IsSequence
<1>3. Between(doc, 0, <<>>)
  BY <1>1, <1>2, FullFacts DEF Between
<1>4. ReadTo(doc, 1, 0) = {}
  <2>1. \A p \in S!Charged(doc) : ~(p[1] < 1 \/ (p[1] = 1 /\ p[2] <= 0))
    BY <1>1, PlaceFacts
  <2> QED
    BY <2>1 DEF ReadTo
<1>5. S!CellsOf(doc, {}) = {}
  BY DEF S!CellsOf
<1>6. CellsRead(doc, 1, 0, 0)
  BY <1>4, <1>5, FS_EmptySet, LimitsAreNat DEF CellsRead
<1> QED
  BY <1>1, <1>3, <1>6 DEF FileInv, Waiting

\* The next sheet is opened, or the file is at its end.
LEMMA OpenStep ==
    ASSUME FileInv, doc \in Documents, doc.kind # "mysql", S!Open
    PROVE  FileInv'
<1>1. result = "reading" /\ (sheet = 0 \/ readersRow = -1)
  BY DEF S!Open, S!Reading
<1>2. Waiting
  <2>1. ASSUME InSheet PROVE FALSE
    <3>1. sheet # 0
      BY <2>1, FullFacts DEF InSheet
    <3>2. readersRow \in 0 .. Len(S!Sheets(doc)[sheet].rows)
      BY <2>1 DEF InSheet, OpenSheet
    <3>3. Len(S!Sheets(doc)[sheet].rows) \in Nat
      BY <2>1, SheetsAreParsed, NumFacts DEF InSheet
    <3> QED
      BY <1>1, <3>1, <3>2, <3>3
  <2> QED
    BY <1>1, <2>1 DEF FileInv
<1>3. Between(doc, sheet, sink) /\ CellsRead(doc, sheet + 1, 0, cells)
  BY <1>2 DEF Waiting
<1>4. sheet \in 0 .. Len(S!Sheets(doc)) /\ Len(S!Sheets(doc)) \in Nat /\ DOMAIN S!Sheets(doc) = 1 .. Len(S!Sheets(doc))
  BY <1>3, FullFacts DEF Between
<1>5. CASE S!Rejected
  <2>1. doc' = doc /\ result' = "refused"
    BY <1>5 DEF S!Open, S!Refuse
  <2>2. ~S!FileIsSound(doc)
    BY <1>4, <1>5, LimitsAreNat DEF S!FileIsSound, S!Rejected
  <2> QED
    BY <2>1, <2>2 DEF FileInv
<1>6. CASE ~S!Rejected /\ sheet < Len(S!Sheets(doc))
  <2>1. /\ doc' = doc /\ sheet' = sheet + 1 /\ readersRow' = 0 /\ last' = 0 /\ readersReader' = S!NoReader
        /\ sink' = sink /\ cells' = cells /\ result' = "reading"
    BY <1>1, <1>6 DEF S!Open
  <2>2. sheet + 1 \in DOMAIN S!Sheets(doc) /\ (sheet + 1) - 1 = sheet
    BY <1>4, <1>6
  <2>3. OpenSheet(doc, S!Sheets(doc)[sheet + 1], 0, 0, S!NoReader, readersRows')
    BY <2>2, SheetOpened
  <2>4. S!ArchiveFits(doc) /\ Len(S!Sheets(doc)) <= MaxTables
    BY <1>4, <1>6, LimitsAreNat DEF S!Rejected
  <2>5. InSheet'
    BY <1>3, <2>1, <2>2, <2>3, <2>4 DEF InSheet
  <2> QED
    BY <2>1, <2>5 DEF FileInv
<1>7. CASE ~S!Rejected /\ ~(sheet < Len(S!Sheets(doc)))
  <2>1. /\ doc' = doc /\ sink' = sink /\ cells' = cells
        /\ result' = IF sink = <<>> THEN "refused" ELSE "done"
    BY <1>7 DEF S!Open
  <2>2. sheet = Len(S!Sheets(doc)) /\ S!ArchiveFits(doc) /\ Len(S!Sheets(doc)) <= MaxTables
    <3>1. PICK len : len = Len(S!Sheets(doc))
      OBVIOUS
    <3>2. len \in Nat /\ sheet \in 0 .. len /\ ~(len > MaxTables) /\ ~(sheet < len) /\ S!ArchiveFits(doc)
      BY <1>4, <1>7, <3>1 DEF S!Rejected
    <3>3. sheet = len /\ len <= MaxTables
      BY <3>2, LimitsAreNat
    <3> QED
      BY <3>1, <3>2, <3>3
  <2>3. S!FileIsSound(doc) <=> sink # <<>>
    BY <1>3, <2>2, FileRead
  <2>4. CASE sink = <<>>
    BY <2>1, <2>3, <2>4 DEF FileInv
  <2>5. CASE sink # <<>>
    <3>1. Complete'
      BY <1>3, <2>1, <2>2, <2>5 DEF Complete
    <3> QED
      BY <2>1, <2>5, <3>1 DEF FileInv
  <2> QED
    BY <2>4, <2>5
<1> QED
  BY <1>5, <1>6, <1>7

\* A row is only read inside a sheet.
LEMMA MoreFacts ==
    ASSUME FileInv, doc \in Documents, doc.kind # "mysql", S!More
    PROVE  /\ result = "reading" /\ InSheet /\ sheet \in DOMAIN S!Sheets(doc)
           /\ readersRow # Len(S!Sheets(doc)[sheet].rows) /\ readersRow \in Nat
           /\ Parsed(doc, S!Sheets(doc)[sheet])
           /\ S!Late <=> readersRow + 1 \notin S!Yielded(doc, S!Sheets(doc)[sheet])
           /\ S!Source = S!Sheets(doc)[sheet].rows[readersRow + 1]
           /\ S!Number(S!Source.number, last) = S!Num(S!Sheets(doc)[sheet], readersRow + 1)
           /\ S!Values(doc, S!Source) = S!Val(doc, S!Sheets(doc)[sheet], readersRow + 1)
<1>1. result = "reading" /\ sheet > 0 /\ readersRow \in 0 .. Len(S!Sheets(doc)[sheet].rows) - 1
  BY DEF S!More, S!Reading, S!Current
<1>2. InSheet
  <2>1. ASSUME Waiting PROVE FALSE
    <3>1. sheet \in 0 .. Len(S!Sheets(doc)) /\ Len(S!Sheets(doc)) \in Nat
      BY <2>1, FullFacts DEF Waiting, Between
    <3>2. sheet \in DOMAIN S!Sheets(doc)
      BY <1>1, <3>1, FullFacts
    <3>3. Len(S!Sheets(doc)[sheet].rows) \in Nat
      BY <3>2, SheetsAreParsed, NumFacts
    <3>4. readersRow # -1 /\ sheet # 0
      BY <1>1, <3>1, <3>3
    <3> QED
      BY <2>1, <3>4 DEF Waiting
  <2> QED
    BY <1>1, <2>1 DEF FileInv
<1>3. sheet \in DOMAIN S!Sheets(doc)
  BY <1>2 DEF InSheet
<1>4. Parsed(doc, S!Sheets(doc)[sheet])
  BY <1>3, SheetsAreParsed
<1>5. readersRow # Len(S!Sheets(doc)[sheet].rows) /\ readersRow \in Nat
  BY <1>1, <1>4, NumFacts
<1>6. OpenSheet(doc, S!Sheets(doc)[sheet], readersRow, last, readersReader, readersRows)
  BY <1>2 DEF InSheet
<1>7. S!Source = S!Sheets(doc)[sheet].rows[readersRow + 1]
  BY DEF S!Source, S!Current
<1>9. S!Late <=> readersRow + 1 \notin S!Yielded(doc, S!Sheets(doc)[sheet])
  BY DEF S!Late, S!Current
<1>8. /\ S!Num(S!Sheets(doc)[sheet], readersRow + 1) = S!Number(S!Sheets(doc)[sheet].rows[readersRow + 1].number, last)
      /\ S!Values(doc, S!Sheets(doc)[sheet].rows[readersRow + 1]) = S!Val(doc, S!Sheets(doc)[sheet], readersRow + 1)
  BY <1>4, <1>5, <1>6, NextNumber
<1> QED
  BY <1>1, <1>2, <1>3, <1>4, <1>5, <1>7, <1>8, <1>9

\* The tests of the reader, in terms of the sheet.
LEMMA ReaderTests ==
    ASSUME FileInv, doc \in Documents, doc.kind # "mysql", S!More
    PROVE  LET s == S!Sheets(doc)[sheet]
               m == S!Num(s, readersRow + 1)
               v == S!Val(doc, s, readersRow + 1)
               rd == readersReader
           IN  /\ S!Unreadable(m, v) <=> ~S!RowIsSound(doc, s, readersRow + 1)
               /\ S!Charge(v) = ChargeOf(doc, s, readersRow + 1, rd)
               /\ S!Ignored(m, v) <=>
                    m < doc.header \/ IF S!Workbook(doc) THEN S!AllNone(v) ELSE rd # S!NoReader /\ v = <<>>
               /\ S!Misshapen(m, v) <=>
                    IF rd = S!NoReader THEN m # doc.header \/ ~S!GoodHeader(S!HeaderOf(doc, v))
                    ELSE \/ rd.count >= MaxRows
                         \/ IF S!Workbook(doc) THEN ~S!AllNone(SubSeq(v, Len(rd.names) + 1, Len(v)))
                            ELSE Len(v) # Len(rd.names)
<1>. DEFINE s == S!Sheets(doc)[sheet]
            m == S!Num(s, readersRow + 1)
            v == S!Val(doc, s, readersRow + 1)
<1>1. /\ InSheet /\ readersRow # Len(s.rows) /\ Parsed(doc, s)
      /\ S!Source = s.rows[readersRow + 1]
  BY MoreFacts
<1>2. OpenSheet(doc, s, readersRow, last, readersReader, readersRows)
  BY <1>1 DEF InSheet
<1>3. S!RowIsSound(doc, s, readersRow + 1) <=>
        ~ \/ /\ doc.kind = "xlsx"
             /\ \/ m <= last
                \/ m > MaxRows + doc.header
                \/ ~S!Ordered(s.rows[readersRow + 1].cells)
          \/ doc.kind = "buffer" /\ m >= doc.header /\ Len(v) > MaxColumns
          \/ /\ doc.kind # "buffer" \/ m >= doc.header
             /\ \E k \in DOMAIN v : S!IsFault(v[k])
  BY <1>1, <1>2, NextIsSound
<1>. HIDE DEF m, v
<1>4. S!Unreadable(m, v) <=> ~S!RowIsSound(doc, s, readersRow + 1)
  BY <1>1, <1>3 DEF S!Unreadable
<1>5. S!Charge(v) = ChargeOf(doc, s, readersRow + 1, readersReader)
  BY DEF S!Charge, ChargeOf, v
<1>6. S!Ignored(m, v) <=> m < doc.header \/ IF S!Workbook(doc) THEN S!AllNone(v) ELSE readersReader # S!NoReader /\ v = <<>>
  BY DEF S!Ignored
<1>7. S!Misshapen(m, v) <=>
        IF readersReader = S!NoReader THEN m # doc.header \/ ~S!GoodHeader(S!HeaderOf(doc, v))
        ELSE \/ readersReader.count >= MaxRows
             \/ IF S!Workbook(doc) THEN ~S!AllNone(SubSeq(v, Len(readersReader.names) + 1, Len(v)))
                ELSE Len(v) # Len(readersReader.names)
  BY DEF S!Misshapen
<1> QED
  BY <1>4, <1>5, <1>6, <1>7 DEF m, v

\* A row is only refused in a file that is not sound.
LEMMA RefuseRowStep ==
    ASSUME FileInv, doc \in Documents, doc.kind # "mysql", S!RefuseRow
    PROVE  FileInv'
<1>. DEFINE s == S!Sheets(doc)[sheet]
            m == S!Num(s, readersRow + 1)
            v == S!Val(doc, s, readersRow + 1)
<1>1. S!More /\ ~S!Late /\ S!Refused(S!Number(S!Source.number, last), S!Values(doc, S!Source)) /\ S!Refuse
  BY DEF S!RefuseRow
<1>2. /\ InSheet /\ readersRow # Len(s.rows) /\ Parsed(doc, s) /\ sheet \in DOMAIN S!Sheets(doc)
      /\ S!Number(S!Source.number, last) = m /\ S!Values(doc, S!Source) = v
      /\ readersRow + 1 \in S!Yielded(doc, s)
  BY <1>1, MoreFacts
<1>3. S!Refused(m, v)
  BY <1>1, <1>2
<1>4. \/ ~S!RowIsSound(doc, s, readersRow + 1)
      \/ cells + ChargeOf(doc, s, readersRow + 1, readersReader) > MaxCells
      \/ /\ ~(m < doc.header)
         /\ ~IF S!Workbook(doc) THEN S!AllNone(v) ELSE readersReader # S!NoReader /\ v = <<>>
         /\ IF readersReader = S!NoReader THEN m # doc.header \/ ~S!GoodHeader(S!HeaderOf(doc, v))
            ELSE \/ readersReader.count >= MaxRows
                 \/ IF S!Workbook(doc) THEN ~S!AllNone(SubSeq(v, Len(readersReader.names) + 1, Len(v)))
                    ELSE Len(v) # Len(readersReader.names)
  <2>. HIDE DEF m, v
  <2>1. S!Unreadable(m, v) \/ cells + S!Charge(v) > MaxCells \/ (~S!Ignored(m, v) /\ S!Misshapen(m, v))
    BY <1>3 DEF S!Refused
  <2> QED
    BY <1>1, <2>1, ReaderTests DEF m, v
<1>5. ~S!FileIsSound(doc)
  <2>1. OpenSheet(doc, s, readersRow, last, readersReader, readersRows) /\ CellsRead(doc, sheet, readersRow, cells)
    BY <1>2 DEF InSheet
  <2> QED
    BY <1>2, <1>4, <2>1, RowRefused
<1>6. doc' = doc /\ result' = "refused"
  BY <1>1 DEF S!Refuse
<1> QED
  BY <1>5, <1>6 DEF FileInv

\* A row that is accepted is sound, and the sheet is read up to it.
LEMMA ReadRowStep ==
    ASSUME FileInv, doc \in Documents, doc.kind # "mysql", S!ReadRow
    PROVE  FileInv'
<1>. DEFINE s == S!Sheets(doc)[sheet]
            m == S!Num(s, readersRow + 1)
            v == S!Val(doc, s, readersRow + 1)
            padded == S!Padded(v, Len(readersReader.names))
<1>1. S!More /\ ~S!Late
  BY DEF S!ReadRow
<1>2. /\ result = "reading" /\ InSheet /\ readersRow # Len(s.rows) /\ Parsed(doc, s) /\ sheet \in DOMAIN S!Sheets(doc)
      /\ S!Number(S!Source.number, last) = m /\ S!Values(doc, S!Source) = v
      /\ readersRow + 1 \in S!Yielded(doc, s)
  BY <1>1, MoreFacts
<1>3. /\ ~S!Refused(m, v) /\ last' = m /\ readersRow' = readersRow + 1 /\ cells' = cells + S!Charge(v)
      /\ doc' = doc /\ sheet' = sheet /\ sink' = sink /\ result' = result
      /\ \/ S!Ignored(m, v) /\ readersReader' = readersReader /\ readersRows' = readersRows
         \/ /\ ~S!Ignored(m, v) /\ readersReader = S!NoReader
            /\ readersReader' = S!NewReader(S!HeaderOf(doc, v)) /\ readersRows' = <<>>
         \/ /\ ~S!Ignored(m, v) /\ readersReader # S!NoReader
            /\ readersReader' = S!Added(readersReader, padded)
            /\ readersRows' = Append(readersRows, [number |-> m, values |-> padded])
  <2>. HIDE DEF m, v
  <2> QED
    BY <1>2 DEF S!ReadRow
<1>4. ~S!Unreadable(m, v) /\ ~(cells + S!Charge(v) > MaxCells) /\ (S!Ignored(m, v) \/ ~S!Misshapen(m, v))
  <2>. HIDE DEF m, v
  <2> QED
    BY <1>3 DEF S!Refused
<1>5. PICK ignored : ignored = S!Ignored(m, v)
  OBVIOUS
<1>6. /\ S!RowIsSound(doc, s, readersRow + 1)
      /\ cells' = cells + ChargeOf(doc, s, readersRow + 1, readersReader)
      /\ ~(cells + ChargeOf(doc, s, readersRow + 1, readersReader) > MaxCells)
  BY <1>1, <1>3, <1>4, ReaderTests
<1>7. /\ ignored <=> m < doc.header \/ IF S!Workbook(doc) THEN S!AllNone(v) ELSE readersReader # S!NoReader /\ v = <<>>
      /\ ~ignored =>
            ~IF readersReader = S!NoReader THEN m # doc.header \/ ~S!GoodHeader(S!HeaderOf(doc, v))
             ELSE \/ readersReader.count >= MaxRows
                  \/ IF S!Workbook(doc) THEN ~S!AllNone(SubSeq(v, Len(readersReader.names) + 1, Len(v)))
                     ELSE Len(v) # Len(readersReader.names)
  BY <1>1, <1>4, <1>5, ReaderTests
<1>8. OpenSheet(doc, s, readersRow, last, readersReader, readersRows) /\ CellsRead(doc, sheet, readersRow, cells)
  BY <1>2 DEF InSheet
<1>9. OpenSheet(doc, s, readersRow + 1, m, readersReader', readersRows')
      /\ CellsRead(doc, sheet, readersRow + 1, cells + ChargeOf(doc, s, readersRow + 1, readersReader))
  <2>1. PICK rd2, rs2 : rd2 = readersReader' /\ rs2 = readersRows'
    OBVIOUS
  <2>2. \/ ignored /\ rd2 = readersReader /\ rs2 = readersRows
        \/ ~ignored /\ readersReader = S!NoReader /\ rd2 = S!NewReader(S!HeaderOf(doc, v)) /\ rs2 = <<>>
        \/ /\ ~ignored /\ readersReader # S!NoReader
           /\ rd2 = S!Added(readersReader, padded) /\ rs2 = Append(readersRows, [number |-> m, values |-> padded])
    <3>. HIDE DEF m, v
    <3> QED
      BY <1>3, <1>5, <2>1
  <2>3. OpenSheet(doc, s, readersRow + 1, m, rd2, rs2)
        /\ CellsRead(doc, sheet, readersRow + 1, cells + ChargeOf(doc, s, readersRow + 1, readersReader))
    BY <1>2, <1>6, <1>7, <1>8, <2>2, RowAccepted
  <2> QED
    BY <2>1, <2>3
<1>10. InSheet'
  BY <1>2, <1>3, <1>6, <1>9 DEF InSheet
<1> QED
  BY <1>2, <1>3, <1>10 DEF FileInv

\* A row that is not yielded changes nothing but the place in the sheet.
LEMMA SkipRowStep ==
    ASSUME FileInv, doc \in Documents, doc.kind # "mysql", S!SkipRow
    PROVE  FileInv'
<1>. DEFINE s == S!Sheets(doc)[sheet]
<1>1. S!More /\ S!Late
  BY DEF S!SkipRow
<1>2. /\ result = "reading" /\ InSheet /\ sheet \in DOMAIN S!Sheets(doc) /\ readersRow # Len(s.rows)
      /\ S!Number(S!Source.number, last) = S!Num(s, readersRow + 1)
      /\ readersRow + 1 \notin S!Yielded(doc, s)
  BY <1>1, MoreFacts
<1>3. /\ last' = S!Num(s, readersRow + 1) /\ readersRow' = readersRow + 1 /\ cells' = cells
      /\ doc' = doc /\ sheet' = sheet /\ sink' = sink /\ result' = result
      /\ readersReader' = readersReader /\ readersRows' = readersRows
  BY <1>2 DEF S!SkipRow
<1>4. OpenSheet(doc, s, readersRow, last, readersReader, readersRows) /\ CellsRead(doc, sheet, readersRow, cells)
  BY <1>2 DEF InSheet
<1>5. OpenSheet(doc, s, readersRow + 1, S!Num(s, readersRow + 1), readersReader, readersRows)
      /\ CellsRead(doc, sheet, readersRow + 1, cells)
  BY <1>2, <1>4, RowSkipped
<1>6. InSheet'
  BY <1>2, <1>3, <1>5 DEF InSheet
<1> QED
  BY <1>2, <1>3, <1>6 DEF FileInv

\* A sheet that is closed is sound and its table is complete.
LEMMA CloseStep ==
    ASSUME FileInv, doc \in Documents, doc.kind # "mysql", S!Close
    PROVE  FileInv'
<1>. DEFINE s == S!Sheets(doc)[sheet]
            table == [name |-> s.name, columns |-> S!Finished(readersReader), rows |-> readersRows]
<1>1. result = "reading" /\ sheet > 0 /\ readersRow = Len(s.rows)
  BY DEF S!Close, S!Reading, S!Current
<1>2. InSheet
  <2>1. ASSUME Waiting PROVE FALSE
    <3>1. sheet \in 0 .. Len(S!Sheets(doc)) /\ Len(S!Sheets(doc)) \in Nat
      BY <2>1, FullFacts DEF Waiting, Between
    <3>2. sheet \in DOMAIN S!Sheets(doc)
      BY <1>1, <3>1, FullFacts
    <3>3. Len(s.rows) \in Nat
      BY <3>2, SheetsAreParsed, NumFacts
    <3>4. readersRow # -1 /\ sheet # 0
      BY <1>1, <3>1, <3>3
    <3> QED
      BY <2>1, <3>4 DEF Waiting
  <2> QED
    BY <1>1, <2>1 DEF FileInv
<1>3. /\ sheet \in DOMAIN S!Sheets(doc) /\ S!ArchiveFits(doc) /\ Len(S!Sheets(doc)) <= MaxTables /\ Between(doc, sheet - 1, sink)
      /\ OpenSheet(doc, s, readersRow, last, readersReader, readersRows)
      /\ CellsRead(doc, sheet, readersRow, cells)
  BY <1>2 DEF InSheet
<1>4. /\ readersReader = S!NoReader /\ ~S!Workbook(doc) => ~S!FileIsSound(doc)
      /\ readersReader = S!NoReader /\ S!Workbook(doc) => Between(doc, sheet, sink)
      /\ readersReader # S!NoReader => Between(doc, sheet, Append(sink, table))
      /\ CellsRead(doc, sheet + 1, 0, cells)
  BY <1>1, <1>3, SheetClosed
<1>5. CASE readersReader = S!NoReader /\ ~S!Workbook(doc)
  <2>1. doc' = doc /\ result' = "refused"
    BY <1>5 DEF S!Close, S!Refuse
  <2> QED
    BY <1>4, <1>5, <2>1 DEF FileInv
<1>6. CASE ~(readersReader = S!NoReader /\ ~S!Workbook(doc))
  <2>1. /\ doc' = doc /\ sheet' = sheet /\ readersRow' = -1 /\ cells' = cells /\ result' = "reading"
        /\ sink' = IF readersReader = S!NoReader THEN sink ELSE Append(sink, table)
    BY <1>1, <1>6 DEF S!Close, S!Current
  <2>2. Between(doc, sheet, sink')
    <3>. HIDE DEF table
    <3> QED
      BY <1>4, <1>6, <2>1
  <2>3. Waiting'
    BY <1>4, <2>1, <2>2 DEF Waiting
  <2> QED
    BY <2>1, <2>3 DEF FileInv
<1> QED
  BY <1>5, <1>6

----
(* MySQL tables: what is fetched, and the cells that are counted.           *)

\* What is assumed of a parsed schema, table by table.
LEMMA TablesAreParsed ==
    ASSUME NEW d \in Documents, d.kind = "mysql"
    PROVE  /\ Len(d.sheets) \in Nat /\ DOMAIN d.sheets = 1 .. Len(d.sheets)
           /\ \A i \in 1 .. Len(d.sheets) :
                /\ S!IsSequence(d.sheets[i].rows) /\ d.sheets[i].width \in Nat
                /\ Len(d.sheets[i].rows) \in Nat /\ DOMAIN d.sheets[i].rows = 1 .. Len(d.sheets[i].rows)
<1>1. S!IsSequence(d.sheets)
      /\ \A i \in DOMAIN d.sheets : S!IsSequence(d.sheets[i].rows) /\ d.sheets[i].width \in Nat
  BY InputsAssumption DEF S!ReaderAssumption
<1>2. Len(d.sheets) \in Nat /\ DOMAIN d.sheets = 1 .. Len(d.sheets)
  BY <1>1, SequenceFacts
<1>3. ASSUME NEW i \in 1 .. Len(d.sheets)
      PROVE  Len(d.sheets[i].rows) \in Nat /\ DOMAIN d.sheets[i].rows = 1 .. Len(d.sheets[i].rows)
  BY <1>1, <1>2, SequenceFacts
<1> QED
  BY <1>1, <1>2, <1>3

\* As many rows of a width fit as the quotient says.
LEMMA RowsThatFit ==
    ASSUME NEW n \in Nat, NEW w \in Nat \ {0}, NEW rest \in Nat
    PROVE  /\ rest \div w \in Nat
           /\ n <= rest \div w <=> n * w <= rest
<1>1. PICK q \in Nat, r \in Nat : q = rest \div w /\ rest = w * q + r /\ r < w
  <2>1. rest \div w \in Nat /\ rest % w \in Nat /\ rest % w < w
    OBVIOUS
  <2>2. rest = w * (rest \div w) + (rest % w)
    OBVIOUS
  <2> QED
    BY <2>1, <2>2
<1>2. ASSUME n <= q PROVE n * w <= rest
  <2>1. PICK e \in Nat : q = n + e
    <3>1. q - n \in Nat /\ q = n + (q - n)
      BY <1>2
    <3> QED
      BY <3>1
  <2>2. w * q = n * w + w * e /\ w * e \in Nat /\ n * w \in Nat
    BY <2>1
  <2> QED
    BY <1>1, <2>2
<1>3. ASSUME ~(n <= q) PROVE ~(n * w <= rest)
  <2>1. PICK e \in Nat : n = q + 1 + e
    <3>1. n - q - 1 \in Nat /\ n = q + 1 + (n - q - 1)
      BY <1>3
    <3> QED
      BY <3>1
  <2>2. n * w = w * q + w + w * e /\ w * e \in Nat /\ n * w \in Nat /\ w * q \in Nat
    BY <2>1
  <2> QED
    BY <1>1, <2>2
<1> QED
  BY <1>1, <1>2, <1>3

\* One row more than fits is asked for: too many are noticed, else all come.
LEMMA FetchedFacts ==
    ASSUME NEW d \in Documents, d.kind = "mysql", NEW i \in 1 .. Len(d.sheets), d.sheets[i].width \in 1 .. MaxColumns,
           cells \in Nat, cells <= MaxCells
    PROVE  LET t == d.sheets[i]
               n == Len(S!Fetched(t))
               fit == Len(t.rows) <= MaxRows /\ Len(t.rows) * t.width <= MaxCells - cells
           IN  /\ (n <= MaxRows /\ n * t.width <= MaxCells - cells) <=> fit
               /\ fit => S!Fetched(t) = t.rows
<1>1. PICK rs, w, len, rest : rs = d.sheets[i].rows /\ w = d.sheets[i].width /\ len = Len(d.sheets[i].rows) /\ rest = MaxCells - cells
  OBVIOUS
<1>2. len \in Nat /\ w \in Nat \ {0} /\ rest \in Nat /\ MaxRows \in Nat /\ S!IsSequence(rs) /\ len = Len(rs)
  <2>1. len \in Nat /\ S!IsSequence(rs)
    BY <1>1, TablesAreParsed
  <2>2. w \in Nat \ {0}
    <3>1. \A x \in 1 .. MaxColumns : x \in Nat \ {0}
      BY LimitsAreNat
    <3>2. w \in 1 .. MaxColumns
      BY <1>1
    <3> QED
      BY <3>1, <3>2
  <2>3. rest \in Nat /\ MaxRows \in Nat
    BY <1>1, LimitsAreNat
  <2> QED
    BY <1>1, <2>1, <2>2, <2>3
<1>3. PICK q : q = rest \div w
  OBVIOUS
<1>4. q \in Nat /\ \A n \in Nat : n <= q <=> n * w <= rest
  BY <1>2, <1>3, RowsThatFit
<1>5. PICK m : m = S!Least(S!Least(MaxRows, q) + 1, len)
  OBVIOUS
<1>6. m \in 0 .. len /\ (m <= MaxRows /\ m <= q <=> len <= MaxRows /\ len <= q) /\ (len <= MaxRows /\ len <= q => m = len)
  BY <1>2, <1>4, <1>5 DEF S!Least
<1>7. S!Fetched(d.sheets[i]) = SubSeq(rs, 1, m)
  BY <1>1, <1>3, <1>5 DEF S!Fetched
<1>8. Len(SubSeq(rs, 1, m)) = m /\ (m = len => SubSeq(rs, 1, m) = rs)
  <2>1. PICK V : rs \in Seq(V)
    BY <1>2 DEF S!IsSequence
  <2>2. SubSeq(rs, 1, m) = [j \in 1 .. m |-> rs[j]]
    <3>1. m \in Nat /\ m + 1 - 1 = m
      BY <1>6
    <3>2. SubSeq(rs, 1, m) = [j \in 1 .. (1 + m - 1) |-> rs[j + 1 - 1]]
      BY <2>1, <1>2, <1>6, <3>1
    <3>3. 1 + m - 1 = m /\ \A j \in 1 .. m : j + 1 - 1 = j
      BY <3>1
    <3> QED
      BY <3>2, <3>3
  <2>3. rs = [j \in 1 .. len |-> rs[j]]
    BY <1>2, SequenceFacts
  <2>4. Len(SubSeq(rs, 1, m)) = m
    <3>1. PICK f : f = SubSeq(rs, 1, m)
      OBVIOUS
    <3>2. m \in Nat
      BY <1>6
    <3>3. f = [j \in 1 .. m |-> f[j]]
      BY <2>2, <3>1
    <3> QED
      BY <3>1, <3>2, <3>3, LenOf
  <2> QED
    BY <2>2, <2>3, <2>4
<1>9. m <= q <=> m * w <= rest
  BY <1>4, <1>6
<1>10. len <= q <=> len * w <= rest
  BY <1>2, <1>4
<1> QED
  BY <1>1, <1>6, <1>7, <1>8, <1>9, <1>10

CellsOfTable(d, i) == ({i} \X DOMAIN d.sheets[i].rows) \X (1 .. d.sheets[i].width)

\* The cells of a table are its rows times its width.
LEMMA TableCells ==
    ASSUME NEW d \in Documents, d.kind = "mysql", NEW i \in 1 .. Len(d.sheets)
    PROVE  /\ IsFiniteSet(CellsOfTable(d, i))
           /\ Cardinality(CellsOfTable(d, i)) = Len(d.sheets[i].rows) * d.sheets[i].width
<1>1. PICK n \in Nat, w \in Nat : n = Len(d.sheets[i].rows) /\ w = d.sheets[i].width
  BY TablesAreParsed
<1>2. CellsOfTable(d, i) = ({i} \X (1 .. n)) \X (1 .. w)
  BY <1>1, TablesAreParsed DEF CellsOfTable
<1>3. IsFiniteSet({i}) /\ Cardinality({i}) = 1
  BY FS_Singleton
<1>4. IsFiniteSet(1 .. n) /\ Cardinality(1 .. n) = n
  BY FS_Interval
<1>5. IsFiniteSet(1 .. w) /\ Cardinality(1 .. w) = w
  BY FS_Interval
<1>6. IsFiniteSet({i} \X (1 .. n)) /\ Cardinality({i} \X (1 .. n)) = n
  <2>1. IsFiniteSet({i} \X (1 .. n)) /\ Cardinality({i} \X (1 .. n)) = Cardinality({i}) * Cardinality(1 .. n)
    BY <1>3, <1>4, FS_Product
  <2> QED
    BY <1>3, <1>4, <2>1
<1>7. PICK B : B = {i} \X (1 .. n)
  OBVIOUS
<1>8. IsFiniteSet(B \X (1 .. w)) /\ Cardinality(B \X (1 .. w)) = Cardinality(B) * Cardinality(1 .. w)
  BY <1>5, <1>6, <1>7, FS_Product
<1> QED
  BY <1>1, <1>2, <1>5, <1>6, <1>7, <1>8

\* The cells of the first k tables: those of one more, and of them all.
LEMMA CellsOfMore ==
    ASSUME NEW d \in Documents, d.kind = "mysql", NEW k \in 0 .. Len(d.sheets)
    PROVE  /\ IsFiniteSet(S!CellsOfTables(d, k)) /\ Cardinality(S!CellsOfTables(d, k)) \in Nat
           /\ k = 0 => Cardinality(S!CellsOfTables(d, k)) = 0
           /\ k < Len(d.sheets) =>
                Cardinality(S!CellsOfTables(d, k + 1)) =
                    Cardinality(S!CellsOfTables(d, k)) + Len(d.sheets[k + 1].rows) * d.sheets[k + 1].width
           /\ \A j \in 0 .. Len(d.sheets) : k <= j => Cardinality(S!CellsOfTables(d, k)) <= Cardinality(S!CellsOfTables(d, j))
<1>. DEFINE f == [i \in 1 .. Len(d.sheets) |-> CellsOfTable(d, i)]
<1>1. PICK len \in Nat : len = Len(d.sheets)
  BY TablesAreParsed
<1>2. ASSUME NEW j \in 0 .. len PROVE S!CellsOfTables(d, j) = UNION {f[i] : i \in 1 .. j}
  <2>1. \A i \in 1 .. j : i \in 1 .. Len(d.sheets)
    BY <1>1
  <2>2. S!CellsOfTables(d, j) = UNION {CellsOfTable(d, i) : i \in 1 .. j}
    BY DEF S!CellsOfTables, CellsOfTable
  <2>3. {f[i] : i \in 1 .. j} = {CellsOfTable(d, i) : i \in 1 .. j}
    BY <2>1
  <2> QED
    BY <2>2, <2>3
<1>3. \A i \in 1 .. len : f[i] = CellsOfTable(d, i) /\ IsFiniteSet(f[i])
  BY <1>1, TableCells
<1>. HIDE DEF f
<1>4. ASSUME NEW j \in 0 .. len PROVE IsFiniteSet(S!CellsOfTables(d, j)) /\ Cardinality(S!CellsOfTables(d, j)) \in Nat
  <2>1. IsFiniteSet(1 .. j)
    BY FS_Interval
  <2>2. \A i \in 1 .. j : i \in 1 .. len
    BY <1>1
  <2>3. IsFiniteSet(UNION {f[i] : i \in 1 .. j})
    BY <1>3, <2>1, <2>2, FamilyIsFinite
  <2> QED
    BY <1>2, <2>3, FS_CardinalityType
<1>5. ASSUME k = 0 PROVE Cardinality(S!CellsOfTables(d, k)) = 0
  <2>1. {f[i] : i \in 1 .. k} = {}
    BY <1>5
  <2>2. S!CellsOfTables(d, k) = {}
    BY <1>1, <1>2, <2>1
  <2> QED
    BY <2>2, FS_EmptySet
<1>6. ASSUME k < len
      PROVE  Cardinality(S!CellsOfTables(d, k + 1)) =
                Cardinality(S!CellsOfTables(d, k)) + Len(d.sheets[k + 1].rows) * d.sheets[k + 1].width
  <2>1. k \in 0 .. len /\ k + 1 \in 0 .. len /\ k + 1 \in 1 .. len /\ 1 .. k + 1 = 1 .. k \cup {k + 1}
    BY <1>1, <1>6
  <2>2. S!CellsOfTables(d, k + 1) = S!CellsOfTables(d, k) \cup CellsOfTable(d, k + 1)
    <3>1. PICK X, Y, Z, I, J, m : /\ X = S!CellsOfTables(d, k + 1) /\ Y = S!CellsOfTables(d, k) /\ Z = CellsOfTable(d, m)
                                 /\ I = 1 .. k /\ J = 1 .. k + 1 /\ m = k + 1
      OBVIOUS
    <3>2. ASSUME NEW c PROVE c \in X <=> \E i \in J : c \in CellsOfTable(d, i)
      BY <3>1 DEF S!CellsOfTables, CellsOfTable
    <3>3. ASSUME NEW c PROVE c \in Y <=> \E i \in I : c \in CellsOfTable(d, i)
      BY <3>1 DEF S!CellsOfTables, CellsOfTable
    <3>4. \A i : i \in J <=> i \in I \/ i = m
      BY <2>1, <3>1
    <3>5. ASSUME NEW c PROVE c \in X <=> c \in Y \/ c \in Z
      BY <3>1, <3>2, <3>3, <3>4
    <3>6. X = Y \cup Z
      BY <3>5
    <3> QED
      BY <3>1, <3>6
  <2>3. S!CellsOfTables(d, k) \cap CellsOfTable(d, k + 1) = {}
    <3>1. SUFFICES ASSUME NEW c \in S!CellsOfTables(d, k), c \in CellsOfTable(d, k + 1) PROVE FALSE
      OBVIOUS
    <3>2. PICK i \in 1 .. k : c \in CellsOfTable(d, i)
      BY DEF S!CellsOfTables, CellsOfTable
    <3>3. c[1][1] = i
      BY <3>2 DEF CellsOfTable
    <3>4. c[1][1] = k + 1
      BY <3>1 DEF CellsOfTable
    <3> QED
      BY <1>1, <3>3, <3>4
  <2>4. PICK counted, B : counted = S!CellsOfTables(d, k) /\ B = CellsOfTable(d, k + 1)
    OBVIOUS
  <2>5. IsFiniteSet(counted) /\ IsFiniteSet(B) /\ Cardinality(counted) \in Nat
    BY <1>1, <1>4, <2>1, <2>4, TableCells
  <2>6. Cardinality(counted \cup B) = Cardinality(counted) + Cardinality(B) - Cardinality(counted \cap B)
    BY <2>5, FS_Union
  <2>7. Cardinality(counted \cap B) = 0 /\ Cardinality(B) \in Nat
    BY <2>3, <2>4, <2>5, FS_EmptySet, FS_CardinalityType
  <2>8. Cardinality(counted \cup B) = Cardinality(counted) + Cardinality(B)
    BY <2>5, <2>6, <2>7
  <2>9. Cardinality(B) = Len(d.sheets[k + 1].rows) * d.sheets[k + 1].width
    BY <1>1, <2>1, <2>4, TableCells
  <2> QED
    BY <2>2, <2>4, <2>8, <2>9
<1>7. ASSUME NEW j \in 0 .. len, k <= j PROVE Cardinality(S!CellsOfTables(d, k)) <= Cardinality(S!CellsOfTables(d, j))
  <2>1. k \in 0 .. len /\ 1 .. k \subseteq 1 .. j
    BY <1>1, <1>7
  <2>2. S!CellsOfTables(d, k) \subseteq S!CellsOfTables(d, j)
    BY <1>2, <2>1
  <2> QED
    BY <1>4, <2>1, <2>2, FS_Subset
<1> QED
  BY <1>1, <1>4, <1>5, <1>6, <1>7

----
(* A database, table by table.                                              *)

\* The first k tables were read, whole.
TablesRead(d, k, sk, cs) ==
    /\ k \in 0 .. Len(d.sheets) /\ (k > 0 => Len(d.sheets) <= MaxTables)
    /\ sk = [i \in 1 .. k |-> [name |-> d.sheets[i].name, rows |-> d.sheets[i].rows]]
    /\ cs = Cardinality(S!CellsOfTables(d, k)) /\ cs <= MaxCells
    /\ \A i \in 1 .. k :
        d.sheets[i].exists /\ d.sheets[i].width \in 1 .. MaxColumns /\ Len(d.sheets[i].rows) <= MaxRows

TablesInv ==
    \/ result = "reading" /\ TablesRead(doc, sheet, sink, cells)
    \/ result = "done" /\ TablesRead(doc, Len(doc.sheets), sink, cells) /\ S!TablesAreSound(doc)
    \/ result = "refused" /\ ~S!TablesAreSound(doc)

\* A schema of which nothing was read.
LEMMA TablesInit ==
    ASSUME S!Init, doc.kind = "mysql"
    PROVE  TablesInv
<1>1. doc \in Documents /\ sheet = 0 /\ cells = 0 /\ sink = <<>> /\ result = "reading"
  BY DEF S!Init
<1>2. 0 \in 0 .. Len(doc.sheets) /\ 1 .. 0 = {}
  BY <1>1, TablesAreParsed
<1>3. sink = [i \in 1 .. 0 |-> [name |-> doc.sheets[i].name, rows |-> doc.sheets[i].rows]]
  BY <1>1
<1>4. Cardinality(S!CellsOfTables(doc, 0)) = 0 /\ 0 <= MaxCells
  BY <1>1, <1>2, CellsOfMore, LimitsAreNat
<1>5. \A i \in 1 .. 0 : FALSE
  BY <1>2
<1>6. TablesRead(doc, 0, sink, cells)
  BY <1>1, <1>2, <1>3, <1>4, <1>5 DEF TablesRead
<1> QED
  BY <1>1, <1>6 DEF TablesInv

\* With every table read, nothing was wrong.
LEMMA AllTablesRead ==
    ASSUME NEW d \in Documents, d.kind = "mysql", NEW k, NEW sk, NEW cs, TablesRead(d, k, sk, cs), k = Len(d.sheets)
    PROVE  S!TablesAreSound(d)
<1>1. DOMAIN d.sheets = 1 .. k /\ k \in Nat
  BY TablesAreParsed
<1>2. Len(d.sheets) <= MaxTables
  <2>1. k = 0 \/ k > 0
    BY <1>1
  <2> QED
    BY <2>1, LimitsAreNat DEF TablesRead
<1>3. S!Cardinality(S!CellsOfTables(d, Len(d.sheets))) <= MaxCells
  BY ReaderSets DEF TablesRead
<1>4. \A i \in DOMAIN d.sheets :
        d.sheets[i].exists /\ d.sheets[i].width \in 1 .. MaxColumns /\ Len(d.sheets[i].rows) <= MaxRows
  BY <1>1 DEF TablesRead
<1> QED
  BY <1>2, <1>3, <1>4 DEF S!TablesAreSound

\* The next table fits exactly when its rows are few enough and their cells,
\* with those of the tables before it, are within the limit.
LEMMA NextTable ==
    ASSUME NEW d \in Documents, d.kind = "mysql", NEW k, NEW sk, TablesRead(d, k, sk, cells), k < Len(d.sheets)
    PROVE  LET t == d.sheets[k + 1]
               n == Len(S!Fetched(t))
               read == n <= MaxRows /\ n * t.width <= MaxCells - cells
           IN  /\ t.width \in 1 .. MaxColumns /\ read /\ t.exists /\ Len(d.sheets) <= MaxTables =>
                    TablesRead(d, k + 1, Append(sk, [name |-> t.name, rows |-> S!Fetched(t)]),
                               cells + t.width * Len(S!Fetched(t)))
               /\ t.width \in 1 .. MaxColumns /\ ~read => ~S!TablesAreSound(d)
<1>1. PICK t, len, w, rs : t = d.sheets[k + 1] /\ len = Len(d.sheets[k + 1].rows) /\ w = d.sheets[k + 1].width /\ rs = S!Fetched(d.sheets[k + 1])
  OBVIOUS
<1>2. PICK all : all = Len(d.sheets)
  OBVIOUS
<1>3. all \in Nat /\ k \in 0 .. all /\ k < all /\ k + 1 \in 1 .. all /\ k + 1 \in 0 .. all /\ k \in Nat /\ k + 1 > 0
  <2>1. all \in Nat /\ k \in 0 .. all /\ k < all
    BY <1>2, TablesAreParsed DEF TablesRead
  <2> QED
    BY <2>1
<1>4. len \in Nat /\ w \in Nat
  BY <1>1, <1>2, <1>3, TablesAreParsed
<1>5. cells = Cardinality(S!CellsOfTables(d, k)) /\ cells \in Nat /\ cells <= MaxCells
  BY <1>2, <1>3, CellsOfMore DEF TablesRead
<1>6. Cardinality(S!CellsOfTables(d, k + 1)) = cells + len * w
  BY <1>1, <1>2, <1>3, <1>5, CellsOfMore
<1>7. ASSUME w \in 1 .. MaxColumns
      PROVE  /\ (Len(rs) <= MaxRows /\ Len(rs) * w <= MaxCells - cells) <=> (len <= MaxRows /\ len * w <= MaxCells - cells)
             /\ len <= MaxRows /\ len * w <= MaxCells - cells => rs = t.rows
  <2>1. PICK j : j = k + 1
    OBVIOUS
  <2>2. j \in 1 .. Len(d.sheets) /\ d.sheets[j].width \in 1 .. MaxColumns
    BY <1>1, <1>2, <1>3, <1>7, <2>1
  <2> QED
    BY <1>1, <1>5, <2>1, <2>2, FetchedFacts
<1>8. ASSUME w \in 1 .. MaxColumns, Len(rs) <= MaxRows /\ Len(rs) * w <= MaxCells - cells, t.exists, all <= MaxTables
      PROVE  TablesRead(d, k + 1, Append(sk, [name |-> t.name, rows |-> rs]), cells + w * Len(rs))
  <2>1. len <= MaxRows /\ len * w <= MaxCells - cells /\ rs = t.rows
    BY <1>7, <1>8
  <2>2. cells + w * Len(rs) = cells + len * w /\ cells + len * w <= MaxCells
    <3>1. PICK m \in Nat : m = len * w /\ m = w * len
      BY <1>4
    <3>2. m <= MaxCells - cells /\ Len(rs) = len
      BY <1>1, <2>1, <3>1
    <3> QED
      BY <1>5, <3>1, <3>2, LimitsAreNat
  <2>. DEFINE more == [i \in 1 .. k + 1 |-> [name |-> d.sheets[i].name, rows |-> d.sheets[i].rows]]
              x == [name |-> t.name, rows |-> rs]
  <2>3. sk = [i \in 1 .. k |-> [name |-> d.sheets[i].name, rows |-> d.sheets[i].rows]]
    BY DEF TablesRead
  <2>4. Append(sk, x) = more
    <3>1. Len(sk) = k /\ S!IsSequence(sk)
      <4>1. sk = [i \in 1 .. k |-> sk[i]]
        BY <2>3
      <4>2. Len(sk) = k /\ DOMAIN sk = 1 .. k
        BY <1>3, <4>1, LenOf
      <4>3. sk \in Seq({sk[i] : i \in DOMAIN sk})
        <5>1. sk \in [1 .. k -> {sk[i] : i \in DOMAIN sk}]
          BY <4>1, <4>2
        <5> QED
          BY <1>3, <5>1
      <4> QED
        BY <4>2, <4>3 DEF S!IsSequence
    <3>2. PICK q : q = Append(sk, x)
      OBVIOUS
    <3>3. S!IsSequence(q) /\ Len(q) = k + 1 /\ q[k + 1] = x /\ \A j \in 1 .. k : q[j] = sk[j]
      <4>. HIDE DEF x
      <4>1. S!IsSequence(Append(sk, x)) /\ Len(Append(sk, x)) = Len(sk) + 1
            /\ Append(sk, x)[Len(sk) + 1] = x /\ \A j \in 1 .. Len(sk) : Append(sk, x)[j] = sk[j]
        BY <3>1, AppendFacts
      <4> QED
        BY <3>1, <3>2, <4>1
    <3>4. q = [i \in 1 .. k + 1 |-> q[i]]
      BY <3>3, SequenceFacts
    <3>5. ASSUME NEW i \in 1 .. k + 1 PROVE q[i] = [name |-> d.sheets[i].name, rows |-> d.sheets[i].rows]
      <4>1. CASE i = k + 1
        BY <1>1, <2>1, <3>3, <4>1
      <4>2. CASE i # k + 1
        <5>1. i \in 1 .. k
          BY <1>3, <4>2
        <5> QED
          BY <2>3, <3>3, <5>1
      <4> QED
        BY <4>1, <4>2
    <3> QED
      BY <3>2, <3>4, <3>5
  <2>5. \A i \in 1 .. k + 1 : d.sheets[i].exists /\ d.sheets[i].width \in 1 .. MaxColumns /\ Len(d.sheets[i].rows) <= MaxRows
    <3>1. \A i \in 1 .. k + 1 : i \in 1 .. k \/ i = k + 1
      BY <1>3
    <3>2. d.sheets[k + 1].exists /\ d.sheets[k + 1].width \in 1 .. MaxColumns /\ Len(d.sheets[k + 1].rows) <= MaxRows
      BY <1>1, <1>8, <2>1
    <3> QED
      BY <3>1, <3>2 DEF TablesRead
  <2>6. k + 1 \in 0 .. Len(d.sheets) /\ Len(d.sheets) <= MaxTables
    BY <1>2, <1>3, <1>8
  <2>. HIDE DEF more, x
  <2>7. Append(sk, x) = [i \in 1 .. k + 1 |-> [name |-> d.sheets[i].name, rows |-> d.sheets[i].rows]]
    BY <2>4 DEF more
  <2>8. TablesRead(d, k + 1, Append(sk, x), cells + w * Len(rs))
    BY <1>6, <2>2, <2>5, <2>6, <2>7 DEF TablesRead
  <2> QED
    BY <2>8 DEF x
<1>9. ASSUME w \in 1 .. MaxColumns, ~(Len(rs) <= MaxRows /\ Len(rs) * w <= MaxCells - cells)
      PROVE  ~S!TablesAreSound(d)
  <2>1. SUFFICES ASSUME S!TablesAreSound(d) PROVE FALSE
    OBVIOUS
  <2>2. len <= MaxRows
    <3>1. k + 1 \in DOMAIN d.sheets
      BY <1>2, <1>3, TablesAreParsed
    <3> QED
      BY <1>1, <2>1, <3>1 DEF S!TablesAreSound
  <2>3. ~(len * w <= MaxCells - cells)
    BY <1>7, <1>9, <2>2
  <2>4. Cardinality(S!CellsOfTables(d, all)) <= MaxCells
    BY <1>2, <2>1, ReaderSets DEF S!TablesAreSound
  <2>5. Cardinality(S!CellsOfTables(d, k + 1)) <= Cardinality(S!CellsOfTables(d, all)) /\ Cardinality(S!CellsOfTables(d, all)) \in Nat
    <3>1. PICK j : j = k + 1
      OBVIOUS
    <3>2. j \in 0 .. Len(d.sheets) /\ all \in 0 .. Len(d.sheets) /\ j <= all
      BY <1>2, <1>3, <3>1
    <3> QED
      BY <3>1, <3>2, CellsOfMore
  <2>6. PICK m \in Nat : m = len * w
    BY <1>4
  <2> QED
    BY <1>5, <1>6, <2>3, <2>4, <2>5, <2>6, LimitsAreNat
<1> QED
  BY <1>1, <1>2, <1>8, <1>9

\* A table is read whole, or the schema is refused because it is not sound.
LEMMA TableStep ==
    ASSUME TablesInv, doc \in Documents, doc.kind = "mysql", S!Table
    PROVE  TablesInv'
<1>1. result = "reading" /\ doc' = doc /\ TablesRead(doc, sheet, sink, cells)
  BY DEF TablesInv, S!Table, S!Refuse
<1>2. PICK all : all = Len(doc.sheets) /\ all \in Nat
  BY TablesAreParsed
<1>3. sheet \in 0 .. all
  BY <1>1, <1>2 DEF TablesRead
<1>4. CASE sheet = all
  <2>1. result' = "done" /\ sink' = sink /\ cells' = cells
    BY <1>2, <1>4 DEF S!Table, S!Tables
  <2>2. S!TablesAreSound(doc)
    BY <1>1, <1>2, <1>4, AllTablesRead
  <2> QED
    BY <1>1, <1>2, <1>4, <2>1, <2>2 DEF TablesInv
<1>5. CASE sheet # all
  <2>. DEFINE t == doc.sheets[sheet + 1]
              some == Len(doc.sheets) <= MaxTables /\ \A i \in DOMAIN doc.sheets : doc.sheets[i].exists
              read == Len(S!Fetched(t)) <= MaxRows /\ Len(S!Fetched(t)) * t.width <= MaxCells - cells
              fits == some /\ t.width \in 1 .. MaxColumns /\ read
  <2>1. sheet < Len(doc.sheets) /\ sheet + 1 \in DOMAIN doc.sheets
    BY <1>2, <1>3, <1>5, TablesAreParsed
  <2>2. IF ~fits THEN S!Refuse
        ELSE /\ sink' = Append(sink, [name |-> t.name, rows |-> S!Fetched(t)])
             /\ cells' = cells + t.width * Len(S!Fetched(t)) /\ sheet' = sheet + 1 /\ result' = result
    BY <1>2, <1>5 DEF S!Table, S!Tables
  <2>3. /\ t.width \in 1 .. MaxColumns /\ read /\ t.exists /\ Len(doc.sheets) <= MaxTables =>
            TablesRead(doc, sheet + 1, Append(sink, [name |-> t.name, rows |-> S!Fetched(t)]),
                       cells + t.width * Len(S!Fetched(t)))
        /\ t.width \in 1 .. MaxColumns /\ ~read => ~S!TablesAreSound(doc)
    BY <1>1, <2>1, NextTable
  <2>4. CASE fits
    <3>1. t.exists
      BY <2>1, <2>4
    <3>2. TablesRead(doc, sheet + 1, Append(sink, [name |-> t.name, rows |-> S!Fetched(t)]),
                     cells + t.width * Len(S!Fetched(t)))
      <4>. HIDE DEF read, t
      <4> QED
        BY <2>3, <2>4, <3>1
    <3>3. /\ sink' = Append(sink, [name |-> t.name, rows |-> S!Fetched(t)])
          /\ cells' = cells + t.width * Len(S!Fetched(t)) /\ sheet' = sheet + 1 /\ result' = "reading"
      <4>. HIDE DEF fits, t
      <4> QED
        BY <1>1, <2>2, <2>4
    <3>. HIDE DEF t
    <3> QED
      BY <1>1, <3>2, <3>3 DEF TablesInv
  <2>5. CASE ~fits
    <3>1. result' = "refused"
      <4>. HIDE DEF fits
      <4> QED
        BY <2>2, <2>5 DEF S!Refuse
    <3>2. ~S!TablesAreSound(doc)
      <4>1. ~some => ~S!TablesAreSound(doc)
        BY DEF S!TablesAreSound
      <4>2. t.width \notin 1 .. MaxColumns => ~S!TablesAreSound(doc)
        BY <2>1 DEF S!TablesAreSound
      <4>. HIDE DEF some, read, t
      <4> QED
        BY <2>3, <2>5, <4>1, <4>2
    <3> QED
      BY <1>1, <3>1, <3>2 DEF TablesInv
  <2> QED
    BY <2>4, <2>5
<1> QED
  BY <1>4, <1>5

----
(* The readers.                                                             *)

ReadersInv ==
    part = "readers" =>
        /\ doc \in Documents
        /\ doc.kind = "mysql" => TablesInv
        /\ doc.kind # "mysql" => FileInv

\* Every step of a reader keeps the invariant of its kind of source.
LEMMA ReadersNext ==
    ASSUME doc \in Documents, doc.kind = "mysql" => TablesInv, doc.kind # "mysql" => FileInv, S!Next
    PROVE  doc' = doc /\ (doc.kind = "mysql" => TablesInv') /\ (doc.kind # "mysql" => FileInv')
<1>1. CASE S!Open
  <2>1. doc' = doc /\ doc.kind # "mysql"
    BY <1>1 DEF S!Open, S!Reading, S!Refuse
  <2> QED
    BY <1>1, <2>1, OpenStep
<1>2. CASE S!RefuseRow
  <2>1. doc' = doc /\ doc.kind # "mysql"
    BY <1>2 DEF S!RefuseRow, S!More, S!Reading, S!Refuse
  <2> QED
    BY <1>2, <2>1, RefuseRowStep
<1>3. CASE S!ReadRow
  <2>1. doc' = doc /\ doc.kind # "mysql"
    BY <1>3 DEF S!ReadRow, S!More, S!Reading
  <2> QED
    BY <1>3, <2>1, ReadRowStep
<1>6. CASE S!SkipRow
  <2>1. doc' = doc /\ doc.kind # "mysql"
    BY <1>6 DEF S!SkipRow, S!More, S!Reading
  <2> QED
    BY <1>6, <2>1, SkipRowStep
<1>4. CASE S!Close
  <2>1. doc' = doc /\ doc.kind # "mysql"
    BY <1>4 DEF S!Close, S!Reading, S!Refuse
  <2> QED
    BY <1>4, <2>1, CloseStep
<1>5. CASE S!Table
  <2>1. doc' = doc /\ doc.kind = "mysql"
    BY <1>5 DEF S!Table, S!Refuse
  <2> QED
    BY <1>5, <2>1, TableStep
<1> QED
  BY <1>1, <1>2, <1>3, <1>4, <1>5, <1>6 DEF S!Next

\* What the invariants say of a source that is done or refused.
LEMMA ReadersMean ==
    ASSUME doc \in Documents, doc.kind = "mysql" => TablesInv, doc.kind # "mysql" => FileInv
    PROVE  S!WholeOrRefused /\ S!RefusedForCause
<1>1. CASE doc.kind = "mysql"
  <2>1. DOMAIN doc.sheets = 1 .. Len(doc.sheets)
    BY <1>1, TablesAreParsed
  <2>2. result = "done" => sink = [i \in DOMAIN doc.sheets |-> [name |-> doc.sheets[i].name, rows |-> doc.sheets[i].rows]]
    BY <1>1, <2>1 DEF TablesInv, TablesRead
  <2>3. TablesInv
    BY <1>1
  <2>4. S!WholeOrRefused
    BY <1>1, <2>2 DEF S!WholeOrRefused, S!Tables
  <2>5. S!TablesAreSound(doc) \in BOOLEAN
    BY DEF S!TablesAreSound
  <2>6. S!RefusedForCause
    BY <1>1, <2>3, <2>5 DEF S!RefusedForCause, TablesInv
  <2> QED
    BY <2>4, <2>6
<1>2. CASE doc.kind # "mysql"
  <2>1. ASSUME result = "done"
        PROVE  /\ S!FileIsSound(doc) /\ DOMAIN sink = 1 .. Cardinality(S!Full(doc))
               /\ \A i \in S!Full(doc) : S!IsTableOf(sink[S!Rank(S!Full(doc), i)], doc, S!Sheets(doc)[i])
    <3>1. Complete
      BY <1>2, <2>1 DEF FileInv
    <3>2. PICK c : c = Len(S!Sheets(doc))
      OBVIOUS
    <3>3. Between(doc, c, sink) /\ CellsRead(doc, c + 1, 0, cells) /\ c = Len(S!Sheets(doc)) /\ S!ArchiveFits(doc) /\ Len(S!Sheets(doc)) <= MaxTables
          /\ sink # <<>>
      BY <3>1, <3>2 DEF Complete
    <3> QED
      BY <1>2, <3>3, FileRead
  <2>2. FileInv
    BY <1>2
  <2>3. S!WholeOrRefused
    BY <1>2, <2>1, ReaderSets DEF S!WholeOrRefused
  <2>4. S!FileIsSound(doc) \in BOOLEAN
    BY DEF S!FileIsSound
  <2>5. S!RefusedForCause
    BY <1>2, <2>1, <2>2, <2>4 DEF S!RefusedForCause, FileInv
  <2> QED
    BY <2>3, <2>5
<1> QED
  BY <1>1, <1>2

(* A source that is imported is there whole: every sheet that holds a table *)
(* as one, with every data row in order and each value in its column, or    *)
(* every MySQL table with all its rows; and a source is refused exactly     *)
(* when something is wrong with it or a limit is exceeded (streaming.py,    *)
(* xlsx_stream.py, files.py, mysql.py of src/bank_project/intake).          *)
THEOREM TablesStayWhole == MCSpec => []TablesAreWhole
<1>1. MCInit => ReadersInv
  <2> SUFFICES ASSUME MCInit, part = "readers"
               PROVE  /\ doc \in Documents /\ (doc.kind = "mysql" => TablesInv) /\ (doc.kind # "mysql" => FileInv)
    BY DEF ReadersInv
  <2>1. S!Init
    BY DEF MCInit
  <2>2. doc \in Documents
    BY <2>1 DEF S!Init
  <2> QED
    BY <2>1, <2>2, TablesInit, FileInit
<1>2. ReadersInv /\ [MCNext]_allVars => ReadersInv'
  <2> SUFFICES ASSUME ReadersInv, [MCNext]_allVars PROVE ReadersInv'
    OBVIOUS
  <2>1. CASE part = "readers" /\ S!Next /\ UNCHANGED part
    <3>1. doc' = doc /\ (doc.kind = "mysql" => TablesInv') /\ (doc.kind # "mysql" => FileInv')
      BY <2>1, ReadersNext DEF ReadersInv
    <3> QED
      BY <2>1, <3>1 DEF ReadersInv
  <2>2. CASE UNCHANGED <<part, readersVars>>
    <3>1. /\ part' = part /\ doc' = doc /\ sheet' = sheet /\ readersRow' = readersRow /\ last' = last
          /\ readersReader' = readersReader /\ cells' = cells /\ sink' = sink
          /\ readersRows' = readersRows /\ result' = result
      BY <2>2 DEF readersVars
    <3>2. (TablesInv <=> TablesInv') /\ (FileInv <=> FileInv')
      BY <3>1 DEF TablesInv, FileInv, Waiting, InSheet, Complete
    <3> QED
      BY <3>1, <3>2 DEF ReadersInv
  <2> QED
    BY <2>1, <2>2 DEF MCNext, allVars
<1>3. ReadersInv => TablesAreWhole
  BY ReadersMean DEF ReadersInv, TablesAreWhole
<1> QED
  BY <1>1, <1>2, <1>3, PTL DEF MCSpec
====
