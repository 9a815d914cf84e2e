---- MODULE OntologyAccess ----
(* The one authority for ontology evidence (ontology/service.py, client.py,*)
(* export.py, store.py; alignment/catalog.py).  A call takes the service's *)
(* lock, asks the remote ontology which dataset is ready, downloads it if  *)
(* it is not the cached one, archives the catalogue under its digest, and  *)
(* for risk work reads the WHY text of every concept that has one.  Jobs   *)
(* are recorded with the digest of the catalogue they used.  A person who  *)
(* browses an archived catalogue reads the texts of one concept under the  *)
(* same lock and into the same cache, while the remote still serves it.    *)
(*                                                                         *)
(* The remote switches datasets at any time and may fail any request; a    *)
(* write to the archive may fail; the application restarts, with another   *)
(* local file or service address.  Digests stand for contents: a dimension *)
(* whose hash is not the catalogue's is a failed answer.                   *)
EXTENDS Naturals, FiniteSets

CONSTANTS
    MatchThreads, \* request threads that match or browse: current()
    RiskThreads,  \* request threads that generate rules: for_risk()
    Datasets,     \* remote datasets: [id, rev, why (concepts with WHY), valid]
    Configs,      \* settings: [remote, file, ready (the file's revisions), expected]
    Concurrency,  \* retrieve_concurrency
    None

Threads == MatchThreads \cup RiskThreads

\* An ontology's id and its revision name one content: the service takes a
\* cached catalogue for the remote one when both agree (service.py:69).
AccessAssumption ==
    /\ None \notin Threads /\ None \notin Datasets
    /\ \A d, e \in Datasets : d.id = e.id /\ d.rev = e.rev => d = e

VARIABLES
    remote,    \* the dataset the remote service has ready
    config,    \* the settings the application runs with
    lock,      \* the thread in the service's lock, or None
    catalog,   \* _catalog: the cached dataset, or None
    risk,      \* _risk_catalog: [of, why], or None
    dims,      \* _dimensions: <<digest, concept>> whose WHY was verified
    pc,        \* thread -> "idle", "wait", "ready", "export", "save", "risk",
               \* "why", "archive", "keep", "record", "check" or "read"
    seen,      \* thread -> the dataset /ready answered
    got,       \* thread -> the catalogue it works with or browses, as a digest
    todo,      \* WHY concepts no worker has taken
    busy,      \* concepts a worker is reading
    read,      \* WHY texts put into the risk catalogue
    archive    \* digests in the snapshot directory; nothing is deleted from it

threadVars == <<pc, seen, got>>
whyVars == <<todo, busy, read>>
memVars == <<catalog, risk, dims>>
vars == <<remote, config, lock, memVars, threadVars, whyVars, archive>>

\* What a digest stands for: a local file, a dataset's structure, or a
\* structure enriched with WHY texts.
FileDigest(f) == <<"file", f>>
BaseDigest(d) == <<"base", d>>
RiskDigest(r) == <<"risk", r>>

Init ==
    /\ remote \in Datasets /\ config \in Configs
    /\ lock = None
    /\ catalog = None /\ risk = None /\ dims = {}
    /\ pc = [t \in Threads |-> "idle"]
    /\ seen = [t \in Threads |-> None] /\ got = [t \in Threads |-> None]
    /\ todo = {} /\ busy = {} /\ read = {}
    \* import_legacy: jobs of before the archive refer to the file's digest.
    /\ archive = {FileDigest(config.file)}

Goto(t, where) == pc' = [pc EXCEPT ![t] = where]

\* The call is over, and its locals with it.
Done(t) ==
    /\ Goto(t, "idle")
    /\ seen' = [seen EXCEPT ![t] = None] /\ got' = [got EXCEPT ![t] = None]

\* An AlignmentError or OSError leaves the call, and with it the lock.
Fail(t) ==
    /\ Done(t)
    /\ lock' = IF lock = t THEN None ELSE lock
    /\ IF lock = t THEN todo' = {} /\ busy' = {} /\ read' = {} ELSE UNCHANGED whyVars
    /\ UNCHANGED <<remote, config, memVars, archive>>

----
(* current().                                                              *)

Call(t) ==
    /\ pc[t] = "idle" /\ Goto(t, "wait")
    /\ UNCHANGED <<remote, config, lock, memVars, seen, got, whyVars, archive>>

\* Catalog.load: the expected revision must be ready, or a single one be.
Loads ==
    IF config.expected = None THEN Cardinality(config.ready) = 1
    ELSE config.expected \in config.ready

Acquire(t) ==
    /\ pc[t] = "wait" /\ lock = None
    /\ IF config.remote \/ Loads
       THEN /\ lock' = t
            /\ Goto(t, IF config.remote THEN "ready" ELSE "save")
            /\ got' = [got EXCEPT ![t] = IF config.remote THEN None ELSE FileDigest(config.file)]
            /\ UNCHANGED <<remote, config, memVars, seen, whyVars, archive>>
       ELSE Fail(t)

\* GET /ready: another dataset than the cached one is downloaded.
Ready(t) ==
    /\ pc[t] = "ready" /\ config.expected \in {None, remote.rev}
    /\ seen' = [seen EXCEPT ![t] = remote]
    /\ IF catalog # None /\ catalog.rev = remote.rev /\ catalog.id = remote.id
       THEN Goto(t, "save") /\ got' = [got EXCEPT ![t] = BaseDigest(catalog)]
       ELSE Goto(t, "export") /\ UNCHANGED got
    /\ UNCHANGED <<remote, config, lock, memVars, whyVars, archive>>

(* Mutant: the enriched catalogue of the last dataset stays.               *)
ExportKeepRisk(t) ==
    /\ pc[t] = "export" /\ remote = seen[t] /\ remote.valid
    /\ catalog' = remote /\ dims' = {} /\ UNCHANGED risk
    /\ got' = [got EXCEPT ![t] = BaseDigest(remote)] /\ Goto(t, "save")
    /\ UNCHANGED <<remote, config, lock, seen, whyVars, archive>>

\* GET /evaluation-snapshot: the dataset must still be the one that was
\* ready, and its structure consistent; it replaces everything cached.
Export(t) ==
    /\ pc[t] = "export" /\ remote = seen[t] /\ remote.valid
    /\ catalog' = remote /\ risk' = None /\ dims' = {}
    /\ got' = [got EXCEPT ![t] = BaseDigest(remote)] /\ Goto(t, "save")
    /\ UNCHANGED <<remote, config, lock, seen, whyVars, archive>>

\* snapshots.save; a caller of current() then leaves the lock.
Save(t) ==
    /\ pc[t] = "save"
    /\ archive' = archive \cup {got[t]}
    /\ IF t \in RiskThreads THEN Goto(t, "risk") /\ UNCHANGED lock
       ELSE Goto(t, "record") /\ lock' = None
    /\ UNCHANGED <<remote, config, memVars, seen, got, whyVars>>

\* The job is stored with the digest.
Record(t) ==
    /\ pc[t] = "record" /\ Done(t)
    /\ UNCHANGED <<remote, config, lock, memVars, whyVars, archive>>

----
(* for_risk().                                                             *)

Dataset(t) == got[t][2]

\* A local file holds its WHY; a remote catalogue is enriched once.
Risk(t) ==
    /\ pc[t] = "risk"
    /\ IF ~config.remote THEN Goto(t, "keep") /\ lock' = None /\ UNCHANGED <<got, whyVars>>
       ELSE IF risk = None \/ risk.of.rev # Dataset(t).rev
       THEN /\ Goto(t, "why") /\ todo' = Dataset(t).why /\ busy' = {} /\ read' = {}
            /\ UNCHANGED <<lock, got>>
       ELSE Goto(t, "keep") /\ lock' = None /\ got' = [got EXCEPT ![t] = RiskDigest(risk)]
            /\ UNCHANGED whyVars
    /\ UNCHANGED <<remote, config, memVars, seen, archive>>

\* A worker takes the next concept.
Take(t, c) ==
    /\ pc[t] = "why" /\ c \in todo /\ Cardinality(busy) < Concurrency
    /\ todo' = todo \ {c} /\ busy' = busy \cup {c}
    /\ UNCHANGED <<remote, config, lock, memVars, threadVars, read, archive>>

\* Its text is cached, or answered by the same dataset and verified.
Answer(t, c) ==
    /\ pc[t] = "why" /\ c \in busy
    /\ <<got[t], c>> \in dims \/ remote = Dataset(t)
    /\ dims' = dims \cup {<<got[t], c>>}
    /\ busy' = busy \ {c} /\ read' = read \cup {c}
    /\ UNCHANGED <<remote, config, lock, catalog, risk, threadVars, todo, archive>>

(* Mutant: the enriched catalogue is done once no text is left to take.    *)
EnrichEarly(t) ==
    /\ pc[t] = "why" /\ todo = {}
    /\ risk' = [of |-> Dataset(t), why |-> read]
    /\ got' = [got EXCEPT ![t] = RiskDigest(risk')] /\ Goto(t, "archive")
    /\ busy' = {} /\ read' = {}
    /\ UNCHANGED <<remote, config, lock, catalog, dims, seen, todo, archive>>

\* All workers have returned.
Enrich(t) ==
    /\ pc[t] = "why" /\ todo = {} /\ busy = {}
    /\ risk' = [of |-> Dataset(t), why |-> read]
    /\ got' = [got EXCEPT ![t] = RiskDigest(risk')] /\ Goto(t, "archive")
    /\ busy' = {} /\ read' = {}
    /\ UNCHANGED <<remote, config, lock, catalog, dims, seen, todo, archive>>

\* for_risk archives what it enriched; the cache holds it even if this fails.
Archive(t) ==
    /\ pc[t] = "archive" /\ Goto(t, "keep") /\ lock' = None
    /\ archive' = archive \cup {got[t]}
    /\ UNCHANGED <<remote, config, memVars, seen, got, whyVars>>

(* Mutant: what for_risk returned counts as archived.                      *)
KeepNothing(t) ==
    /\ pc[t] = "keep" /\ Goto(t, "record")
    /\ UNCHANGED <<remote, config, lock, memVars, seen, got, whyVars, archive>>

\* RiskService.start saves the catalogue again before it records the job.
Keep(t) ==
    /\ pc[t] = "keep" /\ Goto(t, "record")
    /\ archive' = archive \cup {got[t]}
    /\ UNCHANGED <<remote, config, lock, memVars, seen, got, whyVars>>

----
(* dimensions(): a person reads the texts of one concept.                  *)

\* The page names the catalogue /graph gave it, never an enriched one; pinned()
\* reads it from the archive before the lock, and nothing is deleted there.  A
\* catalogue of a local file holds its texts, and without a remote service the
\* others are refused: both leave all state as it is.
Browse(t, g) ==
    /\ pc[t] = "idle" /\ lock = None
    /\ g \in archive /\ g[1] = "base" /\ config.remote
    /\ lock' = t /\ got' = [got EXCEPT ![t] = g] /\ Goto(t, "check")
    /\ UNCHANGED <<remote, config, memVars, seen, whyVars, archive>>

\* GET /ready: the remote must still serve that revision of that ontology.
Check(t) ==
    /\ pc[t] = "check" /\ remote = Dataset(t) /\ Goto(t, "read")
    /\ UNCHANGED <<remote, config, lock, memVars, seen, got, whyVars, archive>>

\* WHAT and WHY: what is not cached is answered by the same dataset and verified
\* against the browsed catalogue; what is cached of others stays.  (WHAT is kept
\* as well, which decides only whether this request asks once more.)
ReadConcept(t, c) ==
    /\ pc[t] = "read" /\ c \in Dataset(t).why
    /\ <<got[t], c>> \in dims \/ remote = Dataset(t)
    /\ dims' = dims \cup {<<got[t], c>>}
    /\ Done(t) /\ lock' = None
    /\ UNCHANGED <<remote, config, catalog, risk, whyVars, archive>>

----
(* Failures and the world.                                                 *)

InCall == {"ready", "export", "save", "why", "archive", "keep", "check", "read"}

(* Mutant: a failure leaves the lock to the thread that failed.            *)
BreakHolding(t) ==
    /\ pc[t] \in InCall
    /\ Done(t) /\ todo' = {} /\ busy' = {} /\ read' = {}
    /\ UNCHANGED <<remote, config, lock, memVars, archive>>

\* A request fails, times out or is answered by another dataset, one worker's
\* failure cancels the others, or a snapshot cannot be written.
Break(t) == pc[t] \in InCall /\ Fail(t)

\* The remote service is switched to another dataset.
Switch(d) ==
    /\ d # remote /\ remote' = d
    /\ UNCHANGED <<config, lock, memVars, threadVars, whyVars, archive>>

\* A restart loses what is in memory; the configuration may be another one,
\* and the local file is archived if it is well-formed.
Restart ==
    /\ config' \in Configs
    /\ lock' = None /\ catalog' = None /\ risk' = None /\ dims' = {}
    /\ pc' = [t \in Threads |-> "idle"]
    /\ seen' = [t \in Threads |-> None] /\ got' = [t \in Threads |-> None]
    /\ todo' = {} /\ busy' = {} /\ read' = {}
    /\ archive' = archive \cup {FileDigest(config'.file)}
    /\ UNCHANGED remote

Step(t) ==
    \/ Ready(t) \/ Export(t) \/ Save(t) \/ Record(t) \/ Risk(t) \/ Enrich(t)
    \/ Archive(t) \/ Keep(t) \/ Break(t) \/ \E c \in todo \cup busy : Take(t, c) \/ Answer(t, c)
    \/ Check(t) \/ \E c \in UNION {d.why : d \in Datasets} : ReadConcept(t, c)

Next ==
    \/ \E t \in Threads : Call(t) \/ Acquire(t) \/ Step(t)
    \/ \E t \in MatchThreads, g \in archive : Browse(t, g)
    \/ \E d \in Datasets : Switch(d)
    \/ Restart

\* Requests are answered or time out.
Spec == Init /\ [][Next]_vars /\ \A t \in Threads : WF_vars(Step(t))

----
(* Properties.                                                             *)

\* The evidence of every recorded job can be pinned later, although archiving
\* may fail after the risk catalogue is cached and the next call then finds it
\* there (service.py:148-150, risk/service.py start; docs/ontology.md:25).
RecordedIsArchived == \A t \in Threads : pc[t] = "record" => got[t] \in archive

\* A risk catalogue holds the WHY of every concept of one dataset, the one the
\* same call found ready, although the cache is compared by revision only and
\* two ontologies may use one revision (service.py:72, 147, 175).
RiskIsWhole ==
    \A t \in Threads :
        t \in RiskThreads /\ pc[t] \in {"archive", "keep", "record"} /\ got[t][1] = "risk" =>
            got[t][2] = [of |-> seen[t], why |-> seen[t].why]

\* The lock is held across network requests; it is always given back, or every
\* match, risk and browsing request would wait for ever (service.py:50, 143).
LockIsReleased == lock # None ~> lock = None
====
