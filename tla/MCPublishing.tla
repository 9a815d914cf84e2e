---- MODULE MCPublishing ----
(* From an analysis to what is published, side by side: one analysis, graph  *)
(* versions of alignment runs, and the business tables that two scripts      *)
(* replace.  A behaviour is of one component; the variables of the others    *)
(* stand still.                                                              *)
EXTENDS AlignmentRuns

CONSTANTS
    BusinessTables, Auxiliary, Rows, OldRows, NewRows, Garbled,   \* of DatasetRefresh
    SummaryTables, Operators, MaxSyncs,                           \* of SummarySync
    Inputs, BatchColumns, MaxPrompt, Concurrency, MaxRetries,     \* of AlignmentAnalysis
    GroupSize, CacheSize, Revisions, Pinned,
    MaxWrites, None

VARIABLES
    part,   \* which of the components this behaviour is of
    db, desktop, backup, staged, saved, command, dropped, writes,
    syncDb, catalog, syncBackup, renamed, published, task, runs, swaps, syncDropped, syncWrites,
    input, at, stage, attempt, begun, pending, columns, served, cache, left, asking, found, trace, mapping

----
F == INSTANCE DatasetRefresh WITH Tables <- BusinessTables
Y == INSTANCE SummarySync WITH
    Tables <- SummaryTables, MaxRuns <- MaxSyncs, db <- syncDb, backup <- syncBackup,
    dropped <- syncDropped, writes <- syncWrites
N == INSTANCE AlignmentAnalysis

refreshVars == <<db, desktop, backup, staged, saved, command, dropped, writes>>
syncVars ==
    <<syncDb, catalog, syncBackup, renamed, published, task, runs, swaps,
      syncDropped, syncWrites>>
analysisVars ==
    <<input, at, stage, attempt, begun, pending, columns, served, cache, left,
      asking, found, trace, mapping>>
allVars == <<part, vars, refreshVars, syncVars, analysisVars>>

NoRefresh ==
    /\ db = None /\ desktop = None /\ backup = None /\ staged = None /\ saved = None
    /\ command = None /\ dropped = None /\ writes = None
NoSync ==
    /\ syncDb = None /\ catalog = None /\ syncBackup = None /\ renamed = None
    /\ published = None /\ task = None /\ runs = None /\ swaps = None
    /\ syncDropped = None /\ syncWrites = None
NoAnalysis ==
    /\ input = None /\ at = None /\ stage = None /\ attempt = None /\ begun = None
    /\ pending = None /\ columns = None /\ served = None /\ cache = None /\ left = None
    /\ asking = None /\ found = None /\ trace = None /\ mapping = None

MCInit ==
    \/ part = "runs" /\ Init /\ NoRefresh /\ NoSync /\ NoAnalysis
    \/ part = "refresh" /\ Init /\ F!Init /\ NoSync /\ NoAnalysis
    \/ part = "sync" /\ Init /\ Y!Init /\ NoRefresh /\ NoAnalysis
    \/ part = "analysis" /\ Init /\ NoRefresh /\ NoSync /\ N!Init

MCNext ==
    \/ /\ part = "runs" /\ Next
       /\ UNCHANGED <<part, refreshVars, syncVars, analysisVars>>
    \/ /\ part = "refresh" /\ F!Next
       /\ UNCHANGED <<part, vars, syncVars, analysisVars>>
    \/ /\ part = "sync" /\ Y!Next
       /\ UNCHANGED <<part, vars, refreshVars, analysisVars>>
    \/ /\ part = "analysis" /\ N!Next
       /\ UNCHANGED <<part, vars, refreshVars, syncVars>>

ASSUME InputsAssumption == Y!SyncAssumption /\ N!AnalysisAssumption

(* Only the analysis makes a claim that needs fairness here.                 *)
MCSpec == MCInit /\ [][MCNext]_allVars /\ WF_analysisVars(part = "analysis" /\ N!Work)

(* Run records agree with the one leased job, and a success is published     *)
(* (alignment/store.py:97, service.py:181).                                  *)
RecordsAgree == TypeOK /\ StatusMatchesJob /\ SuccessIsPublished

(* A new version of the business tables appears at once, whole, and without  *)
(* loss of what the application wrote (marketing_refresh/database.py); the   *)
(* summaries are exchanged once and backed up, however often they are        *)
(* synchronised and wherever that dies (summary_database.py).                *)
TablesAreReplacedOnce ==
    /\ part = "refresh" => F!SwappedTogether /\ F!PublishedIsWhole /\ F!DroppedIsSaved
    /\ part = "sync" => Y!SwappedOnce /\ Y!DroppedIsBackedUp /\ Y!HalfDoneKeepsPrior

(* A table is explained whole or failed, by answers for one revision, and    *)
(* none of its requests outlives it (alignment/interpretation.py,            *)
(* retrieval.py).                                                            *)
AnalysisIsSound ==
    part = "analysis" => N!ColumnsAreComplete /\ N!NothingEscapes /\ N!OneRevision

(* An analysis comes to its end (alignment/interpretation.py, retrieval.py). *)
AnalysisEnds == part = "analysis" => N!AnalysisEnds

----
(* TLC's selections: a table explained in one request, one that needs        *)
(* batches, an empty one.                                                    *)
NOf(weights, queries) == [rows |-> TRUE, weights |-> weights, queries |-> queries]
NNothing == [rows |-> FALSE, weights |-> <<1>>, queries |-> <<"a", "a">>]

NInputs == {
    << NOf(<<1, 1, 1, 1, 1>>, <<"a", "a", "a", "a", "a", "a">>), NOf(<<1>>, <<"b", "a">>) >>,
    << NOf(<<1, 1>>, <<"a", "b", "c">>), NNothing, NOf(<<2, 2>>, <<"a", "a", "a">>) >>,
    << NOf(<<1, 4>>, <<"a", "b", "a">>), NOf(<<1, 1>>, <<"b", "a", "b">>) >> }
====
