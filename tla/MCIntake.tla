---- MODULE MCIntake ----
(* The way of an upload, side by side: admission, and the queue with its     *)
(* workers.  A behaviour is of one component; the variables of the other     *)
(* stand still.                                                              *)
EXTENDS IntakeQueue

CONSTANTS
    Clients, Slots, QueueLimit, MaxSize, MaxPaths, None   \* of Uploads

VARIABLES
    part,   \* which of the components this behaviour is of
    backend, slots, direct, pc, path, size, paths, files, jobs, uncertain, batches

----
U == INSTANCE Uploads

uploadsVars ==
    <<backend, slots, direct, pc, path, size, paths, files, jobs, uncertain,
      batches>>
allVars == <<part, vars, uploadsVars>>

NoUploads == U!Init /\ backend = "mysql"

MCInit ==
    \/ part = "queue" /\ Init /\ NoUploads
    \/ part = "uploads" /\ Init /\ U!Init

MCNext ==
    \/ /\ part = "queue" /\ Next
       /\ UNCHANGED <<part, uploadsVars>>
    \/ /\ part = "uploads" /\ U!Next
       /\ UNCHANGED <<part, vars>>

(* The fairness of the two modules, where they run.                        *)
MCSpec ==
    /\ MCInit /\ [][MCNext]_allVars
    /\ \A w \in Workers :
        /\ WF_vars(part = "queue" /\ MainThread(w))
        /\ WF_vars(part = "queue" /\ Restart(w))
    /\ \A j \in Jobs : WF_vars(part = "queue" /\ Abandoned(j) /\ GoStale(j))
    /\ \A c \in Clients : WF_uploadsVars(part = "uploads" /\ U!Step(c))

(* A queued job has its file, and what is left over is of an uncertain       *)
(* commit (intake/uploads.py:52-59).                                         *)
UploadsAreKept == part = "uploads" => U!QueuedHasFile /\ U!LeftoversAreUncertain

(* Jobs settle, failed batches are collected, and upload slots return        *)
(* (staging/jobs.py, staging/cleanup.py, intake/uploads.py:60).              *)
WorkEnds == UnfinishedSettles /\ FailedIsCollected /\ U!SlotsReturn
====
