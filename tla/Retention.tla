---- MODULE Retention ----
(* What the data page promises of a batch (docs/intake.md): it can be       *)
(* removed and restored; only an active batch enters an analysis; only a    *)
(* removed batch that no analysis has ever used can be purged, and what has *)
(* been purged stays purged.                                                *)
CONSTANT Batches
VARIABLES shelf, used

Init == shelf = [b \in Batches |-> "active"] /\ used = {}

Remove(b) ==
    /\ shelf[b] = "active"
    /\ shelf' = [shelf EXCEPT ![b] = "removed"]
    /\ UNCHANGED used

Restore(b) ==
    /\ shelf[b] = "removed"
    /\ shelf' = [shelf EXCEPT ![b] = "active"]
    /\ UNCHANGED used

Purge(b) ==
    /\ shelf[b] = "removed"
    /\ b \notin used
    /\ shelf' = [shelf EXCEPT ![b] = "purged"]
    /\ UNCHANGED used

Analyze(S) ==
    /\ \A b \in S : shelf[b] = "active"
    /\ used' = used \cup S
    /\ UNCHANGED shelf

Next ==
    \/ \E b \in Batches : Remove(b) \/ Restore(b) \/ Purge(b)
    \/ \E S \in SUBSET Batches : Analyze(S)

Spec == Init /\ [][Next]_<<shelf, used>>
====
