---- MODULE MCIntakeQueue ----
(* TLC instances of IntakeQueue: the cfg files give the constants. *)
EXTENDS IntakeQueue, TLC

(* Worker processes are interchangeable; used where no liveness is checked. *)
WorkerSymmetry == Permutations(Workers)
====
