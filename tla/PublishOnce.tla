---- MODULE PublishOnce ----
(* What a reader of the batch list is promised (docs/intake.md: a batch is  *)
(* visible only as a whole; an old process cannot publish the result of a   *)
(* new attempt): each key shows nothing until one value is published under  *)
(* it, and then that value for ever.                                        *)
CONSTANTS Keys, Values
VARIABLE shown

Init == shown = [k \in Keys |-> {}]

Publish(k, v) ==
    /\ shown[k] = {}
    /\ shown' = [shown EXCEPT ![k] = {v}]

Next == \E k \in Keys, v \in Values : Publish(k, v)

Spec == Init /\ [][Next]_shown
====
