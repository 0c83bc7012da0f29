---------------------------- MODULE MCAutoscaler ----------------------------
(* Small instances of the autoscaler: three to five nodes, ten writes per node. *)
EXTENDS Autoscaler

Auto(min, max) == [on |-> TRUE, replicas |-> 3, min |-> min, max |-> max]

Manual(n) == [on |-> FALSE, replicas |-> n, min |-> 3, max |-> 3]

ThreeToFive == {Auto(3, 5)}

EveryEdit == {Auto(3, 5), Auto(4, 4), Manual(4)}

(* Below, within and above the target of three nodes, and a queue that alone is too long. *)
SomeLoads ==
  {[writes |-> 20, queue |-> 0], [writes |-> 32, queue |-> 30], [writes |-> 45, queue |-> 20],
   [writes |-> 10, queue |-> 68]}

LowAndHigh == {[writes |-> 20, queue |-> 0], [writes |-> 45, queue |-> 20]}

High == {[writes |-> 45, queue |-> 20]}
=============================================================================
