---------------------------- MODULE ClusterSize ----------------------------
(***************************************************************************)
(* What the operator promises of a cluster's size, whatever reads, passes  *)
(* and failures it takes to keep the promise: the size follows the one     *)
(* asked for, outright until the cluster is founded and one node at a time *)
(* from then on, and a step begins only when the step before it is         *)
(* complete.                                                               *)
(***************************************************************************)
EXTENDS Integers

CONSTANT MaxNodes

VARIABLES
  asked,     \* the size asked for
  founded,   \* whether the nodes have formed a cluster, which they do once
  size,      \* the size given to the cluster, 0 before it exists
  admitted,  \* since the size last changed, the roster has been exactly its nodes
  rehomed    \* and no data was left outside them

vars == <<asked, founded, size, admitted, rehomed>>

(* A cluster that does not exist, or one that is at rest. *)
Init ==
  /\ asked \in 1 .. MaxNodes
  /\ \/ size = 0 /\ founded = FALSE /\ admitted = FALSE /\ rehomed = FALSE
     \/ size = asked /\ founded = TRUE /\ admitted = TRUE /\ rehomed = TRUE

(* Another size is asked for, the cluster is founded, or a step completes. *)
Observe ==
  /\ asked' \in 1 .. MaxNodes /\ founded' \in BOOLEAN /\ (founded => founded')
  /\ admitted' \in BOOLEAN /\ (admitted => admitted')
  /\ rehomed' \in BOOLEAN /\ (rehomed => rehomed')
  /\ UNCHANGED size

Unsettle == admitted' \in BOOLEAN /\ rehomed' \in BOOLEAN

Provision ==
  /\ size = 0 \/ ~founded
  /\ size' = asked
  /\ Unsettle /\ UNCHANGED <<asked, founded>>

Step ==
  /\ founded /\ admitted /\ rehomed
  /\ \/ size < asked /\ size' = size + 1
     \/ size > asked /\ size' = size - 1
  /\ Unsettle /\ UNCHANGED <<asked, founded>>

Next == Observe \/ Provision \/ Step

Spec == Init /\ [][Next]_vars
=============================================================================
