-------------------------------- MODULE Plan --------------------------------
(***************************************************************************)
(* The scaling decision of the operator as pure operators: plan.go, with   *)
(* the placement test of autoscaler.go that it calls.                      *)
(*                                                                         *)
(* A node is its StatefulSet ordinal.  The committed roster maps every     *)
(* ordinal to its role, so the roster's endpoints are exactly the          *)
(* endpoints raftEndpoint generates.  A replica placement keeps the two    *)
(* facts the code reads off it: whether some replica is in a transitional  *)
(* role, and which ordinals host a settled replica.                        *)
(***************************************************************************)
EXTENDS Integers, FiniteSets

CONSTANT MaxNodes   \* the largest cluster considered

ASSUME MaxNodesAssumption == MaxNodes \in Nat \ {0}

Ordinals == 0 .. MaxNodes - 1

Roles == {"NotMember", "Learner", "Voter"}

Rosters == [Ordinals -> Roles]

Members(roster) == {o \in Ordinals : roster[o] # "NotMember"}

Voters(roster) == {o \in Ordinals : roster[o] = "Voter"}

(* A roster as a pass reads it: known is FALSE for the code's nil, when no node answered. *)
Readings == [known : BOOLEAN, roster : Rosters]

(* A placement as a pass reads it.  "unsupported" is the code's nil placement
   without an error, "unreadable" is placementErr. *)
Placements ==
  [kind : {"read", "unreadable", "unsupported"}, moving : BOOLEAN, hosts : SUBSET Ordinals]

Plans == [replicas : 0 .. MaxNodes, partition : 0 .. MaxNodes]

rosterMatchesAnyExtra(m, replicas) ==
  /\ m.known
  /\ \A i \in 0 .. replicas - 1 : i \in Voters(m.roster)

(* The roster is exactly the set of nodes a StatefulSet of this size has. *)
rosterMatches(m, replicas) ==
  /\ m.known
  /\ Cardinality(Members(m.roster)) = replicas
  /\ \A i \in 0 .. replicas - 1 : i \in Voters(m.roster)

placementSettledIgnoresStranded(p, current) == p.kind = "read" => ~p.moving

(* No replica is in flight and none sits on a node that is no longer a member. *)
placementSettled(p, current) ==
  p.kind = "read" => ~p.moving /\ p.hosts \subseteq 0 .. current - 1

buildPlanJumpsToTarget(target, current, bootstrapped, m, p) ==
  CASE ~bootstrapped -> [replicas |-> target, partition |-> 0]
    [] bootstrapped /\ ~rosterMatches(m, current) ->
         [replicas |-> current, partition |-> current]
    [] OTHER -> [replicas |-> target, partition |-> 0]

buildPlanOvershoots(target, current, bootstrapped, m, p) ==
  IF bootstrapped /\ rosterMatches(m, current) /\ placementSettled(p, current) /\ current <= target
  THEN [replicas |-> current + 1, partition |-> 0]
  ELSE buildPlanJumpsToTarget(target, current, bootstrapped, m, p)

buildPlanReleases(target, current, bootstrapped, m, p) ==
  IF bootstrapped /\ ~rosterMatches(m, current)
  THEN [replicas |-> current, partition |-> 0]
  ELSE buildPlanJumpsToTarget(target, current, bootstrapped, m, p)

(* The StatefulSet size and rolling-update partition to apply on this pass. *)
buildPlan(target, current, bootstrapped, m, p) ==
  LET free == p.kind # "unreadable" /\ placementSettled(p, current)
      step == CASE free /\ current < target -> current + 1
                [] free /\ current > target /\ current > 1 -> current - 1
                [] OTHER -> current
  IN  CASE ~bootstrapped -> [replicas |-> target, partition |-> 0]
        [] bootstrapped /\ ~rosterMatches(m, current) ->
             [replicas |-> current, partition |-> current]
        [] OTHER -> [replicas |-> step, partition |-> 0]
=============================================================================
