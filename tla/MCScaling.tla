----------------------------- MODULE MCScaling -----------------------------
EXTENDS Scaling, FiniteSetsExt

(* A cluster that fails in some way, or the smallest one, upgraded. *)
FailsOrUpgrades ==
  IF upgrades = MaxUpgrades THEN faults = 0 ELSE faults = MaxFaults /\ target = Min(Sizes)

(* A founded cluster of n nodes: every node a voter, the data on all of them, and the budgets
   of upgrades and failures partly used up. *)
Founded(n) ==
  /\ target = n /\ edits = 0
  /\ image = (CHOOSE i \in Images : TRUE) /\ upgrades \in 0 .. MaxUpgrades
  /\ lags \in StaleReads
  /\ bootstrapSize = n /\ bootstrapped = TRUE
  /\ sts = [replicas |-> n, partition |-> 0, image |-> image] /\ cached = sts /\ fresh = TRUE
  /\ revision = image
  /\ pods = [o \in Ordinals |-> IF o < n THEN "up" ELSE "absent"]
  /\ podImage = [o \in Ordinals |-> IF o < n THEN image ELSE NoImage]
  /\ roster = [o \in Ordinals |-> IF o < n THEN "Voter" ELSE "NotMember"]
  /\ hosts = Voters(roster)
  /\ pc = "idle" /\ pass = NoPass
  /\ faults \in 0 .. MaxFaults
  /\ rosterSeen = TRUE /\ dataSeen = TRUE
  /\ FailsOrUpgrades

(* The one that is upgraded grows by a node at most. *)
GrowsByOne ==
  (upgrades' < MaxUpgrades \/ image' # CHOOSE i \in Images : TRUE) => target' <= Min(Sizes) + 1

FoundedInit == \E n \in Sizes : Founded(n)

FoundedSpec == FoundedInit /\ [][Next /\ GrowsByOne]_vars

FoundedFairSpec == FoundedSpec /\ Fairness
=============================================================================
