--------------------------- MODULE ScalingProofs ---------------------------
(***************************************************************************)
(* What holds of the reconcile pass, of the status and of the backup gate  *)
(* for every number of nodes, every set of sizes, every number of edits    *)
(* and failures.                                                           *)
(***************************************************************************)
EXTENDS ClusterStatus, FiniteSetTheorems, TLAPS

(* What the scaling decision returns. *)

(* A roster that rosterMatches accepts is exactly the StatefulSet's nodes, all voters: the
   code counts the members and looks up each expected voter. *)
LEMMA RosterMatchesExactly ==
  ASSUME NEW m \in Readings, NEW n \in 0 .. MaxNodes, rosterMatches(m, n)
  PROVE  Members(m.roster) = 0 .. n - 1 /\ Voters(m.roster) = Members(m.roster)
<1> DEFINE M == Members(m.roster)
           V == Voters(m.roster)
<1>1. 0 .. n - 1 \subseteq V /\ V \subseteq M /\ Cardinality(M) = n
  BY DEF rosterMatches, Voters, Members
<1>2. IsFiniteSet(Ordinals)
  BY MaxNodesAssumption, FS_Interval DEF Ordinals
<1>3. M \subseteq Ordinals
  BY DEF Members
<1>4. IsFiniteSet(M)
  BY <1>2, <1>3, FS_Subset
<1>5. Cardinality(0 .. n - 1) = n
  BY MaxNodesAssumption, FS_Interval
<1>6. 0 .. n - 1 = M
  BY <1>1, <1>4, <1>5, FS_Subset
<1> QED
  BY <1>1, <1>6

(* What buildPlan returns: a size and a partition within range and, for a founded cluster,
   the current size or one step toward the target, the latter only past both gates. *)
LEMMA BuildPlanStep ==
  ASSUME NEW t \in 0 .. MaxNodes, NEW c \in 1 .. MaxNodes, NEW b \in BOOLEAN,
         NEW m \in Readings, NEW p \in Placements
  PROVE  /\ buildPlan(t, c, b, m, p) \in Plans
         /\ b => \/ buildPlan(t, c, b, m, p).replicas = c
                 \/ buildPlan(t, c, b, m, p).replicas = c + 1 /\ c < t
                 \/ buildPlan(t, c, b, m, p).replicas = c - 1 /\ c > t
         /\ b /\ buildPlan(t, c, b, m, p).replicas # c =>
              rosterMatches(m, c) /\ p.kind # "unreadable" /\ placementSettled(p, c)
<1> DEFINE free == p.kind # "unreadable" /\ placementSettled(p, c)
           step == CASE free /\ c < t -> c + 1
                     [] free /\ c > t /\ c > 1 -> c - 1
                     [] OTHER -> c
<1>1. /\ step \in 0 .. MaxNodes
      /\ step # c => free
      /\ step = c \/ (step = c + 1 /\ c < t) \/ (step = c - 1 /\ c > t)
  <2> HIDE DEF free
  <2> QED  BY MaxNodesAssumption
<1>2. CASE ~b
  BY <1>2, MaxNodesAssumption DEF buildPlan, Plans
<1>3. CASE b /\ ~rosterMatches(m, c)
  BY <1>3, MaxNodesAssumption DEF buildPlan, Plans
<1>4. CASE b /\ rosterMatches(m, c)
  <2>1. buildPlan(t, c, b, m, p) = [replicas |-> step, partition |-> 0]
    BY <1>4 DEF buildPlan
  <2>2. PICK s \in 0 .. MaxNodes : s = step
    BY <1>1
  <2>3. /\ buildPlan(t, c, b, m, p) = [replicas |-> s, partition |-> 0]
        /\ s # c => free
        /\ s = c \/ (s = c + 1 /\ c < t) \/ (s = c - 1 /\ c > t)
    BY <1>1, <2>1, <2>2
  <2> HIDE DEF step
  <2>4. buildPlan(t, c, b, m, p).replicas = s
    BY <2>3
  <2>5. buildPlan(t, c, b, m, p) \in Plans
    BY <2>3, MaxNodesAssumption DEF Plans
  <2>6. rosterMatches(m, c)
    BY <1>4
  <2> QED  BY <2>3, <2>4, <2>5, <2>6
<1> QED
  BY <1>2, <1>3, <1>4

(* The gates alone: a founded cluster is resized only on a matching roster and a placement
   that was read, or does not exist, and has settled. *)
LEMMA BuildPlanGated ==
  ASSUME NEW t \in 0 .. MaxNodes, NEW c \in 1 .. MaxNodes, NEW m \in Readings, NEW p \in Placements,
         buildPlan(t, c, TRUE, m, p).replicas # c
  PROVE  rosterMatches(m, c) /\ p.kind # "unreadable" /\ placementSettled(p, c)
  BY BuildPlanStep, Zenon

(* Until the cluster is founded the plan is the size asked for; from then on it releases pods to
   a rolling update only on a matching roster. *)
LEMMA BuildPlanReleases ==
  ASSUME NEW t \in 0 .. MaxNodes, NEW c \in 1 .. MaxNodes, NEW b \in BOOLEAN,
         NEW m \in Readings, NEW p \in Placements,
         NEW q, q = buildPlan(t, c, b, m, p)
  PROVE  (~b => q.replicas = t) /\ (b /\ q.partition < q.replicas => rosterMatches(m, c))
<1>1. ~b => q = [replicas |-> t, partition |-> 0]
  BY DEF buildPlan
<1>2. b /\ ~rosterMatches(m, c) => q = [replicas |-> c, partition |-> c]
  BY DEF buildPlan
<1>3. ~(c < c)
  BY MaxNodesAssumption
<1> QED
  BY <1>1, <1>2, <1>3
-----------------------------------------------------------------------------

(* The readings of the placement endpoint are well formed. *)
LEMMA PlacementReadsType ==
  ASSUME TypeOK
  PROVE  PlacementReads \cup {PlacementUnread} \subseteq Placements
<1>1. PlacementUnread \in Placements
  BY DEF PlacementUnread, Placements
<1>2. CASE HasPlacement
  BY <1>1, <1>2 DEF TypeOK, PlacementReads, Placements
<1>3. CASE ~HasPlacement
  BY <1>1, <1>3 DEF PlacementReads, Placements
<1> QED
  BY <1>2, <1>3
-----------------------------------------------------------------------------
(* Type correctness.  A pass that is about to ask a node to leave has read a size of at
   least one, so that the node exists. *)
TypeInv == TypeOK /\ (pc = "leave" => pass.current > 0)

(* The sizes the CRD admits are sizes of the model. *)
LEMMA SizesInRange == Sizes \subseteq 1 .. MaxNodes
  BY ScalingAssumption

(* Between passes nothing is remembered, and nothing is a well-formed memory. *)
LEMMA NoPassType == NoPass \in Passes
  BY ScalingAssumption, MaxNodesAssumption
     DEF NoPass, Passes, NoPods, NoRoster, NoPlan, Plans, Readings, Rosters, Roles, PodStates,
         NoImage, AnyImage

(* The generation a pass remembers is in range. *)
LEMMA GenerationType == TypeOK => Generation \in 0 .. MaxEdits + MaxUpgrades
  BY ScalingAssumption DEF TypeOK, Generation

(* What a plan makes of the StatefulSet is well typed. *)
LEMMA DesiredType == ASSUME TypeOK, NEW plan \in Plans PROVE Desired(plan) \in StatefulSets
  BY DEF TypeOK, Passes, Plans, Desired, StatefulSets

(* A pass that has only its status to write remembers something well typed. *)
LEMMA ToStatusType ==
  ASSUME TypeOK, ToStatus
  PROVE  /\ pass' \in Passes /\ pc' = "status"
         /\ pass'.target = pass.target /\ pass'.bootstrapped = pass.bootstrapped
<1>1. /\ pass.generation \in 0 .. MaxEdits + MaxUpgrades /\ pass.target \in 0 .. MaxNodes
      /\ pass.image \in AnyImage /\ pass.bootstrapped \in BOOLEAN /\ pass.members \in Readings
  BY DEF TypeOK, Passes
<1>2. pass' = [NoPass EXCEPT !.generation = pass.generation, !.target = pass.target, !.image = pass.image,
                             !.bootstrapped = pass.bootstrapped, !.members = pass.members]
  BY DEF ToStatus
<1> QED
  BY <1>1, <1>2, NoPassType, Zenon DEF ToStatus, Goto, Passes

(* The history variables stay Boolean. *)
LEMMA RecordType == ASSUME Record PROVE rosterSeen' \in BOOLEAN /\ dataSeen' \in BOOLEAN
  BY DEF Record

(* The initial state is well typed. *)
LEMMA TypeInit == Init => TypeInv
<1>1. NoSts \in StatefulSets
  BY MaxNodesAssumption DEF NoSts, StatefulSets, NoImage, AnyImage
<1>2. NoPods \in [Ordinals -> PodStates] /\ NoRoster \in Rosters
      /\ NoImages \in [Ordinals -> AnyImage] /\ NoImage \in AnyImage
  BY DEF NoPods, PodStates, NoRoster, Rosters, Roles, NoImages, NoImage, AnyImage
<1>3. 0 \in 0 .. MaxEdits /\ 0 \in 0 .. MaxUpgrades /\ 0 \in 0 .. MaxFaults
  BY ScalingAssumption
<1>4. (CHOOSE i \in Images : TRUE) \in Images
  BY ScalingAssumption
<1> QED
  BY <1>1, <1>2, <1>3, <1>4, NoPassType, Zenon DEF Init, TypeInv, TypeOK, Steps

(* Every step of the pass preserves types. *)
LEMMA TypePass ==
  ASSUME TypeInv, Pass
  PROVE  TypeInv'
<1> USE DEF TypeInv, Goto
<1>1. CASE Begin
  <2>1. pass' \in Passes
    <3>1. {o \in Ordinals : Ready(o)} \in SUBSET Ordinals
      OBVIOUS
    <3>2. target \in 0 .. MaxNodes /\ image \in AnyImage /\ bootstrapped \in BOOLEAN
      BY SizesInRange, MaxNodesAssumption DEF TypeOK, AnyImage
    <3>3. [o \in Ordinals |-> Listed(pods[o])] \in [Ordinals -> PodStates]
      BY DEF Listed, PodStates
    <3>4. Generation \in 0 .. MaxEdits + MaxUpgrades
      BY GenerationType
    <3> QED  BY <1>1, <3>1, <3>2, <3>3, <3>4, NoPassType, Zenon DEF Begin, Passes
  <2> QED
    BY <1>1, <2>1, RecordType
       DEF Begin, PinnedSize, TypeOK, Steps, specVars, stsVars, podVars, serverVars
<1>2. CASE ReadMembership
  <2>1. pass' \in Passes
    <3>1. [known |-> TRUE, roster |-> roster] \in Readings
      BY DEF TypeOK, Readings
    <3> QED  BY <1>2, <3>1, Zenon DEF ReadMembership, TypeOK, Passes
  <2>2. faults' \in 0 .. MaxFaults
    BY <1>2, ScalingAssumption DEF ReadMembership, TypeOK, Fault
  <2> QED
    BY <1>2, <2>1, <2>2, RecordType
       DEF ReadMembership, TypeOK, Steps, specVars, statusVars, stsVars, podVars, serverVars
<1>3. CASE CreateStatefulSet
  <2>1. /\ sts' \in StatefulSets /\ cached' \in StatefulSets /\ fresh' \in BOOLEAN
        /\ revision' \in AnyImage /\ pass' \in Passes /\ pc' \in {"idle", "status"}
    <3>1. CASE sts.replicas = 0
      <4>1. [replicas |-> pass.target, partition |-> 0] \in Plans /\ pass.image \in AnyImage
        BY MaxNodesAssumption DEF TypeOK, Passes, Plans
      <4>2. Desired([replicas |-> pass.target, partition |-> 0]) \in StatefulSets
        BY <4>1, DesiredType
      <4>3. /\ sts' = Desired([replicas |-> pass.target, partition |-> 0])
            /\ cached' = (IF lags THEN cached ELSE sts') /\ fresh' = ~lags
            /\ revision' = pass.image /\ ToStatus
        BY <1>3, <3>1 DEF CreateStatefulSet
      <4> QED  BY <4>1, <4>2, <4>3, ToStatusType DEF TypeOK
    <3>2. CASE sts.replicas # 0
      BY <1>3, <3>2, NoPassType DEF CreateStatefulSet, EndPass, TypeOK, stsVars
    <3> QED  BY <3>1, <3>2
  <2> QED
    BY <1>3, <2>1, RecordType
       DEF CreateStatefulSet, TypeOK, Steps, specVars, statusVars, podVars, serverVars
<1>4. CASE MakePlan
  <2>1. PICK p \in Placements :
          /\ ReadPlacement(p)
          /\ LET plan == buildPlan(pass.target, cached.replicas, pass.bootstrapped, pass.members, p)
             IN  /\ pass' = [pass EXCEPT !.current = cached.replicas, !.plan = plan, !.ready = {},
                                              !.pods = IF plan.replicas < cached.replicas THEN @ ELSE NoPods]
                 /\ pc' = (IF plan.replicas < cached.replicas THEN "leave" ELSE "write")
    BY <1>4, PlacementReadsType, Zenon DEF MakePlan
  <2>2. cached.replicas \in 1 .. MaxNodes
    BY <1>4, MaxNodesAssumption DEF MakePlan, TypeOK, StatefulSets
  <2>3. /\ pass.target \in 0 .. MaxNodes /\ pass.bootstrapped \in BOOLEAN /\ pass.members \in Readings
        /\ pass \in Passes
    BY DEF TypeOK, Passes
  <2>4. buildPlan(pass.target, cached.replicas, pass.bootstrapped, pass.members, p) \in Plans
    BY <2>2, <2>3, BuildPlanStep
  <2>5. pass' \in Passes /\ pass'.current > 0 /\ pc' \in Steps
    <3> DEFINE q == buildPlan(pass.target, cached.replicas, pass.bootstrapped, pass.members, p)
    <3>1. /\ pass' = [pass EXCEPT !.current = cached.replicas, !.plan = q, !.ready = {},
                                   !.pods = IF q.replicas < cached.replicas THEN @ ELSE NoPods]
          /\ q \in Plans
      BY <2>1, <2>4
    <3>2. pc' \in Steps
      BY <2>1 DEF Steps
    <3> HIDE DEF q
    <3>3. cached.replicas \in 0 .. MaxNodes /\ cached.replicas > 0
      BY <2>2, MaxNodesAssumption
    <3>4. NoPods \in [Ordinals -> PodStates]
      BY DEF NoPods, PodStates
    <3> QED  BY <2>3, <3>1, <3>2, <3>3, <3>4, Zenon DEF Passes
  <2>6. faults' \in 0 .. MaxFaults
    BY <2>1, ScalingAssumption DEF ReadPlacement, TypeOK, Fault
  <2> QED
    BY <1>4, <2>5, <2>6, RecordType DEF MakePlan, TypeOK, specVars, statusVars, stsVars, podVars, serverVars
<1>5. CASE decommission
  <2>1. Departing \in Ordinals
    BY <1>5, MaxNodesAssumption DEF decommission, TypeOK, Passes, Departing, Ordinals
  <2>2. CASE NoPodToAsk
    BY <1>5, <2>2, RecordType
       DEF decommission, NoPodToAsk, TypeOK, Steps, specVars, statusVars, stsVars, podVars, serverVars
  <2>3. /\ pods' \in [Ordinals -> PodStates] /\ podImage' = podImage
        /\ roster' \in Rosters /\ hosts' \subseteq Ordinals
    BY <1>5, <2>1
       DEF decommission, NoPodToAsk, Left, HoldAfterLeave, CommitLeave, TypeOK, PodStates,
           Rosters, Roles, podVars, serverVars
  <2>4. CASE Left
    <3>1. pass' \in Passes
      BY <2>1, <2>4 DEF Left, TypeOK, Passes
    <3> QED
      BY <1>5, <2>3, <2>4, <3>1, RecordType
         DEF decommission, Left, TypeOK, Steps, specVars, statusVars, stsVars
  <2>5. CASE HoldAfterLeave
    <3>1. pass' \in Passes
      BY <2>5 DEF HoldAfterLeave, HeldPlan, TypeOK, Passes, Plans
    <3>2. faults' \in 0 .. MaxFaults
      BY <2>5, ScalingAssumption DEF HoldAfterLeave, TypeOK, Fault
    <3> QED
      BY <1>5, <2>3, <3>1, <3>2, RecordType
         DEF decommission, TypeOK, Steps, specVars, statusVars, stsVars
  <2> QED
    BY <1>5, <2>2, <2>4, <2>5 DEF decommission
<1>6. CASE WriteStatefulSet
  <2>1. Desired(pass.plan) \in StatefulSets
    BY DesiredType DEF TypeOK, Passes
  <2>2. /\ sts' \in StatefulSets /\ cached' \in StatefulSets /\ fresh' \in BOOLEAN
        /\ pass' \in Passes /\ pc' \in {"idle", "status"}
    <3>1. CASE ToStatus
      BY <1>6, <2>1, <3>1, ToStatusType, Zenon DEF WriteStatefulSet, EndPass, TypeOK, stsVars
    <3>2. CASE EndPass /\ UNCHANGED stsVars
      BY <3>2, NoPassType DEF EndPass, TypeOK, stsVars
    <3> QED  BY <1>6, <3>1, <3>2 DEF WriteStatefulSet
  <2> QED
    BY <1>6, <2>2, RecordType
       DEF WriteStatefulSet, TypeOK, Steps, specVars, statusVars, podVars, serverVars
<1>7. CASE reconcileStatus
  <2>1. bootstrapped' \in BOOLEAN
    BY <1>7 DEF reconcileStatus
  <2> QED
    BY <1>7, <2>1, NoPassType, RecordType
       DEF reconcileStatus, EndPass, TypeOK, Steps, specVars, stsVars, podVars, serverVars
<1> QED
  BY <1>1, <1>2, <1>3, <1>4, <1>5, <1>6, <1>7 DEF Pass

(* A restart of the operator preserves types. *)
LEMMA TypeAbort ==
  ASSUME TypeInv, Abort
  PROVE  TypeInv'
<1>1. faults' \in 0 .. MaxFaults
  BY ScalingAssumption DEF Abort, TypeInv, TypeOK, Fault
<1> QED
  BY <1>1, NoPassType, RecordType
     DEF Abort, EndPass, TypeInv, TypeOK, Steps, specVars, statusVars, stsVars, podVars, serverVars

(* Every step of the environment preserves types and leaves the pass, the latch and the
   StatefulSet of the API server alone. *)
LEMMA TypeEnvironment ==
  ASSUME TypeInv, Environment
  PROVE  TypeInv' /\ UNCHANGED <<passVars, statusVars, sts, lags>>
<1> DEFINE Goal == TypeInv' /\ UNCHANGED <<passVars, statusVars, sts, lags>>
<1> USE DEF TypeInv, specVars, statusVars, stsVars, podVars, serverVars, passVars
<1>1. CASE EditSpec
  <2>1. target' \in Sizes /\ edits' \in 0 .. MaxEdits /\ image' \in Images /\ upgrades' \in 0 .. MaxUpgrades
    BY <1>1, ScalingAssumption DEF EditSpec, TypeOK
  <2> QED  BY <1>1, <2>1, RecordType DEF EditSpec, TypeOK
<1>2. CASE CacheCatchesUp
  BY <1>2, RecordType DEF CacheCatchesUp, TypeOK
<1>3. CASE ScalePods
  <2>1. pods' \in [Ordinals -> PodStates]
    BY <1>3 DEF ScalePods, PodsFor, TypeOK, PodStates
  <2>2. podImage' \in [Ordinals -> AnyImage]
    <3>1. sts.image \in AnyImage /\ revision \in AnyImage /\ NoImage \in AnyImage
      BY DEF TypeOK, StatefulSets, AnyImage
    <3> QED  BY <1>3, <3>1 DEF ScalePods, ImagesFor, TypeOK
  <2> QED
    BY <1>3, <2>1, <2>2, RecordType DEF ScalePods, TypeOK
<1>4. CASE FinishRollout
  <2>1. revision' \in AnyImage
    BY <1>4 DEF FinishRollout, TypeOK, StatefulSets
  <2> QED
    BY <1>4, <2>1, RecordType DEF FinishRollout, TypeOK
<1>5. CASE Seed
  <2>1. PICK n \in {bootstrapSize, target}, o \in Ordinals : SeedRoster(0 .. n - 1 \cup {o})
    BY <1>5, Zenon DEF Seed
  <2>2. 0 .. n - 1 \cup {o} \subseteq Ordinals
    BY SizesInRange, MaxNodesAssumption DEF TypeOK, Ordinals
  <2>3. roster' \in Rosters /\ hosts' \subseteq Ordinals
    BY <2>1, <2>2 DEF SeedRoster, Rosters, Roles
  <2> QED
    BY <2>1, <2>3, RecordType DEF SeedRoster, ServerStep, TypeOK
<1>6. CASE Rebalance
  <2>1. hosts' \subseteq Ordinals
    BY <1>6 DEF Rebalance, Voters
  <2> QED
    BY <1>6, <2>1, RecordType DEF Rebalance, ServerStep, TypeOK
<1>7. ASSUME NEW o \in Ordinals, PodStarts(o) \/ PodStops(o) \/ RollPod(o)
      PROVE  Goal
  <2>1. pods' \in [Ordinals -> PodStates] /\ podImage' \in [Ordinals -> AnyImage]
    BY <1>7 DEF PodStarts, PodStops, RollPod, TypeOK, PodStates, AnyImage
  <2> QED
    BY <1>7, <2>1, RecordType DEF PodStarts, PodStops, RollPod, TypeOK
<1>8. ASSUME NEW o \in Ordinals, PodFails(o)
      PROVE  Goal
  <2>1. pods' \in [Ordinals -> PodStates] /\ faults' \in 0 .. MaxFaults
    BY <1>8, ScalingAssumption DEF PodFails, Fault, TypeOK, PodStates
  <2> QED
    BY <1>8, <2>1, RecordType DEF PodFails, TypeOK
<1>9. ASSUME NEW o \in Ordinals, Join(o) \/ Promote(o) \/ Evict(o)
      PROVE  Goal
  <2>1. roster' \in Rosters
    BY <1>9 DEF Join, Promote, Evict, TypeOK, Rosters, Roles
  <2> QED
    BY <1>9, <2>1, RecordType DEF Join, Promote, Evict, ServerStep, TypeOK
<1> QED
  BY <1>1, <1>2, <1>3, <1>4, <1>5, <1>6, <1>7, <1>8, <1>9 DEF Environment, Kubernetes, Server

(* Nothing happens to the types when nothing happens. *)
LEMMA TypeStutter ==
  ASSUME TypeInv, UNCHANGED vars
  PROVE  TypeInv'
  BY DEF TypeInv, TypeOK, vars, specVars, statusVars, stsVars, podVars, serverVars, passVars, history

(* Every behaviour of the operator and its environment is well typed: no size, partition or
   ordinal the pass computes leaves the range of the cluster (Reconcile and its callees). *)
THEOREM TypeCorrect == Spec => []TypeOK
<1>1. TypeInv /\ [Next]_vars => TypeInv'
  BY TypePass, TypeAbort, TypeEnvironment, TypeStutter DEF Next
<1>2. TypeInv => TypeOK
  BY DEF TypeInv
<1> QED
  BY <1>1, <1>2, TypeInit, PTL DEF Spec
-----------------------------------------------------------------------------
(* The inductive invariant: types, and what a pass knows of the cluster it acts on. *)
IInv == TypeInv /\ PassInvariant

(* Nothing is known before the first pass. *)
LEMMA InvInit == Init => IInv
  BY TypeInit
     DEF Init, IInv, PassInvariant, PlannedFromCurrent, PlanIsOneStep, ShrinksAfterLeave, PlanIsGrounded

(* What has been seen since the last resize stays seen until the next. *)
LEMMA RecordKeeps ==
  ASSUME Record, sts' = sts
  PROVE  (rosterSeen => rosterSeen') /\ (dataSeen => dataSeen')
  BY Zenon DEF Record

(* Every step records what it leaves behind. *)
LEMMA EnvironmentRecords == Environment => Record
  BY Zenon DEF Environment, Kubernetes, Server, EditSpec, CacheCatchesUp, ScalePods, RollPod,
         FinishRollout, PodStarts, PodStops, PodFails, Seed, SeedRoster, Join, Promote, Evict,
         Rebalance, ServerStep

(* No step of the environment makes a fresh cache stale. *)
LEMMA EnvironmentCache ==
  ASSUME Environment, ~lags => cached = sts /\ fresh, lags' = lags
  PROVE  ~lags' => cached' = sts' /\ fresh'
<1>1. CASE CacheCatchesUp
  BY <1>1 DEF CacheCatchesUp
<1>2. CASE UNCHANGED stsVars
  BY <1>2 DEF stsVars
<1> QED
  BY <1>1, <1>2, Zenon DEF Environment, Kubernetes, Server, EditSpec, ScalePods, RollPod, FinishRollout,
                    PodStarts, PodStops, PodFails, Seed, SeedRoster, Join, Promote, Evict,
                    Rebalance, ServerStep

(* The environment may move between any two steps of a pass without touching what the
   pass relies on. *)
LEMMA InvEnvironment ==
  ASSUME IInv, Environment
  PROVE  PassInvariant'
<1>1. pc' = pc /\ pass' = pass /\ sts' = sts /\ lags' = lags
  BY TypeEnvironment DEF IInv, passVars
<1>2. PlannedFromCurrent'
  BY <1>1, EnvironmentCache DEF IInv, PassInvariant, PlannedFromCurrent
<1>3. PlanIsOneStep' /\ ShrinksAfterLeave'
  BY <1>1 DEF IInv, PassInvariant, PlanIsOneStep, ShrinksAfterLeave, Departing, HasIP
<1>4. PlanIsGrounded'
  BY <1>1, EnvironmentRecords, RecordKeeps DEF IInv, PassInvariant, PlanIsGrounded
<1> QED
  BY <1>2, <1>3, <1>4 DEF PassInvariant

(* A pass that has ended relies on nothing but its cache. *)
LEMMA InvIdle ==
  ASSUME IInv, pc' \in {"idle", "status"}, ~lags' => cached' = sts' /\ fresh'
  PROVE  PassInvariant'
  BY DEF PassInvariant, PlannedFromCurrent, PlanIsOneStep, ShrinksAfterLeave, PlanIsGrounded

(* The reading of the roster: if it matches the StatefulSet, the history has seen it. *)
LEMMA InvReadMembership ==
  ASSUME IInv, ReadMembership
  PROVE  PassInvariant'
<1>1. /\ sts' = sts /\ cached' = cached /\ fresh' = fresh /\ lags' = lags
      /\ pc' = "plan" /\ roster' = roster /\ Record
  BY DEF ReadMembership, Goto, specVars, stsVars, serverVars
<1>2. ASSUME ~lags, rosterMatches(pass'.members, sts'.replicas)
      PROVE  rosterSeen'
  <2>1. CASE pass'.members = [known |-> TRUE, roster |-> roster]
    <3>1. pass'.members \in Readings /\ sts.replicas \in 0 .. MaxNodes
      BY <2>1 DEF IInv, TypeInv, TypeOK, Readings, StatefulSets
    <3>2. Members(roster) = 0 .. sts.replicas - 1 /\ Voters(roster) = Members(roster)
      BY <1>1, <1>2, <2>1, <3>1, RosterMatchesExactly
    <3>3. RosterQuiet'
      BY <1>1, <3>2 DEF RosterQuiet, Members, Voters
    <3> QED  BY <1>1, <3>3, Zenon DEF Record
  <2>2. CASE pass' = pass
    BY <1>1, <1>2, <2>2, RecordKeeps
       DEF ReadMembership, IInv, PassInvariant, PlanIsGrounded
  <2> QED
    BY <2>1, <2>2, Zenon DEF ReadMembership, IInv, TypeInv, TypeOK, Passes
<1> QED
  BY <1>1, <1>2
     DEF IInv, PassInvariant, PlannedFromCurrent, PlanIsOneStep, ShrinksAfterLeave, PlanIsGrounded

(* A pass begins with no roster, which matches nothing. *)
LEMMA InvBegin ==
  ASSUME IInv, Begin
  PROVE  PassInvariant'
<1>1. ~rosterMatches(pass'.members, sts'.replicas)
  BY DEF Begin, NoPass, rosterMatches
<1> QED
  BY <1>1 DEF Begin, Goto, specVars, stsVars, IInv, PassInvariant, PlannedFromCurrent, PlanIsOneStep,
              ShrinksAfterLeave, PlanIsGrounded

(* The plan is made from the size of the StatefulSet, and resizes only past both gates. *)
LEMMA InvMakePlan ==
  ASSUME IInv, MakePlan
  PROVE  PassInvariant'
<1>1. PICK p \in Placements :
        /\ p \in PlacementReads \/ p = PlacementUnread
        /\ LET plan == buildPlan(pass.target, cached.replicas, pass.bootstrapped, pass.members, p)
           IN  /\ pass' = [pass EXCEPT !.current = cached.replicas, !.plan = plan, !.ready = {},
                                              !.pods = IF plan.replicas < cached.replicas THEN @ ELSE NoPods]
               /\ pc' = (IF plan.replicas < cached.replicas THEN "leave" ELSE "write")
  BY PlacementReadsType, Zenon DEF MakePlan, IInv, TypeInv, Goto
<1> DEFINE q == buildPlan(pass.target, cached.replicas, pass.bootstrapped, pass.members, p)
<1>2. /\ pass' = [pass EXCEPT !.current = cached.replicas, !.plan = q, !.ready = {},
                               !.pods = IF q.replicas < cached.replicas THEN @ ELSE NoPods]
      /\ pc' = (IF q.replicas < cached.replicas THEN "leave" ELSE "write")
  BY <1>1
<1>3. /\ cached.replicas \in 1 .. MaxNodes /\ pass.target \in 0 .. MaxNodes
      /\ pass.bootstrapped \in BOOLEAN /\ pass.members \in Readings /\ pass \in Passes
  BY MaxNodesAssumption DEF MakePlan, IInv, TypeInv, TypeOK, StatefulSets, Passes
<1>4. /\ q \in Plans
      /\ pass.bootstrapped => \/ q.replicas = cached.replicas
                              \/ q.replicas = cached.replicas + 1 /\ cached.replicas < pass.target
                              \/ q.replicas = cached.replicas - 1 /\ cached.replicas > pass.target
  BY <1>3, BuildPlanStep
<1>5. ASSUME pass.bootstrapped, q.replicas # cached.replicas
      PROVE  /\ rosterMatches(pass.members, cached.replicas)
             /\ p.kind # "unreadable" /\ placementSettled(p, cached.replicas)
  <2>1. pass.bootstrapped = TRUE
    BY <1>3, <1>5
  <2>2. buildPlan(pass.target, cached.replicas, TRUE, pass.members, p).replicas # cached.replicas
    BY <1>5, <2>1, Zenon
  <2> QED  BY <1>3, <2>2, BuildPlanGated, Zenon
<1> HIDE DEF q
<1>6. /\ pass'.current = cached.replicas /\ pass'.plan = q /\ pass'.members = pass.members
      /\ pass'.bootstrapped = pass.bootstrapped /\ pass'.target = pass.target
  BY <1>2, <1>3 DEF Passes
<1>7. /\ sts' = sts /\ cached' = cached /\ fresh' = fresh /\ lags' = lags /\ hosts' = hosts
      /\ pc = "plan" /\ Record
  BY DEF MakePlan, specVars, stsVars, serverVars
<1>8. PlannedFromCurrent'
  BY <1>3, <1>6, <1>7, MaxNodesAssumption DEF IInv, PassInvariant, PlannedFromCurrent
<1>9. PlanIsOneStep'
  BY <1>4, <1>6 DEF PlanIsOneStep
<1>10. ShrinksAfterLeave'
  BY <1>2, <1>3, <1>4, <1>6, MaxNodesAssumption DEF ShrinksAfterLeave, Plans
<1>11. PlanIsGrounded'
  <2> SUFFICES ASSUME ~lags PROVE PlanIsGrounded'
    BY <1>7 DEF PlanIsGrounded
  <2>1. cached = sts
    BY DEF IInv, PassInvariant, PlannedFromCurrent
  <2>2. rosterMatches(pass.members, sts.replicas) => rosterSeen'
    BY <1>7, RecordKeeps DEF IInv, PassInvariant, PlanIsGrounded
  <2>3. ASSUME pass.bootstrapped, q.replicas # cached.replicas PROVE dataSeen'
    <3>1. p \in PlacementReads
      BY <1>1, <1>5, <2>3 DEF PlacementUnread
    <3>2. HasPlacement => p.kind = "read" /\ p.hosts = hosts
      BY <3>1 DEF PlacementReads
    <3>3. DataQuiet'
      BY <1>5, <1>7, <2>1, <2>3, <3>2 DEF DataQuiet, placementSettled
    <3> QED  BY <1>7, <3>3, Zenon DEF Record
  <2> QED
    BY <1>5, <1>6, <1>7, <2>1, <2>2, <2>3 DEF PlanIsGrounded
<1> QED
  BY <1>8, <1>9, <1>10, <1>11 DEF PassInvariant

(* A shrinking plan passes decommission only with the node gone or nobody to ask. *)
LEMMA InvDecommission ==
  ASSUME IInv, decommission
  PROVE  PassInvariant'
<1>1. /\ pc = "leave" /\ pc' = "write" /\ sts' = sts /\ cached' = cached /\ fresh' = fresh
      /\ lags' = lags /\ Record /\ pass \in Passes
  BY DEF decommission, Goto, specVars, stsVars, IInv, TypeInv, TypeOK
<1>2. /\ pass'.current = pass.current /\ pass'.target = pass.target
      /\ pass'.bootstrapped = pass.bootstrapped /\ pass'.members = pass.members
      /\ pass'.pods = pass.pods
      /\ pass'.plan = pass.plan \/ pass'.plan.replicas = pass.current
  BY <1>1 DEF decommission, NoPodToAsk, Left, HoldAfterLeave, HeldPlan, Passes
<1>3. \/ Departing \in pass'.left
      \/ ~HasIP(pass.pods[Departing])
      \/ pass'.plan.replicas = pass.current
  BY <1>1 DEF decommission, NoPodToAsk, Left, HoldAfterLeave, HeldPlan, Passes
<1>4. PlannedFromCurrent'
  BY <1>1, <1>2 DEF IInv, PassInvariant, PlannedFromCurrent
<1>5. PlanIsOneStep'
  BY <1>1, <1>2 DEF IInv, PassInvariant, PlanIsOneStep
<1>6. pass.current \in 0 .. MaxNodes
  BY <1>1 DEF Passes
<1>7. ShrinksAfterLeave'
  BY <1>1, <1>2, <1>3, <1>6, MaxNodesAssumption DEF ShrinksAfterLeave, Departing, HasIP
<1>8. PlanIsGrounded'
  BY <1>1, <1>2, RecordKeeps DEF IInv, PassInvariant, PlanIsGrounded
<1> QED
  BY <1>4, <1>5, <1>7, <1>8 DEF PassInvariant

(* The remaining steps end the pass or leave only its status to be written. *)
LEMMA InvWrites ==
  ASSUME IInv, CreateStatefulSet \/ WriteStatefulSet \/ reconcileStatus \/ Abort
  PROVE  PassInvariant'
<1>1. pc' \in {"idle", "status"}
  BY DEF CreateStatefulSet, WriteStatefulSet, reconcileStatus, Abort, EndPass, ToStatus, Goto
<1>2. lags' = lags
  BY DEF CreateStatefulSet, WriteStatefulSet, reconcileStatus, Abort, specVars
<1>3. \/ cached' = (IF lags THEN cached ELSE sts') /\ fresh' = ~lags
      \/ UNCHANGED stsVars
  BY DEF CreateStatefulSet, WriteStatefulSet, reconcileStatus, Abort
<1>4. ~lags => cached = sts /\ fresh
  BY DEF IInv, PassInvariant, PlannedFromCurrent
<1>5. ASSUME ~lags PROVE cached' = sts' /\ fresh'
  <2>1. lags = FALSE
    BY <1>5, ScalingAssumption DEF IInv, TypeInv, TypeOK
  <2>2. CASE cached' = (IF lags THEN cached ELSE sts') /\ fresh' = ~lags
    BY <2>1, <2>2, Zenon
  <2>3. CASE UNCHANGED stsVars
    BY <1>4, <1>5, <2>3 DEF stsVars
  <2> QED  BY <1>3, <2>2, <2>3
<1> QED
  BY <1>1, <1>2, <1>5, InvIdle

(* The invariant is inductive. *)
LEMMA InvNext ==
  ASSUME IInv, [Next]_vars
  PROVE  IInv'
<1>1. TypeInv'
  BY TypePass, TypeAbort, TypeEnvironment, TypeStutter DEF IInv, Next
<1>2. CASE Next
  BY <1>1, <1>2, InvEnvironment, InvReadMembership, InvBegin, InvMakePlan, InvDecommission,
     InvWrites DEF IInv, Next, Pass
<1>3. CASE UNCHANGED vars
  BY <1>1, <1>3
     DEF IInv, PassInvariant, PlannedFromCurrent, PlanIsOneStep, ShrinksAfterLeave,
         PlanIsGrounded, Departing, HasIP, vars, specVars, stsVars, passVars, history
<1> QED
  BY <1>2, <1>3

(* What a pass knows and has decided stays true of the cluster it acts on, for any number of
   nodes, edits and failures (Reconcile, reconcileStatefulSet, decommission). *)
THEOREM PassStaysConsistent == Spec => [](TypeOK /\ PassInvariant)
<1>1. IInv => TypeOK /\ PassInvariant
  BY DEF IInv, TypeInv
<1> QED
  BY <1>1, InvInit, InvNext, PTL DEF Spec
-----------------------------------------------------------------------------
(* What a resize may never do, with a cache that holds the operator's own writes. *)

(* Only the write of the pass changes the StatefulSet of a founded cluster, to its plan. *)
LEMMA ResizeIsThePlan ==
  ASSUME StaleReads = {FALSE}, IInv, [Next]_vars, Resizing, sts' # sts
  PROVE  /\ sts'.replicas = pass.plan.replicas /\ sts'.partition = pass.plan.partition
         /\ pass.current = sts.replicas /\ ~lags
         /\ pass \in Passes /\ pass.plan \in Plans /\ sts.replicas \in 1 .. MaxNodes
<1>1. WriteStatefulSet
  BY TypeEnvironment
     DEF IInv, Next, Pass, Resizing, Begin, ReadMembership, CreateStatefulSet, MakePlan,
         decommission, reconcileStatus, Abort, vars, stsVars
<1>2. sts' = Desired(pass.plan)
  BY <1>1 DEF WriteStatefulSet, stsVars
<1>3. ~lags
  BY DEF IInv, TypeInv, TypeOK
<1>4. pass.current = sts.replicas /\ pass.current > 0
  BY <1>3 DEF IInv, PassInvariant, PlannedFromCurrent, Resizing
<1>5. pass \in Passes /\ pass.plan \in Plans /\ sts.replicas \in 0 .. MaxNodes
  BY DEF IInv, TypeInv, TypeOK, Passes, StatefulSets
<1>6. sts.replicas \in 1 .. MaxNodes
  BY <1>4, <1>5, MaxNodesAssumption
<1> QED
  BY <1>2, <1>3, <1>4, <1>5, <1>6 DEF Desired

(* A pass over a founded cluster resizes it by at most one node, never away from the size it
   was asked for (buildPlan, reconcileStatefulSet). *)
THEOREM ResizesOneAtATime == ASSUME StaleReads = {FALSE} PROVE Spec => OneAtATime
<1> DEFINE Step == Resizing => /\ sts'.replicas - sts.replicas \in -1 .. 1
                               /\ sts'.replicas > sts.replicas => sts'.replicas <= pass.target
                               /\ sts'.replicas < sts.replicas => sts'.replicas >= pass.target
<1>1. IInv /\ [Next]_vars => [Step]_sts
  <2> SUFFICES ASSUME IInv, [Next]_vars, Resizing, sts' # sts PROVE Step
    OBVIOUS
  <2>1. /\ sts'.replicas = pass.plan.replicas /\ pass.current = sts.replicas
        /\ pass.plan.replicas \in 0 .. MaxNodes /\ sts.replicas \in 1 .. MaxNodes
        /\ pass.target \in 0 .. MaxNodes
    BY ResizeIsThePlan DEF Passes, Plans
  <2>2. \/ pass.plan.replicas = pass.current
        \/ pass.plan.replicas = pass.current + 1 /\ pass.current < pass.target
        \/ pass.plan.replicas = pass.current - 1 /\ pass.current > pass.target
    BY DEF IInv, PassInvariant, PlanIsOneStep, Resizing
  <2> QED
    BY <2>1, <2>2, MaxNodesAssumption
<1> QED
  BY <1>1, InvInit, InvNext, PTL DEF Spec, OneAtATime

(* A founded cluster gives up a node's pod only when the node is out of the roster, confirmed
   its departure to this pass, or had no pod to ask (decommission). *)
THEOREM DecommissionsBeforeDeleting == ASSUME StaleReads = {FALSE} PROVE Spec => DecommissionBeforeDelete
<1> DEFINE Step == Resizing => \A o \in Dropped : \/ roster[o] = "NotMember"
                                                  \/ o \in pass.left
                                                  \/ ~HasIP(pass.pods[o])
<1>1. IInv /\ [Next]_vars => [Step]_sts
  <2> SUFFICES ASSUME IInv, [Next]_vars, Resizing, sts' # sts, NEW o \in Dropped
               PROVE  o \in pass.left \/ ~HasIP(pass.pods[o])
    OBVIOUS
  <2>1. /\ sts'.replicas = pass.plan.replicas /\ pass.current = sts.replicas
        /\ pass.plan.replicas \in 0 .. MaxNodes /\ sts.replicas \in 1 .. MaxNodes
    BY ResizeIsThePlan DEF Plans
  <2>2. \/ pass.plan.replicas = pass.current
        \/ pass.plan.replicas = pass.current + 1
        \/ pass.plan.replicas = pass.current - 1
    BY DEF IInv, PassInvariant, PlanIsOneStep, Resizing
  <2>3. pass.plan.replicas = pass.current - 1 /\ o = Departing
    BY <2>1, <2>2, MaxNodesAssumption DEF Dropped, Departing
  <2>4. pass.plan.replicas < pass.current
    BY <2>1, <2>3, MaxNodesAssumption
  <2> QED
    BY <2>3, <2>4 DEF IInv, PassInvariant, ShrinksAfterLeave, Resizing
<1> QED
  BY <1>1, InvInit, InvNext, PTL DEF Spec, DecommissionBeforeDelete

(* No step of a founded cluster stacks on an unfinished one: since its last resize the roster
   has been exactly its nodes, and no replica was left on a node that is gone (the gates of
   buildPlan, whatever changes between the readings and the write). *)
THEOREM StepsAreSerialised == ASSUME StaleReads = {FALSE} PROVE Spec => StepsSerialised
<1> DEFINE Step == Resizing /\ sts'.replicas # sts.replicas => rosterSeen /\ dataSeen
<1>1. IInv /\ [Next]_vars => [Step]_sts
  <2> SUFFICES ASSUME IInv, [Next]_vars, Resizing, sts' # sts, sts'.replicas # sts.replicas
               PROVE  rosterSeen /\ dataSeen
    OBVIOUS
  <2>1. pass.plan.replicas # pass.current /\ ~lags
    BY ResizeIsThePlan
  <2> QED
    BY <2>1 DEF IInv, PassInvariant, PlanIsGrounded, Resizing
<1> QED
  BY <1>1, InvInit, InvNext, PTL DEF Spec, StepsSerialised
-----------------------------------------------------------------------------
(* What a pass remembers of the request and of the latch, and what its plan is worth: the plan
   of a cluster that is not founded is the size asked for or a hold, and one that releases pods
   of a founded cluster was made on a matching roster. *)
PassFacts ==
  /\ pc # "idle" => pass.target \in 1 .. MaxNodes /\ (pass.bootstrapped => bootstrapped)
  /\ pc \in {"leave", "write"} /\ ~pass.bootstrapped => pass.plan.replicas \in {pass.target, pass.current}
  /\ ~lags /\ pc \in {"leave", "write"} /\ pass.bootstrapped /\ pass.plan.partition < pass.plan.replicas =>
       rosterSeen

(* The latch only closes. *)
LEMMA LatchCloses ==
  ASSUME IInv, [Next]_vars
  PROVE  bootstrapped => bootstrapped'
  BY TypeEnvironment, Zenon
     DEF IInv, Next, Pass, Begin, ReadMembership, CreateStatefulSet, MakePlan, decommission,
         WriteStatefulSet, reconcileStatus, Abort, statusVars, vars

(* A pass remembers the request and the latch it read from its first step to its last. *)
LEMMA PassRemembers ==
  ASSUME IInv, [Next]_vars
  PROVE  \/ pc = "idle" /\ pc' = "idle" /\ sts' = sts
         \/ /\ pc = "idle" /\ pc' # "idle" /\ sts' = sts
            /\ pass'.target = target /\ pass'.bootstrapped = bootstrapped
         \/ pc # "idle" /\ pc' = "idle" /\ sts' = sts
         \/ /\ pc # "idle" /\ pc' # "idle"
            /\ pass'.target = pass.target /\ pass'.bootstrapped = pass.bootstrapped
<1> USE DEF Goto
<1>1. TypeOK /\ pass \in Passes
  BY DEF IInv, TypeInv, TypeOK
<1>2. CASE Begin
  BY <1>2, NoPassType DEF Begin, stsVars, Passes
<1>3. CASE ReadMembership
  BY <1>1, <1>3 DEF ReadMembership, Passes
<1>4. CASE CreateStatefulSet
  BY <1>1, <1>4, ToStatusType DEF CreateStatefulSet, EndPass, stsVars
<1>5. CASE MakePlan
  BY <1>1, <1>5 DEF MakePlan, Passes
<1>6. CASE decommission
  BY <1>1, <1>6 DEF decommission, NoPodToAsk, Left, HoldAfterLeave, Passes
<1>7. CASE WriteStatefulSet
  BY <1>1, <1>7, ToStatusType DEF WriteStatefulSet, EndPass, stsVars
<1>8. CASE reconcileStatus \/ Abort
  BY <1>8 DEF reconcileStatus, Abort, EndPass, stsVars
<1>9. CASE Environment \/ UNCHANGED vars
  BY <1>9, TypeEnvironment DEF IInv, vars, passVars, stsVars
<1> QED
  BY <1>2, <1>3, <1>4, <1>5, <1>6, <1>7, <1>8, <1>9 DEF Next, Pass

(* A first pass knows nothing. *)
LEMMA FactsInit == Init => PassFacts
  BY DEF Init, PassFacts

(* The plan keeps its worth until it is written. *)
LEMMA PlanKeepsWorth ==
  ASSUME IInv, PassFacts, [Next]_vars, pc \in {"leave", "write"}, pc' \in {"leave", "write"}
  PROVE  /\ sts' = sts /\ lags' = lags /\ (Record \/ UNCHANGED vars)
         /\ pass'.current = pass.current
         /\ pass'.plan = pass.plan \/ pass'.plan = [replicas |-> pass.current, partition |-> pass.current]
<1>1. pass \in Passes
  BY DEF IInv, TypeInv, TypeOK
<1>2. CASE decommission
  BY <1>1, <1>2
     DEF decommission, NoPodToAsk, Left, HoldAfterLeave, HeldPlan, Passes, stsVars, specVars
<1>3. CASE Environment
  BY <1>3, TypeEnvironment, EnvironmentRecords DEF IInv, passVars
<1>4. CASE UNCHANGED vars
  BY <1>4 DEF vars, passVars, stsVars, specVars
<1> QED
  BY <1>2, <1>3, <1>4, Zenon
     DEF Next, Pass, Begin, ReadMembership, CreateStatefulSet, MakePlan, WriteStatefulSet,
         reconcileStatus, Abort, EndPass, ToStatus, Goto

(* What a pass remembers stays true while it runs. *)
LEMMA FactsNext ==
  ASSUME IInv, PassFacts, [Next]_vars
  PROVE  PassFacts'
<1>1. pc' # "idle" => pass'.target \in 1 .. MaxNodes /\ (pass'.bootstrapped => bootstrapped')
  <2>1. target \in 1 .. MaxNodes
    BY SizesInRange DEF IInv, TypeInv, TypeOK
  <2> QED  BY <2>1, PassRemembers, LatchCloses DEF PassFacts
<1>2. CASE pc' \notin {"leave", "write"}
  BY <1>1, <1>2 DEF PassFacts
<1>3. CASE pc \in {"leave", "write"} /\ pc' \in {"leave", "write"}
  <2>1. pass'.target = pass.target /\ pass'.bootstrapped = pass.bootstrapped
    BY <1>3, PassRemembers
  <2>2. /\ sts' = sts /\ lags' = lags /\ (Record \/ UNCHANGED vars)
        /\ pass'.current = pass.current
        /\ pass'.plan = pass.plan \/ pass'.plan = [replicas |-> pass.current, partition |-> pass.current]
    BY <1>3, PlanKeepsWorth
  <2>3. sts' = sts /\ lags' = lags /\ (rosterSeen => rosterSeen')
    <3>1. CASE Record
      BY <2>2, <3>1, RecordKeeps
    <3>2. CASE UNCHANGED vars
      BY <2>2, <3>2, Zenon DEF vars, history
    <3> QED
      BY <2>2, <3>1, <3>2
  <2>4. ~(pass.current < pass.current)
    BY DEF IInv, TypeInv, TypeOK, Passes
  <2>5. ~pass'.bootstrapped => pass'.plan.replicas \in {pass'.target, pass'.current}
    <3>1. ~pass.bootstrapped => pass.plan.replicas \in {pass.target, pass.current}
      BY <1>3, Zenon DEF PassFacts
    <3>2. CASE pass'.plan = pass.plan
      BY <2>1, <2>2, <3>1, <3>2, Zenon
    <3>3. CASE pass'.plan = [replicas |-> pass.current, partition |-> pass.current]
      <4>1. pass'.plan.replicas = pass.current
        BY <3>3
      <4>2. pass'.current = pass.current
        BY <2>2, Zenon
      <4> QED  BY <4>1, <4>2, Zenon
    <3> QED  BY <2>2, <3>2, <3>3, Zenon
  <2>6. ~lags' /\ pass'.bootstrapped /\ pass'.plan.partition < pass'.plan.replicas => rosterSeen'
    BY <1>3, <2>1, <2>2, <2>3, <2>4 DEF PassFacts
  <2> QED  BY <1>1, <2>5, <2>6 DEF PassFacts
<1>4. CASE pc \notin {"leave", "write"} /\ pc' \in {"leave", "write"}
  <2>1. MakePlan
    BY <1>4, TypeEnvironment
       DEF IInv, Next, Pass, Begin, ReadMembership, CreateStatefulSet, decommission,
           WriteStatefulSet, reconcileStatus, Abort, EndPass, ToStatus, Goto, vars, passVars
  <2>2. PICK p \in Placements :
          LET plan == buildPlan(pass.target, cached.replicas, pass.bootstrapped, pass.members, p)
          IN  pass' = [pass EXCEPT !.current = cached.replicas, !.plan = plan, !.ready = {},
                                   !.pods = IF plan.replicas < cached.replicas THEN @ ELSE NoPods]
    BY <2>1, PlacementReadsType, Zenon DEF MakePlan, IInv, TypeInv
  <2> DEFINE q == buildPlan(pass.target, cached.replicas, pass.bootstrapped, pass.members, p)
  <2>3. /\ cached.replicas \in 1 .. MaxNodes /\ pass.target \in 0 .. MaxNodes
        /\ pass.bootstrapped \in BOOLEAN /\ pass.members \in Readings /\ pass \in Passes
    BY <2>1, MaxNodesAssumption DEF MakePlan, IInv, TypeInv, TypeOK, StatefulSets, Passes
  <2>4. /\ ~pass.bootstrapped => q.replicas = pass.target
        /\ pass.bootstrapped /\ q.partition < q.replicas => rosterMatches(pass.members, cached.replicas)
    BY <2>2, <2>3, BuildPlanReleases
  <2>5. /\ pass'.plan = q /\ pass'.target = pass.target /\ pass'.bootstrapped = pass.bootstrapped
    BY <2>2, <2>3 DEF Passes
  <2>6. sts' = sts /\ lags' = lags /\ pc = "plan" /\ Record
    BY <2>1 DEF MakePlan, stsVars, specVars
  <2>7. ~lags /\ rosterMatches(pass.members, cached.replicas) => rosterSeen'
    BY <2>6, RecordKeeps DEF IInv, PassInvariant, PlannedFromCurrent, PlanIsGrounded
  <2> QED  BY <1>1, <2>4, <2>5, <2>6, <2>7, Zenon DEF PassFacts
<1> QED
  BY <1>2, <1>3, <1>4

(* A pass over a founded cluster releases its pods to a rolling update only once the roster has
   been exactly the StatefulSet's nodes since the last resize (the partition of buildPlan,
   whatever changes between the reading and the write). *)
THEOREM RollsAreWhole == ASSUME StaleReads = {FALSE} PROVE Spec => RollsWhenWhole
<1> DEFINE Step == Resizing /\ sts'.partition < sts'.replicas => rosterSeen
<1>1. IInv /\ PassFacts /\ [Next]_vars => [Step]_sts
  <2> SUFFICES ASSUME IInv, PassFacts, [Next]_vars, Resizing, sts' # sts, sts'.partition < sts'.replicas
               PROVE  rosterSeen
    OBVIOUS
  <2>1. pass.plan.partition < pass.plan.replicas /\ ~lags
    BY ResizeIsThePlan
  <2> QED
    BY <2>1 DEF PassFacts, Resizing
<1> QED
  BY <1>1, InvInit, InvNext, FactsInit, FactsNext, PTL DEF Spec, RollsWhenWhole
-----------------------------------------------------------------------------
(* The operator implements the promise of ClusterSize.  The names below are those of the
   refinement mapping in Promise. *)
Asked == IF pc = "idle" THEN target ELSE pass.target

Founded == IF pc = "idle" THEN bootstrapped ELSE pass.bootstrapped

(* A step that leaves the size alone observes: what was seen stays seen, and a founded cluster
   stays founded. *)
LEMMA ObservesWithoutResize ==
  ASSUME IInv, PassFacts, [Next]_vars, sts'.replicas = sts.replicas
  PROVE  Promise!Observe \/ UNCHANGED Promise!vars
<1>1. Asked' \in 1 .. MaxNodes /\ Founded' \in BOOLEAN
  <2>1. IInv' /\ PassFacts'
    BY InvNext, FactsNext
  <2> QED
    BY <2>1, SizesInRange DEF IInv, TypeInv, TypeOK, PassFacts, Passes, Asked, Founded
<1>2. Founded => Founded'
  <2>1. bootstrapped => bootstrapped'
    BY LatchCloses
  <2>2. pc # "idle" /\ pass.bootstrapped => bootstrapped
    BY DEF PassFacts
  <2>3. CASE pc = "idle"
    BY <2>1, <2>3, PassRemembers, Zenon DEF Founded
  <2>4. CASE pc # "idle" /\ pc' = "idle"
    BY <2>1, <2>2, <2>4 DEF Founded
  <2>5. CASE pc # "idle" /\ pc' # "idle"
    BY <2>5, PassRemembers DEF Founded
  <2> QED  BY <2>3, <2>4, <2>5
<1>3. (rosterSeen => rosterSeen') /\ (dataSeen => dataSeen')
  <2>1. CASE Next
    <3>1. Record
      BY <2>1, EnvironmentRecords, Zenon
         DEF Next, Pass, Begin, ReadMembership, CreateStatefulSet, MakePlan, decommission,
             WriteStatefulSet, reconcileStatus, Abort
    <3> QED  BY <3>1, Zenon DEF Record
  <2>2. CASE UNCHANGED vars
    BY <2>2 DEF vars, history
  <2> QED  BY <2>1, <2>2
<1>4. rosterSeen' \in BOOLEAN /\ dataSeen' \in BOOLEAN
  BY InvNext DEF IInv, TypeInv, TypeOK
<1> QED
  BY <1>1, <1>2, <1>3, <1>4 DEF Promise!Observe, Asked, Founded

(* A step that changes the size is the creation, or the write of a plan. *)
LEMMA ResizesAsPromised ==
  ASSUME StaleReads = {FALSE}, IInv, PassFacts, [Next]_vars, sts'.replicas # sts.replicas
  PROVE  Promise!Provision \/ Promise!Step
<1>1. pc # "idle" /\ pc' # "idle" /\ pass'.target = pass.target /\ pass'.bootstrapped = pass.bootstrapped
  BY PassRemembers
<1>2. Asked = pass.target /\ Asked' = pass.target /\ Founded = pass.bootstrapped /\ Founded' = pass.bootstrapped
  BY <1>1 DEF Asked, Founded
<1>3. rosterSeen' \in BOOLEAN /\ dataSeen' \in BOOLEAN
  BY InvNext, Zenon DEF IInv, TypeInv, TypeOK
<1>4. CASE CreateStatefulSet
  <2>1. sts.replicas = 0 /\ sts'.replicas = pass.target
    BY <1>4 DEF CreateStatefulSet, Desired, stsVars
  <2> QED
    BY <1>2, <1>3, <2>1 DEF Promise!Provision, Promise!Unsettle, Asked, Founded
<1>5. CASE WriteStatefulSet
  <2>1. pc = "write" /\ sts'.replicas = pass.plan.replicas
    BY <1>5 DEF WriteStatefulSet, Desired, stsVars
  <2>2. ~lags /\ pass.current = sts.replicas
    BY <2>1 DEF IInv, TypeInv, TypeOK, PassInvariant, PlannedFromCurrent
  <2>3. CASE ~pass.bootstrapped
    <3>1. sts'.replicas = pass.target
      BY <2>1, <2>2, <2>3 DEF PassFacts
    <3> QED
      BY <1>2, <1>3, <2>3, <3>1 DEF Promise!Provision, Promise!Unsettle, Asked, Founded
  <2>4. CASE pass.bootstrapped
    <3>1. rosterSeen /\ dataSeen
      BY <2>1, <2>2, <2>4 DEF IInv, PassInvariant, PlanIsGrounded
    <3>2. \/ sts'.replicas = sts.replicas + 1 /\ sts.replicas < pass.target
          \/ sts'.replicas = sts.replicas - 1 /\ sts.replicas > pass.target
      BY <2>1, <2>2, <2>4 DEF IInv, PassInvariant, PlanIsOneStep
    <3> QED
      BY <1>2, <1>3, <2>4, <3>1, <3>2, Zenon DEF Promise!Step, Promise!Unsettle, Asked, Founded
  <2> QED  BY <2>3, <2>4
<1> QED
  BY <1>4, <1>5, TypeEnvironment, Zenon
     DEF IInv, Next, Pass, Begin, ReadMembership, MakePlan, decommission, reconcileStatus, Abort,
         stsVars, vars

(* The operator keeps its promise of the cluster's size, whatever the number of nodes, edits
   and failures: sized outright until it is founded, then stepped towards the size asked for,
   each step begun only when the one before it is complete (Reconcile, reconcileStatefulSet,
   buildPlan). *)
THEOREM SizeIsAsPromised == ASSUME StaleReads = {FALSE} PROVE Spec => KeepsPromise
<1>1. Init => Promise!Init
  BY SizesInRange DEF Init, NoSts, Promise!Init
<1>2. IInv /\ PassFacts /\ [Next]_vars => [Promise!Next]_Promise!vars
  BY ObservesWithoutResize, ResizesAsPromised DEF Promise!Next
<1> QED
  BY <1>1, <1>2, InvInit, InvNext, FactsInit, FactsNext, PTL DEF Spec, KeepsPromise, Promise!Spec
-----------------------------------------------------------------------------
(* The status and the backup gate. *)

(* Whatever the status reports, the pass under it is a pass of module Scaling. *)
LEMMA ReportStepsScale ==
  ASSUME [ReportNext]_allVars
  PROVE  [Next]_vars
  BY DEF ReportNext, List, Proceed, Report, Observe, Next, Pass, allVars

(* Composed with the status, the operator still implements module Scaling, so that all that is
   proved of the pass holds of the composition (Reconcile). *)
THEOREM ReportScales == ReportSpec => Spec
<1>1. ReportInit => Init
  BY Zenon DEF ReportInit
<1> QED
  BY <1>1, ReportStepsScale, PTL DEF ReportSpec, Spec
-----------------------------------------------------------------------------
(* A pass remembers the roster and the request from its plan to its last step. *)
LEMMA PlanRemembers ==
  ASSUME IInv, [Next]_vars, pc \in {"leave", "write"}, pc' # "idle"
  PROVE  /\ pass'.members = pass.members /\ pass'.target = pass.target
         /\ pass'.bootstrapped = pass.bootstrapped
<1>1. TypeOK /\ pass \in Passes /\ pass.members \in Readings
  BY DEF IInv, TypeInv, TypeOK, Passes
<1>2. CASE decommission
  BY <1>1, <1>2 DEF decommission, NoPodToAsk, Left, HoldAfterLeave, Passes
<1>3. CASE WriteStatefulSet
  <2>1. pass' = [NoPass EXCEPT !.generation = pass.generation, !.target = pass.target, !.image = pass.image,
                               !.bootstrapped = pass.bootstrapped, !.members = pass.members]
    BY <1>3 DEF WriteStatefulSet, ToStatus, EndPass
  <2> QED  BY <2>1, NoPassType DEF Passes
<1>4. CASE Environment \/ UNCHANGED vars
  BY <1>4, TypeEnvironment DEF IInv, vars, passVars
<1> QED
  BY <1>2, <1>3, <1>4, Zenon
     DEF Next, Pass, Begin, ReadMembership, CreateStatefulSet, MakePlan, reconcileStatus, Abort, EndPass

(* A plan that moves a founded cluster was made on the roster of the size it leaves. *)
PlanOnRoster ==
  pc \in {"leave", "write"} /\ pass.bootstrapped /\ pass.plan.replicas # pass.current =>
    rosterMatches(pass.members, pass.current)

(* The roster the plan was made on is kept with it. *)
LEMMA PlanOnRosterNext ==
  ASSUME IInv, PassFacts, PlanOnRoster, [Next]_vars
  PROVE  PlanOnRoster'
<1>1. CASE pc' \notin {"leave", "write"}
  BY <1>1 DEF PlanOnRoster
<1>2. CASE pc \in {"leave", "write"} /\ pc' \in {"leave", "write"}
  <2>1. /\ pass'.members = pass.members /\ pass'.bootstrapped = pass.bootstrapped
        /\ pass'.current = pass.current
        /\ pass'.plan = pass.plan \/ pass'.plan = [replicas |-> pass.current, partition |-> pass.current]
    BY <1>2, PlanRemembers, PlanKeepsWorth
  <2>2. CASE pass'.plan = pass.plan
    BY <1>2, <2>1, <2>2 DEF PlanOnRoster, rosterMatches
  <2>3. CASE pass'.plan = [replicas |-> pass.current, partition |-> pass.current]
    <3>1. pass'.plan.replicas = pass'.current
      BY <2>1, <2>3
    <3> QED
      BY <3>1 DEF PlanOnRoster
  <2> QED
    BY <2>1, <2>2, <2>3
<1>3. CASE pc \notin {"leave", "write"} /\ pc' \in {"leave", "write"}
  <2>1. MakePlan
    BY <1>3, TypeEnvironment
       DEF IInv, Next, Pass, Begin, ReadMembership, CreateStatefulSet, decommission,
           WriteStatefulSet, reconcileStatus, Abort, EndPass, ToStatus, Goto, vars, passVars
  <2>2. PICK p \in Placements :
          LET plan == buildPlan(pass.target, cached.replicas, pass.bootstrapped, pass.members, p)
          IN  pass' = [pass EXCEPT !.current = cached.replicas, !.plan = plan, !.ready = {},
                                   !.pods = IF plan.replicas < cached.replicas THEN @ ELSE NoPods]
    BY <2>1, PlacementReadsType, Zenon DEF MakePlan, IInv, TypeInv
  <2> DEFINE q == buildPlan(pass.target, cached.replicas, pass.bootstrapped, pass.members, p)
  <2>3. /\ cached.replicas \in 1 .. MaxNodes /\ pass.target \in 0 .. MaxNodes
        /\ pass.bootstrapped \in BOOLEAN /\ pass.members \in Readings /\ pass \in Passes
    BY <2>1, MaxNodesAssumption DEF MakePlan, IInv, TypeInv, TypeOK, StatefulSets, Passes
  <2>4. pass.bootstrapped /\ q.replicas # cached.replicas => rosterMatches(pass.members, cached.replicas)
    <3>1. /\ pass.bootstrapped \in BOOLEAN
          /\ pass.bootstrapped /\ q.replicas # cached.replicas =>
               /\ rosterMatches(pass.members, cached.replicas)
               /\ p.kind # "unreadable" /\ placementSettled(p, cached.replicas)
      BY <2>3, BuildPlanStep, Zenon
    <3> QED  BY <3>1, Zenon
  <2>5. /\ pass'.plan = q /\ pass'.current = cached.replicas /\ pass'.members = pass.members
        /\ pass'.bootstrapped = pass.bootstrapped
    BY <2>2, <2>3 DEF Passes
  <2> QED  BY <2>4, <2>5, Zenon DEF PlanOnRoster, rosterMatches
<1> QED
  BY <1>1, <1>2, <1>3

(* A roster that matches the size a pass leaves does not match the size it was asked for. *)
LEMMA ResizeBlocksBackup ==
  ASSUME StaleReads = {FALSE}, IInv, PassFacts, PlanOnRoster, [Next]_vars,
         Resizing, sts' # sts, sts'.replicas # sts.replicas
  PROVE  backupBlocked'
<1>1. /\ sts'.replicas = pass.plan.replicas /\ pass.current = sts.replicas
      /\ sts.replicas \in 1 .. MaxNodes /\ pass.target \in 0 .. MaxNodes
  BY ResizeIsThePlan DEF Passes
<1>2. pass.current # pass.target /\ rosterMatches(pass.members, pass.current)
  BY <1>1, MaxNodesAssumption DEF IInv, PassInvariant, PlanIsOneStep, PlanOnRoster, Resizing
<1>3. ~rosterMatches(pass.members, pass.target)
  BY <1>2 DEF rosterMatches
<1>4. pc' # "idle"
  BY TypeEnvironment
     DEF IInv, Next, Pass, Resizing, Begin, ReadMembership, CreateStatefulSet, MakePlan,
         decommission, WriteStatefulSet, ToStatus, Goto, reconcileStatus, Abort, vars, stsVars
<1>5. pass'.members = pass.members /\ pass'.target = pass.target
  BY <1>4, PlanRemembers, Zenon DEF Resizing
<1> QED  BY <1>3, <1>5 DEF backupBlocked, rosterMatches

(* A pass that resizes a founded cluster lets no backup start: a roster that matches the size it
   leaves does not match the size it was asked for (backupBlocked, buildPlan). *)
THEOREM BackupsWait == ASSUME StaleReads = {FALSE} PROVE ReportSpec => BackupsAwaitSteps
<1> DEFINE Inv == IInv /\ PassFacts /\ PlanOnRoster
           Step == Resizing /\ sts'.replicas # sts.replicas => backupBlocked'
<1>1. ReportInit => Inv
  BY InvInit, FactsInit, Zenon DEF ReportInit, Init, PlanOnRoster
<1>2. Inv /\ [ReportNext]_allVars => Inv'
  BY ReportStepsScale, InvNext, FactsNext, PlanOnRosterNext
<1>3. Inv /\ [ReportNext]_allVars => [Step]_sts
  BY ReportStepsScale, ResizeBlocksBackup
<1> QED
  BY <1>1, <1>2, <1>3, PTL DEF ReportSpec, BackupsAwaitSteps

(* No more nodes are counted than there are. *)
LEMMA SubsetCount ==
  ASSUME NEW S \in SUBSET Ordinals
  PROVE  IsFiniteSet(S) /\ Cardinality(S) \in 0 .. MaxNodes
<1>1. MaxNodes \in Nat /\ 0 <= MaxNodes - 1
  BY MaxNodesAssumption
<1>2. IsFiniteSet(Ordinals) /\ Cardinality(Ordinals) = MaxNodes
  <2>1. /\ IsFiniteSet(0 .. MaxNodes - 1)
        /\ Cardinality(0 .. MaxNodes - 1) = IF 0 > MaxNodes - 1 THEN 0 ELSE MaxNodes - 1 - 0 + 1
    BY <1>1, FS_Interval
  <2> QED
    BY <1>1, <2>1 DEF Ordinals
<1>3. IsFiniteSet(S) /\ Cardinality(S) <= Cardinality(Ordinals)
  BY <1>2, FS_Subset
<1>4. Cardinality(S) \in Nat
  BY <1>3, FS_CardinalityType
<1> QED
  BY <1>1, <1>2, <1>3, <1>4

(* The status stays within the API's phases and the spec's images. *)
LEMMA ReportTypes ==
  ASSUME TypeInv, ReportTypeOK, List \/ Proceed \/ Report
  PROVE  phase' \in Phases /\ currentImage' \in AnyImage /\ listing' \in Listings
<1>1. PodCounts \in Counts
  <2>1. /\ {o \in Ordinals : pods[o] # "absent"} \in SUBSET Ordinals
        /\ {o \in Ordinals : Ready(o)} \in SUBSET Ordinals
    OBVIOUS
  <2> QED
    BY <2>1, SubsetCount DEF PodCounts, Counts
<1>2. NoListing \in Listings
  BY MaxNodesAssumption DEF NoListing, Listings, Counts, NoImages, NoImage, AnyImage
<1>3. CASE List
  <2>1. [o \in Ordinals |-> IF Ready(o) THEN podImage[o] ELSE NoImage] \in [Ordinals -> AnyImage]
    BY DEF TypeInv, TypeOK, NoImage, AnyImage
  <2>2. listing' \in Listings
    BY <1>1, <1>3, <2>1 DEF List, Listings
  <2> QED
    BY <1>3, <2>2 DEF List, ReportTypeOK
<1>4. CASE Proceed
  BY <1>2, <1>4 DEF Proceed, ReportTypeOK
<1>5. CASE Report
  <2>1. pass.image \in AnyImage
    BY DEF TypeInv, TypeOK, Passes
  <2>2. \A c, b : Phase(c, b) \in Phases
    BY DEF Phase, Phases
  <2>3. currentImage' \in AnyImage
    BY <1>5, <2>1 DEF Report, ReportTypeOK
  <2>4. phase' \in Phases
    <3>1. \/ \E counts \in {PodCounts, listing.counts} : phase' = Phase(counts, currentImage' = pass.image)
          \/ phase' = phase
      BY <1>5, Zenon DEF Report
    <3>2. ASSUME NEW counts, phase' = Phase(counts, currentImage' = pass.image) PROVE phase' \in Phases
      <4>1. Phase(counts, currentImage' = pass.image) \in Phases
        BY <2>2
      <4> QED
        BY <3>2, <4>1, Zenon
    <3>3. phase \in Phases
      BY DEF ReportTypeOK
    <3> QED
      BY <3>1, <3>2, <3>3, Zenon
  <2> QED
    BY <1>2, <1>5, <2>3, <2>4 DEF Report
<1> QED
  BY <1>3, <1>4, <1>5
=============================================================================
