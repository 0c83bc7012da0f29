--------------------------- MODULE FoundingProofs ---------------------------
(***************************************************************************)
(* What holds of a cluster from its founding on, the servers' flags and    *)
(* the status included, for every number of nodes, sizes, images and       *)
(* failures.                                                               *)
(***************************************************************************)
EXTENDS Founding, SettledProofs

(* Types of the composition. *)

(* A step of the composition is a step of the pass, or one that leaves the status alone. *)
LEMMA FoundingReports ==
  ASSUME FoundingTypeOK, [FoundingNext]_everything
  PROVE  List \/ Proceed \/ Report \/ Around
<1>1. (List \/ Proceed \/ Report) \/ UNCHANGED reportVars
  BY Zenon DEF FoundingNext, FoundingPass, RenderTopology, Platform, NodeStarts, Nodes, CommitRoster,
               ReceiveRoster, Admit, KeepVolumes, LoseVolume, everything, allVars
<1>2. (List \/ Proceed \/ Report) \/ Environment \/ UNCHANGED vars \/ \E list \in SUBSET Ordinals : SeedRoster(list)
  <2>1. CASE FoundingPass
    BY <2>1, Zenon DEF FoundingPass, RenderTopology
  <2>2. CASE Platform
    BY <2>2, Zenon DEF Platform, NodeStarts, KeepVolumes, Environment, Kubernetes
  <2>3. CASE CommitRoster
    <3>1. PICK o \in Blank : IF roster = NoRoster THEN SeedRoster(started[o].list) ELSE UNCHANGED vars
      BY <2>3, Zenon DEF CommitRoster
    <3>2. started[o].list \in SUBSET Ordinals
      BY DEF FoundingTypeOK, Starts, Blank
    <3> QED  BY <3>1, <3>2
  <2>4. CASE \E o \in Ordinals : ReceiveRoster(o) \/ Admit(o)
    BY <2>4, Zenon DEF ReceiveRoster, Admit, allVars, Environment, Server
  <2>5. CASE KeepVolumes(Rebalance \/ \E o \in Ordinals : Promote(o) \/ Evict(o))
    BY <2>5, Zenon DEF KeepVolumes, Environment, Server
  <2>6. CASE KeepVolumes(EditSpec \/ CacheCatchesUp \/ \E o \in Ordinals : PodFails(o))
    BY <2>6, Zenon DEF KeepVolumes, Environment
  <2>7. CASE \E o \in Ordinals : LoseVolume(o)
    BY <2>7, Zenon DEF LoseVolume, Environment
  <2>8. CASE UNCHANGED everything
    BY <2>8 DEF everything, allVars
  <2> QED
    BY <2>1, <2>2, <2>3, <2>4, <2>5, <2>6, <2>7, <2>8, Zenon DEF FoundingNext, Nodes
<1> QED
  BY <1>1, <1>2, Zenon DEF Around

(* A step of the composition is a step of module Scaling, but for the list that is committed as
   the first roster: it may have been rendered for a size that is no longer asked for. *)
LEMMA FoundingSteps ==
  ASSUME FoundingTypeOK, [FoundingNext]_everything
  PROVE  [Next]_vars \/ \E list \in SUBSET Ordinals : SeedRoster(list)
BY FoundingReports, Zenon DEF Around, List, Proceed, Report, Next, Pass

(* A node is started with a list of nodes of the cluster. *)
LEMMA EntryTypes ==
  ASSUME TypeInv, FoundingTypeOK
  PROVE  /\ topologyEnv \in [replicas : Sizes \cup {0}, bootstrapSize : Sizes \cup {0}]
         /\ NoStart \in Starts
         /\ \A o \in Ordinals : entrypointScript(o) \in Starts
<1>1. topologyEnv \in [replicas : Sizes \cup {0}, bootstrapSize : Sizes \cup {0}]
  BY DEF topologyEnv, PinnedSize, TypeInv, TypeOK
<1>2. NoStart \in Starts
  BY DEF NoStart, Starts
<1>3. ASSUME NEW o \in Ordinals PROVE entrypointScript(o) \in Starts
  <2>1. Peers(o) \cup {o} \in SUBSET Ordinals
    BY DEF Peers
  <2>2. JoinExisting(o) \in BOOLEAN
    BY DEF JoinExisting
  <2> QED
    BY <1>2, <2>1, <2>2, Zenon DEF entrypointScript, Starts
<1> QED
  BY <1>1, <1>2, <1>3

(* Forgetting a list preserves types. *)
LEMMA ForgetTypes ==
  ASSUME FoundingTypeOK, NEW disks, Forget(disks), NoStart \in Starts
  PROVE  started' \in [Ordinals -> Starts]
BY DEF FoundingTypeOK, Forget

(* So does every step, for the topology, the volumes and the lists. *)
LEMMA EntryTypesKept ==
  ASSUME TypeInv, FoundingTypeOK, FoundingNext
  PROVE  /\ topology' \in [replicas : Sizes \cup {0}, bootstrapSize : Sizes \cup {0}]
         /\ disk' \in [Ordinals -> Disks] /\ started' \in [Ordinals -> Starts] /\ forked' \in BOOLEAN
<1> DEFINE Kept == /\ topology' \in [replicas : Sizes \cup {0}, bootstrapSize : Sizes \cup {0}]
                   /\ disk' \in [Ordinals -> Disks] /\ started' \in [Ordinals -> Starts]
                   /\ forked' \in BOOLEAN
<1>1. CASE RenderTopology
  BY <1>1, EntryTypes DEF RenderTopology, FoundingTypeOK
<1>2. CASE UNCHANGED entryVars
  BY <1>2 DEF entryVars, FoundingTypeOK
<1>3. ASSUME NEW o \in Ordinals, NodeStarts(o) PROVE Kept
  BY <1>3, EntryTypes DEF NodeStarts, FoundingTypeOK, Disks
<1>4. ASSUME Forget(disk), UNCHANGED <<topology, disk, forked>> PROVE Kept
  BY <1>4, ForgetTypes, EntryTypes DEF FoundingTypeOK
<1>5. ASSUME NEW o \in Ordinals, ReceiveRoster(o) \/ Admit(o) \/ LoseVolume(o) PROVE Kept
  <2>1. Forget(disk') /\ UNCHANGED <<topology, forked>> /\ disk' \in [Ordinals -> Disks]
    BY <1>5 DEF ReceiveRoster, Admit, LoseVolume, FoundingTypeOK, Disks
  <2> QED
    BY <2>1, ForgetTypes, EntryTypes DEF FoundingTypeOK
<1>6. CASE CommitRoster
  <2>1. Forget(disk') /\ UNCHANGED topology /\ forked' \in BOOLEAN
    BY <1>6, Zenon DEF CommitRoster, FoundingTypeOK
  <2>2. disk' \in [Ordinals -> Disks]
    BY <1>6 DEF CommitRoster, FoundingTypeOK, Disks
  <2> QED
    BY <2>1, <2>2, ForgetTypes, EntryTypes DEF FoundingTypeOK
<1> HIDE DEF Kept
<1>7. Kept
  BY <1>1, <1>2, <1>3, <1>4, <1>5, <1>6, Zenon
     DEF Kept, FoundingNext, FoundingPass, Platform, Nodes, KeepVolumes
<1> QED
  BY <1>7 DEF Kept

(* Types, those of module Scaling in the form its lemmas take them. *)
FoundingTypes == TypeInv /\ FoundingTypeOK

LEMMA FoundingTypesInit == ReportInit /\ EntryInit => FoundingTypes
<1> SUFFICES ASSUME ReportInit, EntryInit PROVE FoundingTypes
  OBVIOUS
<1>1. TypeInv
  BY TypeInit, Zenon DEF ReportInit
<1>2. ReportTypeOK
  <2>1. NoListing \in Listings
    BY MaxNodesAssumption DEF NoListing, Listings, Counts, NoImages, NoImage, AnyImage
  <2> QED
    BY <1>1, <2>1, Zenon DEF ReportInit, ReportTypeOK, TypeInv, Phases, AnyImage
<1> QED
  BY <1>1, <1>2, Zenon DEF EntryInit, FoundingTypes, FoundingTypeOK, NoStart, Starts, Disks

LEMMA FoundingTypesNext ==
  ASSUME FoundingTypes, [FoundingNext]_everything
  PROVE  FoundingTypes'
<1>1. TypeInv'
  BY FoundingSteps, SeedType, TypePass, TypeAbort, TypeEnvironment, TypeStutter DEF Next, FoundingTypes
<1>2. phase' \in Phases /\ currentImage' \in AnyImage /\ listing' \in Listings
  <2>1. (List \/ Proceed \/ Report) \/ UNCHANGED reportVars
    BY FoundingReports, Zenon DEF Around, FoundingTypes
  <2>2. CASE UNCHANGED reportVars
    BY <2>2 DEF reportVars, FoundingTypes, FoundingTypeOK, ReportTypeOK
  <2> QED
    BY <2>1, <2>2, ReportTypes DEF FoundingTypes, FoundingTypeOK
<1>3. ReportTypeOK'
  BY <1>1, <1>2 DEF ReportTypeOK, TypeInv
<1>4. CASE UNCHANGED everything
  BY <1>1, <1>3, <1>4 DEF everything, entryVars, FoundingTypes, FoundingTypeOK
<1>5. CASE FoundingNext
  BY <1>1, <1>3, <1>5, EntryTypesKept DEF FoundingTypes, FoundingTypeOK
<1> QED
  BY <1>4, <1>5

(* However the operator, the nodes and Kubernetes interleave, the status names a phase and an
   image of the API, counts no more pods than the cluster can have, and no node is started
   with a peer outside the cluster (reconcileStatus, reconcileConfigMap, entrypointScript). *)
THEOREM FoundingIsTyped == FoundingSpec => []FoundingTypeOK
<1>1. FoundingTypes => FoundingTypeOK
  BY DEF FoundingTypes
<1> QED
  BY <1>1, FoundingTypesInit, FoundingTypesNext, PTL DEF FoundingSpec
-----------------------------------------------------------------------------
(* One roster, of a cluster that is founded at one size. *)

(* The nodes whose volumes hold the roster. *)
Holders == {o \in Ordinals : disk[o] = "roster"}

(* No node but a founder ever has a pod or a volume, none was told to leave, and every node
   that waits for a roster was given the list of all founders. *)
OnlyFounders ==
  /\ \A o \in Ordinals : pods[o] # "absent" \/ disk[o] # "empty" => o \in Founders /\ sts.replicas = target
  /\ \A o \in Ordinals : pods[o] # "left"
  /\ topology.replicas \in {0, target}
  /\ \A o \in Ordinals : pods[o] = "up" /\ disk[o] = "used" => started[o].list = Founders

(* A majority of the founders holds the roster that was committed. *)
MajorityHolds ==
  IF roster = NoRoster THEN Holders = {} ELSE Members(roster) = Founders /\ 2 * Cardinality(Holders) > target

RosterInv == FoundingTypes /\ SizeStays /\ OnlyFounders /\ MajorityHolds /\ ~forked

(* No step of the composition brings another size in. *)
LEMMA SizeStaysNext ==
  ASSUME MaxEdits = 0, FoundingTypes, SizeStays, [FoundingNext]_everything
  PROVE  SizeStays' /\ target' = target /\ (sts.replicas = target => sts'.replicas = target)
<1>1. CASE Pass \/ Abort
  BY <1>1, SizeStaysPass DEF FoundingTypes
<1>2. CASE Environment
  BY <1>2, SizeStaysEnvironment DEF FoundingTypes
<1>3. CASE UNCHANGED vars
  BY <1>3 DEF vars, specVars, statusVars, stsVars, passVars, SizeStays
<1>4. ASSUME NEW list \in SUBSET Ordinals, SeedRoster(list)
      PROVE  SizeStays' /\ target' = target /\ sts' = sts
  BY <1>4 DEF SeedRoster, ServerStep, specVars, statusVars, stsVars, passVars, SizeStays
<1> QED
  BY <1>1, <1>2, <1>3, <1>4, FoundingSteps DEF FoundingTypes, Next

(* Two majorities of the founders have a node in common. *)
LEMMA Overlap ==
  ASSUME TypeInv, NEW A \in SUBSET Founders, NEW B \in SUBSET Founders,
         2 * Cardinality(A) > target, 2 * Cardinality(B) > target
  PROVE  A \cap B # {}
<1>1. IsFiniteSet(A) /\ IsFiniteSet(B)
  BY FounderSet, FS_Subset
<1>2. Cardinality(A) \in Nat /\ Cardinality(B) \in Nat
  BY <1>1, FS_CardinalityType
<1>3. Cardinality(A \cup B) = Cardinality(A) + Cardinality(B) - Cardinality(A \cap B)
  BY <1>1, FS_Union
<1>4. Cardinality(A \cup B) <= target
  <2>1. A \cup B \in SUBSET Founders
    OBVIOUS
  <2> QED
    BY <2>1, FounderSet, FS_Subset
<1>5. target \in Nat
  BY FounderSet
<1>6. ASSUME A \cap B = {} PROVE Cardinality(A) + Cardinality(B) <= target
  <2>1. Cardinality(A \cap B) = 0
    BY <1>6, FS_EmptySet
  <2> QED
    BY <1>2, <1>3, <1>4, <2>1
<1> QED
  BY <1>2, <1>5, <1>6

(* A quorum is one of a roster that was committed. *)
LEMMA QuorumHasRoster == ASSUME Quorum PROVE roster # NoRoster
<1> SUFFICES ASSUME roster = NoRoster PROVE FALSE
  OBVIOUS
<1>1. Voters(roster) = {}
  BY DEF Voters, NoRoster
<1>2. {o \in Voters(roster) : pods[o] = "up" /\ o < MaxNodes} = {}
  BY <1>1
<1>3. 2 * Cardinality({}) > Cardinality({})
  BY <1>1, <1>2 DEF Quorum, Serving
<1> QED
  BY <1>3, FS_EmptySet

(* The volumes that hold the roster are the founders', and there is one. *)
LEMMA HoldersAre ==
  ASSUME RosterInv
  PROVE  Holders \subseteq Founders /\ (roster # NoRoster => sts.replicas = target)
<1>1. Holders \subseteq Founders
  BY DEF RosterInv, OnlyFounders, Holders
<1>2. ASSUME roster # NoRoster PROVE sts.replicas = target
  <2>1. 2 * Cardinality(Holders) > target /\ target \in Nat
    BY <1>2, FounderSet DEF RosterInv, MajorityHolds, FoundingTypes
  <2>2. Holders # {}
    BY <2>1, FS_EmptySet
  <2> QED
    BY <2>2 DEF RosterInv, OnlyFounders, Holders
<1> QED
  BY <1>1, <1>2

(* What neither writes a volume nor changes the roster, nor starts a node, keeps the invariant. *)
LEMMA QuietStep ==
  ASSUME RosterInv, FoundingTypes', SizeStays', target' = target, sts.replicas = target => sts'.replicas = target,
         UNCHANGED <<roster, disk, forked>>, topology'.replicas \in {0, target},
         \A o \in Ordinals :
           /\ pods'[o] # "left" /\ (pods'[o] # "absent" => o \in Founders /\ sts'.replicas = target)
           /\ pods'[o] = "up" /\ disk[o] # "roster" => pods[o] = "up" /\ started'[o] = started[o]
  PROVE  RosterInv'
<1>1. Founders' = Founders /\ Holders' = Holders
  BY DEF Founders, Holders
<1>2. OnlyFounders'
  BY <1>1 DEF RosterInv, OnlyFounders
<1>3. MajorityHolds'
  BY <1>1 DEF RosterInv, MajorityHolds, Members, NoRoster
<1> QED
  BY <1>2, <1>3 DEF RosterInv

(* A node that goes on waiting for a roster keeps its list. *)
LEMMA ForgetKeeps ==
  ASSUME NEW disks, Forget(disks), NEW o \in Ordinals, pods'[o] = "up", disks[o] # "roster"
  PROVE  started'[o] = started[o]
BY DEF Forget

(* The steps of the pass: the topology and the StatefulSet are written for the requested size. *)
LEMMA RosterPass ==
  ASSUME MaxEdits = 0, RosterInv, FoundingPass
  PROVE  RosterInv'
<1>1. FoundingTypes' /\ SizeStays' /\ target' = target /\ (sts.replicas = target => sts'.replicas = target)
  BY FoundingTypesNext, SizeStaysNext, Zenon DEF RosterInv, FoundingNext
<1>2. Pass \/ Abort
  BY Zenon DEF FoundingPass, RenderTopology, List, Proceed, Report, Pass
<1>3. UNCHANGED <<pods, roster>>
  BY <1>2, SizeStaysPass DEF RosterInv, FoundingTypes
<1>4. UNCHANGED <<disk, started, forked>>
  BY Zenon DEF FoundingPass, RenderTopology, entryVars
<1>5. topology'.replicas \in {0, target}
  BY DEF FoundingPass, RenderTopology, topologyEnv, entryVars, RosterInv, OnlyFounders
<1>6. ASSUME NEW o \in Ordinals
      PROVE  /\ pods'[o] # "left" /\ (pods'[o] # "absent" => o \in Founders /\ sts'.replicas = target)
             /\ pods'[o] = "up" /\ disk[o] # "roster" => pods[o] = "up" /\ started'[o] = started[o]
  BY <1>1, <1>3, <1>4 DEF RosterInv, OnlyFounders
<1> QED
  BY <1>1, <1>3, <1>4, <1>5, <1>6, QuietStep

(* Where the volumes are kept and the roster too, a step may only take pods down, or create
   the founders'. *)
LEMMA RosterKeepVolumes ==
  ASSUME MaxEdits = 0, RosterInv, FoundingNext, Forget(disk), UNCHANGED <<topology, disk, forked, roster>>,
         \A o \in Ordinals :
           /\ pods'[o] # "left"
           /\ pods'[o] # "absent" => pods[o] # "absent" \/ o < sts.replicas
           /\ pods'[o] = "up" => pods[o] = "up"
  PROVE  RosterInv'
<1>1. FoundingTypes' /\ SizeStays' /\ target' = target /\ (sts.replicas = target => sts'.replicas = target)
  BY FoundingTypesNext, SizeStaysNext, Zenon DEF RosterInv
<1>2. topology'.replicas \in {0, target}
  BY DEF RosterInv, OnlyFounders
<1>3. ASSUME NEW o \in Ordinals
      PROVE  /\ pods'[o] # "left" /\ (pods'[o] # "absent" => o \in Founders /\ sts'.replicas = target)
             /\ pods'[o] = "up" /\ disk[o] # "roster" => pods[o] = "up" /\ started'[o] = started[o]
  <2>1. ASSUME o < sts.replicas PROVE o \in Founders /\ sts.replicas = target
    BY <2>1, FounderSet DEF RosterInv, SizeStays, Founders, Ordinals, FoundingTypes
  <2>2. pods[o] # "absent" => o \in Founders /\ sts.replicas = target
    BY DEF RosterInv, OnlyFounders
  <2> QED
    BY <1>1, <2>1, <2>2, ForgetKeeps
<1> QED
  BY <1>1, <1>2, <1>3, QuietStep

(* Kubernetes creates and takes down the pods of founders only. *)
LEMMA RosterPlatform ==
  ASSUME MaxEdits = 0, RosterInv, FoundingNext,
         KeepVolumes(ScalePods \/ FinishRollout \/ \E o \in Ordinals : RollPod(o) \/ PodStops(o))
  PROVE  RosterInv'
<1>1. pods \in [Ordinals -> PodStates] /\ \A o \in Ordinals : pods[o] # "left"
  BY DEF RosterInv, FoundingTypes, TypeInv, TypeOK, OnlyFounders
<1>2. UNCHANGED roster
  BY Zenon DEF KeepVolumes, ScalePods, FinishRollout, RollPod, PodStops, serverVars
<1> DEFINE Falls(o) == /\ pods'[o] # "left"
                       /\ pods'[o] # "absent" => pods[o] # "absent" \/ o < sts.replicas
                       /\ pods'[o] = "up" => pods[o] = "up"
<1>3. ASSUME NEW o \in Ordinals PROVE Falls(o)
  <2>1. CASE ScalePods
    BY <1>1, <2>1 DEF ScalePods, PodsFor
  <2>2. CASE FinishRollout
    BY <1>1, <2>2 DEF FinishRollout, podVars
  <2>3. ASSUME NEW p \in Ordinals, RollPod(p) \/ PodStops(p)
        PROVE  Falls(o)
    <3>1. pods'[o] = pods[o] \/ pods'[o] = "absent" \/ (pods'[o] = "stopping" /\ pods[o] # "absent")
      BY <1>1, <2>3 DEF RollPod, PodStops
    <3> QED
      BY <1>1, <3>1
  <2> HIDE DEF Falls
  <2> QED
    BY <2>1, <2>2, <2>3, Zenon DEF KeepVolumes
<1> QED
  BY <1>2, <1>3, RosterKeepVolumes, Zenon DEF KeepVolumes

(* Upgrades, a cache that catches up, and pods that fail. *)
LEMMA RosterOutside ==
  ASSUME MaxEdits = 0, RosterInv, FoundingNext,
         KeepVolumes(EditSpec \/ CacheCatchesUp \/ \E o \in Ordinals : PodFails(o))
  PROVE  RosterInv'
<1>1. pods \in [Ordinals -> PodStates] /\ \A o \in Ordinals : pods[o] # "left"
  BY Zenon DEF RosterInv, FoundingTypes, TypeInv, TypeOK, OnlyFounders
<1>2. UNCHANGED roster
  BY Zenon DEF KeepVolumes, EditSpec, CacheCatchesUp, PodFails, serverVars
<1> DEFINE Falls(o) == /\ pods'[o] # "left"
                       /\ pods'[o] # "absent" => pods[o] # "absent" \/ o < sts.replicas
                       /\ pods'[o] = "up" => pods[o] = "up"
<1>3. ASSUME NEW o \in Ordinals PROVE Falls(o)
  <2>1. CASE EditSpec \/ CacheCatchesUp
    BY <1>1, <2>1 DEF EditSpec, CacheCatchesUp, podVars
  <2>2. ASSUME NEW p \in Ordinals, PodFails(p)
        PROVE  Falls(o)
    <3>1. pods'[o] = pods[o] \/ (pods'[o] = "pending" /\ pods[o] # "absent")
      BY <1>1, <2>2 DEF PodFails
    <3> QED
      BY <1>1, <3>1
  <2> HIDE DEF Falls
  <2> QED
    BY <2>1, <2>2, Zenon DEF KeepVolumes
<1> QED
  BY <1>2, <1>3, RosterKeepVolumes, Zenon DEF KeepVolumes

(* A node starts: the topology lists every founder. *)
LEMMA RosterStarts ==
  ASSUME MaxEdits = 0, RosterInv, FoundingNext, NEW o \in Ordinals, NodeStarts(o)
  PROVE  RosterInv'
<1>1. FoundingTypes' /\ SizeStays' /\ target' = target /\ (sts.replicas = target => sts'.replicas = target)
  BY FoundingTypesNext, SizeStaysNext, Zenon DEF RosterInv
<1>2. target \in Nat /\ Founders \subseteq Ordinals /\ Founders' = Founders
  BY <1>1, FounderSet DEF RosterInv, FoundingTypes, Founders
<1>3. pods \in [Ordinals -> PodStates] /\ disk \in [Ordinals -> Disks] /\ started \in [Ordinals -> Starts]
  BY DEF RosterInv, FoundingTypes, FoundingTypeOK, TypeInv, TypeOK
<1>4. pods' = [pods EXCEPT ![o] = "up"] /\ pods[o] = "pending"
  BY DEF NodeStarts, PodStarts
<1>5. disk' = [disk EXCEPT ![o] = IF @ = "empty" THEN "used" ELSE @]
  BY DEF NodeStarts
<1>6. o \in Founders /\ sts.replicas = target
  BY <1>4 DEF RosterInv, OnlyFounders
<1>7. topology.replicas = target
  BY DEF RosterInv, OnlyFounders, NodeStarts, ScriptRuns
<1>8. Peers(o) \cup {o} = Founders
  BY <1>2, <1>6, <1>7 DEF Peers, Founders, Ordinals
<1>9. ASSUME NEW p \in Ordinals, pods'[p] = "up", disk'[p] = "used" PROVE started'[p].list = Founders
  <2>1. CASE p = o
    <3>1. disk[o] # "roster"
      BY <1>3, <1>5, <1>9, <2>1
    <3>2. started'[o] = entrypointScript(o)
      BY <1>3 DEF NodeStarts
    <3> QED
      BY <1>8, <2>1, <3>1, <3>2 DEF entrypointScript
  <2>2. CASE p # o
    <3>1. pods[p] = "up" /\ disk[p] = "used" /\ started'[p] = started[p]
      BY <1>3, <1>4, <1>5, <1>9, <2>2 DEF NodeStarts
    <3> QED
      BY <3>1 DEF RosterInv, OnlyFounders
  <2> QED
    BY <2>1, <2>2
<1>10. ASSUME NEW p \in Ordinals
       PROVE  /\ pods'[p] # "left"
              /\ pods'[p] # "absent" \/ disk'[p] # "empty" => p \in Founders /\ sts'.replicas = target
  <2>1. CASE p = o
    BY <1>1, <1>3, <1>4, <1>6, <2>1
  <2>2. CASE p # o
    <3>1. pods'[p] = pods[p] /\ disk'[p] = disk[p]
      BY <1>3, <1>4, <1>5, <2>2
    <3> QED
      BY <1>1, <3>1 DEF RosterInv, OnlyFounders
  <2> QED
    BY <2>1, <2>2
<1>11. UNCHANGED <<topology, forked, roster>>
  BY DEF NodeStarts, PodStarts, serverVars
<1>12. OnlyFounders'
  BY <1>1, <1>2, <1>9, <1>10, <1>11 DEF OnlyFounders, RosterInv
<1>13. Holders' = Holders
  <2>1. ASSUME NEW p \in Ordinals PROVE disk'[p] = "roster" <=> disk[p] = "roster"
    BY <1>3, <1>5
  <2> QED
    BY <2>1 DEF Holders
<1>14. MajorityHolds'
  BY <1>1, <1>2, <1>11, <1>13 DEF RosterInv, MajorityHolds, Members, NoRoster
<1> QED
  BY <1>1, <1>11, <1>12, <1>14 DEF RosterInv

(* A step that gives no node a new list and no other node a pod or a volume. *)
LEMMA FoundersKept ==
  ASSUME MaxEdits = 0, RosterInv, FoundingNext, Forget(disk'), UNCHANGED topology,
         \A p \in Ordinals :
           /\ pods'[p] # "left" /\ (pods'[p] = "up" => pods[p] = "up") /\ (disk'[p] = "used" => disk[p] = "used")
           /\ pods'[p] # "absent" \/ disk'[p] # "empty" => pods[p] # "absent" \/ disk[p] # "empty"
  PROVE  FoundingTypes' /\ SizeStays' /\ OnlyFounders' /\ target' = target /\ Founders' = Founders
<1>1. FoundingTypes' /\ SizeStays' /\ target' = target /\ (sts.replicas = target => sts'.replicas = target)
  BY FoundingTypesNext, SizeStaysNext, Zenon DEF RosterInv
<1>2. Founders' = Founders
  BY <1>1 DEF Founders
<1>3. ASSUME NEW p \in Ordinals, pods'[p] = "up", disk'[p] = "used" PROVE started'[p].list = Founders
  <2>1. started'[p] = started[p]
    BY <1>3, ForgetKeeps, Zenon
  <2>2. started[p].list = Founders
    BY <1>3 DEF RosterInv, OnlyFounders
  <2> QED
    BY <2>1, <2>2
<1>4. ASSUME NEW p \in Ordinals, pods'[p] # "absent" \/ disk'[p] # "empty"
      PROVE  p \in Founders /\ sts'.replicas = target
  BY <1>1, <1>4 DEF RosterInv, OnlyFounders
<1>5. topology'.replicas \in {0, target}
  BY DEF RosterInv, OnlyFounders
<1>6. OnlyFounders'
  BY <1>1, <1>2, <1>3, <1>4, <1>5 DEF OnlyFounders
<1> QED
  BY <1>1, <1>2, <1>6

(* The first roster is the list of the founders, held by a majority of them; no second one can
   be elected beside them. *)
LEMMA RosterCommits ==
  ASSUME MaxEdits = 0, RosterInv, FoundingNext, CommitRoster
  PROVE  RosterInv'
<1>1. PICK o \in Blank, electors \in SUBSET Blank :
        /\ Elects(o, electors)
        /\ IF roster = NoRoster THEN SeedRoster(started[o].list) /\ UNCHANGED forked
                                ELSE forked' = TRUE /\ UNCHANGED vars
        /\ disk' = [p \in Ordinals |-> IF p \in electors THEN "roster" ELSE disk[p]]
        /\ Forget(disk') /\ UNCHANGED topology
  BY Zenon DEF CommitRoster
<1>2. Blank \subseteq Founders /\ started[o].list = Founders
  BY DEF Blank, RosterInv, OnlyFounders
<1>3. target \in Nat /\ target > 0 /\ Founders \subseteq Ordinals /\ Cardinality(Founders) = target
  BY FounderSet DEF RosterInv, FoundingTypes
<1>4. 2 * Cardinality(electors) > target /\ electors \in SUBSET Founders
  BY <1>1, <1>2, <1>3 DEF Elects
<1>5. roster = NoRoster
  <2> SUFFICES ASSUME roster # NoRoster PROVE FALSE
    OBVIOUS
  <2>1. 2 * Cardinality(Holders) > target /\ Holders \in SUBSET Founders
    BY HoldersAre DEF RosterInv, MajorityHolds
  <2>2. Holders \cap electors = {}
    BY DEF Holders, Blank
  <2> QED
    BY <1>4, <2>1, <2>2, Overlap DEF RosterInv, FoundingTypes
<1>6. SeedRoster(Founders) /\ UNCHANGED forked
  BY <1>1, <1>2, <1>5
<1>7. UNCHANGED pods /\ roster' = [p \in Ordinals |-> IF p \in Founders THEN "Voter" ELSE "NotMember"]
  BY <1>6 DEF SeedRoster, ServerStep, podVars
<1>8. FoundingTypes' /\ SizeStays' /\ OnlyFounders' /\ target' = target /\ Founders' = Founders
  <2>1. ASSUME NEW p \in Ordinals
        PROVE  /\ pods'[p] # "left" /\ (pods'[p] = "up" => pods[p] = "up") /\ (disk'[p] = "used" => disk[p] = "used")
               /\ pods'[p] # "absent" \/ disk'[p] # "empty" => pods[p] # "absent" \/ disk[p] # "empty"
    <3>1. pods'[p] = pods[p] /\ pods[p] # "left"
      BY <1>7 DEF RosterInv, OnlyFounders
    <3>2. CASE p \in electors
      BY <1>1, <3>1, <3>2, Zenon DEF Blank
    <3>3. CASE p \notin electors
      BY <1>1, <3>1, <3>3
    <3> QED
      BY <3>2, <3>3
  <2> QED
    BY <1>1, <2>1, FoundersKept
<1>9. Holders' = electors
  <2>1. ASSUME NEW p \in Ordinals PROVE disk[p] # "roster"
    BY <1>5 DEF RosterInv, MajorityHolds, Holders
  <2>2. ASSUME NEW p \in Ordinals PROVE disk'[p] = "roster" <=> p \in electors
    BY <1>1, <2>1
  <2>3. electors \subseteq Ordinals
    BY <1>3, <1>4
  <2> QED
    BY <2>2, <2>3 DEF Holders
<1>10. Members(roster') = Founders
  BY <1>3, <1>7 DEF Members
<1>11. MajorityHolds'
  <2>1. Members(NoRoster) # Founders
    BY <1>3 DEF Members, NoRoster, Founders
  <2> QED
    BY <1>4, <1>8, <1>9, <1>10, <2>1 DEF MajorityHolds
<1> QED
  BY <1>6, <1>8, <1>11 DEF RosterInv

(* A founder that was not among the electors receives the roster. *)
LEMMA RosterReceived ==
  ASSUME MaxEdits = 0, RosterInv, FoundingNext, NEW o \in Ordinals, ReceiveRoster(o)
  PROVE  RosterInv'
<1>1. disk \in [Ordinals -> Disks]
  BY DEF RosterInv, FoundingTypes, FoundingTypeOK
<1>2. UNCHANGED <<pods, roster, forked, topology>> /\ Forget(disk') /\ disk' = [disk EXCEPT ![o] = "roster"]
  BY DEF ReceiveRoster, allVars, vars, podVars, serverVars
<1>3. FoundingTypes' /\ SizeStays' /\ OnlyFounders' /\ target' = target /\ Founders' = Founders
  <2>1. ASSUME NEW p \in Ordinals
        PROVE  /\ pods'[p] # "left" /\ (pods'[p] = "up" => pods[p] = "up") /\ (disk'[p] = "used" => disk[p] = "used")
               /\ pods'[p] # "absent" \/ disk'[p] # "empty" => pods[p] # "absent" \/ disk[p] # "empty"
    <3>1. pods'[p] = pods[p] /\ pods[p] # "left"
      BY <1>2, Zenon DEF RosterInv, OnlyFounders
    <3>2. CASE p = o
      BY <1>1, <1>2, <3>1, <3>2 DEF ReceiveRoster
    <3>3. CASE p # o
      BY <1>1, <1>2, <3>1, <3>3
    <3> QED
      BY <3>2, <3>3
  <2> QED
    BY <1>2, <2>1, FoundersKept
<1>4. roster # NoRoster
  BY QuorumHasRoster DEF ReceiveRoster
<1>5. Holders \subseteq Holders' /\ Holders' \subseteq Ordinals
  BY <1>1, <1>2 DEF Holders
<1>6. Cardinality(Holders) <= Cardinality(Holders') /\ Cardinality(Holders) \in Nat /\ Cardinality(Holders') \in Nat
  <2>1. IsFiniteSet(Holders') /\ Cardinality(Holders') \in Nat
    BY <1>5, SubsetCount, MaxNodesAssumption
  <2>2. Cardinality(Holders) \in Nat
    BY <1>5, SubsetCount, MaxNodesAssumption
  <2> QED
    BY <1>5, <2>1, <2>2, FS_Subset
<1>7. MajorityHolds'
  <2>1. target \in Nat /\ 2 * Cardinality(Holders) > target /\ Members(roster) = Founders
    BY <1>4, FounderSet DEF RosterInv, MajorityHolds, FoundingTypes
  <2>2. 2 * Cardinality(Holders') > target
    BY <1>6, <2>1
  <2> QED
    BY <1>2, <1>3, <1>4, <2>1, <2>2 DEF MajorityHolds
<1> QED
  BY <1>2, <1>3, <1>7 DEF RosterInv

(* Nobody is left to be admitted: every node that runs is a member. *)
LEMMA NoneAdmitted ==
  ASSUME RosterInv, NEW o \in Ordinals, Admit(o)
  PROVE  FALSE
<1>1. pods[o] = "up" /\ roster[o] = "NotMember" /\ roster # NoRoster
  BY QuorumHasRoster DEF Admit, Join
<1>2. o \in Founders /\ Members(roster) = Founders
  BY <1>1 DEF RosterInv, OnlyFounders, MajorityHolds
<1> QED
  BY <1>1, <1>2 DEF Members

(* A server that evicts no node whose pod is slow to come back keeps its members. *)
LEMMA RosterServer ==
  ASSUME MaxEdits = 0, ~SlowRestarts, RosterInv, FoundingNext,
         KeepVolumes(Rebalance \/ \E o \in Ordinals : Promote(o) \/ Evict(o))
  PROVE  RosterInv'
<1>1. UNCHANGED <<pods, topology, disk, forked>> /\ Forget(disk)
  BY Zenon DEF KeepVolumes, Rebalance, Promote, Evict, ServerStep, podVars
<1>2. roster \in Rosters /\ roster # NoRoster
  BY QuorumHasRoster DEF RosterInv, FoundingTypes, TypeInv, TypeOK, KeepVolumes, Rebalance, Promote, Evict
<1>3. Members(roster) = Founders /\ sts.replicas = target /\ target \in Nat /\ target > 0
  BY <1>2, HoldersAre, FounderSet DEF RosterInv, MajorityHolds, FoundingTypes
<1>4. ASSUME NEW o \in Ordinals, Evict(o) PROVE FALSE
  <2>1. o \in Founders
    BY <1>3, <1>4 DEF Evict, Members
  <2> QED
    BY <1>3, <1>4, <2>1 DEF Evict, Founders
<1>5. Members(roster') = Members(roster)
  <2>1. CASE Rebalance
    BY <2>1 DEF Rebalance
  <2>2. ASSUME NEW o \in Ordinals, Promote(o) PROVE Members(roster') = Members(roster)
    <3>1. ASSUME NEW p \in Ordinals PROVE roster'[p] = "NotMember" <=> roster[p] = "NotMember"
      BY <1>2, <2>2 DEF Promote, Rosters
    <3> QED
      BY <3>1 DEF Members
  <2> QED
    BY <1>4, <2>1, <2>2, Zenon DEF KeepVolumes
<1>6. FoundingTypes' /\ SizeStays' /\ OnlyFounders' /\ target' = target /\ Founders' = Founders
  <2>1. Forget(disk')
    BY <1>1 DEF Forget
  <2>2. ASSUME NEW p \in Ordinals
        PROVE  /\ pods'[p] # "left" /\ (pods'[p] = "up" => pods[p] = "up") /\ (disk'[p] = "used" => disk[p] = "used")
               /\ pods'[p] # "absent" \/ disk'[p] # "empty" => pods[p] # "absent" \/ disk[p] # "empty"
    BY <1>1 DEF RosterInv, OnlyFounders
  <2> QED
    BY <1>1, <2>1, <2>2, FoundersKept
<1>7. roster' # NoRoster
  <2>1. Members(NoRoster) # Founders
    BY <1>3, FounderSet DEF Members, NoRoster, Founders, RosterInv, FoundingTypes
  <2> QED
    BY <1>3, <1>5, <2>1
<1>8. Holders' = Holders
  BY <1>1 DEF Holders
<1>9. MajorityHolds'
  BY <1>2, <1>3, <1>5, <1>6, <1>7, <1>8 DEF MajorityHolds, RosterInv
<1> QED
  BY <1>1, <1>6, <1>9 DEF RosterInv

(* Of three founders or more that all hold the roster, a majority is left when one is lost. *)
LEMMA RosterLosesOne ==
  ASSUME MaxEdits = 0, 1 \notin Sizes, RosterInv, FoundingNext, NEW o \in Ordinals, LoseVolume(o)
  PROVE  RosterInv'
<1>1. pods \in [Ordinals -> PodStates] /\ disk \in [Ordinals -> Disks]
  BY DEF RosterInv, FoundingTypes, FoundingTypeOK, TypeInv, TypeOK
<1>2. /\ pods[o] # "absent" /\ pods' = [pods EXCEPT ![o] = "pending"] /\ disk' = [disk EXCEPT ![o] = "empty"]
      /\ Forget(disk') /\ UNCHANGED <<roster, forked, topology>> /\ roster # NoRoster
      /\ \A p \in Members(roster) : disk[p] = "roster"
  BY DEF LoseVolume, PodFails, serverVars
<1>3. FoundingTypes' /\ SizeStays' /\ OnlyFounders' /\ target' = target /\ Founders' = Founders
  <2>1. ASSUME NEW p \in Ordinals
        PROVE  /\ pods'[p] # "left" /\ (pods'[p] = "up" => pods[p] = "up") /\ (disk'[p] = "used" => disk[p] = "used")
               /\ pods'[p] # "absent" \/ disk'[p] # "empty" => pods[p] # "absent" \/ disk[p] # "empty"
    <3>1. CASE p = o
      BY <1>1, <1>2, <3>1
    <3>2. CASE p # o
      <4>1. pods'[p] = pods[p] /\ disk'[p] = disk[p]
        BY <1>1, <1>2, <3>2
      <4>2. pods[p] # "left"
        BY DEF RosterInv, OnlyFounders
      <4> QED
        BY <4>1, <4>2
    <3> QED
      BY <3>1, <3>2
  <2> QED
    BY <1>2, <2>1, FoundersKept
<1>4. target \in Nat /\ target > 2
  BY ScalingAssumption, SizesInRange, MaxNodesAssumption DEF RosterInv, FoundingTypes, TypeInv, TypeOK
<1>5. Members(roster) = Founders /\ Holders = Founders
  <2>1. Members(roster) = Founders
    BY <1>2 DEF RosterInv, MajorityHolds
  <2>2. Founders \subseteq Holders
    BY <1>2, <2>1, FounderSet DEF Holders, RosterInv, FoundingTypes
  <2> QED
    BY <2>1, <2>2, HoldersAre
<1>6. Holders' = Founders \ {o}
  <2>1. ASSUME NEW p \in Ordinals PROVE disk'[p] = "roster" <=> disk[p] = "roster" /\ p # o
    BY <1>1, <1>2
  <2>2. Holders' = Holders \ {o}
    BY <2>1 DEF Holders
  <2> QED
    BY <1>5, <2>2
<1>7. 2 * Cardinality(Holders') > target
  <2>1. IsFiniteSet(Founders) /\ Cardinality(Founders) = target
    BY FounderSet DEF RosterInv, FoundingTypes
  <2>2. Cardinality(Founders \ {o}) \in {target, target - 1}
    BY <2>1, FS_RemoveElement, Zenon
  <2> QED
    BY <1>4, <1>6, <2>2
<1>8. MajorityHolds'
  BY <1>2, <1>3, <1>5, <1>7 DEF MajorityHolds
<1> QED
  BY <1>2, <1>3, <1>8 DEF RosterInv

LEMMA RosterInvInit == ReportInit /\ EntryInit => RosterInv
<1> SUFFICES ASSUME ReportInit, EntryInit PROVE RosterInv
  OBVIOUS
<1>1. FoundingTypes
  BY FoundingTypesInit
<1>2. SizeStays
  BY Zenon DEF ReportInit, Init, SizeStays, NoSts
<1>3. OnlyFounders /\ MajorityHolds /\ ~forked
  BY Zenon DEF ReportInit, Init, EntryInit, OnlyFounders, MajorityHolds, Holders, NoPods
<1> QED
  BY <1>1, <1>2, <1>3 DEF RosterInv

LEMMA RosterInvNext ==
  ASSUME MaxEdits = 0, ~SlowRestarts, 1 \notin Sizes, RosterInv, [FoundingNext]_everything
  PROVE  RosterInv'
<1>1. CASE UNCHANGED everything
  <2>1. UNCHANGED <<target, bootstrapSize, sts, cached, pc, pass, pods, roster>>
    BY <1>1 DEF everything, allVars, vars, specVars, statusVars, stsVars, passVars, podVars, serverVars
  <2>2. UNCHANGED <<topology, disk, started, forked>>
    BY <1>1 DEF everything, entryVars
  <2>3. FoundingTypes'
    BY <1>1, FoundingTypesNext DEF RosterInv
  <2>4. Founders' = Founders /\ Holders' = Holders
    BY <2>1, <2>2 DEF Founders, Holders
  <2> QED
    BY <2>1, <2>2, <2>3, <2>4, Zenon DEF RosterInv, SizeStays, OnlyFounders, MajorityHolds
<1>2. CASE FoundingNext
  BY <1>2, RosterPass, RosterPlatform, RosterOutside, RosterStarts, RosterCommits, RosterReceived,
     NoneAdmitted, RosterServer, RosterLosesOne, Zenon DEF FoundingNext, Platform, Nodes
<1> QED
  BY <1>1, <1>2

(* A cluster that is founded at the size it was first asked for never commits two rosters,
   whichever nodes start, fail, lose their volume or are upgraded meanwhile (the peer list of
   the entrypoint script).  Each assumption is needed: a size edited during the founding hands
   out lists of different length; a founder that is evicted before it received the roster
   waits with its list, and elects another roster with the next founder that loses its volume;
   the only node of a cluster of one is a majority by itself once its volume is lost. *)
THEOREM RosterIsOne ==
  ASSUME MaxEdits = 0, ~SlowRestarts, 1 \notin Sizes
  PROVE  FoundingSpec => []OneRoster
<1>1. RosterInv => OneRoster
  BY DEF RosterInv, OneRoster
<1>2. RosterInv /\ [FoundingNext]_everything => RosterInv'
  BY RosterInvNext
<1> QED
  BY <1>1, <1>2, RosterInvInit, PTL DEF FoundingSpec
-----------------------------------------------------------------------------
(* What the status says of the nodes. *)

(* Both ways in which a report stays true. *)
ImagesKnown ==
  /\ FoundingTypes
  /\ MaxUpgrades = 0 => OneImage
  /\ MaxEdits = 0 => SizeStays /\ ImagesInv

LEMMA ImagesKnownInit == ReportInit /\ EntryInit => ImagesKnown
<1> SUFFICES ASSUME ReportInit, EntryInit PROVE ImagesKnown
  OBVIOUS
<1>1. FoundingTypes
  BY FoundingTypesInit
<1>2. OneImage
  <2>1. /\ sts = NoSts /\ cached = NoSts /\ pc = "idle" /\ pods = NoPods
    BY Zenon DEF ReportInit, Init
  <2>2. ~(NoSts.replicas > 0)
    BY DEF NoSts
  <2>3. \A o \in Ordinals : NoPods[o] = "absent"
    BY DEF NoPods
  <2> QED  BY <2>1, <2>2, <2>3 DEF OneImage
<1>3. SizeStays
  BY DEF ReportInit, Init, SizeStays, NoSts
<1>4. ImagesInv
  BY <1>1, ImagesInit DEF FoundingTypes
<1> QED
  BY <1>1, <1>2, <1>3, <1>4, Zenon DEF ImagesKnown

LEMMA ImagesKnownNext ==
  ASSUME MaxUpgrades = 0 \/ (MaxEdits = 0 /\ MaxUpgrades = 1), ImagesKnown, [FoundingNext]_everything
  PROVE  ImagesKnown'
<1>1. FoundingTypes'
  BY FoundingTypesNext DEF ImagesKnown
<1>2. List \/ Proceed \/ Report \/ Around
  BY FoundingReports DEF ImagesKnown, FoundingTypes
<1>3. (Pass \/ Abort) \/ (Environment \/ UNCHANGED vars \/ \E list \in SUBSET Ordinals : SeedRoster(list))
  BY <1>2, Zenon DEF Around, List, Proceed, Report, Pass
<1>4. MaxUpgrades = 0 => OneImage'
  <2>1. MaxUpgrades = 0 => upgrades = MaxUpgrades
    BY DEF ImagesKnown, FoundingTypes, TypeInv, TypeOK
  <2> QED  BY <1>3, <2>1, OneImagePass, OneImageAround DEF ImagesKnown, FoundingTypes
<1>5. MaxEdits = 0 => SizeStays' /\ ImagesInv'
  BY <1>2, SizeStaysNext, ImagesNext DEF ImagesKnown, FoundingTypes
<1> QED
  BY <1>1, <1>4, <1>5, Zenon DEF ImagesKnown

(* From the first pass on, the status names an image, or says Running anew, only when every running
   node of the StatefulSet has that image, although the pods were listed before the StatefulSet was
   written and read again, through a cache that may lag, and nodes fail and calls fail meanwhile
   (imageRolledOut and imageCurrent in reconcileStatus).  Either the spec edits the size alone, as
   often as it likes, or the image once.  Together they are too much: a node that is added in the
   middle of a rollout is created below the partition, from the old revision, and the image that
   was reported before it is still the one of the spec.  So is an image that is taken back. *)
THEOREM ReportsAreTrue ==
  ASSUME MaxUpgrades = 0 \/ (MaxEdits = 0 /\ MaxUpgrades = 1)
  PROVE  FoundingSpec => ReportIsTrue
<1> DEFINE Told == currentImage' # currentImage \/ phase' = "Running" =>
                     \A o \in 0 .. sts.replicas - 1 : pods[o] \in {"up", "left"} => podImage[o] = currentImage'
<1>1. ImagesKnown /\ [FoundingNext]_everything => ImagesKnown'
  BY ImagesKnownNext
<1>2. ImagesKnown /\ ImagesKnown' /\ [FoundingNext]_everything => [Told]_<<currentImage, phase>>
  <2> SUFFICES ASSUME ImagesKnown, ImagesKnown', [FoundingNext]_everything,
                      currentImage' # currentImage \/ phase' # phase,
                      currentImage' # currentImage \/ phase' = "Running"
               PROVE  \A o \in 0 .. sts.replicas - 1 : pods[o] \in {"up", "left"} => podImage[o] = currentImage'
    OBVIOUS
  <2>1. List \/ Proceed \/ Report \/ Around
    BY FoundingReports DEF ImagesKnown, FoundingTypes
  <2>2. CASE MaxUpgrades = 0
    BY <2>1, <2>2, ReportOneImage DEF ImagesKnown, FoundingTypes
  <2>3. CASE MaxEdits = 0
    BY <2>1, <2>3, ReportAfterUpgrade DEF ImagesKnown, FoundingTypes
  <2> QED  BY <2>2, <2>3
<1> QED
  BY <1>1, <1>2, ImagesKnownInit, PTL DEF FoundingSpec, ReportIsTrue
-----------------------------------------------------------------------------
(* The backup gate. *)

(* What a pass knows of the cluster and has planned for it. *)
PassKnows == FoundingTypes /\ IInv /\ PassFacts /\ PlanOnRoster

(* The first roster may be committed between any two steps of a pass. *)
LEMMA SeedKeepsPass ==
  ASSUME IInv, PassFacts, PlanOnRoster, NEW list \in SUBSET Ordinals, SeedRoster(list)
  PROVE  IInv' /\ PassFacts' /\ PlanOnRoster'
<1>1. /\ UNCHANGED <<pc, pass, sts, cached, fresh, lags, bootstrapped>> /\ Record
  BY Zenon DEF SeedRoster, ServerStep, passVars, stsVars, specVars, statusVars
<1>2. (rosterSeen => rosterSeen') /\ (dataSeen => dataSeen')
  BY <1>1, RecordKeeps
<1>3. TypeInv'
  BY SeedType DEF IInv
<1>4. PassInvariant'
  BY <1>1, <1>2 DEF IInv, PassInvariant, PlannedFromCurrent, PlanIsOneStep, ShrinksAfterLeave, PlanIsGrounded,
                    Departing, HasIP
<1>5. PassFacts' /\ PlanOnRoster'
  BY <1>1, <1>2 DEF PassFacts, PlanOnRoster
<1> QED
  BY <1>3, <1>4, <1>5 DEF IInv

LEMMA PassKnowsNext ==
  ASSUME PassKnows, [FoundingNext]_everything
  PROVE  PassKnows'
<1>1. FoundingTypes'
  BY FoundingTypesNext DEF PassKnows
<1>2. IInv' /\ PassFacts' /\ PlanOnRoster'
  BY FoundingSteps, SeedKeepsPass, InvNext, FactsNext, PlanOnRosterNext DEF PassKnows, FoundingTypes
<1> QED
  BY <1>1, <1>2 DEF PassKnows

(* A pass that resizes a founded cluster lets no backup start, also while nodes of the new size are
   still being admitted to the roster of the old one: the roster it read matches the size it leaves
   and not the size it was asked for (backupBlocked, buildPlan). *)
THEOREM BackupsWaitFromTheStart == ASSUME StaleReads = {FALSE} PROVE FoundingSpec => BackupsAwaitSteps
<1> DEFINE Step == Resizing /\ sts'.replicas # sts.replicas => backupBlocked'
<1>1. ReportInit /\ EntryInit => PassKnows
  BY InvInit, FactsInit, FoundingTypesInit, Zenon DEF ReportInit, Init, PlanOnRoster, PassKnows
<1>2. PassKnows /\ [FoundingNext]_everything => PassKnows'
  BY PassKnowsNext
<1>3. PassKnows /\ [FoundingNext]_everything => [Step]_sts
  <2> SUFFICES ASSUME PassKnows, [FoundingNext]_everything, Resizing, sts' # sts, sts'.replicas # sts.replicas
               PROVE  backupBlocked'
    OBVIOUS
  <2>1. [Next]_vars
    BY FoundingSteps DEF PassKnows, FoundingTypes, SeedRoster, ServerStep, stsVars
  <2> QED  BY <2>1, ResizeBlocksBackup DEF PassKnows
<1> QED
  BY <1>1, <1>2, <1>3, PTL DEF FoundingSpec, BackupsAwaitSteps
=============================================================================
