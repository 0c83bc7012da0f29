--------------------------- MODULE SettledProofs ---------------------------
(***************************************************************************)
(* What holds of a cluster once less is asked of it: when its size is not  *)
(* edited, what the status says of a rollout; when its image is not edited *)
(* any more, that there is one image; and from then on, however the size   *)
(* is edited, that a cluster at rest keeps its quorum.                     *)
(***************************************************************************)
EXTENDS ScalingProofs

(* A cluster whose size is never edited. *)

(* The nodes the first pass creates. *)
Founders == 0 .. target - 1

(* Every size the operator handles is the requested one, or none yet. *)
SizeStays ==
  /\ bootstrapSize \in {0, target}
  /\ sts.replicas \in {0, target} /\ cached.replicas \in {0, target}
  /\ sts.replicas = 0 => cached.replicas = 0
  /\ pc # "idle" => pass.target = target /\ bootstrapSize = target
  /\ pc # "leave" /\ (pc = "write" => pass.plan.replicas = target)

(* There are as many founders as were asked for. *)
LEMMA FounderSet ==
  ASSUME TypeInv
  PROVE  /\ target \in Nat /\ target > 0 /\ Founders \subseteq Ordinals
         /\ IsFiniteSet(Founders) /\ Cardinality(Founders) = target
<1>1. target \in Nat /\ 1 <= target /\ target <= MaxNodes /\ MaxNodes \in Nat
  BY SizesInRange, MaxNodesAssumption DEF TypeInv, TypeOK
<1>2. /\ IsFiniteSet(0 .. target - 1)
      /\ Cardinality(0 .. target - 1) = IF 0 > target - 1 THEN 0 ELSE target - 1 - 0 + 1
  BY <1>1, FS_Interval
<1> QED
  BY <1>1, <1>2 DEF Founders, Ordinals

(* A pass that is asked for the size the cluster has plans that size. *)
LEMMA PlanStays ==
  ASSUME NEW n \in Nat, NEW b, NEW m, NEW p
  PROVE  buildPlan(n, n, b, m, p).replicas = n
BY DEF buildPlan

(* Without an edit of the size, no pass handles another one. *)
LEMMA SizeStaysPass ==
  ASSUME TypeInv, SizeStays, Pass \/ Abort
  PROVE  /\ SizeStays' /\ target' = target /\ UNCHANGED <<pods, roster>>
         /\ sts.replicas = target => sts'.replicas = target
<1> DEFINE Goal == /\ SizeStays' /\ target' = target /\ UNCHANGED <<pods, roster>>
                   /\ sts.replicas = target => sts'.replicas = target
<1> USE DEF specVars, statusVars, stsVars, podVars, serverVars, passVars
<1>0. target \in Nat /\ target > 0
  BY FounderSet
<1>1. CASE Begin
  <2>1. pass'.target = target /\ bootstrapSize' = target
    BY <1>1 DEF Begin, NoPass, PinnedSize, SizeStays
  <2> QED
    BY <1>1, <2>1 DEF Begin, Goto, SizeStays
<1>2. CASE ReadMembership
  <2>1. pass'.target = pass.target
    BY <1>2 DEF ReadMembership, TypeInv, TypeOK, Passes
  <2> QED
    BY <1>2, <2>1 DEF ReadMembership, Goto, SizeStays
<1>3. ASSUME ToStatus PROVE pc' = "status" /\ pass'.target = pass.target
  BY <1>3 DEF ToStatus, Goto, NoPass
<1>4. ASSUME NEW n, NEW q PROVE Desired([replicas |-> n, partition |-> q]).replicas = n
  BY DEF Desired
<1>5. CASE CreateStatefulSet
  <2>1. CASE sts.replicas = 0
    <3>1. sts'.replicas = target /\ cached'.replicas \in {0, target}
      <4>1. sts' = Desired([replicas |-> pass.target, partition |-> 0]) /\ (cached' = cached \/ cached' = sts')
        BY <1>5, <2>1, Zenon DEF CreateStatefulSet
      <4>2. pass.target = target /\ cached.replicas \in {0, target}
        BY <1>5, Zenon DEF CreateStatefulSet, SizeStays
      <4>3. sts'.replicas = target
        BY <1>4, <4>1, <4>2, Zenon
      <4> QED
        BY <4>1, <4>2, <4>3
    <3>2. pc' = "status" /\ pass'.target = target
      BY <1>3, <1>5, <2>1 DEF CreateStatefulSet, SizeStays
    <3> QED
      BY <1>0, <1>5, <3>1, <3>2 DEF CreateStatefulSet, SizeStays
  <2>2. CASE sts.replicas # 0
    BY <1>5, <2>2 DEF CreateStatefulSet, EndPass, SizeStays
  <2> QED
    BY <2>1, <2>2
<1>6. CASE MakePlan
  <2>1. cached.replicas = target /\ pass.target = target
    BY <1>0, <1>6 DEF MakePlan, SizeStays
  <2>2. PICK p : LET plan == buildPlan(target, target, pass.bootstrapped, pass.members, p)
                 IN  /\ pass' = [pass EXCEPT !.current = target, !.plan = plan, !.ready = {},
                                             !.pods = IF plan.replicas < target THEN @ ELSE NoPods]
                     /\ pc' = IF plan.replicas < target THEN "leave" ELSE "write"
    BY <1>6, <2>1, Zenon DEF MakePlan, Goto
  <2>3. buildPlan(target, target, pass.bootstrapped, pass.members, p).replicas = target
    BY <1>0, PlanStays
  <2>4. pc' = "write" /\ pass'.target = target /\ pass'.plan.replicas = target
    BY <1>0, <2>1, <2>2, <2>3 DEF TypeInv, TypeOK, Passes
  <2> QED
    BY <1>6, <2>4 DEF MakePlan, SizeStays
<1>7. CASE decommission
  BY <1>7 DEF decommission, SizeStays
<1>8. CASE WriteStatefulSet
  <2>1. Desired(pass.plan).replicas = target /\ pass.target = target
    BY <1>8 DEF WriteStatefulSet, Desired, SizeStays
  <2>2. CASE Desired(pass.plan) = cached
    BY <1>3, <1>8, <2>1, <2>2 DEF WriteStatefulSet, SizeStays
  <2>3. CASE Desired(pass.plan) # cached /\ fresh
    <3>1. sts'.replicas = target /\ cached'.replicas \in {0, target} /\ ToStatus
      BY <1>8, <2>1, <2>3 DEF WriteStatefulSet, SizeStays
    <3> QED
      BY <1>0, <1>3, <1>8, <2>1, <3>1 DEF WriteStatefulSet, SizeStays
  <2>4. CASE Desired(pass.plan) # cached /\ ~fresh
    BY <1>8, <2>4 DEF WriteStatefulSet, EndPass, SizeStays
  <2> QED
    BY <2>2, <2>3, <2>4
<1>9. CASE reconcileStatus \/ Abort
  BY <1>9 DEF reconcileStatus, Abort, EndPass, SizeStays
<1> QED
  BY <1>1, <1>2, <1>5, <1>6, <1>7, <1>8, <1>9 DEF Pass

(* Nor does the environment bring another size in. *)
LEMMA SizeStaysEnvironment ==
  ASSUME MaxEdits = 0, TypeInv, SizeStays, Environment
  PROVE  SizeStays' /\ target' = target /\ sts' = sts
<1>1. UNCHANGED <<passVars, statusVars, sts, lags>>
  BY TypeEnvironment, Zenon
<1> USE DEF specVars, statusVars, stsVars, podVars, serverVars, passVars
<1>2. UNCHANGED target \/ EditSpec
  BY Zenon DEF Environment, CacheCatchesUp, Kubernetes, Server, ScalePods, FinishRollout, RollPod,
         PodStarts, PodStops, Seed, SeedRoster, Rebalance, Join, Promote, Evict, PodFails, ServerStep
<1>3. target' = target
  BY <1>2 DEF EditSpec, TypeInv, TypeOK
<1>4. UNCHANGED cached \/ CacheCatchesUp
  BY Zenon DEF Environment, EditSpec, Kubernetes, Server, ScalePods, FinishRollout, RollPod,
         PodStarts, PodStops, Seed, SeedRoster, Rebalance, Join, Promote, Evict, PodFails, ServerStep
<1>5. cached' \in {cached, sts}
  BY <1>4 DEF CacheCatchesUp
<1> QED
  BY <1>1, <1>3, <1>5 DEF SizeStays

(* Whichever nodes a server commits as the first roster, the types stay. *)
LEMMA SeedType ==
  ASSUME TypeInv, NEW list \in SUBSET Ordinals, SeedRoster(list)
  PROVE  TypeInv'
<1>1. roster' \in Rosters /\ hosts' \subseteq Ordinals
  BY DEF SeedRoster, Rosters, Roles
<1> QED
  BY <1>1, RecordType
     DEF SeedRoster, ServerStep, TypeInv, TypeOK, specVars, statusVars, stsVars, podVars, passVars
-----------------------------------------------------------------------------
(* What the status says of a rollout, for a cluster whose size is not edited and whose image is
   edited once. *)

(* The rollout has reached every pod of the StatefulSet, and no pod is being replaced. *)
Rolled ==
  /\ sts.replicas > 0 /\ sts.image = image
  /\ \A o \in 0 .. target - 1 : pods[o] \in {"pending", "up", "left"} /\ podImage[o] = image

(* Before the image is edited there is one image. *)
FirstImage ==
  /\ sts.image \in {NoImage, image} /\ revision \in {NoImage, image} /\ currentImage \in {NoImage, image}
  /\ \A o \in Ordinals : podImage[o] \in {NoImage, image} /\ listing.images[o] \in {NoImage, image}
  /\ pc # "idle" => pass.image = image

(* The image of the spec is on no pod before it is in the template, and a pass that read another one
   is over by then. *)
TemplateFirst ==
  /\ \A o \in Ordinals : podImage[o] = image => sts.image = image
  /\ revision = image => sts.image = image
  /\ pc # "idle" =>
       /\ pass.image \in Images /\ pass.generation <= Generation
       /\ pass.generation = Generation => pass.image = image
       /\ pass.image # image => sts.image # image

(* Every pod has an image, and there is none without a StatefulSet. *)
PodsHaveImages ==
  /\ sts.replicas = 0 => pods = NoPods
  /\ sts.replicas > 0 => sts.image # NoImage /\ revision # NoImage
  /\ pc = "write" => sts.replicas > 0
  /\ \A o \in Ordinals : pods[o] # "absent" => podImage[o] # NoImage

(* What was listed and what is reported of the edited image holds of the pods. *)
ReportHolds ==
  /\ (\A o \in 0 .. target - 1 : listing.images[o] = image) => Rolled
  /\ currentImage = image => Rolled

ImagesInv ==
  /\ TemplateFirst /\ PodsHaveImages
  /\ pc = "idle" => listing = NoListing
  /\ upgrades = 0 => FirstImage
  /\ upgrades # 0 => ReportHolds

LEMMA ImagesInit ==
  ASSUME TypeInv, ReportInit
  PROVE  ImagesInv
<1>1. image \in Images /\ image # NoImage
  BY ScalingAssumption DEF TypeInv, TypeOK, NoImage
<1>2. /\ sts.image = NoImage /\ sts.replicas = 0 /\ revision = NoImage /\ currentImage = NoImage
      /\ pods = NoPods /\ podImage = NoImages /\ listing = NoListing /\ pc = "idle" /\ upgrades = 0
  BY DEF ReportInit, Init, NoSts
<1>3. \A o \in Ordinals : podImage[o] = NoImage /\ listing.images[o] = NoImage /\ pods[o] = "absent"
  BY <1>2 DEF NoImages, NoListing, NoPods
<1>4. TemplateFirst
  BY <1>1, <1>2, <1>3 DEF TemplateFirst
<1>5. PodsHaveImages
  <2>1. ~(sts.replicas > 0) /\ pc # "write"
    BY <1>2
  <2> QED  BY <1>2, <1>3, <2>1, Zenon DEF PodsHaveImages
<1>6. FirstImage
  BY <1>2, <1>3 DEF FirstImage
<1> QED
  BY <1>2, <1>4, <1>5, <1>6, Zenon DEF ImagesInv

(* The image of the spec is one, and the nodes asked for are some of the ordinals. *)
LEMMA ImageAsked ==
  ASSUME TypeInv
  PROVE  /\ image \in Images /\ image # NoImage
         /\ target \in Nat /\ target > 0 /\ 0 \in 0 .. target - 1 /\ 0 .. target - 1 \subseteq Ordinals
<1>1. target \in Nat /\ 1 <= target /\ target <= MaxNodes /\ MaxNodes \in Nat
  BY SizesInRange, MaxNodesAssumption DEF TypeInv, TypeOK
<1>2. image \in Images /\ image # NoImage
  BY ScalingAssumption DEF TypeInv, TypeOK, NoImage
<1> QED
  BY <1>1, <1>2 DEF Ordinals

(* Steps that move neither images nor pods nor the pass. *)
LEMMA ImagesStay ==
  ASSUME ImagesInv,
         UNCHANGED <<target, image, edits, upgrades, sts, revision, pods, podImage, pc, pass, listing, currentImage>>
  PROVE  ImagesInv'
  BY DEF ImagesInv, TemplateFirst, PodsHaveImages, FirstImage, ReportHolds, Rolled, Generation

(* What a step of Kubernetes may do to a pod: it gives it the image of the template or of the
   revision, or takes it away, unless the pod is as the template says. *)
PodStep(o) ==
  /\ \/ podImage'[o] \in {podImage[o], NoImage}
     \/ sts.replicas > 0 /\ podImage'[o] \in {revision, sts.image}
  /\ pods'[o] # "absent" => podImage'[o] # NoImage
  /\ o < target /\ pods[o] \in {"pending", "up", "left"} /\ podImage[o] = sts.image =>
       pods'[o] \in {"pending", "up", "left"} /\ podImage'[o] = podImage[o]

LEMMA ImagesOfPods ==
  ASSUME TypeInv, SizeStays, ImagesInv,
         UNCHANGED <<target, image, edits, upgrades, sts, pc, pass, listing, currentImage>>,
         revision' \in {revision, sts.image}, sts.replicas = 0 => revision' = revision /\ pods' = pods,
         \A o \in Ordinals : PodStep(o)
  PROVE  ImagesInv'
<1>1. 0 .. target - 1 \subseteq Ordinals /\ \A o \in 0 .. target - 1 : o < target
  BY SizesInRange, MaxNodesAssumption DEF TypeInv, TypeOK, Ordinals
<1>2. TemplateFirst'
  <2>1. \A o \in Ordinals : podImage'[o] = image => sts.image = image
    BY ScalingAssumption DEF ImagesInv, TemplateFirst, PodStep, TypeInv, TypeOK, NoImage
  <2> QED  BY <2>1 DEF ImagesInv, TemplateFirst, Generation
<1>3. PodsHaveImages'
  BY DEF ImagesInv, PodsHaveImages, PodStep
<1>4. ASSUME upgrades = 0 PROVE FirstImage'
  BY <1>4 DEF ImagesInv, FirstImage, PodStep
<1>5. ASSUME Rolled PROVE Rolled'
  BY <1>1, <1>5 DEF Rolled, PodStep
<1>6. ASSUME upgrades # 0 PROVE ReportHolds'
  BY <1>5, <1>6 DEF ImagesInv, ReportHolds
<1> QED
  BY <1>2, <1>3, <1>4, <1>6 DEF ImagesInv

LEMMA ImagesKubernetes ==
  ASSUME TypeInv, SizeStays, ImagesInv, Kubernetes \/ \E o \in Ordinals : PodFails(o), UNCHANGED reportVars
  PROVE  ImagesInv'
<1> USE DEF specVars, statusVars, stsVars, podVars, serverVars, passVars, reportVars
<1>0. /\ pods \in [Ordinals -> PodStates] /\ podImage \in [Ordinals -> AnyImage]
      /\ sts.replicas \in {0, target} /\ target \in Nat /\ target > 0 /\ Ordinals \subseteq Nat
  BY SizesInRange, MaxNodesAssumption DEF TypeInv, TypeOK, SizeStays, Ordinals
<1>1. UNCHANGED <<target, image, edits, upgrades, sts, pc, pass, listing, currentImage>>
  BY DEF Kubernetes, ScalePods, FinishRollout, RollPod, PodStarts, PodStops, PodFails
<1>a. /\ \A o \in Ordinals : pods[o] # "absent" => podImage[o] # NoImage
      /\ sts.replicas > 0 => sts.image # NoImage /\ revision # NoImage
      /\ sts.replicas = 0 => \A o \in Ordinals : pods[o] = "absent"
  BY DEF ImagesInv, PodsHaveImages, NoPods
<1>2. CASE ScalePods
  <2>1. revision' = revision /\ pods' = PodsFor(sts.replicas) /\ podImage' = ImagesFor(sts.replicas)
        /\ pods # PodsFor(sts.replicas)
    BY <1>2 DEF ScalePods
  <2>2. sts.replicas > 0
    <3>1. ASSUME sts.replicas = 0 PROVE pods = PodsFor(0)
      BY <1>0, <1>a, <3>1 DEF PodsFor
    <3> QED  BY <1>0, <2>1, <3>1
  <2>3. sts.replicas = target
    BY <1>0, <2>2
  <2>4. ASSUME NEW o \in Ordinals PROVE PodStep(o)
    <3>1. CASE o < target /\ pods[o] = "absent"
      BY <1>0, <1>a, <2>1, <2>2, <2>3, <3>1 DEF PodsFor, ImagesFor, PodStep
    <3>2. CASE o < target /\ pods[o] # "absent"
      BY <1>0, <1>a, <2>1, <2>3, <3>2 DEF PodsFor, ImagesFor, PodStep
    <3>3. CASE ~(o < target) /\ pods[o] = "pending"
      BY <1>0, <2>1, <2>3, <3>3 DEF PodsFor, ImagesFor, PodStep
    <3>4. CASE ~(o < target) /\ pods[o] # "pending"
      BY <1>0, <1>a, <2>1, <2>3, <3>4 DEF PodsFor, ImagesFor, PodStep
    <3> QED  BY <3>1, <3>2, <3>3, <3>4
  <2> QED  BY <1>1, <2>1, <2>2, <2>4, ImagesOfPods
<1>3. CASE FinishRollout
  <2>1. revision' = sts.image /\ UNCHANGED <<pods, podImage>> /\ sts.replicas > 0
    BY <1>3 DEF FinishRollout
  <2>2. ASSUME NEW o \in Ordinals PROVE PodStep(o)
    BY <1>a, <2>1 DEF PodStep
  <2> QED  BY <1>1, <2>1, <2>2, ImagesOfPods
<1>4. ASSUME NEW p \in Ordinals, RollPod(p) \/ PodStarts(p) \/ PodStops(p) \/ PodFails(p)
      PROVE  ImagesInv'
  <2>1. revision' = revision /\ pods[p] # "absent"
    BY <1>4 DEF RollPod, PodStarts, PodStops, PodFails
  <2>2. \A o \in Ordinals : o # p => pods'[o] = pods[o] /\ podImage'[o] = podImage[o]
    BY <1>0, <1>4 DEF RollPod, PodStarts, PodStops, PodFails
  <2>3. PodStep(p)
    <3>1. CASE RollPod(p)
      BY <1>0, <1>a, <3>1 DEF RollPod, PodStep
    <3>2. CASE PodStarts(p) \/ PodFails(p)
      BY <1>0, <1>a, <3>2 DEF PodStarts, PodFails, PodStep
    <3>3. CASE PodStops(p)
      BY <1>0, <3>3 DEF PodStops, PodStep
    <3> QED  BY <1>4, <3>1, <3>2, <3>3
  <2>4. ASSUME NEW o \in Ordinals PROVE PodStep(o)
    <3>1. CASE o # p
      BY <1>a, <2>2, <3>1 DEF PodStep
    <3> QED  BY <2>3, <3>1
  <2>5. sts.replicas # 0
    BY <1>a, <2>1
  <2> QED  BY <1>1, <2>1, <2>4, <2>5, ImagesOfPods
<1> QED
  BY <1>2, <1>3, <1>4 DEF Kubernetes

(* Steps of the pass. *)
LEMMA ImagesEdit ==
  ASSUME MaxEdits = 0, MaxUpgrades \in {0, 1}, TypeInv, ImagesInv, EditSpec, UNCHANGED reportVars
  PROVE  ImagesInv'
<1> USE DEF specVars, statusVars, stsVars, podVars, serverVars, passVars, reportVars
<1>1. /\ image' \in Images \ {image} /\ target' = target /\ edits' = edits /\ upgrades = 0 /\ upgrades' = 1
      /\ UNCHANGED <<sts, revision, pods, podImage, pc, pass, listing, currentImage>>
  BY DEF EditSpec, TypeInv, TypeOK
<1>2. image' # NoImage /\ target \in Nat /\ target > 0 /\ 0 \in Ordinals
  <2>1. image' # NoImage
    BY <1>1, ScalingAssumption DEF NoImage
  <2> QED  BY <2>1, ImageAsked
<1>3. FirstImage
  BY <1>1 DEF ImagesInv
<1>4. Generation \in Nat /\ Generation' = Generation + 1 /\ (pc # "idle" => pass.generation \in Nat)
  BY <1>1, ScalingAssumption DEF Generation, TypeInv, TypeOK, Passes
<1>5. pc # "idle" => pass.generation <= Generation' /\ pass.generation # Generation'
  BY <1>4 DEF ImagesInv, TemplateFirst
<1>6. TemplateFirst'
  BY <1>1, <1>2, <1>3, <1>5 DEF ImagesInv, TemplateFirst, FirstImage
<1>7. PodsHaveImages'
  BY <1>1 DEF ImagesInv, PodsHaveImages
<1>8. ReportHolds'
  <2>1. listing.images[0] # image' /\ currentImage # image' /\ 0 \in 0 .. target - 1
    BY <1>1, <1>2, <1>3 DEF FirstImage
  <2> QED  BY <1>1, <2>1 DEF ReportHolds
<1> QED
  BY <1>1, <1>6, <1>7, <1>8 DEF ImagesInv

(* A pass begins with the image of the spec and the pods as they are. *)
LEMMA ImagesList ==
  ASSUME TypeInv, SizeStays, ImagesInv, List
  PROVE  ImagesInv'
<1> USE DEF specVars, statusVars, stsVars, podVars, serverVars, passVars
<1>1. /\ UNCHANGED <<target, image, edits, upgrades, sts, revision, pods, podImage, currentImage>>
      /\ pc' = "roster" /\ pass'.image = image /\ pass'.generation = Generation
  BY DEF List, Begin, Goto, NoPass
<1>2. listing'.images = [o \in Ordinals |-> IF Ready(o) THEN podImage[o] ELSE NoImage]
  BY DEF List
<1>3. /\ image \in Images /\ image # NoImage /\ target \in Nat /\ target > 0
      /\ 0 .. target - 1 \subseteq Ordinals /\ Generation \in Nat /\ 0 \in 0 .. target - 1
  BY ImageAsked, ScalingAssumption, GenerationType DEF TypeInv
<1>4. TemplateFirst'
  <2>1. Generation' = Generation
    BY <1>1 DEF Generation
  <2>2. Generation <= Generation
    BY <1>3
  <2>3. /\ \A o \in Ordinals : podImage[o] = image => sts.image = image
        /\ revision = image => sts.image = image
    BY DEF ImagesInv, TemplateFirst
  <2> QED  BY <1>1, <1>3, <2>1, <2>2, <2>3, Zenon DEF TemplateFirst
<1>5. PodsHaveImages'
  BY <1>1 DEF ImagesInv, PodsHaveImages
<1>6. ASSUME upgrades = 0 PROVE FirstImage'
  BY <1>1, <1>2, <1>6 DEF ImagesInv, FirstImage
<1>7. ASSUME \A o \in 0 .. target - 1 : listing'.images[o] = image PROVE Rolled
  <2>1. \A o \in 0 .. target - 1 : pods[o] = "up" /\ podImage[o] = image
    BY <1>2, <1>3, <1>7 DEF Ready
  <2>2. sts.image = image
    BY <1>3, <2>1 DEF ImagesInv, TemplateFirst
  <2>3. sts.replicas > 0
    <3>1. pods # NoPods
      BY <1>3, <2>1 DEF NoPods
    <3>2. sts.replicas \in {0, target}
      BY DEF SizeStays
    <3> QED  BY <1>3, <3>1, <3>2 DEF ImagesInv, PodsHaveImages
  <2> QED  BY <2>1, <2>2, <2>3 DEF Rolled
<1>8. Rolled' <=> Rolled
  BY <1>1 DEF Rolled
<1>9. ASSUME upgrades # 0 PROVE ReportHolds'
  BY <1>1, <1>7, <1>8, <1>9 DEF ImagesInv, ReportHolds
<1> QED
  BY <1>1, <1>4, <1>5, <1>6, <1>9 DEF ImagesInv

(* A pass goes on with the image it read, or ends; the template takes no other image. *)
LEMMA ImagesOn ==
  ASSUME TypeInv, SizeStays, ImagesInv, pc # "idle",
         UNCHANGED <<target, image, edits, upgrades, pods, podImage>>,
         pc' = "idle" \/ (pass'.image = pass.image /\ pass'.generation = pass.generation),
         pc' = "write" => sts'.replicas > 0,
         listing' = IF pc' = "idle" THEN NoListing ELSE listing,
         \/ UNCHANGED <<sts, revision>>
         \/ /\ sts'.image = pass.image /\ sts'.replicas > 0
            /\ revision' = pass.image \/ (revision' = revision /\ sts.replicas > 0),
         \/ currentImage' = currentImage
         \/ currentImage' = image /\ pass.image = image /\ \A o \in 0 .. target - 1 : listing.images[o] = image
  PROVE  ImagesInv'
<1>1. image \in Images /\ image # NoImage /\ target \in Nat /\ target > 0 /\ 0 \in 0 .. target - 1
      /\ 0 .. target - 1 \subseteq Ordinals
  BY ImageAsked
<1>2. Generation' = Generation
  BY DEF Generation
<1>3. /\ pass.image \in Images /\ pass.image # NoImage /\ pass.generation <= Generation
      /\ pass.generation = Generation => pass.image = image
      /\ pass.image # image => sts.image # image
  BY ScalingAssumption DEF ImagesInv, TemplateFirst, NoImage
<1>4. sts'.image = image => sts.image = image \/ pass.image = image
  OBVIOUS
<1>5. sts.image = image => sts'.image = image
  BY <1>3
<1>6. revision' = image => sts'.image = image
  BY <1>5 DEF ImagesInv, TemplateFirst
<1>7. TemplateFirst'
  <2>1. \A o \in Ordinals : podImage'[o] = image => sts'.image = image
    BY <1>5 DEF ImagesInv, TemplateFirst
  <2>2. pass.image # image => sts'.image # image
    BY <1>3
  <2> QED  BY <1>2, <1>3, <1>6, <2>1, <2>2 DEF TemplateFirst
<1>8. PodsHaveImages'
  <2>1. /\ sts.replicas = 0 => pods = NoPods
        /\ sts.replicas > 0 => sts.image # NoImage /\ revision # NoImage
        /\ \A o \in Ordinals : pods[o] # "absent" => podImage[o] # NoImage
    BY DEF ImagesInv, PodsHaveImages
  <2>2. sts'.replicas = 0 => pods' = NoPods
    BY <2>1
  <2>3. sts'.replicas > 0 => sts'.image # NoImage /\ revision' # NoImage
    BY <1>3, <2>1
  <2> QED  BY <2>1, <2>2, <2>3, Zenon DEF PodsHaveImages
<1>9. NoListing.images = NoImages /\ \A o \in Ordinals : NoImages[o] = NoImage
  BY DEF NoListing, NoImages
<1>10. ASSUME upgrades = 0 PROVE FirstImage'
  BY <1>9, <1>10 DEF ImagesInv, FirstImage
<1>11. ASSUME Rolled PROVE Rolled'
  BY <1>5, <1>11 DEF Rolled
<1>12. ASSUME upgrades # 0 PROVE ReportHolds'
  BY <1>1, <1>9, <1>11, <1>12 DEF ImagesInv, ReportHolds
<1> QED
  BY <1>7, <1>8, <1>10, <1>12 DEF ImagesInv

LEMMA ImagesPass ==
  ASSUME TypeInv, SizeStays, ImagesInv, Proceed \/ Report
  PROVE  ImagesInv'
<1> USE DEF specVars, statusVars, stsVars, podVars, serverVars, passVars
<1>0. /\ target \in Nat /\ target > 0 /\ sts.replicas \in {0, target} /\ cached.replicas \in {0, target}
      /\ pc # "idle" => pass.target = target
  BY FounderSet DEF SizeStays
<1>1. ASSUME ToStatus PROVE pc' = "status" /\ pass'.image = pass.image /\ pass'.generation = pass.generation
  BY <1>1 DEF ToStatus, Goto, NoPass
<1>2. ASSUME NEW plan PROVE Desired(plan).image = pass.image /\ Desired(plan).replicas = plan.replicas
  BY DEF Desired
<1>3. CASE Report
  <2>1. /\ pc = "status" /\ pc' = "idle" /\ listing' = NoListing
        /\ UNCHANGED <<target, image, edits, upgrades, pods, podImage, sts, revision>>
    BY <1>3 DEF Report, reconcileStatus, EndPass
  <2>2. \/ currentImage' = currentImage
        \/ pass.generation = Generation /\ imageRolledOut /\ currentImage' = pass.image
    BY <1>3 DEF Report
  <2>3. pass.generation = Generation => pass.image = image
    BY <2>1 DEF ImagesInv, TemplateFirst
  <2>4. imageRolledOut => \A o \in 0 .. target - 1 : listing.images[o] = pass.image
    BY <1>0 DEF imageRolledOut, SizeReread
  <2> QED  BY <2>1, <2>2, <2>3, <2>4, ImagesOn
<1>4. ASSUME Proceed
      PROVE  /\ listing' = (IF pc' = "idle" THEN NoListing ELSE listing) /\ currentImage' = currentImage
             /\ UNCHANGED <<target, image, edits, upgrades>>
    BY <1>4 DEF Proceed, ReadMembership, CreateStatefulSet, MakePlan, decommission, WriteStatefulSet, Abort
<1>5. ASSUME Proceed, ReadMembership PROVE ImagesInv'
  <2>1. pass'.image = pass.image /\ pass'.generation = pass.generation /\ pc = "roster" /\ pc' = "plan"
        /\ UNCHANGED <<pods, podImage, sts, revision>>
    BY <1>5 DEF ReadMembership, Goto, TypeInv, TypeOK, Passes
  <2> QED  BY <1>4, <1>5, <2>1, ImagesOn
<1>6. ASSUME Proceed, MakePlan PROVE ImagesInv'
  <2>1. pass'.image = pass.image /\ pass'.generation = pass.generation /\ pc = "plan"
        /\ UNCHANGED <<pods, podImage, sts, revision>>
    BY <1>6 DEF MakePlan, Goto, TypeInv, TypeOK, Passes
  <2>2. sts.replicas > 0
    BY <1>0, <1>6 DEF MakePlan, SizeStays
  <2> QED  BY <1>4, <1>6, <2>1, <2>2, ImagesOn
<1>7. ASSUME Proceed, CreateStatefulSet PROVE ImagesInv'
  <2>1. pc = "plan" /\ UNCHANGED <<pods, podImage>>
    BY <1>7 DEF CreateStatefulSet
  <2>2. CASE sts.replicas = 0
    <3>1. /\ sts' = Desired([replicas |-> pass.target, partition |-> 0]) /\ revision' = pass.image /\ ToStatus
      BY <1>7, <2>2, Zenon DEF CreateStatefulSet
    <3>2. sts'.image = pass.image /\ sts'.replicas = target
      BY <1>0, <1>2, <2>1, <3>1
    <3> QED  BY <1>0, <1>1, <1>4, <1>7, <2>1, <3>1, <3>2, ImagesOn
  <2>3. CASE sts.replicas # 0
    <3>1. pc' = "idle" /\ UNCHANGED <<sts, revision>>
      BY <1>7, <2>3 DEF CreateStatefulSet, EndPass
    <3> QED  BY <1>4, <1>7, <2>1, <3>1, ImagesOn
  <2> QED  BY <2>2, <2>3
<1>8. ASSUME Proceed, WriteStatefulSet PROVE ImagesInv'
  <2>1. pc = "write" /\ UNCHANGED <<pods, podImage, revision>> /\ pass.plan.replicas = target /\ sts.replicas > 0
    BY <1>8 DEF WriteStatefulSet, SizeStays, ImagesInv, PodsHaveImages
  <2>2. \/ ToStatus /\ UNCHANGED sts
        \/ ToStatus /\ sts' = Desired(pass.plan)
        \/ pc' = "idle" /\ UNCHANGED sts
    BY <1>8, Zenon DEF WriteStatefulSet, EndPass
  <2>3. sts' = sts \/ (sts'.image = pass.image /\ sts'.replicas = target)
    BY <1>2, <2>1, <2>2
  <2>4. pc' = "idle" \/ (pc' = "status" /\ pass'.image = pass.image /\ pass'.generation = pass.generation)
    BY <1>1, <2>2
  <2> QED  BY <1>0, <1>4, <1>8, <2>1, <2>3, <2>4, ImagesOn
<1>9. ASSUME Proceed, Abort PROVE ImagesInv'
  <2>1. pc # "idle" /\ pc' = "idle" /\ UNCHANGED <<pods, podImage, sts, revision>>
    BY <1>9 DEF Abort, EndPass
  <2> QED  BY <1>4, <1>9, <2>1, ImagesOn
<1>10. ~decommission
  BY DEF decommission, SizeStays
<1> QED
  BY <1>3, <1>5, <1>6, <1>7, <1>8, <1>9, <1>10, Zenon DEF Proceed

(* A step of the platform, of the servers or of the user, whichever list of nodes is committed as
   the first roster. *)
Around ==
  /\ Environment \/ UNCHANGED vars \/ \E list \in SUBSET Ordinals : SeedRoster(list)
  /\ UNCHANGED reportVars

(* Every step keeps what is known of the images. *)
LEMMA ImagesNext ==
  ASSUME MaxEdits = 0, MaxUpgrades \in {0, 1}, TypeInv, SizeStays, ImagesInv, List \/ Proceed \/ Report \/ Around
  PROVE  ImagesInv'
<1> USE DEF specVars, statusVars, stsVars, podVars, serverVars, passVars
<1>1. CASE Around
  <2>1. CASE EditSpec
    BY <1>1, <2>1, ImagesEdit DEF Around
  <2>2. CASE CacheCatchesUp \/ Server \/ UNCHANGED vars \/ \E list \in SUBSET Ordinals : SeedRoster(list)
    <3>1. UNCHANGED <<target, image, edits, upgrades, sts, revision, pods, podImage, pc, pass, listing, currentImage>>
      BY <1>1, <2>2 DEF Around, reportVars, vars, CacheCatchesUp, Server, Seed, SeedRoster, Rebalance, Join,
                       Promote, Evict, ServerStep
    <3> QED  BY <3>1, ImagesStay
  <2>3. CASE Kubernetes \/ \E o \in Ordinals : PodFails(o)
    BY <1>1, <2>3, ImagesKubernetes DEF Around
  <2> QED  BY <1>1, <2>1, <2>2, <2>3, Zenon DEF Around, Environment
<1> QED
  BY <1>1, ImagesList, ImagesPass

(* The image is reported, and the cluster is newly reported Running, by a pass that knows the
   spec as it is; the image it names is then the one of the spec. *)
LEMMA ReportMoves ==
  ASSUME List \/ Proceed \/ Report \/ Around, pc # "idle" /\ pass.generation = Generation => pass.image = image,
         currentImage' # currentImage \/ phase' # phase, currentImage' # currentImage \/ phase' = "Running"
  PROVE  currentImage' = image /\ Report
<1>1. Report /\ pass.generation = Generation
  BY DEF Around, reportVars, List, Proceed, Report
<1>2. pass.image = image
  BY <1>1 DEF Report, reconcileStatus
<1>3. currentImage' = IF imageRolledOut THEN pass.image ELSE currentImage
  BY <1>1, Zenon DEF Report
<1>4. ASSUME currentImage' = currentImage PROVE currentImage' = pass.image
  <2>1. PICK counts : "Running" = Phase(counts, currentImage' = pass.image)
    BY <1>1, <1>4, Zenon DEF Report
  <2>2. ASSUME NEW b \in BOOLEAN, "Running" = Phase(counts, b) PROVE b
    BY <2>2 DEF Phase
  <2> QED  BY <2>1, <2>2
<1> QED
  BY <1>1, <1>2, <1>3, <1>4

(* So every running node has it, when the image was edited once. *)
LEMMA ReportAfterUpgrade ==
  ASSUME TypeInv, SizeStays, ImagesInv, ImagesInv', List \/ Proceed \/ Report \/ Around,
         currentImage' # currentImage \/ phase' # phase, currentImage' # currentImage \/ phase' = "Running"
  PROVE  \A o \in 0 .. sts.replicas - 1 : pods[o] \in {"up", "left"} => podImage[o] = currentImage'
<1>1. currentImage' = image /\ Report
  BY ReportMoves DEF ImagesInv, TemplateFirst
<1>2. UNCHANGED <<image, target, sts, pods, podImage, upgrades>>
  BY <1>1 DEF Report, reconcileStatus, specVars, stsVars, podVars
<1>3. 0 .. sts.replicas - 1 \subseteq 0 .. target - 1 /\ 0 .. target - 1 \subseteq Ordinals
  <2>1. sts.replicas \in {0, target}
    BY DEF SizeStays
  <2> QED  BY <2>1, ImageAsked
<1>4. CASE upgrades = 0
  BY <1>1, <1>2, <1>3, <1>4 DEF ImagesInv, FirstImage, PodsHaveImages
<1>5. CASE upgrades # 0
  BY <1>1, <1>2, <1>3, <1>5 DEF ImagesInv, ReportHolds, Rolled
<1> QED
  BY <1>4, <1>5
-----------------------------------------------------------------------------
(* A cluster whose image is not edited any more, at whatever sizes. *)

(* The template, the revision once there is a StatefulSet, every pass and every pod have the image
   of the spec. *)
OneImage ==
  /\ pc # "idle" => pass.image = image
  /\ sts.replicas > 0 => sts.image = image
  /\ sts.replicas > 0 \/ cached.replicas > 0 \/ pc \in {"leave", "write"} => revision = image
  /\ \A o \in Ordinals : pods[o] # "absent" => podImage[o] = image

LEMMA OneImagePass ==
  ASSUME TypeInv, OneImage, Pass \/ Abort
  PROVE  OneImage'
<1> USE DEF specVars, statusVars, stsVars, podVars, serverVars, passVars
<1>0. /\ sts.replicas \in Nat /\ cached.replicas \in Nat /\ pods \in [Ordinals -> PodStates]
      /\ pass \in Passes /\ image' = image /\ podImage' = podImage
  <2>1. /\ sts.replicas \in Nat /\ cached.replicas \in Nat
        /\ pods \in [Ordinals -> PodStates] /\ pass \in Passes
    BY MaxNodesAssumption DEF TypeInv, TypeOK, StatefulSets
  <2>2. image' = image /\ podImage' = podImage
    BY Zenon DEF Pass, Abort, Begin, ReadMembership, CreateStatefulSet, MakePlan, decommission, NoPodToAsk, Left,
                 HoldAfterLeave, CommitLeave, WriteStatefulSet, reconcileStatus
  <2> QED  BY <2>1, <2>2
<1>1. \A o \in Ordinals : pods'[o] # "absent" => pods[o] # "absent"
  <2>1. UNCHANGED pods \/ (decommission /\ CommitLeave(Departing))
    BY DEF Pass, Abort, Begin, ReadMembership, CreateStatefulSet, MakePlan, decommission, NoPodToAsk, Left,
           HoldAfterLeave, WriteStatefulSet, reconcileStatus
  <2>2. ASSUME CommitLeave(Departing) PROVE \A o \in Ordinals : pods'[o] # "absent" => pods[o] # "absent"
    BY <1>0, <2>2 DEF CommitLeave, CanLeave
  <2> QED  BY <2>1, <2>2
<1>2. ASSUME ToStatus PROVE pc' = "status" /\ pass'.image = pass.image
  BY <1>2 DEF ToStatus, Goto, NoPass
<1>3. ASSUME NEW plan PROVE Desired(plan).image = pass.image
  BY DEF Desired
<1>4. pc' # "idle" => pass'.image = image
  <2>1. CASE Begin
    BY <2>1 DEF Begin, NoPass
  <2>2. CASE ReadMembership \/ MakePlan \/ decommission
    BY <1>0, <2>2 DEF ReadMembership, MakePlan, decommission, NoPodToAsk, Left, HoldAfterLeave, Passes, OneImage
  <2>3. CASE CreateStatefulSet \/ WriteStatefulSet
    BY <1>2, <2>3 DEF CreateStatefulSet, WriteStatefulSet, EndPass, OneImage
  <2>4. CASE reconcileStatus \/ Abort
    BY <2>4 DEF reconcileStatus, Abort, EndPass
  <2> QED  BY <2>1, <2>2, <2>3, <2>4 DEF Pass
<1>5. \/ UNCHANGED <<sts, cached, revision>> /\ pc' \notin {"leave", "write"}
      \/ UNCHANGED <<sts, cached, revision>> /\ revision = image
      \/ sts'.image = image /\ revision' = image
  <2>1. CASE Begin \/ ReadMembership \/ reconcileStatus \/ Abort
    BY <2>1 DEF Begin, ReadMembership, reconcileStatus, Abort, EndPass, Goto
  <2>2. CASE MakePlan \/ decommission
    BY <2>2 DEF MakePlan, decommission, OneImage
  <2>3. CASE CreateStatefulSet
    <3>1. pass.image = image
      BY <2>3 DEF CreateStatefulSet, OneImage
    <3>2. CASE sts.replicas = 0
      BY <1>3, <2>3, <3>1, <3>2 DEF CreateStatefulSet
    <3>3. CASE sts.replicas # 0
      BY <2>3, <3>3 DEF CreateStatefulSet, EndPass
    <3> QED  BY <3>2, <3>3
  <2>4. CASE WriteStatefulSet
    <3>1. pass.image = image /\ revision = image /\ revision' = revision
      BY <2>4 DEF WriteStatefulSet, OneImage
    <3>2. UNCHANGED <<sts, cached>> \/ sts' = Desired(pass.plan)
      BY <2>4, Zenon DEF WriteStatefulSet
    <3> QED  BY <1>3, <3>1, <3>2
  <2> QED  BY <2>1, <2>2, <2>3, <2>4 DEF Pass
<1> QED
  BY <1>0, <1>1, <1>4, <1>5 DEF OneImage

LEMMA OneImageAround ==
  ASSUME upgrades = MaxUpgrades, TypeInv, OneImage,
         Environment \/ UNCHANGED vars \/ \E list \in SUBSET Ordinals : SeedRoster(list)
  PROVE  OneImage'
<1> USE DEF specVars, statusVars, stsVars, podVars, serverVars, passVars
<1>0. /\ sts.replicas \in Nat /\ Ordinals \subseteq Nat /\ upgrades \in Nat
      /\ pods \in [Ordinals -> PodStates] /\ podImage \in [Ordinals -> AnyImage]
  BY MaxNodesAssumption, ScalingAssumption DEF TypeInv, TypeOK, StatefulSets, Ordinals
<1>1. CASE EditSpec
  <2>1. UNCHANGED <<image, sts, cached, revision, pods, podImage, pc, pass>>
    BY <1>0, <1>1 DEF EditSpec
  <2> QED  BY <2>1 DEF OneImage
<1>2. CASE CacheCatchesUp
  <2>1. UNCHANGED <<image, sts, revision, pods, podImage, pc, pass>> /\ cached' = sts
    BY <1>2 DEF CacheCatchesUp
  <2> QED  BY <2>1 DEF OneImage
<1>3. CASE Server \/ UNCHANGED vars \/ \E list \in SUBSET Ordinals : SeedRoster(list)
  <2>1. UNCHANGED <<image, sts, cached, revision, pods, podImage, pc, pass>>
    BY <1>3 DEF vars, Server, Seed, SeedRoster, Rebalance, Join, Promote, Evict, ServerStep
  <2> QED  BY <2>1 DEF OneImage
<1>4. CASE FinishRollout
  <2>1. UNCHANGED <<image, sts, cached, pods, podImage, pc, pass>> /\ revision' = sts.image /\ sts.replicas > 0
    BY <1>4 DEF FinishRollout
  <2> QED  BY <2>1 DEF OneImage
<1>5. CASE ScalePods \/ \E o \in Ordinals : RollPod(o) \/ PodStarts(o) \/ PodStops(o) \/ PodFails(o)
  <2>1. UNCHANGED <<image, sts, cached, revision, pc, pass>>
    BY <1>5 DEF ScalePods, RollPod, PodStarts, PodStops, PodFails
  <2>2. ASSUME NEW o \in Ordinals, pods'[o] # "absent" PROVE podImage'[o] = image
    <3>1. CASE ScalePods
      <4>1. pods' = PodsFor(sts.replicas) /\ podImage' = ImagesFor(sts.replicas)
        BY <3>1 DEF ScalePods
      <4>2. CASE o < sts.replicas /\ pods[o] = "absent"
        <5>1. podImage'[o] \in {revision, sts.image}
          BY <1>0, <4>1, <4>2 DEF ImagesFor
        <5>2. sts.replicas > 0
          BY <1>0, <4>2
        <5> QED  BY <5>1, <5>2 DEF OneImage
      <4>3. CASE ~(o < sts.replicas /\ pods[o] = "absent")
        <5>1. pods[o] # "absent" /\ ~(o >= sts.replicas /\ pods[o] = "pending")
          BY <1>0, <2>2, <4>1, <4>3 DEF PodsFor
        <5>2. podImage'[o] = podImage[o]
          BY <1>0, <4>1, <5>1 DEF ImagesFor
        <5> QED  BY <5>1, <5>2 DEF OneImage
      <4> QED  BY <4>2, <4>3
    <3>2. ASSUME NEW p \in Ordinals, RollPod(p) \/ PodStarts(p) \/ PodStops(p) \/ PodFails(p)
          PROVE  podImage'[o] = podImage[o] /\ pods[o] # "absent"
      BY <1>0, <2>2, <3>2 DEF RollPod, PodStarts, PodStops, PodFails
    <3> QED  BY <1>5, <3>1, <3>2 DEF OneImage
  <2> QED  BY <2>1, <2>2 DEF OneImage
<1> QED
  BY <1>1, <1>2, <1>3, <1>4, <1>5, Zenon DEF Environment, Kubernetes

(* What a pass reports then holds of every node. *)
LEMMA ReportOneImage ==
  ASSUME TypeInv, OneImage, List \/ Proceed \/ Report \/ Around,
         currentImage' # currentImage \/ phase' # phase, currentImage' # currentImage \/ phase' = "Running"
  PROVE  \A o \in 0 .. sts.replicas - 1 : pods[o] \in {"up", "left"} => podImage[o] = currentImage'
<1>1. currentImage' = image
  BY ReportMoves DEF OneImage
<1>2. 0 .. sts.replicas - 1 \subseteq Ordinals
  BY MaxNodesAssumption DEF TypeInv, TypeOK, StatefulSets, Ordinals
<1> QED
  BY <1>1, <1>2 DEF OneImage
-----------------------------------------------------------------------------
(* The quorum of a cluster that came to rest. *)

(* The cluster is founded and whole: every node of the StatefulSet runs and votes, nobody else does
   or will, the last upgrade is over, and no pass is under way. *)
AtRest ==
  /\ bootstrapped /\ pc = "idle" /\ sts.replicas >= 3 /\ RosterQuiet
  /\ \A o \in Ordinals : IF o < sts.replicas THEN pods[o] = "up" ELSE pods[o] \notin {"pending", "up"}
  /\ upgrades = MaxUpgrades /\ sts.image = image /\ revision = image
  /\ \A o \in Ordinals : pods[o] # "absent" => podImage[o] = image

Whole == \A o \in Ordinals : IF o < sts.replicas THEN Ready(o) ELSE roster[o] = "NotMember"

(* A node the StatefulSet no longer has joins nothing any more. *)
Gone(o) == pods[o] # "pending" /\ roster[o] # "Learner" /\ (pods[o] = "up" => roster[o] = "Voter")

(* The top node, asked to leave or not. *)
Leaving(o) == Ready(o) \/ (pods[o] = "left" /\ roster[o] = "NotMember")

(* All nodes but the top one serve, the top one runs if it is a member, and of the nodes above the
   StatefulSet at most the first is still a member. *)
NodesSteady ==
  \A o \in Ordinals :
    /\ o < sts.replicas - 1 => Ready(o)
    /\ o < sts.replicas /\ roster[o] # "NotMember" => pods[o] = "up"
    /\ o >= sts.replicas => Gone(o) /\ (roster[o] # "NotMember" => o = sts.replicas)

(* A pass that read a roster that matches acts on a whole cluster, up to the leave of this pass. *)
PassSteady ==
  /\ pc # "idle" => pass.bootstrapped /\ pass.target \in Sizes
  /\ pc = "roster" => ~pass.members.known
  /\ pc = "leave" => pass.plan.replicas < pass.current
  /\ pc \in {"plan", "leave"} /\ rosterMatches(pass.members, sts.replicas) => Whole
  /\ pc = "write" /\ pass.plan.replicas > sts.replicas => Whole
  /\ pc = "write" /\ pass.plan.replicas < sts.replicas =>
       /\ \A o \in Ordinals : o = sts.replicas - 1 => Leaving(o)
       /\ \A o \in Ordinals : o >= sts.replicas => roster[o] = "NotMember"

Steady ==
  /\ bootstrapped /\ sts.replicas >= 3 /\ upgrades = MaxUpgrades
  /\ OneImage /\ NodesSteady /\ PassSteady

LEMMA RestIsSteady ==
  ASSUME StaleReads = {FALSE}, IInv, AtRest
  PROVE  Steady
<1>1. sts.replicas \in Nat /\ Ordinals \subseteq Nat /\ cached = sts
  BY MaxNodesAssumption DEF IInv, TypeInv, TypeOK, StatefulSets, Ordinals, PassInvariant, PlannedFromCurrent
<1>2. \A o \in Ordinals : (o < sts.replicas => roster[o] = "Voter") /\ (o >= sts.replicas => roster[o] = "NotMember")
  <2>1. Members(roster) = 0 .. sts.replicas - 1 /\ Voters(roster) = Members(roster)
    BY DEF AtRest, RosterQuiet
  <2> SUFFICES ASSUME NEW o \in Ordinals
               PROVE  (o < sts.replicas => roster[o] = "Voter") /\ (o >= sts.replicas => roster[o] = "NotMember")
    OBVIOUS
  <2>2. o \in Nat /\ (o \in 0 .. sts.replicas - 1 <=> o < sts.replicas)
    BY <1>1
  <2>3. CASE o < sts.replicas
    BY <1>1, <2>1, <2>2, <2>3 DEF Voters
  <2>4. CASE ~(o < sts.replicas)
    <3>1. roster[o] = "NotMember"
      BY <2>1, <2>2, <2>4 DEF Members
    <3> QED  BY <2>4, <3>1
  <2> QED  BY <2>3, <2>4
<1>3. NodesSteady
  <2> SUFFICES ASSUME NEW o \in Ordinals
               PROVE  /\ o < sts.replicas - 1 => Ready(o)
                      /\ o < sts.replicas /\ roster[o] # "NotMember" => pods[o] = "up"
                      /\ o >= sts.replicas => Gone(o) /\ (roster[o] # "NotMember" => o = sts.replicas)
    BY DEF NodesSteady
  <2>1. o \in Nat
    BY <1>1
  <2>2. CASE o < sts.replicas
    <3>1. pods[o] = "up" /\ roster[o] = "Voter"
      BY <1>2, <2>2 DEF AtRest
    <3> QED  BY <1>1, <2>1, <2>2, <3>1 DEF Ready
  <2>3. CASE ~(o < sts.replicas)
    <3>1. o >= sts.replicas /\ ~(o < sts.replicas - 1)
      BY <1>1, <2>1, <2>3
    <3>2. pods[o] \notin {"pending", "up"} /\ roster[o] = "NotMember"
      BY <1>2, <2>3, <3>1 DEF AtRest
    <3> QED  BY <2>3, <3>1, <3>2 DEF Gone
  <2> QED  BY <2>2, <2>3
<1>4. OneImage
  BY <1>1 DEF AtRest, OneImage
<1> QED
  BY <1>3, <1>4 DEF AtRest, Steady, PassSteady

(* A majority of the voters of a steady cluster runs on pods it retains. *)
LEMMA SteadyHasQuorum ==
  ASSUME TypeInv, Steady
  PROVE  QuorumAhead
<1> DEFINE n == sts.replicas
           A == {o \in Voters(roster) : pods[o] = "up" /\ o < n}
<1>1. /\ n \in Nat /\ n >= 3 /\ n <= MaxNodes /\ MaxNodes \in Nat
      /\ 0 \in Ordinals /\ 1 \in Ordinals /\ Ordinals \subseteq Nat
  BY MaxNodesAssumption DEF TypeInv, TypeOK, StatefulSets, Ordinals, Steady
<1>2. 0 \in A /\ 1 \in A
  <2>1. Ready(0) /\ Ready(1)
    BY <1>1 DEF Steady, NodesSteady
  <2> QED  BY <1>1, <2>1 DEF Ready, Voters
<1>3. Voters(roster) \subseteq A \cup {n}
  <2> SUFFICES ASSUME NEW o \in Ordinals, roster[o] = "Voter" PROVE o \in A \cup {n}
    BY DEF Voters
  <2>1. o < n => pods[o] = "up"
    BY DEF Steady, NodesSteady
  <2>2. o >= n => o = n
    BY DEF Steady, NodesSteady
  <2> QED  BY <1>1, <2>1, <2>2 DEF Voters
<1>4. IsFiniteSet(Ordinals) /\ A \subseteq Ordinals
  BY MaxNodesAssumption, FS_Interval DEF Ordinals, Voters
<1>5. IsFiniteSet(A)
  BY <1>4, FS_Subset
<1>6. Cardinality(A) \in Nat /\ Cardinality(A) >= 2
  <2>1. {0, 1} \subseteq A
    BY <1>2
  <2>2. Cardinality({0}) = 1 /\ IsFiniteSet({0})
    BY FS_Singleton, Zenon
  <2>3. {0, 1} = {0} \cup {1} /\ 1 \notin {0}
    OBVIOUS
  <2>4. Cardinality({0, 1}) = 2
    BY <2>2, <2>3, FS_AddElement
  <2>5. Cardinality({0, 1}) <= Cardinality(A)
    BY <1>5, <2>1, FS_Subset
  <2>6. Cardinality(A) \in Nat
    BY <1>5, FS_CardinalityType
  <2> QED  BY <2>4, <2>5, <2>6
<1>7. IsFiniteSet(A \cup {n}) /\ Cardinality(A \cup {n}) \in Nat /\ Cardinality(A \cup {n}) <= Cardinality(A) + 1
  <2>1. /\ IsFiniteSet(A \cup {n})
        /\ Cardinality(A \cup {n}) = IF n \in A THEN Cardinality(A) ELSE Cardinality(A) + 1
    BY <1>5, FS_AddElement, Zenon
  <2>2. PICK c \in Nat : c = Cardinality(A)
    BY <1>6
  <2>3. Cardinality(A \cup {n}) = c \/ Cardinality(A \cup {n}) = c + 1
    BY <2>1, <2>2, Zenon
  <2>4. Cardinality(A \cup {n}) \in Nat /\ Cardinality(A \cup {n}) <= c + 1
    BY <2>2, <2>3
  <2> QED  BY <2>1, <2>2, <2>4, Zenon
<1>8. Cardinality(Voters(roster)) <= Cardinality(A \cup {n}) /\ Cardinality(Voters(roster)) \in Nat
  BY <1>3, <1>7, FS_Subset, FS_CardinalityType
<1> QED
  BY <1>6, <1>7, <1>8 DEF QuorumAhead, Serving

(* What a step of the environment leaves of a node. *)
NodeKeeps(o) ==
  /\ o < sts.replicas /\ Leaving(o) => pods'[o] = pods[o] /\ roster'[o] = roster[o]
  /\ o < sts.replicas /\ (roster[o] # "NotMember" => pods[o] = "up") => (roster'[o] # "NotMember" => pods'[o] = "up")
  /\ o >= sts.replicas /\ Gone(o) => Gone(o)' /\ (roster[o] = "NotMember" => roster'[o] = "NotMember")

LEMMA SteadyKept ==
  ASSUME TypeInv, Steady, OneImage', UNCHANGED <<sts, pc, pass, bootstrapped, upgrades>>,
         \A o \in Ordinals : NodeKeeps(o)
  PROVE  Steady'
<1>1. sts.replicas \in Nat /\ Ordinals \subseteq Nat
  BY MaxNodesAssumption DEF TypeInv, TypeOK, StatefulSets, Ordinals
<1>2. \A o \in Ordinals : o < sts.replicas /\ Ready(o) => Ready(o)'
  BY DEF NodeKeeps, Leaving, Ready
<1>3. \A o \in Ordinals : o < sts.replicas /\ Leaving(o) => Leaving(o)'
  BY DEF NodeKeeps, Leaving, Ready
<1>4. \A o \in Ordinals : o >= sts.replicas /\ roster[o] = "NotMember" => roster'[o] = "NotMember"
  BY DEF Steady, NodesSteady, NodeKeeps
<1>5. NodesSteady'
  <2> SUFFICES ASSUME NEW o \in Ordinals
               PROVE  /\ o < sts.replicas - 1 => Ready(o)'
                      /\ o < sts.replicas /\ roster'[o] # "NotMember" => pods'[o] = "up"
                      /\ o >= sts.replicas => Gone(o)' /\ (roster'[o] # "NotMember" => o = sts.replicas)
    BY DEF NodesSteady
  <2>1. o < sts.replicas - 1 => Ready(o)'
    BY <1>1, <1>2 DEF Steady, NodesSteady
  <2>2. o < sts.replicas /\ roster'[o] # "NotMember" => pods'[o] = "up"
    BY DEF Steady, NodesSteady, NodeKeeps
  <2>3. o >= sts.replicas => Gone(o)' /\ (roster'[o] # "NotMember" => o = sts.replicas)
    BY <1>4 DEF Steady, NodesSteady, NodeKeeps
  <2> QED  BY <2>1, <2>2, <2>3
<1>6. Whole => Whole'
  <2> SUFFICES ASSUME Whole, NEW o \in Ordinals
               PROVE  IF o < sts.replicas THEN Ready(o)' ELSE roster'[o] = "NotMember"
    BY DEF Whole
  <2>1. CASE o < sts.replicas
    BY <1>2, <2>1 DEF Whole
  <2>2. CASE ~(o < sts.replicas)
    BY <1>1, <1>4, <2>2 DEF Whole
  <2> QED  BY <2>1, <2>2
<1>7. PassSteady'
  <2>1. rosterMatches(pass.members, sts.replicas)' <=> rosterMatches(pass.members, sts.replicas)
    BY DEF rosterMatches
  <2>2. ASSUME \A o \in Ordinals : o = sts.replicas - 1 => Leaving(o)
        PROVE  \A o \in Ordinals : o = sts.replicas - 1 => Leaving(o)'
    <3>1. \A o \in Ordinals : o = sts.replicas - 1 => o < sts.replicas
      BY <1>1
    <3> QED  BY <1>3, <2>2, <3>1, Zenon
  <2>3. PassSteady
    BY DEF Steady
  <2>4. /\ pc # "idle" => pass.bootstrapped /\ pass.target \in Sizes
        /\ pc = "roster" => ~pass.members.known
        /\ pc = "leave" => pass.plan.replicas < pass.current
    BY <2>3, Zenon DEF PassSteady
  <2>5. /\ pc \in {"plan", "leave"} /\ rosterMatches(pass.members, sts.replicas)' => Whole'
        /\ pc = "write" /\ pass.plan.replicas > sts.replicas => Whole'
    BY <1>6, <2>1, <2>3 DEF PassSteady
  <2>6. pc = "write" /\ pass.plan.replicas < sts.replicas =>
          /\ \A o \in Ordinals : o = sts.replicas - 1 => Leaving(o)'
          /\ \A o \in Ordinals : o >= sts.replicas => roster'[o] = "NotMember"
    BY <1>4, <2>2, <2>3 DEF PassSteady
  <2> QED  BY <2>4, <2>5, <2>6 DEF PassSteady
<1> QED
  BY <1>5, <1>7 DEF Steady

(* No step of Kubernetes, of the servers or of the user unsettles the cluster. *)
LEMMA SteadyEnvironment ==
  ASSUME "pod" \notin Faults, TypeInv, Steady, Environment
  PROVE  Steady'
<1> USE DEF specVars, statusVars, stsVars, podVars, serverVars, passVars
<1>1. UNCHANGED <<sts, pc, pass, bootstrapped>>
  BY TypeEnvironment
<1>2. OneImage'
  BY OneImageAround DEF Steady
<1>3. /\ pods \in [Ordinals -> PodStates] /\ roster \in [Ordinals -> Roles]
      /\ sts.replicas \in Nat /\ sts.replicas >= 3 /\ Ordinals \subseteq Nat /\ 0 \in Ordinals
      /\ upgrades = MaxUpgrades /\ MaxUpgrades \in Nat
  <2>1. /\ pods \in [Ordinals -> PodStates] /\ roster \in [Ordinals -> Roles]
        /\ sts.replicas \in Nat /\ upgrades \in Nat
    BY MaxNodesAssumption, ScalingAssumption DEF TypeInv, TypeOK, StatefulSets, Rosters
  <2>2. Ordinals \subseteq Nat /\ 0 \in Ordinals
    BY MaxNodesAssumption DEF Ordinals
  <2>3. sts.replicas >= 3 /\ upgrades = MaxUpgrades
    BY DEF Steady
  <2> QED  BY <2>1, <2>2, <2>3
<1>4. ASSUME upgrades' = upgrades, \A o \in Ordinals : NodeKeeps(o) PROVE Steady'
  BY <1>1, <1>2, <1>4, SteadyKept
<1>5. ASSUME UNCHANGED <<upgrades, pods, roster>> PROVE Steady'
  <2>1. \A o \in Ordinals : NodeKeeps(o)
    BY <1>1, <1>5 DEF NodeKeeps, Gone
  <2> QED  BY <1>4, <1>5, <2>1
<1>6. CASE EditSpec \/ CacheCatchesUp \/ FinishRollout \/ Rebalance
  <2>1. ~(upgrades < MaxUpgrades)
    BY <1>3
  <2>2. CASE EditSpec
    BY <1>5, <2>1, <2>2 DEF EditSpec
  <2>3. CASE CacheCatchesUp
    BY <1>5, <2>3 DEF CacheCatchesUp
  <2>4. CASE FinishRollout
    BY <1>5, <2>4 DEF FinishRollout
  <2>5. CASE Rebalance
    BY <1>5, <2>5 DEF Rebalance, ServerStep
  <2> QED  BY <1>6, <2>2, <2>3, <2>4, <2>5
<1>7. ~Seed
  <2>1. Ready(0)
    BY <1>3 DEF Steady, NodesSteady
  <2>2. roster # NoRoster
    BY <1>3, <2>1 DEF Ready, NoRoster
  <2> QED  BY <2>2, Zenon DEF Seed, SeedRoster
<1>8. ASSUME NEW p \in Ordinals PROVE ~RollPod(p) /\ ~PodFails(p)
  <2>1. ~PodFails(p)
    BY DEF PodFails, Fault
  <2>2. pods[p] # "absent" => podImage[p] = sts.image
    <3>1. sts.replicas > 0
      BY <1>3
    <3> QED  BY <3>1, Zenon DEF Steady, OneImage
  <2> QED  BY <2>1, <2>2 DEF RollPod
<1>9. CASE ScalePods
  <2>1. UNCHANGED <<upgrades, roster>> /\ pods' = PodsFor(sts.replicas)
    BY <1>9 DEF ScalePods
  <2> SUFFICES ASSUME NEW o \in Ordinals PROVE NodeKeeps(o)
    BY <1>4, <2>1
  <2>2. CASE o < sts.replicas
    <3>1. pods[o] # "absent" => pods'[o] = pods[o]
      BY <1>3, <2>1, <2>2 DEF PodsFor
    <3> QED  BY <1>3, <2>1, <2>2, <3>1 DEF NodeKeeps, Leaving, Ready
  <2>3. CASE o >= sts.replicas
    <3>1. pods'[o] \in {"absent", "stopping"} \/ pods'[o] = pods[o]
      BY <1>3, <2>1, <2>3 DEF PodsFor
    <3> QED  BY <1>3, <2>1, <2>3, <3>1 DEF NodeKeeps, Gone
  <2> QED  BY <1>3, <2>2, <2>3
<1>10. ASSUME NEW p \in Ordinals, PodStarts(p) \/ PodStops(p) PROVE Steady'
  <2>1. UNCHANGED <<upgrades, roster>>
    BY <1>10 DEF PodStarts, PodStops
  <2>2. /\ \A o \in Ordinals : o # p => pods'[o] = pods[o]
        /\ (pods[p] = "pending" /\ pods'[p] = "up") \/ (pods[p] = "stopping" /\ pods'[p] = "absent")
    BY <1>3, <1>10 DEF PodStarts, PodStops
  <2>3. \A o \in Ordinals : NodeKeeps(o)
    BY <1>3, <2>1, <2>2 DEF NodeKeeps, Leaving, Ready, Gone
  <2> QED  BY <1>4, <2>1, <2>3
<1>11. ASSUME NEW p \in Ordinals, Join(p) \/ Promote(p) \/ Evict(p) PROVE Steady'
  <2>1. UNCHANGED <<upgrades, pods>> /\ \A o \in Ordinals : o # p => roster'[o] = roster[o]
    BY <1>3, <1>11 DEF Join, Promote, Evict, ServerStep
  <2>2. \/ pods[p] = "up" /\ roster[p] \in {"NotMember", "Learner"} /\ roster'[p] \in {"Learner", "Voter"}
        \/ pods[p] \notin {"up", "left"} /\ roster'[p] = "NotMember"
    BY <1>3, <1>11 DEF Join, Promote, Evict
  <2>3. \A o \in Ordinals : NodeKeeps(o)
    BY <1>3, <2>1, <2>2 DEF NodeKeeps, Leaving, Ready, Gone
  <2> QED  BY <1>4, <2>1, <2>3
<1> QED
  BY <1>6, <1>7, <1>8, <1>9, <1>10, <1>11, Zenon DEF Environment, Kubernetes, Server

(* Steps of the pass that leave the StatefulSet and the nodes alone. *)
LEMMA SteadyPasses ==
  ASSUME Steady, OneImage', UNCHANGED <<sts, pods, roster, upgrades>>, bootstrapped', PassSteady'
  PROVE  Steady'
<1>1. NodesSteady'
  BY DEF Steady, NodesSteady, Ready, Gone
<1> QED
  BY <1>1 DEF Steady

(* A roster that is read and matches shows a whole cluster. *)
LEMMA SteadyReads ==
  ASSUME IInv, Steady, ReadMembership
  PROVE  Steady'
<1> USE DEF specVars, statusVars, stsVars, podVars, serverVars, passVars
<1>1. /\ UNCHANGED <<sts, pods, roster, upgrades, bootstrapped>> /\ pc = "roster" /\ pc' = "plan" /\ pass \in Passes
      /\ pass' = pass \/ pass' = [pass EXCEPT !.members = [known |-> TRUE, roster |-> roster]]
  BY DEF ReadMembership, Goto, IInv, TypeInv, TypeOK
<1>2. OneImage'
  BY OneImagePass DEF Steady, IInv, Pass
<1>3. pass'.bootstrapped = pass.bootstrapped /\ pass'.target = pass.target
  BY <1>1 DEF Passes
<1>4. ASSUME rosterMatches(pass'.members, sts.replicas) PROVE Whole
  <2>1. pass'.members.known
    BY <1>4 DEF rosterMatches
  <2>2. pass'.members = [known |-> TRUE, roster |-> roster]
    <3>1. ~pass.members.known
      BY <1>1, Zenon DEF Steady, PassSteady
    <3>2. pass' # pass
      BY <2>1, <3>1
    <3>3. pass' = [pass EXCEPT !.members = [known |-> TRUE, roster |-> roster]] /\ pass \in Passes
      BY <1>1, <3>2, Zenon
    <3> QED  BY <3>3 DEF Passes
  <2>3. pass'.members \in Readings /\ sts.replicas \in 0 .. MaxNodes /\ pass'.members.roster = roster
    <3>1. roster \in Rosters /\ sts.replicas \in 0 .. MaxNodes
      BY DEF IInv, TypeInv, TypeOK, StatefulSets
    <3> QED  BY <2>2, <3>1 DEF Readings
  <2>4. Members(roster) = 0 .. sts.replicas - 1 /\ Voters(roster) = Members(roster)
    BY <1>4, <2>3, RosterMatchesExactly
  <2> SUFFICES ASSUME NEW o \in Ordinals
               PROVE  IF o < sts.replicas THEN Ready(o) ELSE roster[o] = "NotMember"
    BY DEF Whole
  <2>5. o \in Nat /\ (o \in 0 .. sts.replicas - 1 <=> o < sts.replicas)
    BY <2>3, MaxNodesAssumption DEF Ordinals
  <2>6. CASE o < sts.replicas
    BY <2>4, <2>5, <2>6 DEF Voters, Ready, Steady, NodesSteady
  <2>7. CASE ~(o < sts.replicas)
    BY <2>4, <2>5, <2>7 DEF Members
  <2> QED  BY <2>6, <2>7
<1>5. Whole' <=> Whole
  BY <1>1 DEF Whole, Ready
<1>6. PassSteady'
  BY <1>1, <1>3, <1>4, <1>5 DEF Steady, PassSteady
<1> QED
  BY <1>1, <1>2, <1>6, SteadyPasses DEF Steady

(* The plan that follows grows a whole cluster or asks a node of one to leave. *)
LEMMA SteadyPlans ==
  ASSUME StaleReads = {FALSE}, IInv, Steady, MakePlan
  PROVE  Steady'
<1> USE DEF specVars, statusVars, stsVars, podVars, serverVars, passVars
<1>1. /\ UNCHANGED <<sts, pods, roster, upgrades, bootstrapped>> /\ pc = "plan" /\ pass \in Passes /\ cached = sts
      /\ sts.replicas \in 1 .. MaxNodes /\ MaxNodes \in Nat
  BY MaxNodesAssumption
     DEF MakePlan, IInv, TypeInv, TypeOK, StatefulSets, PassInvariant, PlannedFromCurrent
<1>2. OneImage'
  BY OneImagePass DEF Steady, IInv, Pass
<1>3. PICK p \in Placements :
        LET plan == buildPlan(pass.target, sts.replicas, pass.bootstrapped, pass.members, p)
        IN  /\ pass' = [pass EXCEPT !.current = sts.replicas, !.plan = plan, !.ready = {},
                                    !.pods = IF plan.replicas < sts.replicas THEN @ ELSE NoPods]
            /\ pc' = IF plan.replicas < sts.replicas THEN "leave" ELSE "write"
  BY <1>1, PlacementReadsType, Zenon DEF MakePlan, Goto, IInv, TypeInv
<1> DEFINE q == buildPlan(pass.target, sts.replicas, pass.bootstrapped, pass.members, p)
<1>4. pass.bootstrapped /\ pass.bootstrapped \in BOOLEAN /\ pass.target \in 0 .. MaxNodes /\ pass.members \in Readings
  BY <1>1 DEF Passes, Steady, PassSteady
<1>5. q \in Plans /\ (q.replicas # sts.replicas => rosterMatches(pass.members, sts.replicas))
  BY <1>1, <1>4, BuildPlanStep, Zenon
<1> HIDE DEF q
<1>6. /\ pass'.plan = q /\ pass'.current = sts.replicas /\ pass'.target = pass.target
      /\ pass'.members = pass.members /\ pass'.bootstrapped = pass.bootstrapped
      /\ pc' = IF q.replicas < sts.replicas THEN "leave" ELSE "write"
  BY <1>1, <1>3 DEF q, Passes
<1>7. q.replicas # sts.replicas => Whole'
  <2>1. Whole' <=> Whole
    BY <1>1 DEF Whole, Ready
  <2> QED  BY <1>1, <1>5, <2>1 DEF Steady, PassSteady
<1>8. q.replicas \in Nat
  BY <1>1, <1>5 DEF Plans
<1>9. PassSteady'
  <2>1. pass'.bootstrapped /\ pass'.target \in Sizes
    BY <1>1, <1>6 DEF Steady, PassSteady
  <2>2. CASE q.replicas < sts.replicas
    <3>1. pc' = "leave" /\ pass'.plan.replicas < pass'.current /\ Whole'
      BY <1>1, <1>6, <1>7, <1>8, <2>2
    <3> QED  BY <2>1, <3>1 DEF PassSteady
  <2>3. CASE ~(q.replicas < sts.replicas)
    <3>1. pc' = "write" /\ ~(pass'.plan.replicas < sts'.replicas)
      BY <1>1, <1>6, <2>3
    <3>2. pass'.plan.replicas > sts'.replicas => Whole'
      BY <1>1, <1>6, <1>7, <1>8
    <3> QED  BY <2>1, <3>1, <3>2 DEF PassSteady
  <2> QED  BY <2>2, <2>3
<1> QED
  BY <1>1, <1>2, <1>9, SteadyPasses DEF Steady

(* The node that is asked to leave is the top one of a whole cluster. *)
LEMMA SteadyLeaves ==
  ASSUME StaleReads = {FALSE}, IInv, PlanOnRoster, Steady, decommission
  PROVE  Steady'
<1> USE DEF specVars, statusVars, stsVars, podVars, serverVars, passVars
<1>1. /\ UNCHANGED <<sts, upgrades, bootstrapped>> /\ pc = "leave" /\ pc' = "write" /\ pass \in Passes
      /\ sts.replicas \in 1 .. MaxNodes /\ MaxNodes \in Nat /\ pass.current = sts.replicas /\ Ordinals \subseteq Nat
      /\ pods \in [Ordinals -> PodStates] /\ roster \in [Ordinals -> Roles]
  <2>1. UNCHANGED <<sts, upgrades, bootstrapped>> /\ pc = "leave" /\ pc' = "write"
    BY DEF decommission, Goto
  <2>2. /\ pass \in Passes /\ sts.replicas \in 1 .. MaxNodes /\ pass.current = sts.replicas
        /\ pods \in [Ordinals -> PodStates] /\ roster \in [Ordinals -> Roles]
    BY <2>1 DEF IInv, TypeInv, TypeOK, StatefulSets, PassInvariant, PlannedFromCurrent, Rosters
  <2>3. MaxNodes \in Nat /\ Ordinals \subseteq Nat
    BY MaxNodesAssumption DEF Ordinals
  <2> QED  BY <2>1, <2>2, <2>3
<1>2. OneImage'
  BY OneImagePass DEF Steady, IInv, Pass
<1>3. /\ pass.bootstrapped /\ pass.target \in Sizes /\ pass.plan.replicas < sts.replicas
      /\ pass.plan.replicas \in Nat
  BY <1>1 DEF Steady, PassSteady, Passes, Plans
<1>4. Whole
  <2>1. pass.plan.replicas # pass.current
    <3>1. \A m \in Nat, n \in Nat : m < n => m # n
      OBVIOUS
    <3>2. pass.current \in Nat /\ pass.plan.replicas < pass.current
      BY <1>1, <1>3
    <3> QED  BY <1>3, <3>1, <3>2, Zenon
  <2>2. rosterMatches(pass.members, sts.replicas)
    BY <1>1, <1>3, <2>1 DEF PlanOnRoster
  <2> QED  BY <1>1, <2>2 DEF Steady, PassSteady
<1>5. /\ UNCHANGED <<pods, roster>> \/ CommitLeave(sts.replicas - 1)
      /\ pass'.bootstrapped = pass.bootstrapped /\ pass'.target = pass.target
      /\ pass'.plan = pass.plan \/ pass'.plan.replicas = sts.replicas
  BY <1>1 DEF decommission, NoPodToAsk, Left, HoldAfterLeave, HeldPlan, Departing, Passes
<1>6. ASSUME NEW o \in Ordinals
      PROVE  /\ o # sts.replicas - 1 => pods'[o] = pods[o] /\ roster'[o] = roster[o]
             /\ o = sts.replicas - 1 => Leaving(o)'
  <2>1. o = sts.replicas - 1 => Ready(o)
    BY <1>1, <1>4 DEF Whole
  <2>2. CASE UNCHANGED <<pods, roster>>
    BY <2>1, <2>2 DEF Leaving, Ready
  <2>3. CASE CommitLeave(sts.replicas - 1)
    BY <1>1, <2>3 DEF CommitLeave, Leaving
  <2> QED  BY <1>5, <2>2, <2>3
<1>7. NodesSteady'
  <2> SUFFICES ASSUME NEW o \in Ordinals
               PROVE  /\ o < sts.replicas - 1 => Ready(o)'
                      /\ o < sts.replicas /\ roster'[o] # "NotMember" => pods'[o] = "up"
                      /\ o >= sts.replicas => Gone(o)' /\ (roster'[o] # "NotMember" => o = sts.replicas)
    BY <1>1 DEF NodesSteady
  <2>1. CASE o = sts.replicas - 1
    BY <1>1, <1>6, <2>1 DEF Leaving, Ready
  <2>2. CASE o # sts.replicas - 1
    <3>1. pods'[o] = pods[o] /\ roster'[o] = roster[o]
      BY <1>6, <2>2
    <3> QED  BY <1>1, <2>2, <3>1 DEF Steady, NodesSteady, Ready, Gone
  <2> QED  BY <2>1, <2>2
<1>8. PassSteady'
  <2>1. \A o \in Ordinals : o >= sts.replicas => roster'[o] = "NotMember"
    BY <1>1, <1>4, <1>6 DEF Whole
  <2>2. ~(pass'.plan.replicas > sts.replicas)
    <3>1. PICK s \in Nat : s = sts.replicas
      BY <1>1
    <3>2. pass'.plan.replicas = s \/ (pass'.plan.replicas \in Nat /\ pass'.plan.replicas < s)
      BY <1>3, <1>5, <3>1, Zenon
    <3> QED  BY <3>1, <3>2
  <2>3. pass'.bootstrapped /\ pass'.target \in Sizes
    BY <1>3, <1>5
  <2>4. \A o \in Ordinals : o = sts.replicas - 1 => Leaving(o)'
    BY <1>6, Zenon
  <2>5. pc' = "write" /\ sts' = sts
    BY <1>1
  <2> QED  BY <2>1, <2>2, <2>3, <2>4, <2>5 DEF PassSteady
<1> QED
  BY <1>1, <1>2, <1>7, <1>8 DEF Steady

(* The write takes the StatefulSet one node up from a whole cluster, or one down past the leave. *)
LEMMA SteadyWrites ==
  ASSUME StaleReads = {FALSE}, 1 \notin Sizes, IInv, Steady, WriteStatefulSet
  PROVE  Steady'
<1> USE DEF specVars, statusVars, stsVars, podVars, serverVars, passVars
<1>1. /\ UNCHANGED <<pods, roster, upgrades, bootstrapped>> /\ pc = "write" /\ pass \in Passes
      /\ sts.replicas \in 1 .. MaxNodes /\ sts.replicas >= 3 /\ MaxNodes \in Nat
      /\ pass.current = sts.replicas /\ Ordinals \subseteq Nat
  BY MaxNodesAssumption
     DEF WriteStatefulSet, IInv, TypeInv, TypeOK, StatefulSets, PassInvariant, PlannedFromCurrent, Ordinals, Steady
<1>2. OneImage'
  BY OneImagePass DEF Steady, IInv, Pass
<1>3. \/ ToStatus /\ sts' = sts
      \/ ToStatus /\ sts' = Desired(pass.plan)
      \/ pc' = "idle" /\ sts' = sts
  BY Zenon DEF WriteStatefulSet, EndPass
<1>4. ASSUME ToStatus PROVE pc' = "status" /\ pass'.bootstrapped = pass.bootstrapped /\ pass'.target = pass.target
  BY <1>4 DEF ToStatus, Goto, NoPass
<1>5. pass.bootstrapped /\ pass.target \in Sizes
  BY <1>1 DEF Steady, PassSteady
<1>6. PassSteady'
  <2>1. pc' = "idle" \/ (pc' = "status" /\ pass'.bootstrapped /\ pass'.target \in Sizes)
    BY <1>3, <1>4, <1>5, Zenon
  <2> HIDE <1>3
  <2> QED  BY <2>1 DEF PassSteady
<1>7. pass.target \in Nat /\ pass.target >= 3
  <2>1. pass.target \in (1 .. MaxNodes) \ {2} /\ pass.target # 1
    BY <1>5, ScalingAssumption, Zenon
  <2> QED  BY <1>1, <2>1
<1>8. CASE sts'.replicas = sts.replicas
  <2>1. NodesSteady'
    BY <1>1, <1>8 DEF Steady, NodesSteady, Ready, Gone
  <2> QED  BY <1>1, <1>2, <1>6, <1>8, <2>1 DEF Steady
<1>9. ASSUME sts'.replicas # sts.replicas
      PROVE  /\ sts'.replicas = pass.plan.replicas
             /\ \/ sts'.replicas = sts.replicas + 1
                \/ sts'.replicas = sts.replicas - 1 /\ sts.replicas > pass.target
  <2>1. sts' = Desired(pass.plan)
    BY <1>3, <1>9
  <2>2. sts'.replicas = pass.plan.replicas
    BY <2>1 DEF Desired
  <2> QED  BY <1>1, <1>5, <1>9, <2>2 DEF IInv, PassInvariant, PlanIsOneStep
<1>10. CASE sts'.replicas = sts.replicas + 1
  <2>1. Whole
    <3>1. pass.plan.replicas > sts.replicas
      BY <1>1, <1>9, <1>10
    <3> QED  BY <1>1, <3>1, Zenon DEF Steady, PassSteady
  <2>2. NodesSteady'
    <3> SUFFICES ASSUME NEW o \in Ordinals
                 PROVE  /\ o < sts.replicas => Ready(o)
                        /\ o < sts.replicas + 1 /\ roster[o] # "NotMember" => pods[o] = "up"
                        /\ o >= sts.replicas + 1 => Gone(o) /\ roster[o] = "NotMember"
      BY <1>1, <1>10 DEF NodesSteady, Ready, Gone
    <3>1. CASE o < sts.replicas
      BY <1>1, <2>1, <3>1 DEF Whole, Ready
    <3>2. CASE o >= sts.replicas
      <4>1. roster[o] = "NotMember"
        BY <1>1, <2>1, <3>2 DEF Whole
      <4> QED  BY <1>1, <3>2, <4>1 DEF Steady, NodesSteady
    <3> QED  BY <1>1, <3>1, <3>2
  <2> QED  BY <1>1, <1>2, <1>6, <1>10, <2>2 DEF Steady
<1>11. CASE sts'.replicas = sts.replicas - 1 /\ sts.replicas > pass.target
  <2>1. /\ \A o \in Ordinals : o = sts.replicas - 1 => Leaving(o)
        /\ \A o \in Ordinals : o >= sts.replicas => roster[o] = "NotMember"
    <3>1. pass.plan.replicas < sts.replicas
      BY <1>1, <1>9, <1>11
    <3> QED  BY <1>1, <3>1, Zenon DEF Steady, PassSteady
  <2>2. sts'.replicas >= 3
    BY <1>1, <1>7, <1>11
  <2>3. NodesSteady'
    <3> SUFFICES ASSUME NEW o \in Ordinals
                 PROVE  /\ o < sts.replicas - 1 => Ready(o)
                        /\ o >= sts.replicas - 1 => Gone(o) /\ (roster[o] # "NotMember" => o = sts.replicas - 1)
      BY <1>1, <1>11 DEF NodesSteady, Ready, Gone
    <3>1. CASE o < sts.replicas - 1
      BY <1>1, <3>1 DEF Steady, NodesSteady
    <3>2. CASE o = sts.replicas - 1
      BY <1>1, <2>1, <3>2 DEF Leaving, Ready, Gone
    <3>3. CASE o >= sts.replicas
      BY <1>1, <2>1, <3>3 DEF Steady, NodesSteady
    <3> QED  BY <1>1, <3>1, <3>2, <3>3
  <2> QED  BY <1>1, <1>2, <1>6, <2>2, <2>3 DEF Steady
<1> QED
  BY <1>8, <1>9, <1>10, <1>11

(* No step unsettles the cluster. *)
LEMMA SteadyNext ==
  ASSUME StaleReads = {FALSE}, "pod" \notin Faults, 1 \notin Sizes, IInv, PlanOnRoster, Steady, [Next]_vars
  PROVE  Steady'
<1> USE DEF specVars, statusVars, stsVars, podVars, serverVars, passVars
<1>1. CASE UNCHANGED vars
  <2>1. UNCHANGED <<sts, pods, roster, upgrades, bootstrapped, pc, pass>>
    BY <1>1 DEF vars
  <2>2. OneImage'
    BY <1>1, OneImageAround DEF Steady, IInv
  <2>3. \A o \in Ordinals : NodeKeeps(o)
    BY <2>1 DEF NodeKeeps, Gone
  <2> QED  BY <2>1, <2>2, <2>3, SteadyKept DEF IInv
<1>2. CASE Environment
  BY <1>2, SteadyEnvironment DEF IInv
<1>3. CASE Begin
  <2>1. /\ UNCHANGED <<sts, pods, roster, upgrades, bootstrapped>> /\ pc' = "roster"
        /\ pass'.bootstrapped = bootstrapped /\ pass'.target = target
    BY <1>3 DEF Begin, Goto, NoPass
  <2>2. pass'.members = [known |-> FALSE, roster |-> NoRoster]
    BY <1>3 DEF Begin, NoPass
  <2>3. PassSteady'
    <3>1. pass'.bootstrapped /\ pass'.target \in Sizes
      BY <2>1 DEF Steady, IInv, TypeInv, TypeOK
    <3>2. ~pass'.members.known
      BY <2>2
    <3>3. pc' = "roster"
      BY <2>1
    <3> HIDE <1>3
    <3> QED  BY <3>1, <3>2, <3>3 DEF PassSteady
  <2>4. OneImage'
    BY <1>3, OneImagePass DEF Steady, IInv, Pass
  <2> QED  BY <2>1, <2>3, <2>4, SteadyPasses DEF Steady
<1>4. CASE reconcileStatus \/ Abort
  <2>1. UNCHANGED <<sts, pods, roster, upgrades>> /\ pc' = "idle" /\ (bootstrapped => bootstrapped')
    <3>1. UNCHANGED <<sts, pods, roster, upgrades>> /\ pc' = "idle"
      BY <1>4 DEF reconcileStatus, Abort, EndPass
    <3>2. bootstrapped => bootstrapped'
      BY LatchCloses
    <3> QED  BY <3>1, <3>2
  <2>2. PassSteady'
    BY <2>1 DEF PassSteady
  <2>3. OneImage'
    BY <1>4, OneImagePass DEF Steady, IInv, Pass
  <2> QED  BY <2>1, <2>2, <2>3, SteadyPasses DEF Steady
<1>5. ~CreateStatefulSet
  <2>1. cached = sts
    BY DEF IInv, TypeInv, TypeOK, PassInvariant, PlannedFromCurrent
  <2>2. sts.replicas # 0
    BY DEF Steady
  <2> QED  BY <2>1, <2>2 DEF CreateStatefulSet
<1> QED
  BY <1>1, <1>2, <1>3, <1>4, <1>5, SteadyReads, SteadyPlans, SteadyLeaves, SteadyWrites, Zenon DEF Next, Pass

(* Once a cluster of three or more nodes has come to rest, no sequence of edits of its size costs it
   its quorum, whichever passes and calls fail: from then on a majority of the voters always runs on
   pods the StatefulSet retains, and no leave and no resize takes it away (buildPlan's one step at a
   time on a roster that matches, decommission before delete).  Nodes that fail are left out, and
   further upgrades, for buildPlan looks at the roster and not at the pods: a leave may then meet
   nodes that are down.  A cluster of one node is never resized. *)
THEOREM QuorumIsKept ==
  ASSUME StaleReads = {FALSE}, "pod" \notin Faults, 1 \notin Sizes
  PROVE  Spec => [](AtRest => []QuorumAhead /\ StepsKeepQuorum)
<1> DEFINE Inv == IInv /\ PassFacts /\ PlanOnRoster
<1>1. Init => Inv
  BY InvInit, FactsInit, Zenon DEF Init, PlanOnRoster
<1>2. Inv /\ [Next]_vars => Inv'
  BY InvNext, FactsNext, PlanOnRosterNext
<1>3. Inv /\ AtRest => Steady
  BY RestIsSteady
<1>4. Inv /\ Steady /\ [Next]_vars => Steady'
  BY SteadyNext
<1>5. Inv /\ Steady => QuorumAhead
  BY SteadyHasQuorum DEF IInv
<1>6. QuorumAhead' => [bootstrapped /\ revision = sts.image /\ QuorumAhead => QuorumAhead']_<<sts, roster>>
  OBVIOUS
<1> QED
  BY <1>1, <1>2, <1>3, <1>4, <1>5, <1>6, PTL DEF Spec, StepsKeepQuorum
=============================================================================
