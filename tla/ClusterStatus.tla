--------------------------- MODULE ClusterStatus ---------------------------
(***************************************************************************)
(* What the operator reports of a cluster: the phase and the image of      *)
(* reconcileStatus, composed with the reconcile pass of module Scaling,    *)
(* whose StatefulSet controller rolls the pods to a new image.             *)
(*                                                                         *)
(* The status is computed from three readings of different age: the pods   *)
(* listed when the pass began, the roster it read next, and the            *)
(* StatefulSet as the cache holds it at the end.                           *)
(***************************************************************************)
EXTENDS Scaling

VARIABLES
  phase,         \* status.phase, "" before the first status is written
  currentImage,  \* status.currentImage
  listing        \* the pods a pass listed: how many exist, and the image of each ready one

reportVars == <<phase, currentImage, listing>>
allVars == <<vars, reportVars>>

Phases == {"", "Bootstrapping", "Degraded", "ScalingUp", "ScalingDown", "Upgrading", "Running"}

Counts == [replicas : 0 .. MaxNodes, ready : 0 .. MaxNodes]

Listings == [counts : Counts, images : [Ordinals -> AnyImage]]

(* Every variable holds a value of its kind: no phase but the six of the API is ever written,
   and no image but one the spec has named (reconcileStatus). *)
ReportTypeOK ==
  TypeOK /\ phase \in Phases /\ currentImage \in AnyImage /\ listing \in Listings

NoListing == [counts |-> [replicas |-> 0, ready |-> 0], images |-> NoImages]

(* status.replicas and status.readyReplicas of the StatefulSet. *)
PodCounts ==
  [replicas |-> Cardinality({o \in Ordinals : pods[o] # "absent"}),
   ready |-> Cardinality({o \in Ordinals : Ready(o)})]

ReportInit == Init /\ phase = "" /\ currentImage = NoImage /\ listing = NoListing
-----------------------------------------------------------------------------
(* A strict majority of the requested nodes is ready. *)
hasQuorum(ready, desired) == desired > 0 /\ ready >= desired \div 2 + 1

(* The size of the StatefulSet when it is read again, or of the object just created. *)
SizeReread == IF cached.replicas = 0 THEN sts.replicas ELSE cached.replicas

imageRolledOutAnyNode == \E o \in Ordinals : listing.images[o] = pass.image

(* Every node the StatefulSet now has was listed ready and on the image of the spec. *)
imageRolledOut == SizeReread > 0 /\ \A o \in 0 .. SizeReread - 1 : listing.images[o] = pass.image

(* The committed roster by role; what is in it and no voter is still catching up. *)
countRoles(m) ==
  LET voters == Cardinality(Voters(m)) IN [voters |-> voters, learners |-> Cardinality(Members(m)) - voters]

(* The phase of a pass that read these counters off the StatefulSet, the first case that holds. *)
Phase(counts, imageCurrent) ==
  LET desired     == pass.target
      known       == pass.members.known
      roles       == countRoles(pass.members.roster)
      converged   == known /\ roles.voters = desired /\ roles.learners = 0
      progressing == counts.ready < desired \/ ~converged \/ ~imageCurrent
  IN  IF ~(pass.bootstrapped \/ FoundedAtTarget) THEN "Bootstrapping"
      ELSE IF ~hasQuorum(counts.ready, desired) \/ ~known THEN "Degraded"
      ELSE IF counts.replicas < desired \/ roles.voters < desired THEN "ScalingUp"
      ELSE IF counts.replicas > desired \/ roles.voters > desired THEN "ScalingDown"
      ELSE IF progressing THEN "Upgrading" ELSE "Running"

(* Whether a backup that is due must wait: the founding, the roster or some listed node is not
   as the spec asks.  It is asked after the StatefulSet was written, of what was read before. *)
backupBlocked ==
  \/ ~pass.bootstrapped \/ ~rosterMatches(pass.members, pass.target)
  \/ \E o \in 0 .. pass.target - 1 : listing.images[o] # pass.image

(* The status is written unless the spec was edited since the pass began.  The counters of the
   StatefulSet may lag behind its pods, back to when the pass began. *)
Report ==
  /\ reconcileStatus
  /\ IF pass.generation = Generation
     THEN /\ currentImage' = IF imageRolledOut THEN pass.image ELSE currentImage
          /\ \E counts \in {PodCounts, listing.counts} : phase' = Phase(counts, currentImage' = pass.image)
     ELSE UNCHANGED <<phase, currentImage>>
  /\ listing' = NoListing

(* listPods, at the end of the first step of the pass. *)
List ==
  /\ Begin
  /\ listing' = [counts |-> PodCounts,
                 images |-> [o \in Ordinals |-> IF Ready(o) THEN podImage[o] ELSE NoImage]]
  /\ UNCHANGED <<phase, currentImage>>

(* Every other step of the pass; one that fails forgets the listing. *)
Proceed ==
  /\ \/ ReadMembership \/ CreateStatefulSet \/ MakePlan \/ decommission \/ WriteStatefulSet \/ Abort
  /\ listing' = IF pc' = "idle" THEN NoListing ELSE listing
  /\ UNCHANGED <<phase, currentImage>>

Observe == Environment /\ UNCHANGED reportVars

ReportNext == List \/ Proceed \/ Report \/ Observe

ReportSpec == ReportInit /\ [][ReportNext]_allVars
-----------------------------------------------------------------------------
(* When the reported image moves, and when the cluster is newly reported Running, every running
   node of the StatefulSet runs the reported image, although the pods were listed before the
   StatefulSet was written and read again (imageRolledOut, reconcileStatus). *)
ReportIsTrue ==
  [][currentImage' # currentImage \/ phase' = "Running" =>
       \A o \in 0 .. sts.replicas - 1 :
         pods[o] \in {"up", "left"} => podImage[o] = currentImage']_<<currentImage, phase>>

(* A pass that resizes a founded cluster lets no backup start: the roster it read is the one of
   the size it leaves, and the backup waits for the roster of the size it was asked for
   (backupBlocked after reconcileStatefulSet). *)
BackupsAwaitSteps == [][Resizing /\ sts'.replicas # sts.replicas => backupBlocked']_sts

(* A pass that listed a ready node on another image than the one asked for does not report the
   cluster Running: half-way through a rollout every node may well be ready (imageCurrent in
   reconcileStatus). *)
NotRunningHalfway ==
  [][pc = "status" /\ pass.generation = Generation /\ phase' = "Running" =>
       \A o \in 0 .. sts.replicas - 1 : listing.images[o] \in {NoImage, pass.image}]_pc

(* Once the user stops editing, and as long as restarts beat the eviction grace, the cluster
   comes to rest: founded at its size, every node on the image of the spec, and reported
   Running (Reconcile, requeued while progressing). *)
RolloutFinishes ==
  <>[](/\ bootstrapped /\ sts.replicas = target /\ RosterQuiet
       /\ \A o \in 0 .. target - 1 : podImage[o] = image
       /\ phase = "Running" /\ currentImage = image)
=============================================================================
