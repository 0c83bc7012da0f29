------------------------------ MODULE Scaling ------------------------------
(***************************************************************************)
(* The operator sizing one cluster: the reconcile pass of                  *)
(* kahunacluster_controller.go from the read of the KahunaCluster to the   *)
(* write of its status, interleaved with the Kubernetes control plane and  *)
(* with the Kahuna server whose roster and placement it reads.             *)
(*                                                                         *)
(* A pass is a sequence of steps, pc naming the next one; passes of one    *)
(* object are serialised by the work queue.  Everything a pass remembers   *)
(* between its steps is in the record pass.  The StatefulSet is read       *)
(* through the informer cache: cached is what the cache holds, and fresh   *)
(* is FALSE while it lacks the operator's last write.  It never lacks more *)
(* than one, because an update based on an older version is rejected.      *)
(***************************************************************************)
EXTENDS Plan

CONSTANTS
  Sizes,        \* the sizes spec.replicas may be set to
  MaxEdits,     \* how often the user edits spec.replicas
  Images,       \* the images spec.image may name, as positive numbers
  MaxUpgrades,  \* how often the user edits spec.image
  StaleReads,   \* whether the informer cache may lag the operator's own writes: {TRUE}, {FALSE}, or either
  SlowRestarts, \* whether a pod may stay down for longer than the eviction grace
  HasPlacement, \* whether the server serves GET /v1/cluster/placement
  Faults,       \* which kinds of failure may happen
  MaxFaults     \* how many failures happen at most

FaultKinds == {"abort", "pod", "read", "refuse", "lost"}

(* The CRD admits no size 2 and no change between one node and many. *)
ASSUME ScalingAssumption ==
  /\ Sizes \subseteq (1 .. MaxNodes) \ {2}
  /\ Sizes # {}
  /\ 1 \in Sizes => Sizes = {1}
  /\ MaxEdits \in Nat
  /\ Images \subseteq Nat \ {0} /\ Images # {}
  /\ MaxUpgrades \in Nat
  /\ StaleReads \subseteq BOOLEAN /\ StaleReads # {}
  /\ SlowRestarts \in BOOLEAN
  /\ HasPlacement \in BOOLEAN
  /\ Faults \subseteq FaultKinds
  /\ MaxFaults \in Nat

VARIABLES
  target,        \* spec.replicas
  image,         \* spec.image
  edits,         \* how often spec.replicas was edited
  upgrades,      \* how often spec.image was edited
  lags,          \* whether the informer cache may lag; it does not change
  bootstrapSize, \* status.bootstrapSize, 0 until pinned
  bootstrapped,  \* status.bootstrapped
  sts,           \* the StatefulSet in the API server; replicas = 0 before it exists
  cached,        \* the StatefulSet in the informer cache
  fresh,         \* whether the cache holds the operator's last write
  revision,      \* the image of the StatefulSet's current revision, the last one fully rolled out
  pods,          \* the pod of each ordinal
  podImage,      \* the image that pod runs
  roster,        \* the committed Raft roster
  hosts,         \* the ordinals that host a settled replica
  pc,            \* the next step of the pass, "idle" between passes
  pass,          \* what the pass has read and decided so far
  faults,        \* how many failures have happened
  rosterSeen,    \* history: the roster has matched the StatefulSet since its last resize
  dataSeen       \* history: so has the placement settled

specVars == <<target, image, edits, upgrades, lags>>
statusVars == <<bootstrapSize, bootstrapped>>
stsVars == <<sts, cached, fresh>>
podVars == <<pods, podImage>>
serverVars == <<roster, hosts>>
passVars == <<pc, pass>>
history == <<rosterSeen, dataSeen>>
vars ==
  <<specVars, statusVars, stsVars, revision, podVars, serverVars, passVars, faults, history>>

Steps == {"idle", "roster", "plan", "leave", "write", "status"}

(* A pod without an IP is "pending"; "up" runs a node, "left" a node that was
   decommissioned; "stopping" has a deletion timestamp. *)
PodStates == {"absent", "pending", "up", "left", "stopping"}

NoImage == 0

AnyImage == Images \cup {NoImage}

StatefulSets == [replicas : 0 .. MaxNodes, partition : 0 .. MaxNodes, image : AnyImage]

Passes ==
  [generation : 0 .. MaxEdits + MaxUpgrades, target : 0 .. MaxNodes, image : AnyImage,
   bootstrapped : BOOLEAN, pods : [Ordinals -> PodStates],
   ready : SUBSET Ordinals, members : Readings, current : 0 .. MaxNodes, plan : Plans,
   left : SUBSET Ordinals]

(* metadata.generation, which every edit of the spec moves on. *)
Generation == edits + upgrades

(* Every variable holds a value of its kind.  The founding size, once pinned, is a size
   the CRD admits, and a pass remembers only rosters and plans of this cluster. *)
TypeOK ==
  /\ target \in Sizes /\ edits \in 0 .. MaxEdits
  /\ image \in Images /\ upgrades \in 0 .. MaxUpgrades /\ lags \in StaleReads
  /\ bootstrapSize \in Sizes \cup {0} /\ bootstrapped \in BOOLEAN
  /\ sts \in StatefulSets /\ cached \in StatefulSets /\ fresh \in BOOLEAN
  /\ revision \in AnyImage
  /\ pods \in [Ordinals -> PodStates] /\ podImage \in [Ordinals -> AnyImage]
  /\ roster \in Rosters /\ hosts \subseteq Ordinals
  /\ pc \in Steps /\ pass \in Passes
  /\ faults \in 0 .. MaxFaults
  /\ rosterSeen \in BOOLEAN /\ dataSeen \in BOOLEAN

NoPlan == [replicas |-> 0, partition |-> 0]

NoSts == [replicas |-> 0, partition |-> 0, image |-> NoImage]

NoPods == [o \in Ordinals |-> "absent"]

NoImages == [o \in Ordinals |-> NoImage]

NoRoster == [o \in Ordinals |-> "NotMember"]

NoPass ==
  [generation |-> 0, target |-> 0, image |-> NoImage, bootstrapped |-> FALSE, pods |-> NoPods,
   ready |-> {}, members |-> [known |-> FALSE, roster |-> NoRoster],
   current |-> 0, plan |-> NoPlan, left |-> {}]

Init ==
  /\ target \in Sizes /\ edits = 0
  /\ image = (CHOOSE i \in Images : TRUE) /\ upgrades = 0
  /\ lags \in StaleReads
  /\ bootstrapSize = 0 /\ bootstrapped = FALSE
  /\ sts = NoSts /\ cached = NoSts /\ fresh = TRUE
  /\ revision = NoImage
  /\ pods = NoPods /\ podImage = NoImages
  /\ roster = NoRoster /\ hosts = {}
  /\ pc = "idle" /\ pass = NoPass
  /\ faults = 0
  /\ rosterSeen = FALSE /\ dataSeen = FALSE

Fault(kind) ==
  /\ kind \in Faults /\ faults < MaxFaults
  /\ faults' = faults + 1

Goto(step) == pc' = step

EndPass == pc' = "idle" /\ pass' = NoPass

(* The StatefulSet is as planned; the status is still to be written. *)
ToStatus ==
  /\ Goto("status")
  /\ pass' = [NoPass EXCEPT !.generation = pass.generation, !.target = pass.target, !.image = pass.image,
                            !.bootstrapped = pass.bootstrapped, !.members = pass.members]

(* A strict majority of the committed voters runs, counting the ordinals below n. *)
Serving(n) ==
  2 * Cardinality({o \in Voters(roster) : pods[o] = "up" /\ o < n}) > Cardinality(Voters(roster))

Quorum == Serving(MaxNodes)

(* The readiness probe asks whether the node holds a serving role. *)
Ready(o) == pods[o] = "up" /\ roster[o] = "Voter"

(* GET /v1/cluster/placement, as a node answers it.  While the replicas have not yet
   followed the voters, moves may or may not be in flight. *)
PlacementReads ==
  IF ~HasPlacement
  THEN {[kind |-> "unsupported", moving |-> FALSE, hosts |-> {}]}
  ELSE {p \in [kind : {"read"}, moving : BOOLEAN, hosts : {hosts}] :
          p.moving => hosts # Voters(roster)}

PlacementUnread == [kind |-> "unreadable", moving |-> FALSE, hosts |-> {}]

(* The roster holds exactly the nodes of the StatefulSet, all of them voters. *)
RosterQuiet == Members(roster) = 0 .. sts.replicas - 1 /\ Voters(roster) = Members(roster)

(* No replica is left on a node the StatefulSet no longer has. *)
DataQuiet == HasPlacement => hosts \subseteq 0 .. sts.replicas - 1

(* What has held since the last change of the StatefulSet's size. *)
Record ==
  LET resized == sts'.replicas # sts.replicas
  IN  /\ rosterSeen' = (RosterQuiet' \/ (rosterSeen /\ ~resized))
      /\ dataSeen' = (DataQuiet' \/ (dataSeen /\ ~resized))

-----------------------------------------------------------------------------
(* The reconcile pass. *)

PinnedSizeHighestOrdinal == IF bootstrapSize = 0 THEN target - 1 ELSE bootstrapSize

(* The founding size is pinned by the first pass and never revised. *)
PinnedSize == IF bootstrapSize = 0 THEN target ELSE bootstrapSize

(* What the pass looks at in a listed pod: whether it has an IP and a deletion timestamp. *)
Listed(state) ==
  CASE state \in {"absent", "pending"} -> "absent"
    [] state \in {"up", "left"} -> "up"
    [] OTHER -> "stopping"

(* Reconcile up to listPods: the uncached read of the cluster, the founding size
   pinned once, and the pods. *)
Begin ==
  /\ pc = "idle"
  /\ bootstrapSize' = PinnedSize
  /\ pass' = [NoPass EXCEPT !.generation = Generation, !.target = target, !.image = image,
                            !.bootstrapped = bootstrapped,
                            !.pods = [o \in Ordinals |-> Listed(pods[o])],
                            !.ready = {o \in Ordinals : Ready(o)}]
  /\ Goto("roster")
  /\ UNCHANGED <<specVars, bootstrapped, stsVars, revision, podVars, serverVars, faults>>
  /\ Record

(* readMembership: the first listed pod that answers, of those with an IP and no
   deletion timestamp. *)
ReadMembership ==
  LET answered == \E o \in Ordinals : pass.pods[o] = "up" /\ pods[o] = "up"
  IN  /\ pc = "roster"
      /\ \/ /\ answered
            /\ pass' = [pass EXCEPT !.members = [known |-> TRUE, roster |-> roster]]
            /\ UNCHANGED faults
         \/ /\ IF answered THEN Fault("read") ELSE UNCHANGED faults
            /\ UNCHANGED pass
      /\ Goto("plan")
      /\ UNCHANGED <<specVars, statusVars, stsVars, revision, podVars, serverVars>>
      /\ Record

(* readPlacement: a node that was ready when the pods were listed, if one still answers. *)
ReadPlacement(p) ==
  LET answered == \E o \in pass.ready : pods[o] = "up"
  IN  \/ answered /\ p \in PlacementReads /\ UNCHANGED faults
      \/ p = PlacementUnread /\ IF answered THEN Fault("read") ELSE UNCHANGED faults

(* desiredStatefulSet, sized and partitioned by the plan, with the image the pass read. *)
Desired(plan) ==
  [replicas |-> plan.replicas, partition |-> plan.partition, image |-> pass.image]

(* reconcileStatefulSet, the first cached Get finding nothing: the StatefulSet is
   created at its full size, or exists by now and the pass fails. *)
CreateStatefulSet ==
  /\ pc = "plan" /\ cached.replicas = 0
  /\ IF sts.replicas = 0
     THEN /\ sts' = Desired([replicas |-> pass.target, partition |-> 0])
          /\ cached' = IF lags THEN cached ELSE sts'
          /\ fresh' = ~lags
          /\ revision' = pass.image
          /\ ToStatus
     ELSE EndPass /\ UNCHANGED <<stsVars, revision>>
  /\ UNCHANGED <<specVars, statusVars, podVars, serverVars, faults>>
  /\ Record

(* readPlacement, the first cached Get of reconcileStatefulSet, and buildPlan.  What no later
   step of the pass reads is forgotten. *)
MakePlan ==
  /\ pc = "plan" /\ cached.replicas > 0
  /\ \E p \in PlacementReads \cup {PlacementUnread} :
       /\ ReadPlacement(p)
       /\ LET plan == buildPlan(pass.target, cached.replicas, pass.bootstrapped, pass.members, p)
          IN  /\ pass' = [pass EXCEPT !.current = cached.replicas, !.plan = plan, !.ready = {},
                                       !.pods = IF plan.replicas < cached.replicas THEN @ ELSE NoPods]
              /\ Goto(IF plan.replicas < cached.replicas THEN "leave" ELSE "write")
  /\ UNCHANGED <<specVars, statusVars, stsVars, revision, podVars, serverVars>>
  /\ Record
-----------------------------------------------------------------------------
(* decommission, for the top ordinal of the size the pass read. *)

Departing == pass.current - 1

HasIP(listed) == listed # "absent"

(* The server can commit the removal: it has a quorum, and a voter would remain. *)
CanLeave(o) == pods[o] = "up" /\ roster[o] # "NotMember" /\ Quorum /\ Voters(roster) \ {o} # {}

(* The node runs and is not in the roster, which the server reports as a success. *)
NotAMember(o) == pods[o] \in {"up", "left"} /\ roster[o] = "NotMember"

(* The replicas are moved off, then the removal is committed. *)
CommitLeave(o) ==
  /\ CanLeave(o)
  /\ roster' = [roster EXCEPT ![o] = "NotMember"]
  /\ hosts' = hosts \ {o}
  /\ pods' = [pods EXCEPT ![o] = "left"]
  /\ UNCHANGED podImage

(* No pod of that name has an IP: the code falls back to eviction and goes on. *)
NoPodToAsk ==
  /\ ~HasIP(pass.pods[Departing])
  /\ UNCHANGED <<pass, podVars, serverVars, faults>>

Left ==
  /\ HasIP(pass.pods[Departing])
  /\ \/ CommitLeave(Departing)
     \/ /\ NotAMember(Departing)
        /\ UNCHANGED <<podVars, serverVars>>
  /\ pass' = [pass EXCEPT !.left = @ \cup {Departing}]
  /\ UNCHANGED faults

HeldPlanShrinks == pass.plan

(* The plan of a pass whose node did not leave. *)
HeldPlan == [replicas |-> pass.current, partition |-> pass.current]

(* The leave failed or was refused, or it was committed and the answer lost:
   the pass holds the cluster at its current size. *)
HoldAfterLeave ==
  /\ HasIP(pass.pods[Departing])
  /\ \/ Fault("lost") /\ CommitLeave(Departing)
     \/ /\ \/ Fault("refuse")
           \/ ~CanLeave(Departing) /\ ~NotAMember(Departing) /\ UNCHANGED faults
        /\ UNCHANGED <<podVars, serverVars>>
  /\ pass' = [pass EXCEPT !.plan = HeldPlan]

decommission ==
  /\ pc = "leave"
  /\ NoPodToAsk \/ Left \/ HoldAfterLeave
  /\ Goto("write")
  /\ UNCHANGED <<specVars, statusVars, stsVars, revision>>
  /\ Record
-----------------------------------------------------------------------------
(* CreateOrUpdate: a second cached Get, and an Update that carries the version
   it returned.  Nothing is sent when the object already reads as planned. *)
WriteStatefulSet ==
  /\ pc = "write"
  /\ CASE Desired(pass.plan) = cached -> ToStatus /\ UNCHANGED stsVars
       [] Desired(pass.plan) # cached /\ fresh ->
            /\ sts' = Desired(pass.plan)
            /\ cached' = IF lags THEN cached ELSE sts'
            /\ fresh' = ~lags
            /\ ToStatus
       [] OTHER -> EndPass /\ UNCHANGED stsVars
  /\ UNCHANGED <<specVars, statusVars, revision, podVars, serverVars, faults>>
  /\ Record

(* The roster the pass read carries as many voters as the requested size, and one at least. *)
FoundedAtTarget ==
  LET voters == Voters(pass.members.roster)
  IN  pass.members.known /\ voters # {} /\ Cardinality(voters) >= pass.target

(* reconcileStatus: bootstrapped latches on the roster the pass read.  The write is
   rejected when the spec was edited since the pass began. *)
reconcileStatus ==
  /\ pc = "status"
  /\ bootstrapped' = (bootstrapped \/ (FoundedAtTarget /\ pass.generation = Generation))
  /\ EndPass
  /\ UNCHANGED <<specVars, bootstrapSize, stsVars, revision, podVars, serverVars, faults>>
  /\ Record

(* The operator restarts, or a call to the API server fails and Reconcile returns. *)
Abort ==
  /\ pc # "idle" /\ Fault("abort")
  /\ EndPass
  /\ UNCHANGED <<specVars, statusVars, stsVars, revision, podVars, serverVars>>
  /\ Record

Pass ==
  \/ Begin \/ ReadMembership \/ CreateStatefulSet \/ MakePlan
  \/ decommission \/ WriteStatefulSet \/ reconcileStatus
-----------------------------------------------------------------------------
(* The user, and Kubernetes. *)

EditSpec ==
  /\ \/ /\ edits < MaxEdits
        /\ \E n \in Sizes \ {target} : target' = n
        /\ edits' = edits + 1
        /\ UNCHANGED <<image, upgrades>>
     \/ /\ upgrades < MaxUpgrades
        /\ \E i \in Images \ {image} : image' = i
        /\ upgrades' = upgrades + 1
        /\ UNCHANGED <<target, edits>>
  /\ UNCHANGED lags
  /\ UNCHANGED <<statusVars, stsVars, revision, podVars, serverVars, passVars, faults>>
  /\ Record

CacheCatchesUp ==
  /\ ~fresh
  /\ cached' = sts /\ fresh' = TRUE
  /\ UNCHANGED <<specVars, statusVars, sts, revision, podVars, serverVars, passVars, faults>>
  /\ Record

(* The StatefulSet controller, with podManagementPolicy Parallel: every missing pod
   at once, every pod above the size deleted. *)
PodsFor(n) ==
  [o \in Ordinals |-> CASE o < n /\ pods[o] = "absent" -> "pending"
                        [] o >= n /\ pods[o] = "pending" -> "absent"
                        [] o >= n /\ pods[o] \in {"up", "left"} -> "stopping"
                        [] OTHER -> pods[o]]

(* A pod below the partition is created from the current revision, one at or above it
   from the template. *)
ImagesFor(n) ==
  [o \in Ordinals |-> CASE o < n /\ pods[o] = "absent" ->
                             IF o < sts.partition THEN revision ELSE sts.image
                        [] o >= n /\ pods[o] = "pending" -> NoImage
                        [] OTHER -> podImage[o]]

ScalePods ==
  /\ pods # PodsFor(sts.replicas)
  /\ pods' = PodsFor(sts.replicas) /\ podImage' = ImagesFor(sts.replicas)
  /\ UNCHANGED <<specVars, statusVars, stsVars, revision, serverVars, passVars, faults>>
  /\ Record

(* The rolling update: the highest pod at or above the partition that does not run the
   template's image is deleted, once every pod above it runs that image and is ready. *)
RollPod(o) ==
  /\ o \in sts.partition .. sts.replicas - 1
  /\ pods[o] \in {"pending", "up", "left"} /\ podImage[o] # sts.image
  /\ \A p \in o + 1 .. sts.replicas - 1 : podImage[p] = sts.image /\ Ready(p)
  /\ IF pods[o] = "pending"
     THEN pods' = [pods EXCEPT ![o] = "absent"] /\ podImage' = [podImage EXCEPT ![o] = NoImage]
     ELSE pods' = [pods EXCEPT ![o] = "stopping"] /\ UNCHANGED podImage
  /\ UNCHANGED <<specVars, statusVars, stsVars, revision, serverVars, passVars, faults>>
  /\ Record

(* The template becomes the current revision once every pod runs it and is ready. *)
FinishRollout ==
  /\ sts.replicas > 0 /\ revision # sts.image
  /\ \A o \in 0 .. sts.replicas - 1 : podImage[o] = sts.image /\ Ready(o)
  /\ revision' = sts.image
  /\ UNCHANGED <<specVars, statusVars, stsVars, podVars, serverVars, passVars, faults>>
  /\ Record

PodStarts(o) ==
  /\ pods[o] = "pending"
  /\ pods' = [pods EXCEPT ![o] = "up"]
  /\ UNCHANGED <<specVars, statusVars, stsVars, revision, podImage, serverVars, passVars, faults>>
  /\ Record

PodStops(o) ==
  /\ pods[o] = "stopping"
  /\ pods' = [pods EXCEPT ![o] = "absent"] /\ podImage' = [podImage EXCEPT ![o] = NoImage]
  /\ UNCHANGED <<specVars, statusVars, stsVars, revision, serverVars, passVars, faults>>
  /\ Record

PodFails(o) ==
  /\ pods[o] \in {"up", "left"} /\ Fault("pod")
  /\ pods' = [pods EXCEPT ![o] = "pending"]
  /\ UNCHANGED <<specVars, statusVars, stsVars, revision, podImage, serverVars, passVars>>
  /\ Record
-----------------------------------------------------------------------------
(* The Kahuna server, as the operator's code and comments describe it. *)

ServerStep ==
  UNCHANGED <<specVars, statusVars, stsVars, revision, podVars, passVars, faults>> /\ Record

(* A founding node that was started with this list of nodes is elected by a majority of them
   and commits the first roster: every node of the list, running or not. *)
SeedRoster(list) ==
  /\ roster = NoRoster
  /\ 2 * Cardinality({o \in list : o < bootstrapSize /\ pods[o] = "up"}) > Cardinality(list)
  /\ roster' = [o \in Ordinals |-> IF o \in list THEN "Voter" ELSE "NotMember"]
  /\ hosts' = list
  /\ ServerStep

(* The list was rendered for the founding size or for the size requested since, and holds the
   node itself. *)
Seed ==
  \E n \in {bootstrapSize, target}, o \in Ordinals :
    /\ o < bootstrapSize /\ pods[o] = "up"
    /\ SeedRoster(0 .. n - 1 \cup {o})

Join(o) ==
  /\ pods[o] = "up" /\ roster[o] = "NotMember" /\ Quorum
  /\ roster' = [roster EXCEPT ![o] = "Learner"]
  /\ UNCHANGED hosts
  /\ ServerStep

Promote(o) ==
  /\ pods[o] = "up" /\ roster[o] = "Learner" /\ Quorum
  /\ roster' = [roster EXCEPT ![o] = "Voter"]
  /\ UNCHANGED hosts
  /\ ServerStep

(* The failure detector removes a member that has not run for the eviction grace: one without
   a pod to come back, or whose pod is slow to. *)
Evict(o) ==
  /\ pods[o] \notin {"up", "left"} /\ roster[o] # "NotMember" /\ Quorum
  /\ o >= sts.replicas \/ SlowRestarts
  /\ roster' = [roster EXCEPT ![o] = "NotMember"]
  /\ UNCHANGED hosts
  /\ ServerStep

(* The rebalancer makes the replicas follow the voters. *)
Rebalance ==
  /\ hosts # Voters(roster) /\ Quorum
  /\ hosts' = Voters(roster)
  /\ UNCHANGED roster
  /\ ServerStep
-----------------------------------------------------------------------------
(* The StatefulSet controller and the kubelets. *)
Kubernetes ==
  \/ ScalePods \/ FinishRollout
  \/ \E o \in Ordinals : RollPod(o) \/ PodStarts(o) \/ PodStops(o)

Server ==
  \/ Seed \/ Rebalance
  \/ \E o \in Ordinals : Join(o) \/ Promote(o) \/ Evict(o)

Environment ==
  \/ EditSpec \/ CacheCatchesUp \/ Kubernetes \/ Server
  \/ \E o \in Ordinals : PodFails(o)

Next == Pass \/ Abort \/ Environment

Spec == Init /\ [][Next]_vars

(* The work queue requeues every pass, watch events are delivered, Kubernetes takes some step
   while its pods differ from the StatefulSet, and the server takes some step while its roster
   or its replicas lag. *)
Fairness == WF_vars(Pass) /\ WF_vars(CacheCatchesUp) /\ WF_vars(Kubernetes) /\ WF_vars(Server)

FairSpec == Spec /\ Fairness
-----------------------------------------------------------------------------
(* A pass that resizes a founded cluster.  Before that the StatefulSet is given its
   target outright, because no quorum exists that could admit nodes one by one. *)
Resizing == pc = "write" /\ pass.bootstrapped

Dropped == sts'.replicas .. sts.replicas - 1

(* With a cache that holds the operator's own writes, the size a pass planned from is still
   the StatefulSet's size when it writes: nobody else resizes it. *)
PlannedFromCurrent ==
  /\ ~lags => cached = sts /\ fresh
  /\ pc \in {"leave", "write"} => pass.current > 0 /\ (~lags => pass.current = sts.replicas)

(* The plan of a founded cluster is a single step toward the size the pass was asked for. *)
PlanIsOneStep ==
  pc \in {"leave", "write"} /\ pass.bootstrapped =>
    \/ pass.plan.replicas = pass.current
    \/ pass.plan.replicas = pass.current + 1 /\ pass.current < pass.target
    \/ pass.plan.replicas = pass.current - 1 /\ pass.current > pass.target

(* A plan that shrinks reaches the write only past decommission. *)
ShrinksAfterLeave ==
  pc = "write" /\ pass.bootstrapped /\ pass.plan.replicas < pass.current =>
    Departing \in pass.left \/ ~HasIP(pass.pods[Departing])

(* A roster that matched the StatefulSet when it was read, and a plan that resizes, both
   witness that the last step was complete. *)
PlanIsGrounded ==
  ~lags =>
    /\ pc \in {"roster", "plan", "leave", "write"} /\ rosterMatches(pass.members, sts.replicas) =>
         rosterSeen
    /\ pc \in {"leave", "write"} /\ pass.bootstrapped /\ pass.plan.replicas # pass.current =>
         rosterSeen /\ dataSeen

(* What a pass knows and has decided stays true of the cluster it acts on, however the
   environment moves between its steps (Reconcile, reconcileStatefulSet, decommission). *)
PassInvariant == PlannedFromCurrent /\ PlanIsOneStep /\ ShrinksAfterLeave /\ PlanIsGrounded

(* A pass over a founded cluster changes the size of the StatefulSet by at most one node
   and never away from the size it was asked for (buildPlan, reconcileStatefulSet). *)
OneAtATime ==
  [][Resizing => /\ sts'.replicas - sts.replicas \in -1 .. 1
                 /\ sts'.replicas > sts.replicas => sts'.replicas <= pass.target
                 /\ sts'.replicas < sts.replicas => sts'.replicas >= pass.target]_sts

(* A node's pod is given up only when the node is out of the roster, or confirmed its
   departure to this very pass, or had no pod with an IP that could be asked (decommission
   and the hold in reconcileStatefulSet). *)
DecommissionBeforeDelete ==
  [][Resizing => \A o \in Dropped : \/ roster[o] = "NotMember"
                                    \/ o \in pass.left
                                    \/ ~HasIP(pass.pods[o])]_sts

(* A step is complete before the next begins: since the size last changed, the roster has been
   exactly the StatefulSet's nodes and no replica was left on a node that is gone (the roster
   and placement gates of buildPlan). *)
StepsSerialised ==
  [][Resizing /\ sts'.replicas # sts.replicas => rosterSeen /\ dataSeen]_sts

(* A pass over a founded cluster releases its pods to a rolling update only when no membership
   change was under way: since the size last changed the roster has been exactly the
   StatefulSet's nodes (the partition of buildPlan). *)
RollsWhenWhole == [][Resizing /\ sts'.partition < sts'.replicas => rosterSeen]_sts

(* A majority of the voters runs on pods that the StatefulSet retains. *)
QuorumAhead == Serving(sts.replicas)

(* Unless an upgrade is under way, neither a leave nor a resize takes away a quorum the cluster
   would otherwise keep: of the voters, a majority runs on pods the StatefulSet retains
   (buildPlan's one step at a time, decommission before delete). *)
StepsKeepQuorum ==
  [][bootstrapped /\ revision = sts.image /\ QuorumAhead => QuorumAhead']_<<sts, roster>>

(* What the operator promises of the size, with the request and the latch as the pass under
   way read them. *)
Promise ==
  INSTANCE ClusterSize WITH
    asked <- IF pc = "idle" THEN target ELSE pass.target,
    founded <- IF pc = "idle" THEN bootstrapped ELSE pass.bootstrapped,
    size <- sts.replicas, admitted <- rosterSeen, rehomed <- dataSeen

(* Every behaviour of the reconcile passes, Kubernetes and the server is one of the promise: the
   cluster is sized outright until it is founded, then stepped towards the size asked for by
   complete steps (Reconcile, reconcileStatefulSet, buildPlan). *)
KeepsPromise == Promise!Spec

(* Once the user stops editing, the StatefulSet and the roster reach the requested size and
   stay there (Reconcile, requeued until converged). *)
Converges == <>[](bootstrapped /\ sts.replicas = target /\ RosterQuiet)
=============================================================================
