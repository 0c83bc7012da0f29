------------------------------ MODULE Founding ------------------------------
(***************************************************************************)
(* How the nodes of a cluster find each other: the topology ConfigMap the  *)
(* operator renders, the entrypoint script that reads it when a node       *)
(* starts, and the first roster the started nodes elect among themselves.  *)
(* Composed with the reconcile pass of module Scaling and the status of    *)
(* module ClusterStatus.                                                   *)
(*                                                                         *)
(* Every pass renders the ConfigMap before it knows what it will do to the *)
(* StatefulSet, and a node reads it once, when it starts: two nodes of one *)
(* cluster may have been given lists of different length.                  *)
(***************************************************************************)
EXTENDS ClusterStatus

VARIABLES
  topology,  \* the ConfigMap: REPLICAS and BOOTSTRAP_SIZE, both 0 before it is written
  disk,      \* what each node's data volume holds
  started,   \* how each node that holds no roster was started: its list, and --join-existing
  forked     \* history: a second roster was committed beside the first

entryVars == <<topology, disk, started, forked>>
everything == <<allVars, entryVars>>

(* A volume is "empty" until the node's first start, "used" from then on, and holds the
   "roster" once the server has committed one to it. *)
Disks == {"empty", "used", "roster"}

Starts == [list : SUBSET Ordinals, join : BOOLEAN]

(* Every variable holds a value of its kind, those of the operator and the server included. *)
FoundingTypeOK ==
  /\ ReportTypeOK
  /\ topology \in [replicas : Sizes \cup {0}, bootstrapSize : Sizes \cup {0}]
  /\ disk \in [Ordinals -> Disks] /\ started \in [Ordinals -> Starts] /\ forked \in BOOLEAN

NoStart == [list |-> {}, join |-> FALSE]

EntryInit ==
  /\ topology = [replicas |-> 0, bootstrapSize |-> 0]
  /\ disk = [o \in Ordinals |-> "empty"] /\ started = [o \in Ordinals |-> NoStart]
  /\ forked = FALSE
-----------------------------------------------------------------------------
(* The entrypoint script. *)

(* --initial-cluster: the nodes of the topology, without the node itself. *)
Peers(o) == {p \in Ordinals : p < topology.replicas /\ p # o}

(* The script exits where the topology is missing, or names other nodes and lists none. *)
ScriptRuns(o) == topology.replicas > 0 /\ (Peers(o) # {} \/ topology.replicas = 1)

JoinExistingNever(o) == o >= topology.bootstrapSize /\ disk[o] = "roster"

JoinExistingPastFounders(o) == o > topology.bootstrapSize /\ disk[o] = "empty"

(* --join-existing: a node past the founding size with nothing on its volume. *)
JoinExisting(o) == o >= topology.bootstrapSize /\ disk[o] = "empty"

(* What the server takes from its command line: nothing, once its volume holds a roster. *)
entrypointScript(o) ==
  IF disk[o] = "roster" THEN NoStart ELSE [list |-> Peers(o) \cup {o}, join |-> JoinExisting(o)]

NodeStarts(o) ==
  /\ PodStarts(o) /\ ScriptRuns(o)
  /\ started' = [started EXCEPT ![o] = entrypointScript(o)]
  /\ disk' = [disk EXCEPT ![o] = IF @ = "empty" THEN "used" ELSE @]
  /\ UNCHANGED <<topology, forked, reportVars>>

(* A node that stops, or that holds a roster, has no use for the list it was started with. *)
Forget(disks) ==
  started' = [o \in Ordinals |-> IF pods'[o] = "up" /\ disks[o] # "roster" THEN started[o] ELSE NoStart]
-----------------------------------------------------------------------------
(* The server, before and after its volume holds a roster. *)

(* The running nodes that hold no roster and were not told to wait for one. *)
Blank == {o \in Ordinals : pods[o] = "up" /\ disk[o] = "used" /\ ~started[o].join}

(* A blank node and a majority of the nodes it was given, itself among them. *)
Elects(o, electors) ==
  /\ o \in electors /\ electors \subseteq Blank \cap started[o].list
  /\ 2 * Cardinality(electors) > Cardinality(started[o].list)

(* The elected node commits the list it was started with as the first roster; or as another
   one, if its electors have not heard of the first. *)
CommitRoster ==
  \E o \in Blank : \E electors \in SUBSET Blank :
    /\ Elects(o, electors)
    /\ IF roster = NoRoster THEN SeedRoster(started[o].list) /\ UNCHANGED forked
                            ELSE forked' = TRUE /\ UNCHANGED vars
    /\ disk' = [p \in Ordinals |-> IF p \in electors THEN "roster" ELSE disk[p]]
    /\ Forget(disk') /\ UNCHANGED <<topology, reportVars>>

(* A member that was not among the electors receives the roster from the leader. *)
ReceiveRoster(o) ==
  /\ pods[o] = "up" /\ disk[o] = "used" /\ roster[o] # "NotMember" /\ Quorum
  /\ disk' = [disk EXCEPT ![o] = "roster"]
  /\ UNCHANGED <<allVars, topology, forked>> /\ Forget(disk')

(* A node is admitted that was told to join, or that was a member before. *)
Admit(o) ==
  /\ Join(o) /\ (started[o].join \/ disk[o] = "roster")
  /\ disk' = [disk EXCEPT ![o] = "roster"]
  /\ Forget(disk') /\ UNCHANGED <<topology, forked, reportVars>>

(* A node is lost with its volume, at a time when every member's volume holds the roster. *)
LoseVolume(o) ==
  /\ PodFails(o) /\ roster # NoRoster /\ \A p \in Members(roster) : disk[p] = "roster"
  /\ disk' = [disk EXCEPT ![o] = "empty"]
  /\ Forget(disk') /\ UNCHANGED <<topology, forked, reportVars>>
-----------------------------------------------------------------------------
(* The size the pass was asked for, not the one the StatefulSet has or will be given. *)
topologyEnv == [replicas |-> target, bootstrapSize |-> PinnedSize]

(* Reconcile up to listPods, reconcileConfigMap included. *)
RenderTopology ==
  /\ List
  /\ topology' = topologyEnv
  /\ UNCHANGED <<disk, started, forked>>

FoundingPass == RenderTopology \/ ((Proceed \/ Report) /\ UNCHANGED entryVars)

KeepVolumes(step) == step /\ Forget(disk) /\ UNCHANGED <<topology, disk, forked, reportVars>>

Platform ==
  \/ \E o \in Ordinals : NodeStarts(o)
  \/ KeepVolumes(ScalePods \/ FinishRollout \/ \E o \in Ordinals : RollPod(o) \/ PodStops(o))

Nodes ==
  \/ CommitRoster \/ \E o \in Ordinals : ReceiveRoster(o) \/ Admit(o)
  \/ KeepVolumes(Rebalance \/ \E o \in Ordinals : Promote(o) \/ Evict(o))

FoundingNext ==
  \/ FoundingPass \/ Platform \/ Nodes
  \/ KeepVolumes(EditSpec \/ CacheCatchesUp \/ \E o \in Ordinals : PodFails(o))
  \/ \E o \in Ordinals : LoseVolume(o)

FoundingSpec == ReportInit /\ EntryInit /\ [][FoundingNext]_everything

FoundingFairness ==
  /\ WF_everything(RenderTopology \/ ((Proceed \/ Report) /\ Pass /\ UNCHANGED entryVars))
  /\ WF_everything(KeepVolumes(CacheCatchesUp))
  /\ WF_everything(Platform) /\ WF_everything(Nodes)
-----------------------------------------------------------------------------
(* One cluster, one roster: whatever sizes the topology went through while its nodes started,
   no two groups of them commit a roster each (the peer list and the join mode of the
   entrypoint script). *)
OneRoster == ~forked
=============================================================================
