----------------------------- MODULE BackupClaim -----------------------------
(***************************************************************************)
(* The claim that holds the backups and the key that signs them:           *)
(* reconcileBackupResources and readBackupVolume of backup.go, with the    *)
(* steps of Reconcile that run them and save BackupVolumeReady.            *)
(*                                                                         *)
(* Claim and Secret are read through the operator's cache.  The volume     *)
(* controller assigns a volume and then reports the claim bound, between   *)
(* any two steps of a pass.                                                *)
(***************************************************************************)
EXTENDS Integers, Sequences

CONSTANTS
  Specs,          \* what spec.backup may be edited to
  Classes,        \* the storage classes
  Works,          \* pairs of a storage class and an access mode it can provision
  DefaultClass,   \* the class the API server fills in
  Singles,        \* whether the cluster may have a single node, and always will
  MaxEdits, MaxLosses, MaxAborts,
  MaxWrites       \* how often the claim is written, a bound the edits never let it reach

Modes == {"ReadWriteOnce", "ReadWriteMany"}

(* spec.backup with the fields of volume.claim; an absent class is "unset". *)
AllSpecs == [on : BOOLEAN, modes : SUBSET Modes, class : Classes \cup {"unset"}, size : Nat]

ASSUME BackupClaimAssumption ==
  /\ Specs # {} /\ Specs \subseteq AllSpecs /\ DefaultClass \in Classes
  /\ Singles \subseteq BOOLEAN /\ Singles # {}
  /\ MaxEdits \in Nat /\ MaxLosses \in Nat /\ MaxAborts \in Nat /\ MaxWrites \in Nat
  /\ MaxWrites >= 4 + 3 * MaxEdits

VARIABLES
  spec, single, edits,
  claims,          \* the states of the claim from the cached one to the current one
  key, keyCached,  \* the signing key, 0 when there is none, and whether the cache has it
  ready,           \* the BackupVolumeReady condition: "none", "true" or "false"
  pc, pass,        \* the next step of the pass, and what it has read
  losses, aborts

vars == <<spec, single, edits, claims, key, keyCached, ready, pc, pass, losses, aborts>>

(* "assigned": the claim has a volume and its phase still says Pending. *)
Phases == {"none", "pending", "assigned", "bound", "lost", "terminating"}

Claims == [phase : Phases, modes : SUBSET Modes, class : Classes \cup {"unset"}, size : Nat, rv : Nat]

NoClaim == [phase |-> "none", modes |-> {}, class |-> "unset", size |-> 0, rv |-> 0]

Cached == claims[1]

Current == claims[Len(claims)]

NoPass == [spec |-> CHOOSE s \in Specs : TRUE, edits |-> 0, claim |-> NoClaim, ready |-> "none"]

(* The claim keeps its type, and the cache is never ahead of the API server. *)
TypeOK ==
  /\ spec \in Specs /\ single \in Singles /\ edits \in 0 .. MaxEdits
  /\ claims \in Seq(Claims) /\ Len(claims) > 0 /\ Current.rv <= MaxWrites
  /\ \A i \in 1 .. Len(claims) - 1 : claims[i].rv < claims[i + 1].rv
  /\ key \in Nat /\ keyCached \in BOOLEAN /\ (keyCached => key # 0)
  /\ ready \in {"none", "true", "false"}
  /\ pass \in [spec : Specs, edits : Nat, claim : Claims, ready : {"none", "true", "false"}]
  /\ pc \in {"idle", "claim", "replace", "key", "volume", "save"}
  /\ losses \in 0 .. MaxLosses /\ aborts \in 0 .. MaxAborts
-----------------------------------------------------------------------------
Init ==
  /\ spec \in Specs /\ single \in Singles /\ edits = 0
  /\ claims = <<NoClaim>>
  /\ key = 0 /\ keyCached = FALSE
  /\ ready = "none"
  /\ pc = "idle" /\ pass = NoPass
  /\ losses = 0 /\ aborts = 0

WriteClaim(c) == claims' = Append(claims, [c EXCEPT !.rv = Current.rv + 1])

(* Every node mounts the claim, so it is ReadWriteMany unless there is one node or the spec says. *)
desiredBackupClaim(s) ==
  [phase |-> "pending",
   modes |-> IF s.modes # {} THEN s.modes ELSE IF single THEN {"ReadWriteOnce"} ELSE {"ReadWriteMany"},
   class |-> s.class, size |-> s.size, rv |-> 0]

(* The API server fills in the class a claim leaves open. *)
Defaulted(c) == IF c.class = "unset" THEN [c EXCEPT !.class = DefaultClass] ELSE c

claimNeedsReplacingWhole(existing, desired) == existing.phase = "pending" /\ existing # desired

claimNeedsReplacingIgnoresClass(existing, desired) ==
  /\ existing.phase = "pending"
  /\ existing.modes # desired.modes \/ existing.size # desired.size

(* The claim never had a volume and asks for something else than the spec. *)
claimNeedsReplacing(existing, desired) ==
  /\ existing.phase = "pending"
  /\ \/ existing.modes # desired.modes
     \/ desired.class # "unset" /\ existing.class # desired.class
     \/ existing.size # desired.size

Begin ==
  /\ pc = "idle"
  /\ pc' = IF spec.on THEN "claim" ELSE "volume"
  /\ pass' = [NoPass EXCEPT !.spec = spec, !.edits = edits]
  /\ UNCHANGED <<spec, single, edits, claims, key, keyCached, ready, losses, aborts>>

(* Creates a claim that the cache does not have, unless it exists by now, or compares it. *)
ReconcileClaim ==
  /\ pc = "claim"
  /\ LET desired == desiredBackupClaim(pass.spec)
     IN  /\ pc' = IF claimNeedsReplacing(Cached, desired) THEN "replace" ELSE "key"
         /\ pass' = [pass EXCEPT !.claim = Cached]
         /\ IF Cached.phase = "none" /\ Current.phase = "none" /\ Current.rv < MaxWrites
              THEN WriteClaim(Defaulted(desired))
              ELSE UNCHANGED claims
  /\ UNCHANGED <<spec, single, edits, key, keyCached, ready, losses, aborts>>

PreconditionsNone(claim) == Current.phase \notin {"none", "terminating"}

(* The claim to delete is still the one that was compared. *)
Preconditions(claim) == Current = claim

ReplaceClaim ==
  /\ pc = "replace" /\ pc' = "key"
  /\ IF Preconditions(pass.claim)
       THEN WriteClaim([Current EXCEPT !.phase = "terminating"])
       ELSE UNCHANGED claims
  /\ UNCHANGED <<spec, single, edits, key, keyCached, ready, pass, losses, aborts>>

ReconcileKeyRewrites ==
  /\ pc = "key" /\ pc' = "volume"
  /\ key' = IF keyCached THEN key ELSE key + 1
  /\ UNCHANGED <<spec, single, edits, claims, keyCached, ready, pass, losses, aborts>>

(* Creates the key when the cache has none; a Secret that exists by now is kept. *)
ReconcileKey ==
  /\ pc = "key" /\ pc' = "volume"
  /\ key' = IF keyCached \/ key # 0 THEN key ELSE 1
  /\ UNCHANGED <<spec, single, edits, claims, keyCached, ready, pass, losses, aborts>>

VolumeReadyAnyMode(c) == c.phase = "bound"

(* The claim is bound, and every node can mount it. *)
VolumeReady(c) == c.phase = "bound" /\ (single \/ "ReadWriteMany" \in c.modes)

readBackupVolume ==
  /\ pc = "volume" /\ pc' = "save"
  /\ pass' = [pass EXCEPT !.ready = IF ~pass.spec.on THEN "none"
                                    ELSE IF VolumeReady(Cached) THEN "true" ELSE "false"]
  /\ UNCHANGED <<spec, single, edits, claims, key, keyCached, ready, losses, aborts>>

(* reconcileStatus: the update is refused when the KahunaCluster was edited since it was read. *)
SaveStatus ==
  /\ pc = "save" /\ pc' = "idle" /\ pass' = NoPass
  /\ ready' = IF pass.edits = edits THEN pass.ready ELSE ready
  /\ UNCHANGED <<spec, single, edits, claims, key, keyCached, losses, aborts>>

(* A step of the pass fails, or the operator stops. *)
Abort ==
  /\ pc # "idle" /\ aborts < MaxAborts
  /\ pc' = "idle" /\ pass' = NoPass /\ aborts' = aborts + 1
  /\ UNCHANGED <<spec, single, edits, claims, key, keyCached, ready, losses>>

Pass ==
  Begin \/ ReconcileClaim \/ ReplaceClaim \/ ReconcileKey \/ readBackupVolume \/ SaveStatus
-----------------------------------------------------------------------------
EditSpec ==
  /\ edits < MaxEdits /\ edits' = edits + 1
  /\ spec' \in Specs \ {spec}
  /\ UNCHANGED <<single, claims, key, keyCached, ready, pc, pass, losses, aborts>>

ClaimCatchesUp ==
  /\ Len(claims) > 1 /\ claims' = Tail(claims)
  /\ UNCHANGED <<spec, single, edits, key, keyCached, ready, pc, pass, losses, aborts>>

KeyCatchesUp ==
  /\ key # 0 /\ ~keyCached /\ keyCached' = TRUE
  /\ UNCHANGED <<spec, single, edits, claims, key, ready, pc, pass, losses, aborts>>

Provisionable(c) == \A m \in c.modes : <<c.class, m>> \in Works

VolumeStep(from, to) ==
  /\ Current.phase = from /\ Current.rv < MaxWrites
  /\ WriteClaim(IF to = "none" THEN NoClaim ELSE [Current EXCEPT !.phase = to])
  /\ UNCHANGED <<spec, single, edits, key, keyCached, ready, pc, pass, aborts>>

(* A volume is assigned to a claim its class can provision, then the claim is reported bound; a
   claim that is being deleted goes. *)
Assign == Provisionable(Current) /\ VolumeStep("pending", "assigned") /\ UNCHANGED losses

Bind == VolumeStep("assigned", "bound") /\ UNCHANGED losses

Remove == VolumeStep("terminating", "none") /\ UNCHANGED losses

Lose == losses < MaxLosses /\ losses' = losses + 1 /\ VolumeStep("bound", "lost")

CatchUp == ClaimCatchesUp \/ KeyCatchesUp

Volumes == Assign \/ Bind \/ Remove

Next == Pass \/ Abort \/ EditSpec \/ CatchUp \/ Volumes \/ Lose

Spec == Init /\ [][Next]_vars

(* Passes are requeued for ever, and the cache and the volume controller work. *)
Fairness == WF_vars(Pass) /\ WF_vars(ClaimCatchesUp) /\ WF_vars(KeyCatchesUp) /\ WF_vars(Volumes)

FairSpec == Spec /\ Fairness
-----------------------------------------------------------------------------
(* A claim that has or ever had a volume can hold backups, and is never deleted, however old the
   state is that the pass compared (reconcileBackupResources, claimNeedsReplacing). *)
BackupsKept == [][Current.phase \in {"assigned", "bound", "lost"} => Current'.phase # "terminating"]_vars

(* A claim is created, assigned, bound and lost once, and each edit of spec.backup is good for one
   replacement at most (deleted, removed, created again): passes that run on the same spec, or on
   an older one or an older claim than the current, do not undo each other's work for ever
   (claimNeedsReplacing). *)
ReplacedPerEdit == Current.rv <= 4 + 3 * edits

(* The key that signed the earlier backups is never replaced, whatever the cache shows and however
   often spec.backup comes and goes (reconcileBackupResources). *)
KeyKept == [][key # 0 => key' = key]_vars

(* Once the spec asks for a claim that can be provisioned, the cluster gets a bound one, whatever
   unbound claims earlier specs have left (reconcileBackupResources). *)
ClaimBinds ==
  <>[](spec.on /\ Provisionable(Defaulted(desiredBackupClaim(spec))) => Current.phase \in {"bound", "lost"})

(* The condition ends up saying whether every node can mount the claim (readBackupVolume). *)
VolumeReported ==
  <>[](ready = IF ~spec.on THEN "none" ELSE IF Current.phase = "bound" /\ (single \/ "ReadWriteMany" \in Current.modes)
                                            THEN "true" ELSE "false")
=============================================================================
