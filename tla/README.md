# TLA+ verification of the Kahuna operator

Models, model-checking runs and machine-checked proofs for the operator under `src/`, which keeps
a replicated Kahuna cluster at the size, backup schedule and TLS configuration that a
`KahunaCluster` object asks for.

- [The system](#the-system)
- [Modules](#modules)
- [Runs](#runs)
- [Proofs](#proofs)
- [Where code and documents disagree](#where-code-and-documents-disagree)
- [Known boundaries](#known-boundaries)
- [Not modelled](#not-modelled)

## The system

One controller reconciles one kind of object. Reconciles of one object never overlap: the work
queue serialises them and leader election keeps a second operator idle. Everything around a
reconcile is concurrent: users edit the object, Kubernetes starts and stops pods, the Kahuna
server commits membership changes and moves replicas, cert-manager issues keystores, the volume
controller binds claims, and a backup runs in a goroutine.

| Part | State | Operations | Interacts with |
|---|---|---|---|
| Reconcile pass (`kahunacluster_controller.go`) | `status`, and what a pass has read so far | read the cluster, pin the founding size, read pods, roster and placement, plan, decommission, write the StatefulSet, write the status | every other part |
| Plan (`plan.go`) | none | `buildPlan`, `rosterMatches`, `placementSettled` | called by the pass |
| Membership (`membership.go`, `kahuna/client.go`) | none | `readMembership`, `decommission` | the server's roster and leave API |
| Autoscaler (`autoscaler.go`) | `status.autoscaling`, the sampler's readings in memory | `measure`, `decideAutoscale`, `growthCeiling`, `reconcileAutoscaling` | gives the pass its target; reads metrics and placement |
| Backups (`backup.go`) | `status.backup`, the runner's jobs in memory, the claim and the signing key | `reconcileBackup`, the runner, `runBackup`, `applyBackupResult`, `reconcileBackupResources` | the server's backup API; waits for a steady cluster |
| TLS (`certificate.go`) | the password Secret, the Certificate, the keystore Secret | `reconcileKeystorePassword`, `reconcileCertificate`, `replaceStaleKeystore`, `certificateReady` | cert-manager |
| Entrypoint, topology (`entrypoint.go`) | the topology ConfigMap, the data volumes | `topologyEnv`, the script that decides how a node seeds or joins | the pods, the server's first election |
| Rollout and status (`reconcileStatus`, `imageRolledOut`) | `status.phase`, `status.currentImage` | update partition, image, phase | the pass; the StatefulSet controller's rolling update |

What makes it hard:

- A pass reads pods, roster and placement one after another and acts later; the cluster moves in
  between.
- The cluster object is read live, everything else through an informer cache that may lag the
  operator's own writes.
- A pass can end between any two steps: an API error, a conflict, a restart. The status is
  written last, so decisions that were already carried out can be forgotten.
- The leave call can be refused, or be committed and its answer lost.
- Backups live in memory only and finish while no pass looks.
- Sizes, images, schedules, claims and passwords can be edited at any of these moments.
- A node reads the topology once, when it starts: nodes of one cluster may have been started with
  lists of different length, and elect their first roster among themselves.
- The status is computed from three readings of different age: pods, roster, StatefulSet.

What should be true: a founded cluster changes one node at a time, each step complete before the
next; no node is deleted before it left; a majority survives every step; the requested size is
reached. Its nodes commit one roster, not two. Pods are released to a rolling update only while no
membership change is under way, and what is reported of size and image is true. No scheduled backup
is skipped, none is taken twice, failures are spaced and reported, two never overlap. Volumes with
backups, signing keys and passwords are never thrown away. The autoscaler acts on evidence, its
steps stick, it does not exceed the replication cap, and it comes to rest.

## Modules

Each specification keeps the control of the code (every guard, early return, error path and
their order) and abstracts the data. `PROJECT.json` maps every definition to its lines.

### Plan, Scaling, ClusterSize

`Plan` has the pure functions of `plan.go` under their own names. `Scaling` is the pass:
`pc` names the next step and `pass` is what the pass remembers, so that every other process may
move between two steps.

| Code | Model |
|---|---|
| `spec.replicas`, `spec.image`, `metadata.generation` | `target`, `image`, `Generation` |
| `status.bootstrapSize`, `status.bootstrapped` | `bootstrapSize`, `bootstrapped` |
| the StatefulSet (size, partition, image), and the copy in the cache | `sts`, `cached`, `fresh` |
| `status.currentRevision` of the StatefulSet | `revision` |
| pods by ordinal, and what they run | `pods` (absent, pending, up, left, stopping), `podImage` |
| the committed roster; where settled replicas sit | `roster`, `hosts` |
| `Reconcile` up to the roster | `Begin`, `ReadMembership` |
| `readPlacement` and the first Get of `reconcileStatefulSet` | `MakePlan`, `CreateStatefulSet` |
| the rest of `reconcileStatefulSet` | `decommission`, `WriteStatefulSet` |
| `reconcileStatus` | `reconcileStatus`; rejected when the object was edited |
| an error return, or a restart | `Abort` |

Kubernetes (`ScalePods`, `RollPod`, `FinishRollout`, `PodStarts`, `PodStops`, `PodFails`,
`CacheCatchesUp`) and the server (`Seed`, `Join`, `Promote`, `Evict`, `Rebalance`) are external
actions, modelled from how the operator uses them. A rolling update takes the pods above the
partition from the top, one at a time; a pod is created from the current revision below the
partition and from the template at or above it. `SlowRestarts` says whether a pod may be down for
longer than the server's eviction grace. `lags` chooses, per behaviour, whether the cache may lag.
`rosterSeen` and `dataSeen` are history variables.

`ClusterSize` is the abstract specification: five variables and three actions that say what is
promised of the size, with no pass, no cache and no pods. `Scaling` implements it under the mapping
`Promise`: the size asked for and the founding latch are those that the pass under way has read,
the history variables are the abstract "admitted" and "rehomed".

Abstractions: `readMembership` answers with the committed roster, not a node's lagging view; the
role Leaving is a member that is no voter; a decommissioned pod no longer answers; any change of the
pod template behaves as a change of image.

### ClusterStatus

`Scaling` composed with what the operator reports: every step of the pass is one of `Scaling`
(`List`, `Proceed`, `Report`) that also keeps the pods it listed and, in its last step, writes
`phase` and `currentImage`. `Phase` is the decision of `reconcileStatus` in the order of its cases,
`imageRolledOut` and `backupBlocked` are the functions of those names. The counters of the
StatefulSet may be as old as the pass. `Progressing`, `RosterConverged` and `Available` repeat the
tests of the phase and are not kept apart.

### Founding

`ClusterStatus` composed with the way nodes find each other. `RenderTopology` is the first step of
the pass with `reconcileConfigMap` in it; `NodeStarts` runs the entrypoint script on the topology of
that moment and on the node's volume, which is empty, used, or holds a roster. The server's part is
external: a node with no roster that was not told to join needs a majority of the list it was
started with (`CommitRoster`); a node is admitted if it was told to join, or was a member before
(`Admit`). If the electors do not know of the first roster they commit another, and `forked`
records it. A node may lose its volume with its pod, when every member's volume holds the roster.

### Autoscaler

One pass of `reconcileAutoscaling` with the resize and the status write that follow it. A timestamp
is its age in ticks. Rates are exact, both targets are set, and a tick is at least the minimum
sample interval, so the sampler is reduced to what it knows of the pod it knows least about. A
container that restarts in its pod (`RestartContainer`) keeps the pod's samples and starts its
counters over, which `observeSample` has to notice. The load is the cluster's total. `moving`
stands for replicas in flight and for replicas stranded on a node that left; `even` for the share
check. Nodes join and leave in ordinal order, so the roster is its size; leave and shrink are one
step, since `Scaling` has their details. `chosen`, `highFor`, `lowFor` and `panicked` are history.

### Backup

`reconcileBackup` within a pass, beside the goroutine of the runner's job. A cron schedule is the
set of its times; the clock ticks. A pass reads a `site` (pods, roster, claim) that may differ at
each pass. The job asks the nodes in turn (`runBackup`), and ends taken, unclaimed, failed or with
its parent missing. `Restart` loses the runner's memory, `Prune` deletes a backup from the volume,
and `strays` counts backups that run without being the runner's job. `taken` and `lost` are
history.

### Keystore

The password Secret, the Certificate and the keystore Secret, for every source of keystore and
password. `secrets` is the sequence of joint states of the two Secrets: its head is what the
cache shows, its last element is current. cert-manager reads the password fresh and does not
reissue for a changed password, which is why the operator deletes stale keystores. A password is
an identity and whether it ends in a newline; the pods trim it and cert-manager does not.
`spec.tls` is not edited; keystores that cannot be parsed are left out.

### BackupClaim

The claim that the operator creates for `spec.backup.volume.claim`, and the signing key. `claims`
runs from the cached to the current state of the claim, whose phase is none, pending, assigned,
bound, lost or terminating. A pass that decided to replace a claim (`pc = "replace"`) deletes the
version it saw, and no other. A claim or key of the user's own is left out.

### MC modules

`MCScaling`, `MCClusterStatus`, `MCFounding`, `MCBackup`, `MCAutoscaler`, `MCKeystore` and
`MCBackupClaim` extend their specification with the sets that a `.cfg` cannot write. `MCScaling`
starts from a founded cluster at rest, of each size, which the program reaches and from which larger
clusters can be explored. `MCFounding` starts from nothing. Both give the initial states different
budgets of edits and failures, so that one run covers several scenarios without their product.

## Runs

`tlc -config <run>.cfg <MC module>` in this directory. All runs check for deadlock.

| Run | Shows | Bounds |
|---|---|---|
| `ScalingSafety` (`PassInvariant`, `OneAtATime`, `DecommissionBeforeDelete`, `StepsSerialised`, `RollsWhenWhole`, `StepsKeepQuorum`, `KeepsPromise`) | Every resize of a founded cluster is one step toward the target, after the departing node left and after the previous step was complete in roster and placement; no leave or resize takes away a majority that would have remained; pods roll only while no membership change is under way; the size behaves as `ClusterSize` | 3 to 5 nodes, 1 edit of the size with 1 failure of any kind (aborted pass, pod, read, refused leave, lost answer); or 3 nodes, grown to 4 at most, with 1 upgrade that overlaps the edit |
| `Founding` (`FoundingTypeOK`, `OneRoster`, `BackupsAwaitSteps`, `ReportIsTrue`, `RolloutFinishes`) | From nothing, however the topology changed while the nodes started, they commit one roster; a pass that resizes starts no backup; Running and the image are reported when they are true; the cluster ends founded, at its size, on its image, and says so | 3 nodes made 5 at any time, 4 made 3 once there is a roster, with 2 failed reads or refused leaves; or, with a cache that lags, 3 nodes that are upgraded once, or that meet 2 failures (aborted pass, read, pod, volume) |
| `BackupSchedule` (`OneBackupAtATime`, `ServedOnce`, `FailuresAreSpaced`, `CatchesUp`) | Backups never overlap, a schedule time is served once, failures keep the backoff, the schedule is caught up with | 5 clock values, 3 failures, restarts or pruned backups |
| `BackupFaults` (`TypeOK`, `AnchorIsCovered`, `FailuresAreReported`, `UnclaimedIsBounded`, `OneRunCoversMissed`) | The anchor stands for a backup that succeeded, condition and counters agree, one run covers missed ones | 3 clock values, 2 nodes, 2 edits (suspended, removed, invalid), 2 failures of any kind, five kinds of site |
| `AutoscalerSafety` (`TypeOK`, `OneStepAhead`, `StepsEarned`, `DecisionsStick`, `NoShrinkUnderLoad`, `CapHeld`, `Settles`) | Steps are earned by a whole window, one at a time, stick, never shrink a loaded cluster, respect the cap, and end | 3 to 5 nodes, 4 loads changed twice, 2 failures (reads, leave, operator restart, container restart), an uneven share allowed |
| `AutoscalerEdits` (`Settles`) | The same end after an edit or an aborted pass | 3 to 5 nodes, 1 edit, 1 change of load, 1 aborted pass |
| `Keystore` (`WritesPerChange`, `NoNeedlessDelete`, `PasswordKept`, `Cured`, `Reported`) | A keystore is deleted only for a changed password and then once, operator and cert-manager do not delete and issue it in turns, a generated password is never replaced, a stale keystore is cured, `KeystoreReady` is right in the end | every source of keystore and password, 2 renewals, rotations or re-creations, 1 aborted pass, any lag of the cache |
| `BackupClaim` (`ReplacedPerEdit`, `BackupsKept`, `KeyKept`, `ClaimBinds`, `VolumeReported`) | A claim that had a volume is never deleted, an edit replaces a claim once at most, the signing key stays, a claim that can bind does, `BackupVolumeReady` is right in the end | 5 specs, 2 edits, 1 lost volume, 1 aborted pass, any lag of the cache |
| `StaleStatefulSet`, `LostLeave`, `Rollback`, `AutoscalerNoPlacement` | Counterexamples; see below | |

Why these bounds. Sizes 3 to 5 have an even and an odd majority and two steps in either direction.
One edit can come at any step of any pass, so it covers every interleaving of a pass with a changed
target; two would only add reversals, which `ScalingProofs` covers for the safety properties. Two
images are enough for a rollout, and for one that is taken back. Windows and timeouts of one and
two ticks tell "not yet", "just now" and "long ago" apart. `MaxWrites` bounds the resource versions
in `Keystore` and `BackupClaim`, and with it how far the cache lags: it is larger than the largest
number of writes the other bounds allow. That there is such a number, whatever these bounds are, is
`WritesPerChange` and `ReplacedPerEdit`; both are proved. The clock of `Backup` ends at `MaxTime`; `CatchesUp` therefore
excuses a retry that falls past it, and no failure happens in the last tick.

Fairness. Passes are weakly fair: every pass ends with a requeue, and the work queue retries one
that failed. The server's steps are fair together, not one by one: it takes some step while its
roster or its replicas lag, which leaves the order open. `RolloutFinishes` is checked with
`SlowRestarts` off, that is, for pods that come back within the eviction grace: a member that is
evicted on every restart is no matter of the operator. Weakly fair are also Kubernetes (pods
started and stopped, watch events delivered, claims bound, orphans collected), cert-manager, the
server's own membership changes and rebalancing, the end of a backup, whose context has a deadline,
and time. Failures, edits, load changes and pruning are never fair. All of these are external
progress that the operator assumes; none is a promise that another part of the operator makes.

Every property of a passing run has a mutant in `PROJECT.json`: a definition of the model changed
as a plausible bug would change the code (a dropped guard, an off-by-one, a missing reset), under
which TLC finds the property violated. The mutants stand beside the definitions they change.

## Proofs

`tlapm <module>.tla` checks each module. The theorems hold for every value of the constants that
satisfies the named assumptions, hence for every number of nodes, edits and failures.

### ScalingProofs

Assumptions: `MaxNodesAssumption`, `ScalingAssumption` (sizes within range and as the CRD admits
them). "Cache" stands for `StaleReads = {FALSE}`, a cache that holds the operator's own writes; it
is necessary, and `StaleStatefulSet` is the counterexample without it.

| Theorem | Statement |
|---|---|
| `TypeCorrect` | `Spec => []TypeOK` |
| `PassStaysConsistent` | `Spec => [](TypeOK /\ PassInvariant)` |
| `ResizesOneAtATime` | with Cache, `Spec => OneAtATime` |
| `DecommissionsBeforeDeleting` | with Cache, `Spec => DecommissionBeforeDelete` |
| `StepsAreSerialised` | with Cache, `Spec => StepsSerialised` |
| `RollsAreWhole` | with Cache, `Spec => RollsWhenWhole` |
| `SizeIsAsPromised` | with Cache, `Spec => KeepsPromise`: `Scaling` implements `ClusterSize` |
| `ReportScales` | `ReportSpec => Spec`: every theorem above holds of the pass with its status |
| `BackupsWait` | with Cache, `ReportSpec => BackupsAwaitSteps` |

What `plan.go` computes comes first: a plan for a founded cluster keeps the size or moves it by one
toward the request (`BuildPlanStep`), only on a matching roster and a settled placement
(`BuildPlanGated`), and releases pods to a rollout only when it does not move
(`BuildPlanReleases`). `RosterMatchesExactly` shows by counting that the code's comparison of a
roster with a size means equality of sets.

The action properties speak of the write, but what justifies the write happened several steps
earlier, with the environment moving in between. `PassInvariant` carries it: the size the plan was
made from is still the StatefulSet's (`PlannedFromCurrent`); the plan is one step
(`PlanIsOneStep`, from `BuildPlanStep`); a plan that shrinks reached the write only past
`decommission` (`ShrinksAfterLeave`); and a plan that resizes witnesses that roster and placement
had both matched since the last resize (`PlanIsGrounded`, from `BuildPlanGated` and
`RosterMatchesExactly`).

For the refinement the pass is also shown to remember the request and the latch it began with, and
that before the cluster is founded its plan is the request itself (`PassFacts`). A step that leaves
the size alone then maps to `Observe` or to a stutter (`ObservesWithoutResize`), one that changes it
to `Provision` or `Step` (`ResizesAsPromised`).

For `BackupsWait`, a plan that moves a founded cluster was made on a roster that matches the size it
leaves (`PlanOnRoster`, kept with the plan until the write); that size is not the one asked for, so
the same roster fails the test of `backupBlocked`.

### SettledProofs

Assumptions: those of `ScalingProofs`.

| Theorem | Statement |
|---|---|
| `QuorumIsKept` | with Cache, `"pod" \notin Faults` and `1 \notin Sizes`, `Spec => [](AtRest => []QuorumAhead /\ StepsKeepQuorum)` |

`AtRest` is a founded cluster of three nodes or more between two passes: every node of the
StatefulSet runs and votes, no other does or will, and the last upgrade is complete. From there on,
whatever the size is edited to and however many passes abort, reads fail and leaves are refused or go
unanswered, a majority of the voters runs on pods that the StatefulSet keeps (`QuorumAhead`), and no
leave and no resize takes it away (`StepsKeepQuorum`).

`QuorumAhead` is far from inductive. `Steady` is what a step preserves: all nodes but the top one are
running voters, the top one runs if it is a member, and above the StatefulSet at most the first node
is still one (`NodesSteady`); and a pass that read a matching roster acts on a cluster that is whole,
up to the leave it asks for itself (`PassSteady`). A leave that was lost, or that an edit overtook,
leaves the top node out of the roster, and no further step is taken before the roster matches again;
so the voters outnumber the lower nodes by one at most, and the lower nodes are two or more
(`SteadyHasQuorum`). Without the pod failures left out, TLC finds a leave that meets nodes that are
down after two edits. Whether the theorem also holds with a lagging cache is open: TLC finds no
counterexample with two edits.

The module also has what `FoundingProofs` uses. For a cluster whose size is not edited, `SizeStays`;
and, with one upgrade at most, `ImagesInv`: the new image is on no pod before it is in the template,
and once it was listed on every node, or reported, the rollout has reached every pod and stays so
(`TemplateFirst`, `ReportHolds`). For a cluster whose image is not edited any more,
`OneImage`: pass, StatefulSet, revision and pods all have the requested one.

### FoundingProofs

Assumptions: those of `ScalingProofs`.

| Theorem | Statement |
|---|---|
| `FoundingIsTyped` | `FoundingSpec => []FoundingTypeOK` |
| `RosterIsOne` | with `MaxEdits = 0`, `~SlowRestarts` and `1 \notin Sizes`, `FoundingSpec => []OneRoster` |
| `ReportsAreTrue` | with `MaxUpgrades = 0`, or `MaxEdits = 0` and `MaxUpgrades = 1`, `FoundingSpec => ReportIsTrue` |
| `BackupsWaitFromTheStart` | with Cache, `FoundingSpec => BackupsAwaitSteps` |

A step of the composition is a step of `Scaling`, but for the list that becomes the first roster,
which may have been rendered for a size no longer asked for (`FoundingSteps`); the types follow from
those of `Scaling` and this one case (`SeedType`).

`RosterIsOne` covers what the run `Founding` bounds: every number of nodes, any number of pods that
fail, volumes that are lost and images that are changed, passes that are aborted and a cache that
lags. `OneRoster` alone says nothing of the next step. `RosterInv` adds that every size the operator
handles is the requested one (`SizeStays`); that only founders have pods and volumes, and those that
wait for a roster were given the list of all founders (`OnlyFounders`); and that a majority of the
founders holds the committed roster (`MajorityHolds`). The nodes that could elect another one would
be a majority too, of the same founders, so the two would share a node (`Overlap`), which cannot both
hold a roster and wait for one.

Each of the three assumptions is needed, and TLC finds two rosters without it: a size that is edited
during the founding hands out lists of different length; a founder that is evicted before it received
the roster waits with its list, and elects another with the next founder that loses its volume; and
the only node of a cluster of one is a majority by itself once its volume is lost. What the operator
guarantees of the founding is thus conditional, and the conditions are the ones a user has to know.

`ReportsAreTrue` holds with any lag of the cache and any failures. The pods are listed before the
StatefulSet is written and the status decided, and nodes come and go in between; `ImagesKnown` carries
the two invariants of `SettledProofs` through the composition, whose steps are those of the pass with
its status, or leave the status alone (`FoundingReports`). The assumption is needed: TLC finds a
report that is false for an upgrade that overlaps a resize, and for one that is taken back (see the
boundaries below).

`BackupsWaitFromTheStart` cannot follow from `BackupsWait`, since the composition takes one step that
`Scaling` does not have: a list that is no longer the requested one becomes the first roster. Its
argument is that of `BackupsWait`, once that step is shown to keep what a pass knows (`SeedKeepsPass`).

### BackupProofs

Assumption: `BackupAssumption`. Theorems: `TypeCorrect`, `AnchorCovered`, `UnclaimedBounded`,
`FailuresReported`, and `OneBackup` for specs in which `spec.backup` is never removed.

A pass works on a copy of the status and may save it long after, or never. The inductive invariant
`IInv` therefore states the same `StatusInv` of the stored status and of the copy in `pass.st`, and
`JobInv` states what a finished job will do to it: a full backup that succeeded covers its
scheduled time, and a pending failure is counted within the failures that happened. Every action
either leaves a status alone while time, backups and failures only grow (`StoredKept`, `PassKept`),
applies a result to it, or copies one to the other.

The module ends with what `latestDue` computes: a time that is due, and none only when none is
(`LatestDueFindsOne`); and the latest one, unless `MaxMissed` times were missed before the one it
reached (`LatestDueWalks`). The argument counts: the time reached is the one of a given `Rank` among
those due, and every rank below their number is taken (`RankReached`).

### BackupScheduleProofs

| Theorem | Statement |
|---|---|
| `StartsCover` | `Spec => [][StartCovers]_vars` |
| `OneRunCovers` | for schedules of at most `MaxMissed` times, `Spec => []OneRunCoversMissed` |
| `FailuresSpaced` | `Spec => []FailuresAreSpaced` |
| `ServesOnce` | if `spec.backup` is never removed, `Spec => []ServedOnce` |

`StartsCover` holds for every schedule: a backup that starts is for the latest time due, unless
`MaxMissed` times were missed before it, and an incremental starts only when no full one is due.
`latestDue` gives up its walk at that bound, and `OneRunCoversMissed` can fail where a schedule
exceeds it; the assumption of `OneRunCovers` says that none does.

`FailuresSpaced` bounds the time of the n-th failure in a row from below by the sum of the delays
before it. `SpacedInv` says so of the stored status and of the copy in the pass (`Spaced`), and that
a job was started only after the delay that follows the last failure (`Rested`), so that its own
failure, whenever it is applied, keeps the bound. That the doubling loop of `backupRetryDelay`
computes `RetryInitial * 2^(n - 1)` up to `RetryMax` is an induction over n; it is carried out on
the set of numbers for which the claim holds (`NatSetInduction`, `RecExists`, `DoublePower`), because
the induction theorems of the library cannot be instantiated by the provers at hand.

For `ServesOnce`, `InOrder` says that no two backups were taken for the same time, that a running job
is for a later time than all of them, and that each of them lies `Behind` the anchors the pass or the
status holds: no backup that becomes due by these anchors can be for its time again. This includes
the full schedule an incremental must stay clear of (`Clear`). Removing `spec.backup` forgets the
anchors, and with them what was served; hence the assumption.

### BackupClaimProofs

Assumption: `BackupClaimAssumption`. Theorems: `BackupsAreKept`, `KeyIsKept`, `ReplacesPerEdit`
(`Spec => []ReplacedPerEdit`) and `ClaimIsTyped` (`Spec => []TypeOK`). The claim a pass decided to
replace was pending in the cache (`pc = "replace" => pass.claim.phase = "pending"`). The delete
names its version, so it takes effect only if the claim is still that one; the invariant and the
precondition together exclude every claim that has had a volume, however far the cache lags.

For the bound on writes, `WritesInv` counts the writes still to come (`WritesAhead`): those of the
claim's own life, and three more for a replacement that is open, because the claim is not the one
the current spec asks for, or because a pass is under way that read an earlier spec. Only an edit
opens one, and it pays for it; a claim that a pass creates from the current spec matches it
(`CreatedMatches`).

### KeystoreProofs

Assumption: `KeystoreAssumption`. Theorems: `DeletesWithCause` (`Spec => NoNeedlessDelete`),
`PasswordIsKept` (`Spec => PasswordKept`), `WritesAreBounded` (`Spec => []WritesPerChange`) and
`KeystoreIsTyped` (`Spec => []TypeOK`), however far the cache lags.

A pass judges a keystore by a password it reads later, and neither reading need be current.
`SecretsInv` orders the joint states of the two Secrets that the cache still has to deliver:
versions never go back, and a keystore is sealed under a password version that existed by then.
`PassInv` says what that order leaves a pass to hold: since the keystore was read first, either it
was sealed under an earlier version of the password than the current one, or the password the pass
holds is the current one. A keystore that does not open with it is stale in both cases.

For the bound on writes two counts are needed. `VersionInv` bounds the versions of the password by
the KahunaClusters that were deleted, counting ahead what a pass that began for a deleted one may still
generate (`PasswordsAhead`). `WritesInv` bounds the versions of the keystore by those of the password
it was issued under: a keystore that is deleted was issued under an earlier password than the one
there is (`DeletedIsOlder`), so every delete uses up a version. Of a generated password only every
other version can be issued under, the ones between being its collection (`NumbersInv`), which is what
makes the bound four and not eight for a KahunaCluster that is deleted.

### AutoscalerProofs

The types, the decision and `NeverShrinksUnderLoad` come first, then the invariants of an unedited
cluster.

Assumptions: `MaxNodesAssumption`, `AutoscalerAssumption`. "Unedited" stands for `MaxEdits = 0`,
"unbroken" for `"abort" \notin Faults`; the boundaries below say why they are needed.

| Theorem | Statement |
|---|---|
| `TypeCorrect` | `Spec => []TypeOK` |
| `NeverShrinksUnderLoad` | `Spec => NoShrinkUnderLoad` |
| `GrowthIsCapped` | unedited, `Spec => CapHeld` |
| `StepsAreEarned` | unedited and unbroken, `Spec => StepsEarned` |
| `DecisionsAreKept` | unedited and unbroken, `Spec => DecisionsStick` |
| `OneStepAtATime` | unedited and unbroken, `Spec => []OneStepAhead` |

`DecisionStep` says what every way out of `decideAutoscale` has in common; `RecommendedSafe` that
the traffic asks for less only if both signals are known and below target, which rests on the
arithmetic of `CeilAbove`. `StepKinds` reduces the steps of an unedited cluster to what the
invariants speak of. `Carried` (the pass holds the spec and, until it decides, the stored choice,
all within the bounds) supports the others: `Capped` bounds the size that stored status and pass
are moving to, `Streaks` bounds the age of a streak by the time passes have witnessed it, in the
copy of the pass between its decision and the status write and in the stored status otherwise,
`Followed` says which of the two is the last choice, and `Advances` that a cluster with a choice
still to carry out has its whole StatefulSet in the roster. The last needs the reading of the roster
as well: one that matches the size decided on was taken when the StatefulSet had that size.

### Only model-checked

- Liveness (`RolloutFinishes`, `CatchesUp`, `Settles`, `Cured`, `Reported`, `ClaimBinds`,
  `VolumeReported`): the prover handles neither fairness nor ENABLED.
- `StepsKeepQuorum` of a cluster whose pods fail or whose image is being changed, and of one that has
  not come to rest yet: it holds within the scenarios of `ScalingSafety` and not for every sequence
  of edits and failures (see the boundaries below), so it is no statement for every value of the
  constants. For the same reason `OneRoster` of a cluster that is resized while it is founded is only
  model-checked, in the scenario of the run `Founding`.

## Where code and documents disagree

Four runs are expected to fail; `PROJECT.json` quotes the lines.

- `StaleStatefulSet`: `reconcileStatefulSet` reads the StatefulSet twice through the cache, planning
  from the first read and taking the version from the second. When the event of the operator's own
  write arrives in between, an update planned from the older size is accepted, and the size moves
  by two nodes or away from the target. A comment in the controller calls a stale read harmless.
- `LostLeave`: a pass that ends between a committed leave and the StatefulSet update leaves a
  roster one short of the StatefulSet. `rosterMatches` is false from then on, `buildPlan` holds, and
  nothing asks the node again. `decommission` is documented to be tried again.
- `Rollback`: an upgrade that is taken back half-way finds `status.currentImage` already at the old
  image, so a pass that lists nodes on the newer one reports the cluster Running. A comment says that
  readiness alone would do that, and that the comparison of images prevents it.
- `AutoscalerNoPlacement`: a server without the placement API reaches `growthCeiling` with a nil
  placement once its roster has converged, and every pass panics.

## Known boundaries

Where a property is stated or bounded as it is because the code does not give more. Each can be
seen by changing the named constant in the run's `.cfg`, or the scenario of its MC module.

- `OneAtATime` and `DecommissionBeforeDelete` speak of founded clusters. Before
  `status.bootstrapped` latches, `buildPlan` returns the target itself, so a size reduced during
  founding removes several members at once and asks only the highest to leave.
- `DecommissionBeforeDelete` excuses a pod that had no IP when the pods were listed. By the time of
  the write it may run, and its node may still be a member.
- Bootstrap latches on the number of voters, not on which nodes they are: after an edit during
  founding the voters need not be the nodes of the requested size.
- `StepsKeepQuorum` fails when pods fail and there is a second edit or a second failure (`MaxEdits`,
  `MaxFaults`): the plan does not look at readiness, so a leave can meet a roster whose other nodes
  are down. Where no pod fails and no image is changed, `QuorumIsKept` excludes it.
- `StepsKeepQuorum` also excludes an upgrade in progress (`revision = sts.image`): a pod that is
  being rolled and a node that leaves can together be more than a minority.
- `RolloutFinishes` does not hold after two edits of the size: reduced and raised again (4, 3, 4) at
  the wrong moment, it keeps the pod of a node that has already left. Nor does it after an aborted pass
  that follows a leave (`LostLeave`), a lost answer of the leave call, or an edit while the cache lags.
- A cluster created at 4 and reduced to 3 before it has a roster may be founded with all four voters
  on a StatefulSet of three, and stays ScalingDown; with lists of different length among the founders
  `OneRoster` itself is at stake. `MCFounding` therefore shrinks a cluster only once it has a roster.
- A late node that restarts after its first start and before it is admitted has data on its volume
  and is started without `--join-existing`: the script takes it for a member. `MCFounding` has no pod
  fail in the scenario in which the cluster grows.
- `ReportIsTrue` is checked without an upgrade that overlaps a growing cluster, and without a rollback
  (`Rollback`). `currentImage` stays at the new image once it was reached: a pod that is then created
  below the partition, from a revision the StatefulSet controller has not yet moved on, runs the older
  image in a cluster that is reported Running.
- `BackupsAwaitSteps` is about the pass that resizes. A size edited back (3, 4, 3) while the fourth
  node joins lets a later pass start a backup before the step is complete, and nothing stops a scale
  or a rollout while a backup runs.
- `OneBackupAtATime` needs `spec.backup` to stay: removed and added again while a backup runs, the
  runner forgets the running one and starts another (`Specs` with a spec that is absent). `ServedOnce`
  excuses a history in which a finished result was not saved (`lost`): an edit, an error or a
  restart between the poll and the status update drops it, and the backup is taken again.
- A full backup moves the incremental anchor to its own end, so incremental times that pass during
  a long full backup are skipped.
- `StepsEarned` and `DecisionsStick` are checked without aborted passes (`Faults` with "abort"): a
  pass that resizes, or clears a streak, and then fails to write the status leaves the previous
  status in force, and a later pass takes the step back or takes one the traffic had not earned.
- `CapHeld` is checked without edits: a raised `minReplicas` applies at once, past the cap.
- `Settles` with an uneven share is checked without edits: a cluster that the autoscaler takes over
  has no `lastScaleTime`, so the wait for an even share has no bound until the first step.
- `Reported` assumes that a supplied password Secret exists (`Given`): `KeystoreReady` is true
  without it. A cert-manager whose own cache lags could reissue with the old password and have its
  keystore deleted again; here it reads fresh.
- `ClaimBinds` is checked for claims that name their class: when the class is removed from the spec,
  the unbound claim keeps the old one and is not replaced.

## Not modelled

- Rendering (Services, PodDisruptionBudget, the StatefulSet's template, the static arguments of the
  entrypoint, certificate names): pure functions of the spec, applied idempotently.
- HTTP transport, JSON and timeouts of the client: the callers' outcomes are modelled.
- The view of a node that lags behind the committed roster: `readMembership` asks whichever node
  answers first, and how far a node may lag is the server's matter.
- The values of the sampler's counters: rates are exact, and only whether a rate is known, and whether
  its baseline belongs to an earlier container, is kept.
- The member rows, the conditions that repeat the tests of the phase, wording, events.
- Deletion of the KahunaCluster: the operator has no finalizer and Kubernetes collects what it owns.
- Generated code, start-up flags, charts, manifests and test helpers.
