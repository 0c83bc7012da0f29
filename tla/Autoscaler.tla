----------------------------- MODULE Autoscaler -----------------------------
(***************************************************************************)
(* The autoscaler of a founded cluster: autoscaler.go, with the steps of   *)
(* Reconcile that apply its choice and save it in status.autoscaling.      *)
(*                                                                         *)
(* A timestamp is its age in ticks, capped at MaxAge; a tick is long       *)
(* enough for a new reading of the write counters.  The load is the total  *)
(* of the cluster, shared by its nodes, and rates are exact.  Nodes join   *)
(* and leave in the order of their ordinals, so the roster is its size.    *)
(* How a StatefulSet is resized safely is the subject of module Scaling.   *)
(***************************************************************************)
EXTENDS Plan

CONSTANTS
  UpWindow, DownWindow,   \* the stabilization windows
  SettleTimeout,          \* placementSettleTimeout
  MaxAge,                 \* older timestamps are not told apart
  TargetWrites, TargetQueue, TolerancePercent,
  Specs,          \* what spec.replicas and spec.autoscaling may be edited to
  Loads,          \* the total write rate and queue depth of the cluster
  PlacementKind,  \* "read", or "unsupported" for a server without placement
  Evens,          \* whether the rebalancer may end with a node short of its share
  MaxEdits, MaxShifts,   \* how often the spec and the load change
  Faults, MaxFaults      \* which failures may happen, and how many

NoAge == -1

Ages == 0 .. MaxAge

OptAges == Ages \cup {NoAge}

FaultKinds == {"pods", "roster", "placement", "metrics", "leave", "abort", "restart", "container"}

maxReplicationFactor == 3

AllSpecs == [on : BOOLEAN, replicas : 1 .. MaxNodes, min : 1 .. MaxNodes, max : 1 .. MaxNodes]

ASSUME AutoscalerAssumption ==
  /\ UpWindow \in Nat /\ DownWindow \in Nat /\ SettleTimeout \in Nat /\ MaxAge \in Nat
  /\ UpWindow <= MaxAge /\ DownWindow <= MaxAge /\ SettleTimeout <= MaxAge
  /\ TargetWrites \in Nat \ {0} /\ TargetQueue \in Nat \ {0} /\ TolerancePercent \in 0 .. 100
  /\ Specs \subseteq AllSpecs /\ Specs # {} /\ \A s \in Specs : s.min <= s.max
  /\ Loads \subseteq [writes : Nat, queue : Nat] /\ Loads # {}
  /\ PlacementKind \in {"read", "unsupported"}
  /\ Evens \subseteq BOOLEAN /\ Evens # {}
  /\ MaxEdits \in Nat /\ MaxShifts \in Nat /\ MaxFaults \in Nat /\ Faults \subseteq FaultKinds

VARIABLES
  spec, edits,    \* the spec, and how often it was edited
  auto, limited,  \* status.autoscaling and the AutoscalingLimited condition as stored
  samples,        \* the sampler: what it has of the pod it knows least about
  pc, pass,       \* the next step of the pass, and what it has read and decided
  sts, joined,    \* the size of the StatefulSet and of the committed roster
  moving,         \* a replica is in flight or sits on a node that left
  even,           \* every node carries its share of the data partitions
  full,           \* some data partition has a copy on every node
  load, shifts,   \* the traffic, and how often it changed
  faults,         \* how many failures have happened
  chosen,         \* history: the size the autoscaler last chose
  highFor, lowFor,\* history: for how long every pass saw too much or too little traffic
  panicked        \* history: a pass ended in a panic

stored == <<auto, limited>>
passVars == <<pc, pass>>
cluster == <<sts, joined, moving, even, full>>
world == <<spec, edits, load, shifts>>
history == <<chosen, highFor, lowFor, panicked>>
vars == <<world, stored, samples, passVars, cluster, faults, history>>

(* status.autoscaling; desired is 0 for the code's nil. *)
Autos == [desired : 0 .. MaxNodes, above : OptAges, below : OptAges, last : OptAges]

NoAuto == [desired |-> 0, above |-> NoAge, below |-> NoAge, last |-> NoAge]

(* The samples of a pod: none, one reading that is too recent or old enough for a rate, a rate,
   or readings of a container that has restarted since, with its counters at zero. *)
Samples == {"none", "fresh", "aged", "rate", "reset"}

Passes ==
  [edits : 0 .. MaxEdits, spec : Specs, auto : Autos, limited : BOOLEAN,
   ready : BOOLEAN, even : BOOLEAN, full : BOOLEAN, membership : [known : BOOLEAN, size : 0 .. MaxNodes],
   placement : Placements]

(* Every variable holds a value of its kind; in particular the size chosen never leaves the
   range of the bounds. *)
TypeOK ==
  /\ spec \in Specs /\ edits \in 0 .. MaxEdits /\ load \in Loads /\ shifts \in 0 .. MaxShifts
  /\ auto \in Autos /\ limited \in BOOLEAN /\ samples \in Samples
  /\ pc \in {"idle", "read", "decide", "resize", "status"} /\ pass \in Passes
  /\ sts \in 1 .. MaxNodes /\ joined \in 1 .. MaxNodes
  /\ moving \in BOOLEAN /\ even \in BOOLEAN /\ full \in BOOLEAN
  /\ faults \in 0 .. MaxFaults
  /\ chosen \in 0 .. MaxNodes /\ highFor \in Ages /\ lowFor \in Ages /\ panicked \in BOOLEAN
-----------------------------------------------------------------------------
clampLosesMax(n, sp) == IF n < sp.min THEN sp.min ELSE n

clamp(n, sp) == IF n < sp.min THEN sp.min ELSE IF n > sp.max THEN sp.max ELSE n

initialAutoscaledReplicas(sp) == clamp(sp.replicas, sp)

(* The node count everything in a pass is sized by. *)
desiredReplicas(sp, a) ==
  CASE ~sp.on -> sp.replicas
    [] sp.on /\ a.desired > 0 -> a.desired
    [] OTHER -> initialAutoscaledReplicas(sp)

NoPlacement == [kind |-> PlacementKind, moving |-> FALSE, hosts |-> {}]

NoPass(sp) ==
  [edits |-> 0, spec |-> sp, auto |-> NoAuto, limited |-> FALSE,
   ready |-> FALSE, even |-> FALSE, full |-> FALSE, membership |-> [known |-> FALSE, size |-> 0],
   placement |-> NoPlacement]

Idle == pc' = "idle" /\ pass' = NoPass(CHOOSE s \in Specs : TRUE)

(* A founded cluster at its initial size, about to be autoscaled. *)
Init ==
  /\ spec \in Specs /\ edits = 0 /\ load \in Loads /\ shifts = 0
  /\ auto = NoAuto /\ limited = FALSE /\ samples = "none"
  /\ pc = "idle" /\ pass = NoPass(CHOOSE s \in Specs : TRUE)
  /\ sts = desiredReplicas(spec, NoAuto) /\ joined = sts
  /\ moving = FALSE /\ even = TRUE
  /\ full \in BOOLEAN /\ (sts > maxReplicationFactor => ~full)
  /\ faults = 0
  /\ chosen = sts /\ highFor = 0 /\ lowFor = 0 /\ panicked = FALSE

Fault(kind) ==
  /\ kind \in Faults /\ faults < MaxFaults
  /\ faults' = faults + 1
-----------------------------------------------------------------------------
(* The decision.  A signal is the total of the cluster, or known is FALSE. *)

Above(total, target, n) == total * 100 > (100 + TolerancePercent) * n * target

Below(total, target, n) == total * 100 < (100 - TolerancePercent) * n * target

Ceil(total, target) == (total + target - 1) \div target

(* The traffic is past its target on the worst signal that is known. *)
TooHigh(sig, n) ==
  (sig.writesKnown /\ Above(sig.writes, TargetWrites, n)) \/ (sig.queueKnown /\ Above(sig.queue, TargetQueue, n))

TooLow(sig, n) ==
  (sig.writesKnown => Below(sig.writes, TargetWrites, n)) /\ (sig.queueKnown => Below(sig.queue, TargetQueue, n))

RecommendedPartialView(sp, n, sig) ==
  LET asked(known, total, target) == IF known THEN Ceil(total, target) ELSE 0
      w   == asked(sig.writesKnown, sig.writes, TargetWrites)
      q   == asked(sig.queueKnown, sig.queue, TargetQueue)
      rec == IF TooHigh(sig, n) \/ TooLow(sig, n) THEN IF w > q THEN w ELSE q ELSE n
  IN  clamp(rec, sp)

(* The size the traffic asks for; a partial view never asks for less. *)
Recommended(sp, n, sig) ==
  LET asked(known, total, target) == IF known THEN Ceil(total, target) ELSE 0
      w   == asked(sig.writesKnown, sig.writes, TargetWrites)
      q   == asked(sig.queueKnown, sig.queue, TargetQueue)
      rec == IF TooHigh(sig, n) \/ TooLow(sig, n) THEN IF w > q THEN w ELSE q ELSE n
  IN  clamp(IF rec < n /\ ~(sig.writesKnown /\ sig.queueKnown) THEN n ELSE rec, sp)

growthCeilingNone(isFull) == 0

growthCeiling(isFull) == IF isFull THEN maxReplicationFactor ELSE 0

heldKeepsStreak(prev, n, last) == [prev EXCEPT !.desired = n, !.last = last]

(* No step: the size stays and both windows start again. *)
held(prev, n, last) == [desired |-> n, above |-> NoAge, below |-> NoAge, last |-> last]

(* A direction that has lasted for its window earns a step; until then its start is kept. *)
Since(age) == IF age = NoAge THEN 0 ELSE age

(* The new state of the autoscaler, one case per way out of decideAutoscale. *)
decideAutoscale(sp, prev, converged, sig, ceiling) ==
  LET start  == IF prev.desired = 0 THEN initialAutoscaledReplicas(sp) ELSE prev.desired
      n      == clamp(start, sp)
      base   == held(prev, n, IF n # start THEN 0 ELSE prev.last)
      blind  == ~sig.writesKnown /\ ~sig.queueKnown
      rec    == Recommended(sp, n, sig)
      capped == ceiling > 0 /\ n >= ceiling
      up     == Since(prev.above)
      down   == Since(prev.below)
      atMax  == rec = sp.max /\ TooHigh(sig, n)
      step   == CASE rec > n /\ up >= UpWindow     -> [base EXCEPT !.desired = n + 1, !.last = 0]
                  [] rec > n /\ up < UpWindow      -> [base EXCEPT !.above = up]
                  [] rec < n /\ down >= DownWindow -> [base EXCEPT !.desired = n - 1, !.last = 0]
                  [] rec < n /\ down < DownWindow  -> [base EXCEPT !.below = down]
                  [] OTHER -> base
  IN  CASE ~converged -> [auto |-> base, limited |-> FALSE, recommended |-> n]
        [] converged /\ blind -> [auto |-> base, limited |-> TRUE, recommended |-> n]
        [] converged /\ ~blind /\ rec > n /\ capped -> [auto |-> base, limited |-> TRUE, recommended |-> rec]
        [] OTHER -> [auto |-> step, limited |-> atMax, recommended |-> rec]
-----------------------------------------------------------------------------
(* The pass. *)

Begin ==
  /\ pc = "idle" /\ pc' = "read"
  /\ pass' = [NoPass(spec) EXCEPT !.edits = edits, !.auto = auto, !.limited = limited]
  /\ UNCHANGED <<world, stored, samples, cluster, faults, history>>

(* The pods, the roster and the placement are read. *)
ReadCluster ==
  /\ pc = "read" /\ pc' = "decide"
  /\ \E unread \in {"nothing", "pods", "roster", "placement"} :
       /\ IF unread = "nothing" THEN UNCHANGED faults ELSE Fault(unread)
       /\ pass' = [pass EXCEPT !.ready = (unread # "pods"), !.even = even, !.full = full,
                      !.membership = [known |-> unread # "roster", size |-> joined],
                      !.placement = [kind |-> IF unread = "placement" THEN "unreadable" ELSE PlacementKind,
                                     moving |-> moving, hosts |-> {}]]
  /\ UNCHANGED <<world, stored, samples, cluster, history>>

(* reconcileAutoscaling without spec.autoscaling. *)
forget ==
  /\ pc = "decide" /\ pc' = "resize" /\ ~pass.spec.on
  /\ pass' = [pass EXCEPT !.auto = NoAuto, !.limited = FALSE]
  /\ samples' = "none" /\ chosen' = pass.spec.replicas
  /\ UNCHANGED <<world, stored, cluster, faults, highFor, lowFor, panicked>>

(* The committed roster as the plan reads it. *)
Roster(reading) ==
  [known |-> reading.known, roster |-> [o \in Ordinals |-> IF o < reading.size THEN "Voter" ELSE "NotMember"]]

placementConvergedWaits(p, isEven, current, last) ==
  p.kind # "unreadable" /\ placementSettled(p, current) /\ (p.kind = "read" => isEven)

(* The data has followed the last step; a share that stays uneven is not waited for longer
   than the timeout. *)
placementConverged(p, isEven, current, last) ==
  /\ p.kind # "unreadable" /\ placementSettled(p, current)
  /\ p.kind = "read" => isEven \/ (last # NoAge /\ last >= SettleTimeout)

ConvergedIgnoresRoster ==
  LET current == desiredReplicas(pass.spec, pass.auto)
  IN  pass.ready /\ placementConverged(pass.placement, pass.even, current, pass.auto.last)

(* The previous step is complete: every node a ready voter, and the data where it belongs. *)
Converged ==
  LET current == desiredReplicas(pass.spec, pass.auto)
  IN  /\ pass.ready /\ rosterMatches(Roster(pass.membership), current)
      /\ placementConverged(pass.placement, pass.even, current, pass.auto.last)

observeSampleIgnoresReset == IF samples \in {"aged", "rate", "reset"} THEN "rate" ELSE "fresh"

(* observeSample: a first reading gives no rate, a second one too soon neither, and a counter or
   a clock that went backwards makes the reading a first one again. *)
observeSample == IF samples \in {"aged", "rate"} THEN "rate" ELSE "fresh"

(* measure: the signals of a pass; every ready node must answer.  Against the baseline of an
   earlier container the counters show no writes. *)
measure(converged, read) ==
  [writesKnown |-> converged /\ read /\ observeSample = "rate",
   writes |-> IF samples = "reset" THEN 0 ELSE load.writes,
   queueKnown |-> converged /\ read, queue |-> load.queue]

(* reconcileAutoscaling: the decision of a pass, kept in memory.  Without a placement the growth
   ceiling is read through a nil pointer. *)
reconcileAutoscaling ==
  /\ pc = "decide" /\ pass.spec.on
  /\ \E converged \in {Converged}, read \in BOOLEAN :
       /\ IF read THEN UNCHANGED faults ELSE converged /\ Fault("metrics")
       /\ samples' = IF converged /\ read THEN observeSample ELSE samples
       /\ IF converged /\ pass.placement.kind = "unsupported"
          THEN Idle /\ panicked' = TRUE /\ UNCHANGED <<chosen, highFor, lowFor>>
          ELSE \E d \in {decideAutoscale(pass.spec, pass.auto, converged, measure(converged, read), growthCeiling(pass.full))} :
                 LET n == clamp(desiredReplicas(pass.spec, pass.auto), pass.spec)
                 IN  /\ pass' = [pass EXCEPT !.auto = d.auto, !.limited = d.limited]
                     /\ pc' = "resize"
                     /\ chosen' = IF d.auto.desired # pass.auto.desired THEN d.auto.desired ELSE chosen
                     /\ highFor' = IF d.recommended > n THEN highFor ELSE 0
                     /\ lowFor' = IF d.recommended < n THEN lowFor ELSE 0
                     /\ UNCHANGED panicked
  /\ UNCHANGED <<world, stored, cluster>>

(* reconcileStatefulSet: at most one step of the plan; a node that does not leave holds it. *)
reconcileStatefulSet ==
  LET desired == desiredReplicas(pass.spec, pass.auto)
      next    == buildPlan(desired, sts, TRUE, Roster(pass.membership), pass.placement).replicas
  IN  /\ pc = "resize" /\ pc' = "status"
      /\ \/ next >= sts /\ sts' = next /\ UNCHANGED <<joined, moving, faults>>
         \/ next < sts /\ sts' = next /\ joined' = next /\ moving' = (PlacementKind = "read") /\ UNCHANGED faults
         \/ next < sts /\ Fault("leave") /\ UNCHANGED <<sts, joined, moving>>
      /\ UNCHANGED <<world, stored, samples, pass, even, full, history>>

(* reconcileStatus: rejected when the KahunaCluster was edited since the pass read it. *)
reconcileStatus ==
  /\ pc = "status" /\ Idle
  /\ IF pass.edits = edits
     THEN /\ auto' = pass.auto /\ limited' = pass.limited
          /\ highFor' = IF auto.desired \in {0, pass.auto.desired} THEN highFor ELSE 0
          /\ lowFor' = IF auto.desired \in {0, pass.auto.desired} THEN lowFor ELSE 0
     ELSE UNCHANGED <<stored, highFor, lowFor>>
  /\ UNCHANGED <<world, samples, cluster, faults, chosen, panicked>>

(* A step of Reconcile fails, or the operator restarts and loses its samples. *)
Abort ==
  /\ \/ pc # "idle" /\ Fault("abort") /\ UNCHANGED samples
     \/ pc = "idle" /\ Fault("restart") /\ samples' = "none"
  /\ Idle
  /\ UNCHANGED <<world, stored, cluster, history>>

(* The container of a node restarts in its pod: the pod keeps its UID and so its samples, the
   counters start over. *)
RestartContainer ==
  /\ Fault("container") /\ samples # "none" /\ samples' = "reset"
  /\ UNCHANGED <<world, stored, passVars, cluster, history>>
-----------------------------------------------------------------------------
(* The user, the traffic and the server. *)

EditSpec ==
  /\ edits < MaxEdits /\ edits' = edits + 1
  /\ spec' \in Specs
  /\ UNCHANGED <<load, shifts, stored, samples, passVars, cluster, faults, history>>

Shift ==
  /\ shifts < MaxShifts /\ shifts' = shifts + 1
  /\ load' \in Loads
  /\ UNCHANGED <<spec, edits, stored, samples, passVars, cluster, faults, history>>

Join ==
  /\ joined < sts /\ joined' = joined + 1
  /\ moving' = (PlacementKind = "read") /\ samples' = "none"
  /\ UNCHANGED <<world, stored, passVars, sts, even, full, faults, history>>

(* The rebalancer is done, and may leave a node short of its share. *)
Settle ==
  /\ moving /\ moving' = FALSE
  /\ even' \in Evens
  /\ UNCHANGED <<world, stored, samples, passVars, sts, joined, full, faults, history>>

(* The rebalancer converts the fully replicated partitions. *)
Convert ==
  /\ full /\ full' = FALSE
  /\ UNCHANGED <<world, stored, samples, passVars, sts, joined, moving, even, faults, history>>

Older(age) == IF age = NoAge \/ age = MaxAge THEN age ELSE age + 1

Aged(a) == [a EXCEPT !.above = Older(@), !.below = Older(@), !.last = Older(@)]

Tick ==
  /\ auto' = Aged(auto) /\ pass' = [pass EXCEPT !.auto = Aged(@)]
  /\ samples' = IF samples = "fresh" THEN "aged" ELSE samples
  /\ highFor' = Older(highFor) /\ lowFor' = Older(lowFor)
  /\ UNCHANGED <<world, limited, pc, cluster, faults, chosen, panicked>>
-----------------------------------------------------------------------------
Pass == Begin \/ ReadCluster \/ forget \/ reconcileAutoscaling \/ reconcileStatefulSet \/ reconcileStatus

Next == Pass \/ Abort \/ RestartContainer \/ EditSpec \/ Shift \/ Join \/ Settle \/ Convert \/ Tick

Spec == Init /\ [][Next]_vars

(* Every pass is requeued, nodes join, the rebalancer finishes its moves, time passes. *)
Fairness == WF_vars(Pass) /\ WF_vars(Join) /\ WF_vars(Settle) /\ WF_vars(Tick)

FairSpec == Spec /\ Fairness
-----------------------------------------------------------------------------
(* The size a pass takes from its decision, when no bound forces it. *)
Decides ==
  pc = "decide" /\ pc' = "resize" /\ pass.spec.on /\ pass.auto.desired \in pass.spec.min .. pass.spec.max

(* A step must be earned: traffic moves the size by one node, and only after every pass for the
   whole stabilization window saw the traffic ask for it (decideAutoscale). *)
StepsEarned ==
  [][Decides =>
       /\ pass'.auto.desired > pass.auto.desired =>
            pass'.auto.desired = pass.auto.desired + 1 /\ highFor >= UpWindow
       /\ pass'.auto.desired < pass.auto.desired =>
            pass'.auto.desired = pass.auto.desired - 1 /\ lowFor >= DownWindow]_vars

(* The cluster never shrinks under traffic that any signal shows at or above its target, even when
   a pass could not read that signal (measure, decideAutoscale). *)
NoShrinkUnderLoad ==
  [][Decides /\ pass'.auto.desired < pass.auto.desired =>
       LET n == pass.auto.desired
       IN  Below(load.writes, TargetWrites, n) /\ Below(load.queue, TargetQueue, n)]_vars

(* The StatefulSet never moves away from the size the autoscaler last chose: a node that was
   just added is not taken out again, nor one that left brought back (reconcileAutoscaling,
   reconcileStatefulSet, reconcileStatus). *)
DecisionsStick ==
  [][/\ sts' > sts => sts' <= chosen
     /\ sts' < sts => sts' >= chosen]_vars

(* No second step is chosen while the first is under way: the stored choice is at most one node
   from the StatefulSet, and the StatefulSet at most one from the roster. *)
OneStepAhead ==
  /\ auto.desired # 0 => sts - auto.desired \in -1 .. 1
  /\ sts - joined \in 0 .. 1

(* While a data partition is on every node, the cluster does not grow past the replication cap
   (growthCeiling). *)
CapHeld == [][sts' > sts /\ full => sts' <= maxReplicationFactor]_vars

(* Every pass ends by itself (reconcileAutoscaling). *)
PassesEnd == ~panicked

(* StatefulSet, roster and choice agree within the bounds, and the traffic asks for no other
   size, unless the replication cap stands in the way. *)
AtRest ==
  LET n == desiredReplicas(spec, auto)
      sig == [writesKnown |-> TRUE, writes |-> load.writes, queueKnown |-> TRUE, queue |-> load.queue]
  IN  /\ sts = n /\ joined = n
      /\ spec.on => /\ auto.desired = n /\ n \in spec.min .. spec.max
                    /\ \/ Recommended(spec, n, sig) = n
                       \/ full /\ limited /\ n >= maxReplicationFactor

(* Under traffic that no longer changes the cluster comes to rest at the size the traffic asks
   for, and stays there (reconcileAutoscaling). *)
Settles == <>[]AtRest
=============================================================================
