-------------------------- MODULE AutoscalerProofs --------------------------
(***************************************************************************)
(* What every decision of the autoscaler holds to, for every cluster size, *)
(* window, target, load and bound, and for every number of edits and       *)
(* failures; and what its steps add up to as long as the spec is not       *)
(* edited.                                                                 *)
(***************************************************************************)
EXTENDS Autoscaler, FiniteSetTheorems, TLAPS

Signals == [writesKnown : BOOLEAN, writes : Nat, queueKnown : BOOLEAN, queue : Nat]

(* The bounds of a spec, as the CRD admits them. *)
LEMMA SpecBounds ==
  ASSUME NEW sp \in Specs
  PROVE  /\ sp.min \in 1 .. MaxNodes /\ sp.max \in 1 .. MaxNodes /\ sp.min <= sp.max
         /\ sp.replicas \in 1 .. MaxNodes /\ sp.on \in BOOLEAN
  BY AutoscalerAssumption DEF AllSpecs

(* clamp keeps what is within the bounds and brings everything else there. *)
LEMMA ClampRange ==
  ASSUME NEW sp \in Specs, NEW k \in Int
  PROVE  /\ clamp(k, sp) \in sp.min .. sp.max
         /\ k \in sp.min .. sp.max => clamp(k, sp) = k
         /\ \A n \in sp.min .. sp.max : clamp(k, sp) < n => k < n
  BY SpecBounds, MaxNodesAssumption DEF clamp

(* The size that carries a load. *)
LEMMA CeilInt == ASSUME NEW total \in Nat, NEW target \in Nat \ {0} PROVE Ceil(total, target) \in Int
  BY DEF Ceil

(* Traffic above its target at a size asks for a larger one. *)
LEMMA CeilAbove ==
  ASSUME NEW total \in Nat, NEW target \in Nat \ {0}, NEW n \in Nat, Above(total, target, n)
  PROVE  Ceil(total, target) > n
<1>1. TolerancePercent \in Nat /\ n * target \in Nat
  BY AutoscalerAssumption
<1>2. total * 100 > (100 + TolerancePercent) * n * target
  BY DEF Above
<1>3. (100 + TolerancePercent) * n * target = 100 * (n * target) + TolerancePercent * (n * target)
  BY <1>1
<1>4. TolerancePercent * (n * target) >= 0
  BY <1>1
<1>5. total > n * target
  BY <1>1, <1>2, <1>3, <1>4
<1>6. total + target - 1 >= (n + 1) * target
  BY <1>5, <1>1
<1>7. (total + target - 1) \div target >= n + 1
  BY <1>6
<1> QED
  BY <1>7, CeilInt DEF Ceil

(* The size the traffic asks for is within the bounds, and smaller than the present one only when
   both signals are known and below their targets. *)
LEMMA RecommendedSafe ==
  ASSUME NEW sp \in Specs, NEW n \in sp.min .. sp.max, NEW sig \in Signals
  PROVE  /\ Recommended(sp, n, sig) \in sp.min .. sp.max
         /\ Recommended(sp, n, sig) < n =>
              /\ sig.writesKnown /\ Below(sig.writes, TargetWrites, n)
              /\ sig.queueKnown /\ Below(sig.queue, TargetQueue, n)
<1> DEFINE w == IF sig.writesKnown THEN Ceil(sig.writes, TargetWrites) ELSE 0
           q == IF sig.queueKnown THEN Ceil(sig.queue, TargetQueue) ELSE 0
           rec == IF TooHigh(sig, n) \/ TooLow(sig, n) THEN IF w > q THEN w ELSE q ELSE n
           inner == IF rec < n /\ ~(sig.writesKnown /\ sig.queueKnown) THEN n ELSE rec
<1>1. /\ sig.writes \in Nat /\ sig.queue \in Nat /\ n \in Nat
      /\ TargetWrites \in Nat \ {0} /\ TargetQueue \in Nat \ {0}
  BY SpecBounds, AutoscalerAssumption, MaxNodesAssumption DEF Signals
<1>2. w \in Int /\ q \in Int
  BY <1>1, CeilInt
<1>3. Recommended(sp, n, sig) = clamp(inner, sp)
  BY DEF Recommended
<1>4. TooHigh(sig, n) => w > n \/ q > n
  BY <1>1, CeilAbove DEF TooHigh
<1> HIDE DEF w, q
<1>5. rec \in Int /\ inner \in Int
  BY <1>1, <1>2
<1>6. inner < n => sig.writesKnown /\ sig.queueKnown /\ TooLow(sig, n)
  BY <1>1, <1>2, <1>4
<1> HIDE DEF rec, inner
<1>7. clamp(inner, sp) \in sp.min .. sp.max /\ (clamp(inner, sp) < n => inner < n)
  BY <1>5, ClampRange
<1> QED
  BY <1>3, <1>6, <1>7 DEF TooLow

(* The size a decision starts from. *)
Start(sp, prev) == IF prev.desired = 0 THEN initialAutoscaledReplicas(sp) ELSE prev.desired

(* Every way out of decideAutoscale keeps the size or takes one step within the bounds, and a step
   takes a converged cluster, traffic that asks for it, a streak as old as its window and, to grow,
   room under the ceiling.  A streak is kept only while the traffic asks for its direction. *)
Decided(sp, prev, c, sig, ceiling, d, n) ==
  /\ n \in sp.min .. sp.max /\ d.recommended \in sp.min .. sp.max
  /\ d.auto \in Autos /\ d.limited \in BOOLEAN /\ d.auto.desired \in sp.min .. sp.max
  /\ \/ d.auto.desired = n
     \/ /\ d.auto.desired = n + 1 /\ d.recommended > n /\ Since(prev.above) >= UpWindow
        /\ c /\ ~(ceiling > 0 /\ n >= ceiling)
     \/ /\ d.auto.desired = n - 1 /\ d.recommended < n /\ Since(prev.below) >= DownWindow
        /\ c /\ d.recommended = Recommended(sp, n, sig)
  /\ d.auto.above # NoAge => d.auto.above = Since(prev.above) /\ d.recommended > n /\ d.auto.desired = n
  /\ d.auto.below # NoAge => d.auto.below = Since(prev.below) /\ d.recommended < n /\ d.auto.desired = n

LEMMA DecisionStep ==
  ASSUME NEW sp \in Specs, NEW prev \in Autos, NEW c \in BOOLEAN, NEW sig \in Signals,
         NEW ceiling \in Nat, NEW d, d = decideAutoscale(sp, prev, c, sig, ceiling),
         NEW n, n = clamp(Start(sp, prev), sp)
  PROVE  Decided(sp, prev, c, sig, ceiling, d, n)
<1> USE DEF Decided
<1> DEFINE start  == Start(sp, prev)
           base   == held(prev, n, IF n # start THEN 0 ELSE prev.last)
           blind  == ~sig.writesKnown /\ ~sig.queueKnown
           rec    == Recommended(sp, n, sig)
           capped == ceiling > 0 /\ n >= ceiling
           up     == Since(prev.above)
           down   == Since(prev.below)
           atMax  == rec = sp.max /\ TooHigh(sig, n)
           step   == CASE rec > n /\ up >= UpWindow     -> [base EXCEPT !.desired = n + 1, !.last = 0]
                       [] rec > n /\ up < UpWindow      -> [base EXCEPT !.above = up]
                       [] rec < n /\ down >= DownWindow -> [base EXCEPT !.desired = n - 1, !.last = 0]
                       [] rec < n /\ down < DownWindow  -> [base EXCEPT !.below = down]
                       [] OTHER -> base
<1>1. /\ prev.desired \in 0 .. MaxNodes /\ prev.above \in OptAges /\ prev.below \in OptAges
      /\ prev.last \in OptAges /\ UpWindow \in Nat /\ DownWindow \in Nat /\ MaxAge \in Nat
  BY AutoscalerAssumption DEF Autos
<1>2. start \in Int /\ n \in sp.min .. sp.max
  BY <1>1, SpecBounds, ClampRange, MaxNodesAssumption DEF Start, initialAutoscaledReplicas
<1>3. rec \in sp.min .. sp.max
  BY <1>2, RecommendedSafe
<1>4. up \in Ages /\ down \in Ages /\ 0 \in Ages /\ NoAge \in OptAges /\ Ages \subseteq OptAges
  BY <1>1 DEF Since, OptAges, Ages, NoAge
<1>5. d = CASE ~c -> [auto |-> base, limited |-> FALSE, recommended |-> n]
            [] c /\ blind -> [auto |-> base, limited |-> TRUE, recommended |-> n]
            [] c /\ ~blind /\ rec > n /\ capped -> [auto |-> base, limited |-> TRUE, recommended |-> rec]
            [] OTHER -> [auto |-> step, limited |-> atMax, recommended |-> rec]
  BY DEF decideAutoscale, Start
<1>6. /\ base \in Autos /\ base.desired = n /\ base.above = NoAge /\ base.below = NoAge
  BY <1>1, <1>2, <1>4, SpecBounds, MaxNodesAssumption DEF held, Autos
<1> HIDE DEF start, base, blind, rec, up, down, atMax, capped
<1>7. \/ step = base
      \/ rec > n /\ up >= UpWindow /\ step = [base EXCEPT !.desired = n + 1, !.last = 0]
      \/ rec > n /\ step = [base EXCEPT !.above = up]
      \/ rec < n /\ down >= DownWindow /\ step = [base EXCEPT !.desired = n - 1, !.last = 0]
      \/ rec < n /\ step = [base EXCEPT !.below = down]
  OBVIOUS
<1> HIDE DEF step
<1>8. /\ sp.min \in 1 .. MaxNodes /\ sp.max \in 1 .. MaxNodes
  BY SpecBounds
<1>9. /\ step \in Autos /\ step.desired \in sp.min .. sp.max
      /\ \/ step.desired = n
         \/ step.desired = n + 1 /\ rec > n /\ up >= UpWindow
         \/ step.desired = n - 1 /\ rec < n /\ down >= DownWindow
      /\ step.above # NoAge => step.above = up /\ rec > n /\ step.desired = n
      /\ step.below # NoAge => step.below = down /\ rec < n /\ step.desired = n
  <2>1. CASE step = base
    BY <1>2, <1>6, <2>1
  <2>2. CASE rec > n /\ up >= UpWindow /\ step = [base EXCEPT !.desired = n + 1, !.last = 0]
    <3>1. n + 1 \in sp.min .. sp.max /\ n + 1 \in 0 .. MaxNodes
      BY <1>2, <1>3, <1>8, <2>2, MaxNodesAssumption
    <3>2. step \in Autos /\ step.desired = n + 1 /\ step.above = NoAge /\ step.below = NoAge
      BY <1>4, <1>6, <2>2, <3>1, Zenon DEF Autos
    <3> QED  BY <2>2, <3>1, <3>2
  <2>3. CASE rec > n /\ step = [base EXCEPT !.above = up]
    <3>1. step \in Autos /\ step.desired = n /\ step.above = up /\ step.below = NoAge
      BY <1>4, <1>6, <2>3 DEF Autos
    <3> QED  BY <1>2, <2>3, <3>1
  <2>4. CASE rec < n /\ down >= DownWindow /\ step = [base EXCEPT !.desired = n - 1, !.last = 0]
    <3>1. n - 1 \in sp.min .. sp.max /\ n - 1 \in 0 .. MaxNodes
      BY <1>2, <1>3, <1>8, <2>4, MaxNodesAssumption
    <3>2. step \in Autos /\ step.desired = n - 1 /\ step.above = NoAge /\ step.below = NoAge
      BY <1>4, <1>6, <2>4, <3>1, Zenon DEF Autos
    <3> QED  BY <2>4, <3>1, <3>2
  <2>5. CASE rec < n /\ step = [base EXCEPT !.below = down]
    <3>1. step \in Autos /\ step.desired = n /\ step.above = NoAge /\ step.below = down
      BY <1>4, <1>6, <2>5 DEF Autos
    <3> QED  BY <1>2, <2>5, <3>1
  <2> QED  BY <1>7, <2>1, <2>2, <2>3, <2>4, <2>5
<1>10. \/ ~c /\ d = [auto |-> base, limited |-> FALSE, recommended |-> n]
       \/ c /\ d = [auto |-> base, limited |-> TRUE, recommended |-> n]
       \/ c /\ d = [auto |-> base, limited |-> TRUE, recommended |-> rec]
       \/ c /\ ~(rec > n /\ capped) /\ d = [auto |-> step, limited |-> atMax, recommended |-> rec]
  BY <1>5, Zenon
<1>11. atMax \in BOOLEAN
  BY DEF atMax
<1> HIDE DEF atMax
<1>12. /\ d.limited \in BOOLEAN
       /\ \/ d.auto = base /\ d.recommended = n
          \/ d.auto = base /\ d.recommended = rec
          \/ c /\ ~(rec > n /\ capped) /\ d.auto = step /\ d.recommended = rec
  <2>1. ASSUME NEW a, NEW l \in BOOLEAN, NEW r, d = [auto |-> a, limited |-> l, recommended |-> r]
        PROVE  d.auto = a /\ d.limited \in BOOLEAN /\ d.recommended = r
    BY <2>1
  <2>2. CASE d = [auto |-> base, limited |-> FALSE, recommended |-> n]
    BY <2>1, <2>2, Zenon
  <2>3. CASE d = [auto |-> base, limited |-> TRUE, recommended |-> n]
    BY <2>1, <2>3, Zenon
  <2>4. CASE d = [auto |-> base, limited |-> TRUE, recommended |-> rec]
    BY <2>1, <2>4, Zenon
  <2>5. CASE c /\ ~(rec > n /\ capped) /\ d = [auto |-> step, limited |-> atMax, recommended |-> rec]
    BY <1>11, <2>1, <2>5, Zenon
  <2> QED  BY <1>10, <2>2, <2>3, <2>4, <2>5, Zenon
<1> QED
  BY <1>2, <1>3, <1>6, <1>9, <1>12 DEF rec, up, down, capped
-----------------------------------------------------------------------------
(* Type correctness. *)

(* A pass that has read nothing. *)
LEMMA NoPassType == \A sp \in Specs : NoPass(sp) \in Passes
  BY AutoscalerAssumption, MaxNodesAssumption DEF NoPass, Passes, NoAuto, Autos, OptAges, NoPlacement, Placements

(* Between passes nothing is remembered. *)
LEMMA IdleType == ASSUME Idle PROVE pc' = "idle" /\ pass' \in Passes /\ pass'.edits = 0
  BY NoPassType, AutoscalerAssumption DEF Idle, NoPass

(* The size everything in a pass is sized by. *)
LEMMA DesiredRange ==
  ASSUME NEW sp \in Specs, NEW a \in Autos
  PROVE  desiredReplicas(sp, a) \in 1 .. MaxNodes
<1>1. a.desired \in 0 .. MaxNodes /\ sp.replicas \in 1 .. MaxNodes /\ sp.on \in BOOLEAN
  BY SpecBounds DEF Autos
<1>2. initialAutoscaledReplicas(sp) \in 1 .. MaxNodes
  BY <1>1, SpecBounds, ClampRange, MaxNodesAssumption DEF initialAutoscaledReplicas
<1> QED
  BY <1>1, <1>2, MaxNodesAssumption DEF desiredReplicas

(* Ages stay ages as time passes. *)
LEMMA AgedType ==
  ASSUME NEW a \in Autos
  PROVE  /\ Aged(a) \in Autos /\ Aged(a).desired = a.desired
         /\ Aged(a).above = Older(a.above) /\ Aged(a).below = Older(a.below)
<1>1. \A x \in OptAges : Older(x) \in OptAges
  BY AutoscalerAssumption DEF Older, OptAges, Ages, NoAge
<1> QED
  BY <1>1, Zenon DEF Aged, Autos

(* A roster as a pass reads it, as long as it is that of the size asked for, has that size. *)
LEMMA RosterSize ==
  ASSUME NEW r \in [known : BOOLEAN, size : 0 .. MaxNodes], NEW k \in 0 .. MaxNodes
  PROVE  Roster(r) \in Readings /\ (rosterMatches(Roster(r), k) => r.size = k)
<1>1. Roster(r) \in Readings
  BY DEF Roster, Readings, Rosters, Roles
<1>2. ASSUME rosterMatches(Roster(r), k) PROVE r.size = k
  <2>1. Cardinality(Members(Roster(r).roster)) = k
    BY <1>2 DEF rosterMatches
  <2>2. Members(Roster(r).roster) = 0 .. r.size - 1 /\ r.size \in Nat
    <3>1. r.size \in Nat /\ r.size <= MaxNodes
      BY MaxNodesAssumption
    <3>2. \A o : o \in Members(Roster(r).roster) <=> o \in Ordinals /\ o < r.size
      BY DEF Members, Roster
    <3>3. \A o : o \in 0 .. r.size - 1 <=> o \in Ordinals /\ o < r.size
      BY <3>1, MaxNodesAssumption DEF Ordinals
    <3> QED  BY <3>1, <3>2, <3>3, Zenon
  <2>3. Cardinality(0 .. r.size - 1) = r.size
    <3>1. ASSUME NEW j \in Nat PROVE Cardinality(0 .. j - 1) = j
      <4>1. Cardinality(0 .. j - 1) = IF 0 > j - 1 THEN 0 ELSE j - 1 - 0 + 1
        BY FS_Interval
      <4> QED  BY <4>1
    <3> QED  BY <2>2, <3>1
  <2> QED  BY <2>1, <2>2, <2>3
<1> QED
  BY <1>1, <1>2

(* The plan of a pass over the present size: none, or one step toward the size it was asked for. *)
LEMMA ResizeRange ==
  ASSUME TypeOK, NEW next,
         next = buildPlan(desiredReplicas(pass.spec, pass.auto), sts, TRUE, Roster(pass.membership),
                          pass.placement).replicas
  PROVE  /\ next \in 1 .. MaxNodes
         /\ \/ next = sts
            \/ next = sts + 1 /\ sts < desiredReplicas(pass.spec, pass.auto)
            \/ next = sts - 1 /\ sts > desiredReplicas(pass.spec, pass.auto)
<1>1. /\ pass.spec \in Specs /\ pass.auto \in Autos /\ pass.placement \in Placements
      /\ pass.membership \in [known : BOOLEAN, size : 0 .. MaxNodes] /\ sts \in 1 .. MaxNodes
  BY DEF TypeOK, Passes
<1>2. desiredReplicas(pass.spec, pass.auto) \in 1 .. MaxNodes /\ Roster(pass.membership) \in Readings
  BY <1>1, DesiredRange, RosterSize, MaxNodesAssumption
<1> DEFINE des == desiredReplicas(pass.spec, pass.auto)
           red == Roster(pass.membership)
           plan == buildPlan(des, sts, TRUE, red, pass.placement)
<1> HIDE DEF des, red
<1>3. des \in 0 .. MaxNodes /\ des \in 1 .. MaxNodes /\ red \in Readings
  BY <1>2, MaxNodesAssumption DEF des, red
<1>4. \/ plan.replicas = sts
      \/ plan.replicas = sts + 1 /\ sts < des
      \/ plan.replicas = sts - 1 /\ sts > des
  BY <1>1, <1>3, MaxNodesAssumption DEF buildPlan
<1>5. next = plan.replicas
  BY DEF des, red
<1> HIDE DEF plan
<1>6. /\ next \in 1 .. MaxNodes
      /\ next = sts \/ (next = sts + 1 /\ sts < des) \/ (next = sts - 1 /\ sts > des)
  <2>1. ASSUME NEW N \in Nat, NEW s \in 1 .. N, NEW t \in 1 .. N, NEW x,
               x = s \/ (x = s + 1 /\ s < t) \/ (x = s - 1 /\ s > t)
        PROVE  x \in 1 .. N
    BY <2>1
  <2> QED  BY <1>1, <1>3, <1>4, <1>5, <2>1, MaxNodesAssumption, Zenon
<1> QED
  BY <1>6, Zenon DEF des

(* What reconcileAutoscaling does to a pass: it ends in a panic, or it takes the decision of
   decideAutoscale, measured on the traffic there is. *)
LEMMA DecisionPass ==
  ASSUME TypeOK, reconcileAutoscaling,
         NEW n, n = clamp(desiredReplicas(pass.spec, pass.auto), pass.spec)
  PROVE  /\ samples' \in Samples /\ faults' \in 0 .. MaxFaults
         /\ \/ Idle /\ panicked' = TRUE /\ UNCHANGED <<chosen, highFor, lowFor>>
            \/ /\ pc' = "resize" /\ UNCHANGED panicked
               /\ pass' \in Passes /\ pass'.spec = pass.spec /\ pass'.edits = pass.edits
               /\ pass'.membership = pass.membership
               /\ n \in pass.spec.min .. pass.spec.max
               /\ pass'.auto.desired \in pass.spec.min .. pass.spec.max
               /\ \/ pass'.auto.desired = n
                  \/ /\ pass'.auto.desired = n + 1 /\ Since(pass.auto.above) >= UpWindow
                     /\ Converged /\ ~(pass.full /\ n >= maxReplicationFactor)
                  \/ /\ pass'.auto.desired = n - 1 /\ Since(pass.auto.below) >= DownWindow
                     /\ Converged /\ Below(load.writes, TargetWrites, n) /\ Below(load.queue, TargetQueue, n)
               /\ chosen' = IF pass'.auto.desired # pass.auto.desired THEN pass'.auto.desired ELSE chosen
               /\ highFor' \in {0, highFor} /\ lowFor' \in {0, lowFor}
               /\ pass'.auto.above # NoAge =>
                    pass'.auto.above = Since(pass.auto.above) /\ highFor' = highFor /\ pass'.auto.desired = n
               /\ pass'.auto.below # NoAge =>
                    pass'.auto.below = Since(pass.auto.below) /\ lowFor' = lowFor /\ pass'.auto.desired = n
<1>1. /\ pass.spec \in Specs /\ pass.auto \in Autos /\ pass.full \in BOOLEAN /\ pass \in Passes
      /\ samples \in Samples /\ load \in [writes : Nat, queue : Nat] /\ faults \in 0 .. MaxFaults
      /\ MaxFaults \in Nat /\ pass.spec.on
  BY AutoscalerAssumption DEF TypeOK, Passes, reconcileAutoscaling
<1>2. PICK read \in BOOLEAN :
        /\ IF read THEN UNCHANGED faults ELSE Converged /\ Fault("metrics")
        /\ samples' = IF Converged /\ read THEN observeSample ELSE samples
        /\ IF Converged /\ pass.placement.kind = "unsupported"
           THEN Idle /\ panicked' = TRUE /\ UNCHANGED <<chosen, highFor, lowFor>>
           ELSE \E d \in {decideAutoscale(pass.spec, pass.auto, Converged, measure(Converged, read),
                                          growthCeiling(pass.full))} :
                  /\ pass' = [pass EXCEPT !.auto = d.auto, !.limited = d.limited]
                  /\ pc' = "resize"
                  /\ chosen' = IF d.auto.desired # pass.auto.desired THEN d.auto.desired ELSE chosen
                  /\ highFor' = IF d.recommended > n THEN highFor ELSE 0
                  /\ lowFor' = IF d.recommended < n THEN lowFor ELSE 0
                  /\ UNCHANGED panicked
  <2>1. PICK c \in {Converged}, read \in BOOLEAN :
          /\ IF read THEN UNCHANGED faults ELSE c /\ Fault("metrics")
          /\ samples' = IF c /\ read THEN observeSample ELSE samples
          /\ IF c /\ pass.placement.kind = "unsupported"
             THEN Idle /\ panicked' = TRUE /\ UNCHANGED <<chosen, highFor, lowFor>>
             ELSE \E d \in {decideAutoscale(pass.spec, pass.auto, c, measure(c, read),
                                            growthCeiling(pass.full))} :
                    /\ pass' = [pass EXCEPT !.auto = d.auto, !.limited = d.limited]
                    /\ pc' = "resize"
                    /\ chosen' = IF d.auto.desired # pass.auto.desired THEN d.auto.desired ELSE chosen
                    /\ highFor' = IF d.recommended > clamp(desiredReplicas(pass.spec, pass.auto), pass.spec) THEN highFor ELSE 0
                    /\ lowFor' = IF d.recommended < clamp(desiredReplicas(pass.spec, pass.auto), pass.spec) THEN lowFor ELSE 0
                    /\ UNCHANGED panicked
    BY Zenon DEF reconcileAutoscaling
  <2>2. c = Converged
    OBVIOUS
  <2> QED  BY <2>1, <2>2, Zenon
<1> DEFINE sig == measure(Converged, read)
<1>3. Converged \in BOOLEAN
  BY DEF Converged
<1>4. /\ sig \in Signals
      /\ sig.writesKnown => sig.writes = load.writes
      /\ sig.queue = load.queue
  <2>1. /\ sig.writes \in Nat /\ sig.queue = load.queue /\ sig.queue \in Nat
        /\ sig.writes = IF samples = "reset" THEN 0 ELSE load.writes
    BY <1>1 DEF measure
  <2>2. sig.writesKnown = (Converged /\ read /\ observeSample = "rate") /\ sig.queueKnown = (Converged /\ read)
    BY Zenon DEF measure
  <2>3. sig.writesKnown \in BOOLEAN /\ sig.queueKnown \in BOOLEAN
    BY <2>2, Zenon
  <2>4. sig.writesKnown => samples # "reset"
    <3>1. observeSample = "rate" => samples # "reset"
      BY DEF observeSample
    <3> QED  BY <2>2, <3>1, Zenon
  <2>5. sig = [writesKnown |-> sig.writesKnown, writes |-> sig.writes, queueKnown |-> sig.queueKnown, queue |-> sig.queue]
    BY Zenon DEF measure
  <2>6. sig \in Signals
    BY <2>1, <2>3, <2>5, Zenon DEF Signals
  <2> QED  BY <2>1, <2>4, <2>6
<1> DEFINE room == growthCeiling(pass.full)
<1>5. room \in Nat /\ (pass.full => room = maxReplicationFactor) /\ maxReplicationFactor = 3
  BY <1>1 DEF growthCeiling, maxReplicationFactor
<1>6. desiredReplicas(pass.spec, pass.auto) = Start(pass.spec, pass.auto)
  BY <1>1 DEF desiredReplicas, Start, Autos
<1>7. samples' \in Samples /\ faults' \in 0 .. MaxFaults
  <2>1. samples' \in Samples
    BY <1>1, <1>2 DEF observeSample, Samples
  <2>2. CASE read
    BY <1>1, <1>2, <2>1, <2>2
  <2>3. CASE ~read
    BY <1>1, <1>2, <2>1, <2>3 DEF Fault
  <2> QED  BY <2>1, <2>2, <2>3
<1>8. CASE Converged /\ pass.placement.kind = "unsupported"
  BY <1>2, <1>7, <1>8
<1>9. CASE ~(Converged /\ pass.placement.kind = "unsupported")
  <2> DEFINE d == decideAutoscale(pass.spec, pass.auto, Converged, sig, room)
  <2>1. /\ pass' = [pass EXCEPT !.auto = d.auto, !.limited = d.limited]
        /\ pc' = "resize"
        /\ chosen' = IF d.auto.desired # pass.auto.desired THEN d.auto.desired ELSE chosen
        /\ highFor' = IF d.recommended > n THEN highFor ELSE 0
        /\ lowFor' = IF d.recommended < n THEN lowFor ELSE 0
        /\ UNCHANGED panicked
    BY <1>2, <1>9, Zenon
  <2> HIDE DEF sig, room
  <2>2. n = clamp(Start(pass.spec, pass.auto), pass.spec)
    BY <1>6
  <2>3. d = decideAutoscale(pass.spec, pass.auto, Converged, sig, room)
    OBVIOUS
  <2> HIDE DEF d
  <2>4. /\ n \in pass.spec.min .. pass.spec.max
        /\ d.auto \in Autos /\ d.limited \in BOOLEAN /\ d.auto.desired \in pass.spec.min .. pass.spec.max
        /\ \/ d.auto.desired = n
           \/ /\ d.auto.desired = n + 1 /\ Since(pass.auto.above) >= UpWindow
              /\ Converged /\ ~(room > 0 /\ n >= room)
           \/ /\ d.auto.desired = n - 1 /\ d.recommended < n /\ Since(pass.auto.below) >= DownWindow
              /\ Converged /\ d.recommended = Recommended(pass.spec, n, sig)
        /\ d.auto.above # NoAge =>
             d.auto.above = Since(pass.auto.above) /\ d.recommended > n /\ d.auto.desired = n
        /\ d.auto.below # NoAge =>
             d.auto.below = Since(pass.auto.below) /\ d.recommended < n /\ d.auto.desired = n
    <3>1. Decided(pass.spec, pass.auto, Converged, sig, room, d, n)
      BY <1>1, <1>3, <1>4, <1>5, <2>2, <2>3, DecisionStep, Zenon
    <3> QED  BY <3>1, Zenon DEF Decided
  <2>5. /\ pass' \in Passes /\ pass'.spec = pass.spec /\ pass'.edits = pass.edits
        /\ pass'.membership = pass.membership /\ pass'.auto = d.auto
    BY <1>1, <2>1, <2>4, Zenon DEF Passes
  <2>6. Recommended(pass.spec, n, sig) < n => Below(load.writes, TargetWrites, n) /\ Below(load.queue, TargetQueue, n)
    BY <1>1, <1>4, <2>4, RecommendedSafe
  <2>7. (room > 0 /\ n >= room) \/ ~(pass.full /\ n >= maxReplicationFactor)
    BY <1>1, <1>5
  <2>8. highFor' \in {0, highFor} /\ lowFor' \in {0, lowFor}
    BY <2>1
  <2> QED  BY <1>7, <2>1, <2>4, <2>5, <2>6, <2>7, <2>8, Zenon
<1> QED
  BY <1>8, <1>9, Zenon

LEMMA TypeInit == Init => TypeOK
<1> SUFFICES ASSUME Init PROVE TypeOK
  OBVIOUS
<1>1. NoAuto \in Autos
  BY AutoscalerAssumption, MaxNodesAssumption DEF NoAuto, Autos, OptAges
<1>2. sts \in 1 .. MaxNodes
  BY <1>1, DesiredRange DEF Init
<1>3. pass \in Passes
  BY NoPassType, AutoscalerAssumption DEF Init
<1> QED
  <2>1. /\ edits \in 0 .. MaxEdits /\ shifts \in 0 .. MaxShifts /\ faults \in 0 .. MaxFaults
        /\ chosen \in 0 .. MaxNodes /\ highFor \in Ages /\ lowFor \in Ages /\ joined \in 1 .. MaxNodes
    BY <1>2, AutoscalerAssumption, MaxNodesAssumption DEF Init, Ages
  <2>2. limited \in BOOLEAN /\ moving \in BOOLEAN /\ even \in BOOLEAN /\ panicked \in BOOLEAN /\ full \in BOOLEAN
    BY Zenon DEF Init
  <2>3. spec \in Specs /\ load \in Loads /\ auto \in Autos /\ samples \in Samples /\ pc = "idle"
    BY <1>1 DEF Init, Samples
  <2> QED  BY <1>2, <1>3, <2>1, <2>2, <2>3 DEF TypeOK

LEMMA TypeNext == TypeOK /\ [Next]_vars => TypeOK'
<1> SUFFICES ASSUME TypeOK, [Next]_vars PROVE TypeOK'
  OBVIOUS
<1> USE DEF world, stored, passVars, cluster, history
<1>a. /\ MaxFaults \in Nat /\ MaxEdits \in Nat /\ MaxShifts \in Nat /\ MaxNodes \in Nat /\ MaxAge \in Nat
      /\ Evens \subseteq BOOLEAN /\ PlacementKind \in {"read", "unsupported"}
  BY AutoscalerAssumption, MaxNodesAssumption
<1>1. CASE Begin
  <2>1. pass' \in Passes
    <3>1. NoPass(spec) \in Passes
      BY NoPassType DEF TypeOK
    <3> HIDE DEF NoPass
    <3> QED  BY <1>1, <3>1, Zenon DEF Begin, TypeOK, Passes
  <2> QED  BY <1>1, <2>1 DEF Begin, TypeOK
<1>2. CASE ReadCluster
  <2>1. PICK unread \in {"nothing", "pods", "roster", "placement"} :
          /\ IF unread = "nothing" THEN UNCHANGED faults ELSE Fault(unread)
          /\ pass' = [pass EXCEPT !.ready = (unread # "pods"), !.even = even, !.full = full,
                         !.membership = [known |-> unread # "roster", size |-> joined],
                         !.placement = [kind |-> IF unread = "placement" THEN "unreadable" ELSE PlacementKind,
                                        moving |-> moving, hosts |-> {}]]
    BY <1>2, Zenon DEF ReadCluster
  <2>2. faults' \in 0 .. MaxFaults
    BY <1>a, <2>1 DEF Fault, TypeOK
  <2>3. pass' \in Passes
    <3> DEFINE m == [known |-> unread # "roster", size |-> joined]
               q == [kind |-> IF unread = "placement" THEN "unreadable" ELSE PlacementKind,
                     moving |-> moving, hosts |-> {}]
               r == unread # "pods"
    <3>1. m \in [known : BOOLEAN, size : 0 .. MaxNodes] /\ q \in Placements /\ r \in BOOLEAN
      <4>1. joined \in 0 .. MaxNodes /\ moving \in BOOLEAN
        BY <1>a DEF TypeOK
      <4>2. ASSUME NEW k \in BOOLEAN PROVE [known |-> k, size |-> joined] \in [known : BOOLEAN, size : 0 .. MaxNodes]
        BY <4>1
      <4>3. q \in Placements
        BY <1>a, <4>1 DEF Placements
      <4> QED  BY <4>2, <4>3, Zenon
    <3>2. pass' = [pass EXCEPT !.ready = r, !.even = even, !.full = full, !.membership = m, !.placement = q]
      BY <2>1
    <3>3. pass \in Passes /\ even \in BOOLEAN /\ full \in BOOLEAN
      BY DEF TypeOK
    <3> DEFINE p1 == [pass EXCEPT !.ready = r, !.even = even, !.full = full]
    <3>4. pass' = [p1 EXCEPT !.membership = m, !.placement = q]
      BY <3>2, <3>3, Zenon
    <3> HIDE DEF m, q, r
    <3>5. p1 \in Passes
      BY <3>1, <3>3, Zenon DEF Passes
    <3> HIDE DEF p1
    <3> QED  BY <3>1, <3>4, <3>5, Zenon DEF Passes
  <2> QED  BY <1>2, <2>2, <2>3 DEF ReadCluster, TypeOK
<1>3. CASE forget
  <2>1. NoAuto \in Autos
    BY <1>a DEF NoAuto, Autos, OptAges
  <2>2. pass' \in Passes /\ pass.spec.replicas \in 0 .. MaxNodes
    <3>1. pass \in Passes /\ pass.spec \in Specs /\ pass' = [pass EXCEPT !.auto = NoAuto, !.limited = FALSE]
      BY <1>3 DEF forget, TypeOK, Passes
    <3> HIDE DEF NoAuto
    <3>2. pass' \in Passes
      BY <2>1, <3>1, Zenon DEF Passes
    <3>3. pass.spec.replicas \in 1 .. MaxNodes
      BY <3>1, SpecBounds
    <3> QED  BY <1>a, <3>2, <3>3
  <2> QED  BY <1>3, <2>2 DEF forget, TypeOK, Samples
<1>4. CASE reconcileAutoscaling
  <2> DEFINE n == clamp(desiredReplicas(pass.spec, pass.auto), pass.spec)
  <2> HIDE DEF n
  <2>1. /\ spec' = spec /\ edits' = edits /\ load' = load /\ shifts' = shifts /\ auto' = auto
        /\ limited' = limited /\ sts' = sts /\ joined' = joined /\ moving' = moving /\ even' = even /\ full' = full
    BY <1>4 DEF reconcileAutoscaling
  <2>2. /\ samples' \in Samples /\ faults' \in 0 .. MaxFaults
        /\ \/ Idle /\ panicked' = TRUE /\ UNCHANGED <<chosen, highFor, lowFor>>
           \/ /\ pc' = "resize" /\ UNCHANGED panicked /\ pass' \in Passes
              /\ chosen' = IF pass'.auto.desired # pass.auto.desired THEN pass'.auto.desired ELSE chosen
              /\ highFor' \in {0, highFor} /\ lowFor' \in {0, lowFor}
    BY <1>4, DecisionPass, Zenon DEF n
  <2>3. CASE Idle /\ panicked' = TRUE /\ UNCHANGED <<chosen, highFor, lowFor>>
    BY <2>1, <2>2, <2>3, IdleType DEF TypeOK
  <2>4. CASE /\ pc' = "resize" /\ UNCHANGED panicked /\ pass' \in Passes
             /\ chosen' = IF pass'.auto.desired # pass.auto.desired THEN pass'.auto.desired ELSE chosen
             /\ highFor' \in {0, highFor} /\ lowFor' \in {0, lowFor}
    <3>1. pass'.auto.desired \in 0 .. MaxNodes /\ 0 \in Ages
      BY <2>4, <1>a DEF Passes, Autos, Ages
    <3> QED  BY <2>1, <2>2, <2>4, <3>1 DEF TypeOK
  <2> QED  BY <2>2, <2>3, <2>4, Zenon
<1>5. CASE reconcileStatefulSet
  <2> DEFINE next == buildPlan(desiredReplicas(pass.spec, pass.auto), sts, TRUE, Roster(pass.membership),
                               pass.placement).replicas
  <2>1. /\ pc' = "status"
        /\ \/ next >= sts /\ sts' = next /\ UNCHANGED <<joined, moving, faults>>
           \/ next < sts /\ sts' = next /\ joined' = next /\ moving' = (PlacementKind = "read") /\ UNCHANGED faults
           \/ next < sts /\ Fault("leave") /\ UNCHANGED <<sts, joined, moving>>
        /\ UNCHANGED <<world, stored, samples, pass, even, full, history>>
    BY <1>5, Zenon DEF reconcileStatefulSet
  <2>2. next \in 1 .. MaxNodes
    BY ResizeRange, Zenon
  <2> HIDE DEF next
  <2>3. faults' \in 0 .. MaxFaults /\ moving' \in BOOLEAN
    <3>1. faults' \in 0 .. MaxFaults
      BY <1>a, <2>1 DEF Fault, TypeOK
    <3>2. moving' = moving \/ moving' = (PlacementKind = "read")
      BY <2>1, Zenon
    <3>3. moving' \in BOOLEAN
      BY <3>2, Zenon DEF TypeOK
    <3> QED  BY <3>1, <3>3
  <2>4. sts' \in 1 .. MaxNodes /\ joined' \in 1 .. MaxNodes
    BY <2>1, <2>2 DEF TypeOK
  <2> QED  BY <2>1, <2>3, <2>4 DEF TypeOK
<1>6. CASE reconcileStatus
  <2>1. pc' = "idle" /\ pass' \in Passes
    BY <1>6, IdleType DEF reconcileStatus
  <2>2. auto' \in Autos /\ limited' \in BOOLEAN /\ highFor' \in Ages /\ lowFor' \in Ages
    BY <1>6, <1>a DEF reconcileStatus, TypeOK, Passes, Ages
  <2> QED  BY <1>6, <2>1, <2>2 DEF reconcileStatus, TypeOK
<1>7. CASE Abort
  <2>1. pc' = "idle" /\ pass' \in Passes
    BY <1>7, IdleType DEF Abort
  <2>2. faults' \in 0 .. MaxFaults /\ samples' \in Samples
    BY <1>7, <1>a DEF Abort, Fault, TypeOK, Samples
  <2> QED  BY <1>7, <2>1, <2>2 DEF Abort, TypeOK
<1>8. CASE RestartContainer \/ EditSpec \/ Shift \/ Join
  <2>1. CASE RestartContainer
    <3>1. faults' \in 0 .. MaxFaults /\ samples' \in Samples
      BY <1>a, <2>1 DEF RestartContainer, Fault, TypeOK, Samples
    <3> QED  BY <2>1, <3>1 DEF RestartContainer, TypeOK
  <2>2. CASE EditSpec
    <3>1. edits' \in 0 .. MaxEdits
      BY <1>a, <2>2 DEF EditSpec, TypeOK
    <3> QED  BY <2>2, <3>1 DEF EditSpec, TypeOK
  <2>3. CASE Shift
    <3>1. shifts' \in 0 .. MaxShifts
      BY <1>a, <2>3 DEF Shift, TypeOK
    <3> QED  BY <2>3, <3>1 DEF Shift, TypeOK
  <2>4. CASE Join
    <3>1. joined' \in 1 .. MaxNodes /\ samples' \in Samples
      BY <1>a, <2>4 DEF Join, TypeOK, Samples
    <3>2. moving' = (PlacementKind = "read")
      BY <2>4, Zenon DEF Join
    <3>3. moving' \in BOOLEAN
      BY <3>2, Zenon
    <3> QED  BY <2>4, <3>1, <3>3 DEF Join, TypeOK
  <2> QED  BY <1>8, <2>1, <2>2, <2>3, <2>4
<1>9. CASE Settle \/ Convert
  BY <1>9, <1>a, Zenon DEF Settle, Convert, TypeOK
<1>10. CASE Tick
  <2>1. auto' \in Autos /\ Aged(pass.auto) \in Autos
    BY <1>10, AgedType DEF Tick, TypeOK, Passes
  <2>2. pass' = [pass EXCEPT !.auto = Aged(pass.auto)]
    BY <1>10 DEF Tick
  <2> HIDE DEF Aged
  <2>3. pass' \in Passes
    BY <2>1, <2>2 DEF TypeOK, Passes
  <2>4. highFor' \in Ages /\ lowFor' \in Ages
    BY <1>10, <1>a DEF Tick, Older, TypeOK, Ages, NoAge
  <2> QED  BY <1>10, <2>1, <2>3, <2>4 DEF Tick, TypeOK, Samples
<1>11. CASE UNCHANGED vars
  BY <1>11 DEF vars, TypeOK
<1> QED
  BY <1>1, <1>2, <1>3, <1>4, <1>5, <1>6, <1>7, <1>8, <1>9, <1>10, <1>11 DEF Next, Pass

(* Every variable of the autoscaler holds a value of its kind for every size of cluster, window
   and target; what it chooses is a size the cluster can have (decideAutoscale). *)
THEOREM TypeCorrect == Spec => []TypeOK
  BY TypeInit, TypeNext, PTL DEF Spec

(* The cluster never shrinks under traffic that any signal shows at or above its target, whatever
   a pass could not read, whatever failed before and however the spec was edited (measure,
   decideAutoscale). *)
THEOREM NeverShrinksUnderLoad == Spec => NoShrinkUnderLoad
<1>1. ASSUME TypeOK, [Next]_vars, Decides, pass'.auto.desired < pass.auto.desired
      PROVE  Below(load.writes, TargetWrites, pass.auto.desired) /\ Below(load.queue, TargetQueue, pass.auto.desired)
  <2> DEFINE n == clamp(desiredReplicas(pass.spec, pass.auto), pass.spec)
  <2>1. /\ pass.spec \in Specs /\ pass.spec.on /\ pass.auto \in Autos
        /\ pass.auto.desired \in pass.spec.min .. pass.spec.max /\ pc = "decide" /\ pc' = "resize"
    BY <1>1 DEF TypeOK, Passes, Decides
  <2>2. reconcileAutoscaling
    BY <1>1, <2>1 DEF Next, Pass, vars, passVars, Idle, Begin, ReadCluster, forget, reconcileStatefulSet,
       reconcileStatus, Abort, RestartContainer, EditSpec, Shift, Join, Settle, Convert, Tick
  <2>3. pass.auto.desired \in Nat /\ pass.auto.desired > 0
    BY <2>1, SpecBounds, MaxNodesAssumption
  <2>4. n = pass.auto.desired
    <3>1. desiredReplicas(pass.spec, pass.auto) = pass.auto.desired
      BY <2>1, <2>3 DEF desiredReplicas
    <3> QED  BY <2>1, <2>3, <3>1, ClampRange
  <2> HIDE DEF n
  <2>5. \/ Idle
        \/ pass'.auto.desired = n \/ pass'.auto.desired = n + 1
        \/ Below(load.writes, TargetWrites, n) /\ Below(load.queue, TargetQueue, n)
    BY <1>1, <2>2, DecisionPass, Zenon DEF n
  <2>6. ~Idle
    BY <2>1 DEF Idle
  <2>7. n \in Int /\ pass'.auto.desired < n
    BY <1>1, <2>3, <2>4
  <2> QED
    BY <2>4, <2>5, <2>6, <2>7
<1>2. TypeOK /\ [Next]_vars =>
        [Decides /\ pass'.auto.desired < pass.auto.desired =>
           LET n == pass.auto.desired
           IN  Below(load.writes, TargetWrites, n) /\ Below(load.queue, TargetQueue, n)]_vars
  BY <1>1
<1> QED
  BY <1>2, TypeCorrect, PTL DEF Spec, NoShrinkUnderLoad
-----------------------------------------------------------------------------
(* What the steps of the autoscaler add up to, as long as the spec is not edited. *)

(* The steps of an unedited cluster, one operator per kind, reduced to what the invariants below
   speak of. *)

Still == UNCHANGED <<spec, auto, sts, joined, full, chosen, highFor, lowFor>>

Begins == pc = "idle" /\ pc' = "read" /\ pass'.spec = spec /\ pass'.auto = auto /\ Still

Reads ==
  /\ pc = "read" /\ pc' = "decide" /\ pass'.spec = pass.spec /\ pass'.auto = pass.auto /\ Still
  /\ pass'.full = full /\ pass'.membership.size = joined

Forgets ==
  /\ pc = "decide" /\ pc' = "resize" /\ ~pass.spec.on /\ pass'.spec = pass.spec /\ pass'.auto = NoAuto
  /\ chosen' = pass.spec.replicas /\ UNCHANGED <<spec, auto, sts, joined, full, highFor, lowFor>>

Chooses(n) ==
  /\ pc = "decide" /\ pc' = "resize" /\ pass.spec.on /\ pass'.spec = pass.spec
  /\ UNCHANGED <<spec, auto, sts, joined, full>>
  /\ pass'.auto.desired \in pass.spec.min .. pass.spec.max
  /\ \/ pass'.auto.desired = n
     \/ /\ pass'.auto.desired = n + 1 /\ Since(pass.auto.above) >= UpWindow
        /\ Converged /\ ~(pass.full /\ n >= maxReplicationFactor)
     \/ pass'.auto.desired = n - 1 /\ Since(pass.auto.below) >= DownWindow /\ Converged
  /\ chosen' = IF pass'.auto.desired # pass.auto.desired THEN pass'.auto.desired ELSE chosen
  /\ highFor' \in {0, highFor} /\ lowFor' \in {0, lowFor}
  /\ pass'.auto.above # NoAge =>
       pass'.auto.above = Since(pass.auto.above) /\ highFor' = highFor /\ pass'.auto.desired = n
  /\ pass'.auto.below # NoAge =>
       pass'.auto.below = Since(pass.auto.below) /\ lowFor' = lowFor /\ pass'.auto.desired = n

Resizes ==
  /\ pc = "resize" /\ pc' = "status" /\ pass' = pass
  /\ UNCHANGED <<spec, auto, full, chosen, highFor, lowFor>>
  /\ \/ sts' = sts /\ joined' = joined
     \/ sts' = sts + 1 /\ sts < desiredReplicas(pass.spec, pass.auto) /\ joined' = joined
     \/ sts' = sts - 1 /\ sts > desiredReplicas(pass.spec, pass.auto) /\ joined' = sts - 1

Saves ==
  /\ pc = "status" /\ pc' = "idle" /\ auto' = pass.auto
  /\ highFor' = IF auto.desired \in {0, pass.auto.desired} THEN highFor ELSE 0
  /\ lowFor' = IF auto.desired \in {0, pass.auto.desired} THEN lowFor ELSE 0
  /\ UNCHANGED <<spec, sts, joined, full, chosen>>

(* A pass that is given up: it failed, or it ended in a panic. *)
Ends == pc' = "idle" /\ Still /\ (pc \in {"idle", "decide"} \/ "abort" \in Faults)

(* The traffic, the nodes and the rebalancer. *)
Surrounds ==
  /\ UNCHANGED <<spec, auto, pc, pass, sts, chosen, highFor, lowFor>>
  /\ full' => full
  /\ joined' = joined \/ (joined < sts /\ joined' = joined + 1)

TimePasses ==
  /\ UNCHANGED <<spec, pc, sts, joined, full, chosen>>
  /\ auto' = Aged(auto) /\ pass'.auto = Aged(pass.auto) /\ pass'.spec = pass.spec
  /\ pass'.full = pass.full /\ pass'.membership = pass.membership
  /\ highFor' = Older(highFor) /\ lowFor' = Older(lowFor)

LEMMA StepKinds ==
  ASSUME MaxEdits = 0, TypeOK, TypeOK', [Next]_vars
  PROVE  \/ Begins \/ Reads \/ Forgets \/ Chooses(clamp(desiredReplicas(pass.spec, pass.auto), pass.spec))
         \/ Resizes \/ Saves \/ Ends \/ Surrounds \/ TimePasses
<1> USE DEF world, stored, passVars, cluster, history
<1>a. pass \in Passes /\ edits = 0 /\ pass.edits = 0
  BY DEF TypeOK, Passes
<1>1. CASE Begin
  <2>1. pass'.spec = spec /\ pass'.auto = auto
    BY <1>1 DEF Begin, NoPass
  <2> QED  BY <1>1, <2>1 DEF Begin, Begins, Still
<1>2. CASE ReadCluster
  <2>1. /\ pass'.spec = pass.spec /\ pass'.auto = pass.auto /\ pass'.full = full
        /\ pass'.membership.size = joined
    BY <1>2, <1>a DEF ReadCluster, Passes
  <2> QED  BY <1>2, <2>1 DEF ReadCluster, Reads, Still
<1>3. CASE forget
  <2>1. pass'.spec = pass.spec /\ pass'.auto = NoAuto
    BY <1>3, <1>a DEF forget, Passes
  <2> QED  BY <1>3, <2>1 DEF forget, Forgets
<1>4. CASE reconcileAutoscaling
  <2> DEFINE n == clamp(desiredReplicas(pass.spec, pass.auto), pass.spec)
  <2>1. pc = "decide" /\ pass.spec.on /\ UNCHANGED <<spec, auto, sts, joined, full>>
    BY <1>4 DEF reconcileAutoscaling
  <2>2. n = clamp(desiredReplicas(pass.spec, pass.auto), pass.spec)
    OBVIOUS
  <2> HIDE DEF n
  <2>3. CASE Idle /\ UNCHANGED <<chosen, highFor, lowFor>>
    BY <2>1, <2>3, IdleType DEF Ends, Still
  <2>4. CASE ~(Idle /\ UNCHANGED <<chosen, highFor, lowFor>>)
    <3>1. Chooses(n)
      BY <1>4, <2>1, <2>2, <2>4, DecisionPass, Zenon DEF Chooses
    <3> QED  BY <2>2, <3>1
  <2> QED  BY <2>3, <2>4
<1>5. CASE reconcileStatefulSet
  <2> DEFINE next == buildPlan(desiredReplicas(pass.spec, pass.auto), sts, TRUE, Roster(pass.membership),
                               pass.placement).replicas
  <2>1. /\ pc = "resize" /\ pc' = "status"
        /\ \/ next >= sts /\ sts' = next /\ UNCHANGED joined
           \/ next < sts /\ sts' = next /\ joined' = next
           \/ UNCHANGED <<sts, joined>>
        /\ UNCHANGED <<spec, auto, pass, full, chosen, highFor, lowFor>>
    BY <1>5, Zenon DEF reconcileStatefulSet
  <2> DEFINE des == desiredReplicas(pass.spec, pass.auto)
  <2>2. next = sts \/ (next = sts + 1 /\ sts < des) \/ (next = sts - 1 /\ sts > des)
    BY ResizeRange, Zenon
  <2> HIDE DEF next, des
  <2>3. sts \in Int
    BY MaxNodesAssumption DEF TypeOK
  <2>4. \/ sts' = sts /\ joined' = joined
        \/ sts' = sts + 1 /\ sts < des /\ joined' = joined
        \/ sts' = sts - 1 /\ sts > des /\ joined' = sts - 1
    BY <2>1, <2>2, <2>3
  <2> QED  BY <2>1, <2>4 DEF Resizes, des
<1>6. CASE reconcileStatus
  BY <1>6, <1>a DEF reconcileStatus, Idle, Saves
<1>7. CASE Abort
  BY <1>7 DEF Abort, Idle, Fault, Ends, Still
<1>8. CASE RestartContainer \/ EditSpec \/ Shift \/ Join \/ Settle \/ Convert \/ UNCHANGED vars
  <2>1. CASE RestartContainer \/ Shift
    BY <2>1 DEF RestartContainer, Shift, Surrounds
  <2>2. CASE Join
    BY <2>2 DEF Join, Surrounds
  <2>3. CASE Settle \/ Convert
    BY <2>3 DEF Settle, Convert, Surrounds
  <2>4. CASE UNCHANGED vars
    BY <2>4 DEF vars, Surrounds
  <2>5. ~EditSpec
    BY <1>a DEF EditSpec
  <2> QED  BY <1>8, <2>1, <2>2, <2>3, <2>4, <2>5, Zenon
<1>9. CASE Tick
  <2>1. pass' = [pass EXCEPT !.auto = Aged(pass.auto)]
    BY <1>9 DEF Tick
  <2> HIDE DEF Aged
  <2>2. /\ pass'.auto = Aged(pass.auto) /\ pass'.spec = pass.spec /\ pass'.full = pass.full
        /\ pass'.membership = pass.membership
    BY <1>a, <2>1 DEF Passes
  <2> QED  BY <1>9, <2>2 DEF Tick, TimePasses
<1> QED
  BY <1>1, <1>2, <1>3, <1>4, <1>5, <1>6, <1>7, <1>8, <1>9 DEF Next, Pass
-----------------------------------------------------------------------------
(* What a pass of an unedited cluster carries: the spec, the stored choice until it decides, and
   no choice outside the bounds. *)

InBounds(a) == a.desired # 0 => spec.on /\ a.desired \in spec.min .. spec.max

Carried ==
  /\ TypeOK
  /\ pc # "idle" => pass.spec = spec /\ InBounds(pass.auto)
  /\ pc \in {"read", "decide"} => pass.auto = auto
  /\ InBounds(auto)

(* The size a pass is about to decide on is the one it is sized by. *)
LEMMA DecidesOnSize ==
  ASSUME Carried, pc = "decide", spec.on
  PROVE  /\ clamp(desiredReplicas(pass.spec, pass.auto), pass.spec) = desiredReplicas(spec, auto)
         /\ desiredReplicas(spec, auto) \in spec.min .. spec.max
         /\ desiredReplicas(spec, auto) \in 1 .. MaxNodes
         /\ auto.desired # 0 => desiredReplicas(spec, auto) = auto.desired
<1>1. pass.spec = spec /\ pass.auto = auto /\ spec \in Specs /\ auto \in Autos /\ auto.desired \in 0 .. MaxNodes
  BY DEF Carried, TypeOK, Autos
<1>2. initialAutoscaledReplicas(spec) \in spec.min .. spec.max
  BY <1>1, SpecBounds, ClampRange, MaxNodesAssumption DEF initialAutoscaledReplicas
<1>3. /\ desiredReplicas(spec, auto) \in spec.min .. spec.max
      /\ auto.desired # 0 => desiredReplicas(spec, auto) = auto.desired
  BY <1>1, <1>2, MaxNodesAssumption DEF Carried, InBounds, desiredReplicas
<1>4. desiredReplicas(spec, auto) \in 1 .. MaxNodes
  BY <1>1, DesiredRange
<1> HIDE DEF desiredReplicas
<1> QED
  BY <1>1, <1>3, <1>4, ClampRange, MaxNodesAssumption

(* A size that was chosen is the one a pass is sized by, and time does not change it. *)
LEMMA SizedBy ==
  ASSUME Carried
  PROVE  /\ auto \in Autos /\ pass.auto \in Autos /\ spec \in Specs /\ pass.spec \in Specs
         /\ \A a \in Autos : desiredReplicas(spec, Aged(a)) = desiredReplicas(spec, a)
         /\ \A a \in Autos : spec.on /\ a.desired # 0 => desiredReplicas(spec, a) = a.desired
         /\ ~spec.on => desiredReplicas(spec, NoAuto) = spec.replicas
<1>1. auto \in Autos /\ pass.auto \in Autos /\ spec \in Specs /\ pass.spec \in Specs
  BY DEF Carried, TypeOK, Passes
<1>2. \A a \in Autos : a.desired \in 0 .. MaxNodes
  BY DEF Autos
<1>3. \A a \in Autos : desiredReplicas(spec, Aged(a)) = desiredReplicas(spec, a)
  BY AgedType DEF desiredReplicas
<1>4. \A a \in Autos : spec.on /\ a.desired # 0 => desiredReplicas(spec, a) = a.desired
  BY <1>2, MaxNodesAssumption DEF desiredReplicas
<1>5. ~spec.on => desiredReplicas(spec, NoAuto) = spec.replicas
  BY DEF desiredReplicas
<1> QED
  BY <1>1, <1>3, <1>4, <1>5

LEMMA CarriedInit == Init => Carried
<1> SUFFICES ASSUME Init PROVE Carried
  OBVIOUS
<1>1. pc = "idle" /\ auto.desired = 0
  BY DEF Init, NoAuto
<1> QED
  BY <1>1, TypeInit DEF Carried, InBounds

LEMMA CarriedTypes ==
  ASSUME Carried
  PROVE  /\ TypeOK /\ sts \in Int /\ joined \in Int /\ chosen \in Int /\ full \in BOOLEAN
         /\ highFor \in Ages /\ lowFor \in Ages
         /\ pass.membership \in [known : BOOLEAN, size : 0 .. MaxNodes] /\ pass.membership.size \in Int
<1>1. TypeOK
  BY DEF Carried
<1>2. pass.membership \in [known : BOOLEAN, size : 0 .. MaxNodes]
  BY <1>1 DEF TypeOK, Passes
<1>3. sts \in Int /\ joined \in Int /\ chosen \in Int
  BY <1>1, MaxNodesAssumption DEF TypeOK
<1>4. full \in BOOLEAN /\ highFor \in Ages /\ lowFor \in Ages
  BY <1>1 DEF TypeOK
<1> QED
  BY <1>1, <1>2, <1>3, <1>4, MaxNodesAssumption

(* A choice that was made is a size, in a pass that goes on. *)
LEMMA ChoiceMade ==
  ASSUME Carried, TypeOK', NEW n, Chooses(n)
  PROVE  /\ pc = "decide" /\ pc' = "resize" /\ spec.on /\ pass.auto = auto /\ pass.spec = spec
         /\ pass'.spec = spec /\ UNCHANGED <<spec, auto, sts, joined, full>>
         /\ pass'.auto \in Autos /\ pass'.auto.desired \in 1 .. MaxNodes
         /\ pass'.auto.desired \in spec.min .. spec.max
         /\ desiredReplicas(spec, pass'.auto) = pass'.auto.desired
<1>1. /\ pc = "decide" /\ pc' = "resize" /\ spec.on /\ pass.auto = auto /\ pass.spec = spec
      /\ pass'.spec = spec /\ UNCHANGED <<spec, auto, sts, joined, full>>
      /\ pass'.auto.desired \in spec.min .. spec.max
  BY DEF Chooses, Carried
<1>2. pass' \in Passes
  BY DEF TypeOK
<1>3. pass'.auto \in Autos
  BY <1>2 DEF Passes
<1>4. spec \in Specs
  BY SizedBy
<1>5. pass'.auto.desired \in 1 .. MaxNodes
  <2>1. spec.min \in 1 .. MaxNodes /\ spec.max \in 1 .. MaxNodes
    BY <1>4, SpecBounds
  <2> QED  BY <1>1, <2>1, MaxNodesAssumption
<1>6. desiredReplicas(spec, pass'.auto) = pass'.auto.desired
  BY <1>1, <1>3, <1>5, SizedBy
<1> QED
  BY <1>1, <1>3, <1>5, <1>6

LEMMA CarriedNext ==
  ASSUME MaxEdits = 0, Carried, [Next]_vars
  PROVE  Carried'
<1>1. TypeOK /\ TypeOK'
  BY TypeNext DEF Carried
<1> DEFINE n == clamp(desiredReplicas(pass.spec, pass.auto), pass.spec)
<1>2. \/ Begins \/ Reads \/ Forgets \/ Chooses(n)
      \/ Resizes \/ Saves \/ Ends \/ Surrounds \/ TimePasses
  BY <1>1, StepKinds
<1> HIDE DEF n
<1>3. CASE Begins \/ Reads
  BY <1>1, <1>3 DEF Begins, Reads, Still, Carried, InBounds
<1>4. CASE Resizes \/ Surrounds
  BY <1>1, <1>4 DEF Resizes, Surrounds, Carried, InBounds
<1>5. CASE Saves \/ Ends
  BY <1>1, <1>5 DEF Saves, Ends, Still, Carried, InBounds
<1>6. CASE Forgets
  <2>1. /\ pc = "decide" /\ pc' = "resize" /\ pass'.spec = pass.spec /\ spec' = spec /\ auto' = auto
        /\ pass'.auto.desired = 0
    BY <1>6 DEF Forgets, NoAuto
  <2> QED  BY <1>1, <2>1 DEF Carried, InBounds
<1>7. CASE Chooses(n)
  <2>1. /\ pc' = "resize" /\ spec.on /\ pass'.spec = spec /\ spec' = spec /\ auto' = auto
        /\ pass'.auto.desired \in spec.min .. spec.max
    BY <1>1, <1>7, ChoiceMade
  <2> QED  BY <1>1, <2>1 DEF Carried, InBounds
<1>8. CASE TimePasses
  <2>1. Aged(auto).desired = auto.desired /\ Aged(pass.auto).desired = pass.auto.desired
    BY SizedBy, AgedType
  <2>2. /\ pc' = pc /\ spec' = spec /\ pass'.spec = pass.spec /\ auto' = Aged(auto)
        /\ pass'.auto = Aged(pass.auto)
    BY <1>8 DEF TimePasses
  <2> HIDE DEF Aged
  <2> QED  BY <1>1, <2>1, <2>2 DEF Carried, InBounds
<1> QED
  BY <1>2, <1>3, <1>4, <1>5, <1>6, <1>7, <1>8
-----------------------------------------------------------------------------
(* The replication cap. *)

Capped ==
  /\ full => desiredReplicas(spec, auto) <= maxReplicationFactor
  /\ pc = "decide" /\ full => pass.full
  /\ pc \in {"resize", "status"} /\ full => desiredReplicas(pass.spec, pass.auto) <= maxReplicationFactor

LEMMA CappedInit == Init => Capped
<1> SUFFICES ASSUME Init PROVE Capped
  OBVIOUS
<1>1. sts \in Int /\ full \in BOOLEAN
  BY TypeInit, MaxNodesAssumption DEF TypeOK
<1>2. sts = desiredReplicas(spec, auto) /\ (sts > 3 => ~full) /\ pc = "idle" /\ maxReplicationFactor = 3
  BY DEF Init, maxReplicationFactor
<1> HIDE DEF desiredReplicas
<1> QED
  BY <1>1, <1>2 DEF Capped

LEMMA CappedNext ==
  ASSUME MaxEdits = 0, Carried, Capped, [Next]_vars
  PROVE  Capped'
<1>1. TypeOK /\ TypeOK' /\ full \in BOOLEAN
  BY TypeNext, CarriedTypes
<1> DEFINE n == clamp(desiredReplicas(pass.spec, pass.auto), pass.spec)
<1>2. \/ Begins \/ Reads \/ Forgets \/ Chooses(n)
      \/ Resizes \/ Saves \/ Ends \/ Surrounds \/ TimePasses
  BY <1>1, StepKinds
<1> HIDE DEF n, desiredReplicas, maxReplicationFactor
<1>3. CASE Begins \/ Reads
  BY <1>3 DEF Begins, Reads, Still, Capped
<1>4. CASE Resizes
  BY <1>4 DEF Resizes, Capped
<1>5. CASE Saves
  BY <1>5 DEF Saves, Capped, Carried
<1>6. CASE Ends
  BY <1>6 DEF Ends, Still, Capped
<1>7. CASE Surrounds
  BY <1>7 DEF Surrounds, Capped
<1>8. CASE Forgets
  <2>1. /\ pass.spec = spec /\ pass'.spec = spec /\ spec' = spec /\ auto' = auto /\ full' = full
        /\ pc' = "resize" /\ pass'.auto = NoAuto /\ ~spec.on
    BY <1>8 DEF Forgets, Carried
  <2>2. desiredReplicas(spec, NoAuto) = desiredReplicas(spec, auto)
    BY <2>1 DEF desiredReplicas
  <2> QED  BY <2>1, <2>2 DEF Capped
<1>9. CASE Chooses(n)
  <2>1. /\ pc = "decide" /\ pc' = "resize" /\ spec.on /\ pass'.spec = spec /\ spec' = spec /\ auto' = auto
        /\ full' = full /\ desiredReplicas(spec, pass'.auto) = pass'.auto.desired
        /\ pass'.auto.desired \in 1 .. MaxNodes
    BY <1>1, <1>9, ChoiceMade
  <2>2. n = desiredReplicas(spec, auto) /\ n \in 1 .. MaxNodes
    BY <2>1, DecidesOnSize DEF n
  <2>3. full => n <= maxReplicationFactor /\ pass.full
    BY <2>1, <2>2 DEF Capped
  <2>4. \/ pass'.auto.desired = n
        \/ pass'.auto.desired = n + 1 /\ ~(pass.full /\ n >= maxReplicationFactor)
        \/ pass'.auto.desired = n - 1
    BY <1>9 DEF Chooses
  <2>5. full => pass'.auto.desired <= maxReplicationFactor
    BY <2>2, <2>3, <2>4, MaxNodesAssumption DEF maxReplicationFactor
  <2> QED  BY <2>1, <2>2, <2>3, <2>5 DEF Capped
<1>10. CASE TimePasses
  <2>1. desiredReplicas(spec, auto') = desiredReplicas(spec, auto)
    BY <1>10, SizedBy DEF TimePasses
  <2>2. desiredReplicas(spec, pass'.auto) = desiredReplicas(spec, pass.auto)
    BY <1>10, SizedBy DEF TimePasses
  <2>3. pc # "idle" => pass.spec = spec
    BY DEF Carried
  <2> QED  BY <1>10, <2>1, <2>2, <2>3 DEF TimePasses, Capped
<1> QED
  BY <1>2, <1>3, <1>4, <1>5, <1>6, <1>7, <1>8, <1>9, <1>10

(* As long as its spec is not edited, a cluster with a data partition on every node never grows
   past the replication cap, whatever fails: the ceiling of the decision bounds the size every
   later step moves toward (growthCeiling, decideAutoscale, reconcileStatefulSet). *)
THEOREM GrowthIsCapped == ASSUME MaxEdits = 0 PROVE Spec => CapHeld
<1>1. Init => Carried /\ Capped
  BY CarriedInit, CappedInit
<1>2. Carried /\ Capped /\ [Next]_vars => (Carried /\ Capped)'
  BY CarriedNext, CappedNext
<1>3. Carried /\ Capped /\ [Next]_vars => [sts' > sts /\ full => sts' <= maxReplicationFactor]_vars
  <2> SUFFICES ASSUME Carried, Capped, [Next]_vars, sts' > sts, full PROVE sts' <= maxReplicationFactor
    OBVIOUS
  <2> DEFINE n == clamp(desiredReplicas(pass.spec, pass.auto), pass.spec)
             des == desiredReplicas(pass.spec, pass.auto)
  <2>1. TypeOK /\ TypeOK' /\ sts \in Int
    BY TypeNext, CarriedTypes
  <2>2. \/ Begins \/ Reads \/ Forgets \/ Chooses(n)
        \/ Resizes \/ Saves \/ Ends \/ Surrounds \/ TimePasses
    BY <2>1, StepKinds
  <2>3. des \in Int
    BY SizedBy, DesiredRange, MaxNodesAssumption
  <2> HIDE DEF n, desiredReplicas
  <2>4. Resizes
    <3>1. sts' = sts \/ Resizes
      BY <2>2, Zenon DEF Begins, Reads, Forgets, Chooses, Saves, Ends, Surrounds, TimePasses, Still
    <3> QED  BY <2>1, <3>1
  <2>5. sts' = sts + 1 /\ sts < des
    BY <2>1, <2>4 DEF Resizes
  <2>6. des <= maxReplicationFactor
    BY <2>4 DEF Resizes, Capped
  <2> HIDE DEF des
  <2> QED  BY <2>1, <2>3, <2>5, <2>6 DEF maxReplicationFactor
<1> QED
  BY <1>1, <1>2, <1>3, PTL DEF Spec, CapHeld
-----------------------------------------------------------------------------
(* The stabilization windows.  A streak is never older than the time the passes have seen the
   traffic ask for it; a choice that has just changed carries none. *)

Witnessed(a) == (a.above # NoAge => a.above <= highFor) /\ (a.below # NoAge => a.below <= lowFor)

Streaks ==
  /\ pc \in {"idle", "read", "decide"} => Witnessed(auto)
  /\ pc \in {"resize", "status"} =>
       /\ Witnessed(pass.auto)
       /\ auto.desired \notin {0, pass.auto.desired} => pass.auto.above = NoAge /\ pass.auto.below = NoAge

LEMMA StreaksInit == Init => Streaks
  BY DEF Init, Streaks, Witnessed, NoAuto

LEMMA StreaksNext ==
  ASSUME MaxEdits = 0, "abort" \notin Faults, Carried, Streaks, [Next]_vars
  PROVE  Streaks'
<1>1. /\ TypeOK /\ TypeOK' /\ auto \in Autos /\ pass.auto \in Autos
      /\ highFor \in Ages /\ lowFor \in Ages /\ MaxAge \in Nat
  BY TypeNext, CarriedTypes, SizedBy, AutoscalerAssumption
<1> DEFINE n == clamp(desiredReplicas(pass.spec, pass.auto), pass.spec)
<1>2. \/ Begins \/ Reads \/ Forgets \/ Chooses(n)
      \/ Resizes \/ Saves \/ Ends \/ Surrounds \/ TimePasses
  BY <1>1, StepKinds
<1> HIDE DEF n
<1> USE DEF Streaks, Witnessed
<1>3. CASE Begins \/ Reads \/ Resizes \/ Ends \/ Surrounds
  <2>1. CASE Begins \/ Reads
    BY <2>1 DEF Begins, Reads, Still
  <2>2. CASE Resizes \/ Surrounds
    BY <2>2 DEF Resizes, Surrounds
  <2>3. CASE Ends
    BY <2>3 DEF Ends, Still
  <2> QED  BY <1>3, <2>1, <2>2, <2>3
<1>4. CASE Forgets
  <2>1. pc' = "resize" /\ pass'.auto.above = NoAge /\ pass'.auto.below = NoAge
    BY <1>4 DEF Forgets, NoAuto
  <2> QED  BY <2>1
<1>5. CASE Saves
  <2>1. pc = "status" /\ pc' = "idle" /\ auto' = pass.auto
    BY <1>5 DEF Saves
  <2>2. CASE auto.desired \in {0, pass.auto.desired}
    BY <1>5, <2>1, <2>2 DEF Saves
  <2>3. CASE auto.desired \notin {0, pass.auto.desired}
    BY <1>5, <2>1, <2>3 DEF Saves
  <2> QED  BY <2>2, <2>3
<1>6. CASE Chooses(n)
  <2>1. /\ pc = "decide" /\ pc' = "resize" /\ spec.on /\ auto' = auto /\ pass.auto = auto /\ pass.spec = spec
        /\ pass'.auto.above # NoAge =>
             pass'.auto.above = Since(auto.above) /\ highFor' = highFor /\ pass'.auto.desired = n
        /\ pass'.auto.below # NoAge =>
             pass'.auto.below = Since(auto.below) /\ lowFor' = lowFor /\ pass'.auto.desired = n
    BY <1>6 DEF Chooses, Carried
  <2>2. auto.desired # 0 => n = auto.desired
    BY <2>1, DecidesOnSize DEF n
  <2>3. Since(auto.above) <= highFor /\ Since(auto.below) <= lowFor
    BY <1>1, <2>1 DEF Since, Ages
  <2> QED  BY <2>1, <2>2, <2>3
<1>7. CASE TimePasses
  <2> DEFINE olderThan(x, y) == x # NoAge => x <= y
  <2>1. \A x \in OptAges, y \in Ages : olderThan(x, y) => olderThan(Older(x), Older(y))
    BY <1>1 DEF Older, OptAges, Ages, NoAge
  <2>2. \A x \in OptAges : x = NoAge => Older(x) = NoAge
    BY DEF Older
  <2>3. /\ auto.above \in OptAges /\ auto.below \in OptAges
        /\ pass.auto.above \in OptAges /\ pass.auto.below \in OptAges
    BY <1>1 DEF Autos
  <2>4. /\ auto'.desired = auto.desired /\ auto'.above = Older(auto.above) /\ auto'.below = Older(auto.below)
        /\ pass'.auto.desired = pass.auto.desired /\ pass'.auto.above = Older(pass.auto.above)
        /\ pass'.auto.below = Older(pass.auto.below)
        /\ highFor' = Older(highFor) /\ lowFor' = Older(lowFor) /\ pc' = pc
    BY <1>1, <1>7, AgedType DEF TimePasses
  <2> HIDE DEF Older
  <2> QED  BY <1>1, <2>1, <2>2, <2>3, <2>4
<1> QED
  BY <1>2, <1>3, <1>4, <1>5, <1>6, <1>7

(* Unless its spec is edited or a pass is given up half-way, the autoscaler moves by one node at a
   time, and only after every pass for the whole stabilization window saw the traffic ask for it,
   whatever could not be read in between and however often the operator restarted
   (decideAutoscale, reconcileStatus). *)
THEOREM StepsAreEarned == ASSUME MaxEdits = 0, "abort" \notin Faults PROVE Spec => StepsEarned
<1>1. Init => Carried /\ Streaks
  BY CarriedInit, StreaksInit
<1>2. Carried /\ Streaks /\ [Next]_vars => (Carried /\ Streaks)'
  BY CarriedNext, StreaksNext
<1> DEFINE earned ==
      Decides =>
        /\ pass'.auto.desired > pass.auto.desired =>
             pass'.auto.desired = pass.auto.desired + 1 /\ highFor >= UpWindow
        /\ pass'.auto.desired < pass.auto.desired =>
             pass'.auto.desired = pass.auto.desired - 1 /\ lowFor >= DownWindow
<1>3. Carried /\ Streaks /\ [Next]_vars => [earned]_vars
  <2> SUFFICES ASSUME Carried, Streaks, [Next]_vars, Decides PROVE earned
    OBVIOUS
  <2> DEFINE n == clamp(desiredReplicas(pass.spec, pass.auto), pass.spec)
  <2>1. /\ TypeOK /\ TypeOK' /\ highFor \in Ages /\ lowFor \in Ages /\ auto \in Autos /\ spec \in Specs
        /\ MaxAge \in Nat /\ UpWindow \in Nat /\ DownWindow \in Nat
    BY TypeNext, AutoscalerAssumption DEF Carried, TypeOK
  <2>2. /\ pc = "decide" /\ pc' = "resize" /\ pass.spec = spec /\ pass.auto = auto /\ spec.on
        /\ auto.desired \in spec.min .. spec.max
    BY DEF Decides, Carried
  <2>3. auto.desired \in Nat /\ auto.desired # 0
    BY <2>1, <2>2, SpecBounds, MaxNodesAssumption
  <2>4. n = auto.desired
    BY <2>2, <2>3, DecidesOnSize
  <2>5. \/ Begins \/ Reads \/ Forgets \/ Chooses(n)
        \/ Resizes \/ Saves \/ Ends \/ Surrounds \/ TimePasses
    BY <2>1, StepKinds
  <2> HIDE DEF n
  <2>6. Chooses(n)
    BY <2>2, <2>5 DEF Begins, Reads, Forgets, Resizes, Saves, Ends, Surrounds, TimePasses
  <2>7. \/ pass'.auto.desired = n
        \/ pass'.auto.desired = n + 1 /\ Since(auto.above) >= UpWindow
        \/ pass'.auto.desired = n - 1 /\ Since(auto.below) >= DownWindow
    BY <2>2, <2>6 DEF Chooses
  <2>8. Since(auto.above) <= highFor /\ Since(auto.below) <= lowFor
    BY <2>1, <2>2 DEF Streaks, Witnessed, Since, Ages
  <2>9. Since(auto.above) \in Int /\ Since(auto.below) \in Int /\ highFor \in Int /\ lowFor \in Int
    BY <2>1 DEF Since, Autos, OptAges, Ages
  <2> HIDE DEF Since
  <2> QED  BY <2>1, <2>2, <2>3, <2>4, <2>7, <2>8, <2>9
<1> QED
  BY <1>1, <1>2, <1>3, PTL DEF Spec, StepsEarned
-----------------------------------------------------------------------------
(* The choice a pass is sized by is the last one made. *)

Followed ==
  /\ pc \in {"idle", "read", "decide"} => chosen = desiredReplicas(spec, auto)
  /\ pc \in {"resize", "status"} => chosen = desiredReplicas(spec, pass.auto)

LEMMA FollowedInit == Init => Followed
  BY DEF Init, Followed

LEMMA FollowedNext ==
  ASSUME MaxEdits = 0, "abort" \notin Faults, Carried, Followed, [Next]_vars
  PROVE  Followed'
<1>1. TypeOK /\ TypeOK' /\ Carried'
  BY TypeNext, CarriedNext DEF Carried
<1> DEFINE n == clamp(desiredReplicas(pass.spec, pass.auto), pass.spec)
<1>2. \/ Begins \/ Reads \/ Forgets \/ Chooses(n)
      \/ Resizes \/ Saves \/ Ends \/ Surrounds \/ TimePasses
  BY <1>1, StepKinds
<1> HIDE DEF n, desiredReplicas
<1> USE DEF Followed
<1>3. CASE Begins \/ Reads \/ Resizes \/ Saves \/ Ends \/ Surrounds
  <2>1. CASE Begins \/ Reads
    BY <2>1 DEF Begins, Reads, Still
  <2>2. CASE Resizes \/ Surrounds
    BY <2>2 DEF Resizes, Surrounds
  <2>3. CASE Saves \/ Ends
    BY <2>3 DEF Saves, Ends, Still
  <2> QED  BY <1>3, <2>1, <2>2, <2>3
<1>4. CASE Forgets
  BY <1>4, SizedBy DEF Forgets, Carried
<1>5. CASE Chooses(n)
  <2>1. /\ pc = "decide" /\ pc' = "resize" /\ spec.on /\ pass.auto = auto /\ spec' = spec
        /\ pass'.auto.desired \in 1 .. MaxNodes /\ auto \in Autos
        /\ desiredReplicas(spec, pass'.auto) = pass'.auto.desired
    BY <1>1, <1>5, ChoiceMade, SizedBy
  <2>2. chosen' = IF pass'.auto.desired # auto.desired THEN pass'.auto.desired ELSE chosen
    BY <1>5, <2>1 DEF Chooses
  <2>4. pass'.auto.desired = auto.desired => desiredReplicas(spec, auto) = auto.desired
    <3>1. auto \in Autos /\ spec.on /\ (pass'.auto.desired = auto.desired => auto.desired # 0)
      BY <2>1, MaxNodesAssumption
    <3> QED  BY <3>1, SizedBy, Zenon
  <2> QED  BY <2>1, <2>2, <2>4
<1>6. CASE TimePasses
  BY <1>6, SizedBy DEF TimePasses
<1> QED
  BY <1>2, <1>3, <1>4, <1>5, <1>6

(* Unless its spec is edited or a pass is given up half-way, every step of the StatefulSet is one
   toward the size the autoscaler last chose (reconcileAutoscaling, reconcileStatefulSet). *)
THEOREM DecisionsAreKept == ASSUME MaxEdits = 0, "abort" \notin Faults PROVE Spec => DecisionsStick
<1>1. Init => Carried /\ Followed
  BY CarriedInit, FollowedInit
<1>2. Carried /\ Followed /\ [Next]_vars => (Carried /\ Followed)'
  BY CarriedNext, FollowedNext
<1>3. Carried /\ Followed /\ [Next]_vars =>
        [(sts' > sts => sts' <= chosen) /\ (sts' < sts => sts' >= chosen)]_vars
  <2> SUFFICES ASSUME Carried, Followed, [Next]_vars
               PROVE  (sts' > sts => sts' <= chosen) /\ (sts' < sts => sts' >= chosen)
    OBVIOUS
  <2> DEFINE n == clamp(desiredReplicas(pass.spec, pass.auto), pass.spec)
  <2>1. TypeOK /\ TypeOK' /\ sts \in Int /\ chosen \in Int
    BY TypeNext, CarriedTypes
  <2>2. \/ Begins \/ Reads \/ Forgets \/ Chooses(n)
        \/ Resizes \/ Saves \/ Ends \/ Surrounds \/ TimePasses
    BY <2>1, StepKinds
  <2> HIDE DEF n, desiredReplicas
  <2>3. sts' = sts \/ Resizes
    BY <2>2, Zenon DEF Begins, Reads, Forgets, Chooses, Saves, Ends, Surrounds, TimePasses, Still
  <2>4. Resizes => chosen = desiredReplicas(pass.spec, pass.auto)
    BY DEF Resizes, Followed, Carried
  <2>5. Resizes => sts' = sts \/ (sts' = sts + 1 /\ sts < chosen) \/ (sts' = sts - 1 /\ sts > chosen)
    BY <2>4 DEF Resizes
  <2> QED  BY <2>1, <2>3, <2>5
<1> QED
  BY <1>1, <1>2, <1>3, PTL DEF Spec, DecisionsStick
-----------------------------------------------------------------------------
(* One step at a time.  A StatefulSet that is not at the size it is moved to is a step away from it
   and has all its nodes in the roster; a roster as small as the size decided on was read from a
   StatefulSet of that size; and a choice that changed was made there. *)

Near(size) == sts - size \in -1 .. 1 /\ sts - joined \in 0 .. 1 /\ (sts # size => joined = sts)

Advances ==
  /\ pc \in {"idle", "read", "decide"} => Near(desiredReplicas(spec, auto))
  /\ pc = "decide" => /\ pass.membership.size <= joined
                      /\ pass.membership.size = desiredReplicas(spec, auto) => sts = desiredReplicas(spec, auto)
  /\ pc \in {"resize", "status"} => /\ Near(desiredReplicas(spec, pass.auto))
                                    /\ sts - desiredReplicas(spec, auto) \in -1 .. 1
  /\ pc = "resize" /\ desiredReplicas(spec, pass.auto) # desiredReplicas(spec, auto) =>
       sts = desiredReplicas(spec, auto)

LEMMA AdvancesInit == Init => Advances
<1> SUFFICES ASSUME Init PROVE Advances
  OBVIOUS
<1>1. sts \in Int
  BY TypeInit, MaxNodesAssumption DEF TypeOK
<1>2. sts = desiredReplicas(spec, auto) /\ joined = sts /\ pc = "idle"
  BY DEF Init
<1> HIDE DEF desiredReplicas
<1>3. Near(desiredReplicas(spec, auto))
  BY <1>1, <1>2 DEF Near
<1> QED
  BY <1>2, <1>3 DEF Advances

(* A cluster that has converged has the roster of the size a pass is sized by. *)
LEMMA ConvergedSize ==
  ASSUME TypeOK, Converged
  PROVE  pass.membership.size = desiredReplicas(pass.spec, pass.auto)
<1> DEFINE des == desiredReplicas(pass.spec, pass.auto)
<1>1. pass.membership \in [known : BOOLEAN, size : 0 .. MaxNodes] /\ des \in 0 .. MaxNodes
  BY DesiredRange, MaxNodesAssumption DEF TypeOK, Passes
<1>2. rosterMatches(Roster(pass.membership), des)
  BY DEF Converged
<1> HIDE DEF des
<1>3. pass.membership.size = des
  BY <1>1, <1>2, RosterSize
<1> QED
  BY <1>3 DEF des

LEMMA AdvancesNext ==
  ASSUME MaxEdits = 0, "abort" \notin Faults, Carried, Advances, [Next]_vars
  PROVE  Advances'
<1>1. /\ TypeOK /\ TypeOK' /\ auto \in Autos /\ pass.auto \in Autos /\ spec \in Specs
      /\ sts \in Int /\ joined \in Int /\ pass.membership.size \in Int
  BY TypeNext, CarriedTypes, SizedBy
<1> DEFINE n == clamp(desiredReplicas(pass.spec, pass.auto), pass.spec)
           old == desiredReplicas(spec, auto)
           new == desiredReplicas(spec, pass.auto)
<1>2. \/ Begins \/ Reads \/ Forgets \/ Chooses(n)
      \/ Resizes \/ Saves \/ Ends \/ Surrounds \/ TimePasses
  BY <1>1, StepKinds
<1>3. old \in Int /\ new \in Int
  BY <1>1, DesiredRange, MaxNodesAssumption
<1> HIDE DEF n, desiredReplicas
<1>4. CASE Begins \/ Saves \/ Ends
  <2>1. CASE Begins
    BY <2>1 DEF Begins, Still, Advances, Near
  <2>2. CASE Saves
    BY <2>2 DEF Saves, Advances, Near
  <2>3. CASE Ends
    BY <2>3 DEF Ends, Still, Advances, Near
  <2> QED  BY <1>4, <2>1, <2>2, <2>3
<1>5. CASE Reads
  <2>1. /\ pc = "read" /\ pc' = "decide" /\ pass'.membership.size = joined
        /\ sts' = sts /\ joined' = joined /\ spec' = spec /\ auto' = auto /\ Near(old)
    BY <1>5 DEF Reads, Still, Advances
  <2>2. joined = old => sts = old
    BY <1>1, <1>3, <2>1 DEF Near
  <2>3. Near(desiredReplicas(spec, auto))' /\ pass'.membership.size <= joined'
    BY <1>1, <2>1 DEF Near
  <2>4. pass'.membership.size = desiredReplicas(spec, auto)' => sts' = desiredReplicas(spec, auto)'
    BY <2>1, <2>2
  <2> QED  BY <2>1, <2>3, <2>4, Zenon DEF Advances
<1>6. CASE Forgets
  <2>1. /\ pc = "decide" /\ pc' = "resize" /\ ~spec.on /\ pass'.auto = NoAuto
        /\ sts' = sts /\ joined' = joined /\ spec' = spec /\ auto' = auto /\ Near(old)
    BY <1>6 DEF Forgets, Advances, Carried
  <2>2. desiredReplicas(spec, NoAuto) = old
    BY <2>1 DEF desiredReplicas
  <2> QED  BY <2>1, <2>2 DEF Advances, Near
<1>7. CASE Chooses(n)
  <2> DEFINE m == desiredReplicas(spec, pass'.auto)
  <2>1. /\ pc = "decide" /\ pc' = "resize" /\ spec.on /\ pass.auto = auto /\ pass.spec = spec
        /\ sts' = sts /\ joined' = joined /\ spec' = spec /\ auto' = auto
        /\ m = pass'.auto.desired /\ m \in 1 .. MaxNodes
    BY <1>1, <1>7, ChoiceMade
  <2>2. n = old
    BY <2>1, DecidesOnSize DEF n
  <2>3. Near(old)
    BY <2>1 DEF Advances
  <2> HIDE DEF m, old, Converged
  <2>4. m = n \/ (m = n + 1 /\ Converged) \/ (m = n - 1 /\ Converged)
    BY <1>7, <2>1 DEF Chooses
  <2>5. m \in Int /\ (m = old \/ (m - old \in -1 .. 1 /\ Converged))
    BY <1>3, <2>1, <2>2, <2>4, MaxNodesAssumption
  <2>6. Converged => pass.membership.size = old
    BY <1>1, <2>1, ConvergedSize DEF old
  <2>7. Converged => sts = old /\ joined = old
    <3>1. pass.membership.size <= joined /\ (pass.membership.size = old => sts = old)
      BY <2>1 DEF Advances, old
    <3> QED  BY <1>1, <1>3, <2>3, <2>6, <3>1 DEF Near
  <2>8. /\ sts - m \in -1 .. 1 /\ sts - joined \in 0 .. 1 /\ (sts # m => joined = sts)
        /\ sts - old \in -1 .. 1 /\ (m # old => sts = old)
    BY <1>1, <1>3, <2>3, <2>5, <2>7 DEF Near
  <2> QED  BY <2>1, <2>8 DEF Advances, Near, m, old
<1>8. CASE Resizes
  <2>1. /\ pc = "resize" /\ pc' = "status" /\ pass' = pass /\ spec' = spec /\ auto' = auto
        /\ Near(new) /\ sts - old \in -1 .. 1 /\ (new # old => sts = old)
        /\ \/ sts' = sts /\ joined' = joined
           \/ sts' = sts + 1 /\ sts < new /\ joined' = joined
           \/ sts' = sts - 1 /\ sts > new /\ joined' = sts - 1
    BY <1>8, Zenon DEF Resizes, Advances, Carried
  <2> HIDE DEF old, new
  <2>2. /\ sts' - new \in -1 .. 1 /\ sts' - joined' \in 0 .. 1 /\ (sts' # new => joined' = sts')
        /\ sts' - old \in -1 .. 1
    BY <1>1, <1>3, <2>1 DEF Near
  <2> QED  BY <2>1, <2>2 DEF Advances, Near, old, new
<1>9. CASE Surrounds
  <2>1. /\ pc' = pc /\ pass' = pass /\ spec' = spec /\ auto' = auto /\ sts' = sts
        /\ joined' = joined \/ (joined < sts /\ joined' = joined + 1)
    BY <1>9 DEF Surrounds
  <2>2. ASSUME NEW x \in Int, sts - x \in -1 .. 1, sts - joined \in 0 .. 1, sts # x => joined = sts
        PROVE  sts - joined' \in 0 .. 1 /\ (sts # x => joined' = sts)
    <3>1. CASE joined' = joined
      BY <2>2, <3>1
    <3>2. CASE joined < sts /\ joined' = joined + 1
      BY <1>1, <2>2, <3>2
    <3> QED  BY <2>1, <3>1, <3>2
  <2>3. pass.membership.size <= joined => pass.membership.size <= joined'
    BY <1>1, <2>1
  <2>4. desiredReplicas(spec, auto)' = old /\ desiredReplicas(spec, pass.auto)' = new
    BY <2>1
  <2> HIDE DEF old, new
  <2>5. Near(old) => sts' - old \in -1 .. 1 /\ sts' - joined' \in 0 .. 1 /\ (sts' # old => joined' = sts')
    BY <1>3, <2>1, <2>2 DEF Near
  <2>6. Near(new) => sts' - new \in -1 .. 1 /\ sts' - joined' \in 0 .. 1 /\ (sts' # new => joined' = sts')
    BY <1>3, <2>1, <2>2 DEF Near
  <2> QED  BY <2>1, <2>3, <2>4, <2>5, <2>6, Zenon DEF Advances, Near, old, new
<1>10. CASE TimePasses
  <2>1. /\ desiredReplicas(spec, auto') = old
        /\ desiredReplicas(spec, pass'.auto) = new
    BY <1>10, SizedBy DEF TimePasses
  <2>2. pc' = pc /\ spec' = spec /\ sts' = sts /\ joined' = joined /\ pass'.membership = pass.membership
    BY <1>10, Zenon DEF TimePasses
  <2> QED  BY <2>1, <2>2 DEF Advances, Near
<1> QED
  BY <1>2, <1>4, <1>5, <1>6, <1>7, <1>8, <1>9, <1>10

(* Unless its spec is edited or a pass is given up half-way, no second step is chosen while the
   first is under way: the stored choice is at most one node from the StatefulSet, and the
   StatefulSet at most one from the roster (Converged in decideAutoscale, buildPlan). *)
THEOREM OneStepAtATime == ASSUME MaxEdits = 0, "abort" \notin Faults PROVE Spec => []OneStepAhead
<1>1. Init => Carried /\ Advances
  BY CarriedInit, AdvancesInit
<1>2. Carried /\ Advances /\ [Next]_vars => (Carried /\ Advances)'
  BY CarriedNext, AdvancesNext
<1>3. Carried /\ Advances => OneStepAhead
  <2> SUFFICES ASSUME Carried, Advances PROVE OneStepAhead
    OBVIOUS
  <2>1. auto.desired # 0 => desiredReplicas(spec, auto) = auto.desired
    BY SizedBy DEF Carried, InBounds
  <2> HIDE DEF desiredReplicas
  <2>2. sts - desiredReplicas(spec, auto) \in -1 .. 1 /\ sts - joined \in 0 .. 1
    BY DEF Carried, TypeOK, Advances, Near
  <2> QED  BY <2>1, <2>2 DEF OneStepAhead
<1> QED
  BY <1>1, <1>2, <1>3, PTL DEF Spec
=============================================================================
