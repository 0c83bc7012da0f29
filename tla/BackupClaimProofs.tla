-------------------------- MODULE BackupClaimProofs --------------------------
(***************************************************************************)
(* Proofs about module BackupClaim: no backup is lost with its claim, the  *)
(* signing key is never replaced, and a claim is written a bounded number  *)
(* of times per edit, for every specification, number of edits and lag of  *)
(* the cache.                                                              *)
(***************************************************************************)
EXTENDS BackupClaim, TLAPS

(* Types without the bound on writes, which ReplacesPerEdit gives. *)
TypeInv ==
  /\ spec \in Specs /\ edits \in Nat
  /\ claims \in Seq(Claims) /\ Len(claims) > 0
  /\ pass \in [spec : Specs, edits : Nat, claim : Claims, ready : {"none", "true", "false"}]

(* Inductive: what a pass is about to delete had no volume when it was compared. *)
IInv == TypeInv /\ (pc = "replace" => pass.claim.phase = "pending")

(* The current claim after the claim is written, and after the cache has seen an older one. *)
LEMMA Written ==
  ASSUME NEW S, NEW s \in Seq(S), Len(s) > 0, NEW e \in S
  PROVE  /\ Append(s, e) \in Seq(S) /\ Len(Append(s, e)) > 0
         /\ Append(s, e)[Len(Append(s, e))] = e
  OBVIOUS

LEMMA Seen ==
  ASSUME NEW S, NEW s \in Seq(S), Len(s) > 1
  PROVE  /\ Tail(s) \in Seq(S) /\ Len(Tail(s)) > 0
         /\ Tail(s)[Len(Tail(s))] = s[Len(s)]
  OBVIOUS

(* Cached and current claims are claims. *)
LEMMA EndsAreClaims == ASSUME TypeInv PROVE Cached \in Claims /\ Current \in Claims
  BY DEF TypeInv, Cached, Current

LEMMA DesiredIsClaim ==
  ASSUME NEW s \in Specs
  PROVE  desiredBackupClaim(s) \in Claims /\ Defaulted(desiredBackupClaim(s)) \in Claims
<1>1. s \in AllSpecs /\ DefaultClass \in Classes
  BY BackupClaimAssumption DEF BackupClaimAssumption
<1>2. desiredBackupClaim(s) \in Claims
  <2>1. s.modes \subseteq Modes /\ s.class \in Classes \cup {"unset"} /\ s.size \in Nat
    BY <1>1 DEF AllSpecs
  <2>2. desiredBackupClaim(s).modes \subseteq Modes
    BY <2>1 DEF desiredBackupClaim, Modes
  <2>3. QED
    BY <2>1, <2>2 DEF desiredBackupClaim, Claims, Phases
<1>3. QED
  BY <1>1, <1>2 DEF Defaulted, Claims

LEMMA NoClaimIsClaim == NoClaim \in Claims
  BY DEF NoClaim, Claims, Phases

LEMMA NoPassIsPass == NoPass \in [spec : Specs, edits : Nat, claim : Claims, ready : {"none", "true", "false"}]
<1>1. (CHOOSE s \in Specs : TRUE) \in Specs
  BY BackupClaimAssumption DEF BackupClaimAssumption
<1>2. QED
  BY <1>1, NoClaimIsClaim DEF NoPass

(* A write appends a claim with the next resourceVersion. *)
LEMMA WriteKeeps ==
  ASSUME TypeInv, NEW c \in Claims, WriteClaim(c)
  PROVE  /\ claims' \in Seq(Claims) /\ Len(claims') > 0
         /\ Current'.phase = c.phase
<1> DEFINE e == [c EXCEPT !.rv = Current.rv + 1]
<1>1. e \in Claims /\ e.phase = c.phase
  BY EndsAreClaims DEF Claims
<1>2. claims' = Append(claims, e)
  BY DEF WriteClaim
<1> HIDE DEF e
<1>3. QED
  BY <1>1, <1>2, Written DEF TypeInv, Current

LEMMA InvInit == Init => IInv
<1> SUFFICES ASSUME Init PROVE IInv
  OBVIOUS
<1>1. claims \in Seq(Claims) /\ Len(claims) > 0
  BY NoClaimIsClaim DEF Init
<1>2. QED
  BY <1>1, NoPassIsPass DEF Init, IInv, TypeInv

(* One step per action: what it does to the claim, and that it deletes none with a volume. *)
LEMMA InvNext ==
  ASSUME IInv, [Next]_vars
  PROVE  /\ IInv'
         /\ Current.phase \in {"assigned", "bound", "lost"} => Current'.phase # "terminating"
         /\ key # 0 => key' = key
<1> DEFINE Kept == Current.phase \in {"assigned", "bound", "lost"} => Current'.phase # "terminating"
           Key == key # 0 => key' = key
           Passes == [spec : Specs, edits : Nat, claim : Claims, ready : {"none", "true", "false"}]
<1>0. TypeInv /\ Cached \in Claims /\ Current \in Claims /\ pass \in Passes /\ NoPass \in Passes
  BY EndsAreClaims, NoPassIsPass DEF IInv, TypeInv
<1>a. ASSUME UNCHANGED claims PROVE claims' \in Seq(Claims) /\ Len(claims') > 0 /\ Kept
  BY <1>0, <1>a DEF TypeInv, Current
<1>1. CASE Begin
  <2>1. pass' \in Passes
    BY <1>0, <1>1 DEF Begin, TypeInv
  <2>2. QED
    BY <1>0, <1>1, <1>a, <2>1 DEF Begin, IInv, TypeInv
<1>2. CASE ReconcileClaim
  <2> DEFINE desired == desiredBackupClaim(pass.spec)
  <2>1. pass.spec \in Specs /\ Defaulted(desired) \in Claims
    BY <1>0, DesiredIsClaim
  <2>2. pass' \in Passes /\ pass'.claim = Cached /\ (pc' = "replace" => claimNeedsReplacing(Cached, desired))
    BY <1>0, <1>2 DEF ReconcileClaim
  <2>3. claims' \in Seq(Claims) /\ Len(claims') > 0 /\ Kept
    <3>1. CASE Current.phase = "none" /\ WriteClaim(Defaulted(desired))
      BY <1>0, <2>1, <3>1, WriteKeeps
    <3>2. CASE UNCHANGED claims
      BY <3>2, <1>a
    <3>3. QED
      BY <1>2, <3>1, <3>2 DEF ReconcileClaim
  <2>4. QED
    BY <1>0, <1>2, <2>2, <2>3 DEF ReconcileClaim, IInv, TypeInv, claimNeedsReplacing
<1>3. CASE ReplaceClaim
  <2>1. claims' \in Seq(Claims) /\ Len(claims') > 0 /\ Kept
    <3>1. CASE Preconditions(pass.claim)
      <4>1. Current.phase = "pending"
        BY <1>3, <3>1 DEF ReplaceClaim, Preconditions, IInv
      <4>2. [Current EXCEPT !.phase = "terminating"] \in Claims
        BY <1>0 DEF Claims, Phases
      <4>3. QED
        BY <1>0, <1>3, <3>1, <4>1, <4>2, WriteKeeps DEF ReplaceClaim
    <3>2. CASE ~Preconditions(pass.claim)
      BY <1>3, <3>2, <1>a DEF ReplaceClaim
    <3>3. QED
      BY <3>1, <3>2
  <2>2. QED
    BY <1>0, <1>3, <2>1 DEF ReplaceClaim, IInv, TypeInv
<1>4. CASE ReconcileKey
  BY <1>0, <1>4, <1>a DEF ReconcileKey, IInv, TypeInv
<1>5. CASE readBackupVolume
  <2>1. pass' \in Passes
    BY <1>0, <1>5 DEF readBackupVolume
  <2>2. QED
    BY <1>0, <1>5, <1>a, <2>1 DEF readBackupVolume, IInv, TypeInv
<1>6. CASE SaveStatus
  BY <1>0, <1>6, <1>a DEF SaveStatus, IInv, TypeInv
<1>7. CASE Abort
  BY <1>0, <1>7, <1>a DEF Abort, IInv, TypeInv
<1>8. CASE EditSpec
  BY <1>0, <1>8, <1>a DEF EditSpec, IInv, TypeInv
<1>9. CASE ClaimCatchesUp
  <2>1. claims' \in Seq(Claims) /\ Len(claims') > 0 /\ Current' = Current
    BY <1>0, <1>9, Seen DEF ClaimCatchesUp, TypeInv, Current
  <2>2. QED
    BY <1>0, <1>9, <2>1 DEF ClaimCatchesUp, IInv, TypeInv
<1>10. CASE KeyCatchesUp
  BY <1>0, <1>10, <1>a DEF KeyCatchesUp, IInv, TypeInv
<1>11. ASSUME NEW from \in Phases, NEW to \in Phases \ {"terminating"}, VolumeStep(from, to)
       PROVE  IInv' /\ Kept /\ Key
  <2>1. [Current EXCEPT !.phase = to] \in Claims /\ NoClaim \in Claims /\ NoClaim.phase = "none"
    BY <1>0, NoClaimIsClaim DEF Claims, NoClaim
  <2>2. claims' \in Seq(Claims) /\ Len(claims') > 0 /\ Current'.phase # "terminating"
    <3>1. CASE to = "none"
      BY <1>0, <1>11, <2>1, <3>1, WriteKeeps DEF VolumeStep
    <3>2. CASE to # "none"
      <4>1. [Current EXCEPT !.phase = to].phase = to
        BY <1>0 DEF Claims
      <4>2. QED
        BY <1>0, <1>11, <2>1, <3>2, <4>1, WriteKeeps DEF VolumeStep
    <3>3. QED
      BY <3>1, <3>2
  <2>3. QED
    BY <1>0, <1>11, <2>2 DEF VolumeStep, IInv, TypeInv
<1>12. CASE Volumes \/ Lose
  BY <1>11, <1>12 DEF Volumes, Assign, Bind, Remove, Lose, Phases
<1>13. CASE UNCHANGED vars
  BY <1>0, <1>13, <1>a DEF vars, IInv, TypeInv
<1>14. QED
  BY <1>1, <1>2, <1>3, <1>4, <1>5, <1>6, <1>7, <1>8, <1>9, <1>10, <1>12, <1>13
     DEF Next, Pass, CatchUp

(* The operator never deletes a claim that has or ever had a volume (claimNeedsReplacing and the
   preconditions of the delete in reconcileBackupResources). *)
THEOREM BackupsAreKept == Spec => BackupsKept
<1>1. IInv /\ [Next]_vars => IInv' /\ [Current.phase \in {"assigned", "bound", "lost"} => Current'.phase # "terminating"]_vars
  BY InvNext
<1>2. QED
  BY <1>1, InvInit, PTL DEF Spec, BackupsKept

(* The operator never replaces the key that signs the backups (reconcileBackupResources). *)
THEOREM KeyIsKept == Spec => KeyKept
<1>1. IInv /\ [Next]_vars => IInv' /\ [key # 0 => key' = key]_vars
  BY InvNext
<1>2. QED
  BY <1>1, InvInit, PTL DEF Spec, KeyKept
-----------------------------------------------------------------------------
(* How often the claim is written.  What a pass read is never newer than the spec, and what it is
   about to delete asked for something else than the spec that it read. *)
ReadInv ==
  /\ pc # "idle" => pass.edits <= edits /\ (pass.edits = edits => pass.spec = spec)
  /\ pc = "replace" => claimNeedsReplacing(pass.claim, desiredBackupClaim(pass.spec))

(* A pass that may still create or delete the claim, on a spec that was edited since. *)
Overtaken == pc \in {"claim", "replace"} /\ pass.edits # edits

(* The current claim is bound to be replaced, or may be by a pass that was overtaken. *)
Reopened == Overtaken \/ claimNeedsReplacing(Current, desiredBackupClaim(spec))

(* The writes that can follow one in this phase, if none is a replacement. *)
Following == [none |-> 4, terminating |-> 5, pending |-> 3, assigned |-> 2, bound |-> 1, lost |-> 0]

Unsettled == {"none", "terminating", "pending"}

(* The writes that can follow without another edit. *)
WritesAhead == Following[Current.phase] + (IF Reopened /\ Current.phase \in Unsettled THEN 3 ELSE 0)

WritesInv == Current.rv + WritesAhead <= 4 + 3 * edits

LEMMA ReadInit == Init => ReadInv /\ WritesInv
<1> SUFFICES ASSUME Init PROVE ReadInv /\ WritesInv
  OBVIOUS
<1>1. Current = NoClaim /\ edits = 0 /\ pc = "idle"
  BY DEF Init, Current
<1>2. ~Reopened
  BY <1>1 DEF Reopened, Overtaken, claimNeedsReplacing, NoClaim
<1>3. WritesAhead = 4 /\ Current.rv = 0
  BY <1>1, <1>2 DEF WritesAhead, Following, NoClaim
<1> QED
  BY <1>1, <1>3 DEF ReadInv, WritesInv

(* Only an edit moves the spec, and a pass reads it once. *)
LEMMA ReadNext ==
  ASSUME IInv, ReadInv, [Next]_vars
  PROVE  ReadInv'
<1>0. edits \in Nat /\ pass.edits \in Nat /\ single = single'
  BY DEF IInv, TypeInv, Next, Pass, Begin, ReconcileClaim, ReplaceClaim, ReconcileKey, readBackupVolume, SaveStatus,
         Abort, EditSpec, CatchUp, ClaimCatchesUp, KeyCatchesUp, Volumes, Assign, Bind, Remove, Lose, VolumeStep, vars
<1>1. CASE Begin
  <2>1. pass'.edits = edits' /\ pass'.spec = spec' /\ pc' # "replace" /\ edits' = edits
    BY <1>1 DEF Begin, NoPass
  <2> QED  BY <1>0, <2>1 DEF ReadInv
<1>2. CASE ReconcileClaim
  <2>1. /\ pass'.edits = pass.edits /\ pass'.spec = pass.spec /\ pass'.claim = Cached
        /\ UNCHANGED <<edits, spec, single>> /\ pc = "claim"
        /\ pc' = "replace" => claimNeedsReplacing(Cached, desiredBackupClaim(pass.spec))
    BY <1>2 DEF ReconcileClaim, IInv, TypeInv
  <2>2. desiredBackupClaim(pass.spec)' = desiredBackupClaim(pass.spec)
    BY <2>1 DEF desiredBackupClaim
  <2> QED  BY <2>1, <2>2 DEF ReadInv, claimNeedsReplacing
<1>3. CASE ReplaceClaim \/ ReconcileKey
  BY <1>3 DEF ReplaceClaim, ReconcileKey, ReadInv
<1>4. CASE readBackupVolume
  <2>1. pass'.edits = pass.edits /\ pass'.spec = pass.spec
    BY <1>4 DEF readBackupVolume, IInv, TypeInv
  <2> QED  BY <1>4, <2>1 DEF readBackupVolume, ReadInv
<1>5. CASE SaveStatus \/ Abort
  BY <1>5 DEF SaveStatus, Abort, ReadInv
<1>6. CASE EditSpec
  BY <1>0, <1>6 DEF EditSpec, ReadInv, desiredBackupClaim, claimNeedsReplacing
<1>7. CASE UNCHANGED <<spec, single, edits, pc, pass>>
  BY <1>7 DEF ReadInv, desiredBackupClaim, claimNeedsReplacing
<1> QED
  BY <1>1, <1>2, <1>3, <1>4, <1>5, <1>6, <1>7
     DEF Next, Pass, CatchUp, ClaimCatchesUp, KeyCatchesUp, Volumes, Assign, Bind, Remove, Lose, VolumeStep, vars

(* A write moves the current claim on by one version. *)
LEMMA WriteMoves ==
  ASSUME TypeInv, NEW c \in Claims, WriteClaim(c)
  PROVE  /\ Current' \in Claims /\ Current'.rv = Current.rv + 1
         /\ Current'.phase = c.phase /\ Current'.modes = c.modes /\ Current'.class = c.class /\ Current'.size = c.size
<1> DEFINE e == [c EXCEPT !.rv = Current.rv + 1]
<1>1. /\ e \in Claims /\ e.rv = Current.rv + 1
      /\ e.phase = c.phase /\ e.modes = c.modes /\ e.class = c.class /\ e.size = c.size
  BY EndsAreClaims DEF Claims
<1>2. claims' = Append(claims, e)
  BY DEF WriteClaim
<1> HIDE DEF e
<1>3. Current' = e
  BY <1>1, <1>2, Written DEF TypeInv, Current
<1> QED
  BY <1>1, <1>3

(* As long as the claim stays and nothing new speaks against it, no more writes are ahead. *)
LEMMA ClaimRests ==
  ASSUME IInv, WritesInv, Current' = Current, edits' = edits, Reopened' => Reopened
  PROVE  WritesInv'
<1>1. Current \in Claims /\ Current.rv \in Nat /\ edits \in Nat /\ Current.phase \in Phases
  BY EndsAreClaims DEF IInv, TypeInv, Claims
<1>2. Following[Current.phase] \in Nat
  BY <1>1 DEF Following, Phases
<1> QED
  BY <1>1, <1>2 DEF WritesInv, WritesAhead

(* A claim matches the spec it was created for, whatever class was filled in. *)
LEMMA CreatedMatches ==
  ASSUME NEW s \in Specs, NEW c,
         c.modes = Defaulted(desiredBackupClaim(s)).modes,
         c.class = Defaulted(desiredBackupClaim(s)).class,
         c.size = Defaulted(desiredBackupClaim(s)).size
  PROVE  ~claimNeedsReplacing(c, desiredBackupClaim(s))
<1> DEFINE d == desiredBackupClaim(s)
<1>1. d \in Claims
  BY DesiredIsClaim
<1>2. Defaulted(d).modes = d.modes /\ Defaulted(d).size = d.size /\ (d.class # "unset" => Defaulted(d).class = d.class)
  BY <1>1 DEF Defaulted, Claims
<1> HIDE DEF d
<1> QED
  BY <1>2 DEF d, claimNeedsReplacing

(* Every write was ahead, and only an edit puts more ahead. *)
LEMMA WritesNext ==
  ASSUME IInv, ReadInv, WritesInv, [Next]_vars
  PROVE  WritesInv'
<1>0. /\ TypeInv /\ Current \in Claims /\ Cached \in Claims /\ Current.rv \in Nat /\ edits \in Nat
      /\ Current.phase \in Phases /\ pass.edits \in Nat /\ pass.spec \in Specs /\ spec \in Specs
  BY EndsAreClaims DEF IInv, TypeInv, Claims
<1>a. ASSUME UNCHANGED <<claims, spec, single, edits>>, Overtaken' => Overtaken
      PROVE  WritesInv'
  <2>1. Current' = Current /\ desiredBackupClaim(spec)' = desiredBackupClaim(spec)
    BY <1>a DEF Current, desiredBackupClaim
  <2>2. Reopened' => Reopened
    BY <1>a, <2>1 DEF Reopened, claimNeedsReplacing
  <2> QED  BY <1>a, <2>1, <2>2, ClaimRests
<1>1. CASE Begin
  <2>1. ~Overtaken'
    BY <1>1 DEF Begin, NoPass, Overtaken
  <2> QED  BY <1>1, <1>a, <2>1 DEF Begin
<1>2. CASE ReconcileClaim
  <2>1. /\ pass'.edits = pass.edits /\ UNCHANGED <<spec, single, edits>> /\ pc = "claim"
        /\ pc' \in {"replace", "key"}
    BY <1>2 DEF ReconcileClaim, IInv, TypeInv
  <2>2. CASE UNCHANGED claims
    <3>1. Overtaken' => Overtaken
      BY <2>1 DEF Overtaken
    <3> QED  BY <2>1, <2>2, <3>1, <1>a
  <2>3. CASE Cached.phase = "none" /\ Current.phase = "none" /\ WriteClaim(Defaulted(desiredBackupClaim(pass.spec)))
    <3>1. pc' = "key"
      BY <1>2, <2>3 DEF ReconcileClaim, claimNeedsReplacing
    <3>2. ~Overtaken'
      BY <3>1 DEF Overtaken
    <3> DEFINE d == Defaulted(desiredBackupClaim(pass.spec))
    <3>3. d \in Claims /\ d.phase = "pending"
      <4>1. desiredBackupClaim(pass.spec) \in Claims /\ desiredBackupClaim(pass.spec).phase = "pending"
        BY <1>0, DesiredIsClaim DEF desiredBackupClaim
      <4> QED  BY <1>0, <4>1, DesiredIsClaim DEF Defaulted, Claims
    <3>4. /\ Current'.rv = Current.rv + 1 /\ Current'.phase = "pending"
          /\ Current'.modes = d.modes /\ Current'.class = d.class /\ Current'.size = d.size
      BY <1>0, <2>3, <3>3, WriteMoves
    <3>5. CASE Overtaken
      <4>1. WritesAhead = 7
        BY <2>3, <3>5 DEF WritesAhead, Reopened, Following, Unsettled
      <4>2. WritesAhead' \in 3 .. 6
        BY <3>4 DEF WritesAhead, Following, Unsettled
      <4> QED  BY <1>0, <2>1, <3>4, <4>1, <4>2 DEF WritesInv
    <3>6. CASE ~Overtaken
      <4>1. pass.spec = spec
        BY <2>1, <3>6 DEF Overtaken, ReadInv
      <4>2. ~claimNeedsReplacing(Current', desiredBackupClaim(spec))
        BY <1>0, <3>4, <4>1, CreatedMatches
      <4>3. ~Reopened'
        BY <2>1, <3>2, <4>2 DEF Reopened, claimNeedsReplacing, desiredBackupClaim
      <4>4. WritesAhead >= 4 /\ WritesAhead' = 3 /\ WritesAhead \in Nat
        BY <2>3, <3>4, <4>3 DEF WritesAhead, Following, Unsettled
      <4> QED  BY <1>0, <2>1, <3>4, <4>4 DEF WritesInv
    <3> QED  BY <3>5, <3>6
  <2> QED  BY <1>2, <2>2, <2>3 DEF ReconcileClaim
<1>3. CASE ReplaceClaim
  <2>1. ~Overtaken' /\ UNCHANGED <<spec, single, edits>> /\ pc = "replace"
    BY <1>3 DEF ReplaceClaim, Overtaken
  <2>2. CASE UNCHANGED claims
    BY <2>1, <2>2, <1>a
  <2>3. CASE Current = pass.claim /\ WriteClaim([Current EXCEPT !.phase = "terminating"])
    <3>1. Current.phase = "pending" /\ Reopened
      BY <2>1, <2>3 DEF ReadInv, Reopened, Overtaken, claimNeedsReplacing
    <3>2. WritesAhead = 6
      BY <3>1 DEF WritesAhead, Following, Unsettled
    <3>3. Current'.rv = Current.rv + 1 /\ Current'.phase = "terminating"
      <4>1. /\ [Current EXCEPT !.phase = "terminating"] \in Claims
            /\ [Current EXCEPT !.phase = "terminating"].phase = "terminating"
        BY <1>0 DEF Claims, Phases
      <4> QED  BY <1>0, <2>3, <4>1, WriteMoves
    <3>4. ~Reopened'
      BY <2>1, <3>3 DEF Reopened, claimNeedsReplacing
    <3>5. WritesAhead' = 5
      BY <3>3, <3>4 DEF WritesAhead, Following
    <3> QED  BY <1>0, <2>1, <3>2, <3>3, <3>5 DEF WritesInv
  <2> QED  BY <1>3, <2>2, <2>3 DEF ReplaceClaim, Preconditions
<1>4. CASE ReconcileKey \/ readBackupVolume \/ SaveStatus \/ Abort
  <2>1. ~Overtaken' /\ UNCHANGED <<claims, spec, single, edits>>
    BY <1>4 DEF ReconcileKey, readBackupVolume, SaveStatus, Abort, Overtaken
  <2> QED  BY <1>a, <2>1
<1>5. CASE EditSpec
  <2>1. Current' = Current /\ edits' = edits + 1
    BY <1>5 DEF EditSpec, Current
  <2>2. Following[Current.phase] \in Nat
    BY <1>0 DEF Following, Phases
  <2>3. WritesAhead \in Nat /\ WritesAhead' \in Nat /\ WritesAhead' <= WritesAhead + 3
    BY <2>1, <2>2 DEF WritesAhead
  <2> QED  BY <1>0, <2>1, <2>3 DEF WritesInv
<1>6. CASE ClaimCatchesUp
  <2>1. Current' = Current /\ UNCHANGED <<spec, single, edits, pc, pass>>
    BY <1>0, <1>6, Seen DEF ClaimCatchesUp, TypeInv, Current
  <2>2. Reopened' => Reopened
    BY <2>1 DEF Reopened, Overtaken, claimNeedsReplacing, desiredBackupClaim
  <2> QED  BY <2>1, <2>2, ClaimRests
<1>7. CASE KeyCatchesUp \/ UNCHANGED vars
  <2>1. UNCHANGED <<claims, spec, single, edits, pc, pass>>
    BY <1>7 DEF KeyCatchesUp, vars
  <2> QED  BY <1>a, <2>1 DEF Overtaken
<1>8. ASSUME NEW from \in Phases, NEW to \in Phases, VolumeStep(from, to), to \notin {"pending", "terminating"},
             Following[to] = Following[from] - 1, to = "none" => from = "terminating"
      PROVE  WritesInv'
  <2>1. UNCHANGED <<spec, single, edits, pc, pass>> /\ Current.phase = from
    BY <1>8 DEF VolumeStep
  <2> DEFINE c == IF to = "none" THEN NoClaim ELSE [Current EXCEPT !.phase = to]
  <2>2. c \in Claims /\ c.phase = to
    BY <1>0, <1>8, NoClaimIsClaim DEF Claims, NoClaim
  <2>3. WriteClaim(c)
    BY <1>8 DEF VolumeStep
  <2> HIDE DEF c
  <2>4. Current'.rv = Current.rv + 1 /\ Current'.phase = to
    BY <1>0, <2>2, <2>3, WriteMoves
  <2>5. Reopened' => Reopened
    BY <1>8, <2>1, <2>4 DEF Reopened, Overtaken, claimNeedsReplacing
  <2>6. Following[from] \in Nat /\ Following[to] \in Nat
    BY DEF Following, Phases
  <2>7. WritesAhead' <= WritesAhead - 1 /\ WritesAhead \in Nat /\ WritesAhead' \in Nat
    BY <1>8, <2>1, <2>4, <2>5, <2>6 DEF WritesAhead, Unsettled, Phases
  <2> QED  BY <1>0, <2>1, <2>4, <2>7 DEF WritesInv
<1>9. CASE Volumes \/ Lose
  <2>1. /\ Following["assigned"] = Following["pending"] - 1 /\ Following["bound"] = Following["assigned"] - 1
        /\ Following["none"] = Following["terminating"] - 1 /\ Following["lost"] = Following["bound"] - 1
    BY DEF Following
  <2> QED  BY <1>8, <1>9, <2>1 DEF Volumes, Assign, Bind, Remove, Lose, Phases
<1> QED
  BY <1>1, <1>2, <1>3, <1>4, <1>5, <1>6, <1>7, <1>9 DEF Next, Pass, CatchUp

(* What is ahead is at least nothing. *)
LEMMA WritesBounded == ASSUME IInv, WritesInv PROVE ReplacedPerEdit
<1>1. Current \in Claims /\ Current.rv \in Nat /\ edits \in Nat /\ Current.phase \in Phases
  BY EndsAreClaims DEF IInv, TypeInv, Claims
<1>2. WritesAhead \in Nat
  BY <1>1 DEF WritesAhead, Following, Phases
<1> QED
  BY <1>1, <1>2 DEF WritesInv, ReplacedPerEdit

(* However passes, edits, the cache and the volume controller interleave, every edit is good for one
   replacement of the claim at most (claimNeedsReplacing, reconcileBackupResources). *)
THEOREM ReplacesPerEdit == Spec => []ReplacedPerEdit
<1> DEFINE Inv == IInv /\ ReadInv /\ WritesInv
<1>1. Init => Inv
  BY InvInit, ReadInit
<1>2. Inv /\ [Next]_vars => Inv'
  BY InvNext, ReadNext, WritesNext
<1>3. Inv => ReplacedPerEdit
  BY WritesBounded
<1> QED
  BY <1>1, <1>2, <1>3, PTL DEF Spec
-----------------------------------------------------------------------------
(* The types that need no other invariant. *)
PlainTypes ==
  /\ single \in Singles /\ edits \in 0 .. MaxEdits
  /\ key \in Nat /\ keyCached \in BOOLEAN /\ (keyCached => key # 0)
  /\ ready \in {"none", "true", "false"}
  /\ pc \in {"idle", "claim", "replace", "key", "volume", "save"}
  /\ losses \in 0 .. MaxLosses /\ aborts \in 0 .. MaxAborts

(* From the cached claim to the current one every state is newer than the one before. *)
Ordered == \A i \in 1 .. Len(claims) - 1 : claims[i].rv < claims[i + 1].rv

LEMMA PlainNext ==
  ASSUME IInv, PlainTypes, [Next]_vars
  PROVE  PlainTypes'
<1> USE BackupClaimAssumption
<1>1. CASE Begin
  BY <1>1 DEF PlainTypes, Begin
<1>2. CASE ReconcileClaim
  BY <1>2 DEF PlainTypes, ReconcileClaim
<1>3. CASE ReplaceClaim
  BY <1>3 DEF PlainTypes, ReplaceClaim
<1>4. CASE ReconcileKey
  BY <1>4 DEF PlainTypes, ReconcileKey
<1>5. CASE readBackupVolume
  BY <1>5 DEF PlainTypes, readBackupVolume
<1>6. CASE SaveStatus
  <2>1. pass.ready \in {"none", "true", "false"}
    BY DEF IInv, TypeInv
  <2> QED  BY <1>6, <2>1 DEF PlainTypes, SaveStatus
<1>7. CASE Abort
  BY <1>7 DEF PlainTypes, Abort
<1>8. CASE EditSpec
  BY <1>8 DEF PlainTypes, EditSpec
<1>9. CASE ClaimCatchesUp
  BY <1>9 DEF PlainTypes, ClaimCatchesUp
<1>10. CASE KeyCatchesUp
  BY <1>10 DEF PlainTypes, KeyCatchesUp
<1>11. CASE Volumes \/ Lose
  BY <1>11 DEF PlainTypes, Volumes, Assign, Bind, Remove, Lose, VolumeStep
<1>12. CASE UNCHANGED vars
  BY <1>12 DEF PlainTypes, vars
<1> QED
  BY <1>1, <1>2, <1>3, <1>4, <1>5, <1>6, <1>7, <1>8, <1>9, <1>10, <1>11, <1>12 DEF Next, Pass, CatchUp

LEMMA OrderedNext ==
  ASSUME IInv, Ordered, [Next]_vars
  PROVE  Ordered'
<1>0. claims \in Seq(Claims) /\ Len(claims) > 0 /\ Len(claims) \in Nat /\ TypeInv /\ Current.rv \in Nat
  BY EndsAreClaims DEF IInv, TypeInv, Claims
<1>1. CASE UNCHANGED claims
  BY <1>1 DEF Ordered
<1>2. CASE ClaimCatchesUp
  <2>1. Len(claims') = Len(claims) - 1 /\ \A i \in 1 .. Len(claims') : claims'[i] = claims[i + 1]
    BY <1>0, <1>2 DEF ClaimCatchesUp
  <2> QED  BY <1>0, <2>1 DEF Ordered
<1>3. ASSUME NEW c \in Claims, WriteClaim(c) PROVE Ordered'
  <2> DEFINE e == [c EXCEPT !.rv = Current.rv + 1]
  <2>0. Current.rv + 1 \in Nat
    BY <1>0
  <2>1. e \in Claims /\ e.rv = Current.rv + 1
    BY <2>0 DEF Claims
  <2>2. claims' = Append(claims, e)
    BY <1>3 DEF WriteClaim
  <2> HIDE DEF e
  <2>3. /\ Len(claims') = Len(claims) + 1 /\ claims'[Len(claims) + 1] = e
        /\ \A i \in 1 .. Len(claims) : claims'[i] = claims[i]
    BY <1>0, <2>1, <2>2
  <2>4. claims'[Len(claims)].rv < claims'[Len(claims) + 1].rv
    BY <1>0, <2>1, <2>3 DEF Current
  <2> QED  BY <1>0, <2>3, <2>4 DEF Ordered
<1>4. CASE ReconcileClaim /\ ~UNCHANGED claims
  <2>1. WriteClaim(Defaulted(desiredBackupClaim(pass.spec))) /\ pass.spec \in Specs
    BY <1>4 DEF ReconcileClaim, IInv, TypeInv
  <2> QED  BY <1>3, <2>1, DesiredIsClaim
<1>5. CASE ReplaceClaim /\ ~UNCHANGED claims
  <2>1. WriteClaim([Current EXCEPT !.phase = "terminating"]) /\ Current \in Claims
    BY <1>0, <1>5, EndsAreClaims DEF ReplaceClaim
  <2>2. [Current EXCEPT !.phase = "terminating"] \in Claims
    BY <2>1 DEF Claims, Phases
  <2> QED  BY <1>3, <2>1, <2>2
<1>6. ASSUME NEW from \in Phases, NEW to \in Phases, VolumeStep(from, to) PROVE Ordered'
  <2> DEFINE c == IF to = "none" THEN NoClaim ELSE [Current EXCEPT !.phase = to]
  <2>1. c \in Claims
    BY <1>0, EndsAreClaims, NoClaimIsClaim DEF Claims
  <2>2. WriteClaim(c)
    BY <1>6 DEF VolumeStep
  <2> HIDE DEF c
  <2> QED  BY <1>3, <2>1, <2>2
<1>7. CASE Volumes \/ Lose
  BY <1>6, <1>7 DEF Volumes, Assign, Bind, Remove, Lose, Phases
<1> QED
  BY <1>1, <1>2, <1>4, <1>5, <1>7
     DEF Next, Pass, Begin, ReconcileKey, readBackupVolume, SaveStatus, Abort, EditSpec, CatchUp, KeyCatchesUp, vars

(* Every variable keeps its type, the cache is never ahead of the API server, and MaxWrites is never
   exceeded: the bound cuts off nothing that the edits of spec.backup can cause
   (reconcileBackupResources). *)
THEOREM ClaimIsTyped == Spec => []TypeOK
<1> DEFINE Inv == IInv /\ ReadInv /\ WritesInv /\ PlainTypes /\ Ordered
<1>1. Init => Inv
  <2> SUFFICES ASSUME Init PROVE PlainTypes /\ Ordered
    BY InvInit, ReadInit
  <2>0. keyCached \in BOOLEAN /\ (keyCached => key # 0)
    BY Zenon DEF Init
  <2>1. PlainTypes
    BY <2>0, BackupClaimAssumption DEF Init, PlainTypes
  <2>2. Ordered
    BY DEF Init, Ordered
  <2> QED  BY <2>1, <2>2
<1>2. Inv /\ [Next]_vars => Inv'
  BY InvNext, ReadNext, WritesNext, PlainNext, OrderedNext
<1>3. Inv => TypeOK
  <2> SUFFICES ASSUME Inv PROVE TypeOK
    OBVIOUS
  <2>1. Current.rv <= 4 + 3 * edits /\ Current.rv \in Nat /\ edits \in 0 .. MaxEdits
    BY WritesBounded, EndsAreClaims DEF ReplacedPerEdit, PlainTypes, IInv, Claims
  <2>2. Current.rv <= MaxWrites
    BY <2>1, BackupClaimAssumption
  <2> QED  BY <2>2 DEF TypeOK, IInv, TypeInv, PlainTypes, Ordered
<1> QED
  BY <1>1, <1>2, <1>3, PTL DEF Spec
==============================================================================
