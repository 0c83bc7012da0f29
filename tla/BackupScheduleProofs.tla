------------------------ MODULE BackupScheduleProofs ------------------------
(***************************************************************************)
(* Which backups are taken, and when: no schedule time is served twice,    *)
(* one run covers every missed one, and failures keep their distance, for  *)
(* every schedule and every backoff.                                       *)
(***************************************************************************)
EXTENDS BackupProofs

(* The backoff. *)

(* f is the function that starts with a and continues with H. *)
Rec(n, a, H, f) == f = [k \in 0 .. n |-> IF k <= 1 THEN a ELSE H[k][f[k - 1]]]

(* The delay after the k-th consecutive failure. *)
Delay(k) == IF RetryInitial * 2^(k - 1) < RetryMax THEN RetryInitial * 2^(k - 1) ELSE RetryMax

(* Induction over the natural numbers, for a set instead of a predicate. *)
LEMMA NatSetInduction ==
  ASSUME NEW S, 0 \in S, \A n \in Nat : n \in S => n + 1 \in S
  PROVE  Nat \subseteq S
<1> SUFFICES ASSUME Nat \ S # {} PROVE FALSE
  OBVIOUS
<1>1. PICK m \in Nat \ S : \A u \in Nat \ S : ~(<<u, m>> \in OpToRel(<, Nat))
  BY NatLessThanWellFounded, WFMin, Zenon
<1>2. m \in Nat /\ m \notin S /\ m # 0
  BY <1>1, Zenon
<1>4. m - 1 \in Nat /\ m - 1 < m /\ (m - 1) + 1 = m
  BY <1>2
<1>3. m - 1 \in S
  BY <1>1, <1>2, <1>4, Zenon DEF OpToRel
<1> QED
  BY <1>2, <1>3, <1>4
(* A function that is defined from its previous value exists. *)
LEMMA RecExists ==
  ASSUME NEW n \in Nat, NEW a \in Nat, NEW H \in [Nat -> [Nat -> Nat]]
  PROVE  \E f \in [0 .. n -> Nat] : Rec(n, a, H, f)
<1> DEFINE S == {m \in Nat : \E f \in [0 .. m -> Nat] : Rec(m, a, H, f)}
<1>1. 0 \in S
  <2> DEFINE f == [k \in 0 .. 0 |-> a]
  <2>1. f \in [0 .. 0 -> Nat]
    OBVIOUS
  <2>2. Rec(0, a, H, f)
    BY DEF Rec
  <2> QED
    BY <2>1, <2>2, Zenon
<1>2. ASSUME NEW m \in Nat, m \in S PROVE m + 1 \in S
  <2>1. PICK f \in [0 .. m -> Nat] : Rec(m, a, H, f)
    BY <1>2, Zenon
  <2> DEFINE last == IF m + 1 <= 1 THEN a ELSE H[m + 1][f[m]]
             g == [k \in 0 .. m + 1 |-> IF k = m + 1 THEN last ELSE f[k]]
  <2>2. last \in Nat
    <3>1. m \in 0 .. m /\ m + 1 \in Nat
      OBVIOUS
    <3>2. f[m] \in Nat
      BY <3>1
    <3>3. H[m + 1] \in [Nat -> Nat]
      BY <3>1, Zenon
    <3>4. H[m + 1][f[m]] \in Nat
      BY <3>2, <3>3
    <3> QED
      BY <3>4
  <2>3. g \in [0 .. m + 1 -> Nat]
    <3> HIDE DEF last
    <3>1. ASSUME NEW k \in 0 .. m + 1 PROVE (IF k = m + 1 THEN last ELSE f[k]) \in Nat
      <4>1. k # m + 1 => k \in 0 .. m
        OBVIOUS
      <4>2. k # m + 1 => f[k] \in Nat
        BY <4>1, Zenon
      <4> QED BY <2>2, <4>2
    <3> QED BY <3>1, Zenon
  <2>4. ASSUME NEW k \in 0 .. m + 1
        PROVE  g[k] = IF k <= 1 THEN a ELSE H[k][g[k - 1]]
    <3>1. CASE k = m + 1
      <4>1. g[k] = last /\ (~(k <= 1) => k - 1 \in 0 .. m + 1 /\ k - 1 # m + 1 /\ k - 1 = m)
        BY <3>1
      <4>2. ~(k <= 1) => g[k - 1] = f[m]
        BY <4>1
      <4> HIDE DEF g
      <4> QED BY <3>1, <4>1, <4>2, Zenon
    <3>2. CASE k # m + 1
      <4>1. k \in 0 .. m /\ g[k] = f[k] /\ (~(k <= 1) => k - 1 \in 0 .. m /\ g[k - 1] = f[k - 1])
        BY <3>2
      <4>2. f[k] = IF k <= 1 THEN a ELSE H[k][f[k - 1]]
        BY <2>1, <4>1, Zenon DEF Rec
      <4> HIDE DEF g
      <4> QED BY <4>1, <4>2, Zenon
    <3> QED BY <3>1, <3>2
  <2>5. Rec(m + 1, a, H, g)
    <3>1. DOMAIN g = 0 .. m + 1 /\ g = [k \in 0 .. m + 1 |-> g[k]]
      OBVIOUS
    <3> HIDE DEF g
    <3> QED BY <2>4, <3>1, Zenon DEF Rec
  <2> QED
    <3> HIDE DEF g
    <3>1. m + 1 \in Nat
      OBVIOUS
    <3> QED BY <2>3, <2>5, <3>1, Zenon
<1> HIDE DEF S
<1>3. Nat \subseteq S
  BY <1>1, <1>2, NatSetInduction, Zenon
<1> QED
  BY <1>3, Zenon DEF S

(* Powers of two, counted as sets of sets. *)
LEMMA DoublePower ==
  ASSUME NEW n \in Nat
  PROVE  2^n \in Nat /\ 2^(n + 1) = 2 * 2^n
<1> DEFINE A == 1 .. n
           B == 1 .. n + 1
           P == SUBSET A
           Q == {X \cup {n + 1} : X \in P}
           f == [X \in P |-> X \cup {n + 1}]
<1>1. IsFiniteSet(A) /\ Cardinality(A) = n /\ IsFiniteSet(B) /\ Cardinality(B) = n + 1
  <2>1. 1 \in Int /\ n \in Int /\ n + 1 \in Int /\ (1 > n => n = 0) /\ ~(1 > n + 1)
    OBVIOUS
  <2>2. IsFiniteSet(A) /\ IsFiniteSet(B)
    BY <2>1, FS_Interval
  <2>3. Cardinality(A) = IF 1 > n THEN 0 ELSE n - 1 + 1
    BY <2>1, FS_Interval
  <2>4. Cardinality(B) = IF 1 > n + 1 THEN 0 ELSE (n + 1) - 1 + 1
    BY <2>1, FS_Interval
  <2> HIDE DEF A, B
  <2> QED
    BY <2>1, <2>2, <2>3, <2>4
<1>2. B = A \cup {n + 1} /\ n + 1 \notin A
  OBVIOUS
<1> HIDE DEF A, B
<1>3. /\ IsFiniteSet(P) /\ Cardinality(P) = 2^n
      /\ Cardinality(SUBSET B) = 2^(n + 1)
  BY <1>1, FS_SUBSET
<1>4. SUBSET B = P \cup Q
  <2>1. ASSUME NEW Y \in SUBSET B, n + 1 \in Y PROVE Y \in Q
    <3>1. Y \ {n + 1} \in P /\ Y = (Y \ {n + 1}) \cup {n + 1}
      BY <1>2, <2>1
    <3> QED
      BY <3>1, Zenon
  <2>2. ASSUME NEW Y \in SUBSET B, n + 1 \notin Y PROVE Y \in P
    BY <1>2, <2>2
  <2>3. P \subseteq SUBSET B /\ Q \subseteq SUBSET B
    BY <1>2
  <2> QED
    BY <2>1, <2>2, <2>3, Zenon
<1>5. P \cap Q = {}
  BY <1>2
<1>6. ExistsBijection(P, Q)
  <2>1. f \in [P -> Q]
    OBVIOUS
  <2>2. ASSUME NEW X \in P, NEW Y \in P, f[X] = f[Y] PROVE X = Y
    <3>1. X \cup {n + 1} = Y \cup {n + 1}
      BY <2>2
    <3>2. n + 1 \notin X /\ n + 1 \notin Y
      BY <1>2
    <3> QED
      BY <3>1, <3>2
  <2>3. \A Y \in Q : \E X \in P : f[X] = Y
    BY Zenon
  <2> HIDE DEF f, P, Q
  <2> QED
    BY <2>1, <2>2, <2>3 DEF ExistsBijection, Bijection, Injection, Surjection, IsInjective
<1> HIDE DEF P, Q
<1>7. IsFiniteSet(Q) /\ Cardinality(Q) = Cardinality(P)
  BY <1>3, <1>6, FS_Bijection
<1>8. Cardinality(P \cup Q) = Cardinality(P) + Cardinality(Q) - Cardinality(P \cap Q)
  BY <1>3, <1>7, FS_Union
<1>9. Cardinality(P) \in Nat /\ Cardinality(P \cap Q) = 0
  BY <1>3, <1>5, FS_CardinalityType, FS_EmptySet
<1>10. ASSUME NEW c \in Nat PROVE c + c - 0 = 2 * c
  OBVIOUS
<1>11. Cardinality(SUBSET B) = 2 * Cardinality(P)
  BY <1>4, <1>7, <1>8, <1>9, <1>10, Zenon
<1> QED
  BY <1>3, <1>9, <1>11

LEMMA Doubled ==
  ASSUME NEW a \in Nat, NEW b \in Nat
  PROVE  a * b \in Nat /\ a * (2 * b) = 2 * (a * b)
OBVIOUS

(* The loop of backupRetryDelay computes the initial delay times a power of two, capped. *)
LEMMA RetryDelay ==
  ASSUME NEW n \in Nat, n # 0
  PROVE  backupRetryDelay(n) = Delay(n) /\ Delay(n) \in Nat
<1> DEFINE Step(f, k) == IF k <= 1 THEN RetryInitial ELSE IF f[k - 1] < RetryMax THEN 2 * f[k - 1] ELSE f[k - 1]
           d == CHOOSE f : f = [k \in 0 .. n |-> Step(f, k)]
           Good(m) == /\ d[m + 1] \in Nat
                      /\ \/ d[m + 1] = RetryInitial * 2^m
                         \/ d[m + 1] >= RetryMax /\ RetryInitial * 2^m >= RetryMax
           S == {m \in Nat : m + 1 <= n => Good(m)}
<1>1. backupRetryDelay(n) = IF d[n] < RetryMax THEN d[n] ELSE RetryMax
  BY DEF backupRetryDelay
<1>2. RetryInitial \in Nat /\ RetryMax \in Nat
  BY BackupAssumption
<1>3. \E f : f = [k \in 0 .. n |-> Step(f, k)]
  <2> DEFINE H == [k \in Nat |-> [x \in Nat |-> IF x < RetryMax THEN 2 * x ELSE x]]
  <2>1. H \in [Nat -> [Nat -> Nat]]
    BY <1>2
  <2>2. PICK f \in [0 .. n -> Nat] : Rec(n, RetryInitial, H, f)
    <3> HIDE DEF H
    <3> QED  BY <1>2, <2>1, RecExists, Zenon
  <2>3. ASSUME NEW k \in 0 .. n PROVE (IF k <= 1 THEN RetryInitial ELSE H[k][f[k - 1]]) = Step(f, k)
    <3>1. CASE k <= 1
      BY <3>1
    <3>2. CASE ~(k <= 1)
      <4>1. k \in Nat /\ k - 1 \in 0 .. n
        BY <3>2
      <4>2. f[k - 1] \in Nat
        BY <4>1
      <4> QED  BY <3>2, <4>1, <4>2
    <3> QED  BY <3>1, <3>2
  <2>4. f = [k \in 0 .. n |-> Step(f, k)]
    <3> HIDE DEF H, Step
    <3> QED  BY <2>2, <2>3, Zenon DEF Rec
  <2> QED  BY <2>4
<1>4. d = [k \in 0 .. n |-> Step(d, k)]
  <2> HIDE DEF Step
  <2> QED  BY <1>3, Zenon
<1> HIDE DEF d
<1>5. \A k \in 0 .. n : d[k] = Step(d, k)
  <2> HIDE DEF Step
  <2> QED  BY <1>4
<1>6. 0 \in S
  <2>1. 1 <= n => d[1] = RetryInitial
    BY <1>5
  <2>2. RetryInitial * 2^0 = RetryInitial
    BY <1>2
  <2> QED
    BY <1>2, <2>1, <2>2
<1>7. ASSUME NEW m \in Nat, m \in S PROVE m + 1 \in S
  <2> SUFFICES ASSUME (m + 1) + 1 <= n PROVE Good(m + 1)
    BY <1>7
  <2>1. Good(m)
    BY <1>7
  <2>2. d[(m + 1) + 1] = IF d[m + 1] < RetryMax THEN 2 * d[m + 1] ELSE d[m + 1]
    BY <1>5
  <2>3. 2^m \in Nat /\ 2^(m + 1) = 2 * 2^m
    BY DoublePower
  <2>4. RetryInitial * 2^m \in Nat /\ RetryInitial * 2^(m + 1) = 2 * (RetryInitial * 2^m)
    BY <1>2, <2>3, Doubled
  <2> QED
    BY <1>2, <2>1, <2>2, <2>4
<1>8. Nat \subseteq S
  <2> HIDE DEF S
  <2> QED  BY <1>6, <1>7, NatSetInduction
<1>9. n - 1 \in Nat /\ (n - 1) + 1 = n
  OBVIOUS
<1>10. Good(n - 1)
  BY <1>8, <1>9
<1>11. RetryInitial * 2^(n - 1) \in Nat
  BY <1>2, <1>9, DoublePower, Doubled
<1> QED
  BY <1>1, <1>2, <1>9, <1>10, <1>11 DEF Delay

(* Until when a backup is held is a time, and a failure is waited out. *)
LEMMA RetryAtType ==
  ASSUME NEW st \in Statuses
  PROVE  /\ retryAt(st) \in Int
         /\ st.failures > 0 /\ st.lastFailure # NoTime => retryAt(st) = st.lastFailure + Delay(st.failures)
<1>1. /\ st.failures \in Nat /\ st.lastFailure \in Int /\ st.lastUnclaimed \in Int
      /\ UnclaimedRetry \in Int /\ NoTime \in Int
  BY BackupAssumption DEF Statuses, OptTimes, Times, NoTime
<1>2. st.failures > 0 => backupRetryDelay(st.failures) = Delay(st.failures) /\ Delay(st.failures) \in Nat
  BY <1>1, RetryDelay
<1> QED
  BY <1>1, <1>2 DEF retryAt

-----------------------------------------------------------------------------
(* What is due. *)

(* The anchor of the incremental schedule (decideBackup). *)
Latest(st) == IF st.lastInc > st.lastFull THEN st.lastInc ELSE st.lastFull

(* The backup d may follow those that st knows of, at the time t. *)
Follows(st, d, t) ==
  /\ d.kind = "Full" =>
       /\ WalksTo(FullTimes, st.lastFull, d.scheduled, t)
       /\ IF st.lastFull = NoTime THEN d.scheduled = t
                                  ELSE d.scheduled \in FullTimes /\ st.lastFull < d.scheduled
  /\ d.kind = "Incremental" =>
       /\ WalksTo(IncTimes, Latest(st), d.scheduled, t)
       /\ st.lastFull # NoTime /\ Latest(st) < d.scheduled
       /\ \A u \in FullTimes : ~(st.lastFull < u /\ u <= t)

(* What a backup that is due says about the status: a full one is scheduled past the anchor, or
   now where there is none; an incremental past both anchors, when no full one is due. *)
LEMMA DueFollows ==
  ASSUME NEW st \in Statuses, NEW t \in Times, decideBackup(st, t).kind # "None"
  PROVE  Follows(st, decideBackup(st, t), t) /\ retryAt(st) <= t
<1> DEFINE full == latestDue(FullTimes, st.lastFull, t)
           inc  == latestDue(IncTimes, Latest(st), t)
           d    == decideBackup(st, t)
<1>1. d = Due(st, t) /\ ~(retryAt(st) > t)
  BY DEF decideBackup, Held, NothingDue
<1>2. /\ st.lastFull \in Int /\ st.lastInc \in Int /\ Latest(st) \in Int /\ st.lastFull <= Latest(st)
      /\ t \in Int /\ NoTime \notin Nat /\ FullTimes \in SUBSET Nat /\ IncTimes \in SUBSET Nat
  BY BackupAssumption DEF Statuses, OptTimes, Times, NoTime, Latest
<1>3. IF DueTimes(FullTimes, st.lastFull, t) = {} THEN full = NoTime
                                                  ELSE full \in DueTimes(FullTimes, st.lastFull, t)
  BY <1>2, LatestDueFindsOne
<1>4. IF DueTimes(IncTimes, Latest(st), t) = {} THEN inc = NoTime
                                                ELSE inc \in DueTimes(IncTimes, Latest(st), t)
  BY <1>2, LatestDueFindsOne
<1>5. \/ st.lastFull = NoTime /\ d = [kind |-> "Full", scheduled |-> t]
      \/ st.lastFull # NoTime /\ full # NoTime /\ d = [kind |-> "Full", scheduled |-> full]
      \/ /\ st.lastFull # NoTime /\ full = NoTime /\ inc # NoTime
         /\ d = [kind |-> "Incremental", scheduled |-> inc]
  BY <1>1 DEF Due, NothingDue, Latest
<1>6. retryAt(st) <= t
  BY <1>1, <1>2, RetryAtType
<1> HIDE DEF full, inc, d
<1>7. CASE st.lastFull = NoTime /\ d = [kind |-> "Full", scheduled |-> t]
  <2>1. WalksTo(FullTimes, st.lastFull, t, t)
    BY <1>2 DEF WalksTo
  <2> QED
    BY <1>6, <1>7, <2>1 DEF Follows, d
<1>8. CASE st.lastFull # NoTime /\ full # NoTime /\ d = [kind |-> "Full", scheduled |-> full]
  <2>1. full \in DueTimes(FullTimes, st.lastFull, t)
    BY <1>3, <1>8
  <2>2. WalksTo(FullTimes, st.lastFull, full, t)
    BY <1>2, <2>1, LatestDueWalks DEF full
  <2> QED
    BY <1>6, <1>8, <2>1, <2>2 DEF Follows, d, DueTimes
<1>9. CASE /\ st.lastFull # NoTime /\ full = NoTime /\ inc # NoTime
           /\ d = [kind |-> "Incremental", scheduled |-> inc]
  <2>1. inc \in DueTimes(IncTimes, Latest(st), t)
    BY <1>4, <1>9
  <2>2. WalksTo(IncTimes, Latest(st), inc, t)
    BY <1>2, <2>1, LatestDueWalks DEF inc
  <2>3. \A u \in FullTimes : ~(st.lastFull < u /\ u <= t)
    BY <1>2, <1>3, <1>9, Zenon DEF DueTimes
  <2> QED
    BY <1>6, <1>9, <2>1, <2>2, <2>3 DEF Follows, d, DueTimes
<1> QED
  BY <1>5, <1>7, <1>8, <1>9

-----------------------------------------------------------------------------
(* What becomes of the job in one step. *)

(* A pass starts the backup that is due by the status it will save. *)
Starts ==
  LET d == decideBackup(pass'.st, now)
  IN  /\ reconcileBackup /\ job.state # "running"
      /\ d.kind # "None" /\ job'.state = "running"
      /\ job'.kind = d.kind /\ job'.scheduled = d.scheduled /\ job'.started = now

(* The backup ends. *)
Finishes ==
  /\ job.state = "running" /\ job'.state = "done"
  /\ job'.kind = job.kind /\ job'.scheduled = job.scheduled /\ job'.started = job.started

LEMMA JobSteps ==
  ASSUME IInv, [Next]_vars
  PROVE  job' = job \/ job' = NoJob \/ Finishes \/ Starts
<1>1. CASE reconcileBackup
  <2> DEFINE done   == job.state = "done"
             read   == [pass.st EXCEPT !.present = TRUE]
             st     == IF done THEN applyBackupResult(read, job, now) ELSE read
             d      == decideBackup(st, now)
             starts == pass.spec.usable = "yes" /\ ~Busy(job) /\ MayStart(d)
  <2>1. pass'.st = st
    <3>1. pass' = [pass EXCEPT !.st = st, !.cond = Condition(st, Busy(job)), !.collected = done]
      BY <1>1 DEF reconcileBackup
    <3> HIDE DEF st, done
    <3> QED
      BY <3>1 DEF IInv, TypeInv, TypeOK, Passes
  <2>2. CASE starts
    <3>1. job' = [state |-> "running", kind |-> d.kind, scheduled |-> d.scheduled,
                  parent |-> st.lastId, started |-> now, result |-> "none", id |-> 0]
      BY <1>1, <2>2 DEF reconcileBackup
    <3>2. d.kind # "None" /\ job.state # "running"
      BY <2>2 DEF MayStart, Busy
    <3>3. decideBackup(pass'.st, now) = d
      BY <2>1
    <3> HIDE DEF st, d
    <3> QED
      BY <1>1, <3>1, <3>2, <3>3 DEF Starts
  <2>3. CASE ~starts
    BY <1>1, <2>3 DEF reconcileBackup
  <2> QED
    BY <2>2, <2>3
<1>2. CASE JobEnds
  <2>1. job.state = "running" /\ job \in Jobs
    BY <1>2 DEF JobEnds, IInv, TypeInv, TypeOK
  <2>2. \E r, i : \/ job' = [job EXCEPT !.state = "done", !.result = r, !.id = i]
                  \/ job' = [job EXCEPT !.state = "done", !.result = r]
    BY <1>2, Zenon DEF JobEnds
  <2> QED
    BY <2>1, <2>2, Zenon DEF Finishes, Jobs
<1>3. CASE forget \/ Restart
  BY <1>3 DEF forget, Restart
<1>4. CASE Begin \/ SaveStatus \/ Abort \/ StrayEnds \/ Prune \/ Tick \/ EditSpec \/ UNCHANGED vars
  BY <1>4 DEF Begin, SaveStatus, Abort, StrayEnds, Prune, Tick, EditSpec, vars, runner
<1> QED
  BY <1>1, <1>2, <1>3, <1>4 DEF Next, Pass

-----------------------------------------------------------------------------
(* One run covers the missed ones. *)

(* The backup that a pass starts follows those that the status it will save knows of. *)
LEMMA StartFollows ==
  ASSUME IInv, IInv', Starts
  PROVE  /\ Follows(pass'.st, job', now) /\ retryAt(pass'.st) <= now
         /\ job'.kind \in {"Full", "Incremental"} /\ job'.scheduled \in Times /\ job'.scheduled <= now
         /\ job'.started = now
<1> DEFINE st == pass'.st
           d  == decideBackup(st, now)
<1>1. st \in Statuses /\ now \in Times
  BY DEF IInv, TypeInv, TypeOK, Passes
<1>2. d.kind # "None" /\ job'.kind = d.kind /\ job'.scheduled = d.scheduled /\ job'.started = now
  BY DEF Starts
<1> HIDE DEF st
<1>3. Follows(st, d, now) /\ retryAt(st) <= now
  BY <1>1, <1>2, DueFollows
<1>4. d.kind \in {"None", "Full", "Incremental"} /\ d.scheduled \in Times /\ d.scheduled <= now
  BY <1>1, <1>2, DueInThePast
<1> HIDE DEF d
<1>5. Follows(st, job', now)
  BY <1>2, <1>3 DEF Follows
<1> QED
  BY <1>2, <1>3, <1>4, <1>5 DEF st

(* A backup that starts is for the latest time of its schedule that has passed since the anchor;
   only where MaxMissed times have been missed before it may there be later ones.  An
   incremental starts only when no full backup is due. *)
StartCovers ==
  job'.state = "running" /\ job.state # "running" =>
    /\ job'.kind = "Full" => WalksTo(FullTimes, pass'.st.lastFull, job'.scheduled, now)
    /\ job'.kind = "Incremental" =>
         /\ WalksTo(IncTimes, Latest(pass'.st), job'.scheduled, now)
         /\ \A u \in FullTimes : ~(pass'.st.lastFull < u /\ u <= now)

(* One run covers every missed one, on any schedule: the walk of latestDue passes over all the
   times that were missed, MaxMissed at most, and decideBackup prefers the full schedule. *)
THEOREM StartsCover == Spec => [][StartCovers]_vars
<1>1. IInv /\ IInv' /\ [Next]_vars => [StartCovers]_vars
  <2> SUFFICES ASSUME IInv, IInv', [Next]_vars PROVE StartCovers
    OBVIOUS
  <2>1. CASE job' = job \/ job' = NoJob \/ Finishes
    BY <2>1 DEF StartCovers, NoJob, Finishes
  <2>2. CASE Starts
    BY <2>2, StartFollows DEF StartCovers, Follows
  <2> QED
    BY <2>1, <2>2, JobSteps
<1> QED
  BY <1>1, Inductive, PTL DEF Spec

(* A walk over a schedule of at most MaxMissed times is never cut off. *)
LEMMA ShortWalk ==
  ASSUME NEW times \in SUBSET Nat, Cardinality(times \cap Times) <= MaxMissed,
         NEW base, NEW s, NEW t \in Times, WalksTo(times, base, s, t), s \in Int
  PROVE  \A u \in times : ~(s < u /\ u <= t)
<1> SUFFICES ASSUME NEW u \in times, s < u, u <= t PROVE FALSE
  OBVIOUS
<1> DEFINE short  == times \cap Times
           missed == {v \in times : base < v /\ v < s}
<1>1. MaxTime \in Nat /\ t \in Nat /\ t <= MaxTime /\ u \in Nat /\ MaxMissed \in Nat
  BY BackupAssumption DEF Times
<1>2. u \in short /\ u \notin missed
  BY <1>1 DEF Times
<1>3. missed \subseteq short
  <2>1. \A v \in times : v < s => v \in Times
    BY <1>1 DEF Times
  <2> QED
    BY <2>1, Zenon
<1>4. Cardinality(missed) >= MaxMissed
  BY DEF WalksTo
<1> HIDE DEF missed, short
<1>5. IsFiniteSet(short)
  <2>1. 0 \in Int /\ MaxTime \in Int
    BY <1>1
  <2>2. IsFiniteSet(Times)
    BY <2>1, FS_Interval DEF Times
  <2>3. short \in SUBSET Times
    BY DEF short
  <2> QED
    BY <2>2, <2>3, FS_Subset
<1>6. /\ IsFiniteSet(short \ {u}) /\ Cardinality(short \ {u}) = Cardinality(short) - 1
      /\ Cardinality(short) \in Nat
  BY <1>2, <1>5, FS_RemoveElement, FS_CardinalityType
<1>7. missed \in SUBSET (short \ {u})
  BY <1>2, <1>3
<1>8. Cardinality(missed) <= Cardinality(short) - 1 /\ Cardinality(missed) \in Nat
  BY <1>6, <1>7, FS_Subset, FS_CardinalityType
<1>9. Cardinality(short) <= MaxMissed
  BY DEF short
<1> QED
  BY <1>1, <1>4, <1>6, <1>8, <1>9

(* On schedules that the walk can always cover, no run leaves a later time behind that had
   passed when it started (latestDue, decideBackup); while it runs and until its result is
   applied nothing about it changes. *)
THEOREM OneRunCovers ==
  ASSUME Cardinality(FullTimes \cap Times) <= MaxMissed, Cardinality(IncTimes \cap Times) <= MaxMissed
  PROVE  Spec => []OneRunCoversMissed
<1>1. Init => OneRunCoversMissed
  BY DEF Init, OneRunCoversMissed, NoJob
<1>2. IInv /\ IInv' /\ OneRunCoversMissed /\ [Next]_vars => OneRunCoversMissed'
  <2> SUFFICES ASSUME IInv, IInv', OneRunCoversMissed, [Next]_vars PROVE OneRunCoversMissed'
    OBVIOUS
  <2>1. CASE job' = job
    BY <2>1 DEF OneRunCoversMissed
  <2>2. CASE job' = NoJob
    BY <2>2 DEF OneRunCoversMissed, NoJob
  <2>3. CASE Finishes
    BY <2>3 DEF OneRunCoversMissed, Finishes
  <2>4. CASE Starts
    <3> DEFINE st == pass'.st
    <3>1. /\ Follows(st, job', now) /\ job'.kind \in {"Full", "Incremental"}
          /\ job'.scheduled \in Times /\ job'.started = now
      BY <2>4, StartFollows
    <3>2. now \in Times /\ st \in Statuses
      BY DEF IInv, TypeInv, TypeOK, Passes
    <3>3. st.lastFull \in Int /\ Latest(st) \in Int /\ st.lastFull <= Latest(st) /\ job'.scheduled \in Int
      BY <3>1, <3>2, BackupAssumption DEF Statuses, OptTimes, Times, NoTime, Latest
    <3> HIDE DEF st
    <3>4. job'.kind = "Full" => \A u \in FullTimes : ~(job'.scheduled < u /\ u <= now)
      BY <3>1, <3>2, <3>3, ShortWalk, BackupAssumption DEF Follows
    <3>5. job'.kind = "Incremental" => \A u \in IncTimes : ~(job'.scheduled < u /\ u <= now)
      BY <3>1, <3>2, <3>3, ShortWalk, BackupAssumption DEF Follows
    <3>6. job'.kind = "Incremental" => \A u \in FullTimes : ~(job'.scheduled < u /\ u <= now)
      <4>1. \A u \in FullTimes : u \in Int
        BY BackupAssumption
      <4> QED
        BY <3>1, <3>3, <4>1 DEF Follows
    <3> QED
      BY <3>1, <3>4, <3>5, <3>6 DEF OneRunCoversMissed
  <2> QED
    BY <2>1, <2>2, <2>3, <2>4, JobSteps
<1> QED
  BY <1>1, <1>2, Inductive, PTL DEF Spec

-----------------------------------------------------------------------------
(* Failures keep their distance. *)

(* The time that has to pass before the n-th consecutive failure. *)
Waited == CHOOSE f : f = [n \in 0 .. MaxFaults |-> IF n <= 1 THEN 0 ELSE f[n - 1] + Delay(n - 1)]

LEMMA DelayType ==
  ASSUME NEW n \in Nat, n # 0
  PROVE  Delay(n) \in Nat
BY RetryDelay

LEMMA WaitedSums ==
  /\ Waited \in [0 .. MaxFaults -> Nat]
  /\ \A n \in 0 .. MaxFaults : Waited[n] = IF n <= 1 THEN 0 ELSE Waited[n - 1] + Delay(n - 1)
<1> DEFINE H == [k \in Nat |-> [x \in Nat |-> IF k <= 1 THEN x ELSE x + Delay(k - 1)]]
           Step(f, n) == IF n <= 1 THEN 0 ELSE f[n - 1] + Delay(n - 1)
           S == {m \in Nat : m <= MaxFaults => Waited[m] \in Nat}
<1>1. MaxFaults \in Nat
  BY BackupAssumption
<1>2. \A k \in Nat : ~(k <= 1) => Delay(k - 1) \in Nat
  <2>1. \A k \in Nat : ~(k <= 1) => k - 1 \in Nat /\ k - 1 # 0
    OBVIOUS
  <2> QED
    BY <2>1, DelayType
<1>3. H \in [Nat -> [Nat -> Nat]]
  <2>1. ASSUME NEW k \in Nat, NEW x \in Nat PROVE (IF k <= 1 THEN x ELSE x + Delay(k - 1)) \in Nat
    BY <1>2
  <2> QED
    BY <2>1
<1>4. \E f : f = [n \in 0 .. MaxFaults |-> Step(f, n)]
  <2>1. PICK f \in [0 .. MaxFaults -> Nat] : Rec(MaxFaults, 0, H, f)
    <3>1. 0 \in Nat
      OBVIOUS
    <3> HIDE DEF H
    <3> QED
      BY <1>1, <1>3, <3>1, RecExists, Zenon
  <2>2. ASSUME NEW n \in 0 .. MaxFaults PROVE (IF n <= 1 THEN 0 ELSE H[n][f[n - 1]]) = Step(f, n)
    <3>1. CASE n <= 1
      BY <3>1
    <3>2. CASE ~(n <= 1)
      <4>1. n \in Nat /\ n - 1 \in 0 .. MaxFaults
        BY <1>1, <3>2
      <4>2. f[n - 1] \in Nat
        BY <4>1
      <4> QED
        BY <3>2, <4>1, <4>2
    <3> QED
      BY <3>1, <3>2
  <2>3. f = [n \in 0 .. MaxFaults |-> Step(f, n)]
    <3> HIDE DEF H, Step
    <3> QED
      BY <2>1, <2>2, Zenon DEF Rec
  <2> QED
    BY <2>3, Zenon
<1>5. Waited = [n \in 0 .. MaxFaults |-> Step(Waited, n)]
  <2>1. Waited = CHOOSE f : f = [n \in 0 .. MaxFaults |-> Step(f, n)]
    BY DEF Waited
  <2> HIDE DEF Step
  <2> QED
    BY <1>4, <2>1, Zenon
<1>6. \A n \in 0 .. MaxFaults : Waited[n] = Step(Waited, n)
  <2> HIDE DEF Step
  <2> QED
    BY <1>5, Zenon
<1>7. 0 \in S
  BY <1>1, <1>6
<1>8. ASSUME NEW m \in Nat, m \in S PROVE m + 1 \in S
  <2> SUFFICES ASSUME m + 1 <= MaxFaults PROVE Waited[m + 1] \in Nat
    OBVIOUS
  <2>1. m <= MaxFaults /\ m + 1 \in 0 .. MaxFaults /\ m + 1 \in Nat /\ (m + 1) - 1 = m
    BY <1>1
  <2>2. Waited[m] \in Nat
    BY <1>8, <2>1
  <2>3. Waited[m + 1] = IF m + 1 <= 1 THEN 0 ELSE Waited[m] + Delay(m)
    BY <1>6, <2>1
  <2>4. ~(m + 1 <= 1) => Delay(m) \in Nat
    BY <1>2, <2>1
  <2> QED
    BY <2>2, <2>3, <2>4
<1>9. Nat \subseteq S
  <2> HIDE DEF S
  <2> QED
    BY <1>7, <1>8, NatSetInduction
<1>10. \A n \in 0 .. MaxFaults : Waited[n] \in Nat
  BY <1>1, <1>9
<1>11. Waited = [n \in 0 .. MaxFaults |-> Waited[n]]
  <2> HIDE DEF Step
  <2> QED
    BY <1>5
<1> QED
  BY <1>6, <1>10, <1>11

(* The last failure came no sooner than the backoff allows. *)
Spaced(st) == st.failures > 0 => st.lastFailure # NoTime /\ st.lastFailure >= Waited[st.failures]

(* The job was started after the delay that follows the last failure. *)
Rested(st) == st.failures > 0 => job.started >= st.lastFailure + Delay(st.failures)

SpacedInv ==
  /\ Spaced(status) /\ (pc = "status" => Spaced(pass.st)) /\ (pc = "backup" => pass.st = status)
  /\ job.state # "none" => Rested(status) /\ (pc = "status" => Rested(pass.st))

(* Applying a result counts a failure now, or leaves the count of failures alone or resets it. *)
LEMMA AppliedFailure ==
  ASSUME NEW read \in Statuses, NEW st, st = applyBackupResult(read, job, now)
  PROVE  \/ st.failures = 0
         \/ st.failures = read.failures /\ st.lastFailure = read.lastFailure
         \/ st.failures = read.failures + 1 /\ st.lastFailure = now
BY DEF applyBackupResult, applySuccess, applyFailure, Statuses

(* A job that rested after the failures so far fails no sooner than the backoff allows. *)
LEMMA AppliedSpaced ==
  ASSUME IInv, job.state = "done", NEW read \in Statuses, Spaced(read), Rested(read),
         NEW st \in Statuses, st = applyBackupResult(read, job, now)
  PROVE  Spaced(st)
<1>1. now \in Nat /\ MaxFaults \in Nat /\ job.started \in Nat /\ job.started <= now
  BY BackupAssumption DEF IInv, TypeInv, TypeOK, JobInv, Times
<1>2. /\ read.failures \in 0 .. MaxFaults /\ st.failures \in 0 .. MaxFaults
      /\ read.lastFailure \in Int /\ NoTime \notin Nat
  BY BackupAssumption DEF Statuses, OptTimes, Times, NoTime
<1>3. CASE st.failures = read.failures /\ st.lastFailure = read.lastFailure
  BY <1>3 DEF Spaced
<1>4. CASE st.failures = read.failures + 1 /\ st.lastFailure = now
  <2>1. st.lastFailure # NoTime
    BY <1>1, <1>2, <1>4
  <2>2. CASE read.failures = 0
    <3>1. Waited[st.failures] = 0
      BY <1>2, <1>4, <2>2, WaitedSums
    <3> QED
      BY <1>1, <1>4, <2>1, <3>1 DEF Spaced
  <2>3. CASE read.failures # 0
    <3>1. read.failures \in Nat /\ read.failures > 0 /\ ~(st.failures <= 1) /\ st.failures - 1 = read.failures
      BY <1>1, <1>2, <1>4, <2>3
    <3>2. Waited[st.failures] = Waited[read.failures] + Delay(read.failures)
      BY <1>2, <3>1, WaitedSums
    <3>3. /\ read.lastFailure >= Waited[read.failures]
          /\ job.started >= read.lastFailure + Delay(read.failures)
      BY <3>1 DEF Spaced, Rested
    <3>4. Waited[read.failures] \in Nat /\ Delay(read.failures) \in Nat
      BY <1>2, <3>1, WaitedSums, DelayType
    <3>5. now >= Waited[read.failures] + Delay(read.failures)
      BY <1>1, <1>2, <3>3, <3>4
    <3> QED
      BY <1>4, <2>1, <3>2, <3>5 DEF Spaced
  <2> QED
    BY <2>2, <2>3
<1>5. CASE st.failures = 0
  BY <1>5 DEF Spaced
<1> QED
  BY <1>3, <1>4, <1>5, AppliedFailure

(* What reconcileBackup does to the status it has read, and to the job. *)
LEMMA PassApplies ==
  ASSUME IInv, IInv', reconcileBackup
  PROVE  LET read == [pass.st EXCEPT !.present = TRUE]
         IN  /\ read \in Statuses /\ pass'.st \in Statuses
             /\ pass'.st = IF job.state = "done" THEN applyBackupResult(read, job, now) ELSE read
             /\ pass'.collected = (job.state = "done") /\ pc = "backup" /\ pc' = "status"
             /\ UNCHANGED <<now, status, taken, lost, spec>>
             /\ Starts \/ job' = IF job.state = "done" THEN NoJob ELSE job
<1> DEFINE done == job.state = "done"
           read == [pass.st EXCEPT !.present = TRUE]
           st   == IF done THEN applyBackupResult(read, job, now) ELSE read
<1>1. pass \in Passes /\ pass.st \in Statuses /\ pass'.st \in Statuses
  BY DEF IInv, TypeInv, TypeOK, Passes
<1>2. read \in Statuses
  BY <1>1, Zenon DEF Statuses
<1>3. pass' = [pass EXCEPT !.st = st, !.cond = Condition(st, Busy(job)), !.collected = done]
  BY DEF reconcileBackup
<1>4. pc = "backup" /\ pc' = "status" /\ UNCHANGED <<now, status, taken, lost, spec>>
  BY DEF reconcileBackup, stored, server
<1>5. pass'.st = st /\ pass'.collected = done
  <2> HIDE DEF st, done
  <2> QED
    BY <1>1, <1>3 DEF Passes
<1>6. Starts \/ job' = IF job.state = "done" THEN NoJob ELSE job
  <2>1. CASE job' = IF job.state = "done" THEN NoJob ELSE job
    BY <2>1
  <2>2. CASE ~(job' = IF job.state = "done" THEN NoJob ELSE job)
    <3>1. MayStart(decideBackup(st, now)) /\ ~Busy(job)
      BY <2>2 DEF reconcileBackup
    <3>2. LET d == decideBackup(st, now)
          IN  job' = [state |-> "running", kind |-> d.kind, scheduled |-> d.scheduled,
                      parent |-> st.lastId, started |-> now, result |-> "none", id |-> 0]
      BY <2>2 DEF reconcileBackup
    <3>3. decideBackup(st, now).kind # "None" /\ job.state # "running"
      BY <3>1 DEF MayStart, Busy
    <3> HIDE DEF st
    <3> QED
      BY <1>5, <3>2, <3>3 DEF Starts
  <2> QED
    BY <2>1, <2>2
<1> HIDE DEF read, st
<1> QED
  BY <1>1, <1>2, <1>4, <1>5, <1>6 DEF read, st

LEMMA SpacedReconcile == IInv /\ IInv' /\ SpacedInv /\ reconcileBackup => SpacedInv'
<1> SUFFICES ASSUME IInv, IInv', SpacedInv, reconcileBackup PROVE SpacedInv'
  OBVIOUS
<1> DEFINE read == [pass.st EXCEPT !.present = TRUE]
           st   == pass'.st
<1>1. /\ read \in Statuses /\ st \in Statuses
      /\ st = IF job.state = "done" THEN applyBackupResult(read, job, now) ELSE read
      /\ pc = "backup" /\ pc' = "status" /\ now' = now /\ status' = status
      /\ Starts \/ job' = IF job.state = "done" THEN NoJob ELSE job
  BY PassApplies
<1>2. /\ read.failures = status.failures /\ read.lastFailure = status.lastFailure
      /\ status \in Statuses /\ now \in Nat
  BY <1>1, BackupAssumption DEF SpacedInv, IInv, TypeInv, TypeOK, Statuses, Times
<1> HIDE DEF read, st
<1>3. Spaced(read) /\ (job.state # "none" => Rested(read))
  BY <1>1, <1>2 DEF SpacedInv, Spaced, Rested
<1>4. Spaced(st)
  <2>1. CASE job.state = "done"
    BY <1>1, <1>3, <2>1, AppliedSpaced
  <2>2. CASE job.state # "done"
    BY <1>1, <1>3, <2>2
  <2> QED
    BY <2>1, <2>2
<1>5. ASSUME job'.state # "none" PROVE Rested(status)' /\ (Rested(pass.st))'
  <2>1. CASE Starts
    <3>1. retryAt(st) <= now /\ job'.started = now /\ job.state # "running"
      BY <2>1, StartFollows DEF st, Starts
    <3>2. ASSUME st.failures > 0 PROVE now >= st.lastFailure + Delay(st.failures)
      <4>1. st.lastFailure # NoTime
        BY <1>4, <3>2 DEF Spaced
      <4>2. retryAt(st) \in Int /\ retryAt(st) = st.lastFailure + Delay(st.failures)
        BY <1>1, <3>2, <4>1, RetryAtType
      <4> QED
        BY <1>2, <3>1, <4>2
    <3>3. ASSUME status.failures > 0 PROVE now >= status.lastFailure + Delay(status.failures)
      <4>1. CASE job.state = "done"
        <5>1. job.started >= status.lastFailure + Delay(status.failures)
          BY <3>3, <4>1 DEF SpacedInv, Rested
        <5>2. job.started \in Int /\ job.started <= now
          BY <4>1, BackupAssumption DEF IInv, JobInv, Times
        <5>3. status.lastFailure \in Int /\ Delay(status.failures) \in Nat
          BY <1>2, <3>3, DelayType, BackupAssumption DEF Statuses, OptTimes, Times, NoTime
        <5> QED
          BY <1>2, <5>1, <5>2, <5>3
      <4>2. CASE job.state # "done"
        BY <1>1, <1>2, <3>2, <3>3, <4>2
      <4> QED
        BY <4>1, <4>2
    <3> QED
      BY <1>1, <3>1, <3>2, <3>3 DEF Rested, st
  <2>2. CASE job' = IF job.state = "done" THEN NoJob ELSE job
    <3>1. job.state # "done" /\ job' = job /\ job.state # "none"
      BY <1>5, <2>2 DEF NoJob
    <3>2. st = read
      BY <1>1, <3>1
    <3> QED
      BY <1>1, <1>3, <3>1, <3>2 DEF SpacedInv, Rested, st
  <2> QED
    BY <1>1, <2>1, <2>2
<1>6. Spaced(status)' /\ Spaced(pass.st)'
  BY <1>1, <1>4 DEF SpacedInv, Spaced, st
<1> QED
  BY <1>1, <1>5, <1>6 DEF SpacedInv

LEMMA SpacedNext == IInv /\ IInv' /\ SpacedInv /\ [Next]_vars => SpacedInv'
<1> SUFFICES ASSUME IInv, IInv', SpacedInv, [Next]_vars PROVE SpacedInv'
  OBVIOUS
<1>1. CASE Begin
  <2>1. pass'.st = status /\ pc' = "backup" /\ UNCHANGED <<status, job>>
    BY <1>1 DEF Begin, stored, runner
  <2> QED
    BY <2>1 DEF SpacedInv, Spaced, Rested
<1>2. CASE forget
  <2>1. pass \in Passes /\ pass' = [pass EXCEPT !.st = NoStatus, !.cond = NoCondition]
    BY <1>2 DEF forget, IInv, TypeInv, TypeOK
  <2>2. pass'.st = NoStatus /\ pc' = "status" /\ job' = NoJob /\ status' = status
    BY <1>2, <2>1 DEF forget, stored, Passes
  <2>3. pass'.st.failures = 0 /\ job'.state = "none"
    BY <2>2 DEF NoStatus, NoJob
  <2> QED
    BY <2>2, <2>3 DEF SpacedInv, Spaced
<1>3. CASE reconcileBackup
  BY <1>3, SpacedReconcile
<1>4. CASE SaveStatus
  <2>1. pc = "status" /\ pc' = "idle" /\ job' = job /\ (status' = pass.st \/ status' = status)
    BY <1>4 DEF SaveStatus, stored, runner
  <2> QED
    BY <2>1 DEF SpacedInv, Spaced, Rested
<1>5. CASE Abort \/ Restart
  <2>1. pc' = "idle" /\ (job' = job \/ job' = NoJob) /\ status' = status
    BY <1>5 DEF Abort, Restart, stored, runner
  <2>2. Spaced(status)' /\ (job.state # "none" => Rested(status))
    BY <2>1 DEF SpacedInv, Spaced
  <2>3. CASE job' = job
    BY <2>1, <2>2, <2>3 DEF SpacedInv, Rested
  <2>4. CASE job' = NoJob
    BY <2>1, <2>2, <2>4 DEF SpacedInv, NoJob
  <2> QED
    BY <2>1, <2>3, <2>4
<1>6. CASE JobEnds
  <2>1. UNCHANGED <<status, pc, pass>>
    BY <1>6 DEF JobEnds, stored, passVars
  <2>2. job'.started = job.started /\ job.state # "none"
    <3>1. job.state = "running" /\ job'.state = "done"
      BY <1>6, Zenon DEF JobEnds, IInv, TypeInv, TypeOK, Jobs
    <3> QED
      BY <3>1, JobSteps DEF Finishes, NoJob, Starts
  <2> QED
    BY <2>1, <2>2 DEF SpacedInv, Spaced, Rested
<1>7. CASE StrayEnds \/ Prune \/ Tick \/ EditSpec \/ UNCHANGED vars
  <2>1. UNCHANGED <<status, pc, pass, job>>
    BY <1>7 DEF StrayEnds, Prune, Tick, EditSpec, vars, stored, runner, passVars
  <2> QED
    BY <2>1 DEF SpacedInv, Spaced, Rested
<1> QED
  BY <1>1, <1>2, <1>3, <1>4, <1>5, <1>6, <1>7, Zenon DEF Next, Pass

(* Failures cannot follow each other faster than the backoff, for every initial delay and cap
   and any number of failures, aborted passes and restarts: the n-th in a row comes no sooner
   than the n - 1 delays before it, each twice the one before it up to RetryMax
   (backupRetryDelay, decideBackup, applyBackupResult). *)
THEOREM FailuresSpaced == Spec => []FailuresAreSpaced
<1>1. Init => SpacedInv
  BY DEF Init, SpacedInv, Spaced, NoStatus, NoJob
<1>2. IInv /\ SpacedInv => FailuresAreSpaced
  BY DEF SpacedInv, Spaced, FailuresAreSpaced, Waited, Delay
<1> QED
  BY <1>1, <1>2, SpacedNext, Inductive, PTL DEF Spec

-----------------------------------------------------------------------------
(* A schedule time is served once. *)

(* The status as it will be once the pass has saved it. *)
Current == IF pc = "status" THEN pass.st ELSE status

Succeeded == job.state = "done" /\ job.result = "taken"

(* The backup of the runner's job, which no pass has collected yet. *)
Own(b) == Succeeded /\ b.scheduled = job.scheduled

(* Every full schedule time past the anchor is later than t. *)
Clear(st, t) == \A u \in FullTimes : st.lastFull < u => t < u

(* No backup that becomes due by the status st can be for the time t again. *)
Behind(st, t) == IF st.lastFull = NoTime THEN t < now ELSE t <= Latest(st) /\ Clear(st, t)

(* Schedule times are served in their order: the job is for a later one than every backup
   before it, and what is recorded of them keeps any later job past them. *)
InOrder ==
  /\ \A a, b \in taken : a.scheduled = b.scheduled => a = b
  /\ \A b \in taken : Own(b) \/ Behind(Current, b.scheduled)
  /\ job.state # "none" =>
       /\ \A b \in taken : Own(b) \/ b.scheduled < job.scheduled
       /\ job.kind = "Incremental" =>
            Current.lastFull # NoTime /\ Latest(Current) < job.scheduled /\ Clear(Current, job.scheduled)

(* The anchors of two statuses agree. *)
SameAnchors(s, t) == s.lastFull = t.lastFull /\ s.lastInc = t.lastInc

(* While spec.backup stays, what a pass holds is what is stored, up to a result it collected. *)
PassReads ==
  /\ spec.present
  /\ pc = "backup" => pass.st = status /\ ~pass.collected /\ pass.spec.present
  /\ pc = "status" => pass.collected \/ SameAnchors(pass.st, status)

OnceInv == PassReads /\ (~lost => InOrder)

LEMMA PassReadsNext ==
  ASSUME \A s \in Specs : s.present
  PROVE  IInv /\ IInv' /\ PassReads /\ [Next]_vars => PassReads'
<1> SUFFICES ASSUME IInv, IInv', PassReads, [Next]_vars PROVE PassReads'
  OBVIOUS
<1>1. CASE Begin
  BY <1>1 DEF Begin, PassReads, stored
<1>2. CASE forget
  BY <1>2 DEF forget, PassReads
<1>3. CASE reconcileBackup
  <2> DEFINE read == [pass.st EXCEPT !.present = TRUE]
  <2>1. /\ read \in Statuses
        /\ pass'.st = IF job.state = "done" THEN applyBackupResult(read, job, now) ELSE read
        /\ pass'.collected = (job.state = "done") /\ pc = "backup" /\ pc' = "status"
        /\ status' = status /\ spec' = spec
    BY <1>3, PassApplies
  <2>2. SameAnchors(read, status)
    BY <2>1 DEF SameAnchors, PassReads, IInv, TypeInv, TypeOK, Statuses
  <2> HIDE DEF read
  <2> QED
    BY <2>1, <2>2, Zenon DEF PassReads, SameAnchors
<1>4. CASE SaveStatus \/ Abort \/ Restart
  BY <1>4 DEF SaveStatus, Abort, Restart, PassReads
<1>5. CASE JobEnds \/ StrayEnds \/ Prune \/ Tick \/ UNCHANGED vars
  BY <1>5, Zenon DEF JobEnds, StrayEnds, Prune, Tick, vars, stored, passVars, PassReads, SameAnchors
<1>6. CASE EditSpec
  BY <1>6 DEF EditSpec, stored, passVars, PassReads, SameAnchors
<1> QED
  BY <1>1, <1>2, <1>3, <1>4, <1>5, <1>6 DEF Next, Pass

(* The numbers that the order is about. *)
LEMMA OrderTypes ==
  ASSUME IInv
  PROVE  /\ now \in Nat /\ \A b \in taken : b.scheduled \in Nat
         /\ \A u \in FullTimes : u \in Nat
         /\ job.state # "none" => job.scheduled \in Nat /\ job.scheduled <= now
         /\ Current \in Statuses
<1>1. \A b \in taken : b.scheduled \in Times
  BY DEF IInv, TypeInv, TypeOK
<1>2. job.state # "none" => /\ job.scheduled \in Times /\ job.started \in Times
                            /\ job.scheduled <= job.started /\ job.started <= now
  BY DEF IInv, JobInv
<1>3. now \in Times /\ \A t \in Times : t \in Nat
  BY BackupAssumption DEF IInv, TypeInv, TypeOK, Times
<1>4. Current \in Statuses
  BY DEF IInv, TypeInv, TypeOK, Passes, Current
<1> QED
  BY <1>1, <1>2, <1>3, <1>4, BackupAssumption

LEMMA AnchorTypes ==
  ASSUME NEW st \in Statuses
  PROVE  /\ st.lastFull \in Int /\ st.lastInc \in Int /\ Latest(st) \in Int
         /\ st.lastFull <= Latest(st) /\ st.lastInc <= Latest(st)
BY BackupAssumption DEF Statuses, OptTimes, Times, NoTime, Latest

(* What stays behind the anchors of a status as time passes. *)
LEMMA BehindKept ==
  ASSUME NEW st, NEW st2, SameAnchors(st2, st), NEW t \in Nat, now \in Nat, now' \in Nat, now <= now',
         Behind(st, t)
  PROVE  IF st2.lastFull = NoTime THEN t < now' ELSE t <= Latest(st2) /\ Clear(st2, t)
BY DEF SameAnchors, Behind, Clear, Latest

(* Steps that leave the job, the backups and the anchors alone keep the order. *)
LEMMA OrderKept ==
  ASSUME IInv, InOrder, UNCHANGED <<job, taken>>, SameAnchors(Current', Current),
         now' \in Nat, now <= now'
  PROVE  InOrder'
<1>1. \A b \in taken : Own(b)' <=> Own(b)
  BY DEF Own, Succeeded
<1>2. \A b \in taken : Own(b) \/ Behind(Current, b.scheduled)'
  <2>1. SUFFICES ASSUME NEW b \in taken, Behind(Current, b.scheduled)
                 PROVE  Behind(Current, b.scheduled)'
    BY DEF InOrder
  <2>2. IF Current'.lastFull = NoTime THEN b.scheduled < now'
        ELSE b.scheduled <= Latest(Current') /\ Clear(Current', b.scheduled)
    BY <2>1, OrderTypes, BehindKept
  <2> QED
    BY <2>2 DEF Behind, Clear, Latest
<1>3. ASSUME job.state # "none", job.kind = "Incremental"
      PROVE  Current'.lastFull # NoTime /\ Latest(Current') < job.scheduled /\ Clear(Current', job.scheduled)
  BY <1>3 DEF InOrder, SameAnchors, Latest, Clear
<1>4. job.state # "none" => \A b \in taken : Own(b) \/ b.scheduled < job.scheduled
  BY DEF InOrder
<1>5. \A a, b \in taken : a.scheduled = b.scheduled => a = b
  BY DEF InOrder
<1> HIDE DEF Current
<1> QED
  BY <1>1, <1>2, <1>3, <1>4, <1>5 DEF InOrder, Latest, Clear

(* Once the result of the job is applied, every backup lies behind the anchors. *)
LEMMA AppliedBehind ==
  ASSUME IInv, InOrder, job.state = "done", NEW read \in Statuses, SameAnchors(read, Current),
         NEW st \in Statuses, st = applyBackupResult(read, job, now), NEW b \in taken
  PROVE  Behind(st, b.scheduled)
<1>1. /\ now \in Nat /\ b.scheduled \in Nat /\ job.scheduled \in Nat /\ job.scheduled <= now
      /\ \A u \in FullTimes : u \in Nat
  BY OrderTypes
<1>2. /\ st.lastFull \in Int /\ st.lastInc \in Int /\ Latest(st) \in Int
      /\ st.lastFull <= Latest(st) /\ st.lastInc <= Latest(st)
  BY AnchorTypes
<1>3. /\ Own(b) \/ b.scheduled < job.scheduled
      /\ Own(b) \/ Behind(Current, b.scheduled)
      /\ job.kind = "Incremental" =>
           read.lastFull # NoTime /\ Latest(read) < job.scheduled /\ Clear(read, job.scheduled)
  BY DEF InOrder, SameAnchors, Latest, Clear
<1>4. b.scheduled <= job.scheduled
  BY <1>1, <1>3 DEF Own
<1>5. job.kind \in {"Full", "Incremental"} /\ (job.result = "ParentMissing" => job.kind = "Incremental")
  BY DEF IInv, JobInv, TypeInv, TypeOK, Jobs
<1>6. CASE job.result = "taken" /\ job.kind = "Full"
  <2>1. st.lastFull = job.scheduled
    BY <1>6, Zenon DEF applyBackupResult, applySuccess, Statuses
  <2>2. st.lastFull # NoTime
    BY <1>1, <2>1 DEF NoTime
  <2> QED
    BY <1>1, <1>2, <1>4, <2>1, <2>2 DEF Behind, Clear
<1>7. CASE job.result = "taken" /\ job.kind = "Incremental"
  <2>1. st.lastFull = read.lastFull /\ st.lastInc = job.scheduled
    BY <1>7, Zenon DEF applyBackupResult, applySuccess, Statuses
  <2> QED
    BY <1>1, <1>2, <1>3, <1>4, <1>7, <2>1 DEF Behind, Clear
<1>8. CASE job.result = "ParentMissing"
  <2>1. st.lastFull = NoTime
    BY <1>5, <1>8 DEF applyBackupResult, Statuses
  <2>2. b.scheduled < job.scheduled
    BY <1>3, <1>8 DEF Own, Succeeded
  <2> QED
    BY <1>1, <2>1, <2>2 DEF Behind
<1>9. CASE job.result \notin {"taken", "ParentMissing"}
  <2>1. SameAnchors(st, read)
    BY <1>9 DEF applyBackupResult, applyFailure, Statuses, SameAnchors
  <2>2. Behind(Current, b.scheduled)
    BY <1>3, <1>9 DEF Own, Succeeded
  <2> QED
    BY <2>1, <2>2 DEF SameAnchors, Behind, Clear, Latest
<1> QED
  BY <1>5, <1>6, <1>7, <1>8, <1>9

(* A backup that follows a status is for a later time than every backup behind it. *)
LEMMA FollowsBehind ==
  ASSUME IInv, NEW st \in Statuses, NEW j, Follows(st, j, now), j.kind \in {"Full", "Incremental"},
         j.scheduled \in Nat, j.scheduled <= now, NEW t \in Nat, Behind(st, t)
  PROVE  t < j.scheduled
<1>1. now \in Nat /\ Latest(st) \in Int
  BY OrderTypes, AnchorTypes
<1>2. CASE j.kind = "Full"
  BY <1>1, <1>2 DEF Follows, Behind, Clear
<1>3. CASE j.kind = "Incremental"
  BY <1>1, <1>3 DEF Follows, Behind
<1> QED
  BY <1>2, <1>3

LEMMA OrderReconcile ==
  ASSUME IInv, IInv', PassReads, InOrder, reconcileBackup
  PROVE  InOrder'
<1> DEFINE read == [pass.st EXCEPT !.present = TRUE]
           st   == pass'.st
<1>1. /\ read \in Statuses /\ st \in Statuses
      /\ st = IF job.state = "done" THEN applyBackupResult(read, job, now) ELSE read
      /\ pc = "backup" /\ pc' = "status" /\ now' = now /\ taken' = taken
      /\ Starts \/ job' = IF job.state = "done" THEN NoJob ELSE job
  BY PassApplies
<1>2. SameAnchors(read, Current)
  BY <1>1 DEF SameAnchors, Current, PassReads, IInv, TypeInv, TypeOK, Statuses
<1>3. Current' = st /\ now \in Nat
  BY <1>1, OrderTypes DEF Current
<1> HIDE DEF read, st
<1>4. CASE job.state # "done" /\ job' = job
  <2>1. SameAnchors(Current', Current)
    BY <1>1, <1>2, <1>3, <1>4
  <2> QED
    BY <1>1, <1>3, <1>4, <2>1, OrderKept
<1>5. CASE job.state = "done" \/ job' # job
  <2>1. \A b \in taken : Behind(st, b.scheduled)
    <3>1. CASE job.state = "done"
      BY <1>1, <1>2, <3>1, AppliedBehind
    <3>2. CASE job.state # "done"
      <4>1. st = read
        BY <1>1, <3>2
      <4>2. \A b \in taken : Behind(Current, b.scheduled)
        BY <3>2 DEF InOrder, Own, Succeeded
      <4> QED
        BY <1>2, <4>1, <4>2 DEF SameAnchors, Behind, Clear, Latest
    <3> QED
      BY <3>1, <3>2
  <2>2. \A b \in taken' : Behind(Current, b.scheduled)'
    BY <1>1, <1>3, <2>1 DEF Behind, Clear, Latest
  <2>3. \A a, b \in taken' : a.scheduled = b.scheduled => a = b
    BY <1>1 DEF InOrder
  <2>4. CASE job' = NoJob
    BY <2>2, <2>3, <2>4 DEF InOrder, NoJob
  <2>5. CASE Starts
    <3>1. /\ Follows(st, job', now) /\ job'.kind \in {"Full", "Incremental"}
          /\ job'.scheduled \in Times /\ job'.scheduled <= now
      BY <2>5, StartFollows DEF st
    <3>2. job'.scheduled \in Nat
      BY <3>1, BackupAssumption DEF Times
    <3>3. \A b \in taken : b.scheduled < job'.scheduled
      BY <1>1, <2>1, <3>1, <3>2, FollowsBehind, OrderTypes
    <3>4. ASSUME job'.kind = "Incremental"
          PROVE  /\ st.lastFull # NoTime /\ Latest(st) < job'.scheduled
                 /\ Clear(st, job'.scheduled)
      <4>1. /\ st.lastFull # NoTime /\ Latest(st) < job'.scheduled
            /\ \A u \in FullTimes : ~(st.lastFull < u /\ u <= now)
        BY <3>1, <3>4 DEF Follows
      <4>2. \A u \in FullTimes : u \in Nat
        BY OrderTypes
      <4> QED
        BY <1>3, <3>1, <3>2, <4>1, <4>2 DEF Clear
    <3> QED
      BY <1>1, <1>3, <2>2, <2>3, <3>3, <3>4 DEF InOrder, Latest, Clear
  <2> QED
    BY <1>1, <1>5, <2>4, <2>5
<1> QED
  BY <1>4, <1>5

LEMMA OrderJobEnds ==
  ASSUME IInv, IInv', InOrder, JobEnds
  PROVE  InOrder'
<1>1. /\ UNCHANGED <<now, status, pc, pass>> /\ job.state = "running" /\ job \in Jobs
  BY DEF JobEnds, stored, passVars, IInv, TypeInv, TypeOK
<1>2. /\ job'.state = "done" /\ job'.kind = job.kind /\ job'.scheduled = job.scheduled
      /\ \/ taken' = taken
         \/ /\ job'.result = "taken"
            /\ \E r : r.scheduled = job.scheduled /\ taken' = taken \cup {r}
  <2>1. PICK answers \in [1 .. Targets -> {a \in Answers : CanAnswer(a)}] :
          LET result == runBackup(answers)
              id     == Cardinality(taken) + 1
          IN  IF result = "taken"
              THEN /\ job' = [job EXCEPT !.state = "done", !.result = result, !.id = id]
                   /\ \E kind \in {"Full", job.kind} :
                        taken' = taken \cup {[id |-> id, kind |-> kind, scheduled |-> job.scheduled,
                                              started |-> job.started]}
              ELSE job' = [job EXCEPT !.state = "done", !.result = result] /\ taken' = taken
    BY Zenon DEF JobEnds, server
  <2>2. CASE runBackup(answers) = "taken"
    <3>1. /\ job' = [job EXCEPT !.state = "done", !.result = "taken", !.id = Cardinality(taken) + 1]
          /\ \E kind \in {"Full", job.kind} :
               taken' = taken \cup {[id |-> Cardinality(taken) + 1, kind |-> kind,
                                     scheduled |-> job.scheduled, started |-> job.started]}
      BY <2>1, <2>2
    <3>2. \E r : r.scheduled = job.scheduled /\ taken' = taken \cup {r}
      BY <3>1, Zenon
    <3> QED
      BY <1>1, <3>1, <3>2 DEF Jobs
  <2>3. CASE runBackup(answers) # "taken"
    BY <1>1, <2>1, <2>3, Zenon DEF Jobs
  <2> QED
    BY <2>2, <2>3
<1>3. Current' = Current
  BY <1>1 DEF Current
<1>4. /\ \A b \in taken : Behind(Current, b.scheduled) /\ b.scheduled < job.scheduled
      /\ job.kind = "Incremental" =>
           Current.lastFull # NoTime /\ Latest(Current) < job.scheduled /\ Clear(Current, job.scheduled)
  BY <1>1 DEF InOrder, Own, Succeeded
<1>5. \A b \in taken : Behind(Current, b.scheduled)'
  BY <1>1, <1>3, <1>4 DEF Behind, Clear, Latest
<1>6. job'.kind = "Incremental" =>
        (Current.lastFull # NoTime /\ Latest(Current) < job.scheduled /\ Clear(Current, job.scheduled))'
  BY <1>2, <1>3, <1>4 DEF Latest, Clear
<1>7. CASE taken' = taken
  BY <1>2, <1>4, <1>5, <1>6, <1>7 DEF InOrder
<1>8. CASE taken' # taken
  <2>1. PICK r : r.scheduled = job.scheduled /\ taken' = taken \cup {r}
    BY <1>2, <1>8
  <2>2. Own(r)'
    BY <1>2, <1>8, <2>1 DEF Own, Succeeded
  <2>3. \A b \in taken : b.scheduled # r.scheduled
    BY <1>1, <1>4, <2>1, OrderTypes
  <2>4. \A a, b \in taken' : a.scheduled = b.scheduled => a = b
    BY <2>1, <2>3 DEF InOrder
  <2> QED
    BY <1>2, <1>4, <1>5, <1>6, <2>1, <2>2, <2>4 DEF InOrder
<1> QED
  BY <1>7, <1>8

LEMMA OnceNext ==
  ASSUME \A s \in Specs : s.present
  PROVE  IInv /\ IInv' /\ OnceInv /\ [Next]_vars => OnceInv'
<1> SUFFICES ASSUME IInv, IInv', OnceInv, [Next]_vars PROVE OnceInv'
  OBVIOUS
<1>1. PassReads /\ PassReads'
  BY PassReadsNext DEF OnceInv
<1>2. lost' \in BOOLEAN /\ lost \in BOOLEAN
  BY DEF IInv, TypeInv, TypeOK
<1>3. SUFFICES ASSUME ~lost' PROVE InOrder'
  BY <1>1 DEF OnceInv
<1>4. ~lost
  <2>1. CASE SaveStatus \/ Abort \/ Restart
    BY <1>3, <2>1, Zenon DEF SaveStatus, Abort, Restart
  <2>2. CASE UNCHANGED lost
    BY <1>3, <2>2
  <2>3. Pass \/ JobEnds => SaveStatus \/ UNCHANGED lost
    BY Zenon DEF Pass, Begin, forget, reconcileBackup, JobEnds
  <2>4. StrayEnds \/ Prune \/ Tick \/ EditSpec \/ UNCHANGED vars => UNCHANGED lost
    BY DEF StrayEnds, Prune, Tick, EditSpec, vars
  <2> QED
    BY <2>1, <2>2, <2>3, <2>4 DEF Next
<1>5. InOrder
  BY <1>4 DEF OnceInv
<1>6. now \in Nat /\ now' \in Nat
  <2>1. now \in Times /\ now' \in Times
    BY Zenon DEF IInv, TypeInv, TypeOK
  <2> QED
    BY <2>1, BackupAssumption DEF Times
<1>7. CASE Begin
  <2>1. Current' = status /\ Current = status /\ UNCHANGED <<job, taken, now>>
    BY <1>7 DEF Begin, Current, stored, runner, server
  <2> QED
    BY <1>5, <1>6, <2>1, OrderKept DEF SameAnchors
<1>8. CASE forget
  BY <1>1, <1>8 DEF forget, PassReads
<1>9. CASE reconcileBackup
  BY <1>1, <1>5, <1>9, OrderReconcile
<1>10. CASE SaveStatus
  <2>1. UNCHANGED <<job, taken, now>> /\ pc = "status" /\ pc' = "idle"
    BY <1>10 DEF SaveStatus, runner, server
  <2>2. status' = pass.st \/ (status' = status /\ ~pass.collected)
    BY <1>3, <1>10, Zenon DEF SaveStatus, stored
  <2>3. SameAnchors(Current', Current)
    BY <1>1, <2>1, <2>2 DEF Current, PassReads, SameAnchors
  <2> QED
    BY <1>5, <1>6, <2>1, <2>3, OrderKept
<1>11. CASE Abort
  <2>1. UNCHANGED <<job, taken, now, status>> /\ pc' = "idle" /\ ~pass.collected
    BY <1>3, <1>11, Zenon DEF Abort, runner, server, stored
  <2>2. SameAnchors(Current', Current)
    BY <1>1, <2>1 DEF Current, PassReads, SameAnchors
  <2> QED
    BY <1>5, <1>6, <2>1, <2>2, OrderKept
<1>12. CASE Restart
  <2>1. /\ UNCHANGED <<taken, now, status>> /\ pc' = "idle" /\ ~pass.collected
        /\ job' = NoJob /\ job.state # "done"
    BY <1>3, <1>12, Zenon DEF Restart, server, stored
  <2>2. SameAnchors(Current', Current)
    BY <1>1, <2>1 DEF Current, PassReads, SameAnchors
  <2>3. \A b \in taken : Behind(Current, b.scheduled)
    BY <1>5, <2>1 DEF InOrder, Own, Succeeded
  <2>4. \A b \in taken' : Behind(Current, b.scheduled)'
    BY <2>1, <2>2, <2>3 DEF SameAnchors, Behind, Clear, Latest
  <2>5. \A a, b \in taken' : a.scheduled = b.scheduled => a = b
    BY <1>5, <2>1 DEF InOrder
  <2> QED
    BY <2>1, <2>4, <2>5 DEF InOrder, NoJob
<1>13. CASE JobEnds
  BY <1>5, <1>13, OrderJobEnds
<1>14. CASE StrayEnds \/ Prune \/ Tick \/ EditSpec \/ UNCHANGED vars
  <2>1. UNCHANGED <<job, taken, status, pc, pass>> /\ now <= now'
    BY <1>6, <1>14 DEF StrayEnds, Prune, Tick, EditSpec, vars, stored, runner, server, passVars
  <2>2. SameAnchors(Current', Current)
    BY <2>1 DEF Current, SameAnchors
  <2> QED
    BY <1>5, <1>6, <2>1, <2>2, OrderKept
<1> QED
  BY <1>7, <1>8, <1>9, <1>10, <1>11, <1>12, <1>13, <1>14 DEF Next, Pass

(* A schedule time is served once, on any schedule, as long as no result is lost and nobody
   removes spec.backup: successful backups are for ever later times, because the anchors a
   finished backup leaves keep the next one past it, and a missing parent sends the next full
   one to the present (poll, applyBackupResult, decideBackup). *)
THEOREM ServesOnce ==
  ASSUME \A s \in Specs : s.present
  PROVE  Spec => []ServedOnce
<1>1. Init => OnceInv
  BY DEF Init, OnceInv, PassReads, InOrder, NoJob
<1>2. OnceInv => ServedOnce
  BY DEF OnceInv, InOrder, ServedOnce
<1> QED
  BY <1>1, <1>2, OnceNext, Inductive, PTL DEF Spec
=============================================================================
