---------------------------- MODULE BackupProofs ----------------------------
(***************************************************************************)
(* What holds of the backup scheduler for every schedule, every backoff,   *)
(* every number of edits and failures and every length of time.            *)
(***************************************************************************)
EXTENDS Backup, FiniteSetTheorems, WellFoundedInduction, TLAPS

(* A failed or unclaimed attempt that no pass has collected yet. *)
Pending == IF job.state = "done" /\ job.result \in {"failed", "unclaimed"} THEN 1 ELSE 0

(* A full backup of the time a, or of a later one, succeeded. *)
Covered(a) == a # NoTime => \E b \in taken : b.kind = "Full" /\ b.started >= a

(* Nothing a status records lies in the future. *)
Passed(st) ==
  st.lastFull <= now /\ st.lastInc <= now /\ st.lastFailure <= now /\ st.lastUnclaimed <= now

Bounded(st) ==
  st.unclaimedSince # NoTime =>
    st.lastUnclaimed - st.unclaimedSince < UnclaimedFailAfter /\ st.failures = 0

Reported(st, c) ==
  /\ st.failures > 0 => c.failing
  /\ c.failing => st.failures > 0 \/ c.reason \in {"InvalidSchedule", "UnsupportedImage"}

(* What has to hold of a status wherever it is: stored, or in the memory of a pass. *)
StatusInv(st, c) ==
  /\ Covered(st.lastFull) /\ Passed(st) /\ Bounded(st) /\ Reported(st, c)
  /\ st.failures + Pending <= faults

JobInv ==
  /\ job.state # "none" =>
       job.kind # "None" /\ job.scheduled \in Times /\ job.started \in Times
       /\ job.scheduled <= job.started /\ job.started <= now
  /\ job.state = "done" => job.result # "none"
  /\ job.result = "ParentMissing" => job.kind = "Incremental"
  /\ job.state = "done" /\ job.result = "taken" /\ job.kind = "Full" => Covered(job.scheduled)

TypeInv == TypeOK /\ IsFiniteSet(taken)

IInv == TypeInv /\ JobInv /\ StatusInv(status, cond) /\ StatusInv(pass.st, pass.cond)

-----------------------------------------------------------------------------
(* The scheduler picks one of the times that are due, or none. *)
LEMMA LatestDue ==
  ASSUME NEW times \in SUBSET Nat, NEW base \in Int, NEW t \in Times
  PROVE  \/ latestDue(times, base, t) = NoTime
         \/ latestDue(times, base, t) \in Times /\ latestDue(times, base, t) <= t
<1> DEFINE due     == {u \in times : base < u /\ u <= t}
           steps   == IF Cardinality(due) > MaxMissed THEN MaxMissed ELSE Cardinality(due) - 1
           reached == {u \in due : Cardinality({v \in due : v < u}) = steps}
<1>1. latestDue(times, base, t) = IF reached = {} THEN NoTime ELSE CHOOSE u \in reached : TRUE
  BY DEF latestDue
<1>2. ASSUME reached # {}
      PROVE  latestDue(times, base, t) \in due
  BY <1>1, <1>2
<1>3. \A u \in due : u \in Nat /\ u <= t /\ u \in Times
  BY BackupAssumption DEF Times
<1> HIDE DEF due, reached
<1> QED
  BY <1>1, <1>2, <1>3

(* Whatever backup is due was due at the latest now. *)
LEMMA DueInThePast ==
  ASSUME NEW st \in Statuses, NEW t \in Times
  PROVE  LET d == decideBackup(st, t)
         IN  /\ d.kind \in {"None", "Full", "Incremental"}
             /\ d.kind # "None" => d.scheduled \in Times /\ d.scheduled <= t
<1> DEFINE full == latestDue(FullTimes, st.lastFull, t)
           base == IF st.lastInc > st.lastFull THEN st.lastInc ELSE st.lastFull
           inc  == latestDue(IncTimes, base, t)
<1>1. st.lastFull \in Int /\ st.lastInc \in Int /\ base \in Int
  BY BackupAssumption DEF Statuses, OptTimes, Times, NoTime
<1>2. full = NoTime \/ (full \in Times /\ full <= t)
  BY <1>1, LatestDue, BackupAssumption
<1>3. inc = NoTime \/ (inc \in Times /\ inc <= t)
  BY <1>1, LatestDue, BackupAssumption
<1>4. /\ Due(st, t).kind \in {"None", "Full", "Incremental"}
      /\ Due(st, t).kind # "None" => Due(st, t).scheduled \in Times /\ Due(st, t).scheduled <= t
  <2>1. t <= t
    BY BackupAssumption DEF Times
  <2> HIDE DEF full, inc
  <2>3. CASE Due(st, t) = NothingDue
    BY <2>3 DEF NothingDue
  <2>4. CASE Due(st, t) = [kind |-> "Full", scheduled |-> t]
    BY <2>1, <2>4
  <2>5. CASE Due(st, t) = [kind |-> "Full", scheduled |-> full] /\ full # NoTime
    BY <1>2, <2>5
  <2>6. CASE Due(st, t) = [kind |-> "Incremental", scheduled |-> inc] /\ inc # NoTime
    BY <1>3, <2>6
  <2>7. \/ Due(st, t) = NothingDue
        \/ Due(st, t) = [kind |-> "Full", scheduled |-> t]
        \/ Due(st, t) = [kind |-> "Full", scheduled |-> full] /\ full # NoTime
        \/ Due(st, t) = [kind |-> "Incremental", scheduled |-> inc] /\ inc # NoTime
    BY DEF Due, full, inc, base
  <2> QED
    BY <2>3, <2>4, <2>5, <2>6, <2>7
<1> QED
  BY <1>4 DEF decideBackup, NothingDue

-----------------------------------------------------------------------------
(* Applying a finished backup keeps a status in order: the anchor moves only to a time that a
   full backup covers, and an attempt is counted once. *)
LEMMA ApplyKeeps ==
  ASSUME IInv, job.state = "done", NEW read \in Statuses,
         Covered(read.lastFull), Passed(read), Bounded(read), read.failures + Pending <= faults
  PROVE  LET st == applyBackupResult(read, job, now)
         IN  /\ st \in Statuses /\ Covered(st.lastFull) /\ Passed(st) /\ Bounded(st)
             /\ st.failures <= faults
<1> DEFINE st    == applyBackupResult(read, job, now)
           since == IF read.unclaimedSince = NoTime THEN now ELSE read.unclaimedSince
           waits == job.result = "unclaimed" /\ read.failures = 0 /\ now - since < UnclaimedFailAfter
<1>1. /\ now \in Times /\ now \in Nat /\ job \in Jobs /\ NoTime \in OptTimes /\ now \in OptTimes
      /\ faults \in Nat /\ MaxFaults \in Nat /\ faults <= MaxFaults
  BY BackupAssumption DEF IInv, TypeInv, TypeOK, Times, OptTimes
<1>2. /\ job.kind \in {"Full", "Incremental"} /\ job.scheduled \in Times /\ job.scheduled <= now
      /\ job.scheduled \in OptTimes
  BY <1>1 DEF IInv, JobInv, Jobs, Times, OptTimes
<1>3. /\ read.failures \in Nat /\ read.lastFull \in Int /\ read.lastInc \in Int
      /\ read.lastFailure \in Int /\ read.unclaimedSince \in OptTimes /\ read.lastUnclaimed \in Int
      /\ since \in OptTimes /\ since \in Int /\ UnclaimedFailAfter \in Nat
  BY <1>1, BackupAssumption DEF Statuses, OptTimes, Times, NoTime
<1>4. NoTime <= now /\ now <= now /\ 0 \in 0 .. MaxFaults
  BY <1>1 DEF NoTime
<1>5. CASE job.result = "taken"
  <2>1. st = applySuccess(read, job, now)
    BY <1>5 DEF applyBackupResult
  <2>2. st \in Statuses
    <3>1. job.id \in Nat
      BY <1>1 DEF Jobs
    <3> QED
      BY <1>1, <1>2, <1>4, <2>1, <3>1, Zenon DEF applySuccess, Statuses
  <2>3. Covered(st.lastFull)
    BY <1>2, <1>5, <2>1 DEF applySuccess, Statuses, IInv, JobInv
  <2>4. Passed(st)
    BY <1>2, <1>4, <2>1 DEF applySuccess, Statuses, Passed
  <2>5. Bounded(st) /\ st.failures <= faults
    BY <1>1, <2>1 DEF applySuccess, Statuses, Bounded
  <2> QED
    BY <2>2, <2>3, <2>4, <2>5
<1>6. CASE job.result # "taken" /\ waits
  <2>1. st = [read EXCEPT !.unclaimedSince = since, !.lastUnclaimed = now]
    BY <1>6 DEF applyBackupResult
  <2>2. st \in Statuses
    BY <1>1, <1>3, <2>1, Zenon DEF Statuses
  <2>3. Covered(st.lastFull) /\ Passed(st)
    BY <1>4, <2>1 DEF Statuses, Passed
  <2>4. Bounded(st)
    BY <1>6, <2>1 DEF Statuses, Bounded
  <2>5. st.failures <= faults
    BY <1>1, <1>6, <2>1 DEF Statuses
  <2> QED
    BY <2>2, <2>3, <2>4, <2>5
<1>7. CASE job.result = "ParentMissing"
  <2>1. job.kind = "Incremental"
    BY <1>7 DEF IInv, JobInv
  <2>2. st = [read EXCEPT !.lastId = 0, !.lastFull = NoTime, !.unclaimedSince = NoTime, !.lastUnclaimed = NoTime]
    BY <1>7, <2>1 DEF applyBackupResult
  <2>3. st \in Statuses
    <3>1. 0 \in Nat
      OBVIOUS
    <3> QED
      BY <1>1, <2>2, <3>1, Zenon DEF Statuses
  <2>4. Covered(st.lastFull) /\ Passed(st) /\ Bounded(st)
    BY <1>4, <2>2 DEF Statuses, Covered, Passed, Bounded
  <2>5. st.failures <= faults
    BY <1>1, <1>3, <2>2 DEF Statuses, Pending
  <2> QED
    BY <2>3, <2>4, <2>5
<1>8. CASE job.result \notin {"taken", "ParentMissing"} /\ ~waits
  <2>1. st = applyFailure(read, job, now)
    BY <1>8 DEF applyBackupResult
  <2>2. Pending = 1
    BY <1>1, <1>8 DEF IInv, JobInv, Jobs, Results, Pending
  <2>3. read.failures + 1 <= faults
    BY <2>2
  <2>4. st \in Statuses
    <3>1. read.failures + 1 \in 0 .. MaxFaults
      BY <1>1, <1>3, <2>3
    <3> QED
      BY <1>1, <2>1, <3>1, Zenon DEF applyFailure, Statuses
  <2>5. Covered(st.lastFull) /\ Passed(st) /\ Bounded(st) /\ st.failures <= faults
    BY <1>4, <2>1, <2>3 DEF applyFailure, Statuses, Passed, Bounded
  <2> QED
    BY <2>4, <2>5
<1> HIDE DEF st
<1> QED
  BY <1>5, <1>6, <1>7, <1>8

(* The condition a pass computes reports the failures of the status it computes it from. *)
LEMMA ConditionReports ==
  ASSUME NEW st \in Statuses, NEW busy \in BOOLEAN, pass \in Passes
  PROVE  Condition(st, busy) \in Conditions /\ Reported(st, Condition(st, busy))
<1> DEFINE failing == st.failures > 0
           says(r) == [failing |-> failing, reason |-> IF failing THEN "BackupFailed" ELSE r]
<1>1. failing \in BOOLEAN
  BY DEF Statuses
<1>2. pass.spec.usable \in {"yes", "InvalidSchedule", "UnsupportedImage"}
  BY DEF Passes, AllSpecs
<1>3. CASE pass.spec.usable # "yes"
  <2>1. Condition(st, busy) = [failing |-> TRUE, reason |-> pass.spec.usable]
    BY <1>3 DEF Condition
  <2> QED
    BY <1>2, <1>3, <2>1 DEF Conditions, Reasons, Reported
<1>4. CASE pass.spec.usable = "yes"
  <2>1. \/ \E r \in {"BackupRunning", "BackupScheduled", "BackupSuspended", "BackupWaiting"} :
             Condition(st, busy) = says(r)
        \/ ~failing /\ Condition(st, busy) = [failing |-> FALSE, reason |-> "BackupWaiting"]
    BY <1>4 DEF Condition
  <2>2. ASSUME NEW r \in {"BackupRunning", "BackupScheduled", "BackupSuspended", "BackupWaiting"},
               Condition(st, busy) = says(r)
        PROVE  Condition(st, busy) \in Conditions /\ Reported(st, Condition(st, busy))
    <3>1. Condition(st, busy).failing = failing
      BY <2>2
    <3>2. (IF failing THEN "BackupFailed" ELSE r) \in Reasons
      BY <2>2 DEF Reasons
    <3>3. Condition(st, busy) \in Conditions
      <4> HIDE DEF failing
      <4> QED
        BY <1>1, <2>2, <3>2 DEF Conditions
    <3> QED
      BY <3>1, <3>3, Zenon DEF Reported
  <2>3. ASSUME ~failing, Condition(st, busy) = [failing |-> FALSE, reason |-> "BackupWaiting"]
        PROVE  Condition(st, busy) \in Conditions /\ Reported(st, Condition(st, busy))
    BY <2>3 DEF Conditions, Reasons, Reported
  <2> QED
    BY <2>1, <2>2, <2>3
<1> QED
  BY <1>3, <1>4

-----------------------------------------------------------------------------
(* Failures counted, and one pending, stay within the failures that happened: a failure that
   becomes pending is one that happened. *)
LEMMA FailureBudget ==
  ASSUME NEW f \in Nat, NEW p \in {0, 1}, NEW q \in {0, 1}, NEW x \in Nat, NEW y \in Nat,
         f + p <= x, q - p <= y - x
  PROVE  f + q <= y
OBVIOUS

(* The stored status stays in order while time passes, backups succeed and failures happen. *)
LEMMA StoredKept ==
  ASSUME IInv, UNCHANGED stored, now' \in Nat, now <= now', taken \subseteq taken',
         faults' \in Nat, Pending' - Pending <= faults' - faults
  PROVE  StatusInv(status, cond)'
<1>1. now \in Nat /\ faults \in Nat /\ status \in Statuses /\ Pending \in {0, 1} /\ Pending' \in {0, 1}
  BY BackupAssumption DEF IInv, TypeInv, TypeOK, Times, Pending
<1>2. Covered(status.lastFull)'
  BY DEF IInv, StatusInv, Covered, stored
<1>3. Passed(status)'
  BY <1>1, BackupAssumption DEF IInv, StatusInv, Passed, stored, Statuses, OptTimes, Times, NoTime
<1>4. Bounded(status)' /\ Reported(status, cond)'
  BY DEF IInv, StatusInv, Bounded, Reported, stored
<1>5. (status.failures + Pending <= faults)'
  <2>1. status.failures \in Nat /\ status.failures + Pending <= faults
    BY <1>1, BackupAssumption DEF Statuses, IInv, StatusInv
  <2>2. status.failures + Pending' <= faults'
    <3> HIDE DEF Pending
    <3> QED
      BY ONLY <1>1, <2>1, FailureBudget, faults' \in Nat, Pending' - Pending <= faults' - faults, Zenon
  <2> QED
    BY <2>2 DEF stored
<1> QED
  BY <1>2, <1>3, <1>4, <1>5 DEF StatusInv

(* So does the status in the memory of a pass. *)
LEMMA PassKept ==
  ASSUME IInv, UNCHANGED pass, now' \in Nat, now <= now', taken \subseteq taken',
         faults' \in Nat, Pending' - Pending <= faults' - faults
  PROVE  StatusInv(pass.st, pass.cond)'
<1>1. now \in Nat /\ faults \in Nat /\ pass.st \in Statuses /\ Pending \in {0, 1} /\ Pending' \in {0, 1}
  BY BackupAssumption DEF IInv, TypeInv, TypeOK, Times, Pending, Passes
<1>2. Covered(pass.st.lastFull)'
  BY DEF IInv, StatusInv, Covered
<1>3. Passed(pass.st)'
  BY <1>1, BackupAssumption DEF IInv, StatusInv, Passed, Statuses, OptTimes, Times, NoTime
<1>4. Bounded(pass.st)' /\ Reported(pass.st, pass.cond)'
  BY DEF IInv, StatusInv, Bounded, Reported
<1>5. (pass.st.failures + Pending <= faults)'
  <2>1. pass.st.failures \in Nat /\ pass.st.failures + Pending <= faults
    BY <1>1, BackupAssumption DEF Statuses, IInv, StatusInv
  <2>2. pass.st.failures + Pending' <= faults'
    <3> HIDE DEF Pending
    <3> QED
      BY ONLY <1>1, <2>1, FailureBudget, faults' \in Nat, Pending' - Pending <= faults' - faults
  <2> QED
    BY <2>2
<1> QED
  BY <1>2, <1>3, <1>4, <1>5 DEF StatusInv

(* The pass that remembers nothing is in order. *)
LEMMA NoPassKept ==
  ASSUME IInv, pass' = NoPass, now' \in Nat, faults' \in Nat, Pending' <= faults'
  PROVE  StatusInv(pass.st, pass.cond)' /\ NoPass \in Passes
<1>1. NoPass \in Passes
  BY BackupAssumption DEF NoPass, Passes, AllSpecs, Statuses, NoStatus, OptTimes, Conditions, NoCondition, Reasons
<1>2. pass'.st = NoStatus /\ pass'.cond = NoCondition
  BY DEF NoPass
<1>3. Pending' \in {0, 1}
  BY DEF Pending
<1>4. StatusInv(NoStatus, NoCondition)'
  <2>1. (0 + Pending <= faults)'
    BY <1>3 DEF Pending
  <2>2. (NoTime <= now)'
    BY DEF NoTime
  <2>3. NoStatus.failures + Pending' <= faults'
    BY <2>1 DEF NoStatus
  <2> QED
    BY <2>2, <2>3 DEF StatusInv, NoStatus, NoCondition, Covered, Passed, Bounded, Reported
<1> QED
  BY <1>1, <1>2, <1>4

(* The job stays in order while time passes and backups succeed. *)
LEMMA JobKept ==
  ASSUME IInv, UNCHANGED job, now' \in Nat, now <= now', taken \subseteq taken'
  PROVE  JobInv'
<1>1. now \in Nat /\ job \in Jobs
  BY BackupAssumption DEF IInv, TypeInv, TypeOK, Times
<1>2. (job.state # "none" =>
        job.kind # "None" /\ job.scheduled \in Times /\ job.started \in Times
        /\ job.scheduled <= job.started /\ job.started <= now)'
  BY <1>1 DEF IInv, JobInv, Times
<1> QED
  BY <1>2 DEF IInv, JobInv, Covered

LEMMA InvInit == Init => IInv
<1> SUFFICES ASSUME Init PROVE IInv
  OBVIOUS
<1>1. NoStatus \in Statuses /\ NoJob \in Jobs /\ NoCondition \in Conditions
  BY BackupAssumption DEF NoStatus, Statuses, NoJob, Jobs, NoCondition, Conditions, Reasons, Results, OptTimes
<1>2. NoPass \in Passes
  BY <1>1, BackupAssumption DEF NoPass, Passes, AllSpecs
<1>3. 0 \in Times /\ 0 \in 0 .. MaxEdits /\ 0 \in 0 .. MaxFaults
  BY BackupAssumption DEF Times
<1>4. TypeInv
  <2>1. \A t \in {status.lastFull, status.lastInc, status.lastFailure, status.lastUnclaimed} : t <= now
    BY DEF Init, NoStatus, NoTime
  <2>2. TypeOK
    BY <1>1, <1>2, <1>3, <2>1, Zenon DEF Init, TypeOK
  <2> QED
    BY <2>2, FS_EmptySet DEF Init, TypeInv
<1>5. JobInv
  BY DEF Init, JobInv, NoJob
<1>6. StatusInv(status, cond) /\ StatusInv(pass.st, pass.cond)
  BY DEF Init, StatusInv, NoStatus, NoCondition, NoPass, NoJob, Covered, Passed, Bounded, Reported, Pending, NoTime
<1> QED
  BY <1>4, <1>5, <1>6 DEF IInv

-----------------------------------------------------------------------------
(* One lemma per step: it keeps the invariant. *)

LEMMA BeginKeeps == IInv /\ Begin => IInv'
<1> SUFFICES ASSUME IInv, Begin PROVE IInv'
  OBVIOUS
<1>1. PICK s \in Sites :
        pass' = [edits |-> edits, spec |-> spec, steady |-> ~backupBlocked(s) /\ s.bound,
                 st |-> status, cond |-> cond, collected |-> FALSE]
  BY Zenon DEF Begin
<1>2. UNCHANGED <<now, spec, edits, status, cond, job, strays, catalog, taken, faults, lost>> /\ pc' = "backup"
  BY DEF Begin, stored, runner, server
<1>3. now \in Nat /\ faults \in Nat
  BY BackupAssumption DEF IInv, TypeInv, TypeOK, Times
<1>4. (~backupBlocked(s) /\ s.bound) \in BOOLEAN
  BY Zenon
<1>5. pass' \in Passes
  BY <1>1, <1>4, BackupAssumption DEF IInv, TypeInv, TypeOK, Passes
<1>6. TypeInv'
  BY <1>2, <1>5 DEF IInv, TypeInv, TypeOK
<1>7. Pending' - Pending <= faults' - faults
  BY <1>2, <1>3 DEF Pending
<1>8. StatusInv(status, cond)'
  BY <1>2, <1>3, <1>7, StoredKept DEF stored
<1>9. StatusInv(pass.st, pass.cond)'
  <2>1. pass'.st = status' /\ pass'.cond = cond'
    BY <1>1, <1>2
  <2> QED
    BY <1>8, <2>1 DEF StatusInv, Covered, Passed, Bounded, Reported
<1>10. JobInv'
  BY <1>2, <1>3, JobKept
<1> QED
  BY <1>6, <1>8, <1>9, <1>10 DEF IInv

LEMMA forgetKeeps == IInv /\ forget => IInv'
<1> SUFFICES ASSUME IInv, forget PROVE IInv'
  OBVIOUS
<1>1. UNCHANGED <<now, spec, edits, status, cond, catalog, taken, faults, lost>> /\ pc' = "status" /\ job' = NoJob
  BY DEF forget, stored, server
<1>2. pass' = [pass EXCEPT !.st = NoStatus, !.cond = NoCondition]
  BY DEF forget
<1>3. now \in Nat /\ faults \in Nat /\ strays \in Nat /\ pass \in Passes
  BY BackupAssumption DEF IInv, TypeInv, TypeOK, Times
<1>4. Pending' = 0 /\ Pending \in {0, 1}
  BY <1>1 DEF Pending, NoJob
<1>5. strays' \in Nat
  BY <1>3 DEF forget
<1>6. job' \in Jobs
  BY <1>1, BackupAssumption DEF NoJob, Jobs, OptTimes, Results
<1>7. NoStatus \in Statuses /\ NoCondition \in Conditions
  BY BackupAssumption DEF NoStatus, Statuses, NoCondition, Conditions, Reasons, OptTimes
<1>8. pass' \in Passes /\ pass'.st = NoStatus /\ pass'.cond = NoCondition
  BY <1>2, <1>3, <1>7, Zenon DEF Passes
<1>9. TypeInv'
  BY <1>1, <1>5, <1>6, <1>8 DEF IInv, TypeInv, TypeOK
<1>10. StatusInv(status, cond)'
  BY <1>1, <1>3, <1>4, StoredKept DEF stored
<1>11. StatusInv(pass.st, pass.cond)'
  <2>1. NoStatus.failures + Pending' <= faults' /\ NoTime <= now'
    BY <1>1, <1>3, <1>4 DEF NoStatus, NoTime
  <2>2. StatusInv(NoStatus, NoCondition)'
    BY <2>1 DEF StatusInv, NoStatus, NoCondition, Covered, Passed, Bounded, Reported
  <2> QED
    BY <1>8, <2>2
<1>12. JobInv'
  BY <1>1 DEF JobInv, NoJob
<1> QED
  BY <1>9, <1>10, <1>11, <1>12 DEF IInv

LEMMA SaveStatusKeeps == IInv /\ SaveStatus => IInv'
<1> SUFFICES ASSUME IInv, SaveStatus PROVE IInv'
  OBVIOUS
<1>1. /\ UNCHANGED <<now, spec, edits, job, strays, catalog, taken, faults>>
      /\ pc' = "idle" /\ pass' = NoPass
  BY DEF SaveStatus, runner, server
<1>2. /\ now \in Nat /\ faults \in Nat /\ pass.collected \in BOOLEAN /\ pass.st \in Statuses
      /\ pass.cond \in Conditions
  BY BackupAssumption DEF IInv, TypeInv, TypeOK, Times, Passes
<1>3. Pending' = Pending /\ Pending \in {0, 1} /\ Pending <= faults
  <2>1. Pending' = Pending /\ Pending \in {0, 1}
    BY <1>1 DEF Pending
  <2>2. status.failures \in Nat /\ status.failures + Pending <= faults
    BY BackupAssumption DEF IInv, TypeInv, TypeOK, Statuses, StatusInv
  <2> QED
    BY <1>2, <2>1, <2>2
<1>4. StatusInv(pass.st, pass.cond)' /\ pass' \in Passes
  BY <1>1, <1>2, <1>3, NoPassKept
<1>5. StatusInv(status, cond)' /\ status' \in Statuses /\ cond' \in Conditions /\ lost' \in BOOLEAN
  <2>1. CASE pass.edits = edits
    <3>1. status' = pass.st /\ cond' = pass.cond /\ lost' = lost
      BY <2>1 DEF SaveStatus
    <3>2. StatusInv(pass.st, pass.cond)
      BY DEF IInv
    <3>3. StatusInv(status, cond)'
      BY <1>1, <1>3, <3>1, <3>2 DEF StatusInv, Covered, Passed, Bounded, Reported
    <3> QED
      BY <1>2, <3>1, <3>3 DEF IInv, TypeInv, TypeOK
  <2>2. CASE pass.edits # edits
    <3>1. UNCHANGED stored /\ lost' = (lost \/ pass.collected)
      BY <2>2 DEF SaveStatus
    <3>2. StatusInv(status, cond)'
      BY <1>1, <1>2, <1>3, <3>1, StoredKept
    <3> QED
      BY <1>2, <3>1, <3>2 DEF IInv, TypeInv, TypeOK, stored
  <2> QED
    BY <2>1, <2>2
<1>6. TypeInv'
  <2>1. Passed(status)'
    BY <1>5 DEF StatusInv
  <2> QED
    BY <1>1, <1>4, <1>5, <2>1 DEF IInv, TypeInv, TypeOK, Passed
<1>7. JobInv'
  BY <1>1, <1>2, JobKept
<1> QED
  BY <1>4, <1>5, <1>6, <1>7 DEF IInv

(* A pass that fails and a restart leave the stored status alone and forget the rest. *)
LEMMA AbortKeeps == IInv /\ (Abort \/ Restart) => IInv'
<1> SUFFICES ASSUME IInv, Abort \/ Restart PROVE IInv'
  OBVIOUS
<1>1. /\ UNCHANGED <<now, spec, edits, status, cond, catalog, taken>>
      /\ faults' = faults + 1 /\ pc' = "idle" /\ pass' = NoPass
  BY DEF Abort, Restart, Fault, stored, server
<1>2. (job' = job /\ strays' = strays) \/ (job' = NoJob /\ strays' = 0)
  BY DEF Abort, Restart, runner
<1>3. /\ now \in Nat /\ faults \in Nat /\ faults' \in Nat /\ faults' \in 0 .. MaxFaults
      /\ pass.collected \in BOOLEAN /\ lost \in BOOLEAN
  BY <1>1, BackupAssumption DEF IInv, TypeInv, TypeOK, Times, Abort, Restart, Fault, Passes
<1>4. lost' \in BOOLEAN
  BY <1>3, Zenon DEF Abort, Restart
<1>5. Pending \in {0, 1} /\ (Pending' = Pending \/ Pending' = 0)
  BY <1>2 DEF Pending, NoJob
<1>6. Pending' - Pending <= faults' - faults /\ Pending' <= faults'
  BY <1>1, <1>3, <1>5
<1>7. StatusInv(status, cond)'
  BY <1>1, <1>3, <1>6, StoredKept DEF stored
<1>8. StatusInv(pass.st, pass.cond)' /\ pass' \in Passes
  BY <1>1, <1>3, <1>6, NoPassKept
<1>9. job' \in Jobs /\ strays' \in Nat
  BY <1>2, BackupAssumption DEF IInv, TypeInv, TypeOK, NoJob, Jobs, OptTimes, Results
<1>10. TypeInv'
  BY <1>1, <1>3, <1>4, <1>8, <1>9 DEF IInv, TypeInv, TypeOK
<1>11. JobInv'
  <2>1. CASE job' = job
    BY <1>1, <1>3, <2>1, JobKept
  <2>2. CASE job' = NoJob
    BY <2>2 DEF JobInv, NoJob
  <2> QED
    BY <1>2, <2>1, <2>2
<1> QED
  BY <1>7, <1>8, <1>10, <1>11 DEF IInv

(* The steps of the world: a stray backup ends, a backup is deleted, time passes, the user edits. *)
LEMMA WorldKeeps == IInv /\ (StrayEnds \/ Prune \/ Tick \/ EditSpec) => IInv'
<1> SUFFICES ASSUME IInv, StrayEnds \/ Prune \/ Tick \/ EditSpec PROVE IInv'
  OBVIOUS
<1>1. UNCHANGED <<status, cond, job, taken, pc, pass, lost>>
  BY DEF StrayEnds, Prune, Tick, EditSpec, stored, runner, server, passVars
<1>2. /\ now \in Times /\ now \in Nat /\ faults \in 0 .. MaxFaults /\ faults \in Nat
      /\ strays \in Nat /\ edits \in 0 .. MaxEdits /\ spec \in Specs /\ catalog \subseteq Nat
  BY BackupAssumption DEF IInv, TypeInv, TypeOK, Times
<1>3. now' \in Times /\ now' \in Nat /\ now <= now'
  BY <1>2, BackupAssumption DEF StrayEnds, Prune, Tick, EditSpec, Times
<1>4. faults' \in 0 .. MaxFaults /\ faults' \in Nat /\ faults <= faults'
  BY <1>2, BackupAssumption DEF StrayEnds, Prune, Tick, EditSpec, Fault
<1>5. strays' \in Nat /\ edits' \in 0 .. MaxEdits /\ spec' \in Specs
  BY <1>2, BackupAssumption DEF StrayEnds, Prune, Tick, EditSpec, runner
<1>6. catalog' \subseteq Nat
  BY <1>2, Zenon DEF StrayEnds, Prune, Tick, EditSpec, server
<1>7. Pending' = Pending /\ Pending \in {0, 1}
  BY <1>1 DEF Pending
<1>8. Pending' - Pending <= faults' - faults
  <2>1. Pending' - Pending = 0
    BY <1>7
  <2>2. ASSUME NEW x \in Nat, NEW y \in Nat, x <= y
        PROVE  0 <= y - x
    BY <2>2
  <2>3. 0 <= faults' - faults
    BY <1>2, <1>4, <2>2, Zenon
  <2> QED
    BY <2>1, <2>3
<1>9. StatusInv(status, cond)' /\ StatusInv(pass.st, pass.cond)'
  BY <1>1, <1>3, <1>4, <1>8, StoredKept, PassKept DEF stored
<1>10. JobInv'
  BY <1>1, <1>3, JobKept
<1>11. TypeInv'
  <2>1. Passed(status)'
    BY <1>9 DEF StatusInv
  <2> QED
    BY <1>1, <1>3, <1>4, <1>5, <1>6, <2>1 DEF IInv, TypeInv, TypeOK, Passed
<1> QED
  BY <1>9, <1>10, <1>11 DEF IInv

(* What the loop over the nodes ends with; a missing parent is only reported for an incremental. *)
LEMMA RunBackupResult ==
  ASSUME NEW answers \in [1 .. Targets -> {a \in Answers : CanAnswer(a)}]
  PROVE  /\ runBackup(answers) \in Results \ {"none"}
         /\ runBackup(answers) = "ParentMissing" => job.kind = "Incremental"
<1> DEFINE ends == {i \in DOMAIN answers : ~TryAnotherNode(answers[i]) /\ answers[i] # "unreachable"}
           first == CHOOSE i \in ends : \A j \in ends : i <= j
<1>1. runBackup(answers) \in {"taken", "ParentMissing", "unclaimed", "failed"}
  BY DEF runBackup
<1>2. ASSUME runBackup(answers) = "ParentMissing"
      PROVE  job.kind = "Incremental"
  <2>1. ends # {} /\ answers[first] = "ParentMissing"
    BY <1>2 DEF runBackup
  <2>2. PICK k \in 1 .. Targets : answers[k] = "ParentMissing"
    <3>1. ends \subseteq 1 .. Targets
      OBVIOUS
    <3>2. \E i \in ends : \A j \in ends : i <= j
      <4>1. ends \in SUBSET Nat /\ ends # {}
        BY <2>1, <3>1, BackupAssumption
      <4> HIDE DEF ends
      <4>2. PICK i \in ends : \A j \in ends : ~(<<j, i>> \in OpToRel(<, Nat))
        BY <4>1, NatLessThanWellFounded, WFMin, Zenon
      <4>3. \A j \in ends : ~(j < i)
        BY <4>1, <4>2, Zenon DEF OpToRel
      <4> QED
        BY <4>1, <4>3
    <3> QED
      BY <2>1, <3>1, <3>2
  <2>3. CanAnswer("ParentMissing")
    BY <2>2
  <2> QED
    BY <2>3 DEF CanAnswer
<1> QED
  BY <1>1, <1>2 DEF Results

LEMMA reconcileBackupKeeps == IInv /\ reconcileBackup => IInv'
<1> SUFFICES ASSUME IInv, reconcileBackup PROVE IInv'
  OBVIOUS
<1> DEFINE done   == job.state = "done"
           read   == [pass.st EXCEPT !.present = TRUE]
           st     == IF done THEN applyBackupResult(read, job, now) ELSE read
           busy   == Busy(job)
           d      == decideBackup(st, now)
           starts == pass.spec.usable = "yes" /\ ~busy /\ MayStart(d)
           begun  == [state |-> "running", kind |-> d.kind, scheduled |-> d.scheduled,
                      parent |-> st.lastId, started |-> now, result |-> "none", id |-> 0]
<1>1. UNCHANGED <<now, spec, edits, status, cond, catalog, taken, faults, lost>> /\ pc' = "status"
  BY DEF reconcileBackup, stored, server
<1>2. pass' = [pass EXCEPT !.st = st, !.cond = Condition(st, busy), !.collected = done]
  BY DEF reconcileBackup
<1>3. /\ now \in Times /\ now \in Nat /\ faults \in Nat /\ strays \in Nat /\ pass \in Passes
      /\ job \in Jobs /\ pass.st \in Statuses
  BY BackupAssumption DEF IInv, TypeInv, TypeOK, Times, Passes
<1>4. strays' \in Nat
  BY <1>3 DEF reconcileBackup
<1>5. \/ starts /\ job' = begun
      \/ ~starts /\ job' = (IF done THEN NoJob ELSE job)
  BY DEF reconcileBackup
<1>6. Pending \in {0, 1} /\ Pending' = 0
  BY <1>5 DEF Pending, NoJob
<1>7. /\ read \in Statuses /\ Covered(read.lastFull) /\ Passed(read) /\ Bounded(read)
      /\ read.failures + Pending <= faults
  <2>1. /\ read \in Statuses /\ read.lastFull = pass.st.lastFull /\ read.lastInc = pass.st.lastInc
        /\ read.lastFailure = pass.st.lastFailure /\ read.lastUnclaimed = pass.st.lastUnclaimed
        /\ read.unclaimedSince = pass.st.unclaimedSince /\ read.failures = pass.st.failures
    BY <1>3, Zenon DEF Statuses
  <2> HIDE DEF read
  <2> QED
    BY <2>1 DEF IInv, StatusInv, Covered, Passed, Bounded
<1>8. /\ st \in Statuses /\ Covered(st.lastFull) /\ Passed(st) /\ Bounded(st) /\ st.failures <= faults
  <2>1. CASE done
    <3> HIDE DEF read
    <3> QED
      BY <1>7, <2>1, ApplyKeeps
  <2>2. CASE ~done
    <3>1. st = read
      BY <2>2
    <3>2. read.failures \in Nat
      BY <1>7, BackupAssumption DEF Statuses
    <3> HIDE DEF read
    <3> QED
      BY <1>3, <1>6, <1>7, <3>1, <3>2
  <2> QED
    BY <2>1, <2>2
<1>9. busy \in BOOLEAN /\ done \in BOOLEAN
  BY DEF Busy
<1> HIDE DEF st
<1>10. Condition(st, busy) \in Conditions /\ Reported(st, Condition(st, busy))
  BY <1>3, <1>8, <1>9, ConditionReports
<1>11. pass' \in Passes /\ pass'.st = st /\ pass'.cond = Condition(st, busy)
  <2> HIDE DEF done, busy
  <2> QED
    BY <1>2, <1>3, <1>8, <1>9, <1>10, Zenon DEF Passes
<1>12. StatusInv(pass.st, pass.cond)'
  <2>1. st.failures + Pending' <= faults'
    <3>1. st.failures \in Nat
      BY <1>8, BackupAssumption DEF Statuses
    <3>2. st.failures + 0 <= faults
      BY <1>3, <1>8, <3>1
    <3> QED
      BY <1>1, <1>6, <3>2
  <2> HIDE DEF busy
  <2> QED
    BY <1>1, <1>8, <1>10, <1>11, <2>1 DEF StatusInv, Covered, Passed, Bounded, Reported
<1>13. StatusInv(status, cond)'
  BY <1>1, <1>3, <1>6, StoredKept DEF stored
<1>14. job' \in Jobs /\ JobInv'
  <2>1. CASE starts /\ job' = begun
    <3>1. d.kind \in {"Full", "Incremental"} /\ d.scheduled \in Times /\ d.scheduled <= now
      BY <1>3, <1>8, <2>1, DueInThePast DEF MayStart
    <3>2. d.scheduled \in OptTimes /\ now \in OptTimes /\ st.lastId \in Nat
      BY <1>3, <1>8, <3>1 DEF OptTimes, Statuses
    <3> HIDE DEF d
    <3>3. job' \in Jobs
      BY <2>1, <3>1, <3>2 DEF Jobs, Results
    <3>4. now' = now /\ now <= now
      BY <1>1, <1>3
    <3>5. JobInv'
      BY <1>3, <2>1, <3>1, <3>4 DEF JobInv
    <3> QED
      BY <3>3, <3>5
  <2>2. CASE job' = NoJob
    BY <2>2, BackupAssumption DEF JobInv, NoJob, Jobs, OptTimes, Results
  <2>3. CASE job' = job
    BY <1>1, <1>3, <2>3, JobKept
  <2> QED
    BY <1>5, <2>1, <2>2, <2>3
<1>15. TypeInv'
  BY <1>1, <1>4, <1>11, <1>14 DEF IInv, TypeInv, TypeOK
<1> QED
  BY <1>12, <1>13, <1>14, <1>15 DEF IInv

LEMMA JobEndsKeeps == IInv /\ JobEnds => IInv'
<1> SUFFICES ASSUME IInv, JobEnds PROVE IInv'
  OBVIOUS
<1> DEFINE id == Cardinality(taken) + 1
<1>1. UNCHANGED <<now, spec, edits, status, cond, strays, pc, pass, lost>> /\ job.state = "running"
  BY DEF JobEnds, stored, passVars
<1>2. PICK answers \in [1 .. Targets -> {a \in Answers : CanAnswer(a)}] :
        /\ IF runBackup(answers) \in {"taken", "ParentMissing"} THEN UNCHANGED faults ELSE Fault("backup")
        /\ IF runBackup(answers) = "taken"
           THEN /\ job' = [job EXCEPT !.state = "done", !.result = runBackup(answers), !.id = id]
                /\ catalog' = catalog \cup {id}
                /\ \E kind \in {"Full", job.kind} :
                     taken' = taken \cup {[id |-> id, kind |-> kind, scheduled |-> job.scheduled,
                                           started |-> job.started]}
           ELSE job' = [job EXCEPT !.state = "done", !.result = runBackup(answers)] /\ UNCHANGED server
  BY Zenon DEF JobEnds
<1> DEFINE result == runBackup(answers)
<1>3. result \in Results \ {"none"} /\ (result = "ParentMissing" => job.kind = "Incremental")
  BY <1>2, RunBackupResult
<1> HIDE DEF result
<1>4. /\ now \in Nat /\ faults \in Nat /\ job \in Jobs /\ IsFiniteSet(taken) /\ catalog \subseteq Nat
      /\ faults \in 0 .. MaxFaults
  BY BackupAssumption DEF IInv, TypeInv, TypeOK, Times
<1>5. id \in Nat
  <2>1. Cardinality(taken) \in Nat
    BY <1>4, FS_CardinalityType
  <2> QED
    BY <2>1
<1> HIDE DEF id
<1>6. /\ job.kind \in {"Full", "Incremental"} /\ job.scheduled \in Times /\ job.started \in Times
      /\ job.scheduled <= job.started /\ job.started <= now
  BY <1>1, <1>4 DEF IInv, JobInv, Jobs
<1>7. /\ job' \in Jobs /\ job'.state = "done" /\ job'.result = result /\ job'.kind = job.kind
      /\ job'.scheduled = job.scheduled /\ job'.started = job.started
  BY <1>2, <1>3, <1>4, <1>5, Zenon DEF Jobs, result
<1>8. CASE result = "taken"
  <2>1. PICK kind \in {"Full", job.kind} :
          taken' = taken \cup {[id |-> id, kind |-> kind, scheduled |-> job.scheduled, started |-> job.started]}
    BY <1>2, <1>8 DEF result
  <2>2. faults' = faults /\ catalog' \subseteq Nat
    BY <1>2, <1>4, <1>5, <1>8 DEF result
  <2>3. IsFiniteSet(taken') /\ taken \subseteq taken'
    BY <1>4, <2>1, FS_AddElement, Zenon
  <2>4. taken' \subseteq [id : Nat, kind : {"Full", "Incremental"}, scheduled : Times, started : Times]
    <3>1. taken \subseteq [id : Nat, kind : {"Full", "Incremental"}, scheduled : Times, started : Times]
      BY DEF IInv, TypeInv, TypeOK
    <3>2. kind \in {"Full", "Incremental"}
      BY <1>6, <2>1
    <3> QED
      BY <1>5, <1>6, <2>1, <3>1, <3>2
  <2>5. Pending = 0 /\ Pending' = 0
    BY <1>1, <1>7, <1>8 DEF Pending
  <2>6. StatusInv(status, cond)' /\ StatusInv(pass.st, pass.cond)'
    BY <1>1, <1>4, <2>2, <2>3, <2>5, StoredKept, PassKept DEF stored
  <2>7. JobInv'
    <3>1. job.kind = "Full" => Covered(job.scheduled)'
      <4>1. SUFFICES ASSUME job.kind = "Full" PROVE Covered(job.scheduled)'
        OBVIOUS
      <4>2. [id |-> id, kind |-> "Full", scheduled |-> job.scheduled, started |-> job.started] \in taken'
        BY <2>1, <4>1
      <4>3. job'.scheduled = job.scheduled /\ job.started >= job.scheduled
        BY <1>6, <1>7 DEF Times
      <4> QED
        BY <4>2, <4>3 DEF Covered
    <3> QED
      BY <1>1, <1>3, <1>6, <1>7, <1>8, <3>1 DEF JobInv
  <2>8. TypeInv'
    BY <1>1, <1>7, <2>2, <2>3, <2>4 DEF IInv, TypeInv, TypeOK
  <2> QED
    BY <2>6, <2>7, <2>8 DEF IInv
<1>9. CASE result # "taken"
  <2>1. UNCHANGED <<catalog, taken>>
    BY <1>2, <1>9 DEF server, result
  <2>2. Pending = 0 /\ Pending' = IF result = "ParentMissing" THEN 0 ELSE 1
    BY <1>1, <1>3, <1>7, <1>9 DEF Pending, Results
  <2>3. faults' = IF result = "ParentMissing" THEN faults ELSE faults + 1
    BY <1>2, <1>9 DEF Fault, result
  <2>4. faults' \in Nat /\ faults' \in 0 .. MaxFaults
    BY <1>2, <1>4, <1>9, BackupAssumption DEF Fault, result
  <2>5. Pending' - Pending <= faults' - faults
    BY <1>4, <2>2, <2>3
  <2>6. StatusInv(status, cond)' /\ StatusInv(pass.st, pass.cond)'
    BY <1>1, <1>4, <2>1, <2>4, <2>5, StoredKept, PassKept DEF stored
  <2>7. JobInv'
    BY <1>1, <1>3, <1>6, <1>7, <1>9 DEF JobInv
  <2>8. TypeInv'
    BY <1>1, <1>7, <2>1, <2>4 DEF IInv, TypeInv, TypeOK
  <2> QED
    BY <2>6, <2>7, <2>8 DEF IInv
<1> QED
  BY <1>8, <1>9

-----------------------------------------------------------------------------
LEMMA InvNext == IInv /\ [Next]_vars => IInv'
<1> SUFFICES ASSUME IInv, [Next]_vars PROVE IInv'
  OBVIOUS
<1>1. CASE UNCHANGED vars
  <2>1. UNCHANGED <<now, spec, edits, status, cond, job, strays, catalog, taken, pc, pass, faults, lost>>
    BY <1>1 DEF vars, stored, runner, server, passVars
  <2>2. now \in Nat /\ faults \in Nat
    BY BackupAssumption DEF IInv, TypeInv, TypeOK, Times
  <2>3. Pending' = Pending /\ Pending \in {0, 1}
    BY <2>1 DEF Pending
  <2>4. StatusInv(status, cond)' /\ StatusInv(pass.st, pass.cond)'
    BY <2>1, <2>2, <2>3, StoredKept, PassKept DEF stored
  <2>5. JobInv'
    BY <2>1, <2>2, JobKept
  <2>6. TypeInv'
    BY <2>1 DEF IInv, TypeInv, TypeOK
  <2> QED
    BY <2>4, <2>5, <2>6 DEF IInv
<1>2. CASE Pass
  BY <1>2, BeginKeeps, forgetKeeps, reconcileBackupKeeps, SaveStatusKeeps DEF Pass
<1>3. CASE Abort \/ Restart
  BY <1>3, AbortKeeps
<1>4. CASE JobEnds
  BY <1>4, JobEndsKeeps
<1>5. CASE StrayEnds \/ Prune \/ Tick \/ EditSpec
  BY <1>5, WorldKeeps
<1> QED
  BY <1>1, <1>2, <1>3, <1>4, <1>5 DEF Next

LEMMA Inductive == Spec => []IInv
  BY InvInit, InvNext, PTL DEF Spec

(* Every variable of the scheduler keeps its type, and every stored time has passed, whatever
   the order of passes, results, edits, failures and restarts. *)
THEOREM TypeCorrect == Spec => []TypeOK
<1>1. IInv => TypeOK
  BY DEF IInv, TypeInv
<1> QED
  BY <1>1, Inductive, PTL

(* No time of the full schedule is skipped: the stored anchor always stands for a full backup
   that succeeded and started at that time or later (applyBackupResult, reconcileStatus), even
   when results are lost, the operator restarts or the spec is edited in between. *)
THEOREM AnchorCovered == Spec => []AnchorIsCovered
<1>1. IInv => AnchorIsCovered
  BY DEF IInv, StatusInv, Covered, AnchorIsCovered
<1> QED
  BY <1>1, Inductive, PTL

(* A series of attempts that no node takes is shorter than the bound after which it is counted
   as a failure, and it never overlaps with counted failures (applyBackupResult). *)
THEOREM UnclaimedBounded == Spec => []UnclaimedIsBounded
<1>1. IInv => UnclaimedIsBounded
  BY DEF IInv, StatusInv, Bounded, UnclaimedIsBounded
<1> QED
  BY <1>1, Inductive, PTL

(* The stored condition BackupFailing agrees with the stored count of failures, whichever
   return of reconcileBackup set it. *)
THEOREM FailuresReported == Spec => []FailuresAreReported
<1>1. IInv => FailuresAreReported
  BY DEF IInv, StatusInv, Reported, FailuresAreReported
<1> QED
  BY <1>1, Inductive, PTL

-----------------------------------------------------------------------------
(* No backup escapes the runner while spec.backup stays. *)
NoStray == strays = 0 /\ spec.present /\ (pc = "backup" => pass.spec.present)

(* Two backups never run at once as long as nobody removes spec.backup: the runner starts one
   only when it has none (backupRunner, reconcileBackup).  Without the assumption it fails:
   forget drops a job whose backup still runs. *)
THEOREM OneBackup ==
  ASSUME \A s \in Specs : s.present
  PROVE  Spec => []OneBackupAtATime
<1>1. Init => NoStray
  BY DEF Init, NoStray
<1>2. NoStray /\ [Next]_vars => NoStray'
  <2> SUFFICES ASSUME NoStray, [Next]_vars PROVE NoStray'
    OBVIOUS
  <2>1. CASE UNCHANGED vars
    BY <2>1 DEF NoStray, vars, runner, passVars
  <2>2. CASE Begin
    BY <2>2 DEF NoStray, Begin, runner
  <2>3. CASE forget
    BY <2>3 DEF NoStray, forget
  <2>4. CASE reconcileBackup
    <3>1. strays' = 0
      BY <2>4 DEF NoStray, reconcileBackup, Busy
    <3> QED
      BY <2>4, <3>1 DEF NoStray, reconcileBackup
  <2>5. CASE SaveStatus
    BY <2>5 DEF NoStray, SaveStatus, runner
  <2>6. CASE Abort \/ Restart
    BY <2>6 DEF NoStray, Abort, Restart, runner
  <2>7. CASE JobEnds
    BY <2>7 DEF NoStray, JobEnds, passVars
  <2>8. CASE StrayEnds
    BY <2>8 DEF NoStray, StrayEnds
  <2>9. CASE Prune \/ Tick
    BY <2>9 DEF NoStray, Prune, Tick, runner, passVars
  <2>10. CASE EditSpec
    BY <2>10 DEF NoStray, EditSpec, runner, passVars
  <2> QED
    BY <2>1, <2>2, <2>3, <2>4, <2>5, <2>6, <2>7, <2>8, <2>9, <2>10 DEF Next, Pass
<1>3. NoStray => OneBackupAtATime
  BY DEF NoStray, OneBackupAtATime
<1> QED
  BY <1>1, <1>2, <1>3, PTL DEF Spec
-----------------------------------------------------------------------------
(* The walk over a schedule. *)

(* The times of a schedule after base and up to t. *)
DueTimes(times, base, t) == {u \in times : base < u /\ u <= t}

(* How many members of S lie before u. *)
Rank(S, u) == Cardinality({v \in S : v < u})

(* A walk over a schedule from base up to t ends at s: no later time has passed, unless
   MaxMissed times lie between base and s. *)
WalksTo(times, base, s, t) ==
  (\E u \in times : s < u /\ u <= t) => Cardinality({v \in times : base < v /\ v < s}) >= MaxMissed

LEMMA SmallestMember ==
  ASSUME NEW S \in SUBSET Nat, S # {}
  PROVE  \E m \in S : \A u \in S : m <= u
<1>1. PICK m \in S : \A u \in S : ~(<<u, m>> \in OpToRel(<, Nat))
  BY NatLessThanWellFounded, WFMin, Zenon
<1>2. \A u \in S : ~(u < m)
  BY <1>1, Zenon DEF OpToRel
<1> QED
  BY <1>2

LEMMA LargestMember ==
  ASSUME NEW S \in SUBSET Nat, S # {}, NEW t \in Nat, \A u \in S : u <= t
  PROVE  \E m \in S : \A u \in S : u <= m
<1> DEFINE gaps == {n \in Nat : t - n \in S}
<1>1. gaps # {}
  <2>1. PICK u \in S : TRUE
    BY Zenon
  <2>2. u \in Nat /\ u <= t
    OBVIOUS
  <2>3. t - u \in Nat /\ t - (t - u) = u
    BY <2>2
  <2> QED
    BY <2>1, <2>3, Zenon
<1>2. PICK g \in gaps : \A n \in gaps : g <= n
  <2> HIDE DEF gaps
  <2>1. gaps \in SUBSET Nat
    BY DEF gaps
  <2> QED
    BY <1>1, <2>1, SmallestMember
<1>3. g \in Nat /\ t - g \in S
  OBVIOUS
<1>4. ASSUME NEW u \in S PROVE u <= t - g
  <2>1. u \in Nat /\ u <= t
    OBVIOUS
  <2>2. t - u \in Nat /\ t - (t - u) = u
    BY <2>1
  <2>3. g <= t - u
    BY <1>2, <2>2
  <2> QED
    BY <1>3, <2>1, <2>3
<1> QED
  BY <1>3, <1>4

(* The largest member has all others before it, and no other member has as many. *)
LEMMA RankOfLargest ==
  ASSUME NEW S \in SUBSET Nat, IsFiniteSet(S), NEW m \in S, \A u \in S : u <= m
  PROVE  /\ Rank(S, m) = Cardinality(S) - 1
         /\ \A u \in S : Rank(S, u) = Cardinality(S) - 1 => u = m
<1>1. {v \in S : v < m} = S \ {m}
  <2>1. \A v \in S : v < m <=> v # m
    OBVIOUS
  <2> QED
    BY <2>1, Zenon
<1>2. /\ IsFiniteSet(S \ {m}) /\ Cardinality(S \ {m}) = Cardinality(S) - 1
      /\ Cardinality(S) \in Nat
  BY FS_RemoveElement, FS_CardinalityType
<1>3. ASSUME NEW u \in S, u # m, Rank(S, u) = Cardinality(S) - 1
      PROVE  FALSE
  <2>1. {v \in S : v < u} \in SUBSET (S \ {m})
    BY <1>3
  <2>2. {v \in S : v < u} = S \ {m}
    BY <1>2, <1>3, <2>1, FS_Subset DEF Rank
  <2>3. u \in S \ {m}
    BY <1>3
  <2> QED
    BY <1>3, <2>2, <2>3
<1> QED
  BY <1>1, <1>2, <1>3 DEF Rank

(* Every rank below the size of the set is the rank of a member. *)
LEMMA RankReached ==
  ASSUME NEW S \in SUBSET Nat, NEW t \in Nat, \A u \in S : u <= t,
         NEW k \in Nat, k < Cardinality(S)
  PROVE  \E u \in S : Rank(S, u) = k
<1>1. IsFiniteSet(S) /\ Cardinality(S) \in Nat
  BY FS_BoundedSetOfNaturals, FS_CardinalityType
<1>2. S # {}
  BY <1>1, FS_EmptySet
<1>3. PICK m \in S : \A u \in S : u <= m
  BY <1>2, LargestMember, Zenon
<1>4. Rank(S, m) >= k /\ Rank(S, m) \in Nat
  <2>1. Rank(S, m) = Cardinality(S) - 1
    BY <1>1, <1>3, RankOfLargest
  <2> QED
    BY <1>1, <2>1
<1>5. \A u \in S : Rank(S, u) \in Nat
  <2>1. ASSUME NEW u \in S PROVE Rank(S, u) \in Nat
    <3>1. {v \in S : v < u} \in SUBSET S
      OBVIOUS
    <3> QED
      BY <1>1, <3>1, FS_Subset, FS_CardinalityType DEF Rank
  <2> QED
    BY <2>1
<1> DEFINE high == {u \in S : Rank(S, u) >= k}
<1>6. PICK p \in high : \A u \in high : p <= u
  <2>1. high \in SUBSET Nat /\ high # {}
    BY <1>3, <1>4, Zenon
  <2> HIDE DEF high
  <2> QED
    BY <2>1, SmallestMember
<1>7. SUFFICES ASSUME Rank(S, p) # k PROVE FALSE
  BY <1>6
<1> DEFINE below == {v \in S : v < p}
<1>8. Cardinality(below) > k /\ Cardinality(below) \in Nat
  BY <1>5, <1>6, <1>7 DEF Rank
<1>9. below \in SUBSET Nat /\ below \in SUBSET S /\ \A u \in below : u <= t
  BY Zenon
<1>10. IsFiniteSet(below)
  BY <1>1, <1>9, FS_Subset
<1>11. below # {}
  BY <1>8, <1>10, FS_EmptySet
<1>12. PICK q \in below : \A u \in below : u <= q
  <2> HIDE DEF below
  <2> QED
    BY <1>9, <1>11, LargestMember, Zenon
<1>13. Rank(below, q) = Cardinality(below) - 1
  <2> HIDE DEF below
  <2> QED
    BY <1>9, <1>10, <1>12, RankOfLargest
<1>14. {v \in S : v < q} = {v \in below : v < q} /\ q \in S /\ q < p
  <2>1. q \in S /\ q < p /\ q \in Nat /\ p \in Nat
    BY <1>6, <1>12
  <2>2. \A v \in S : v < q => v < p
    BY <2>1
  <2> QED
    BY <2>1, <2>2, Zenon
<1>15. Rank(S, q) >= k
  BY <1>8, <1>13, <1>14 DEF Rank
<1>16. q \in high
  BY <1>14, <1>15
<1>17. p <= q /\ p \in Nat /\ q \in Nat
  BY <1>6, <1>14, <1>16
<1> QED
  BY <1>14, <1>17

(* The walk over the schedule ends at a time that is due, and at none only when none is
   (latestDue), whatever bound MaxMissed puts on the walk. *)
LEMMA LatestDueFindsOne ==
  ASSUME NEW times \in SUBSET Nat, NEW base \in Int, NEW t \in Times
  PROVE  LET due == DueTimes(times, base, t)
         IN  IF due = {} THEN latestDue(times, base, t) = NoTime
                         ELSE latestDue(times, base, t) \in due
<1> DEFINE due     == {u \in times : base < u /\ u <= t}
           steps   == IF Cardinality(due) > MaxMissed THEN MaxMissed ELSE Cardinality(due) - 1
           reached == {u \in due : Cardinality({v \in due : v < u}) = steps}
<1>1. latestDue(times, base, t) = IF reached = {} THEN NoTime ELSE CHOOSE u \in reached : TRUE
  BY DEF latestDue
<1>2. due \in SUBSET Nat /\ t \in Nat /\ \A u \in due : u <= t
  <2>1. t \in Nat
    BY BackupAssumption DEF Times
  <2>2. due \in SUBSET Nat
    BY Zenon
  <2>3. \A u \in due : u <= t
    OBVIOUS
  <2> QED
    BY <2>1, <2>2, <2>3
<1>3. DueTimes(times, base, t) = due
  BY DEF DueTimes
<1> HIDE DEF due
<1>4. ASSUME due # {} PROVE reached # {}
  <2>1. IsFiniteSet(due) /\ Cardinality(due) \in Nat /\ Cardinality(due) # 0
    BY <1>2, <1>4, FS_BoundedSetOfNaturals, FS_CardinalityType, FS_EmptySet
  <2>2. steps \in Nat /\ steps < Cardinality(due)
    BY <2>1, BackupAssumption
  <2> HIDE DEF steps
  <2>3. \E u \in due : Rank(due, u) = steps
    BY <1>2, <2>2, RankReached, Zenon
  <2> QED
    BY <2>3 DEF Rank
<1>5. reached \subseteq due
  OBVIOUS
<1> HIDE DEF reached
<1> QED
  BY <1>1, <1>3, <1>4, <1>5

(* The walk stops short of the latest time that is due only when it has taken MaxMissed steps,
   past as many missed times. *)
LEMMA LatestDueWalks ==
  ASSUME NEW times \in SUBSET Nat, NEW base \in Int, NEW t \in Times,
         DueTimes(times, base, t) # {}
  PROVE  WalksTo(times, base, latestDue(times, base, t), t)
<1> DEFINE due     == {u \in times : base < u /\ u <= t}
           steps   == IF Cardinality(due) > MaxMissed THEN MaxMissed ELSE Cardinality(due) - 1
           reached == {u \in due : Cardinality({v \in due : v < u}) = steps}
           found   == latestDue(times, base, t)
<1>1. latestDue(times, base, t) = IF reached = {} THEN NoTime ELSE CHOOSE u \in reached : TRUE
  BY DEF latestDue
<1>2. due \in SUBSET Nat /\ t \in Nat /\ \A u \in due : u <= t
  <2>1. t \in Nat
    BY BackupAssumption DEF Times
  <2>2. due \in SUBSET Nat
    BY Zenon
  <2>3. \A u \in due : u <= t
    OBVIOUS
  <2> QED
    BY <2>1, <2>2, <2>3
<1>3. found \in due /\ Rank(due, found) = steps
  <2>1. found \in due
    BY LatestDueFindsOne DEF DueTimes
  <2>2. found # NoTime
    BY <1>2, <2>1 DEF NoTime
  <2>3. reached # {}
    BY <1>1, <2>2
  <2>4. found \in reached
    <3> HIDE DEF reached
    <3> QED
      BY <1>1, <2>3
  <2> QED
    BY <2>1, <2>4 DEF Rank
<1>4. \A u \in times : found < u /\ u <= t => u \in due
  <2>1. found \in Nat /\ base < found
    BY <1>2, <1>3
  <2> HIDE DEF found
  <2> QED
    BY <2>1
<1>5. {v \in due : v < found} = {v \in times : base < v /\ v < found}
  <2>1. \A v \in times : v < found => v <= t
    BY <1>2, <1>3
  <2> HIDE DEF found
  <2> QED
    BY <2>1, Zenon
<1> HIDE DEF due, found
<1>7. IsFiniteSet(due) /\ Cardinality(due) \in Nat
  BY <1>2, FS_BoundedSetOfNaturals, FS_CardinalityType
<1>8. CASE Cardinality(due) > MaxMissed
  <2>1. Cardinality({v \in times : base < v /\ v < found}) = MaxMissed
    BY <1>3, <1>5, <1>8 DEF Rank
  <2> QED
    BY <2>1, BackupAssumption DEF WalksTo, found
<1>9. CASE ~(Cardinality(due) > MaxMissed)
  <2>1. Rank(due, found) = Cardinality(due) - 1
    BY <1>3, <1>9
  <2>2. PICK m \in due : \A u \in due : u <= m
    BY <1>2, <1>3, LargestMember, Zenon
  <2>3. found = m
    BY <1>2, <1>3, <1>7, <2>1, <2>2, RankOfLargest
  <2>4. \A u \in times : ~(found < u /\ u <= t)
    BY <1>2, <1>4, <2>2, <2>3
  <2> QED
    BY <2>4 DEF WalksTo, found
<1> QED
  BY <1>8, <1>9
=============================================================================
