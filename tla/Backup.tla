------------------------------- MODULE Backup -------------------------------
(***************************************************************************)
(* The scheduled backups of one cluster: backup.go, with the part of the   *)
(* reconcile pass that reads and saves status.backup.                      *)
(*                                                                         *)
(* A pass reads the cluster, calls reconcileBackup and saves the status.   *)
(* The backup itself runs in a goroutine beside the passes; the runner     *)
(* keeps it in memory only.  Time is a clock in ticks, a cron schedule the *)
(* set of its times, an id the number of the backup.  Requeue delays and   *)
(* message texts are left out.                                             *)
(***************************************************************************)
EXTENDS Integers, FiniteSets

CONSTANTS
  FullTimes, IncTimes,   \* spec.backup.schedule and spec.backup.incrementalSchedule
  RetryInitial, RetryMax, UnclaimedRetry, UnclaimedFailAfter, MaxMissed,
  Targets,     \* how many nodes a backup is sent to in turn
  Specs,       \* what spec.backup may be edited to
  Sites,       \* what a pass may read of the pods, the roster and the backup claim
  MaxTime,     \* the clock stops here
  MaxEdits,    \* how often the user edits the KahunaCluster
  Faults,      \* which kinds of failure may happen
  MaxFaults,   \* how many failures happen at most
  FaultsUntil  \* the last tick at which one may happen

NoTime == -1

Times == 0 .. MaxTime

OptTimes == Times \cup {NoTime}

PodStates == {"absent", "notReady", "oldConfig", "oldImage", "current"}

FaultKinds == {"abort", "restart", "backup", "prune"}

(* spec.backup, present or not; usable says whether the schedules parse and the image can
   take a backup of every partition. *)
AllSpecs ==
  [present : BOOLEAN, suspended : BOOLEAN, usable : {"yes", "InvalidSchedule", "UnsupportedImage"}]

AllSites ==
  [bootstrapped : BOOLEAN, rosterMatches : BOOLEAN, bound : BOOLEAN, pods : [0 .. Targets - 1 -> PodStates]]

ASSUME BackupAssumption ==
  /\ MaxTime \in Nat /\ MaxEdits \in Nat /\ MaxFaults \in Nat /\ FaultsUntil \in Nat
  /\ RetryInitial \in Nat \ {0} /\ RetryMax \in Nat \ {0}
  /\ UnclaimedRetry \in Nat \ {0} /\ UnclaimedFailAfter \in Nat \ {0} /\ MaxMissed \in Nat
  /\ FullTimes \subseteq Nat /\ IncTimes \subseteq Nat
  /\ Targets \in Nat \ {0}
  /\ Specs \subseteq AllSpecs /\ Specs # {}
  /\ Sites \subseteq AllSites /\ Sites # {}
  /\ Faults \subseteq FaultKinds

VARIABLES
  now,      \* the operator's clock
  spec,     \* spec.backup
  edits,    \* how often the KahunaCluster was edited
  status,   \* status.backup as stored
  cond,     \* the BackupFailing condition as stored
  job,      \* the runner's job of this cluster
  strays,   \* backups that run without being the runner's job
  catalog,  \* the ids of the backups on the shared volume
  pc, pass, \* the next step of the pass, and what it has read and decided
  faults,   \* how many failures have happened
  taken,    \* history: the backups that succeeded
  lost      \* history: the result of a finished backup was not saved

passVars == <<pc, pass>>
stored == <<status, cond>>
runner == <<job, strays>>
server == <<catalog, taken>>
vars == <<now, spec, edits, stored, runner, server, passVars, faults, lost>>

(* status.backup; present is FALSE for the code's nil.  lastId 0 is the empty string. *)
Statuses ==
  [present : BOOLEAN, lastFull : OptTimes, lastInc : OptTimes, lastId : Nat,
   failures : 0 .. MaxFaults, lastFailure : OptTimes,
   unclaimedSince : OptTimes, lastUnclaimed : OptTimes]

NoStatus ==
  [present |-> FALSE, lastFull |-> NoTime, lastInc |-> NoTime, lastId |-> 0, failures |-> 0,
   lastFailure |-> NoTime, unclaimedSince |-> NoTime, lastUnclaimed |-> NoTime]

Reasons ==
  {"none", "InvalidSchedule", "UnsupportedImage", "BackupRunning", "BackupWaiting",
   "BackupScheduled", "BackupSuspended", "BackupFailed"}

Conditions == [failing : BOOLEAN, reason : Reasons]

NoCondition == [failing |-> FALSE, reason |-> "none"]

Results == {"none", "taken", "ParentMissing", "unclaimed", "failed"}

(* A job of the runner; started is history, id the backup it produced. *)
Jobs ==
  [state : {"none", "running", "done"}, kind : {"None", "Full", "Incremental"},
   scheduled : OptTimes, parent : Nat, started : OptTimes, result : Results, id : Nat]

NoJob ==
  [state |-> "none", kind |-> "None", scheduled |-> NoTime, parent |-> 0,
   started |-> NoTime, result |-> "none", id |-> 0]

Passes ==
  [edits : 0 .. MaxEdits, spec : AllSpecs, steady : BOOLEAN, st : Statuses, cond : Conditions,
   collected : BOOLEAN]

(* Every variable holds a value of its kind; in particular every stored time has passed. *)
TypeOK ==
  /\ now \in Times /\ spec \in Specs /\ edits \in 0 .. MaxEdits
  /\ status \in Statuses /\ cond \in Conditions
  /\ job \in Jobs /\ strays \in Nat
  /\ catalog \subseteq Nat
  /\ pc \in {"idle", "backup", "status"} /\ pass \in Passes
  /\ faults \in 0 .. MaxFaults
  /\ taken \subseteq [id : Nat, kind : {"Full", "Incremental"}, scheduled : Times, started : Times]
  /\ lost \in BOOLEAN
  /\ \A t \in {status.lastFull, status.lastInc, status.lastFailure, status.lastUnclaimed} : t <= now

NoPass ==
  [edits |-> 0, spec |-> [present |-> FALSE, suspended |-> FALSE, usable |-> "yes"],
   steady |-> FALSE, st |-> NoStatus, cond |-> NoCondition, collected |-> FALSE]

Init ==
  /\ now = 0 /\ spec \in Specs /\ edits = 0
  /\ status = NoStatus /\ cond = NoCondition
  /\ job = NoJob /\ strays = 0
  /\ catalog = {} /\ taken = {}
  /\ pc = "idle" /\ pass = NoPass
  /\ faults = 0 /\ lost = FALSE

Fault(kind) ==
  /\ kind \in Faults /\ faults < MaxFaults /\ now <= FaultsUntil
  /\ faults' = faults + 1
-----------------------------------------------------------------------------
(* The scheduler. *)

latestDueFirst(times, base, t) ==
  LET due   == {u \in times : base < u /\ u <= t}
      first == {u \in due : \A v \in due : u <= v}
  IN  IF first = {} THEN NoTime ELSE CHOOSE u \in first : TRUE

(* Walk the schedule from base to its latest time that is not in the future, in MaxMissed
   steps at most. *)
latestDue(times, base, t) ==
  LET due     == {u \in times : base < u /\ u <= t}
      steps   == IF Cardinality(due) > MaxMissed THEN MaxMissed ELSE Cardinality(due) - 1
      reached == {u \in due : Cardinality({v \in due : v < u}) = steps}
  IN  IF reached = {} THEN NoTime ELSE CHOOSE u \in reached : TRUE

(* Doubles from RetryInitial with every consecutive failure, up to RetryMax. *)
backupRetryDelay(failures) ==
  LET d[n \in 0 .. failures] ==
        IF n <= 1 THEN RetryInitial ELSE IF d[n - 1] < RetryMax THEN 2 * d[n - 1] ELSE d[n - 1]
  IN  IF d[failures] < RetryMax THEN d[failures] ELSE RetryMax

NothingDue == [kind |-> "None", scheduled |-> NoTime]

(* The backup whose time has come, a full one first. *)
Due(st, t) ==
  LET full == latestDue(FullTimes, st.lastFull, t)
      base == IF st.lastInc > st.lastFull THEN st.lastInc ELSE st.lastFull
      inc  == latestDue(IncTimes, base, t)
  IN  CASE st.lastFull = NoTime -> [kind |-> "Full", scheduled |-> t]
        [] st.lastFull # NoTime /\ full # NoTime -> [kind |-> "Full", scheduled |-> full]
        [] st.lastFull # NoTime /\ full = NoTime /\ inc # NoTime /\ st.lastId # 0 ->
             [kind |-> "Incremental", scheduled |-> inc]
        [] OTHER -> NothingDue

retryAtUnclaimedOnly(st) ==
  IF st.lastUnclaimed # NoTime THEN st.lastUnclaimed + UnclaimedRetry ELSE NoTime

(* Until when a due backup is held after a failure or an attempt no node took. *)
retryAt(st) ==
  CASE st.failures > 0 /\ st.lastFailure # NoTime -> st.lastFailure + backupRetryDelay(st.failures)
    [] ~(st.failures > 0 /\ st.lastFailure # NoTime) /\ st.lastUnclaimed # NoTime ->
         st.lastUnclaimed + UnclaimedRetry
    [] OTHER -> NoTime

Held(st, t) == Due(st, t).kind # "None" /\ retryAt(st) > t

decideBackup(st, t) == IF Held(st, t) THEN NothingDue ELSE Due(st, t)

(* Why a backup must not start: bootstrap, the roster, or a pod that is missing, not ready or
   not on the current configuration and image. *)
backupBlocked(s) == ~s.bootstrapped \/ ~s.rosterMatches \/ \E o \in DOMAIN s.pods : s.pods[o] # "current"
-----------------------------------------------------------------------------
(* One backup, sent to each node in turn. *)

Answers ==
  {"taken", "timeout", "ParentMissing", "refused", "NotBackupCoordinator", "NotConfigured", "unreachable"}

TryAnotherNode(a) == a \in {"NotBackupCoordinator", "NotConfigured"}

ClearsOnRetry(a) == a = "NotBackupCoordinator"

(* The first answer that ends the loop, or what the refusals amount to. *)
runBackup(answers) ==
  LET ends == {i \in DOMAIN answers : ~TryAnotherNode(answers[i]) /\ answers[i] # "unreachable"}
      last == answers[CHOOSE i \in ends : \A j \in ends : i <= j]
  IN  IF ends # {}
      THEN IF last \in {"taken", "ParentMissing"} THEN last ELSE "failed"
      ELSE IF \A i \in DOMAIN answers : ClearsOnRetry(answers[i]) THEN "unclaimed" ELSE "failed"

(* A counted failure: the backup stays due. *)
applyFailure(st, j, t) ==
  [st EXCEPT !.failures = @ + 1, !.lastFailure = t, !.unclaimedSince = NoTime, !.lastUnclaimed = NoTime]

applySuccessAtEnd(st, j, t) ==
  [st EXCEPT !.lastId = j.id, !.failures = 0, !.lastFailure = NoTime,
             !.unclaimedSince = NoTime, !.lastUnclaimed = NoTime,
             !.lastFull = IF j.kind = "Full" THEN t ELSE @, !.lastInc = t]

applySuccessPastSchedule(st, j, t) ==
  [st EXCEPT !.lastId = j.id, !.failures = 0, !.lastFailure = NoTime,
             !.unclaimedSince = NoTime, !.lastUnclaimed = NoTime,
             !.lastFull = IF j.kind = "Full" THEN j.scheduled + 1 ELSE @,
             !.lastInc = IF j.kind = "Full" THEN t ELSE j.scheduled]

applySuccessFullOnly(st, j, t) ==
  [st EXCEPT !.lastId = j.id, !.failures = 0, !.lastFailure = NoTime,
             !.unclaimedSince = NoTime, !.lastUnclaimed = NoTime,
             !.lastFull = IF j.kind = "Full" THEN j.scheduled ELSE @]

(* The anchor moves to the time the backup was scheduled for; a full backup restarts the
   incremental schedule from its end. *)
applySuccess(st, j, t) ==
  [st EXCEPT !.lastId = j.id, !.failures = 0, !.lastFailure = NoTime,
             !.unclaimedSince = NoTime, !.lastUnclaimed = NoTime,
             !.lastFull = IF j.kind = "Full" THEN j.scheduled ELSE @,
             !.lastInc = IF j.kind = "Full" THEN t ELSE j.scheduled]

applyBackupResultUnbounded(st, j, t) ==
  LET since == IF st.unclaimedSince = NoTime THEN t ELSE st.unclaimedSince
  IN  CASE j.result = "taken" -> applySuccess(st, j, t)
        [] j.result = "unclaimed" /\ st.failures = 0 ->
             [st EXCEPT !.unclaimedSince = since, !.lastUnclaimed = t]
        [] j.result = "ParentMissing" ->
             [st EXCEPT !.lastId = 0, !.lastFull = NoTime, !.unclaimedSince = NoTime, !.lastUnclaimed = NoTime]
        [] OTHER -> applyFailure(st, j, t)

applyBackupResultKeepsAnchor(st, j, t) ==
  IF j.result = "ParentMissing"
  THEN [st EXCEPT !.lastId = 0, !.unclaimedSince = NoTime, !.lastUnclaimed = NoTime]
  ELSE applyBackupResultUnbounded(st, j, t)

(* What a finished backup does to the status. *)
applyBackupResult(st, j, t) ==
  LET since == IF st.unclaimedSince = NoTime THEN t ELSE st.unclaimedSince
      waits == j.result = "unclaimed" /\ st.failures = 0 /\ t - since < UnclaimedFailAfter
  IN  CASE j.result = "taken" -> applySuccess(st, j, t)
        [] waits -> [st EXCEPT !.unclaimedSince = since, !.lastUnclaimed = t]
        [] j.kind = "Incremental" /\ j.result = "ParentMissing" ->
             [st EXCEPT !.lastId = 0, !.lastFull = NoTime, !.unclaimedSince = NoTime, !.lastUnclaimed = NoTime]
        [] OTHER -> applyFailure(st, j, t)
-----------------------------------------------------------------------------
(* The pass. *)

(* Reconcile up to reconcileBackup: the cluster, the pods, the roster and the claim are read. *)
Begin ==
  /\ pc = "idle"
  /\ \E s \in Sites :
       pass' = [edits |-> edits, spec |-> spec, steady |-> ~backupBlocked(s) /\ s.bound,
                st |-> status, cond |-> cond, collected |-> FALSE]
  /\ pc' = "backup"
  /\ UNCHANGED <<now, spec, edits, stored, runner, server, faults, lost>>

(* reconcileBackup without spec.backup: the status and the job are dropped, a backup still
   running goes on. *)
forget ==
  /\ pc = "backup" /\ ~pass.spec.present
  /\ pass' = [pass EXCEPT !.st = NoStatus, !.cond = NoCondition]
  /\ strays' = IF job.state = "running" THEN strays + 1 ELSE strays
  /\ job' = NoJob
  /\ pc' = "status"
  /\ UNCHANGED <<now, spec, edits, stored, server, faults, lost>>

BusyNever(j) == FALSE

(* The runner has a job that has not ended. *)
Busy(j) == j.state = "running"

(* Nothing stands in the way of the backup that is due. *)
MayStart(d) ==
  d.kind # "None" /\ ~pass.spec.suspended /\ pass.steady

ConditionIgnoresFailures(st, busy) ==
  LET d    == decideBackup(st, now)
  IN  CASE pass.spec.usable # "yes" -> [failing |-> TRUE, reason |-> pass.spec.usable]
        [] OTHER -> [failing |-> FALSE, reason |-> IF busy THEN "BackupRunning" ELSE
                       IF d.kind = "None" THEN "BackupScheduled" ELSE "BackupWaiting"]

(* The BackupFailing condition, one case per return of reconcileBackup. *)
Condition(st, busy) ==
  LET d       == decideBackup(st, now)
      failing == st.failures > 0
      says(r) == [failing |-> failing, reason |-> IF failing THEN "BackupFailed" ELSE r]
  IN  IF pass.spec.usable # "yes" THEN [failing |-> TRUE, reason |-> pass.spec.usable]
      ELSE CASE busy -> says("BackupRunning")
             [] ~busy /\ Held(st, now) /\ ~failing /\ st.unclaimedSince # NoTime ->
                  [failing |-> FALSE, reason |-> "BackupWaiting"]
             [] ~busy /\ d.kind = "None" /\ ~(Held(st, now) /\ ~failing /\ st.unclaimedSince # NoTime) ->
                  says("BackupScheduled")
             [] ~busy /\ d.kind # "None" /\ pass.spec.suspended -> says("BackupSuspended")
             [] ~busy /\ d.kind # "None" /\ ~pass.spec.suspended /\ ~MayStart(d) -> says("BackupWaiting")
             [] OTHER -> says("BackupRunning")

(* reconcileBackup: poll the runner, apply a finished result, and start what is due. *)
reconcileBackup ==
  LET done   == job.state = "done"
      read   == [pass.st EXCEPT !.present = TRUE]
      st     == IF done THEN applyBackupResult(read, job, now) ELSE read
      busy   == Busy(job)
      d      == decideBackup(st, now)
      starts == pass.spec.usable = "yes" /\ ~busy /\ MayStart(d)
  IN  /\ pc = "backup" /\ pass.spec.present
      /\ pass' = [pass EXCEPT !.st = st, !.cond = Condition(st, busy), !.collected = done]
      /\ IF starts
         THEN /\ job' = [state |-> "running", kind |-> d.kind, scheduled |-> d.scheduled,
                         parent |-> st.lastId, started |-> now, result |-> "none", id |-> 0]
              /\ strays' = IF job.state = "running" THEN strays + 1 ELSE strays
         ELSE job' = (IF done THEN NoJob ELSE job) /\ UNCHANGED strays
      /\ pc' = "status"
      /\ UNCHANGED <<now, spec, edits, stored, server, faults, lost>>

(* reconcileStatus: the update is rejected when the KahunaCluster was edited meanwhile. *)
SaveStatus ==
  /\ pc = "status"
  /\ IF pass.edits = edits
     THEN status' = pass.st /\ cond' = pass.cond /\ UNCHANGED lost
     ELSE lost' = (lost \/ pass.collected) /\ UNCHANGED stored
  /\ pc' = "idle" /\ pass' = NoPass
  /\ UNCHANGED <<now, spec, edits, runner, server, faults>>

(* Another step of Reconcile fails and the pass ends. *)
Abort ==
  /\ pc # "idle" /\ Fault("abort")
  /\ lost' = (lost \/ pass.collected)
  /\ pc' = "idle" /\ pass' = NoPass
  /\ UNCHANGED <<now, spec, edits, stored, runner, server>>

(* The operator restarts: its memory is gone and the server cancels what it was sent. *)
Restart ==
  /\ Fault("restart")
  /\ lost' = (lost \/ pass.collected \/ job.state = "done")
  /\ job' = NoJob /\ strays' = 0
  /\ pc' = "idle" /\ pass' = NoPass
  /\ UNCHANGED <<now, spec, edits, stored, server>>
-----------------------------------------------------------------------------
(* The goroutine of the runner's job, and the server. *)

(* What a node can answer: it has to find the parent of an incremental, and may take a full
   backup in its place. *)
CanAnswer(a) ==
  LET orphan == job.kind = "Incremental" /\ job.parent \notin catalog
  IN  (a = "taken" => ~orphan) /\ (a = "ParentMissing" => orphan)

JobEnds ==
  /\ job.state = "running"
  /\ \E answers \in [1 .. Targets -> {a \in Answers : CanAnswer(a)}] :
       LET result == runBackup(answers)
           id     == Cardinality(taken) + 1
       IN  /\ IF result \in {"taken", "ParentMissing"} THEN UNCHANGED faults ELSE Fault("backup")
           /\ IF result = "taken"
              THEN /\ job' = [job EXCEPT !.state = "done", !.result = result, !.id = id]
                   /\ catalog' = catalog \cup {id}
                   /\ \E kind \in {"Full", job.kind} :
                        taken' = taken \cup {[id |-> id, kind |-> kind, scheduled |-> job.scheduled,
                                              started |-> job.started]}
              ELSE job' = [job EXCEPT !.state = "done", !.result = result] /\ UNCHANGED server
  /\ UNCHANGED <<now, spec, edits, stored, strays, passVars, lost>>

StrayEnds ==
  /\ strays > 0 /\ strays' = strays - 1
  /\ UNCHANGED <<now, spec, edits, stored, job, server, passVars, faults, lost>>

(* Someone deletes a backup from the shared volume. *)
Prune ==
  /\ Fault("prune")
  /\ \E id \in catalog : catalog' = catalog \ {id}
  /\ UNCHANGED <<now, spec, edits, stored, runner, taken, passVars, lost>>

Tick ==
  /\ now < MaxTime /\ now' = now + 1
  /\ UNCHANGED <<spec, edits, stored, runner, server, passVars, faults, lost>>

EditSpec ==
  /\ edits < MaxEdits /\ edits' = edits + 1
  /\ spec' \in Specs
  /\ UNCHANGED <<now, stored, runner, server, passVars, faults, lost>>
-----------------------------------------------------------------------------
Pass == Begin \/ forget \/ reconcileBackup \/ SaveStatus

Next == Pass \/ Abort \/ Restart \/ JobEnds \/ StrayEnds \/ Prune \/ Tick \/ EditSpec

Spec == Init /\ [][Next]_vars

(* Every pass is requeued, a backup ends because its context has a deadline, time passes. *)
Fairness == WF_vars(Pass) /\ WF_vars(JobEnds) /\ WF_vars(StrayEnds) /\ WF_vars(Tick)

FairSpec == Spec /\ Fairness
-----------------------------------------------------------------------------
(* No schedule time is skipped: the anchor of the full schedule stands for a full backup that
   succeeded and started at that time or later (applyBackupResult). *)
AnchorIsCovered ==
  status.lastFull # NoTime =>
    \E b \in taken : b.kind = "Full" /\ b.started >= status.lastFull

(* One run covers any number of missed ones: when a backup starts, no later time of its own
   schedule has passed, and for an incremental no later time of the full schedule either
   (latestDue, decideBackup). *)
OneRunCoversMissed ==
  job.state # "none" =>
    LET times == IF job.kind = "Full" THEN FullTimes ELSE FullTimes \cup IncTimes
    IN  \A t \in times : ~(job.scheduled < t /\ t <= job.started)

(* A schedule time is served once: no two successful backups were taken for the same time of
   the same schedule, as long as every result was saved (poll, applyBackupResult). *)
ServedOnce ==
  ~lost => \A a, b \in taken : a.scheduled = b.scheduled /\ a.kind = b.kind => a = b

(* Attempts that no node takes are counted as a failure once they have lasted as long as the
   bound, and never beside counted failures (applyBackupResult). *)
UnclaimedIsBounded ==
  status.unclaimedSince # NoTime =>
    /\ status.lastUnclaimed - status.unclaimedSince < UnclaimedFailAfter
    /\ status.failures = 0

(* Failures cannot follow each other faster than the backoff: before the n-th consecutive one,
   every earlier one was waited out for its delay, which doubles up to RetryMax
   (backupRetryDelay, decideBackup). *)
FailuresAreSpaced ==
  LET delay(k) == IF RetryInitial * 2^(k - 1) < RetryMax THEN RetryInitial * 2^(k - 1) ELSE RetryMax
      waited[n \in 0 .. MaxFaults] == IF n <= 1 THEN 0 ELSE waited[n - 1] + delay(n - 1)
  IN  status.failures > 0 => status.lastFailure >= waited[status.failures]

(* The BackupFailing condition is true exactly while there are outstanding failures or the spec
   cannot be used, on every way out of reconcileBackup. *)
FailuresAreReported ==
  /\ status.failures > 0 => cond.failing
  /\ cond.failing => status.failures > 0 \/ cond.reason \in {"InvalidSchedule", "UnsupportedImage"}

(* Two backups of the cluster never run at once (backupRunner). *)
OneBackupAtATime == strays + (IF job.state = "running" THEN 1 ELSE 0) <= 1

(* A cluster that stays steady, with a usable spec.backup that is not suspended, catches up:
   in the end no full and no incremental backup is due, unless a failure at the very end puts
   the retry past the last tick of the clock (reconcileBackup, retried with a backoff). *)
CatchesUp ==
  <>[](/\ spec.present /\ ~spec.suspended /\ spec.usable = "yes"
       /\ pc = "backup" => pass.steady)
  => <>[](\/ retryAt(status) > MaxTime
          \/ /\ status.lastFull # NoTime
             /\ \A t \in FullTimes : t <= status.lastFull \/ t > now
             /\ \A t \in IncTimes : t <= status.lastFull \/ t <= status.lastInc \/ t > now)
=============================================================================
