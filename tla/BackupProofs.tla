---------------------------- MODULE BackupProofs ----------------------------
(***************************************************************************)
(* Theorems about Backup for any number of seconds, any schedule, any      *)
(* retention count and any bounds on requests, faults and crashes.         *)
(***************************************************************************)
EXTENDS Backup, FiniteSetTheorems, TLAPS

-----------------------------------------------------------------------------
(***************************************************************************)
(* The inductive invariant.                                                *)
(***************************************************************************)
WorkerStates ==
    [pc : {"idle", "uploading", "recording", "retaining"},
     name : Names \cup {Schedule}, at : 0..MaxTime,
     victims : SUBSET Victims, removed : SUBSET Victims]

\* What the worker has at hand fits what it does (Reconcile).
WorkerReady ==
    /\ worker \in WorkerStates
    /\ worker.pc # "idle" => worker.at \in Keys
    /\ Uploading => worker.name \in Names /\ s3Client
    /\ worker.pc # "retaining" => worker.victims = {}
    /\ \A v, w \in worker.removed : v = w

\* A copy the API server would accept an update of is the newest one.
FreshCopies ==
    /\ gsFresh => gsCache = gs
    /\ \A b \in Names : bkFresh[b] => bkCache[b] = bk[b]

\* A completed Backup, and no other, has a key (reconcileInProgress).
KeyNamed(backup) ==
    IF backup.state = "Completed" THEN backup.key \in Keys ELSE backup.key = 0

KeysNamed == \A b \in Names : KeyNamed(bk[b]) /\ KeyNamed(bkCache[b])

\* The Backup b was deleted by an administrator, later than in the second it
\* is named after: nobody creates it again (handleDeleteBackup).
GoneForGood(b) ==
    bk[b].state = "None" /\ CreatedAt(b) < clock /\ used.deletes > 0

\* How far the cache can lag behind a Backup that is in progress
\* (reconcilePending, reconcileInProgress).
InProgressLag ==
    \A b \in Names :
        /\ bkCache[b].state = "InProgress" =>
              \/ bk[b].state = "InProgress" /\ bkFresh[b]
              \/ IsBackupTerminal(bk[b].state)
              \/ GoneForGood(b)
        /\ bk[b].state = "InProgress" => bkCache[b].state \in {"Pending", "InProgress"}

Expired(b) == \E v \in expired : v.name = b

\* A Backup the cache shows as completed is that, or was deleted since, and
\* perhaps created again (enforceRetention, handleDeleteBackup).
CompletedLag ==
    \A b \in Names :
        bkCache[b].state = "Completed" =>
            \/ bk[b] = bkCache[b]
            \/ /\ bk[b].state \in {"None", "", "Pending"}
               /\ used.deletes > 0 \/ Expired(b)

\* The worker never comes back to a Backup that has ended (Reconcile).
EndedAtRest == \A b \in Names : IsBackupTerminal(bk[b].state) => b \notin queue

\* While a Backup is uploaded it stays in progress, unless an administrator
\* deletes it (reconcileInProgress).
UploadOwned ==
    Uploading =>
        \/ /\ bk[worker.name].state = "InProgress"
           /\ bkFresh[worker.name]
           /\ worker.name \notin queue
        \/ GoneForGood(worker.name)

\* The pipe ends only after tar has ended well, and an upload that has
\* returned without an error has stored the archive (performBackup).
PipeSound ==
    /\ pipe.exec = "flushing" => pipe.errCh = "nil"
    /\ pipe.pw = "eof" => pipe.errCh = "nil"
    /\ Uploading /\ pipe.up = "ok" => s3[worker.at] = "whole"

\* The Backups retention is about to delete (enforceRetention).
VictimsKept ==
    \A v \in worker.victims :
        /\ v.key \in Keys
        /\ bkCache[v.name].state # "InProgress"
        /\ bk[v.name].state \notin {"InProgress", "Failed"}
        /\ bk[v.name].state = "Completed" => bk[v.name].key = v.key

\* Without a restart there is an S3 client once a Backup has completed beside
\* the one of an earlier run; without a failure retention has removed the
\* archive before it deletes the object (ensureS3Client, enforceRetention).
ArchivesRemoved ==
    used.crashes = 0 =>
        /\ ~s3Client => /\ worker.victims = {}
                        /\ \A b \in Names :
                              "Completed" \in {bk[b].state, bkCache[b].state}
                                 => b = <<"backup", 1>>
        /\ used.faults = 0 => \A v \in worker.removed : s3[v.key] = "none"

\* The scheduled Backup of second t is recorded, or about to be, or excused
\* (reconcileGameServerSchedule).
Recorded(t) ==
    \/ <<"scheduled", t>> \in slips
    \/ gs.last >= t
    \/ worker.pc = "recording" /\ worker.at = t

ScheduleRecorded ==
    /\ gs.last <= clock
    /\ worker.pc = "recording" => gs.last <= worker.at /\ worker.at <= clock
    /\ \A t \in Keys : Exists(<<"scheduled", t>>) => Recorded(t)

\* Completed Backups retention has not chosen, as the cache shows them too.
Retained == {b \in Names : /\ bk[b].state = "Completed"
                           /\ bkCache[b].state = "Completed"
                           /\ ~Expired(b)}

\* W is as many Backups as retention must keep, none older than second t.
Outlived(W, t) ==
    /\ W \subseteq Retained
    /\ Cardinality(W) = RetentionCount
    /\ \A w \in W : CreatedAt(w) >= t

\* Administrators delete nothing, and retention never had to choose between
\* Backups of one second.
Undisturbed ==
    /\ used.deletes = 0
    /\ \A v, w \in expired : v.name # w.name => CreatedAt(v.name) # CreatedAt(w.name)

\* Whatever retention has chosen is outlived by enough newer Backups
\* (enforceRetention).
NewestRetained ==
    Undisturbed =>
        \A v \in expired : \E W \in SUBSET Names : Outlived(W, CreatedAt(v.name))

IInv ==
    /\ TypeOK
    /\ WorkerReady
    /\ FreshCopies
    /\ KeysNamed
    /\ InProgressLag
    /\ CompletedLag
    /\ EndedAtRest
    /\ UploadOwned
    /\ PipeSound
    /\ VictimsKept
    /\ ArchivesRemoved
    /\ ScheduleRecorded
    /\ NewestRetained
    /\ ArchivesWhole
    /\ CompletedRestorable
    /\ NoOrphanArchive
    /\ OneBackupPerScheduledTime

-----------------------------------------------------------------------------
(***************************************************************************)
(* Operators.                                                              *)
(***************************************************************************)
\* The next time of the schedule is later, by one period at most (sched.Next).
LEMMA NextTimeBound ==
    ASSUME NEW t \in Nat
    PROVE  NextTime(t) \in (t + 1)..(t + Period)
  <1>1. Period \in Nat /\ Period > 0
    BY BackupAssumption
  <1> DEFINE q == t \div Period
  <1>2. q \in Nat /\ q * Period <= t /\ t < q * Period + Period
    BY <1>1
  <1>3. NextTime(t) = q * Period + Period
    BY <1>1, <1>2 DEF NextTime
  <1> HIDE DEF q
  <1>4. q * Period \in Nat
    BY <1>1, <1>2
  <1> QED
    BY <1>1, <1>2, <1>3, <1>4

\* A time at which the next backup is due belongs to a later period.
LEMMA DuePeriod ==
    ASSUME NEW last \in Nat, NEW now \in Nat, now >= NextTime(last), NEW t \in Nat,
           t <= last
    PROVE  t \div Period # now \div Period
  <1>1. Period \in Nat /\ Period > 0
    BY BackupAssumption
  <1>2. t < NextTime(t)
    BY NextTimeBound
  <1> DEFINE q == last \div Period
             r == t \div Period
             s == now \div Period
  <1>3. q \in Nat /\ r \in Nat /\ s \in Nat
    BY <1>1
  <1>4. /\ q * Period <= last /\ last < q * Period + Period
        /\ r * Period <= t
        /\ s * Period <= now /\ now < s * Period + Period
    BY <1>1
  <1>5. now >= q * Period + Period
    BY <1>1, <1>3 DEF NextTime
  <1> HIDE DEF q, r, s
  <1>6. q * Period < s * Period
    BY <1>1, <1>3, <1>4, <1>5
  <1>7. r * Period < q * Period + Period
    BY <1>1, <1>3, <1>4
  <1>8. r < q + 1
    BY <1>1, <1>3, <1>7
  <1>9. q < s
    BY <1>1, <1>3, <1>6
  <1>10. r # s
    BY <1>3, <1>8, <1>9
  <1> QED
    BY <1>10 DEF r, s

\* There are finitely many names of Backups.
LEMMA NamesFinite == IsFiniteSet(Names)
  <1>1. IsFiniteSet(Keys)
    BY BackupAssumption, FS_Interval
  <1>2. IsFiniteSet({"backup", "scheduled"})
    <2>1. IsFiniteSet({"backup"})
      BY FS_Singleton
    <2>2. IsFiniteSet({"backup"} \cup {"scheduled"})
      BY <2>1, FS_AddElement
    <2>3. {"backup"} \cup {"scheduled"} = {"backup", "scheduled"}
      OBVIOUS
    <2> QED
      BY <2>2, <2>3
  <1> QED
    BY <1>1, <1>2, FS_Product DEF Names

\* What is spent stays within its bound, and nothing else is.
LEMMA SpendType ==
    ASSUME used \in Budgets,
           NEW kind \in {"requests", "changes", "deletes", "faults", "crashes"},
           Spend(kind)
    PROVE  /\ used' \in Budgets
           /\ used'.deletes = IF kind = "deletes" THEN used.deletes + 1 ELSE used.deletes
           /\ used'.faults = IF kind = "faults" THEN used.faults + 1 ELSE used.faults
           /\ used'.crashes = IF kind = "crashes" THEN used.crashes + 1 ELSE used.crashes
  <1>1. /\ MaxRequests \in Nat /\ MaxChanges \in Nat /\ MaxDeletes \in Nat
        /\ MaxFaults \in Nat /\ MaxCrashes \in Nat
    BY BackupAssumption
  <1>2. used' = [used EXCEPT ![kind] = @ + 1] /\ used[kind] < Bound[kind]
    BY DEF Spend
  <1>3. CASE kind = "requests"
    BY <1>1, <1>2, <1>3 DEF Budgets, Bound
  <1>4. CASE kind = "changes"
    BY <1>1, <1>2, <1>4 DEF Budgets, Bound
  <1>5. CASE kind = "deletes"
    BY <1>1, <1>2, <1>5 DEF Budgets, Bound
  <1>6. CASE kind = "faults"
    BY <1>1, <1>2, <1>6 DEF Budgets, Bound
  <1>7. CASE kind = "crashes"
    BY <1>1, <1>2, <1>7 DEF Budgets, Bound
  <1> QED
    BY <1>3, <1>4, <1>5, <1>6, <1>7

-----------------------------------------------------------------------------
(***************************************************************************)
(* Types.                                                                  *)
(***************************************************************************)
\* A write of a Backup with a state and a key is of the right type.
LEMMA SetBackupType ==
    ASSUME TypeOK, NEW b \in Names, NEW s \in BackupStates \cup {"None"},
           NEW k \in 0..MaxTime, SetBackup(b, s, k)
    PROVE  bk' \in [Names -> Backups] /\ bkFresh' \in [Names -> BOOLEAN]
  <1>1. [state |-> s, key |-> k] \in Backups
    BY DEF Backups
  <1>2. bk' \in [Names -> Backups]
    BY <1>1 DEF SetBackup, TypeOK
  <1>3. bkFresh' \in [Names -> BOOLEAN]
    BY DEF SetBackup, TypeOK
  <1> QED
    BY <1>2, <1>3

\* The same of a write of the worker, whether or not it succeeds.
LEMMA TransitionType ==
    ASSUME TypeOK, NEW b \in Names, NEW s \in BackupStates, Transition(b, s)
    PROVE  /\ bk' \in [Names -> Backups] /\ bkFresh' \in [Names -> BOOLEAN]
           /\ queue' \subseteq Names \cup {Schedule}
           /\ used' \in Budgets
  <1>1. 0 \in 0..MaxTime
    BY BackupAssumption
  <1>2. bk' \in [Names -> Backups] /\ bkFresh' \in [Names -> BOOLEAN]
    <2>1. CASE SetBackup(b, s, 0)
      BY <1>1, <2>1, SetBackupType
    <2>2. CASE UNCHANGED <<bk, bkFresh>>
      BY <2>2 DEF TypeOK
    <2> QED
      BY <2>1, <2>2 DEF Transition
  <1>3. queue' \subseteq Names \cup {Schedule}
    BY DEF Transition, TypeOK
  <1>4. used' \in Budgets
    BY SpendType DEF Transition, Fault, TypeOK
  <1> QED
    BY <1>2, <1>3, <1>4

\* A delayed requeue is due within the bound.
LEMMA WakeAtType ==
    ASSUME TypeOK, NEW t \in 0..(MaxTime + Period), WakeAt(t)
    PROVE  wake' \in 0..(MaxTime + Period)
  BY DEF WakeAt, TypeOK

\* The steps of the worker at a Backup keep the types.
LEMMA BackupStepType ==
    ASSUME TypeOK, WorkerReady, NEW b \in Names,
           SkipBackup(b) \/ ReconcilePending(b) \/ RefuseInProgress(b) \/ StartUpload(b)
    PROVE  TypeOK'
  <1>0. 0 \in 0..MaxTime /\ {"Pending", "InProgress", "Failed"} \subseteq BackupStates
    BY BackupAssumption DEF BackupStates
  <1>1. CASE SkipBackup(b)
    BY <1>1 DEF SkipBackup, TypeOK
  <1>2. CASE ReconcilePending(b)
    <2>1. /\ bk' \in [Names -> Backups] /\ bkFresh' \in [Names -> BOOLEAN]
          /\ queue' \subseteq Names \cup {Schedule}
          /\ used' \in Budgets
      <3>1. CASE \E s \in BackupStates : Transition(b, s)
        BY <3>1, TransitionType
      <3>2. CASE Fault /\ SetBackup(b, "Failed", 0) /\ queue' = queue \ {b}
        BY <1>0, <3>2, SetBackupType, SpendType DEF Fault, TypeOK
      <3> QED
        BY <1>0, <1>2, <3>1, <3>2 DEF ReconcilePending
    <2> QED
      BY <1>2, <2>1 DEF ReconcilePending, TypeOK
  <1>3. CASE RefuseInProgress(b)
    <2>1. /\ bk' \in [Names -> Backups] /\ bkFresh' \in [Names -> BOOLEAN]
          /\ queue' \subseteq Names \cup {Schedule}
          /\ used' \in Budgets
      <3>1. CASE Transition(b, "Failed")
        BY <1>0, <3>1, TransitionType
      <3>2. CASE Fault /\ SetBackup(b, "Failed", 0) /\ queue' = queue \ {b}
        BY <1>0, <3>2, SetBackupType, SpendType DEF Fault, TypeOK
      <3> QED
        BY <1>3, <3>1, <3>2 DEF RefuseInProgress
    <2>2. s3Client' \in BOOLEAN
      BY <1>3 DEF RefuseInProgress, TypeOK
    <2> QED
      BY <1>3, <2>1, <2>2 DEF RefuseInProgress, TypeOK
  <1>4. CASE StartUpload(b)
    <2>1. pipe' \in Pipes
      BY <1>4 DEF StartUpload, NewPipe, Pipes
    <2>2. /\ worker'.pc = "uploading" /\ worker'.name = b /\ worker'.at = clock
          /\ worker'.victims = {} /\ worker'.removed = {}
      BY <1>4 DEF StartUpload, Idle
    <2>3. s3Client' \in BOOLEAN
      BY <1>4 DEF StartUpload
    <2>4. clock \in 0..MaxTime
      BY DEF TypeOK
    <2> QED
      BY <1>4, <2>1, <2>2, <2>3, <2>4 DEF StartUpload, TypeOK
  <1> QED
    BY <1>1, <1>2, <1>3, <1>4

\* The upload and its end keep the types.
LEMMA UploadStepType ==
    ASSUME TypeOK, WorkerReady, UploadStep \/ FinishUpload
    PROVE  TypeOK'
  <1>1. CASE UploadStep
    <2>1. pipe' \in Pipes
      BY <1>1 DEF UploadStep, Transfer, ExecReturns, ExecFails, CloseAfterFailure,
                  CloseAtEnd, CompleteUpload, AbortUpload, UploadFails, TypeOK, Pipes
    <2>2. s3' \in [Keys -> Contents]
      BY <1>1 DEF UploadStep, Transfer, ExecReturns, ExecFails, CloseAfterFailure,
                  CloseAtEnd, CompleteUpload, AbortUpload, UploadFails, Put, TypeOK,
                  Contents
    <2>3. used' \in Budgets
      BY <1>1, SpendType DEF UploadStep, Fault, TypeOK
    <2> QED
      BY <1>1, <2>1, <2>2, <2>3 DEF UploadStep, TypeOK
  <1>2. CASE FinishUpload
    <2>1. worker.name \in Names /\ worker.at \in 0..MaxTime /\ 0 \in 0..MaxTime
      BY <1>2, BackupAssumption DEF FinishUpload, WorkerReady, TypeOK
    <2>2. {"Completed", "Failed"} \subseteq BackupStates
      BY DEF BackupStates
    <2>3. bk' \in [Names -> Backups] /\ bkFresh' \in [Names -> BOOLEAN]
      <3>1. CASE SetBackup(worker.name, "Completed", worker.at)
                    \/ SetBackup(worker.name, "Failed", 0)
        BY <2>1, <2>2, <3>1, SetBackupType
      <3>2. CASE UNCHANGED <<bk, bkFresh>>
        BY <3>2 DEF TypeOK
      <3> QED
        BY <1>2, <3>1, <3>2 DEF FinishUpload
    <2>4. queue' \subseteq Names \cup {Schedule}
      BY <1>2, <2>1 DEF FinishUpload, TypeOK
    <2>5. used' \in Budgets
      BY <1>2, SpendType DEF FinishUpload, Fault, TypeOK
    <2>6. pipe' \in Pipes
      BY <1>2 DEF FinishUpload, NoPipe, Pipes
    <2>7. /\ worker'.pc = "idle" /\ worker'.name = Schedule /\ worker'.at = 0
          /\ worker'.victims = {} /\ worker'.removed = {}
      BY <1>2 DEF FinishUpload, Idle
    <2> QED
      BY <1>2, <2>1, <2>3, <2>4, <2>5, <2>6, <2>7 DEF FinishUpload, TypeOK
  <1> QED
    BY <1>1, <1>2

\* What retention chooses are completed Backups of the cache, with their keys.
LEMMA ExpiringType ==
    ASSUME bkCache \in [Names -> Backups], NEW victims \in Expiring(bkCache),
           NEW v \in victims
    PROVE  /\ v \in Victims
           /\ v.name \in Names
           /\ bkCache[v.name].state = "Completed"
           /\ v.key = bkCache[v.name].key
  <1> DEFINE ended == {b \in Names : bkCache[b].state = "Completed"}
  <1>1. PICK chosen \in BeyondNewest(RetentionCount, ended) :
          victims = {[name |-> b, key |-> bkCache[b].key] : b \in chosen}
    BY DEF Expiring
  <1>2. chosen \subseteq ended
    BY DEF BeyondNewest
  <1>3. PICK b \in chosen : v = [name |-> b, key |-> bkCache[b].key]
    BY <1>1
  <1>4. b \in Names /\ bkCache[b].key \in 0..MaxTime
    BY <1>2 DEF Backups
  <1> QED
    BY <1>2, <1>3, <1>4 DEF Victims

\* The steps of the worker at the schedule keep the types.
LEMMA ScheduleStepType ==
    ASSUME TypeOK, WorkerReady,
           \/ SkipSchedule \/ AwaitSchedule \/ CreateScheduled \/ RecordLastBackup
           \/ FinishSchedule
           \/ \E v \in worker.victims : RemoveArchive(v) \/ DeleteExpired(v)
    PROVE  TypeOK'
  <1>0. /\ MaxTime \in Nat /\ Period \in Nat /\ clock \in 1..MaxTime
        /\ 0 \in 0..MaxTime /\ worker.at \in 0..MaxTime
    BY BackupAssumption DEF TypeOK
  <1>s. "" \in BackupStates
    BY DEF BackupStates
  <1>1. CASE SkipSchedule
    BY <1>1 DEF SkipSchedule, TypeOK
  <1>2. CASE AwaitSchedule
    <2>1. gsCache.last \in 0..MaxTime
      BY DEF TypeOK, GameServers
    <2>2. NextTime(gsCache.last) \in 0..(MaxTime + Period)
      <3>1. NextTime(gsCache.last) \in (gsCache.last + 1)..(gsCache.last + Period)
        BY <1>0, <2>1, NextTimeBound
      <3> QED
        BY <1>0, <2>1, <3>1
    <2>3. wake' \in 0..(MaxTime + Period)
      BY <1>2, <2>2, WakeAtType DEF AwaitSchedule
    <2> QED
      BY <1>2, <2>3 DEF AwaitSchedule, TypeOK
  <1>3. CASE CreateScheduled
    <2> DEFINE b == <<"scheduled", clock>>
    <2>1. b \in Names
      BY <1>0, BackupAssumption DEF Names
    <2>2. bk' \in [Names -> Backups] /\ bkFresh' \in [Names -> BOOLEAN]
      <3>1. CASE SetBackup(b, "", 0)
        BY <1>0, <1>s, <2>1, <3>1, SetBackupType
      <3>2. CASE UNCHANGED <<bk, bkFresh>>
        BY <3>2 DEF TypeOK
      <3> QED
        BY <1>3, <3>1, <3>2 DEF CreateScheduled
    <2>3. slips' \subseteq Names
      BY <1>3, <2>1 DEF CreateScheduled, TypeOK
    <2>4. used' \in Budgets
      BY <1>3, SpendType DEF CreateScheduled, Fault, TypeOK
    <2>5. queue' \subseteq Names \cup {Schedule}
      BY <1>3 DEF CreateScheduled, TypeOK
    <2>6. \/ UNCHANGED worker
          \/ /\ worker'.pc = "recording" /\ worker'.name = Schedule
             /\ worker'.at = clock /\ worker'.victims = {} /\ worker'.removed = {}
      BY <1>3 DEF CreateScheduled, Idle
    <2>7. /\ worker'.pc \in {"idle", "uploading", "recording", "retaining"}
          /\ worker'.name \in Names \cup {Schedule}
          /\ worker'.at \in 0..MaxTime
          /\ worker'.removed \subseteq worker'.victims
          /\ worker'.victims \subseteq expired
      BY <1>0, <2>6 DEF TypeOK
    <2> QED
      BY <1>3, <2>2, <2>3, <2>4, <2>5, <2>7 DEF CreateScheduled, TypeOK
  <1>4. CASE RecordLastBackup
    <2>1. gs' \in GameServers /\ gsFresh' \in BOOLEAN
      BY <1>0, <1>4 DEF RecordLastBackup, SetServer, TypeOK, GameServers
    <2>2. used' \in Budgets
      BY <1>4, SpendType DEF RecordLastBackup, Fault, TypeOK
    <2>3. queue' \subseteq Names \cup {Schedule}
      BY <1>4 DEF RecordLastBackup, TypeOK
    <2>4. slips' \subseteq Names
      BY <1>0, <1>4, BackupAssumption DEF RecordLastBackup, TypeOK, Names, WorkerReady
    <2>5. CASE worker' = Idle /\ UNCHANGED expired
      BY <1>0, <1>4, <2>1, <2>2, <2>3, <2>4, <2>5 DEF RecordLastBackup, Idle, TypeOK
    <2>6. ASSUME NEW victims \in SUBSET Victims, Retain(victims)
          PROVE  TypeOK'
      <3>1. /\ worker'.pc = "retaining" /\ worker'.victims = victims
            /\ worker'.name = worker.name /\ worker'.at = worker.at
            /\ worker'.removed = worker.removed
        BY <2>6 DEF Retain, WorkerReady, WorkerStates
      <3>2. worker.removed = {}
        BY <1>4 DEF RecordLastBackup, WorkerReady, TypeOK
      <3> QED
        BY <1>0, <1>4, <2>1, <2>2, <2>3, <2>4, <2>6, <3>1, <3>2
        DEF RecordLastBackup, Retain, TypeOK
    <2>7. Expiring(bkCache) \subseteq SUBSET Victims
      BY ExpiringType DEF TypeOK
    <2> QED
      BY <1>4, <2>5, <2>6, <2>7 DEF RecordLastBackup
  <1>5. CASE FinishSchedule
    <2>1. clock + (NextTime(worker.at) - worker.at) \in 0..(MaxTime + Period)
      <3>1. NextTime(worker.at) \in (worker.at + 1)..(worker.at + Period)
        BY <1>0, NextTimeBound
      <3> QED
        BY <1>0, <3>1
    <2>2. wake' \in 0..(MaxTime + Period)
      BY <1>5, <2>1, WakeAtType DEF FinishSchedule
    <2> QED
      BY <1>0, <1>5, <2>2 DEF FinishSchedule, TypeOK, Idle
  <1>6. ASSUME NEW v \in worker.victims, RemoveArchive(v)
        PROVE  TypeOK'
    <2>1. s3' \in [Keys -> Contents]
      BY <1>6 DEF RemoveArchive, TypeOK, Contents
    <2>2. used' \in Budgets
      BY <1>6, SpendType DEF RemoveArchive, Fault, TypeOK
    <2>3. /\ worker'.pc = worker.pc /\ worker'.name = worker.name
          /\ worker'.at = worker.at /\ worker'.victims = worker.victims
          /\ worker'.removed = {v}
      BY <1>6 DEF RemoveArchive, WorkerReady, WorkerStates
    <2> QED
      BY <1>6, <2>1, <2>2, <2>3 DEF RemoveArchive, TypeOK
  <1>7. ASSUME NEW v \in worker.victims, DeleteExpired(v)
        PROVE  TypeOK'
    <2>1. v.name \in Names
      BY DEF TypeOK, Victims
    <2>2. bk' \in [Names -> Backups] /\ bkFresh' \in [Names -> BOOLEAN]
      <3>1. CASE SetBackup(v.name, "None", 0)
        BY <1>0, <2>1, <3>1, SetBackupType
      <3>2. CASE UNCHANGED <<bk, bkFresh>>
        BY <3>2 DEF TypeOK
      <3> QED
        BY <1>7, <3>1, <3>2 DEF DeleteExpired
    <2>3. used' \in Budgets
      BY <1>7, SpendType DEF DeleteExpired, Fault, TypeOK
    <2>4. /\ worker'.pc = worker.pc /\ worker'.name = worker.name
          /\ worker'.at = worker.at /\ worker'.victims = worker.victims \ {v}
          /\ worker'.removed = {}
      BY <1>7 DEF DeleteExpired, WorkerReady, WorkerStates
    <2> QED
      BY <1>7, <2>2, <2>3, <2>4 DEF DeleteExpired, TypeOK
  <1> QED
    BY <1>1, <1>2, <1>3, <1>4, <1>5, <1>6, <1>7

\* The informers, the timer, the handlers and the environment keep the types.
LEMMA OtherStepType ==
    ASSUME TypeOK, WorkerReady,
           \/ TimerFires \/ SyncServer \/ SyncBackups \/ RequestBackup \/ Tick \/ Crash
           \/ \E b \in Names : SetPending(b) \/ DeleteBackup(b)
           \/ \E on \in BOOLEAN : SetBackupSchedule(on)
           \/ \E state \in {"Running", "Idle", "Gone"} : ServerChanges(state)
    PROVE  TypeOK'
  <1>0. /\ MaxTime \in Nat /\ Period \in Nat /\ clock \in 1..MaxTime
        /\ 0 \in 0..MaxTime
    BY BackupAssumption DEF TypeOK
  <1>s. {"", "Pending"} \subseteq BackupStates
    BY DEF BackupStates
  <1>k. clock \in Keys
    BY <1>0, BackupAssumption
  <1>1. CASE TimerFires
    BY <1>0, <1>1 DEF TimerFires, TypeOK
  <1>2. CASE SyncServer
    BY <1>2 DEF SyncServer, TypeOK
  <1>3. CASE SyncBackups
    BY <1>3 DEF SyncBackups, TypeOK
  <1>4. CASE RequestBackup
    <2>1. <<"backup", clock>> \in Names
      BY <1>k DEF Names
    <2>2. bk' \in [Names -> Backups] /\ bkFresh' \in [Names -> BOOLEAN]
      BY <1>0, <1>s, <1>4, <2>1, SetBackupType DEF RequestBackup
    <2>3. used' \in Budgets
      BY <1>4, SpendType DEF RequestBackup, TypeOK
    <2> QED
      BY <1>4, <2>1, <2>2, <2>3 DEF RequestBackup, TypeOK
  <1>5. CASE Tick
    BY <1>0, <1>5 DEF Tick, TypeOK
  <1>6. CASE Crash
    <2>1. used' \in Budgets
      BY <1>6, SpendType DEF Crash, TypeOK
    <2>2. slips' \subseteq Names
      BY <1>0, <1>6 DEF Crash, TypeOK, WorkerReady, Names
    <2>3. pipe' \in Pipes
      BY <1>6 DEF Crash, NoPipe, Pipes
    <2>4. /\ worker'.pc = "idle" /\ worker'.name = Schedule /\ worker'.at = 0
          /\ worker'.victims = {} /\ worker'.removed = {}
      BY <1>6 DEF Crash, Idle
    <2>5. queue' \subseteq Names \cup {Schedule} /\ wake' \in 0..(MaxTime + Period)
      BY <1>0, <1>6 DEF Crash
    <2>6. bkFresh' \in [Names -> BOOLEAN] /\ gsFresh' \in BOOLEAN /\ s3Client' \in BOOLEAN
      BY <1>6 DEF Crash
    <2>7. gsCache' \in GameServers /\ bkCache' \in [Names -> Backups] /\ creating' = {}
      BY <1>6 DEF Crash, TypeOK
    <2>8. UNCHANGED <<clock, gs, bk, expired, s3>>
      BY <1>6 DEF Crash
    <2> QED
      BY <1>0, <2>1, <2>2, <2>3, <2>4, <2>5, <2>6, <2>7, <2>8 DEF TypeOK
  <1>7. ASSUME NEW b \in Names, SetPending(b)
        PROVE  TypeOK'
    <2>1. bk' \in [Names -> Backups] /\ bkFresh' \in [Names -> BOOLEAN]
      <3>1. CASE SetBackup(b, "Pending", 0)
        BY <1>0, <1>s, <3>1, SetBackupType
      <3>2. CASE UNCHANGED <<bk, bkFresh>>
        BY <3>2 DEF TypeOK
      <3> QED
        BY <1>7, <3>1, <3>2 DEF SetPending
    <2> QED
      BY <1>7, <2>1 DEF SetPending, TypeOK
  <1>8. ASSUME NEW b \in Names, DeleteBackup(b)
        PROVE  TypeOK'
    <2>1. bk' \in [Names -> Backups] /\ bkFresh' \in [Names -> BOOLEAN]
      BY <1>0, <1>8, SetBackupType DEF DeleteBackup
    <2>2. used' \in Budgets
      BY <1>8, SpendType DEF DeleteBackup, TypeOK
    <2> QED
      BY <1>8, <2>1, <2>2 DEF DeleteBackup, TypeOK
  <1>9. ASSUME NEW on \in BOOLEAN, SetBackupSchedule(on)
        PROVE  TypeOK'
    <2>1. gs' \in GameServers /\ gsFresh' \in BOOLEAN
      BY <1>9 DEF SetBackupSchedule, SetServer, TypeOK, GameServers
    <2>2. used' \in Budgets
      BY <1>9, SpendType DEF SetBackupSchedule, TypeOK
    <2> QED
      BY <1>9, <2>1, <2>2 DEF SetBackupSchedule, TypeOK
  <1>10. ASSUME NEW state \in {"Running", "Idle", "Gone"}, ServerChanges(state)
         PROVE  TypeOK'
    <2>1. gs' \in GameServers /\ gsFresh' \in BOOLEAN
      BY <1>10 DEF ServerChanges, SetServer, TypeOK, GameServers
    <2>2. used' \in Budgets
      BY <1>10, SpendType DEF ServerChanges, TypeOK
    <2> QED
      BY <1>10, <2>1, <2>2 DEF ServerChanges, TypeOK
  <1> QED
    BY <1>1, <1>2, <1>3, <1>4, <1>5, <1>6, <1>7, <1>8, <1>9, <1>10

\* Every step keeps the types.
LEMMA NextType ==
    ASSUME TypeOK, WorkerReady, [Next]_vars
    PROVE  TypeOK'
  <1>1. CASE UNCHANGED vars
    BY <1>1 DEF vars, backupVars, TypeOK
  <1> QED
    BY <1>1, BackupStepType, UploadStepType, ScheduleStepType, OtherStepType
    DEF Next, WorkerStep

-----------------------------------------------------------------------------
(***************************************************************************)
(* What a step can do.                                                     *)
(***************************************************************************)
\* Somebody writes state s and key k of Backup b, for one of these reasons:
\* a handler or the schedule creates it; its handler makes it Pending; the
\* worker, with the newest copy, moves it on, or completes it with what it
\* has uploaded; an administrator or retention deletes it.
WorkerMoves == {<<"", "Pending">>, <<"Pending", "InProgress">>,
                <<"Pending", "Failed">>, <<"InProgress", "Failed">>}

Write(b, s, k) ==
    \/ bk[b].state = "None" /\ CreatedAt(b) = clock /\ s = "" /\ k = 0
    \/ bk[b].state = "" /\ s = "Pending" /\ k = 0
    \/ /\ worker.pc \in {"idle", "uploading"}
       /\ bkFresh[b]
       /\ \/ <<bk[b].state, s>> \in WorkerMoves /\ k = 0
          \/ /\ bk[b].state = "InProgress" /\ s = "Completed"
             /\ Uploading /\ b = worker.name /\ k = worker.at
             /\ Succeeded
    \/ /\ bk[b].state # "None" /\ s = "None" /\ k = 0
       /\ \/ CreatedAt(b) < clock /\ used'.deletes > 0
          \/ \E v \in worker.removed : v.name = b

WriteStep ==
    \E b \in Names, s \in BackupStates \cup {"None"}, k \in 0..MaxTime :
        Write(b, s, k) /\ SetBackup(b, s, k)

\* The cached copies are brought up to date (SyncBackups, Crash).
CatchUp == bkCache' = bk /\ bkFresh' = [b \in Names |-> TRUE] /\ UNCHANGED bk

\* Time, events, retention's choices and deletions only add up.
Monotone ==
    /\ clock <= clock'
    /\ used.deletes <= used'.deletes
    /\ used.faults <= used'.faults
    /\ used.crashes <= used'.crashes
    /\ expired \subseteq expired'

\* Nothing is undone.
LEMMA NextMonotone ==
    ASSUME TypeOK, [Next]_vars
    PROVE  Monotone
  <1>1. /\ used \in Budgets /\ clock \in Nat
        /\ used.deletes \in Nat /\ used.faults \in Nat /\ used.crashes \in Nat
    BY BackupAssumption DEF TypeOK, Budgets
  <1>2. clock' = clock \/ clock' = clock + 1
    BY DEF Next, WorkerStep, SkipBackup, ReconcilePending, RefuseInProgress,
           StartUpload, FinishUpload, SkipSchedule, AwaitSchedule, CreateScheduled,
           RecordLastBackup, RemoveArchive, DeleteExpired, FinishSchedule,
           UploadStep, TimerFires, SyncServer, SyncBackups, SetPending,
           DeleteBackup, RequestBackup, SetBackupSchedule, ServerChanges, Tick,
           Crash, vars, backupVars
  <1>3. \/ UNCHANGED used
        \/ \E kind \in {"requests", "changes", "deletes", "faults", "crashes"} :
              Spend(kind)
    BY DEF Next, WorkerStep, SkipBackup, ReconcilePending, RefuseInProgress,
           StartUpload, FinishUpload, SkipSchedule, AwaitSchedule, CreateScheduled,
           RecordLastBackup, RemoveArchive, DeleteExpired, FinishSchedule,
           UploadStep, TimerFires, SyncServer, SyncBackups, SetPending,
           DeleteBackup, RequestBackup, SetBackupSchedule, ServerChanges, Tick,
           Crash, vars, backupVars, Transition, Fault
  <1>4. expired \subseteq expired'
    BY DEF Next, WorkerStep, SkipBackup, ReconcilePending, RefuseInProgress,
           StartUpload, FinishUpload, SkipSchedule, AwaitSchedule, CreateScheduled,
           RecordLastBackup, RemoveArchive, DeleteExpired, FinishSchedule,
           UploadStep, TimerFires, SyncServer, SyncBackups, SetPending,
           DeleteBackup, RequestBackup, SetBackupSchedule, ServerChanges, Tick,
           Crash, vars, backupVars, Retain
  <1>5. /\ used.deletes <= used'.deletes
        /\ used.faults <= used'.faults
        /\ used.crashes <= used'.crashes
    BY <1>1, <1>3, SpendType
  <1> QED
    BY <1>1, <1>2, <1>4, <1>5 DEF Monotone

\* A write for one of the reasons above is a step of that kind.
LEMMA WriteIsStep ==
    ASSUME NEW b \in Names, NEW s \in BackupStates \cup {"None"},
           NEW k \in 0..MaxTime, Write(b, s, k), SetBackup(b, s, k)
    PROVE  WriteStep
  BY DEF WriteStep

\* The worker's writes of a Backup.
LEMMA WorkerWrites ==
    ASSUME TypeOK, WorkerReady, FreshCopies, UploadOwned, WorkerStep
    PROVE  /\ WriteStep \/ UNCHANGED <<bk, bkFresh>>
           /\ UNCHANGED bkCache
  <1>0. 0 \in 0..MaxTime /\ worker.at \in 0..MaxTime /\ clock \in Keys
    BY BackupAssumption DEF TypeOK
  <1>s. {"", "Pending", "InProgress", "Failed", "Completed"} \subseteq BackupStates
    BY DEF BackupStates
  <1>1. UNCHANGED bkCache
    BY DEF WorkerStep, SkipBackup, ReconcilePending, RefuseInProgress, StartUpload,
           FinishUpload, SkipSchedule, AwaitSchedule, CreateScheduled,
           RecordLastBackup, RemoveArchive, DeleteExpired, FinishSchedule
  <1>2. ASSUME NEW b \in Names, NEW s \in BackupStates, Picks(b),
               <<bkCache[b].state, s>> \in WorkerMoves, Transition(b, s)
        PROVE  WriteStep \/ UNCHANGED <<bk, bkFresh>>
    <2>1. CASE bkFresh[b] /\ SetBackup(b, s, 0)
      <3>1. bk[b] = bkCache[b]
        BY <2>1 DEF FreshCopies
      <3>2. Write(b, s, 0)
        BY <1>2, <2>1, <3>1 DEF Write, Picks
      <3> QED
        BY <1>0, <1>2, <2>1, <3>2 DEF WriteStep
    <2> QED
      BY <1>2, <2>1 DEF Transition
  <1>3. ASSUME NEW b \in Names, ReconcilePending(b)
        PROVE  WriteStep \/ UNCHANGED <<bk, bkFresh>>
    <2>1. CASE bkCache[b].state = "" /\ Transition(b, "Pending")
      BY <1>s, <1>2, <1>3, <2>1 DEF ReconcilePending, WorkerMoves
    <2>2. CASE bkCache[b].state = "Pending" /\ Transition(b, "InProgress")
      BY <1>s, <1>2, <1>3, <2>2 DEF ReconcilePending, WorkerMoves
    <2>3. CASE bkCache[b].state = "Pending" /\ Transition(b, "Failed")
      BY <1>s, <1>2, <1>3, <2>3 DEF ReconcilePending, WorkerMoves
    <2>4. CASE bkCache[b].state = "Pending" /\ bkFresh[b] /\ SetBackup(b, "Failed", 0)
      <3>1. Write(b, "Failed", 0)
        BY <1>3, <2>4 DEF ReconcilePending, Write, FreshCopies, Picks, WorkerMoves
      <3> QED
        BY <1>0, <1>s, <2>4, <3>1 DEF WriteStep
    <2> QED
      BY <1>3, <2>1, <2>2, <2>3, <2>4 DEF ReconcilePending
  <1>4. ASSUME NEW b \in Names, RefuseInProgress(b)
        PROVE  WriteStep \/ UNCHANGED <<bk, bkFresh>>
    <2>1. CASE bkCache[b].state = "InProgress" /\ Transition(b, "Failed")
      BY <1>s, <1>2, <1>4, <2>1 DEF RefuseInProgress, WorkerMoves
    <2>2. CASE bkCache[b].state = "InProgress" /\ bkFresh[b] /\ SetBackup(b, "Failed", 0)
      <3>1. Write(b, "Failed", 0)
        BY <1>4, <2>2 DEF RefuseInProgress, Write, FreshCopies, Picks, WorkerMoves
      <3> QED
        BY <1>0, <1>s, <2>2, <3>1 DEF WriteStep
    <2> QED
      BY <1>4, <2>1, <2>2 DEF RefuseInProgress
  <1>5. CASE FinishUpload
    <2> DEFINE b == worker.name
    <2>1. b \in Names /\ Uploading /\ worker.pc = "uploading"
      BY <1>5 DEF FinishUpload, WorkerReady, Uploading
    <2>2. Cached(b) /\ bkFresh[b] => bk[b].state = "InProgress"
      BY <2>1 DEF UploadOwned, FreshCopies, GoneForGood, Cached
    <2>3. CASE bkFresh[b] /\ Succeeded /\ SetBackup(b, "Completed", worker.at) /\ Cached(b)
      <3>1. Write(b, "Completed", worker.at)
        BY <2>1, <2>2, <2>3 DEF Write
      <3>2. SetBackup(b, "Completed", worker.at) /\ b \in Names
        BY <2>1, <2>3
      <3> HIDE DEF b
      <3> QED
        BY <1>0, <1>s, <1>1, <3>1, <3>2, WriteIsStep
    <2>4. CASE bkFresh[b] /\ SetBackup(b, "Failed", 0) /\ Cached(b)
      <3>1. Write(b, "Failed", 0)
        BY <2>1, <2>2, <2>4 DEF Write, WorkerMoves
      <3>2. SetBackup(b, "Failed", 0) /\ b \in Names
        BY <2>1, <2>4
      <3> HIDE DEF b
      <3> QED
        BY <1>0, <1>s, <1>1, <3>1, <3>2, WriteIsStep
    <2> QED
      BY <1>5, <2>3, <2>4 DEF FinishUpload
  <1>6. CASE CreateScheduled
    <2> DEFINE b == <<"scheduled", clock>>
    <2>1. b \in Names /\ CreatedAt(b) = clock
      BY <1>0 DEF Names, CreatedAt
    <2>2. CASE ~Exists(b) /\ SetBackup(b, "", 0)
      <3>1. Write(b, "", 0)
        BY <2>1, <2>2 DEF Write, Exists
      <3>2. SetBackup(b, "", 0) /\ b \in Names
        BY <2>1, <2>2
      <3> HIDE DEF b
      <3> QED
        BY <1>0, <1>s, <1>1, <3>1, <3>2, WriteIsStep
    <2> QED
      BY <1>6, <2>2 DEF CreateScheduled
  <1>7. ASSUME NEW v \in worker.victims, DeleteExpired(v)
        PROVE  WriteStep \/ UNCHANGED <<bk, bkFresh>>
    <2>1. v.name \in Names /\ v \in worker.removed
      BY <1>7 DEF TypeOK, Victims, DeleteExpired
    <2>2. CASE Exists(v.name) /\ SetBackup(v.name, "None", 0)
      <3>1. Write(v.name, "None", 0)
        BY <2>1, <2>2 DEF Write, Exists
      <3> QED
        BY <1>0, <2>1, <2>2, <3>1 DEF WriteStep
    <2> QED
      BY <1>7, <2>2 DEF DeleteExpired
  <1> QED
    BY <1>1, <1>3, <1>4, <1>5, <1>6, <1>7
    DEF WorkerStep, SkipBackup, StartUpload, SkipSchedule, AwaitSchedule,
        RecordLastBackup, RemoveArchive, FinishSchedule

\* A step leaves the Backups alone, brings the cache up to date, or writes
\* one Backup for one of the reasons above.
LEMMA BackupWrites ==
    ASSUME TypeOK, WorkerReady, FreshCopies, UploadOwned, [Next]_vars
    PROVE  \/ UNCHANGED <<bk, bkCache, bkFresh>>
           \/ CatchUp
           \/ WriteStep /\ UNCHANGED <<bkCache>>
  <1>0. /\ 0 \in 0..MaxTime /\ clock \in Keys
        /\ used.deletes \in Nat
    BY BackupAssumption DEF TypeOK, Budgets
  <1>s. {"", "Pending"} \subseteq BackupStates
    BY DEF BackupStates
  <1>1. CASE RequestBackup
    <2> DEFINE b == <<"backup", clock>>
    <2>1. b \in Names /\ CreatedAt(b) = clock
      BY <1>0 DEF Names, CreatedAt
    <2>2. Write(b, "", 0) /\ SetBackup(b, "", 0)
      BY <1>1, <2>1 DEF Write, Exists, RequestBackup
    <2> QED
      BY <1>0, <1>s, <1>1, <2>1, <2>2 DEF WriteStep, RequestBackup
  <1>2. ASSUME NEW b \in Names, SetPending(b), bk[b].state = ""
        PROVE  WriteStep /\ UNCHANGED bkCache
    <2>1. Write(b, "Pending", 0) /\ SetBackup(b, "Pending", 0)
      BY <1>2 DEF Write, SetPending
    <2> QED
      BY <1>0, <1>s, <1>2, <2>1 DEF WriteStep, SetPending
  <1>3. ASSUME NEW b \in Names, DeleteBackup(b)
        PROVE  WriteStep /\ UNCHANGED bkCache
    <2>1. used'.deletes > 0
      BY <1>0, <1>3, SpendType DEF DeleteBackup, TypeOK
    <2>2. Write(b, "None", 0) /\ SetBackup(b, "None", 0)
      BY <1>3, <2>1 DEF Write, DeleteBackup, Exists
    <2> QED
      BY <1>0, <1>3, <2>2 DEF WriteStep, DeleteBackup
  <1>4. CASE SyncBackups \/ Crash
    BY <1>4 DEF SyncBackups, Crash, CatchUp
  <1> QED
    BY <1>1, <1>2, <1>3, <1>4, WorkerWrites
    DEF Next, UploadStep, TimerFires, SyncServer, SetPending, SetBackupSchedule,
        ServerChanges, Tick, vars, backupVars

\* What the worker has at hand, step by step.
LEMMA NextWorker ==
    ASSUME TypeOK, WorkerReady, [Next]_vars
    PROVE  WorkerReady'
  <1>0. /\ worker \in WorkerStates /\ clock \in Keys /\ clock \in 0..MaxTime
        /\ s3Client \in BOOLEAN /\ 0 \in 0..MaxTime
    BY BackupAssumption DEF TypeOK, WorkerReady
  <1>1. CASE worker' = Idle
    <2>1. Idle \in WorkerStates
      BY <1>0 DEF Idle, WorkerStates
    <2> QED
      BY <1>1, <2>1 DEF WorkerReady, Idle, Uploading
  <1>2. CASE UNCHANGED worker /\ (Uploading => s3Client')
    BY <1>2 DEF WorkerReady, Uploading
  <1>3. ASSUME NEW b \in Names, StartUpload(b)
        PROVE  WorkerReady'
    <2>1. worker' = [pc |-> "uploading", name |-> b, at |-> clock, victims |-> {},
                     removed |-> {}]
      BY <1>3 DEF StartUpload, Idle
    <2>2. worker' \in WorkerStates
      BY <1>0, <2>1 DEF WorkerStates
    <2>3. s3Client'
      BY <1>3 DEF StartUpload
    <2> QED
      BY <1>0, <2>1, <2>2, <2>3 DEF WorkerReady, Uploading
  <1>4. CASE worker' = [Idle EXCEPT !.pc = "recording", !.at = clock]
    <2>1. worker' = [pc |-> "recording", name |-> Schedule, at |-> clock,
                     victims |-> {}, removed |-> {}]
      BY <1>4 DEF Idle
    <2>2. worker' \in WorkerStates
      BY <1>0, <2>1 DEF WorkerStates
    <2> QED
      BY <1>0, <2>1, <2>2 DEF WorkerReady, Uploading
  <1>5. ASSUME NEW victims \in SUBSET Victims, Retain(victims), RecordLastBackup
        PROVE  WorkerReady'
    <2>1. worker' \in WorkerStates /\ worker'.pc = "retaining" /\ worker'.at = worker.at
          /\ worker'.removed = worker.removed
      BY <1>0, <1>5 DEF Retain, WorkerStates
    <2>2. worker.at \in Keys
      BY <1>5 DEF RecordLastBackup, WorkerReady
    <2> QED
      BY <2>1, <2>2 DEF WorkerReady, Uploading
  <1>6. CASE RecordLastBackup
    <2>1. Expiring(bkCache) \subseteq SUBSET Victims
      BY ExpiringType DEF TypeOK
    <2> QED
      BY <1>1, <1>5, <1>6, <2>1 DEF RecordLastBackup
  <1>7. ASSUME NEW v \in worker.victims, RemoveArchive(v)
        PROVE  WorkerReady'
    <2>1. /\ worker' \in WorkerStates /\ worker'.pc = "retaining"
          /\ worker'.at = worker.at /\ worker'.removed = {v}
      BY <1>0, <1>7 DEF RemoveArchive, WorkerStates
    <2>2. worker.at \in Keys
      BY <1>7 DEF RemoveArchive, WorkerReady
    <2> QED
      BY <2>1, <2>2 DEF WorkerReady, Uploading
  <1>8. ASSUME NEW v \in worker.victims, DeleteExpired(v)
        PROVE  WorkerReady'
    <2>1. /\ worker' \in WorkerStates /\ worker'.pc = "retaining"
          /\ worker'.at = worker.at /\ worker'.removed = {}
      BY <1>0, <1>8 DEF DeleteExpired, WorkerStates
    <2>2. worker.at \in Keys
      BY <1>8 DEF DeleteExpired, WorkerReady
    <2> QED
      BY <2>1, <2>2 DEF WorkerReady, Uploading
  <1>9. ASSUME NEW b \in Names, RefuseInProgress(b)
        PROVE  WorkerReady'
    BY <1>2, <1>9 DEF RefuseInProgress, Picks, Uploading
  <1>10. CASE FinishUpload \/ FinishSchedule \/ Crash \/ CreateScheduled
    BY <1>1, <1>2, <1>4, <1>10
    DEF FinishUpload, FinishSchedule, Crash, CreateScheduled, Picks, Uploading
  <1>11. CASE \/ UploadStep \/ TimerFires \/ SyncServer \/ SyncBackups
              \/ \E b \in Names : SetPending(b) \/ DeleteBackup(b)
              \/ RequestBackup
              \/ \E on \in BOOLEAN : SetBackupSchedule(on)
              \/ \E state \in {"Running", "Idle", "Gone"} : ServerChanges(state)
              \/ Tick
              \/ \E b \in Names : SkipBackup(b) \/ ReconcilePending(b)
              \/ SkipSchedule \/ AwaitSchedule
              \/ UNCHANGED vars
    <2>1. UNCHANGED <<worker, s3Client>>
      BY <1>11 DEF UploadStep, TimerFires, SyncServer, SyncBackups, SetPending,
                   DeleteBackup, RequestBackup, SetBackupSchedule, ServerChanges,
                   Tick, SkipBackup, ReconcilePending, SkipSchedule, AwaitSchedule,
                   vars, backupVars
    <2> QED
      BY <1>2, <2>1 DEF WorkerReady
  <1> QED
    BY <1>3, <1>6, <1>7, <1>8, <1>9, <1>10, <1>11 DEF Next, WorkerStep

-----------------------------------------------------------------------------
(***************************************************************************)
(* Copies and the states they show.                                        *)
(***************************************************************************)
\* The Backup a write is about, before and after.
LEMMA WriteEffect ==
    ASSUME TypeOK, NEW b \in Names, NEW s, NEW k, SetBackup(b, s, k)
    PROVE  /\ bk'[b].state = s /\ bk'[b].key = k /\ ~bkFresh'[b]
           /\ \A c \in Names \ {b} : bk'[c] = bk[c] /\ bkFresh'[c] = bkFresh[c]
  BY DEF SetBackup, TypeOK

\* A copy marked as the newest is; a completed Backup, and no other, has a key.
LEMMA NextCopies ==
    ASSUME IInv, [Next]_vars
    PROVE  FreshCopies' /\ KeysNamed'
  <1>1. TypeOK /\ WorkerReady /\ FreshCopies /\ UploadOwned /\ KeysNamed
    BY DEF IInv
  <1>2. gsFresh' => gsCache' = gs'
    <2>1. \/ UNCHANGED <<gs, gsCache, gsFresh>>
          \/ gsFresh' = FALSE
          \/ gsCache' = gs /\ UNCHANGED gs
      BY DEF Next, WorkerStep, SkipBackup, ReconcilePending, RefuseInProgress,
             StartUpload, FinishUpload, SkipSchedule, AwaitSchedule, CreateScheduled,
             RecordLastBackup, RemoveArchive, DeleteExpired, FinishSchedule,
             UploadStep, TimerFires, SyncServer, SyncBackups, SetPending,
             DeleteBackup, RequestBackup, SetBackupSchedule, ServerChanges, Tick,
             Crash, vars, backupVars, SetServer
    <2> QED
      BY <1>1, <2>1 DEF FreshCopies
  <1>3. CASE UNCHANGED <<bk, bkCache, bkFresh>>
    BY <1>1, <1>2, <1>3 DEF FreshCopies, KeysNamed
  <1>4. CASE CatchUp
    BY <1>1, <1>2, <1>4 DEF CatchUp, FreshCopies, KeysNamed
  <1>5. CASE WriteStep /\ UNCHANGED bkCache
    <2>1. PICK b \in Names, s \in BackupStates \cup {"None"}, k \in 0..MaxTime :
            Write(b, s, k) /\ SetBackup(b, s, k)
      BY <1>5 DEF WriteStep
    <2>2. /\ bk'[b].state = s /\ bk'[b].key = k /\ ~bkFresh'[b]
          /\ \A c \in Names \ {b} : bk'[c] = bk[c] /\ bkFresh'[c] = bkFresh[c]
      BY <1>1, <2>1, WriteEffect
    <2>3. FreshCopies'
      BY <1>1, <1>2, <1>5, <2>2 DEF FreshCopies
    <2>4. KeyNamed(bk'[b])
      BY <1>1, <2>1, <2>2 DEF Write, WorkerReady, KeyNamed, Uploading, WorkerMoves
    <2>5. KeysNamed'
      BY <1>1, <1>5, <2>2, <2>4 DEF KeysNamed, KeyNamed
    <2> QED
      BY <2>3, <2>5
  <1> QED
    BY <1>1, <1>3, <1>4, <1>5, BackupWrites

\* How far the cache lags behind a Backup in progress, or completed.
LEMMA NextLag ==
    ASSUME IInv, [Next]_vars
    PROVE  InProgressLag' /\ CompletedLag'
  <1>1. /\ TypeOK /\ WorkerReady /\ FreshCopies /\ UploadOwned
        /\ InProgressLag /\ CompletedLag /\ VictimsKept
    BY DEF IInv
  <1>2. /\ clock \in Nat /\ clock' \in Nat /\ clock <= clock'
        /\ used.deletes \in Nat /\ used'.deletes \in Nat
        /\ used.deletes <= used'.deletes
        /\ expired \subseteq expired'
    <2>1. TypeOK' /\ Monotone
      BY <1>1, NextType, NextMonotone
    <2> QED
      BY <1>1, <2>1, BackupAssumption DEF TypeOK, Monotone, Budgets
  <1>n. \A b \in Names : CreatedAt(b) \in Nat
    BY BackupAssumption DEF Names, CreatedAt
  <1>d. used.deletes > 0 => used'.deletes > 0
    BY <1>2
  <1>3. \A b \in Names : used.deletes > 0 \/ Expired(b)
                            => used'.deletes > 0 \/ Expired(b)'
    BY <1>2, <1>d DEF Expired
  <1>4. \A b \in Names : bk'[b] = bk[b] /\ GoneForGood(b) => GoneForGood(b)'
    BY <1>2, <1>n, <1>d DEF GoneForGood
  <1>5. CASE UNCHANGED <<bk, bkCache, bkFresh>>
    <2>1. InProgressLag'
      BY <1>1, <1>4, <1>5 DEF InProgressLag
    <2>2. CompletedLag'
      BY <1>1, <1>3, <1>5 DEF CompletedLag
    <2> QED
      BY <2>1, <2>2
  <1>6. CASE CatchUp
    <2>1. InProgressLag'
      BY <1>6 DEF CatchUp, InProgressLag
    <2>2. CompletedLag'
      BY <1>6 DEF CatchUp, CompletedLag
    <2> QED
      BY <2>1, <2>2
  <1>7. CASE WriteStep /\ UNCHANGED bkCache
    <2>1. PICK b \in Names, s \in BackupStates \cup {"None"}, k \in 0..MaxTime :
            Write(b, s, k) /\ SetBackup(b, s, k)
      BY <1>7 DEF WriteStep
    <2>2. /\ bk'[b].state = s /\ bk'[b].key = k /\ ~bkFresh'[b]
          /\ \A c \in Names \ {b} : bk'[c] = bk[c] /\ bkFresh'[c] = bkFresh[c]
      BY <1>1, <2>1, WriteEffect
    <2>3. InProgressLag'
      <3> SUFFICES ASSUME NEW c \in Names
                   PROVE  /\ bkCache[c].state = "InProgress" =>
                                \/ bk'[c].state = "InProgress" /\ bkFresh'[c]
                                \/ IsBackupTerminal(bk'[c].state)
                                \/ GoneForGood(c)'
                          /\ bk'[c].state = "InProgress"
                                => bkCache[c].state \in {"Pending", "InProgress"}
        BY <1>7 DEF InProgressLag
      <3>1. CASE c # b
        BY <1>1, <1>4, <2>2, <3>1 DEF InProgressLag
      <3>2. CASE c = b
        <4>1. CASE bk[b].state = "None" /\ CreatedAt(b) = clock /\ s = ""
          <5>1. ~GoneForGood(b)
            <6>1. clock \in Nat /\ CreatedAt(b) = clock
              BY <1>2, <4>1
            <6>2. ~(CreatedAt(b) < clock)
              BY <6>1
            <6> QED
              BY <6>2 DEF GoneForGood
          <5>2. bkCache[b].state # "InProgress"
            BY <1>1, <4>1, <5>1 DEF InProgressLag, IsBackupTerminal
          <5> QED
            BY <2>2, <3>2, <4>1, <5>2
        <4>2. CASE bk[b].state = "" /\ s = "Pending"
          BY <1>1, <2>2, <3>2, <4>2 DEF InProgressLag, GoneForGood, IsBackupTerminal
        <4>3. CASE bkFresh[b] /\ <<bk[b].state, s>> \in WorkerMoves
          BY <1>1, <2>2, <3>2, <4>3 DEF FreshCopies, IsBackupTerminal, WorkerMoves
        <4>4. CASE bkFresh[b] /\ bk[b].state = "InProgress" /\ s = "Completed"
          BY <1>1, <2>2, <3>2, <4>4 DEF FreshCopies, IsBackupTerminal
        <4>5. CASE s = "None" /\ CreatedAt(b) < clock /\ used'.deletes > 0
          BY <1>2, <1>n, <2>2, <3>2, <4>5 DEF GoneForGood
        <4>6. CASE s = "None" /\ \E v \in worker.removed : v.name = b
          BY <1>1, <2>2, <3>2, <4>6 DEF VictimsKept, TypeOK
        <4> QED
          BY <2>1, <4>1, <4>2, <4>3, <4>4, <4>5, <4>6 DEF Write
      <3> QED
        BY <3>1, <3>2
    <2>4. CompletedLag'
      <3> SUFFICES ASSUME NEW c \in Names, bkCache[c].state = "Completed"
                   PROVE  \/ bk'[c] = bkCache[c]
                          \/ /\ bk'[c].state \in {"None", "", "Pending"}
                             /\ used'.deletes > 0 \/ Expired(c)'
        BY <1>7 DEF CompletedLag
      <3>1. CASE c # b
        BY <1>1, <1>3, <2>2, <3>1 DEF CompletedLag
      <3>2. CASE c = b
        <4>1. CASE bk[b].state = "None" /\ CreatedAt(b) = clock /\ s = ""
          BY <1>1, <1>3, <2>2, <3>2, <4>1 DEF CompletedLag
        <4>6. CASE bk[b].state = "" /\ s = "Pending"
          BY <1>1, <1>3, <2>2, <3>2, <4>6 DEF CompletedLag
        <4>2. CASE bkFresh[b] /\ <<bk[b].state, s>> \in WorkerMoves
          BY <1>1, <3>2, <4>2 DEF FreshCopies, WorkerMoves
        <4>5. CASE bkFresh[b] /\ bk[b].state = "InProgress" /\ s = "Completed"
          BY <1>1, <3>2, <4>5 DEF FreshCopies
        <4>3. CASE s = "None" /\ CreatedAt(b) < clock /\ used'.deletes > 0
          BY <2>2, <3>2, <4>3
        <4>4. CASE s = "None" /\ \E v \in worker.removed : v.name = b
          <5>1. Expired(b)
            BY <1>1, <4>4 DEF TypeOK, Expired
          <5> QED
            BY <1>3, <2>2, <3>2, <4>4, <5>1
        <4> QED
          BY <2>1, <4>1, <4>2, <4>3, <4>4, <4>5, <4>6 DEF Write
      <3> QED
        BY <3>1, <3>2
    <2> QED
      BY <2>3, <2>4
  <1> QED
    BY <1>1, <1>5, <1>6, <1>7, BackupWrites

-----------------------------------------------------------------------------
(***************************************************************************)
(* The worker and the Backup it works at.                                  *)
(***************************************************************************)
\* A step that is not one of the worker's.
OtherStep ==
    \/ UploadStep \/ TimerFires \/ SyncServer \/ SyncBackups
    \/ \E b \in Names : SetPending(b) \/ DeleteBackup(b)
    \/ RequestBackup
    \/ \E on \in BOOLEAN : SetBackupSchedule(on)
    \/ \E state \in {"Running", "Idle", "Gone"} : ServerChanges(state)
    \/ Tick
    \/ UNCHANGED vars

\* Only the worker's steps and a crash change what it is doing.
LEMMA OtherStepWorker ==
    ASSUME OtherStep
    PROVE  UNCHANGED <<worker, s3Client, expired, slips>>
  BY DEF OtherStep, UploadStep, TimerFires, SyncServer, SyncBackups, SetPending,
         DeleteBackup, RequestBackup, SetBackupSchedule, ServerChanges, Tick, vars,
         backupVars

\* Beside the worker only the informer adds a Backup to the queue, one that
\* has not ended and whose copy was outdated.
LEMMA OtherStepQueue ==
    ASSUME OtherStep, NEW b \in Names, b \in queue'
    PROVE  b \in queue \/ (~bkFresh[b] /\ Unfinished(bk[b]) /\ bk' = bk)
  <1>1. b # Schedule
    BY DEF Names, Schedule
  <1>2. CASE UNCHANGED queue
    BY <1>2
  <1>3. CASE TimerFires \/ SyncServer \/ SyncBackups
    BY <1>1, <1>3 DEF TimerFires, SyncServer, SyncBackups
  <1> QED
    BY <1>2, <1>3
    DEF OtherStep, UploadStep, SetPending, DeleteBackup, RequestBackup,
        SetBackupSchedule, ServerChanges, Tick, vars, backupVars

\* A Backup that has ended is not queued, and stays so.
LEMMA NextEnded ==
    ASSUME IInv, [Next]_vars
    PROVE  EndedAtRest'
  <1>1. /\ TypeOK /\ WorkerReady /\ FreshCopies /\ UploadOwned /\ EndedAtRest
    BY DEF IInv
  <1>2. \A b \in Names : b # Schedule
    BY DEF Names, Schedule
  <1>3. ASSUME \A b \in Names : b \in queue' => b \in queue,
               \A b \in Names : IsBackupTerminal(bk'[b].state) => bk'[b] = bk[b]
        PROVE  EndedAtRest'
    BY <1>1, <1>3 DEF EndedAtRest
  <1>4. ASSUME NEW b \in Names, NEW s, NEW k, SetBackup(b, s, k), ~IsBackupTerminal(s)
        PROVE  \A c \in Names : IsBackupTerminal(bk'[c].state) => bk'[c] = bk[c]
    BY <1>1, <1>4 DEF SetBackup, TypeOK
  <1>5. ~IsBackupTerminal("") /\ ~IsBackupTerminal("Pending")
        /\ ~IsBackupTerminal("None") /\ ~IsBackupTerminal("InProgress")
    BY DEF IsBackupTerminal
  <1>6. ASSUME NEW b \in Names, NEW s, Picks(b), Transition(b, s)
        PROVE  EndedAtRest'
    <2>1. CASE SetBackup(b, s, 0) /\ IsBackupTerminal(s) /\ queue' = queue \ {b}
      BY <1>1, <2>1 DEF EndedAtRest, SetBackup, TypeOK
    <2>2. CASE SetBackup(b, s, 0) /\ ~IsBackupTerminal(s) /\ queue' = queue \cup {b}
      BY <1>3, <1>4, <1>6, <2>2 DEF Picks
    <2>3. CASE UNCHANGED bk /\ queue' = queue \cup {b}
      BY <1>3, <1>6, <2>3 DEF Picks
    <2> QED
      BY <1>6, <2>1, <2>2, <2>3 DEF Transition
  <1>7. ASSUME NEW b \in Names, ReconcilePending(b) \/ RefuseInProgress(b)
        PROVE  EndedAtRest'
    <2>1. CASE SetBackup(b, "Failed", 0) /\ queue' = queue \ {b}
      BY <1>1, <2>1 DEF EndedAtRest, SetBackup, TypeOK
    <2>2. CASE \E s \in BackupStates : Transition(b, s)
      BY <1>6, <1>7, <2>2 DEF ReconcilePending, RefuseInProgress
    <2>3. {"Pending", "InProgress", "Failed"} \subseteq BackupStates
      BY DEF BackupStates
    <2> QED
      BY <1>7, <2>1, <2>2, <2>3 DEF ReconcilePending, RefuseInProgress
  <1>8. CASE FinishUpload
    <2> DEFINE b == worker.name
    <2>1. b \in Names
      BY <1>1, <1>8 DEF FinishUpload, WorkerReady
    <2>2. \/ bk[b].state = "InProgress" /\ b \notin queue
          \/ bk[b].state = "None"
      BY <1>1, <1>8 DEF FinishUpload, UploadOwned, GoneForGood
    <2>3. CASE UNCHANGED bk /\ queue' = queue \cup {b}
      BY <1>1, <2>2, <2>3 DEF EndedAtRest, IsBackupTerminal
    <2>4. CASE /\ Cached(b) /\ bkFresh[b] /\ UNCHANGED queue
               /\ \E s, k : SetBackup(b, s, k)
      <3>1. b \notin queue
        BY <1>1, <2>1, <2>2, <2>4 DEF FreshCopies, Cached
      <3> QED
        BY <1>1, <2>1, <2>4, <3>1 DEF EndedAtRest, SetBackup, TypeOK
    <2> QED
      BY <1>8, <2>3, <2>4 DEF FinishUpload
  <1>9. CASE CreateScheduled
    <2>1. <<"scheduled", clock>> \in Names
      BY <1>1, BackupAssumption DEF TypeOK, Names
    <2>2. \A b \in Names : b \in queue' => b \in queue
      BY <1>9 DEF CreateScheduled
    <2>3. \A b \in Names : IsBackupTerminal(bk'[b].state) => bk'[b] = bk[b]
      <3>1. CASE SetBackup(<<"scheduled", clock>>, "", 0)
        BY <1>4, <1>5, <2>1, <3>1
      <3> QED
        BY <1>9, <3>1 DEF CreateScheduled
    <2> QED
      BY <1>3, <2>2, <2>3
  <1>10. ASSUME NEW v \in worker.victims, DeleteExpired(v)
         PROVE  EndedAtRest'
    <2>1. v.name \in Names /\ UNCHANGED queue
      BY <1>1, <1>10 DEF TypeOK, Victims, DeleteExpired
    <2>2. \A b \in Names : IsBackupTerminal(bk'[b].state) => bk'[b] = bk[b]
      <3>1. CASE SetBackup(v.name, "None", 0)
        BY <1>4, <1>5, <2>1, <3>1
      <3> QED
        BY <1>10, <3>1 DEF DeleteExpired
    <2> QED
      BY <1>3, <2>1, <2>2
  <1>11. CASE \/ \E b \in Names : SkipBackup(b) \/ StartUpload(b)
              \/ SkipSchedule \/ AwaitSchedule \/ FinishSchedule \/ RecordLastBackup
              \/ \E v \in worker.victims : RemoveArchive(v)
    <2>1. UNCHANGED bk /\ queue' \subseteq queue \cup {Schedule}
      BY <1>11 DEF SkipBackup, StartUpload, SkipSchedule, AwaitSchedule,
                   FinishSchedule, RecordLastBackup, RemoveArchive
    <2> QED
      BY <1>2, <1>3, <2>1
  <1>12. CASE OtherStep
    <2>1. \A b \in Names : IsBackupTerminal(bk'[b].state) => bk'[b] = bk[b]
      <3>1. CASE UNCHANGED bk
        BY <3>1
      <3>2. CASE RequestBackup
        <4>1. <<"backup", clock>> \in Names
          BY <1>1, BackupAssumption DEF TypeOK, Names
        <4> QED
          BY <1>4, <1>5, <3>2, <4>1 DEF RequestBackup
      <3>3. CASE \E b \in Names : SetBackup(b, "None", 0) \/ SetBackup(b, "Pending", 0)
        BY <1>4, <1>5, <3>3
      <3> QED
        BY <1>12, <3>1, <3>2, <3>3
        DEF OtherStep, UploadStep, TimerFires, SyncServer, SyncBackups, SetPending,
            DeleteBackup, SetBackupSchedule, ServerChanges, Tick, vars, backupVars
    <2> SUFFICES ASSUME NEW b \in Names, IsBackupTerminal(bk'[b].state)
                 PROVE  b \notin queue'
      BY DEF EndedAtRest
    <2>2. bk'[b] = bk[b] /\ b \notin queue
      BY <1>1, <2>1 DEF EndedAtRest
    <2>3. ~Unfinished(bk[b])
      BY <2>2 DEF Unfinished, IsBackupTerminal
    <2> QED
      BY <1>12, <2>2, <2>3, OtherStepQueue
  <1>13. CASE Crash
    <2>1. UNCHANGED bk /\ \A b \in Names : b \in queue' => Unfinished(bk[b])
      BY <1>2, <1>13 DEF Crash
    <2> QED
      BY <2>1 DEF EndedAtRest, Unfinished, IsBackupTerminal
  <1> QED
    BY <1>7, <1>8, <1>9, <1>10, <1>11, <1>12, <1>13 DEF Next, WorkerStep, OtherStep

\* The worker begins an upload, under the key of the second it is.
LEMMA StartWorker ==
    ASSUME NEW b \in Names, StartUpload(b)
    PROVE  /\ worker.pc = "idle" /\ worker'.pc = "uploading" /\ worker'.name = b
           /\ worker'.at = clock /\ worker'.victims = {} /\ worker'.removed = {}
  BY DEF StartUpload, Picks, Idle

\* What the worker turns to when it records a scheduled backup: it gives up,
\* or retention begins with what it has chosen, if anything.
LEMMA RecordWorker ==
    ASSUME WorkerReady, RecordLastBackup
    PROVE  \/ worker' = Idle /\ UNCHANGED expired
           \/ \E victims \in Expiring(bkCache) \cup {{}} :
                 /\ worker'.pc = "retaining" /\ worker'.victims = victims
                 /\ worker'.at = worker.at /\ worker'.removed = worker.removed
                 /\ expired' = expired \cup victims
  <1>1. ASSUME NEW victims, Retain(victims)
        PROVE  /\ worker'.pc = "retaining" /\ worker'.victims = victims
               /\ worker'.at = worker.at /\ worker'.removed = worker.removed
               /\ expired' = expired \cup victims
    BY <1>1 DEF Retain, WorkerReady, WorkerStates
  <1> QED
    BY <1>1 DEF RecordLastBackup

\* What it has left to do while retention is at work.
LEMMA RetainWorker ==
    ASSUME WorkerReady, NEW v \in worker.victims
    PROVE  /\ RemoveArchive(v) =>
                 /\ worker.pc = "retaining" /\ worker'.pc = "retaining"
                 /\ worker'.at = worker.at /\ worker'.victims = worker.victims
                 /\ worker'.removed = {v}
           /\ DeleteExpired(v) =>
                 /\ worker.pc = "retaining" /\ worker'.pc = "retaining"
                 /\ worker'.at = worker.at
                 /\ worker'.victims = worker.victims \ {v} /\ worker'.removed = {}
  BY DEF RemoveArchive, DeleteExpired, WorkerReady, WorkerStates

\* The worker begins to record a scheduled backup, or has failed to create it.
LEMMA CreateWorker ==
    ASSUME CreateScheduled
    PROVE  /\ worker.pc = "idle"
           /\ \/ UNCHANGED <<worker, bk>>
              \/ /\ worker'.pc = "recording" /\ worker'.at = clock
                 /\ worker'.victims = {} /\ worker'.removed = {}
  BY DEF CreateScheduled, Picks, Idle

\* None of the steps at the schedule leads to an upload.
LEMMA ScheduleNotUploading ==
    ASSUME WorkerReady,
           \/ CreateScheduled \/ RecordLastBackup \/ FinishSchedule
           \/ \E v \in worker.victims : RemoveArchive(v) \/ DeleteExpired(v)
    PROVE  ~Uploading'
  <1>1. CASE RecordLastBackup
    BY <1>1, RecordWorker DEF Uploading, Idle
  <1>2. CASE CreateScheduled
    BY <1>2, CreateWorker DEF Uploading
  <1>3. CASE FinishSchedule
    BY <1>3 DEF FinishSchedule, Uploading, Idle
  <1>4. CASE \E v \in worker.victims : RemoveArchive(v) \/ DeleteExpired(v)
    BY <1>4, RetainWorker DEF Uploading
  <1> QED
    BY <1>1, <1>2, <1>3, <1>4

\* What goes on during an upload does not touch the Backup, but for its
\* deletion by an administrator.
LEMMA NextUploadOwned ==
    ASSUME IInv, [Next]_vars
    PROVE  UploadOwned'
  <1>1. /\ TypeOK /\ WorkerReady /\ FreshCopies /\ UploadOwned /\ EndedAtRest
        /\ InProgressLag
    BY DEF IInv
  <1>2. clock \in Nat /\ clock' \in Nat /\ used.deletes \in Nat
        /\ used'.deletes \in Nat /\ clock <= clock' /\ used.deletes <= used'.deletes
    <2>1. TypeOK' /\ Monotone
      BY <1>1, NextType, NextMonotone
    <2> QED
      BY <1>1, <2>1, BackupAssumption DEF TypeOK, Monotone, Budgets
  <1>n. \A b \in Names : CreatedAt(b) \in Nat
    BY BackupAssumption DEF Names, CreatedAt
  <1>3. ASSUME NEW b \in Names, StartUpload(b)
        PROVE  UploadOwned'
    <2>1. /\ worker'.name = b /\ UNCHANGED <<bk, bkFresh, clock, used>>
          /\ b \in queue /\ bkCache[b].state = "InProgress" /\ b \notin queue'
      BY <1>3 DEF StartUpload, Idle, Picks
    <2>2. ~IsBackupTerminal(bk[b].state)
      BY <1>1, <2>1 DEF EndedAtRest
    <2>3. (bk[b].state = "InProgress" /\ bkFresh[b]) \/ GoneForGood(b)
      BY <1>1, <2>1, <2>2 DEF InProgressLag
    <2> QED
      BY <2>1, <2>3 DEF UploadOwned, GoneForGood
  <1>4. CASE OtherStep /\ Uploading
    <2> DEFINE n == worker.name
    <2>1. n \in Names /\ UNCHANGED worker
      BY <1>1, <1>4, OtherStepWorker DEF WorkerReady
    <2>2. CASE bk'[n] = bk[n] /\ GoneForGood(n)
      <3>1. bk'[n].state = "None" /\ CreatedAt(n) < clock' /\ used'.deletes > 0
        BY <1>2, <1>n, <2>1, <2>2 DEF GoneForGood
      <3> QED
        BY <2>1, <3>1 DEF UploadOwned, GoneForGood
    <2>3. CASE /\ bk'[n] = bk[n] /\ bkFresh'[n]
               /\ bk[n].state = "InProgress" /\ bkFresh[n] /\ n \notin queue
      <3>1. n \notin queue'
        BY <1>4, <2>1, <2>3, OtherStepQueue
      <3> QED
        BY <2>1, <2>3, <3>1 DEF UploadOwned
    <2>4. CASE UNCHANGED <<bk, bkCache, bkFresh>> \/ CatchUp
      <3>1. bk'[n] = bk[n] /\ (bkFresh[n] => bkFresh'[n])
        BY <2>1, <2>4 DEF CatchUp
      <3> QED
        BY <1>1, <1>4, <2>2, <2>3, <3>1 DEF UploadOwned
    <2>5. ASSUME NEW b \in Names, NEW s, NEW k, b # n, SetBackup(b, s, k)
          PROVE  UploadOwned'
      <3>1. bk'[n] = bk[n] /\ bkFresh'[n] = bkFresh[n]
        BY <1>1, <2>1, <2>5 DEF SetBackup, TypeOK
      <3> QED
        BY <1>1, <1>4, <2>2, <2>3, <3>1 DEF UploadOwned
    <2>6. CASE RequestBackup
      <3>1. <<"backup", clock>> \in Names
        BY <1>1, BackupAssumption DEF TypeOK, Names
      <3>2. CreatedAt(<<"backup", clock>>) = clock
        BY DEF CreatedAt
      <3>3. bk[<<"backup", clock>>].state = "None"
        BY <1>4, <2>6 DEF RequestBackup, Exists
      <3>4. <<"backup", clock>> # n
        <4>1. ~(clock < clock)
          BY <1>2
        <4> QED
          BY <1>1, <1>4, <3>2, <3>3, <4>1 DEF UploadOwned, GoneForGood
      <3> QED
        BY <2>5, <2>6, <3>1, <3>4 DEF RequestBackup
    <2>7. ASSUME NEW b \in Names, SetPending(b)
          PROVE  UploadOwned'
      <3>1. CASE bk[b].state = ""
        <4>1. b # n
          BY <1>1, <1>4, <3>1 DEF UploadOwned, GoneForGood
        <4> QED
          BY <2>5, <2>7, <3>1, <4>1 DEF SetPending
      <3>2. CASE bk[b].state # ""
        BY <2>4, <2>7, <3>2 DEF SetPending
      <3> QED
        BY <3>1, <3>2
    <2>8. ASSUME NEW b \in Names, DeleteBackup(b)
          PROVE  UploadOwned'
      <3>1. CASE b # n
        BY <2>5, <2>8, <3>1 DEF DeleteBackup
      <3>2. CASE b = n
        <4>1. bk'[n].state = "None"
          BY <1>1, <2>1, <2>8, <3>2 DEF DeleteBackup, SetBackup, TypeOK
        <4>2. CreatedAt(n) < clock'
          BY <2>8, <3>2 DEF DeleteBackup
        <4>3. used'.deletes > 0
          <5>1. used'.deletes = used.deletes + 1
            BY <1>1, <2>8, SpendType DEF DeleteBackup, TypeOK
          <5> QED
            BY <1>2, <5>1
        <4> QED
          BY <2>1, <4>1, <4>2, <4>3 DEF UploadOwned, GoneForGood
      <3> QED
        BY <3>1, <3>2
    <2>9. CASE SyncBackups
      BY <2>4, <2>9 DEF SyncBackups, CatchUp
    <2> QED
      BY <1>4, <2>4, <2>6, <2>7, <2>8, <2>9
      DEF OtherStep, UploadStep, TimerFires, SyncServer, SetBackupSchedule,
          ServerChanges, Tick, vars, backupVars
  <1>5. CASE ~Uploading'
    BY <1>5 DEF UploadOwned
  <1>6. CASE OtherStep /\ ~Uploading
    BY <1>5, <1>6, OtherStepWorker DEF Uploading
  <1>7. CASE Crash \/ FinishUpload \/ FinishSchedule
    BY <1>5, <1>7 DEF Crash, FinishUpload, FinishSchedule, Uploading, Idle
  <1>8. CASE \/ \E b \in Names : SkipBackup(b) \/ ReconcilePending(b) \/ RefuseInProgress(b)
             \/ SkipSchedule \/ AwaitSchedule
    BY <1>5, <1>8 DEF SkipBackup, ReconcilePending, RefuseInProgress, SkipSchedule,
                      AwaitSchedule, Picks, Uploading
  <1>9. CASE \/ CreateScheduled \/ RecordLastBackup
             \/ \E v \in worker.victims : RemoveArchive(v) \/ DeleteExpired(v)
    BY <1>1, <1>5, <1>9, ScheduleNotUploading
  <1> QED
    BY <1>3, <1>4, <1>6, <1>7, <1>8, <1>9 DEF Next, WorkerStep, OtherStep

\* The pipe carries the end of a whole archive or an error, and the upload
\* stores what it carries.
LEMMA NextPipe ==
    ASSUME IInv, [Next]_vars
    PROVE  PipeSound' /\ ArchivesWhole'
  <1>1. /\ TypeOK /\ WorkerReady /\ PipeSound /\ ArchivesWhole
        /\ pipe \in Pipes /\ s3 \in [Keys -> Contents] /\ worker \in WorkerStates
    BY DEF IInv, TypeOK, WorkerReady
  <1>2. CASE UNCHANGED <<pipe, s3>> /\ (Uploading' => Uploading /\ UNCHANGED worker)
    BY <1>1, <1>2 DEF PipeSound, ArchivesWhole, Uploading
  <1>3. CASE UploadStep
    <2>1. Uploading /\ UNCHANGED worker /\ worker.at \in Keys
      BY <1>1, <1>3 DEF UploadStep, WorkerReady, Uploading
    <2>2. CASE ExecReturns \/ ExecFails \/ CloseAfterFailure \/ CloseAtEnd \/ AbortUpload
      BY <1>1, <2>1, <2>2
      DEF ExecReturns, ExecFails, CloseAfterFailure, CloseAtEnd, AbortUpload,
          PipeSound, ArchivesWhole, Uploading, Pipes
    <2>3. CASE CompleteUpload(worker.at)
      <3>1. s3' = [s3 EXCEPT ![worker.at] = "whole"]
        BY <1>1, <2>3 DEF CompleteUpload, Put, PipeSound
      <3>2. pipe' = [pipe EXCEPT !.up = "ok"]
        BY <2>3 DEF CompleteUpload
      <3> QED
        BY <1>1, <2>1, <3>1, <3>2 DEF PipeSound, ArchivesWhole, Uploading, Pipes
    <2>4. CASE UploadFails(worker.at)
      <3>1. UNCHANGED s3 \/ s3' = [s3 EXCEPT ![worker.at] = "whole"]
        BY <1>1, <2>4 DEF UploadFails, Put, PipeSound
      <3>2. pipe' = [pipe EXCEPT !.up = "err"]
        BY <2>4 DEF UploadFails
      <3> QED
        BY <1>1, <2>1, <3>1, <3>2 DEF PipeSound, ArchivesWhole, Uploading, Pipes
    <2> QED
      BY <1>3, <2>2, <2>3, <2>4 DEF UploadStep, Transfer
  <1>4. CASE \E b \in Names : StartUpload(b)
    BY <1>1, <1>4 DEF StartUpload, NewPipe, PipeSound, ArchivesWhole
  <1>5. CASE FinishUpload \/ Crash
    BY <1>1, <1>5 DEF FinishUpload, Crash, NoPipe, PipeSound, ArchivesWhole, Idle,
                      Uploading
  <1>6. CASE \E v \in worker.victims : RemoveArchive(v)
    <2>1. PICK v \in worker.victims : RemoveArchive(v)
      BY <1>6
    <2>2. ~Uploading'
      BY <1>1, <2>1 DEF RemoveArchive, Uploading, WorkerStates
    <2>3. UNCHANGED pipe /\ (UNCHANGED s3 \/ s3' = [s3 EXCEPT ![v.key] = "none"])
      BY <2>1 DEF RemoveArchive
    <2> QED
      BY <1>1, <2>2, <2>3 DEF PipeSound, ArchivesWhole
  <1>7. CASE OtherStep /\ ~UploadStep
    <2>1. UNCHANGED <<pipe, s3>>
      BY <1>7 DEF OtherStep, TimerFires, SyncServer, SyncBackups, SetPending,
                  DeleteBackup, RequestBackup, SetBackupSchedule, ServerChanges,
                  Tick, vars
    <2> QED
      BY <1>2, <1>7, <2>1, OtherStepWorker DEF Uploading
  <1>8. CASE \/ \E b \in Names : SkipBackup(b) \/ ReconcilePending(b) \/ RefuseInProgress(b)
             \/ SkipSchedule \/ AwaitSchedule
    BY <1>2, <1>8 DEF SkipBackup, ReconcilePending, RefuseInProgress, SkipSchedule,
                      AwaitSchedule, Uploading
  <1>9. CASE CreateScheduled \/ FinishSchedule
    <2>1. ~Uploading' /\ UNCHANGED <<pipe, s3>>
      BY <1>1, <1>9, ScheduleNotUploading DEF CreateScheduled, FinishSchedule
    <2> QED
      BY <1>2, <2>1
  <1>10. CASE RecordLastBackup \/ \E v \in worker.victims : DeleteExpired(v)
    <2>1. ~Uploading' /\ UNCHANGED <<pipe, s3>>
      BY <1>1, <1>10, ScheduleNotUploading DEF RecordLastBackup, DeleteExpired
    <2> QED
      BY <1>2, <2>1
  <1> QED
    BY <1>3, <1>4, <1>5, <1>6, <1>7, <1>8, <1>9, <1>10 DEF Next, WorkerStep, OtherStep

\* Nobody but retention itself touches the Backups it is about to delete in a
\* way that would matter.
LEMMA NextVictims ==
    ASSUME IInv, [Next]_vars
    PROVE  VictimsKept'
  <1>1. /\ TypeOK /\ WorkerReady /\ FreshCopies /\ UploadOwned /\ VictimsKept
        /\ worker \in WorkerStates /\ KeysNamed /\ CompletedLag
    BY DEF IInv, WorkerReady
  <1>2. ASSUME worker'.victims = {}
        PROVE  VictimsKept'
    BY <1>2 DEF VictimsKept
  <1>3. CASE RecordLastBackup
    <2>1. UNCHANGED <<bk, bkCache>>
      BY <1>3 DEF RecordLastBackup
    <2>2. ASSUME NEW victims \in Expiring(bkCache), worker'.victims = victims
          PROVE  VictimsKept'
      <3> SUFFICES ASSUME NEW v \in victims
                   PROVE  /\ v.key \in Keys
                          /\ bkCache[v.name].state # "InProgress"
                          /\ bk[v.name].state \notin {"InProgress", "Failed"}
                          /\ bk[v.name].state = "Completed" => bk[v.name].key = v.key
        BY <2>1, <2>2 DEF VictimsKept
      <3>2. /\ v.name \in Names /\ bkCache[v.name].state = "Completed"
            /\ v.key = bkCache[v.name].key
        BY <1>1, ExpiringType DEF TypeOK
      <3>3. v.key \in Keys
        BY <1>1, <3>2 DEF KeysNamed, KeyNamed
      <3>4. bk[v.name] = bkCache[v.name] \/ bk[v.name].state \in {"None", "", "Pending"}
        BY <1>1, <3>2 DEF CompletedLag
      <3> QED
        BY <3>2, <3>3, <3>4
    <2>3. CASE worker' = Idle
      BY <1>2, <2>3 DEF Idle
    <2> QED
      BY <1>1, <1>2, <1>3, <2>2, <2>3, RecordWorker
  <1>4. ASSUME worker'.victims \subseteq worker.victims, worker.pc = "retaining"
        PROVE  VictimsKept'
    <2>1. CASE UNCHANGED <<bk, bkCache, bkFresh>>
      BY <1>1, <1>4, <2>1 DEF VictimsKept
    <2>2. CASE CatchUp
      BY <1>1, <1>4, <2>2 DEF VictimsKept, CatchUp
    <2>3. CASE WriteStep /\ UNCHANGED bkCache
      <3>1. PICK b \in Names, s \in BackupStates \cup {"None"}, k \in 0..MaxTime :
              Write(b, s, k) /\ SetBackup(b, s, k)
        BY <2>3 DEF WriteStep
      <3>2. /\ bk'[b].state = s
            /\ \A c \in Names \ {b} : bk'[c] = bk[c]
        BY <1>1, <3>1, WriteEffect
      <3>3. s \in {"", "Pending", "None"}
        BY <1>4, <3>1 DEF Write
      <3>4. \A v \in worker.victims : v.name \in Names
        BY <1>1 DEF TypeOK, Victims
      <3> QED
        BY <1>1, <1>4, <2>3, <3>2, <3>3, <3>4 DEF VictimsKept
    <2> QED
      BY <1>1, <2>1, <2>2, <2>3, BackupWrites
  <1>5. CASE \E v \in worker.victims : RemoveArchive(v) \/ DeleteExpired(v)
    <2>1. worker'.victims \subseteq worker.victims /\ worker.pc = "retaining"
      BY <1>1, <1>5, RetainWorker
    <2> QED
      BY <1>4, <2>1
  <1>6. CASE OtherStep
    <2>1. UNCHANGED worker
      BY <1>6, OtherStepWorker
    <2> QED
      BY <1>1, <1>2, <1>4, <2>1 DEF WorkerReady
  <1>7. CASE \/ \E b \in Names : SkipBackup(b) \/ ReconcilePending(b) \/ RefuseInProgress(b)
             \/ SkipSchedule \/ AwaitSchedule
    <2>1. UNCHANGED worker /\ worker.pc = "idle"
      BY <1>7 DEF SkipBackup, ReconcilePending, RefuseInProgress, SkipSchedule,
                  AwaitSchedule, Picks
    <2> QED
      BY <1>1, <1>2, <2>1 DEF WorkerReady
  <1>8. CASE \/ \E b \in Names : StartUpload(b)
             \/ FinishUpload \/ FinishSchedule \/ Crash \/ CreateScheduled
    <2>1. worker'.victims = {}
      <3>1. CASE CreateScheduled
        BY <1>1, <3>1, CreateWorker DEF WorkerReady
      <3>2. CASE worker' = Idle
        BY <3>2 DEF Idle
      <3>3. CASE \E b \in Names : StartUpload(b)
        BY <3>3, StartWorker
      <3> QED
        BY <1>8, <3>1, <3>2, <3>3 DEF FinishUpload, FinishSchedule, Crash
    <2> QED
      BY <1>2, <2>1
  <1> QED
    BY <1>3, <1>5, <1>6, <1>7, <1>8 DEF Next, WorkerStep, OtherStep

-----------------------------------------------------------------------------
(***************************************************************************)
(* The bucket.                                                             *)
(***************************************************************************)
\* The bucket changes when an upload stores a whole archive or retention
\* removes one, and in no step that writes a Backup.
StoreStep ==
    /\ Uploading /\ UNCHANGED worker
    /\ s3' = [s3 EXCEPT ![worker.at] = "whole"]

RemoveStep ==
    \E v \in worker.victims : RemoveArchive(v) /\ s3' = [s3 EXCEPT ![v.key] = "none"]

\* A change of the bucket is one of these.
LEMMA BucketSteps ==
    ASSUME PipeSound, [Next]_vars
    PROVE  \/ UNCHANGED s3
           \/ /\ StoreStep \/ RemoveStep
              /\ UNCHANGED <<bk, bkCache, bkFresh, expired, s3Client>>
  <1>1. CASE UploadStep
    <2>1. Uploading /\ UNCHANGED <<worker, bk, bkCache, bkFresh, expired, s3Client>>
      BY <1>1 DEF UploadStep
    <2>2. UNCHANGED s3 \/ s3' = [s3 EXCEPT ![worker.at] = "whole"]
      BY <1>1 DEF UploadStep, Transfer, ExecReturns, ExecFails, CloseAfterFailure,
                  CloseAtEnd, CompleteUpload, AbortUpload, UploadFails, Put, PipeSound
    <2> QED
      BY <2>1, <2>2 DEF StoreStep
  <1>2. CASE \E v \in worker.victims : RemoveArchive(v)
    BY <1>2 DEF RemoveArchive, RemoveStep
  <1> QED
    BY <1>1, <1>2
    DEF Next, WorkerStep, SkipBackup, ReconcilePending, RefuseInProgress,
        StartUpload, FinishUpload, SkipSchedule, AwaitSchedule, CreateScheduled,
        RecordLastBackup, DeleteExpired, FinishSchedule, TimerFires, SyncServer,
        SyncBackups, SetPending, DeleteBackup, RequestBackup, SetBackupSchedule,
        ServerChanges, Tick, Crash, vars, backupVars

\* A write makes a Backup complete only after a successful upload of this
\* process; the Backup is the one being uploaded and the key the upload's.
LEMMA CompletingWrite ==
    ASSUME TypeOK, WorkerReady, FreshCopies, UploadOwned, [Next]_vars,
           NEW b \in Names, bk'[b].state = "Completed"
    PROVE  \/ bk'[b] = bk[b]
           \/ /\ Uploading /\ Succeeded /\ b = worker.name
              /\ bk'[b].key = worker.at
  <1>1. CASE UNCHANGED bk
    BY <1>1
  <1>2. CASE WriteStep
    <2>1. PICK c \in Names, s \in BackupStates \cup {"None"}, k \in 0..MaxTime :
            Write(c, s, k) /\ SetBackup(c, s, k)
      BY <1>2 DEF WriteStep
    <2>2. /\ bk'[c].state = s /\ bk'[c].key = k
          /\ \A d \in Names \ {c} : bk'[d] = bk[d]
      BY <2>1, WriteEffect
    <2>3. CASE b = c
      <3>1. s = "Completed"
        BY <2>2, <2>3
      <3>2. Uploading /\ Succeeded /\ c = worker.name /\ k = worker.at
        BY <2>1, <3>1 DEF Write, WorkerMoves
      <3> QED
        BY <2>2, <2>3, <3>2
    <2> QED
      BY <2>2, <2>3
  <1> QED
    BY <1>1, <1>2, BackupWrites DEF CatchUp

\* A completed Backup loses its place only to an administrator or to
\* retention, and a failed one only to an administrator.
LEMMA EndedWrite ==
    ASSUME TypeOK, WorkerReady, FreshCopies, UploadOwned, [Next]_vars,
           NEW b \in Names, IsBackupTerminal(bk[b].state)
    PROVE  \/ bk'[b] = bk[b]
           \/ used'.deletes > 0
           \/ \E v \in worker.removed : v.name = b
  <1>1. CASE UNCHANGED bk
    BY <1>1
  <1>2. CASE WriteStep
    <2>1. PICK c \in Names, s \in BackupStates \cup {"None"}, k \in 0..MaxTime :
            Write(c, s, k) /\ SetBackup(c, s, k)
      BY <1>2 DEF WriteStep
    <2>2. /\ bk'[c].state = s /\ bk'[c].key = k
          /\ \A d \in Names \ {c} : bk'[d] = bk[d]
      BY <2>1, WriteEffect
    <2>3. CASE b = c
      <3>1. /\ bk[c].state # "None" /\ bk[c].state # "" /\ bk[c].state # "InProgress"
            /\ <<bk[c].state, s>> \notin WorkerMoves
        BY <2>3 DEF IsBackupTerminal, WorkerMoves
      <3> QED
        BY <2>1, <2>3, <3>1 DEF Write
    <2> QED
      BY <2>2, <2>3
  <1> QED
    BY <1>1, <1>2, BackupWrites DEF CatchUp

\* A completed Backup can be restored unless retention took its archive.
LEMMA NextRestorable ==
    ASSUME IInv, [Next]_vars
    PROVE  CompletedRestorable'
  <1>1. /\ TypeOK /\ WorkerReady /\ FreshCopies /\ UploadOwned /\ PipeSound
        /\ CompletedRestorable /\ s3 \in [Keys -> Contents] /\ KeysNamed
    BY DEF IInv, TypeOK
  <1>2. expired \subseteq expired'
    BY <1>1, NextMonotone DEF Monotone
  <1> SUFFICES ASSUME NEW b \in Names, bk'[b].state = "Completed"
               PROVE  s3'[bk'[b].key] = "whole" \/ \E v \in expired' : v.key = bk'[b].key
    BY DEF CompletedRestorable, Completed
  <1>3. CASE bk'[b] = bk[b]
    <2>1. /\ s3[bk[b].key] = "whole" \/ \E v \in expired : v.key = bk[b].key
          /\ bk[b].key \in Keys
      BY <1>1, <1>3 DEF CompletedRestorable, Completed, KeysNamed, KeyNamed
    <2>2. CASE UNCHANGED s3 \/ StoreStep
      BY <1>1, <1>2, <1>3, <2>1, <2>2 DEF StoreStep
    <2>3. CASE RemoveStep
      <3>1. PICK v \in worker.victims : s3' = [s3 EXCEPT ![v.key] = "none"]
        BY <2>3 DEF RemoveStep
      <3>2. v \in expired
        BY <1>1 DEF TypeOK
      <3> QED
        BY <1>1, <1>2, <1>3, <2>1, <3>1, <3>2
    <2> QED
      BY <1>1, <2>2, <2>3, BucketSteps
  <1>4. CASE Uploading /\ Succeeded /\ bk'[b].key = worker.at /\ bk'[b] # bk[b]
    <2>1. s3[worker.at] = "whole"
      BY <1>1, <1>4 DEF PipeSound, Succeeded
    <2>2. UNCHANGED s3
      BY <1>1, <1>4, BucketSteps
    <2> QED
      BY <1>4, <2>1, <2>2
  <1> QED
    BY <1>1, <1>3, <1>4, CompletingWrite

\* Of one Backup at most there is nothing retention could delete.
LEMMA NothingBeyond ==
    ASSUME NEW x, NEW ended \in SUBSET {x}, NEW chosen \in BeyondNewest(RetentionCount, ended)
    PROVE  chosen = {}
  <1>1. IsFiniteSet({x}) /\ Cardinality({x}) = 1
    BY FS_Singleton
  <1>2. Cardinality(ended) \in Nat /\ Cardinality(ended) <= 1
    BY <1>1, FS_Subset, FS_CardinalityType
  <1>3. RetentionCount = 0 \/ Cardinality(ended) <= RetentionCount
    BY <1>2, BackupAssumption
  <1> QED
    BY <1>3 DEF BeyondNewest

\* Before the first upload of this process retention has nothing to do, and
\* afterwards it removes an archive before its Backup.
LEMMA NextRemoved ==
    ASSUME IInv, [Next]_vars
    PROVE  ArchivesRemoved'
  <1>1. /\ TypeOK /\ WorkerReady /\ FreshCopies /\ UploadOwned /\ PipeSound
        /\ ArchivesRemoved /\ VictimsKept /\ s3 \in [Keys -> Contents]
        /\ used.crashes \in Nat /\ used.faults \in Nat
        /\ used'.crashes \in Nat /\ used'.faults \in Nat
        /\ used.crashes <= used'.crashes /\ used.faults <= used'.faults
    <2>1. TypeOK /\ WorkerReady
      BY DEF IInv
    <2>2. TypeOK' /\ Monotone
      BY <2>1, NextType, NextMonotone
    <2>3. /\ used.crashes \in Nat /\ used.faults \in Nat
          /\ used'.crashes \in Nat /\ used'.faults \in Nat
          /\ used.crashes <= used'.crashes /\ used.faults <= used'.faults
      BY <2>1, <2>2, BackupAssumption DEF TypeOK, Budgets, Monotone
    <2> QED
      BY <2>1, <2>3 DEF IInv, TypeOK
  <1> SUFFICES ASSUME used'.crashes = 0
               PROVE  /\ ~s3Client' =>
                            /\ worker'.victims = {}
                            /\ \A b \in Names :
                                  "Completed" \in {bk'[b].state, bkCache'[b].state}
                                     => b = <<"backup", 1>>
                      /\ used'.faults = 0 => \A v \in worker'.removed : s3'[v.key] = "none"
    BY DEF ArchivesRemoved
  <1>2. used.crashes = 0
    BY <1>1
  <1>3. ~Crash
    <2>1. Crash => used'.crashes = used.crashes + 1
      BY <1>1, SpendType DEF Crash, TypeOK
    <2> QED
      BY <1>2, <2>1
  <1>4. ~s3Client' => ~s3Client
    BY <1>1, <1>3
    DEF TypeOK, Next, WorkerStep, SkipBackup, ReconcilePending, RefuseInProgress,
        StartUpload, FinishUpload, SkipSchedule, AwaitSchedule, CreateScheduled,
        RecordLastBackup, RemoveArchive, DeleteExpired, FinishSchedule,
        UploadStep, TimerFires, SyncServer, SyncBackups, SetPending,
        DeleteBackup, RequestBackup, SetBackupSchedule, ServerChanges, Tick,
        vars, backupVars
  <1>5. ASSUME ~s3Client'
        PROVE  \A b \in Names : "Completed" \in {bk'[b].state, bkCache'[b].state}
                                   => b = <<"backup", 1>>
    <2>1. \A b \in Names : "Completed" \in {bk[b].state, bkCache[b].state}
                              => b = <<"backup", 1>>
      BY <1>1, <1>2, <1>4, <1>5 DEF ArchivesRemoved
    <2>2. ~Uploading
      BY <1>1, <1>4, <1>5 DEF WorkerReady
    <2>3. \A b \in Names : bk'[b].state = "Completed" => bk'[b] = bk[b]
      BY <1>1, <2>2, CompletingWrite
    <2>4. UNCHANGED bkCache \/ bkCache' = bk
      BY <1>1, BackupWrites DEF CatchUp
    <2> QED
      BY <2>1, <2>3, <2>4
  <1>6. ASSUME ~s3Client'
        PROVE  worker'.victims = {}
    <2>1. worker.victims = {}
      BY <1>1, <1>2, <1>4, <1>6 DEF ArchivesRemoved
    <2>2. CASE RecordLastBackup
      <3>1. \A victims \in Expiring(bkCache) : victims = {}
        <4> SUFFICES ASSUME NEW victims \in Expiring(bkCache)
                     PROVE  victims = {}
          OBVIOUS
        <4> DEFINE ended == {b \in Names : bkCache[b].state = "Completed"}
        <4>1. PICK chosen \in BeyondNewest(RetentionCount, ended) :
                victims = {[name |-> b, key |-> bkCache[b].key] : b \in chosen}
          BY DEF Expiring
        <4>2. ended \subseteq {<<"backup", 1>>}
          BY <1>1, <1>2, <1>4, <1>6 DEF ArchivesRemoved
        <4>3. chosen = {}
          BY <4>2, NothingBeyond
        <4> QED
          BY <4>1, <4>3
      <3> QED
        BY <1>1, <2>2, <3>1, RecordWorker DEF Idle
    <2>3. CASE CreateScheduled
      BY <2>1, <2>3, CreateWorker
    <2>4. CASE OtherStep
      BY <2>1, <2>4, OtherStepWorker
    <2>5. CASE \E b \in Names : StartUpload(b)
      BY <2>5, StartWorker
    <2>6. CASE FinishUpload \/ FinishSchedule
      BY <2>6 DEF FinishUpload, FinishSchedule, Idle
    <2>7. CASE \/ \E b \in Names : SkipBackup(b) \/ ReconcilePending(b) \/ RefuseInProgress(b)
               \/ SkipSchedule \/ AwaitSchedule
      BY <2>1, <2>7 DEF SkipBackup, ReconcilePending, RefuseInProgress, SkipSchedule,
                        AwaitSchedule
    <2> QED
      BY <1>3, <2>1, <2>2, <2>3, <2>4, <2>5, <2>6, <2>7 DEF Next, WorkerStep, OtherStep
  <1>7. ASSUME used'.faults = 0, NEW v \in worker'.removed
        PROVE  s3'[v.key] = "none"
    <2>1. used.faults = 0
      BY <1>1, <1>7
    <2>2. ~Fault
      <3>1. Fault => used'.faults = used.faults + 1
        BY <1>1, SpendType DEF Fault, TypeOK
      <3> QED
        BY <1>7, <2>1, <3>1
    <2>3. CASE worker'.removed \subseteq worker.removed
      <3>1. s3[v.key] = "none" /\ v \in worker.victims
        BY <1>1, <1>2, <1>7, <2>1, <2>3 DEF ArchivesRemoved, TypeOK
      <3>2. ~Uploading
        BY <1>1, <3>1 DEF WorkerReady, Uploading
      <3>3. UNCHANGED s3 \/ RemoveStep
        BY <1>1, <3>2, BucketSteps DEF StoreStep
      <3>4. v.key \in Keys
        BY <1>1, <3>1 DEF VictimsKept
      <3> QED
        BY <1>1, <3>1, <3>3, <3>4 DEF RemoveStep
    <2>4. ASSUME NEW w \in worker.victims, RemoveArchive(w)
          PROVE  s3'[v.key] = "none"
      <3>1. v = w /\ w.key \in Keys
        BY <1>1, <1>7, <2>4, RetainWorker DEF VictimsKept
      <3>2. s3Client
        BY <1>1, <1>2, <2>4 DEF ArchivesRemoved
      <3>3. s3' = [s3 EXCEPT ![w.key] = "none"]
        BY <2>2, <2>4, <3>2 DEF RemoveArchive
      <3> QED
        BY <1>1, <3>1, <3>3
    <2>5. CASE RecordLastBackup
      BY <1>1, <1>7, <2>3, <2>5, RecordWorker DEF Idle
    <2>6. CASE CreateScheduled
      BY <1>7, <2>3, <2>6, CreateWorker
    <2>7. CASE OtherStep
      BY <2>3, <2>7, OtherStepWorker
    <2>8. CASE \E b \in Names : StartUpload(b)
      BY <1>7, <2>8, StartWorker
    <2>9. CASE FinishUpload \/ FinishSchedule
      BY <1>7, <2>9 DEF FinishUpload, FinishSchedule, Idle
    <2>10. CASE \/ \E b \in Names : SkipBackup(b) \/ ReconcilePending(b) \/ RefuseInProgress(b)
                \/ SkipSchedule \/ AwaitSchedule
      BY <2>3, <2>10 DEF SkipBackup, ReconcilePending, RefuseInProgress, SkipSchedule,
                         AwaitSchedule
    <2>11. CASE \E w \in worker.victims : DeleteExpired(w)
      BY <1>1, <1>7, <2>11, RetainWorker
    <2> QED
      BY <1>3, <2>4, <2>5, <2>6, <2>7, <2>8, <2>9, <2>10, <2>11
      DEF Next, WorkerStep, OtherStep
  <1> QED
    BY <1>5, <1>6, <1>7

\* An upload under way goes on, ends, or is ended by a crash.
LEMMA UploadContinues ==
    ASSUME WorkerReady, Uploading, [Next]_vars
    PROVE  UNCHANGED worker \/ FinishUpload \/ Crash
  <1>1. worker.pc = "uploading" /\ worker.victims = {}
    BY DEF WorkerReady, Uploading
  <1> QED
    BY <1>1, OtherStepWorker
    DEF Next, WorkerStep, OtherStep, SkipBackup, ReconcilePending, RefuseInProgress,
        StartUpload, SkipSchedule, AwaitSchedule, CreateScheduled, RecordLastBackup,
        FinishSchedule, Picks

\* In an undisturbed run no archive loses its name: what an upload leaves is
\* named by its Backup, and retention removes the archive first.
LEMMA NextNoOrphan ==
    ASSUME IInv, [Next]_vars
    PROVE  NoOrphanArchive'
  <1>1. /\ TypeOK /\ WorkerReady /\ FreshCopies /\ UploadOwned /\ PipeSound
        /\ ArchivesRemoved /\ VictimsKept /\ NoOrphanArchive /\ KeysNamed
        /\ s3 \in [Keys -> Contents] /\ 0 \notin Keys
    BY BackupAssumption DEF IInv, TypeOK
  <1>2. /\ used.crashes \in Nat /\ used.faults \in Nat /\ used.deletes \in Nat
        /\ used'.crashes \in Nat /\ used'.faults \in Nat /\ used'.deletes \in Nat
        /\ used.crashes <= used'.crashes /\ used.faults <= used'.faults
        /\ used.deletes <= used'.deletes
    <2>1. TypeOK' /\ Monotone
      BY <1>1, NextType, NextMonotone
    <2> QED
      BY <1>1, <2>1, BackupAssumption DEF TypeOK, Budgets, Monotone
  <1> SUFFICES ASSUME used'.deletes = 0, used'.faults = 0, used'.crashes = 0,
                      \A b \in Names : bk'[b].state # "Failed",
                      NEW k \in Keys, s3'[k] # "none"
               PROVE  \/ \E b \in Names : bk'[b].key = k
                      \/ Uploading' /\ worker'.at = k
    BY DEF NoOrphanArchive
  <1>3. used.deletes = 0 /\ used.faults = 0 /\ used.crashes = 0
    BY <1>2
  <1>4. ~Fault /\ ~Crash
    <2>1. Fault => used'.faults = used.faults + 1
      BY <1>1, SpendType DEF Fault, TypeOK
    <2>2. Crash => used'.crashes = used.crashes + 1
      BY <1>1, SpendType DEF Crash, TypeOK
    <2> QED
      BY <1>3, <2>1, <2>2
  <1>5. ~(used'.deletes > 0) /\ ~(used.deletes > 0)
    BY <1>2, <1>3
  <1>6. \A v \in worker.removed : v \in worker.victims /\ s3[v.key] = "none"
    BY <1>1, <1>3 DEF ArchivesRemoved, TypeOK
  <1>7. \A b \in Names : bk[b].state # "Failed"
    <2> SUFFICES ASSUME NEW b \in Names, bk[b].state = "Failed" PROVE FALSE
      OBVIOUS
    <2>1. bk'[b] = bk[b] \/ \E v \in worker.removed : v.name = b
      BY <1>1, <1>5, EndedWrite DEF IsBackupTerminal
    <2> QED
      BY <1>1, <1>6, <2>1 DEF VictimsKept
  <1>8. s3[k] # "none" => \/ \E b \in Names : bk[b].key = k
                          \/ Uploading /\ worker.at = k
    BY <1>1, <1>3, <1>7 DEF NoOrphanArchive
  <1>9. CASE UNCHANGED s3
    <2>1. ASSUME NEW b \in Names, bk[b].key = k
          PROVE  bk'[b].key = k
      <3>1. bk[b].state = "Completed"
        BY <1>1, <2>1 DEF KeysNamed, KeyNamed
      <3>2. ASSUME NEW v \in worker.removed, v.name = b
            PROVE  FALSE
        BY <1>1, <1>6, <1>9, <2>1, <3>1, <3>2 DEF VictimsKept
      <3>3. bk'[b] = bk[b]
        BY <1>1, <1>5, <3>1, <3>2, EndedWrite DEF IsBackupTerminal
      <3> QED
        BY <2>1, <3>3
    <2>2. CASE Uploading /\ worker.at = k /\ FinishUpload
      <3> DEFINE n == worker.name
      <3>1. n \in Names /\ bk[n].state = "InProgress" /\ bkFresh[n]
        BY <1>1, <1>5, <2>2 DEF UploadOwned, GoneForGood, WorkerReady
      <3>2. Cached(n)
        BY <1>1, <3>1 DEF FreshCopies, Cached
      <3>3. \/ Succeeded /\ SetBackup(n, "Completed", worker.at)
            \/ SetBackup(n, "Failed", 0)
        BY <1>4, <2>2, <3>1, <3>2 DEF FinishUpload
      <3>4. bk'[n].key = worker.at \/ bk'[n].state = "Failed"
        BY <1>1, <3>1, <3>3 DEF SetBackup, TypeOK
      <3> QED
        BY <2>2, <3>1, <3>4
    <2>3. CASE Uploading /\ worker.at = k /\ UNCHANGED worker
      BY <2>3 DEF Uploading
    <2> QED
      BY <1>1, <1>4, <1>8, <1>9, <2>1, <2>2, <2>3, UploadContinues
  <1>10. CASE StoreStep /\ UNCHANGED bk
    <2>1. CASE k = worker.at
      BY <1>10, <2>1 DEF StoreStep, Uploading
    <2>2. CASE k # worker.at
      BY <1>1, <1>8, <1>10, <2>2 DEF StoreStep
    <2> QED
      BY <2>1, <2>2
  <1>11. CASE RemoveStep /\ UNCHANGED bk
    <2>1. worker.pc = "retaining"
      BY <1>11 DEF RemoveStep, RemoveArchive
    <2>2. ~Uploading
      BY <2>1 DEF Uploading
    <2> QED
      BY <1>1, <1>8, <1>11, <2>2 DEF RemoveStep
  <1> QED
    BY <1>1, <1>9, <1>10, <1>11, BucketSteps

-----------------------------------------------------------------------------
(***************************************************************************)
(* The schedule.                                                           *)
(***************************************************************************)
\* Only the schedule creates scheduled Backups.
LEMMA Creations ==
    ASSUME TypeOK, WorkerReady, FreshCopies, UploadOwned, [Next]_vars,
           ~CreateScheduled, NEW t \in Keys, Exists(<<"scheduled", t>>)'
    PROVE  Exists(<<"scheduled", t>>)
  <1> DEFINE c == <<"scheduled", t>>
  <1>1. c \in Names /\ bk'[c].state # "None"
    BY DEF Names, Exists
  <1> SUFFICES bk[c].state # "None"
    BY DEF Exists
  <1> HIDE DEF c
  <1>2. CASE UNCHANGED bk
    BY <1>1, <1>2
  <1>3. ASSUME NEW b \in Names, NEW s, NEW k, SetBackup(b, s, k),
               bk[b].state # "None" \/ s = "None"
        PROVE  bk[c].state # "None"
    BY <1>1, <1>3 DEF SetBackup, TypeOK
  <1>4. ASSUME NEW b \in Names, NEW s, Transition(b, s), Unfinished(bkCache[b])
        PROVE  bk[c].state # "None"
    <2>1. CASE bkFresh[b] /\ SetBackup(b, s, 0)
      <3>1. bk[b].state # "None"
        BY <1>4, <2>1 DEF FreshCopies, Unfinished
      <3> QED
        BY <1>3, <2>1, <3>1
    <2> QED
      BY <1>2, <1>4, <2>1 DEF Transition
  <1>5. ASSUME NEW b \in Names, bkFresh[b], SetBackup(b, "Failed", 0),
               Unfinished(bkCache[b])
        PROVE  bk[c].state # "None"
    <2>1. bk[b].state # "None"
      BY <1>5 DEF FreshCopies, Unfinished
    <2> QED
      BY <1>3, <1>5, <2>1
  <1>6. ASSUME NEW b \in Names, ReconcilePending(b) \/ RefuseInProgress(b)
        PROVE  bk[c].state # "None"
    <2>1. Unfinished(bkCache[b])
      BY <1>6 DEF ReconcilePending, RefuseInProgress, Unfinished
    <2> QED
      BY <1>4, <1>5, <1>6, <2>1 DEF ReconcilePending, RefuseInProgress
  <1>7. CASE FinishUpload
    <2>1. worker.name \in Names
      BY <1>7 DEF FinishUpload, WorkerReady
    <2>2. CASE Cached(worker.name) /\ bkFresh[worker.name]
                 /\ \E s, k : SetBackup(worker.name, s, k)
      <3>1. bk[worker.name].state # "None"
        BY <2>1, <2>2 DEF FreshCopies, Cached
      <3> QED
        BY <1>3, <2>1, <2>2, <3>1
    <2> QED
      BY <1>2, <1>7, <2>2 DEF FinishUpload
  <1>8. ASSUME NEW v \in worker.victims, DeleteExpired(v)
        PROVE  bk[c].state # "None"
    <2>1. v.name \in Names
      BY DEF TypeOK, Victims
    <2> QED
      BY <1>2, <1>3, <1>8, <2>1 DEF DeleteExpired
  <1>9. CASE RequestBackup
    <2>1. <<"backup", clock>> \in Names /\ <<"backup", clock>> # c
      BY BackupAssumption DEF TypeOK, Names, c
    <2>2. bk'[c] = bk[c]
      BY <1>1, <1>9, <2>1 DEF RequestBackup, SetBackup, TypeOK
    <2> QED
      BY <1>1, <2>2
  <1>10. ASSUME NEW b \in Names, SetPending(b) \/ DeleteBackup(b)
         PROVE  bk[c].state # "None"
    <2>1. CASE bk[b].state = "" /\ SetBackup(b, "Pending", 0)
      BY <1>3, <2>1
    <2>2. CASE SetBackup(b, "None", 0)
      BY <1>3, <2>2
    <2> QED
      BY <1>2, <1>10, <2>1, <2>2 DEF SetPending, DeleteBackup
  <1> QED
    BY <1>2, <1>6, <1>7, <1>8, <1>9, <1>10
    DEF Next, WorkerStep, SkipBackup, StartUpload, SkipSchedule, AwaitSchedule,
        RecordLastBackup, RemoveArchive, FinishSchedule, UploadStep, TimerFires,
        SyncServer, SyncBackups, SetBackupSchedule, ServerChanges, Tick, Crash,
        vars, backupVars

\* Nothing but the schedule's own steps and a crash concerns its records.
LEMMA OtherRecords ==
    ASSUME TypeOK, WorkerReady, FreshCopies, [Next]_vars,
           ~CreateScheduled, ~RecordLastBackup, ~Crash
    PROVE  /\ gs'.last = gs.last /\ UNCHANGED slips
           /\ worker.pc = "recording" => UNCHANGED worker
           /\ worker'.pc = "recording" => worker.pc = "recording"
  <1>1. UNCHANGED slips
    BY DEF Next, WorkerStep, SkipBackup, ReconcilePending, RefuseInProgress,
           StartUpload, FinishUpload, SkipSchedule, AwaitSchedule, RemoveArchive,
           DeleteExpired, FinishSchedule, UploadStep, TimerFires, SyncServer,
           SyncBackups, SetPending, DeleteBackup, RequestBackup, SetBackupSchedule,
           ServerChanges, Tick, vars, backupVars
  <1>2. gs'.last = gs.last
    <2>1. CASE \E on \in BOOLEAN : SetBackupSchedule(on)
      BY <2>1 DEF SetBackupSchedule, SetServer, FreshCopies, TypeOK, GameServers
    <2>2. CASE \E state \in {"Running", "Idle", "Gone"} : ServerChanges(state)
      BY <2>2 DEF ServerChanges, SetServer, TypeOK, GameServers
    <2>3. CASE UNCHANGED gs
      BY <2>3
    <2> QED
      BY <2>1, <2>2, <2>3
      DEF Next, WorkerStep, SkipBackup, ReconcilePending, RefuseInProgress,
          StartUpload, FinishUpload, SkipSchedule, AwaitSchedule, RemoveArchive,
          DeleteExpired, FinishSchedule, UploadStep, TimerFires, SyncServer,
          SyncBackups, SetPending, DeleteBackup, RequestBackup, Tick, vars, backupVars
  <1>3. /\ worker.pc = "recording" => UNCHANGED worker
        /\ worker'.pc = "recording" => worker.pc = "recording"
    <2>1. CASE UNCHANGED worker
      BY <2>1
    <2>2. CASE \E b \in Names : StartUpload(b)
      BY <2>2, StartWorker
    <2>3. CASE FinishUpload \/ FinishSchedule
      BY <2>3 DEF FinishUpload, FinishSchedule, Uploading, Idle
    <2>4. CASE \E v \in worker.victims : RemoveArchive(v) \/ DeleteExpired(v)
      BY <2>4, RetainWorker
    <2> QED
      BY <2>1, <2>2, <2>3, <2>4, OtherStepWorker
      DEF Next, WorkerStep, OtherStep, SkipBackup, ReconcilePending,
          RefuseInProgress, SkipSchedule, AwaitSchedule
  <1> QED
    BY <1>1, <1>2, <1>3

\* The time of the last backup follows the scheduled Backups.
LEMMA NextRecorded ==
    ASSUME IInv, [Next]_vars
    PROVE  ScheduleRecorded'
  <1>1. /\ TypeOK /\ WorkerReady /\ FreshCopies /\ UploadOwned /\ ScheduleRecorded
    BY DEF IInv
  <1>2. /\ clock \in Nat /\ clock' \in Nat /\ clock <= clock'
        /\ gs.last \in Nat /\ gs'.last \in Nat /\ worker.at \in Nat
    <2>1. TypeOK' /\ clock <= clock'
      BY <1>1, NextType, NextMonotone DEF Monotone
    <2>2. /\ clock \in 1..MaxTime /\ gs \in GameServers /\ worker.at \in 0..MaxTime
          /\ clock' \in 1..MaxTime /\ gs' \in GameServers
      BY <1>1, <2>1 DEF TypeOK
    <2>3. gs.last \in 0..MaxTime /\ gs'.last \in 0..MaxTime
      BY <2>2 DEF GameServers
    <2> QED
      BY <2>1, <2>2, <2>3, BackupAssumption
  <1>k. Keys \subseteq Nat
    BY BackupAssumption
  <1>3. CASE CreateScheduled
    <2>1. UNCHANGED <<gs, clock>> /\ slips \subseteq slips' /\ worker.pc = "idle"
      BY <1>3 DEF CreateScheduled, Picks
    <2>2. CASE UNCHANGED worker /\ UNCHANGED bk
      BY <1>1, <2>1, <2>2 DEF ScheduleRecorded, Recorded, Exists
    <2>3. CASE worker'.pc = "recording" /\ worker'.at = clock
      <3>1. ASSUME NEW t \in Keys, Exists(<<"scheduled", t>>)'
            PROVE  Recorded(t)'
        <4>1. CASE t = clock
          BY <2>3, <4>1 DEF Recorded
        <4>2. CASE t # clock
          <5>1. <<"scheduled", t>> \in Names /\ <<"scheduled", clock>> \in Names
                /\ <<"scheduled", t>> # <<"scheduled", clock>>
            BY <1>1, <4>2, BackupAssumption DEF Names, TypeOK
          <5>2. bk'[<<"scheduled", t>>] = bk[<<"scheduled", t>>]
            BY <1>1, <1>3, <5>1 DEF CreateScheduled, SetBackup, TypeOK
          <5>3. Recorded(t)
            BY <1>1, <3>1, <5>2 DEF ScheduleRecorded, Exists
          <5> QED
            BY <2>1, <5>3 DEF Recorded
        <4> QED
          BY <4>1, <4>2
      <3>2. gs'.last <= clock' /\ gs'.last <= worker'.at /\ worker'.at <= clock'
        BY <1>1, <1>2, <2>1, <2>3 DEF ScheduleRecorded
      <3> QED
        BY <3>1, <3>2 DEF ScheduleRecorded
    <2> QED
      BY <1>3, <2>2, <2>3, CreateWorker DEF CreateScheduled
  <1>4. ASSUME ~CreateScheduled, NEW t \in Keys, Exists(<<"scheduled", t>>)'
        PROVE  Recorded(t)
    BY <1>1, <1>4, Creations DEF ScheduleRecorded
  <1>5. CASE RecordLastBackup
    <2>1. worker.pc = "recording" /\ ~CreateScheduled /\ UNCHANGED clock
      BY <1>5 DEF RecordLastBackup, CreateScheduled, Picks
    <2>2. worker'.pc # "recording"
      BY <1>1, <1>5, RecordWorker DEF Idle
    <2>3. \/ gs'.last = worker.at /\ UNCHANGED slips
          \/ UNCHANGED gs /\ slips' = slips \cup {<<"scheduled", worker.at>>}
      BY <1>1, <1>5 DEF RecordLastBackup, SetServer, TypeOK, GameServers
    <2>4. ASSUME NEW t \in Keys, Recorded(t)
          PROVE  Recorded(t)'
      BY <1>1, <1>2, <1>k, <2>1, <2>3, <2>4 DEF Recorded, ScheduleRecorded
    <2>5. gs'.last <= clock'
      BY <1>1, <1>2, <2>1, <2>3 DEF ScheduleRecorded
    <2> QED
      BY <1>4, <2>1, <2>2, <2>4, <2>5 DEF ScheduleRecorded
  <1>6. CASE Crash
    <2>1. /\ UNCHANGED <<gs, clock, bk>> /\ worker'.pc = "idle" /\ slips \subseteq slips'
          /\ worker.pc = "recording" => <<"scheduled", worker.at>> \in slips'
      BY <1>6 DEF Crash, Idle
    <2> QED
      BY <1>1, <2>1 DEF ScheduleRecorded, Recorded, Exists
  <1>7. CASE ~CreateScheduled /\ ~RecordLastBackup /\ ~Crash
    <2>1. /\ gs'.last = gs.last /\ UNCHANGED slips
          /\ worker.pc = "recording" => UNCHANGED worker
          /\ worker'.pc = "recording" => worker.pc = "recording"
      BY <1>1, <1>7, OtherRecords
    <2>2. ASSUME NEW t \in Keys, Recorded(t)
          PROVE  Recorded(t)'
      BY <2>1, <2>2 DEF Recorded
    <2>3. gs'.last <= clock'
          /\ (worker'.pc = "recording" => gs'.last <= worker'.at /\ worker'.at <= clock')
      BY <1>1, <1>2, <2>1 DEF ScheduleRecorded
    <2> QED
      BY <1>4, <1>7, <2>2, <2>3 DEF ScheduleRecorded
  <1> QED
    BY <1>3, <1>5, <1>6, <1>7

\* A scheduled Backup of a period that has one is excused.
LEMMA NextScheduled ==
    ASSUME IInv, [Next]_vars
    PROVE  OneBackupPerScheduledTime'
  <1>1. /\ TypeOK /\ WorkerReady /\ FreshCopies /\ UploadOwned /\ ScheduleRecorded
        /\ OneBackupPerScheduledTime
    BY DEF IInv
  <1>2. slips \subseteq slips'
    <2>1. CASE CreateScheduled \/ RecordLastBackup \/ Crash
      BY <2>1 DEF CreateScheduled, RecordLastBackup, Crash
    <2> QED
      BY <1>1, <2>1, OtherRecords
  <1>3. CASE ~CreateScheduled
    BY <1>1, <1>2, <1>3, Creations DEF OneBackupPerScheduledTime
  <1>4. CASE CreateScheduled
    <2>1. /\ clock \in Keys /\ clock \in Nat /\ gs.last \in Nat /\ Keys \subseteq Nat
      BY <1>1, BackupAssumption DEF TypeOK, GameServers
    <2>2. ASSUME NEW t \in Keys, t # clock, Exists(<<"scheduled", t>>)'
          PROVE  Exists(<<"scheduled", t>>)
      <3>1. <<"scheduled", t>> \in Names /\ <<"scheduled", clock>> \in Names
            /\ <<"scheduled", t>> # <<"scheduled", clock>>
        BY <2>1, <2>2 DEF Names
      <3>2. bk'[<<"scheduled", t>>] = bk[<<"scheduled", t>>]
        BY <1>1, <1>4, <3>1 DEF CreateScheduled, SetBackup, TypeOK
      <3> QED
        BY <2>2, <3>2 DEF Exists
    <2>3. ASSUME NEW c \in Keys, c = clock,
                 ~Exists(<<"scheduled", c>>), Exists(<<"scheduled", c>>)',
                 NEW t \in Keys, t # clock, Exists(<<"scheduled", t>>),
                 t \div Period = clock \div Period
          PROVE  <<"scheduled", t>> \in slips' \/ <<"scheduled", c>> \in slips'
      <3>1. CASE ~gsFresh
        BY <1>4, <2>3, <3>1 DEF CreateScheduled, Exists
      <3>2. CASE gsFresh
        <4>1. clock >= NextTime(gs.last)
          BY <1>1, <1>4, <3>2 DEF CreateScheduled, Due, FreshCopies
        <4>2. ~(gs.last >= t)
          <5>1. t \in Nat
            BY <2>1
          <5>2. ~(t <= gs.last)
            BY <2>1, <2>3, <4>1, <5>1, DuePeriod
          <5> QED
            BY <2>1, <5>1, <5>2
        <4>3. worker.pc # "recording"
          BY <1>4, CreateWorker
        <4>4. <<"scheduled", t>> \in slips
          BY <1>1, <2>3, <4>2, <4>3 DEF ScheduleRecorded, Recorded
        <4> QED
          BY <1>2, <4>4
      <3> QED
        BY <3>1, <3>2
    <2> SUFFICES ASSUME NEW t \in Keys, NEW u \in Keys, t # u,
                        t \div Period = u \div Period,
                        Exists(<<"scheduled", t>>)', Exists(<<"scheduled", u>>)'
                 PROVE  <<"scheduled", t>> \in slips' \/ <<"scheduled", u>> \in slips'
      BY DEF OneBackupPerScheduledTime
    <2>4. CASE Exists(<<"scheduled", t>>) /\ Exists(<<"scheduled", u>>)
      BY <1>1, <1>2, <2>4 DEF OneBackupPerScheduledTime
    <2>5. CASE ~Exists(<<"scheduled", t>>)
      <3>1. t = clock /\ u # clock
        BY <2>2, <2>5
      <3> QED
        BY <2>2, <2>3, <2>5, <3>1
    <2>6. CASE ~Exists(<<"scheduled", u>>)
      <3>1. u = clock /\ t # clock
        BY <2>2, <2>6
      <3> QED
        BY <2>2, <2>3, <2>6, <3>1
    <2> QED
      BY <2>4, <2>5, <2>6
  <1> QED
    BY <1>3, <1>4

-----------------------------------------------------------------------------
(***************************************************************************)
(* Retention.                                                              *)
(***************************************************************************)
\* Nothing is chosen, or all but the RetentionCount newest.
LEMMA BeyondNewestKeeps ==
    ASSUME NEW ended, NEW chosen \in BeyondNewest(RetentionCount, ended), chosen # {}
    PROVE  /\ chosen \subseteq ended
           /\ Cardinality(ended \ chosen) = RetentionCount
           /\ \A b \in chosen, c \in ended \ chosen : CreatedAt(c) >= CreatedAt(b)
  BY DEF BeyondNewest

\* Retention chooses once per scheduled backup, and otherwise nobody does.
LEMMA ExpiredSteps ==
    ASSUME WorkerReady, [Next]_vars
    PROVE  \/ UNCHANGED expired
           \/ /\ RecordLastBackup
              /\ \E victims \in Expiring(bkCache) : expired' = expired \cup victims
  <1>1. CASE RecordLastBackup
    BY <1>1, RecordWorker
  <1> QED
    BY <1>1, OtherStepWorker
    DEF Next, WorkerStep, OtherStep, SkipBackup, ReconcilePending, RefuseInProgress,
        StartUpload, FinishUpload, SkipSchedule, AwaitSchedule, CreateScheduled,
        RemoveArchive, DeleteExpired, FinishSchedule, Crash

\* What retention has not chosen, and administrators leave alone, stays.
LEMMA RetainedStays ==
    ASSUME IInv, [Next]_vars, used'.deletes = 0, NEW b \in Retained, ~Expired(b)'
    PROVE  b \in Retained'
  <1>1. /\ TypeOK /\ WorkerReady /\ FreshCopies /\ UploadOwned
    BY DEF IInv
  <1>2. /\ b \in Names /\ bk[b].state = "Completed" /\ bkCache[b].state = "Completed"
        /\ ~Expired(b)
    BY DEF Retained
  <1>3. ~(used'.deletes > 0)
    OBVIOUS
  <1>4. ~ \E v \in worker.removed : v.name = b
    BY <1>1, <1>2 DEF Expired, TypeOK
  <1>5. bk'[b] = bk[b]
    BY <1>1, <1>2, <1>3, <1>4, EndedWrite DEF IsBackupTerminal
  <1>6. bkCache'[b] = bkCache[b] \/ bkCache'[b] = bk[b]
    BY <1>1, BackupWrites DEF CatchUp
  <1> QED
    BY <1>2, <1>5, <1>6 DEF Retained

\* Retention leaves enough newer Backups for each it has chosen: those it
\* keeps now are newer than all it chooses now, and as the list it reads may
\* be old but never lacks what it kept before, none of them was chosen before.
LEMMA NextRetained ==
    ASSUME IInv, [Next]_vars
    PROVE  NewestRetained'
  <1>1. /\ TypeOK /\ WorkerReady /\ CompletedLag /\ NewestRetained
        /\ expired \subseteq Victims
    BY DEF IInv, TypeOK
  <1>2. /\ used.deletes \in Nat /\ used'.deletes \in Nat
        /\ used.deletes <= used'.deletes /\ expired \subseteq expired'
    <2>1. TypeOK' /\ Monotone
      BY <1>1, NextType, NextMonotone
    <2> QED
      BY <1>1, <2>1, BackupAssumption DEF TypeOK, Budgets, Monotone
  <1> SUFFICES ASSUME Undisturbed', NEW v \in expired'
               PROVE  \E W \in SUBSET Names : Outlived(W, CreatedAt(v.name))'
    BY DEF NewestRetained
  <1>3. /\ used.deletes = 0 /\ used'.deletes = 0 /\ ~(used.deletes > 0)
        /\ Undisturbed
    BY <1>2 DEF Undisturbed
  <1>4. \A u \in expired : \E W \in SUBSET Names : Outlived(W, CreatedAt(u.name))
    BY <1>1, <1>3 DEF NewestRetained
  <1>n. \A b \in Names : CreatedAt(b) \in Nat
    BY BackupAssumption DEF Names, CreatedAt
  <1>5. ASSUME NEW W \in SUBSET Names, NEW t, Outlived(W, t), \A w \in W : ~Expired(w)'
        PROVE  Outlived(W, t)'
    <2>1. W \subseteq Retained'
      BY <1>3, <1>5, RetainedStays DEF Outlived
    <2> QED
      BY <1>5, <2>1 DEF Outlived
  <1>6. CASE UNCHANGED expired
    <2>1. PICK W \in SUBSET Names : Outlived(W, CreatedAt(v.name))
      BY <1>4, <1>6
    <2>2. \A w \in W : ~Expired(w)'
      BY <1>6, <2>1 DEF Outlived, Retained, Expired
    <2> QED
      BY <1>5, <2>1, <2>2
  <1>7. ASSUME NEW victims \in Expiring(bkCache), expired' = expired \cup victims,
               RecordLastBackup
        PROVE  \E W \in SUBSET Names : Outlived(W, CreatedAt(v.name))'
    <2> DEFINE ended == {b \in Names : bkCache[b].state = "Completed"}
    <2>1. PICK chosen \in BeyondNewest(RetentionCount, ended) :
            victims = {[name |-> b, key |-> bkCache[b].key] : b \in chosen}
      BY <1>7 DEF Expiring
    <2>2. CASE chosen = {}
      <3>1. UNCHANGED expired
        BY <1>7, <2>1, <2>2
      <3> QED
        BY <1>6, <3>1
    <2>3. CASE chosen # {}
      <3> DEFINE keep == ended \ chosen
      <3>1. /\ chosen \subseteq ended
            /\ Cardinality(keep) = RetentionCount
            /\ \A b \in chosen, c \in keep : CreatedAt(c) >= CreatedAt(b)
        BY <2>3, BeyondNewestKeeps
      <3>2. keep \subseteq Names /\ chosen \subseteq Names /\ IsFiniteSet(keep)
        BY <3>1, NamesFinite, FS_Subset
      <3>3. \A b : Expired(b)' <=> Expired(b) \/ b \in chosen
        <4>1. ASSUME NEW u \in victims PROVE u.name \in chosen
          BY <2>1
        <4>2. ASSUME NEW b \in chosen PROVE \E u \in victims : u.name = b
          <5>1. [name |-> b, key |-> bkCache[b].key] \in victims
            BY <2>1
          <5> QED
            BY <5>1
        <4> QED
          BY <1>7, <4>1, <4>2 DEF Expired
      <3>4. ASSUME NEW x \in keep, NEW w \in chosen, Expired(x),
                   CreatedAt(w) >= CreatedAt(x)
            PROVE  FALSE
        <4>1. CreatedAt(w) \in Nat /\ CreatedAt(x) \in Nat /\ CreatedAt(x) >= CreatedAt(w)
          BY <1>n, <3>1, <3>2
        <4>2. CreatedAt(w) = CreatedAt(x)
          BY <3>4, <4>1
        <4>3. x # w /\ Expired(x)' /\ Expired(w)'
          BY <3>3, <3>4
        <4>4. PICK a \in expired' : a.name = x
          BY <4>3 DEF Expired
        <4>5. PICK b \in expired' : b.name = w
          BY <4>3 DEF Expired
        <4> QED
          BY <4>2, <4>3, <4>4, <4>5 DEF Undisturbed
      <3>5. \A x \in keep : ~Expired(x)
        <4> SUFFICES ASSUME NEW x \in keep, Expired(x) PROVE FALSE
          OBVIOUS
        <4>1. PICK u \in expired : u.name = x
          BY DEF Expired
        <4>2. PICK W \in SUBSET Names : Outlived(W, CreatedAt(x))
          BY <1>4, <4>1
        <4>3. W \subseteq ended
          BY <4>2 DEF Outlived, Retained
        <4>4. \A w \in W : w \notin chosen
          BY <3>4, <4>2 DEF Outlived
        <4>5. W \subseteq keep /\ Cardinality(W) = Cardinality(keep)
          BY <3>1, <4>2, <4>3, <4>4 DEF Outlived
        <4>6. W = keep
          BY <3>2, <4>5, FS_Subset
        <4>7. x \in Retained
          BY <4>2, <4>6 DEF Outlived
        <4> QED
          BY <4>7 DEF Retained
      <3>6. keep \subseteq Retained
        BY <1>1, <1>3, <3>5 DEF CompletedLag, Retained
      <3>7. \A x \in keep : ~Expired(x)'
        BY <3>3, <3>5
      <3>8. ASSUME NEW t \in Nat, NEW w \in chosen, CreatedAt(w) >= t
            PROVE  Outlived(keep, t)
        <4>1. \A x \in keep : CreatedAt(x) >= t
          <5> SUFFICES ASSUME NEW x \in keep PROVE CreatedAt(x) >= t
            OBVIOUS
          <5>1. CreatedAt(x) >= CreatedAt(w) /\ CreatedAt(x) \in Nat /\ CreatedAt(w) \in Nat
            BY <1>n, <3>1, <3>2
          <5> QED
            BY <3>8, <5>1
        <4> QED
          BY <3>1, <3>6, <4>1 DEF Outlived
      <3>9. CASE v \in victims
        <4>1. v.name \in chosen /\ CreatedAt(v.name) \in Nat
          BY <1>n, <2>1, <3>2, <3>9
        <4>2. CreatedAt(v.name) >= CreatedAt(v.name)
          BY <4>1
        <4>3. Outlived(keep, CreatedAt(v.name))
          BY <3>8, <4>1, <4>2
        <4> QED
          BY <1>5, <3>2, <3>7, <4>3
      <3>10. CASE v \in expired
        <4>1. PICK W \in SUBSET Names : Outlived(W, CreatedAt(v.name))
          BY <1>4, <3>10
        <4>2. CASE \E w \in W : w \in chosen
          <5>1. PICK w \in W : w \in chosen
            BY <4>2
          <5>2. CreatedAt(w) >= CreatedAt(v.name) /\ CreatedAt(v.name) \in Nat
            BY <1>1, <1>n, <3>10, <4>1 DEF Outlived, Victims
          <5>3. Outlived(keep, CreatedAt(v.name))
            BY <3>8, <5>1, <5>2
          <5> QED
            BY <1>5, <3>2, <3>7, <5>3
        <4>3. CASE \A w \in W : w \notin chosen
          <5>1. \A w \in W : ~Expired(w)'
            BY <3>3, <4>1, <4>3 DEF Outlived, Retained
          <5> QED
            BY <1>5, <4>1, <5>1
        <4> QED
          BY <4>2, <4>3
      <3> QED
        BY <1>7, <3>9, <3>10
    <2> QED
      BY <2>2, <2>3
  <1> QED
    BY <1>1, <1>6, <1>7, ExpiredSteps

-----------------------------------------------------------------------------
(***************************************************************************)
(* Theorems.                                                               *)
(***************************************************************************)
\* At the start there is a Backup of an earlier run with its archive, or none.
LEMMA InitInv == Init => IInv
  <1> SUFFICES ASSUME Init PROVE IInv
    OBVIOUS
  <1>0. /\ MaxTime \in Nat /\ MaxTime >= 1 /\ 1 \in Keys /\ Keys \subseteq Nat
        /\ Period \in Nat /\ 0 \in 0..MaxTime /\ 1 \in 0..MaxTime /\ 0 \notin Keys
    BY BackupAssumption
  <1>p. <<"backup", 1>> \in Names
    BY <1>0 DEF Names
  <1>1. PICK past \in SUBSET {<<"backup", 1>>} :
          /\ bk = [b \in Names |-> IF b \in past THEN [state |-> "Completed", key |-> 1]
                                                 ELSE NoBackup]
          /\ s3 = [k \in Keys |-> IF k = 1 /\ past # {} THEN "whole" ELSE "none"]
    BY DEF Init
  <1>2. /\ clock = 1 /\ gsCache = gs /\ gsFresh = TRUE /\ bkCache = bk
        /\ bkFresh = [b \in Names |-> TRUE] /\ worker = Idle /\ s3Client = FALSE
        /\ slips = {} /\ expired = {} /\ pipe = NoPipe /\ wake = 0 /\ creating = {}
        /\ used = [requests |-> 0, changes |-> 0, deletes |-> 0, faults |-> 0,
                   crashes |-> 0]
        /\ queue \subseteq {Schedule}
    BY DEF Init
  <1>3. gs \in GameServers /\ gs.last = 0
    BY <1>0 DEF Init, GameServers
  <1>4. /\ bk \in [Names -> Backups]
        /\ \A b \in Names : \/ b = <<"backup", 1>> /\ b \in past
                               /\ bk[b].state = "Completed" /\ bk[b].key = 1
                            \/ bk[b].state = "None" /\ bk[b].key = 0
    BY <1>0, <1>1 DEF Backups, NoBackup, BackupStates
  <1>5. s3 \in [Keys -> Contents] /\ \A k \in Keys : s3[k] # "truncated"
    BY <1>1 DEF Contents
  <1>6. used \in Budgets
    BY <1>2, BackupAssumption DEF Budgets
  <1>7. worker.pc = "idle" /\ worker.victims = {} /\ worker.removed = {} /\ worker.at = 0
        /\ worker.name = Schedule
    BY <1>2 DEF Idle
  <1>8. TypeOK
    <2>1. pipe \in Pipes
      BY <1>2 DEF Pipes, NoPipe
    <2>2. clock \in 1..MaxTime /\ wake \in 0..(MaxTime + Period)
      BY <1>0, <1>2
    <2>3. worker.at \in 0..MaxTime /\ worker.name \in Names \cup {Schedule}
      BY <1>0, <1>7
    <2> QED
      BY <1>2, <1>3, <1>4, <1>5, <1>6, <1>7, <2>1, <2>2, <2>3 DEF TypeOK
  <1>9. WorkerReady
    BY <1>0, <1>2, <1>7 DEF WorkerReady, WorkerStates, Idle, Uploading
  <1>10. FreshCopies /\ KeysNamed
    BY <1>0, <1>2, <1>4 DEF FreshCopies, KeysNamed, KeyNamed
  <1>11. InProgressLag /\ CompletedLag
    BY <1>2, <1>4 DEF InProgressLag, CompletedLag
  <1>12. EndedAtRest
    <2>1. \A b \in Names : b # Schedule
      BY DEF Names, Schedule
    <2> QED
      BY <1>2, <2>1 DEF EndedAtRest
  <1>13. UploadOwned /\ PipeSound /\ VictimsKept
    BY <1>2, <1>7 DEF UploadOwned, PipeSound, VictimsKept, Uploading, NoPipe
  <1>14. ArchivesRemoved
    BY <1>2, <1>4, <1>7 DEF ArchivesRemoved
  <1>15. ScheduleRecorded /\ OneBackupPerScheduledTime
    <2>1. \A t \in Keys : ~Exists(<<"scheduled", t>>)
      <3> SUFFICES ASSUME NEW t \in Keys PROVE ~Exists(<<"scheduled", t>>)
        OBVIOUS
      <3>1. <<"scheduled", t>> \in Names /\ <<"scheduled", t>> # <<"backup", 1>>
        BY DEF Names
      <3> QED
        BY <1>4, <3>1 DEF Exists
    <2>2. gs.last <= clock
      BY <1>2, <1>3
    <2> QED
      BY <1>7, <2>1, <2>2 DEF ScheduleRecorded, OneBackupPerScheduledTime
  <1>16. NewestRetained /\ ArchivesWhole
    BY <1>2, <1>5 DEF NewestRetained, ArchivesWhole
  <1>17. CompletedRestorable
    BY <1>0, <1>1, <1>4 DEF CompletedRestorable, Completed
  <1>18. NoOrphanArchive
    <2> SUFFICES ASSUME NEW k \in Keys, s3[k] # "none"
                 PROVE  \E b \in Names : bk[b].key = k
      BY DEF NoOrphanArchive
    <2>1. k = 1 /\ past # {}
      BY <1>1
    <2>2. <<"backup", 1>> \in past
      BY <2>1
    <2>3. bk[<<"backup", 1>>].key = 1
      BY <1>1, <1>p, <2>2
    <2> QED
      BY <1>p, <2>1, <2>3
  <1> QED
    BY <1>8, <1>9, <1>10, <1>11, <1>12, <1>13, <1>14, <1>15, <1>16, <1>17, <1>18
    DEF IInv

\* The invariant holds always: the reconciler, the goroutines of an upload,
\* the handlers, administrators, the watch, the timer and restarts keep it.
THEOREM BackupInvariance == Spec => []IInv
  <1>1. Init => IInv
    BY InitInv
  <1>2. IInv /\ [Next]_vars => IInv'
    <2> SUFFICES ASSUME IInv, [Next]_vars PROVE IInv'
      OBVIOUS
    <2>1. TypeOK' /\ WorkerReady'
      BY NextType, NextWorker DEF IInv
    <2>2. FreshCopies' /\ KeysNamed' /\ InProgressLag' /\ CompletedLag'
      BY NextCopies, NextLag
    <2>3. EndedAtRest' /\ UploadOwned'
      BY NextEnded, NextUploadOwned
    <2>4. PipeSound' /\ ArchivesWhole' /\ VictimsKept' /\ ArchivesRemoved'
      BY NextPipe, NextVictims, NextRemoved
    <2>5. ScheduleRecorded' /\ OneBackupPerScheduledTime' /\ NewestRetained'
      BY NextRecorded, NextScheduled, NextRetained
    <2>6. CompletedRestorable' /\ NoOrphanArchive'
      BY NextRestorable, NextNoOrphan
    <2> QED
      BY <2>1, <2>2, <2>3, <2>4, <2>5, <2>6 DEF IInv
  <1> QED
    BY <1>1, <1>2, PTL DEF Spec

\* The state is always of its type: retention works on Backups it has chosen,
\* and the worker on keys it was given (Reconcile, enforceRetention).
THEOREM BackupTypeCorrect == Spec => []TypeOK
  <1>1. IInv => TypeOK
    BY DEF IInv
  <1> QED
    BY <1>1, BackupInvariance, PTL

\* No archive in the bucket is ever truncated, whenever tar, gzip, the pipe
\* or S3 fails (performBackup).
THEOREM ArchivesStayWhole == Spec => []ArchivesWhole
  <1>1. IInv => ArchivesWhole
    BY DEF IInv
  <1> QED
    BY <1>1, BackupInvariance, PTL

\* A completed Backup can be restored until retention takes its archive, for
\* any number of Backups, retries and restarts (reconcileInProgress).
THEOREM CompletedCanBeRestored == Spec => []CompletedRestorable
  <1>1. IInv => CompletedRestorable
    BY DEF IInv
  <1> QED
    BY <1>1, BackupInvariance, PTL

\* Without failures, restarts and deletions by hand no archive is left behind
\* (reconcileInProgress, enforceRetention).
THEOREM ArchivesAccounted == Spec => []NoOrphanArchive
  <1>1. IInv => NoOrphanArchive
    BY DEF IInv
  <1> QED
    BY <1>1, BackupInvariance, PTL

\* No time of the schedule gets a second Backup, for any period, but for the
\* two excuses of the property (reconcileGameServerSchedule).
THEOREM ScheduledOnce == Spec => []OneBackupPerScheduledTime
  <1>1. IInv => OneBackupPerScheduledTime
    BY DEF IInv
  <1> QED
    BY <1>1, BackupInvariance, PTL

\* Retention leaves as many completed Backups as it is told to, for any such
\* number, although it works from an outdated list and is interrupted by
\* restarts (enforceRetention).
THEOREM RetentionSafe == Spec => []RetentionKeepsEnough
  <1>1. IInv => RetentionKeepsEnough
    <2> SUFFICES ASSUME IInv, expired # {}, Undisturbed
                 PROVE  Cardinality({b \in Completed : \A v \in expired : v.name # b})
                          >= RetentionCount
      BY DEF RetentionKeepsEnough, Undisturbed
    <2> DEFINE kept == {b \in Completed : \A v \in expired : v.name # b}
    <2>1. PICK v \in expired : TRUE
      OBVIOUS
    <2>2. PICK W \in SUBSET Names : Outlived(W, CreatedAt(v.name))
      BY <2>1 DEF IInv, NewestRetained
    <2>3. W \subseteq kept /\ Cardinality(W) = RetentionCount
      BY <2>2 DEF Outlived, Retained, Expired, Completed
    <2>4. kept \subseteq Names
      BY DEF Completed
    <2>5. IsFiniteSet(kept)
      BY <2>4, NamesFinite, FS_Subset
    <2> HIDE DEF kept
    <2>6. Cardinality(W) <= Cardinality(kept) /\ Cardinality(kept) \in Nat
      BY <2>3, <2>5, FS_Subset, FS_CardinalityType
    <2>7. Cardinality(kept) >= RetentionCount
      BY <2>3, <2>6, BackupAssumption
    <2> QED
      BY <2>7 DEF kept
  <1> QED
    BY <1>1, BackupInvariance, PTL

-----------------------------------------------------------------------------
(***************************************************************************)
(* The refinement of BackupJobs.                                           *)
(***************************************************************************)
\* At the start every Backup is absent, or completed with its archive.
LEMMA PromiseInit ==
    ASSUME Init
    PROVE  Promise!Init
  <1>1. IInv /\ CompletedRestorable /\ KeysNamed
    BY InitInv DEF IInv
  <1>2. \A b \in Names : bk[b] = NoBackup \/ bk[b].state = "Completed"
    BY DEF Init, NoBackup
  <1>3. expired = {}
    BY DEF Init
  <1>4. \A b \in Names : bk[b].state = "Completed" =>
            bk[b].key \in Keys /\ s3[bk[b].key] = "whole"
    BY <1>1, <1>3 DEF CompletedRestorable, Completed, KeysNamed, KeyNamed
  <1> QED
    BY <1>2, <1>4 DEF Promise!Init, Promise!None, NoBackup

\* A write of a Backup is a creation, a transition of the table or a deletion.
LEMMA PromiseWrite ==
    ASSUME IInv, [Next]_vars, WriteStep
    PROVE  Promise!Next
  <1>1. TypeOK /\ WorkerReady /\ PipeSound
    BY DEF IInv
  <1>2. PICK b \in Names, s \in BackupStates \cup {"None"}, k \in 0..MaxTime :
          Write(b, s, k) /\ SetBackup(b, s, k)
    BY DEF WriteStep
  <1>3. bk' = [bk EXCEPT ![b] = [state |-> s, key |-> k]]
    BY <1>2 DEF SetBackup
  <1> DEFINE whole == {j \in Keys : s3[j] = "whole"}
  <1>4. UNCHANGED s3
    <2>1. ~bkFresh'[b] /\ bk'[b].state = s
      BY <1>1, <1>2, WriteEffect
    <2>2. bk[b].state # s
      BY <1>2 DEF Write, WorkerMoves
    <2> QED
      BY <1>1, <2>1, <2>2, BucketSteps
  <1>5. UNCHANGED whole
    BY <1>4
  <1>6. CASE bk[b].state = "None" /\ s = "" /\ k = 0
    <2>1. Promise!Create(b)
      BY <1>3, <1>5, <1>6 DEF Promise!Create, Promise!Become
    <2> QED
      BY <2>1 DEF Promise!Next
  <1>7. CASE bk[b].state # "None" /\ s = "None" /\ k = 0
    <2>1. Promise!Delete(b)
      BY <1>3, <1>5, <1>7 DEF Promise!Delete, Promise!None
    <2> QED
      BY <2>1 DEF Promise!Next
  <1>8. CASE <<bk[b].state, s>> \in WorkerMoves /\ k = 0
    <2>1. /\ <<bk[b].state, s>> \in Promise!BackupValidTransitions
          /\ s \in {"Pending", "InProgress", "Failed"}
      BY <1>8 DEF WorkerMoves, Promise!BackupValidTransitions
    <2>2. Promise!Move(b, s, k)
      BY <1>3, <1>5, <1>8, <2>1 DEF Promise!Move, Promise!Become
    <2> QED
      BY <1>8, <2>1, <2>2 DEF Promise!Next
  <1>9. CASE /\ bk[b].state = "InProgress" /\ s = "Completed"
             /\ Uploading /\ k = worker.at /\ Succeeded
    <2>1. <<bk[b].state, s>> \in Promise!BackupValidTransitions
      BY <1>9 DEF Promise!BackupValidTransitions
    <2>2. k \in Keys /\ k \in whole
      BY <1>1, <1>9 DEF WorkerReady, Uploading, PipeSound, Succeeded
    <2>3. Promise!Move(b, s, k)
      BY <1>3, <1>5, <1>9, <2>1, <2>2 DEF Promise!Move, Promise!Become
    <2> QED
      BY <1>9, <2>2, <2>3 DEF Promise!Next
  <1> QED
    BY <1>2, <1>6, <1>7, <1>8, <1>9 DEF Write, WorkerMoves

\* A step of the system is one of the promise, or none.
LEMMA PromiseStep ==
    ASSUME IInv, [Next]_vars
    PROVE  [Promise!Next]_<<bk, {k \in Keys : s3[k] = "whole"}>>
  <1> DEFINE whole == {k \in Keys : s3[k] = "whole"}
  <1>1. /\ TypeOK /\ WorkerReady /\ FreshCopies /\ UploadOwned /\ PipeSound
        /\ VictimsKept /\ s3 \in [Keys -> Contents]
    BY DEF IInv, TypeOK
  <1>2. CASE WriteStep
    BY <1>2, PromiseWrite
  <1>3. CASE UNCHANGED bk
    <2>1. CASE UNCHANGED s3
      BY <1>3, <2>1
    <2>2. CASE StoreStep
      <3>1. worker.at \in Keys
        BY <1>1, <2>2 DEF StoreStep, WorkerReady, Uploading
      <3>2. whole' = whole \cup {worker.at}
        BY <1>1, <2>2, <3>1 DEF StoreStep
      <3>3. PICK k \in Keys : whole' = whole \cup {k}
        BY <3>1, <3>2
      <3>4. Promise!Store(k)
        BY <1>3, <3>3 DEF Promise!Store
      <3> QED
        BY <3>4 DEF Promise!Next
    <2>3. CASE RemoveStep
      <3>1. PICK v \in worker.victims : s3' = [s3 EXCEPT ![v.key] = "none"]
        BY <2>3 DEF RemoveStep
      <3>2. v.key \in Keys
        BY <1>1 DEF VictimsKept
      <3>3. whole' = whole \ {v.key}
        BY <1>1, <3>1, <3>2
      <3>4. Promise!Expire(v.key)
        BY <1>3, <3>3 DEF Promise!Expire
      <3> QED
        BY <3>2, <3>4 DEF Promise!Next
    <2> QED
      BY <1>1, <2>1, <2>2, <2>3, BucketSteps
  <1> QED
    BY <1>1, <1>2, <1>3, BackupWrites DEF CatchUp

\* The Backups implement BackupJobs: with any number of them, outdated copies,
\* failed writes, repeated uploads and restarts, each goes through the states
\* of its table and completes only with its archive in the bucket
\* (transitionBackupState, reconcileInProgress).
THEOREM PromiseKept == Spec => KeepsPromise
  <1>1. Init => Promise!Init
    BY PromiseInit
  <1>2. IInv /\ [Next]_vars => [Promise!Next]_<<bk, {k \in Keys : s3[k] = "whole"}>>
    BY PromiseStep
  <1> QED
    BY <1>1, <1>2, BackupInvariance, PTL DEF Spec, KeepsPromise, Promise!Spec
=============================================================================
