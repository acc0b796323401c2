------------------------------- MODULE Backup -------------------------------
(***************************************************************************)
(* The Backup objects of one game server: BackupReconciler of              *)
(* internal/controller/backup_controller.go with its schedule and its      *)
(* retention, and the handlers of internal/api/handlers_backups.go.        *)
(*                                                                         *)
(* The reconciler has one worker (the default MaxConcurrentReconciles).    *)
(* It reads Backups and the GameServer from the informers' caches and      *)
(* writes them to the API server, which refuses an update of anything but  *)
(* the newest version.  A step of the worker ends at a write, or where an  *)
(* upload goes on: what it reads before is the cache, which lags anyway.   *)
(*                                                                         *)
(* Time is counted in seconds: a Backup is named after the second it was   *)
(* created in, an S3 object after the second its upload started in.  The   *)
(* cron expression is due at every multiple of Period.                     *)
(***************************************************************************)
EXTENDS BackupPipeline, FiniteSets

CONSTANTS
    MaxTime,         \* bound: the clock stops here
    Period,          \* seconds between two times of the cron expression
    RetentionCount,  \* of the annotation, or the admin's default
    MaxRequests,     \* bound: backups users ask for
    MaxChanges,      \* bound: changes of the server and of its schedule
    MaxDeletes,      \* bound: backups administrators delete
    MaxFaults,       \* bound: refused or lost requests, bad configurations
    MaxCrashes,      \* bound: restarts of the operator
    MaxEvents        \* bound: all of these together

ASSUME BackupAssumption ==
    /\ MaxTime \in Nat \ {0}
    /\ Period \in Nat \ {0}
    /\ RetentionCount \in Nat
    /\ Keys = 1..MaxTime
    /\ {MaxRequests, MaxChanges, MaxDeletes, MaxFaults, MaxCrashes, MaxEvents}
         \subseteq Nat

VARIABLES
    clock,     \* the second it is
    gs,        \* the GameServer: whether it runs, schedule, last backup time
    gsCache,   \* the informer's copy
    gsFresh,   \* it has the API server's version
    bk,        \* the Backups
    bkCache,   \* the informer's copies
    bkFresh,   \* which of them have the API server's version
    creating,  \* Backups whose handler has yet to set the state Pending
    queue,     \* keys in the workqueue
    wake,      \* when a delayed requeue of the schedule is due, or 0
    worker,    \* what the worker is doing
    s3Client,  \* r.s3Client is set
    slips,     \* scheduled Backups decided on an old copy or not recorded
    expired,   \* Backups retention has chosen so far, with their keys
    used       \* how much of each bound is used up

backupVars == <<clock, gs, gsCache, gsFresh, bk, bkCache, bkFresh, creating,
                queue, wake, worker, s3Client, slips, expired, used>>
vars == <<backupVars, pipe, s3>>

-----------------------------------------------------------------------------
(***************************************************************************)
(* State.                                                                  *)
(***************************************************************************)
Names == {"backup", "scheduled"} \X Keys
CreatedAt(b) == b[2]

\* The synthetic key "schedule-<server>".
Schedule == <<"schedule", 0>>

GameServers == [state : {"Running", "Idle", "Gone"}, schedule : BOOLEAN,
                last : 0..MaxTime]

BackupStates == {"", "Pending", "InProgress", "Completed", "Failed"}
Backups == [state : BackupStates \cup {"None"}, key : 0..MaxTime]
NoBackup == [state |-> "None", key |-> 0]

IsBackupTerminal(s) == s \in {"Completed", "Failed"}

Unfinished(backup) == backup.state \in {"", "Pending", "InProgress"}

Exists(b) == bk[b].state # "None"
Cached(b) == bkCache[b].state # "None"
Completed == {b \in Names : bk[b].state = "Completed"}

\* at is the time the step started (now); victims are the Backups retention
\* has still to delete, removed the one of them whose archive is dealt with.
Idle == [pc |-> "idle", name |-> Schedule, at |-> 0, victims |-> {},
         removed |-> {}]

Budgets == [requests : 0..MaxRequests, changes : 0..MaxChanges,
            deletes : 0..MaxDeletes, faults : 0..MaxFaults,
            crashes : 0..MaxCrashes]

Victims == [name : Names, key : 0..MaxTime]

TypeOK ==
    /\ clock \in 1..MaxTime
    /\ gs \in GameServers /\ gsCache \in GameServers /\ gsFresh \in BOOLEAN
    /\ bk \in [Names -> Backups] /\ bkCache \in [Names -> Backups]
    /\ bkFresh \in [Names -> BOOLEAN]
    /\ creating \subseteq Names
    /\ queue \subseteq Names \cup {Schedule}
    /\ wake \in 0..(MaxTime + Period)
    /\ worker.pc \in {"idle", "uploading", "recording", "retaining"}
    /\ worker.name \in Names \cup {Schedule}
    /\ worker.at \in 0..MaxTime
    /\ worker.removed \subseteq worker.victims
    /\ worker.victims \subseteq expired
    /\ s3Client \in BOOLEAN
    /\ slips \subseteq Names
    /\ expired \subseteq Victims
    /\ used \in Budgets
    /\ pipe \in Pipes
    /\ s3 \in [Keys -> Contents]

\* The operator starts, perhaps with a Backup completed in an earlier run, and
\* with the server running or stopped.
Init ==
    /\ clock = 1
    /\ gs \in [state : {"Running", "Idle"}, schedule : BOOLEAN, last : {0}]
    /\ gsCache = gs
    /\ gsFresh = TRUE
    /\ \E past \in SUBSET {<<"backup", 1>>} :
          /\ bk = [b \in Names |-> IF b \in past
                                  THEN [state |-> "Completed", key |-> 1]
                                  ELSE NoBackup]
          /\ s3 = [k \in Keys |-> IF k = 1 /\ past # {} THEN "whole" ELSE "none"]
    /\ bkCache = bk
    /\ bkFresh = [b \in Names |-> TRUE]
    /\ creating = {}
    /\ queue = {q \in {Schedule} : gs.schedule}
    /\ wake = 0
    /\ worker = Idle
    /\ s3Client = FALSE
    /\ slips = {}
    /\ expired = {}
    /\ used = [requests |-> 0, changes |-> 0, deletes |-> 0, faults |-> 0,
               crashes |-> 0]
    /\ pipe = NoPipe

-----------------------------------------------------------------------------
(***************************************************************************)
(* The API server and the informers.                                       *)
(***************************************************************************)
SetBackup(b, state, key) ==
    /\ bk' = [bk EXCEPT ![b] = [state |-> state, key |-> key]]
    /\ bkFresh' = [bkFresh EXCEPT ![b] = FALSE]

SetServer(g) ==
    /\ gs' = g
    /\ gsFresh' = FALSE

Bound == [requests |-> MaxRequests, changes |-> MaxChanges,
          deletes |-> MaxDeletes, faults |-> MaxFaults, crashes |-> MaxCrashes]

Spend(kind) ==
    /\ used[kind] < Bound[kind]
    /\ used.requests + used.changes + used.deletes + used.faults + used.crashes
         < MaxEvents
    /\ used' = [used EXCEPT ![kind] = @ + 1]

\* A request to the API server, to S3 or for the configuration goes wrong.
Fault == Spend("faults")

\* The watch, which keeps the order of the changes, catches up with the
\* Backups and queues their keys, whatever has changed.  The keys of Backups
\* that have ended or are gone are left out: their reconcile does nothing.
SyncBackups ==
    /\ bkCache' = bk
    /\ bkFresh' = [b \in Names |-> TRUE]
    /\ queue' = queue \cup {b \in Names : ~bkFresh[b] /\ Unfinished(bk[b])}
    /\ bkFresh' # bkFresh
    /\ UNCHANGED <<clock, gs, gsCache, gsFresh, bk, creating, wake, worker,
                   s3Client, slips, expired, used, pipe, s3>>

\* The watch delivers the GameServer; the map function looks at the old copy
\* and at the new one.
SyncServer ==
    /\ ~gsFresh
    /\ gsCache' = gs
    /\ gsFresh' = TRUE
    /\ queue' = IF gsCache.schedule \/ gs.schedule THEN queue \cup {Schedule}
                                                   ELSE queue
    /\ UNCHANGED <<clock, gs, bk, bkCache, bkFresh, creating, wake, worker,
                   s3Client, slips, expired, used, pipe, s3>>

-----------------------------------------------------------------------------
(***************************************************************************)
(* Reconcile of a Backup.                                                  *)
(***************************************************************************)
Picks(key) == worker.pc = "idle" /\ key \in queue

Running(g) == g.state = "Running"

\* transitionBackupState, and the update of reconcilePending: the state is
\* written over the cached copy, whatever it says.  When that is outdated, or
\* the request fails, the error requeues the key.
Transition(b, state) ==
    \/ /\ bkFresh[b]
       /\ SetBackup(b, state, 0)
       /\ queue' = IF IsBackupTerminal(state) THEN queue \ {b}
                                              ELSE queue \cup {b}
       /\ UNCHANGED used
    \/ /\ \/ ~bkFresh[b] /\ UNCHANGED used
          \/ Fault
       /\ queue' = queue \cup {b}
       /\ UNCHANGED <<bk, bkFresh>>

\* The object is gone, or there is nothing to do.
SkipBackup(b) ==
    /\ Picks(b)
    /\ ~Unfinished(bkCache[b])
    /\ queue' = queue \ {b}
    /\ UNCHANGED <<clock, gs, gsCache, gsFresh, bk, bkCache, bkFresh,
                   creating, wake, worker, s3Client, slips, expired, used,
                   pipe, s3>>

\* Another Backup of the server is in progress as far as the cache knows.
OtherInProgress(b) ==
    \E o \in Names \ {b} : bkCache[o].state = "InProgress"

\* Fault: a Backup without a state is left alone.
ReconcilePendingOnly(b) ==
    /\ Picks(b)
    /\ bkCache[b].state = "Pending"
    /\ IF Running(gsCache) /\ ~OtherInProgress(b)
       THEN Transition(b, "InProgress")
       ELSE Transition(b, "Failed")
    /\ UNCHANGED <<clock, gs, gsCache, gsFresh, bkCache, creating, wake,
                   worker, s3Client, slips, expired, pipe, s3>>

ReconcilePending(b) ==
    /\ Picks(b)
    /\ \/ /\ bkCache[b].state = ""
          /\ Transition(b, "Pending")
       \/ /\ bkCache[b].state = "Pending"
          /\ IF Running(gsCache) /\ ~OtherInProgress(b)
             THEN Transition(b, "InProgress")
             ELSE Transition(b, "Failed")
       \/ /\ bkCache[b].state = "Pending"  \* no S3 endpoint is configured
          /\ Fault
          /\ bkFresh[b]
          /\ SetBackup(b, "Failed", 0)
          /\ queue' = queue \ {b}
    /\ UNCHANGED <<clock, gs, gsCache, gsFresh, bkCache, creating, wake,
                   worker, s3Client, slips, expired, pipe, s3>>

\* The server has stopped, or ensureS3Client or the bucket is in the way.
RefuseInProgress(b) ==
    /\ Picks(b)
    /\ bkCache[b].state = "InProgress"
    /\ \/ /\ ~Running(gsCache)
          /\ Transition(b, "Failed")
          /\ UNCHANGED s3Client
       \/ /\ Running(gsCache)
          /\ Fault
          /\ bkFresh[b]
          /\ SetBackup(b, "Failed", 0)
          /\ queue' = queue \ {b}
          /\ s3Client' \in {s3Client, TRUE}
    /\ UNCHANGED <<clock, gs, gsCache, gsFresh, bkCache, creating, wake,
                   worker, slips, expired, pipe, s3>>

\* The upload starts, under the key of this second.
StartUpload(b) ==
    /\ Picks(b)
    /\ bkCache[b].state = "InProgress"
    /\ Running(gsCache)
    /\ s3Client' = TRUE
    /\ pipe' = NewPipe
    /\ worker' = [Idle EXCEPT !.pc = "uploading", !.name = b, !.at = clock]
    /\ queue' = queue \ {b}
    /\ UNCHANGED <<clock, gs, gsCache, gsFresh, bk, bkCache, bkFresh,
                   creating, wake, slips, expired, used, s3>>

Uploading == worker.pc = "uploading"

UploadStep ==
    /\ Uploading
    /\ \/ Transfer(worker.at) /\ UNCHANGED used
       \/ UploadFails(worker.at) /\ Fault
    /\ UNCHANGED <<clock, gs, gsCache, gsFresh, bk, bkCache, bkFresh, creating,
                   queue, wake, worker, s3Client, slips, expired>>

\* performBackup has returned: Completed with the key, or Failed.  When the
\* write fails the Backup stays InProgress and is uploaded again.
FinishUpload ==
    /\ Uploading
    /\ Returned
    /\ LET b == worker.name
       IN  \/ /\ Cached(b) /\ bkFresh[b]
              /\ IF Succeeded THEN SetBackup(b, "Completed", worker.at)
                              ELSE SetBackup(b, "Failed", 0)
              /\ UNCHANGED <<queue, used>>
           \/ /\ \/ ~(Cached(b) /\ bkFresh[b]) /\ UNCHANGED used
                 \/ Fault
              /\ queue' = queue \cup {b}
              /\ UNCHANGED <<bk, bkFresh>>
    /\ worker' = Idle
    /\ pipe' = NoPipe
    /\ UNCHANGED <<clock, gs, gsCache, gsFresh, bkCache, creating, wake,
                   s3Client, slips, expired, s3>>

-----------------------------------------------------------------------------
(***************************************************************************)
(* Reconcile of the schedule: reconcileGameServerSchedule.                 *)
(***************************************************************************)
\* sched.Next: the first time of the cron expression after t.  Without a last
\* backup the server's creation, second 0, counts.
NextTime(t) == ((t \div Period) + 1) * Period

Due(g) == clock >= NextTime(g.last)

\* RequeueAfter: the workqueue keeps the earlier of two times for a key.
WakeAt(t) == wake' = IF wake = 0 \/ t < wake THEN t ELSE wake

\* No server, no schedule, not running: only an event brings the key back.
SkipSchedule ==
    /\ Picks(Schedule)
    /\ ~Running(gsCache) \/ ~gsCache.schedule
    /\ queue' = queue \ {Schedule}
    /\ UNCHANGED <<clock, gs, gsCache, gsFresh, bk, bkCache, bkFresh,
                   creating, wake, worker, s3Client, slips, expired, used,
                   pipe, s3>>

\* Fault: not due, and no requeue.
ForgetSchedule ==
    /\ Picks(Schedule)
    /\ Running(gsCache) /\ gsCache.schedule
    /\ ~Due(gsCache)
    /\ queue' = queue \ {Schedule}
    /\ UNCHANGED <<clock, gs, gsCache, gsFresh, bk, bkCache, bkFresh,
                   creating, wake, worker, s3Client, slips, expired, used,
                   pipe, s3>>

AwaitSchedule ==
    /\ Picks(Schedule)
    /\ Running(gsCache) /\ gsCache.schedule
    /\ ~Due(gsCache)
    /\ WakeAt(NextTime(gsCache.last))
    /\ queue' = queue \ {Schedule}
    /\ UNCHANGED <<clock, gs, gsCache, gsFresh, bk, bkCache, bkFresh,
                   creating, worker, s3Client, slips, expired, used, pipe, s3>>

\* A Backup named after this second, unless there is one.
CreateScheduled ==
    /\ Picks(Schedule)
    /\ Running(gsCache) /\ gsCache.schedule
    /\ Due(gsCache)
    /\ LET b == <<"scheduled", clock>>
       IN  \/ /\ IF Exists(b) THEN UNCHANGED <<bk, bkFresh>>
                              ELSE SetBackup(b, "", 0)
              /\ slips' = IF gsFresh THEN slips ELSE slips \cup {b}
              /\ worker' = [Idle EXCEPT !.pc = "recording", !.at = clock]
              /\ queue' = queue \ {Schedule}
              /\ UNCHANGED used
           \/ /\ Fault
              /\ UNCHANGED <<bk, bkFresh, worker, queue, slips>>
    /\ UNCHANGED <<clock, gs, gsCache, gsFresh, bkCache, creating, wake,
                   s3Client, expired, pipe, s3>>

\* All but the n newest of the Backups ended; the sort leaves the order of
\* those created in one second open.
BeyondNewest(n, ended) ==
    IF n = 0 \/ Cardinality(ended) <= n
    THEN {{}}
    ELSE {chosen \in SUBSET ended :
            /\ Cardinality(ended \ chosen) = n
            /\ \A b \in chosen, c \in ended \ chosen : CreatedAt(c) >= CreatedAt(b)}

\* Fault: failed Backups are counted among those to keep.
ExpiringEnded(cached) ==
    {{[name |-> b, key |-> cached[b].key] : b \in chosen} :
        chosen \in BeyondNewest(RetentionCount,
                                {b \in Names : IsBackupTerminal(cached[b].state)})}

\* enforceRetention deletes the completed Backups in the cache beyond the
\* RetentionCount newest.
Expiring(cached) ==
    {{[name |-> b, key |-> cached[b].key] : b \in chosen} :
        chosen \in BeyondNewest(RetentionCount,
                                {b \in Names : cached[b].state = "Completed"})}

Retain(victims) ==
    /\ worker' = [worker EXCEPT !.pc = "retaining", !.victims = victims]
    /\ expired' = expired \cup victims

\* Fault: the time of the last backup is not recorded.
RecordNothing ==
    /\ worker.pc = "recording"
    /\ worker' = Idle
    /\ WakeAt(clock + (NextTime(worker.at) - worker.at))
    /\ UNCHANGED <<clock, gs, gsCache, gsFresh, bk, bkCache, bkFresh,
                   creating, queue, s3Client, slips, expired, used, pipe, s3>>

\* The annotation is written over the re-fetched GameServer; when that has
\* gone, is outdated, or the request fails, the schedule is looked at again.
\* Then retention makes its list.  A configuration that cannot be read skips it.
RecordLastBackup ==
    /\ worker.pc = "recording"
    /\ \/ /\ gsFresh /\ gsCache.state # "Gone"
          /\ SetServer([gs EXCEPT !.last = worker.at])
          /\ \/ UNCHANGED used /\ \E victims \in Expiring(bkCache) : Retain(victims)
             \/ Fault /\ Retain({})
          /\ UNCHANGED <<queue, slips>>
       \/ /\ \/ ~(gsFresh /\ gsCache.state # "Gone") /\ UNCHANGED used
             \/ Fault
          /\ worker' = Idle
          /\ queue' = queue \cup {Schedule}
          /\ slips' = slips \cup {<<"scheduled", worker.at>>}
          /\ UNCHANGED <<gs, gsFresh, expired>>
    /\ UNCHANGED <<clock, gsCache, bk, bkCache, bkFresh, creating, wake,
                   s3Client, pipe, s3>>

\* Fault: the archive is left in the bucket.
KeepArchive(v) ==
    /\ worker.pc = "retaining"
    /\ worker.removed = {}
    /\ v \in worker.victims
    /\ \A o \in worker.victims : CreatedAt(o.name) <= CreatedAt(v.name)
    /\ worker' = [worker EXCEPT !.removed = {v}]
    /\ UNCHANGED <<clock, gs, gsCache, gsFresh, bk, bkCache, bkFresh,
                   creating, queue, wake, s3Client, slips, expired, used,
                   pipe, s3>>

\* Newest first, the archive before the object; without an S3 client, that
\* is before the first upload of this process, it stays.  Failures are logged.
RemoveArchive(v) ==
    /\ worker.pc = "retaining"
    /\ worker.removed = {}
    /\ v \in worker.victims
    /\ \A o \in worker.victims : CreatedAt(o.name) <= CreatedAt(v.name)
    /\ worker' = [worker EXCEPT !.removed = {v}]
    /\ \/ s3Client /\ s3' = [s3 EXCEPT ![v.key] = "none"] /\ UNCHANGED used
       \/ ~s3Client /\ UNCHANGED <<s3, used>>
       \/ s3Client /\ Fault /\ UNCHANGED s3
    /\ UNCHANGED <<clock, gs, gsCache, gsFresh, bk, bkCache, bkFresh,
                   creating, queue, wake, s3Client, slips, expired, pipe>>

DeleteExpired(v) ==
    /\ worker.pc = "retaining"
    /\ v \in worker.removed
    /\ worker' = [worker EXCEPT !.victims = @ \ {v}, !.removed = {}]
    /\ \/ /\ IF Exists(v.name) THEN SetBackup(v.name, "None", 0)
                               ELSE UNCHANGED <<bk, bkFresh>>
          /\ UNCHANGED used
       \/ /\ Fault
          /\ UNCHANGED <<bk, bkFresh>>
    /\ creating' = creating \ {v.name}
    /\ UNCHANGED <<clock, gs, gsCache, gsFresh, bkCache, queue, wake,
                   s3Client, slips, expired, pipe, s3>>

\* Fault: RequeueAfter is given the next time in place of the time until then.
RequeueTooLate ==
    /\ worker.pc = "retaining"
    /\ worker.victims = {}
    /\ worker' = Idle
    /\ WakeAt(clock + NextTime(worker.at))
    /\ UNCHANGED <<clock, gs, gsCache, gsFresh, bk, bkCache, bkFresh, creating,
                   queue, s3Client, slips, expired, used, pipe, s3>>

\* RequeueAfter the time between now and the next backup, counted from here.
FinishSchedule ==
    /\ worker.pc = "retaining"
    /\ worker.victims = {}
    /\ worker' = Idle
    /\ WakeAt(clock + (NextTime(worker.at) - worker.at))
    /\ UNCHANGED <<clock, gs, gsCache, gsFresh, bk, bkCache, bkFresh,
                   creating, queue, s3Client, slips, expired, used, pipe, s3>>

TimerFires ==
    /\ wake # 0 /\ clock >= wake
    /\ wake' = 0
    /\ queue' = queue \cup {Schedule}
    /\ UNCHANGED <<clock, gs, gsCache, gsFresh, bk, bkCache, bkFresh,
                   creating, worker, s3Client, slips, expired, used, pipe, s3>>

-----------------------------------------------------------------------------
(***************************************************************************)
(* The HTTP handlers.                                                      *)
(***************************************************************************)
\* handleCreateBackup up to the creation; a name already taken is an error.
RequestBackup ==
    LET b == <<"backup", clock>>
    IN  /\ Spend("requests")
        /\ Running(gsCache)
        /\ \A o \in Names : bkCache[o].state # "InProgress"
        /\ ~Exists(b)
        /\ SetBackup(b, "", 0)
        /\ creating' = creating \cup {b}
        /\ UNCHANGED <<clock, gs, gsCache, gsFresh, bkCache, queue, wake,
                       worker, s3Client, slips, expired, pipe, s3>>

\* Fault: the state is written over whatever version there is.
SetPendingAnyway(b) ==
    /\ b \in creating
    /\ creating' = creating \ {b}
    /\ IF Exists(b) THEN SetBackup(b, "Pending", 0)
                    ELSE UNCHANGED <<bk, bkFresh>>
    /\ UNCHANGED <<clock, gs, gsCache, gsFresh, bkCache, queue, wake, worker,
                   s3Client, slips, expired, used, pipe, s3>>

\* Its second half: the state Pending, refused once anybody has written.
SetPending(b) ==
    /\ b \in creating
    /\ creating' = creating \ {b}
    /\ IF bk[b].state = "" THEN SetBackup(b, "Pending", 0)
                           ELSE UNCHANGED <<bk, bkFresh>>
    /\ UNCHANGED <<clock, gs, gsCache, gsFresh, bkCache, queue, wake, worker,
                   s3Client, slips, expired, used, pipe, s3>>

\* handleDeleteBackup leaves the archive where it is.  An administrator needs
\* more than the second a Backup is named after to delete it.
DeleteBackup(b) ==
    /\ Spend("deletes")
    /\ Cached(b) /\ Exists(b)
    /\ CreatedAt(b) < clock
    /\ SetBackup(b, "None", 0)
    /\ creating' = creating \ {b}
    /\ UNCHANGED <<clock, gs, gsCache, gsFresh, bkCache, queue, wake, worker,
                   s3Client, slips, expired, pipe, s3>>

\* handleSetBackupSchedule writes the cached GameServer back.
SetBackupSchedule(on) ==
    /\ Spend("changes")
    /\ gsCache.state # "Gone" /\ gsFresh
    /\ SetServer([gsCache EXCEPT !.schedule = on])
    /\ UNCHANGED <<clock, gsCache, bk, bkCache, bkFresh, creating, queue,
                   wake, worker, s3Client, slips, expired, pipe, s3>>

-----------------------------------------------------------------------------
(***************************************************************************)
(* The environment.                                                        *)
(***************************************************************************)
\* The other controllers and users stop, start and delete the server.
ServerChanges(state) ==
    /\ Spend("changes")
    /\ gs.state # "Gone" /\ state # gs.state
    /\ SetServer([gs EXCEPT !.state = state])
    /\ UNCHANGED <<clock, gsCache, bk, bkCache, bkFresh, creating, queue,
                   wake, worker, s3Client, slips, expired, pipe, s3>>

Tick ==
    /\ clock < MaxTime
    /\ clock' = clock + 1
    /\ UNCHANGED <<gs, gsCache, gsFresh, bk, bkCache, bkFresh, creating,
                   queue, wake, worker, s3Client, slips, expired, used, pipe,
                   s3>>

\* The operator restarts: the informers list everything anew and queue it.
Crash ==
    /\ Spend("crashes")
    /\ gsCache' = gs
    /\ gsFresh' = TRUE
    /\ bkCache' = bk
    /\ bkFresh' = [b \in Names |-> TRUE]
    /\ queue' = {b \in Names : Unfinished(bk[b])}
                    \cup {q \in {Schedule} : gs.schedule /\ gs.state # "Gone"}
    /\ slips' = slips \cup
                    {b \in {<<"scheduled", worker.at>>} : worker.pc = "recording"}
    /\ creating' = {}
    /\ wake' = 0
    /\ worker' = Idle
    /\ s3Client' = FALSE
    /\ pipe' = NoPipe
    /\ UNCHANGED <<clock, gs, bk, expired, s3>>

-----------------------------------------------------------------------------
WorkerStep ==
    \/ \E b \in Names : \/ SkipBackup(b) \/ ReconcilePending(b)
                        \/ RefuseInProgress(b) \/ StartUpload(b)
    \/ FinishUpload
    \/ SkipSchedule \/ AwaitSchedule \/ CreateScheduled \/ RecordLastBackup
    \/ \E v \in worker.victims : RemoveArchive(v) \/ DeleteExpired(v)
    \/ FinishSchedule

Next ==
    \/ WorkerStep
    \/ UploadStep
    \/ TimerFires
    \/ SyncServer
    \/ SyncBackups
    \/ \E b \in Names : SetPending(b) \/ DeleteBackup(b)
    \/ RequestBackup
    \/ \E on \in BOOLEAN : SetBackupSchedule(on)
    \/ \E state \in {"Running", "Idle", "Gone"} : ServerChanges(state)
    \/ Tick
    \/ Crash

Spec == Init /\ [][Next]_vars

-----------------------------------------------------------------------------
(***************************************************************************)
(* Fairness: the worker, the informers, the timer and the goroutines of an *)
(* upload run on, and tar is ended by backupTimeout at the latest; users,  *)
(* administrators, failures and time do as they like.                      *)
(***************************************************************************)
UploadAdvances == Uploading /\ TransferAdvances(worker.at) /\ UNCHANGED backupVars
TarEnds == Uploading /\ ExecFails /\ UNCHANGED backupVars

Fairness ==
    /\ WF_vars(WorkerStep)
    /\ WF_vars(UploadAdvances)
    /\ WF_vars(TarEnds)
    /\ WF_vars(TimerFires)
    /\ WF_vars(SyncServer)
    /\ WF_vars(SyncBackups)

FairSpec == Spec /\ Fairness

-----------------------------------------------------------------------------
(***************************************************************************)
(* Safety.                                                                 *)
(***************************************************************************)
\* No archive in the bucket is truncated: a failure of tar reaches PutObject
\* as an error of the pipe, never as its end (performBackup).
ArchivesWhole == \A k \in Keys : s3[k] # "truncated"

\* The archive of a completed Backup can be restored, unless retention has
\* chosen that Backup, or one whose upload started in the same second and
\* which therefore has the same key (reconcileInProgress, enforceRetention).
CompletedRestorable ==
    \A b \in Completed :
        s3[bk[b].key] = "whole" \/ \E v \in expired : v.key = bk[b].key

\* Retention works from a list of the cache and over several requests, and
\* still leaves the number of completed Backups it is told to keep, as long
\* as administrators do not delete any beside it.  Of two Backups created in
\* one second the sort may put either first, and two runs that read the same
\* outdated list may then delete both (enforceRetention).
RetentionKeepsEnough ==
    /\ expired # {} /\ used.deletes = 0
    /\ \A v, w \in expired : v.name # w.name => CreatedAt(v.name) # CreatedAt(w.name)
    => Cardinality({b \in Completed : \A v \in expired : v.name # b})
         >= RetentionCount

\* Every archive in the bucket is named by a Backup or being uploaded, as long
\* as no administrator deletes a Backup, no request fails, the operator does
\* not restart and no backup has failed (reconcileInProgress, enforceRetention).
NoOrphanArchive ==
    /\ used.deletes = 0 /\ used.faults = 0 /\ used.crashes = 0
    /\ \A b \in Names : bk[b].state # "Failed"
    => \A k \in Keys : s3[k] # "none" =>
          \/ \E b \in Names : bk[b].key = k
          \/ Uploading /\ worker.at = k

\* A time of the schedule gets a second Backup only when the first one's time
\* could not be recorded or one of them was decided on an outdated copy of
\* the server (reconcileGameServerSchedule).
OneBackupPerScheduledTime ==
    \A t, u \in Keys :
        LET b == <<"scheduled", t>>
            c == <<"scheduled", u>>
        IN  t # u /\ t \div Period = u \div Period /\ Exists(b) /\ Exists(c)
              => b \in slips \/ c \in slips

(***************************************************************************)
(* The Backups keep the promise of BackupJobs.                             *)
(***************************************************************************)
Promise == INSTANCE BackupJobs WITH
    Jobs <- Names,
    job <- bk,
    stored <- {k \in Keys : s3[k] = "whole"}

\* With several writers, outdated copies, failed writes and repeated uploads,
\* each Backup goes through the states of its table and completes only with
\* its archive in the bucket (transitionBackupState, reconcileInProgress).
KeepsPromise == Promise!Spec

-----------------------------------------------------------------------------
(***************************************************************************)
(* Liveness.                                                               *)
(***************************************************************************)
\* A Backup ends or is deleted, restarts and failed writes notwithstanding,
\* unless an upload has been given up while tar was still writing: then the
\* worker waits for ever (reconcilePending, reconcileInProgress).
BackupEnds ==
    \A b \in Names :
        Exists(b) ~> ~Exists(b) \/ IsBackupTerminal(bk[b].state) \/ UploadAborted

\* A due backup of a running server is made, or the worker waits as above.  Due
\* is what is left over since the last backup: a time that passed while the
\* server was stopped is made up for once it runs (reconcileGameServerSchedule),
\* although backups-restore.md says that such a backup is skipped.
ScheduleServed ==
    Running(gs) /\ gs.schedule /\ Due(gs)
        ~> ~(Running(gs) /\ gs.schedule /\ Due(gs)) \/ UploadAborted

\* "backupTimeout is the maximum duration for a backup operation": an upload
\* ends, one way or the other (performBackup).
UploadReturns == Uploading ~> ~Uploading
=============================================================================
