----------------------------- MODULE BackupJobs -----------------------------
(***************************************************************************)
(* What the Backup objects of a game server promise to whoever reads them, *)
(* from the states and the transitions of api/v1alpha1/backup_lifecycle.go *)
(* and the fields S3Key and S3Bucket of a completed Backup: a Backup is    *)
(* created, becomes Pending, then InProgress, and ends Completed or        *)
(* Failed; a completed one names an archive that was whole in the bucket   *)
(* when it completed; an ended one never changes, it is only deleted.      *)
(***************************************************************************)
EXTENDS Naturals

CONSTANTS Jobs, Keys

VARIABLES
    job,    \* state and key of each Backup
    stored  \* keys of whole archives in the bucket

None == [state |-> "None", key |-> 0]

Init ==
    /\ stored \subseteq Keys
    /\ \A j \in Jobs :
          \/ job[j] = None
          \/ job[j].state = "Completed" /\ job[j].key \in stored

Become(j, s, k) == job' = [job EXCEPT ![j] = [state |-> s, key |-> k]]

\* A Backup object is created, without a state.
Create(j) ==
    /\ job[j].state = "None"
    /\ Become(j, "", 0)
    /\ UNCHANGED stored

BackupValidTransitions ==
    {<<"", "Pending">>,
     <<"Pending", "InProgress">>, <<"Pending", "Failed">>,
     <<"InProgress", "Completed">>, <<"InProgress", "Failed">>}

\* Its state changes as the table allows; Completed comes with an archive.
Move(j, s, k) ==
    /\ <<job[j].state, s>> \in BackupValidTransitions
    /\ IF s = "Completed" THEN k \in stored ELSE k = 0
    /\ Become(j, s, k)
    /\ UNCHANGED stored

\* The object is deleted by an administrator or by retention.
Delete(j) ==
    /\ job[j].state # "None"
    /\ job' = [job EXCEPT ![j] = None]
    /\ UNCHANGED stored

\* An archive reaches the bucket.
Store(k) ==
    /\ stored' = stored \cup {k}
    /\ UNCHANGED job

\* Retention removes an archive.
Expire(k) ==
    /\ stored' = stored \ {k}
    /\ UNCHANGED job

Next ==
    \/ \E k \in Keys : Store(k) \/ Expire(k)
    \/ \E j \in Jobs :
          \/ Create(j) \/ Delete(j)
          \/ \E s \in {"Pending", "InProgress", "Completed", "Failed"},
               k \in Keys \cup {0} : Move(j, s, k)

Spec == Init /\ [][Next]_<<job, stored>>
=============================================================================
