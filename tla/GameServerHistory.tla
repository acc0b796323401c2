-------------------------- MODULE GameServerHistory --------------------------
(***************************************************************************)
(* GameServerSystem with a history variable.  A reconcile starts from a    *)
(* cached copy (r.Get), and nothing makes it wait for the watch: the copy  *)
(* may carry a state the API server has already replaced.  What such a     *)
(* reconcile does next is written for the old state, and the events of     *)
(* status changes are dropped, so nothing corrects it afterwards.  The     *)
(* history tells these reads apart; it changes no step of the system.      *)
(***************************************************************************)
EXTENDS GameServerSystem

VARIABLE misread   \* the reads of an outdated state of each server

historyVars == <<vars, misread>>

\* None so far; some, but not the last read; the last read.
Misreadings == {"never", "once", "last"}

NotLast(m) == IF m = "last" THEN "once" ELSE m

\* A reconcile of s begins in this step.
Begins(s) == worker[s].pc = "idle" /\ worker'[s].pc = "dispatch"

RecordReads ==
    misread' = [s \in Servers |->
                   IF ~Begins(s) THEN misread[s]
                   ELSE IF worker'[s].snap.state # gs[s].state THEN "last"
                   ELSE NotLast(misread[s])]

HistoryInit == Init /\ misread = [s \in Servers |-> "never"]

HistoryNext == Next /\ RecordReads

HistorySpec == HistoryInit /\ [][HistoryNext]_historyVars

FairHistorySpec == HistorySpec /\ Fairness

-----------------------------------------------------------------------------
\* As long as no reconcile has read an outdated state of the server, its
\* conditions agree with its state whenever that state is one the operator alone
\* writes, although the handlers change the state and leave the conditions of
\* the state before, and updateReadyStatus and refreshAndUpdateCondition write
\* their condition next to whatever state they find.  In particular a server in
\* Starting carries the Progressing=True from which reconcileStarting computes
\* its timeout.
ConditionsAgree ==
    \A s \in Servers :
        misread[s] = "never" =>
            /\ gs[s].state \in {"Ready", "Allocated"} =>
                   gs[s].ready /\ gs[s].prog = "False"
            /\ gs[s].state = "Starting" => ~gs[s].ready /\ gs[s].prog # "False"
            /\ gs[s].state = "Error" =>
                   gs[s].degr /\ ~gs[s].ready /\ gs[s].prog = "False"

-----------------------------------------------------------------------------
(***************************************************************************)
(* Liveness, under Fairness.  Each has one exception, which the code really *)
(* has: nothing is promised while the last reconcile of the server is one   *)
(* that read an outdated state.                                             *)
(***************************************************************************)
\* reconcileStarting polls because a Pod's status changes cause no event.  A
\* server in Starting leaves it: its Pod becomes ready, fails or is missing, or
\* startingTimeout goes by, which is measured from Progressing=True and so never
\* passes for a server that has lost that condition to an outdated read.
StartingFollowed ==
    \A s \in Servers :
        gs[s].state = "Starting"
          ~> \/ gs[s].state # "Starting"
             \/ misread[s] = "last"
             \/ misread[s] = "once" /\ gs[s].prog = "False"

\* A running server whose Pod disappears is noticed: the deletion of an owned
\* Pod passes the predicates, and reconcileReady and reconcileAllocated act.
PodLossNoticed ==
    \A s \in Servers :
        gs[s].state \in {"Ready", "Allocated"} /\ pod[s].phase = "None"
          ~> \/ gs[s].state \notin {"Ready", "Allocated"}
             \/ pod[s].phase # "None"
             \/ misread[s] = "last"


=============================================================================
