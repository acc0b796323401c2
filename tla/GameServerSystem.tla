-------------------------- MODULE GameServerSystem --------------------------
(***************************************************************************)
(* The GameServer reconciler together with what acts on the same objects:  *)
(* the HTTP handlers of internal/api, which read through the operator's    *)
(* caches and write Status.State themselves; the kubelet and the garbage   *)
(* collector, which move the Pods; time; and crashes of the operator       *)
(* process, which runs both the controllers and the HTTP server.           *)
(***************************************************************************)
EXTENDS GameServerController

CONSTANT Budgets   \* bound: requests and faults a behaviour may have

ASSUME BudgetsAssumption == Budgets \subseteq [requests : Nat, faults : Nat]

VARIABLES
    exec,   \* a mod upload or a restore is streaming into the Pod
    ops     \* requests of users still to come

vars == <<controllerVars, exec, ops>>

-----------------------------------------------------------------------------
(***************************************************************************)
(* HTTP handlers.  A handler fetches the object from the cache and updates *)
(* it with that version: a request that meets an outdated cache fails and  *)
(* changes nothing, so only the ones that succeed are steps.               *)
(***************************************************************************)
UserRequest ==
    /\ ops > 0
    /\ ops' = ops - 1

\* A write by someone other than the worker outdates the worker's copy.
UserWrite(s, new, passes) ==
    /\ WriteGS(s, new, passes)
    /\ snapFresh' = [snapFresh EXCEPT ![s] = @ /\ new = gs[s] /\ ~passes]

\* handleCreateGameServer, or the object applied with kubectl.
CreateGameServer(s) ==
    /\ UserRequest
    /\ ~gs[s].exists
    /\ UserWrite(s, NewServer, TRUE)
    /\ UNCHANGED <<gsCache, podVars, queued, timer, worker, faults, exec>>

\* handleUpdateGameServer changes spec.parameters, thus the generation.
UpdateGameServer(s) ==
    /\ UserRequest
    /\ CanUpdateFresh(s)
    /\ UserWrite(s, gs[s], TRUE)
    /\ UNCHANGED <<gsCache, podVars, queued, timer, worker, faults, exec>>

\* handleDeleteGameServer: found in the cache, deleted by name.  Without the
\* finalizer the object goes away at once.
DeleteGameServer(s) ==
    /\ UserRequest
    /\ gsCache[s].exists
    /\ gs[s].exists
    /\ ~gs[s].del
    /\ IF gs[s].fin
       THEN /\ WriteGS(s, [gs[s] EXCEPT !.del = TRUE], TRUE)
            /\ UNCHANGED <<pod, podCache>>
       ELSE RemoveGS(s)
    /\ snapFresh' = [snapFresh EXCEPT ![s] = FALSE]
    /\ UNCHANGED <<gsCache, podWatch, queued, timer, worker, faults, exec>>

\* A handler's status update: the state alone, no condition, no event.
SetState(s, state) ==
    /\ CanUpdateFresh(s)
    /\ UserWrite(s, [gs[s] EXCEPT !.state = state], FALSE)
    /\ UNCHANGED <<gsCache, podVars, queued, timer, worker, faults>>

StartGameServer(s) ==
    /\ UserRequest
    /\ gsCache[s].state \notin {"Creating", "Starting", "Ready", "Allocated"}
    /\ SetState(s, "Creating")
    /\ UNCHANGED exec

StopGameServer(s) ==
    /\ UserRequest
    /\ gsCache[s].state \notin {"Shutdown", "Error"}
    /\ SetState(s, "Shutdown")
    /\ UNCHANGED exec

RestartGameServer(s) ==
    /\ UserRequest
    /\ SetState(s, "Creating")
    /\ UNCHANGED exec

\* handleUploadMod and handleRestoreBackup check the state, then stream into the
\* Pod for as long as that takes.
BeginExec(s) ==
    /\ UserRequest
    /\ gsCache[s].state \in {"Ready", "Allocated"}
    /\ ~exec[s]
    /\ exec' = [exec EXCEPT ![s] = TRUE]
    /\ UNCHANGED controllerVars

\* They end with a re-fetch and an update of the state to Creating, whatever it
\* has become, or fail (in the Pod, or at the update) and change nothing.
EndExec(s) ==
    /\ exec[s]
    /\ exec' = [exec EXCEPT ![s] = FALSE]
    /\ \/ SetState(s, "Creating")
       \/ UNCHANGED controllerVars
    /\ UNCHANGED ops

\* The allocated annotation is set and removed by a client of the API server.
ToggleAllocated(s) ==
    /\ UserRequest
    /\ gs[s].exists
    /\ UserWrite(s, [gs[s] EXCEPT !.alloc = ~@], TRUE)
    /\ UNCHANGED <<gsCache, podVars, queued, timer, worker, faults, exec>>

UserStep(s) ==
    \/ CreateGameServer(s) \/ UpdateGameServer(s) \/ DeleteGameServer(s)
    \/ StartGameServer(s) \/ StopGameServer(s) \/ RestartGameServer(s)
    \/ BeginExec(s) \/ ToggleAllocated(s)

-----------------------------------------------------------------------------
(***************************************************************************)
(* Kubernetes: kubelet and garbage collector.  A change of a Pod's status  *)
(* is an update without a new generation: the predicates drop its event.   *)
(***************************************************************************)
podOnly == <<storeVars, podCache, queued, timer, worker, snapFresh,
             exec, ops>>

PodProgresses(s) ==
    /\ ~pod[s].term
    /\ pod[s].phase = "Unready"
    /\ WritePod(s, [pod[s] EXCEPT !.phase = "Ready"], FALSE)
    /\ UNCHANGED <<podOnly, faults>>

\* The game crashes, exits or fails its probe, or someone deletes the Pod.
PodFaults(s) ==
    /\ faults > 0
    /\ faults' = faults - 1
    /\ pod[s].phase # "None"
    /\ \/ /\ pod[s].phase \in {"Unready", "Ready"}
          /\ WritePod(s, [pod[s] EXCEPT !.phase = "Failed"], FALSE)
       \/ /\ pod[s].phase = "Ready"
          /\ WritePod(s, [pod[s] EXCEPT !.phase = "Unready"], FALSE)
       \/ /\ ~pod[s].term
          /\ DeletePod(s)
    /\ UNCHANGED podOnly

\* The kubelet has stopped the containers of a deleted Pod.
PodGone(s) ==
    /\ pod[s].term
    /\ WritePod(s, NoPod, TRUE)
    /\ UNCHANGED <<podOnly, faults>>

\* The garbage collector deletes a Pod whose owner is gone.
CollectGarbage(s) ==
    /\ pod[s].phase # "None"
    /\ ~pod[s].own
    /\ ~pod[s].term
    /\ DeletePod(s)
    /\ UNCHANGED <<podOnly, faults>>

-----------------------------------------------------------------------------
\* startingTimeout goes by: every Progressing=True is old from now on.
Aged(o) == IF o.prog = "True" THEN [o EXCEPT !.prog = "TrueOld"] ELSE o

Tick ==
    /\ \E s \in Servers : gs[s].prog = "True"
    /\ gs' = [s \in Servers |-> Aged(gs[s])]
    /\ gsCache' = [s \in Servers |-> Aged(gsCache[s])]
    /\ worker' = [s \in Servers |-> [worker[s] EXCEPT !.snap = Aged(@)]]
    /\ UNCHANGED <<gsWatch, podVars, queued, timer, snapFresh, faults,
                   exec, ops>>

\* The operator process dies with its workers, queue, timers and requests, and
\* comes back: the informers list everything, and every object is an event.
Crash ==
    /\ faults > 0
    /\ faults' = faults - 1
    /\ gsCache' = gs
    /\ podCache' = pod
    /\ gsWatch' = [s \in Servers |-> "current"]
    /\ podWatch' = [s \in Servers |-> "current"]
    /\ queued' = [s \in Servers |-> gs[s].exists \/ pod[s].phase # "None"]
    /\ timer' = [s \in Servers |-> FALSE]
    /\ worker' = [s \in Servers |-> Idle]
    /\ snapFresh' = [s \in Servers |-> FALSE]
    /\ exec' = [s \in Servers |-> FALSE]
    /\ UNCHANGED <<gs, pod, ops>>

-----------------------------------------------------------------------------
Init ==
    /\ gs = [s \in Servers |-> NoServer]
    /\ gsCache = gs
    /\ gsWatch = [s \in Servers |-> "current"]
    /\ pod = [s \in Servers |-> NoPod]
    /\ podCache = pod
    /\ podWatch = [s \in Servers |-> "current"]
    /\ queued = [s \in Servers |-> FALSE]
    /\ timer = [s \in Servers |-> FALSE]
    /\ worker = [s \in Servers |-> Idle]
    /\ snapFresh = [s \in Servers |-> FALSE]
    /\ exec = [s \in Servers |-> FALSE]
    /\ \E b \in Budgets : ops = b.requests /\ faults = b.faults

apiVars == <<exec, ops>>

\* The steps of the operator's own goroutines.
ControllerStep(s) ==
    /\ \/ ReconcileGet(s) \/ Reconcile(s) \/ ReconcileFails(s)
       \/ SyncGS(s) \/ SyncPod(s) \/ TimerFires(s)
    /\ UNCHANGED apiVars

EnvironmentStep(s) ==
    PodProgresses(s) \/ PodFaults(s) \/ PodGone(s) \/ CollectGarbage(s)

Next ==
    \/ \E s \in Servers : ControllerStep(s) \/ UserStep(s) \/ EndExec(s)
                            \/ EnvironmentStep(s)
    \/ Tick
    \/ Crash

Spec == Init /\ [][Next]_vars

\* The operator's goroutines keep running, the watches deliver, deleted Pods go
\* away, orphans are collected and time passes.  Nothing makes a user act, a Pod
\* start or a fault happen.
Fairness ==
    /\ \A s \in Servers :
          /\ WF_vars((ReconcileGet(s) \/ Reconcile(s)) /\ UNCHANGED apiVars)
          /\ WF_vars(SyncGS(s) /\ UNCHANGED apiVars)
          /\ WF_vars(SyncPod(s) /\ UNCHANGED apiVars)
          /\ WF_vars(TimerFires(s) /\ UNCHANGED apiVars)
          /\ WF_vars(PodGone(s) \/ CollectGarbage(s))
    /\ WF_vars(Tick)

FairSpec == Spec /\ Fairness

-----------------------------------------------------------------------------
\* Every object, copy and counter keeps its type: in particular Status.State is
\* always a state of the lifecycle or empty, and the Progressing condition is
\* never set to a status other than True and False.
TypeOK ==
    /\ gs \in [Servers -> GameServerObjects]
    /\ gsCache \in [Servers -> GameServerObjects]
    /\ gsWatch \in [Servers -> WatchStates]
    /\ pod \in [Servers -> PodObjects]
    /\ podCache \in [Servers -> PodObjects]
    /\ podWatch \in [Servers -> WatchStates]
    /\ queued \in [Servers -> BOOLEAN]
    /\ timer \in [Servers -> BOOLEAN]
    /\ worker \in [Servers -> Workers]
    /\ snapFresh \in [Servers -> BOOLEAN]
    /\ exec \in [Servers -> BOOLEAN]
    /\ faults \in Nat
    /\ ops \in Nat

-----------------------------------------------------------------------------
(***************************************************************************)
(* Safety.                                                                 *)
(***************************************************************************)
\* The servers that use up a slot: in an active state, or with a Pod of theirs
\* still there (a server in Error keeps its Pod).
Occupying == {s \in Servers : \/ gs[s].state \in ActiveStates
                              \/ pod[s].phase # "None" /\ pod[s].own}

\* reconcileCreating compares the number of GameServers in the cache with the
\* admin's limits before it creates a Pod.  The check and the Pod are steps of a
\* worker among three, the cache lags, and users create, restart and delete in
\* between: still no more servers than the limits allow ever occupy a slot, in
\* total and per user, for servers labelled with the user whose namespace they
\* are in (as handleCreateGameServer labels them).
LimitRespected ==
    /\ Cardinality(Occupying) <= MaxServersGlobal
    /\ \A u \in Users :
          Cardinality({s \in Occupying : /\ NamespaceUser[s] = u
                                         /\ OwnerLabel[s] = u})
            <= MaxServersPerUser

\* Reconcile adds the finalizer before anything else and only handleDeletion
\* removes it: no Pod ever belongs to a GameServer that lacks the finalizer, so
\* no deletion can skip handleDeletion and leave the Pod to itself, even when
\* the server is deleted and created again while a worker holds an old copy.
PodsHaveFinalizer ==
    \A s \in Servers :
        pod[s].phase # "None" /\ pod[s].own => gs[s].exists /\ gs[s].fin

\* What the operator knows of one GameServer is never written to a later one of
\* the same name: transitionState, updateReadyStatus and
\* refreshAndUpdateCondition re-fetch by name and check no UID, yet an object that
\* has not got the finalizer carries no condition, no address and no state but
\* the ones the handlers write.
NoStatusLeak ==
    \A s \in Servers :
        gs[s].exists /\ ~gs[s].fin =>
            /\ ~gs[s].ready /\ ~gs[s].degr /\ ~gs[s].addr /\ gs[s].prog = "False"
            /\ gs[s].state \in {"", "Creating", "Shutdown"}

-----------------------------------------------------------------------------
(***************************************************************************)
(* Liveness, under Fairness.                                               *)
(***************************************************************************)
\* A deleted GameServer goes away together with its Pod, through handleDeletion,
\* its conflicts, failures and crashes, unless it is created anew.
DeletionCompletes ==
    \A s \in Servers :
        gs[s].del ~> \/ ~gs[s].exists /\ pod[s].phase = "None"
                     \/ gs[s].exists /\ ~gs[s].del

\* Every new GameServer gets a state: the finalizer's update causes no event, so
\* initializeState depends on the explicit requeue after it.
NewServerIsProcessed ==
    \A s \in Servers :
        gs[s].exists /\ gs[s].state = "" ~> ~gs[s].exists \/ gs[s].state # ""

-----------------------------------------------------------------------------
(***************************************************************************)
(* What the documentation says of a stopped server and a comment of one     *)
(* that starts, and the code does not do.                                  *)
(***************************************************************************)
\* managing-servers.md: the operator deletes the Pod of a stopped server.
\* handleStopGameServer changes only the status, whose event the predicates of
\* SetupWithManager drop.
StopTakesEffect ==
    \A s \in Servers :
        gs[s].state = "Shutdown"
          ~> \/ gs[s].state # "Shutdown"
             \/ pod[s].phase = "None"
             \/ pod[s].term

\* gameserver_controller.go: startingTimeout is the maximum time in Starting.  A
\* reconcile that reads an outdated Error ends with the condition of that state
\* and no requeue, next to the Starting that has replaced it.
StartingResolves ==
    \A s \in Servers : gs[s].state = "Starting" ~> gs[s].state # "Starting"

=============================================================================
