------------------------ MODULE GameServerController ------------------------
(***************************************************************************)
(* The GameServer reconciler, internal/controller/gameserver_controller.go, *)
(* as the steps of its workers over an API server, the informer caches it  *)
(* reads through and the workqueue that feeds it.                          *)
(*                                                                         *)
(* A reconcile is split at every call that changes the cluster: what runs  *)
(* between two such calls reads only the caches, and a step of the model   *)
(* ends where the next write begins.  Every read (r.Get, r.List) is a read *)
(* of a cache; every write goes to the API server and is refused when it   *)
(* carries an outdated resourceVersion.                                    *)
(***************************************************************************)
EXTENDS Naturals, FiniteSets, GameServerLifecycle

CONSTANTS
    Servers,                  \* GameServers, by namespace and name
    Users,                    \* platform users; each has one namespace
    NoOwner,                  \* the owner label is missing
    OwnerLabel,               \* [Servers -> Users \cup {NoOwner}], kterodactyl.io/owner
    NamespaceUser,            \* [Servers -> Users], whose namespace the server is in
    MaxServersGlobal,         \* AdminConfig
    MaxServersPerUser,        \* AdminConfig
    MaxConcurrentReconciles,  \* workers of the controller
    TracksPodGeneration       \* the API server maintains metadata.generation of Pods

ASSUME ServersAssumption == IsFiniteSet(Servers)

ASSUME OwnersAssumption ==
    /\ OwnerLabel \in [Servers -> Users \cup {NoOwner}]
    /\ NamespaceUser \in [Servers -> Users]
    /\ NoOwner \notin Users

ASSUME LimitsAssumption ==
    /\ MaxServersGlobal \in Nat
    /\ MaxServersPerUser \in Nat
    /\ MaxConcurrentReconciles \in Nat \ {0}
    /\ TracksPodGeneration \in BOOLEAN

VARIABLES
    gs,         \* GameServer objects of the API server
    gsCache,    \* the informer's copy of them
    gsWatch,    \* what the watch still has to deliver for a GameServer
    pod,        \* Pods of the API server (the Pod has its GameServer's name)
    podCache,   \* the informer's copy of them
    podWatch,   \* what the watch still has to deliver for a Pod
    queued,     \* the server's key is in the workqueue
    timer,      \* a delayed or rate-limited requeue of the key is pending
    worker,     \* the reconcile in progress for the key
    snapFresh,  \* the worker's copy still has the API server's resourceVersion
    faults      \* transient failures, Pod faults and crashes still to come

controllerVars == <<gs, gsCache, gsWatch, pod, podCache, podWatch,
                    queued, timer, worker, snapFresh, faults>>

-----------------------------------------------------------------------------
(***************************************************************************)
(* Objects.  A GameServer keeps what the control flow reads: its state, the *)
(* allocated annotation, the finalizer, the deletion timestamp and the     *)
(* three conditions.  prog is the Progressing condition: "True" while its  *)
(* lastTransitionTime is at most startingTimeout ago, "TrueOld" after.     *)
(***************************************************************************)
GameServerObjects ==
    [exists: BOOLEAN, state: StatusStates, alloc: BOOLEAN, fin: BOOLEAN,
     del: BOOLEAN, ready: BOOLEAN, prog: {"False", "True", "TrueOld"},
     degr: BOOLEAN, addr: BOOLEAN]

NoServer ==
    [exists |-> FALSE, state |-> "", alloc |-> FALSE, fin |-> FALSE,
     del |-> FALSE, ready |-> FALSE, prog |-> "False",
     degr |-> FALSE, addr |-> FALSE]

NewServer == [NoServer EXCEPT !.exists = TRUE]

\* "Ready" is phase Running with every container ready, "Unready" every phase the
\* reconciler does not look at: Pending, Running with a container that is not
\* ready, Succeeded.  own tells whether the controller reference names the
\* GameServer object that exists now.
PodObjects ==
    [phase: {"None", "Unready", "Ready", "Failed"},
     term: BOOLEAN, own: BOOLEAN]

NoPod == [phase |-> "None", term |-> FALSE, own |-> FALSE]

NewPod == [phase |-> "Unready", term |-> FALSE, own |-> TRUE]

\* Running and all of its containers ready (an absent Pod is not).
IsPodReady(p) == p.phase = "Ready"

\* "current": the cache has the newest version.  "lagging": a newer version is
\* on its way whose event the predicates filter out.  "event": one whose event
\* passes GenerationChangedPredicate or AnnotationChangedPredicate.
WatchStates == {"current", "lagging", "event"}

WorkerSteps == {"idle", "dispatch", "finalize", "pod", "transition", "ready",
                "condition"}

Workers == [pc: WorkerSteps, snap: GameServerObjects, to: StatusStates]

Idle == [pc |-> "idle", snap |-> NoServer, to |-> ""]

Busy(s) == worker[s].pc # "idle"

snap(s) == worker[s].snap

-----------------------------------------------------------------------------
(***************************************************************************)
(* The API server.                                                         *)
(***************************************************************************)
\* The watch state after a write that changes the object iff changed holds and
\* whose event the predicates let through iff passes holds.
AfterWrite(watch, changed, passes) ==
    IF passes THEN "event"
    ELSE IF changed /\ watch = "current" THEN "lagging"
    ELSE watch

\* The GameServer object becomes new; a write that changes nothing keeps the
\* resourceVersion.
WriteGS(s, new, passes) ==
    /\ gs' = [gs EXCEPT ![s] = new]
    /\ gsWatch' = [gsWatch EXCEPT ![s] = AfterWrite(@, new # gs[s], passes)]

\* Nothing is left that owns the Pod once its GameServer is gone.
Disown(p) == [p EXCEPT !.own = FALSE]

RemoveGS(s) ==
    /\ WriteGS(s, NoServer, TRUE)
    /\ pod' = [pod EXCEPT ![s] = Disown(@)]
    /\ podCache' = [podCache EXCEPT ![s] = Disown(@)]

WritePod(s, new, passes) ==
    /\ pod' = [pod EXCEPT ![s] = new]
    /\ podWatch' = [podWatch EXCEPT ![s] = AfterWrite(@, new # pod[s], passes)]

\* client.Delete names the Pod without a precondition: it marks whatever Pod
\* has that name, and answers NotFound, which the callers ignore, when none has.
DeletePod(s) ==
    IF pod[s].phase = "None"
    THEN UNCHANGED <<pod, podWatch>>
    ELSE WritePod(s, [pod[s] EXCEPT !.term = TRUE],
                  TracksPodGeneration /\ ~pod[s].term)

\* A status update of a re-fetched object succeeds iff the cache it was fetched
\* from was current: the re-fetch and the update are one step because nothing
\* may be written between them.
CanUpdateFresh(s) == gsWatch[s] = "current" /\ gsCache[s].exists

-----------------------------------------------------------------------------
(***************************************************************************)
(* One reconcile.                                                          *)
(***************************************************************************)
\* The reconcile returns; requeue covers Requeue, RequeueAfter and an error.
Return(s, requeue) ==
    /\ worker' = [worker EXCEPT ![s] = Idle]
    /\ timer' = [timer EXCEPT ![s] = @ \/ requeue]
    /\ snapFresh' = [snapFresh EXCEPT ![s] = FALSE]

Goto(s, pc) == worker' = [worker EXCEPT ![s].pc = pc]

\* Call transitionState(gs, to).
Transition(s, to) ==
    worker' = [worker EXCEPT ![s].pc = "transition", ![s].to = to]

storeVars == <<gs, gsCache, gsWatch>>
podVars == <<pod, podCache, podWatch>>

\* A worker takes the key and fetches the GameServer.  A requeue still pending
\* stays pending or is merged with this reconcile: workqueues differ in that.
ReconcileGet(s) ==
    /\ queued[s]
    /\ ~Busy(s)
    /\ Cardinality({x \in Servers : Busy(x)}) < MaxConcurrentReconciles
    /\ queued' = [queued EXCEPT ![s] = FALSE]
    /\ IF gsCache[s].exists
       THEN /\ worker' = [worker EXCEPT ![s] =
                            [pc |-> "dispatch", snap |-> gsCache[s], to |-> ""]]
            /\ snapFresh' = [snapFresh EXCEPT ![s] = gsWatch[s] = "current"]
       ELSE UNCHANGED <<worker, snapFresh>>
    /\ \E merged \in BOOLEAN : timer' = [timer EXCEPT ![s] = @ /\ ~merged]
    /\ UNCHANGED <<storeVars, podVars, faults>>

\* Fault: handleDeletion returns when it finds no Pod to delete.
HandleDeletionOnlyWithPod(s) ==
    /\ worker[s].pc = "dispatch"
    /\ snap(s).del
    /\ IF snap(s).fin /\ podCache[s].phase # "None"
       THEN /\ DeletePod(s)
            /\ Goto(s, "finalize")
            /\ UNCHANGED <<timer, snapFresh>>
       ELSE /\ Return(s, FALSE)
            /\ UNCHANGED <<pod, podWatch>>
    /\ UNCHANGED <<storeVars, podCache, queued, faults>>

\* handleDeletion up to the deletion of the Pod.
HandleDeletion(s) ==
    /\ worker[s].pc = "dispatch"
    /\ snap(s).del
    /\ IF snap(s).fin
       THEN /\ IF podCache[s].phase = "None"
               THEN UNCHANGED <<pod, podWatch>>
               ELSE DeletePod(s)
            /\ Goto(s, "finalize")
            /\ UNCHANGED <<timer, snapFresh>>
       ELSE /\ Return(s, FALSE)
            /\ UNCHANGED <<pod, podWatch>>
    /\ UNCHANGED <<storeVars, podCache, queued, faults>>

\* The rest of handleDeletion: the update that removes the finalizer, sent with
\* the copy fetched at the start.  It is the last one: the object goes away.
RemoveFinalizer(s) ==
    /\ worker[s].pc = "finalize"
    /\ Return(s, ~snapFresh[s])
    /\ IF snapFresh[s]
       THEN RemoveGS(s)
       ELSE UNCHANGED <<gs, gsWatch, pod, podCache>>
    /\ UNCHANGED <<gsCache, podWatch, queued, faults>>

\* Update with the copy fetched at the start; a conflict is an error.
UpdateSnapshot(s, new) ==
    IF snapFresh[s] THEN WriteGS(s, new, FALSE) ELSE UNCHANGED <<gs, gsWatch>>

\* Fault: no requeue after the finalizer is added.
AddFinalizerWithoutRequeue(s) ==
    /\ worker[s].pc = "dispatch"
    /\ ~snap(s).del
    /\ ~snap(s).fin
    /\ UpdateSnapshot(s, [snap(s) EXCEPT !.fin = TRUE])
    /\ Return(s, ~snapFresh[s])
    /\ UNCHANGED <<gsCache, podVars, queued, faults>>

AddFinalizer(s) ==
    /\ worker[s].pc = "dispatch"
    /\ ~snap(s).del
    /\ ~snap(s).fin
    /\ UpdateSnapshot(s, [snap(s) EXCEPT !.fin = TRUE])
    /\ Return(s, TRUE)
    /\ UNCHANGED <<gsCache, podVars, queued, faults>>

\* Fault: the dispatch does not wait for the finalizer.
InStateUnfinalized(s, state) ==
    /\ worker[s].pc = "dispatch"
    /\ ~snap(s).del
    /\ snap(s).state = state

\* The reconcile reached the dispatch on the state of the fetched copy.
InState(s, state) ==
    /\ worker[s].pc = "dispatch"
    /\ ~snap(s).del
    /\ snap(s).fin
    /\ snap(s).state = state

\* Fault: the condition is set to its third status first.
SetProgressingUnknown(prog) == IF prog = "False" THEN "Unknown" ELSE "True"

\* meta.SetStatusCondition(Progressing=True) moves lastTransitionTime only when
\* the status changes.
SetProgressing(prog) == IF prog = "False" THEN "True" ELSE prog

InitializeState(s) ==
    /\ InState(s, "")
    /\ UpdateSnapshot(s, [snap(s) EXCEPT !.state = "Creating",
                                         !.prog = SetProgressing(@),
                                         !.ready = FALSE])
    /\ Return(s, TRUE)
    /\ UNCHANGED <<gsCache, podVars, queued, faults>>

\* The GameServers r.List finds, in all namespaces and in one user's.
ListedServers == {x \in Servers : gsCache[x].exists}
ListedInNamespace(u) == {x \in ListedServers : NamespaceUser[x] = u}

\* Fault: only the servers that are already running count.
RejectedByRunning(s) ==
    \/ OwnerLabel[s] = NoOwner
    \/ Cardinality({x \in ListedServers : gsCache[x].state \in ActiveStates})
         >= MaxServersGlobal
    \/ Cardinality({x \in ListedInNamespace(OwnerLabel[s]) :
                        gsCache[x].state \in ActiveStates})
         >= MaxServersPerUser

\* The checks of reconcileCreating that send the server to Error.
Rejected(s) ==
    \/ OwnerLabel[s] = NoOwner
    \/ Cardinality(ListedServers) > MaxServersGlobal
    \/ Cardinality(ListedInNamespace(OwnerLabel[s])) > MaxServersPerUser

\* reconcileCreating up to the Pod: admission, then the user's namespace with
\* its quota, limits and policy, whose failure is an Error rather than a retry.
ReconcileCreating(s) ==
    /\ InState(s, "Creating")
    /\ \/ /\ Rejected(s)
          /\ Transition(s, "Error")
          /\ UNCHANGED faults
       \/ /\ ~Rejected(s)
          /\ faults > 0
          /\ faults' = faults - 1
          /\ Transition(s, "Error")
       \/ /\ ~Rejected(s)
          /\ Goto(s, "pod")
          /\ UNCHANGED faults
    /\ UNCHANGED <<storeVars, podVars, queued, timer, snapFresh>>

\* reconcilePod: CreateOrUpdate.  No Pod in the cache means Create, which fails
\* with AlreadyExists if there is one after all.  A cached Pod means Update with
\* the cached version, which the API server takes, or refuses because most of a
\* scheduled Pod's spec is immutable.  The reference names this GameServer then.
ReconcilePod(s) ==
    /\ worker[s].pc = "pod"
    /\ \/ /\ podCache[s].phase = "None"
          /\ pod[s].phase = "None"
          /\ WritePod(s, NewPod, TRUE)
          /\ Transition(s, "Starting")
          /\ UNCHANGED <<timer, snapFresh>>
       \/ /\ podCache[s].phase # "None"
          /\ podWatch[s] = "current"
          /\ WritePod(s, [pod[s] EXCEPT !.own = TRUE], TracksPodGeneration)
          /\ Transition(s, "Starting")
          /\ UNCHANGED <<timer, snapFresh>>
       \/ /\ podCache[s].phase # "None" \/ pod[s].phase # "None"
          /\ Return(s, TRUE)
          /\ UNCHANGED <<pod, podWatch>>
    /\ UNCHANGED <<storeVars, podCache, queued, faults>>

\* Where reconcileStarting sends the server; "" is nowhere yet.
StartingVerdict(p, prog) ==
    IF p.phase = "None" THEN "Creating"
    ELSE IF IsPodReady(p) THEN "Ready"
    ELSE IF p.phase = "Failed" \/ prog = "TrueOld" THEN "Error"
    ELSE ""

\* Fault: reconcileStarting waits for an event of the Pod instead of polling.
ReconcileStartingWithoutPolling(s) ==
    /\ InState(s, "Starting")
    /\ LET to == StartingVerdict(podCache[s], snap(s).prog)
       IN  IF to # ""
           THEN Transition(s, to) /\ UNCHANGED <<timer, snapFresh>>
           ELSE Return(s, FALSE)
    /\ UNCHANGED <<storeVars, podVars, queued, faults>>

ReconcileStarting(s) ==
    /\ InState(s, "Starting")
    /\ LET to == StartingVerdict(podCache[s], snap(s).prog)
       IN  IF to # ""
           THEN Transition(s, to) /\ UNCHANGED <<timer, snapFresh>>
           ELSE Return(s, TRUE)
    /\ UNCHANGED <<storeVars, podVars, queued, faults>>


ReconcileReady(s) ==
    /\ InState(s, "Ready")
    /\ CASE ~IsPodReady(podCache[s]) -> Transition(s, "Error")
         [] IsPodReady(podCache[s]) /\ snap(s).alloc -> Transition(s, "Allocated")
         [] OTHER -> Goto(s, "ready")
    /\ UNCHANGED <<storeVars, podVars, queued, timer, snapFresh, faults>>

ReconcileAllocated(s) ==
    /\ InState(s, "Allocated")
    /\ IF IsPodReady(podCache[s]) /\ snap(s).alloc
       THEN Return(s, FALSE)
       ELSE /\ Transition(s, IF IsPodReady(podCache[s]) THEN "Ready" ELSE "Error")
            /\ UNCHANGED <<timer, snapFresh>>
    /\ UNCHANGED <<storeVars, podVars, queued, faults>>

ReconcileShutdown(s) ==
    /\ InState(s, "Shutdown")
    /\ IF podCache[s].phase = "None"
       THEN UNCHANGED <<pod, podWatch>>
       ELSE DeletePod(s)
    /\ Goto(s, "condition")
    /\ UNCHANGED <<storeVars, podCache, queued, timer, snapFresh, faults>>

ReconcileError(s) ==
    /\ InState(s, "Error")
    /\ Goto(s, "condition")
    /\ UNCHANGED <<storeVars, podVars, queued, timer, snapFresh, faults>>

\* Fault: Progressing is set when Creating is entered and not again in Starting.
EnteredWithoutProgressing(o, to) ==
    LET n == [o EXCEPT !.state = to]
    IN  CASE to = "Creating" ->
                 [n EXCEPT !.prog = SetProgressing(@), !.ready = FALSE]
          [] to = "Starting"  -> [n EXCEPT !.ready = FALSE]
          [] to = "Ready"     -> [n EXCEPT !.ready = TRUE, !.prog = "False"]
          [] to = "Allocated" -> [n EXCEPT !.ready = TRUE]
          [] to = "Shutdown"  -> [n EXCEPT !.ready = FALSE, !.prog = "False"]
          [] to = "Error"     -> [n EXCEPT !.degr = TRUE, !.ready = FALSE,
                                           !.prog = "False"]

\* The status transitionState writes over the re-fetched object o.
Entered(o, to) ==
    LET n == [o EXCEPT !.state = to]
    IN  CASE to \in {"Creating", "Starting"} ->
                 [n EXCEPT !.prog = SetProgressing(@), !.ready = FALSE]
          [] to = "Ready"     -> [n EXCEPT !.ready = TRUE, !.prog = "False"]
          [] to = "Allocated" -> [n EXCEPT !.ready = TRUE]
          [] to = "Shutdown"  -> [n EXCEPT !.ready = FALSE, !.prog = "False"]
          [] to = "Error"     -> [n EXCEPT !.degr = TRUE, !.ready = FALSE,
                                           !.prog = "False"]

\* transitionState: the table is consulted with the state of the copy fetched at
\* the start, the new state is written over the re-fetched object.
TransitionState(s) ==
    /\ worker[s].pc = "transition"
    /\ IF IsValidTransition(snap(s).state, worker[s].to) /\ CanUpdateFresh(s)
       THEN WriteGS(s, Entered(gsCache[s], worker[s].to), FALSE)
       ELSE UNCHANGED <<gs, gsWatch>>
    /\ Return(s, TRUE)
    /\ UNCHANGED <<gsCache, podVars, queued, faults>>

\* A status update of the re-fetched object with nothing after it.
UpdateFresh(s, new) ==
    /\ IF CanUpdateFresh(s)
       THEN WriteGS(s, new, FALSE)
       ELSE UNCHANGED <<gs, gsWatch>>
    /\ Return(s, ~CanUpdateFresh(s))

\* updateReadyStatus publishes the Pod's address.
UpdateReadyStatus(s) ==
    /\ worker[s].pc = "ready"
    /\ UpdateFresh(s, [gsCache[s] EXCEPT !.addr = TRUE, !.ready = TRUE,
                                         !.prog = "False"])
    /\ UNCHANGED <<gsCache, podVars, queued, faults>>

\* refreshAndUpdateCondition: Ready=False in Shutdown, Degraded=True in Error.
UpdateCondition(s) ==
    /\ worker[s].pc = "condition"
    /\ UpdateFresh(s, IF snap(s).state = "Shutdown"
                      THEN [gsCache[s] EXCEPT !.ready = FALSE]
                      ELSE [gsCache[s] EXCEPT !.degr = TRUE])
    /\ UNCHANGED <<gsCache, podVars, queued, faults>>

\* Any call of a reconcile can fail with an error of the API server: the
\* reconcile returns it and the key is requeued with backoff.
ReconcileFails(s) ==
    /\ Busy(s)
    /\ faults > 0
    /\ faults' = faults - 1
    /\ Return(s, TRUE)
    /\ UNCHANGED <<storeVars, podVars, queued>>

Reconcile(s) ==
    \/ HandleDeletion(s) \/ RemoveFinalizer(s)
    \/ AddFinalizer(s) \/ InitializeState(s)
    \/ ReconcileCreating(s) \/ ReconcilePod(s)
    \/ ReconcileStarting(s) \/ ReconcileReady(s) \/ ReconcileAllocated(s)
    \/ ReconcileShutdown(s) \/ ReconcileError(s)
    \/ TransitionState(s) \/ UpdateReadyStatus(s) \/ UpdateCondition(s)

-----------------------------------------------------------------------------
(***************************************************************************)
(* Informers and workqueue (controller-runtime), as SetupWithManager wires *)
(* them: GameServers and the Pods they own, behind the two predicates.     *)
(***************************************************************************)
\* The informer catches up with a GameServer; an event that passes queues it.
SyncGS(s) ==
    /\ gsWatch[s] # "current"
    /\ gsCache' = [gsCache EXCEPT ![s] = gs[s]]
    /\ gsWatch' = [gsWatch EXCEPT ![s] = "current"]
    /\ queued' = [queued EXCEPT ![s] = @ \/ gsWatch[s] = "event"]
    /\ UNCHANGED <<gs, podVars, timer, worker, snapFresh, faults>>

\* Fault: Owns(Pod) is missing, the Pod's events queue nothing.
SyncPodWithoutOwner(s) ==
    /\ podWatch[s] # "current"
    /\ podCache' = [podCache EXCEPT ![s] = pod[s]]
    /\ podWatch' = [podWatch EXCEPT ![s] = "current"]
    /\ UNCHANGED <<storeVars, pod, queued, timer, worker, snapFresh, faults>>

\* The same for a Pod, whose owner reference maps it to its GameServer's key.
SyncPod(s) ==
    /\ podWatch[s] # "current"
    /\ podCache' = [podCache EXCEPT ![s] = pod[s]]
    /\ podWatch' = [podWatch EXCEPT ![s] = "current"]
    /\ queued' = [queued EXCEPT ![s] = @ \/ podWatch[s] = "event"]
    /\ UNCHANGED <<storeVars, pod, timer, worker, snapFresh, faults>>

\* The delay of a requeue is over.
TimerFires(s) ==
    /\ timer[s]
    /\ timer' = [timer EXCEPT ![s] = FALSE]
    /\ queued' = [queued EXCEPT ![s] = TRUE]
    /\ UNCHANGED <<storeVars, podVars, worker, snapFresh, faults>>
=============================================================================
