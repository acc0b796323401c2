-------------------------- MODULE GameServerProofs --------------------------
(***************************************************************************)
(* Theorems about GameServerSystem for any set of servers, any limits and  *)
(* any bounds, with caches that lag as far as they like.  The last one is  *)
(* about GameServerHistory, the same system with the history of its reads. *)
(***************************************************************************)
EXTENDS GameServerHistory, FiniteSetTheorems, TLAPS

-----------------------------------------------------------------------------
(***************************************************************************)
(* Types of the building blocks.                                           *)
(***************************************************************************)
\* The distinguished objects have the types of their kind.
LEMMA ObjectTypes ==
    /\ NoServer \in GameServerObjects
    /\ NewServer \in GameServerObjects
    /\ NoPod \in PodObjects
    /\ NewPod \in PodObjects
    /\ Idle \in Workers
  BY DEF NoServer, NewServer, GameServerObjects, StatusStates, GameServerStates,
         NoPod, NewPod, PodObjects, Idle, Workers, WorkerSteps

\* A write leaves the watch in one of its states.
LEMMA AfterWriteType ==
    ASSUME NEW watch \in WatchStates, NEW changed, NEW passes
    PROVE  AfterWrite(watch, changed, passes) \in WatchStates
  BY DEF AfterWrite, WatchStates

\* Writing a GameServer keeps the types of the store.
LEMMA WriteGSType ==
    ASSUME TypeOK, NEW s \in Servers, NEW new \in GameServerObjects, NEW passes,
           WriteGS(s, new, passes)
    PROVE  /\ gs' \in [Servers -> GameServerObjects]
           /\ gsWatch' \in [Servers -> WatchStates]
  <1>1. gs' \in [Servers -> GameServerObjects]
    BY DEF TypeOK, WriteGS
  <1>2. AfterWrite(gsWatch[s], new # gs[s], passes) \in WatchStates
    BY AfterWriteType DEF TypeOK
  <1>3. gsWatch' \in [Servers -> WatchStates]
    BY <1>2 DEF TypeOK, WriteGS
  <1> QED
    BY <1>1, <1>3

\* Every change the model makes to a Pod leaves a Pod.
LEMMA PodChangeTypes ==
    ASSUME NEW p \in PodObjects
    PROVE  /\ Disown(p) \in PodObjects
           /\ [p EXCEPT !.own = TRUE] \in PodObjects
           /\ [p EXCEPT !.term = TRUE] \in PodObjects
           /\ [p EXCEPT !.phase = "Unready"] \in PodObjects
           /\ [p EXCEPT !.phase = "Ready"] \in PodObjects
           /\ [p EXCEPT !.phase = "Failed"] \in PodObjects
  BY DEF Disown, PodObjects

\* Every change the model makes to a GameServer leaves a GameServer.
LEMMA ServerChangeTypes ==
    ASSUME NEW o \in GameServerObjects
    PROVE  /\ [o EXCEPT !.fin = TRUE] \in GameServerObjects
           /\ [o EXCEPT !.del = TRUE] \in GameServerObjects
           /\ [o EXCEPT !.alloc = ~@] \in GameServerObjects
           /\ [o EXCEPT !.ready = FALSE] \in GameServerObjects
           /\ [o EXCEPT !.degr = TRUE] \in GameServerObjects
           /\ [o EXCEPT !.addr = TRUE, !.ready = TRUE, !.prog = "False"]
                 \in GameServerObjects
           /\ [o EXCEPT !.state = "Creating", !.prog = SetProgressing(@),
                        !.ready = FALSE] \in GameServerObjects
           /\ [o EXCEPT !.state = "Creating"] \in GameServerObjects
           /\ [o EXCEPT !.state = "Shutdown"] \in GameServerObjects
           /\ Aged(o) \in GameServerObjects
  <1> USE DEF GameServerObjects, StatusStates, GameServerStates
  <1>1. [o EXCEPT !.fin = TRUE] \in GameServerObjects
    OBVIOUS
  <1>2. [o EXCEPT !.del = TRUE] \in GameServerObjects
    OBVIOUS
  <1>3. [o EXCEPT !.alloc = ~@] \in GameServerObjects
    OBVIOUS
  <1>4. /\ [o EXCEPT !.ready = FALSE] \in GameServerObjects
        /\ [o EXCEPT !.degr = TRUE] \in GameServerObjects
    OBVIOUS
  <1>5. [o EXCEPT !.addr = TRUE, !.ready = TRUE, !.prog = "False"]
          \in GameServerObjects
    OBVIOUS
  <1>6. /\ [o EXCEPT !.state = "Creating"] \in GameServerObjects
        /\ [o EXCEPT !.state = "Shutdown"] \in GameServerObjects
    OBVIOUS
  <1>7. [o EXCEPT !.state = "Creating", !.prog = SetProgressing(@),
                  !.ready = FALSE] \in GameServerObjects
    BY DEF SetProgressing
  <1>8. Aged(o) \in GameServerObjects
    BY DEF Aged
  <1> QED
    BY <1>1, <1>2, <1>3, <1>4, <1>5, <1>6, <1>7, <1>8

\* Removing a GameServer keeps the types of store and Pods.
LEMMA RemoveGSType ==
    ASSUME TypeOK, NEW s \in Servers, RemoveGS(s)
    PROVE  /\ gs' \in [Servers -> GameServerObjects]
           /\ gsWatch' \in [Servers -> WatchStates]
           /\ pod' \in [Servers -> PodObjects]
           /\ podCache' \in [Servers -> PodObjects]
  <1>1. WriteGS(s, NoServer, TRUE)
    BY DEF RemoveGS
  <1>2. gs' \in [Servers -> GameServerObjects] /\ gsWatch' \in [Servers -> WatchStates]
    BY <1>1, WriteGSType, ObjectTypes
  <1>3. Disown(pod[s]) \in PodObjects /\ Disown(podCache[s]) \in PodObjects
    BY PodChangeTypes DEF TypeOK
  <1>4. /\ pod' \in [Servers -> PodObjects]
        /\ podCache' \in [Servers -> PodObjects]
    BY <1>3 DEF TypeOK, RemoveGS
  <1> QED
    BY <1>2, <1>4

\* Writing a Pod keeps the types of the Pods.
LEMMA WritePodType ==
    ASSUME TypeOK, NEW s \in Servers, NEW new \in PodObjects, NEW passes,
           WritePod(s, new, passes)
    PROVE  /\ pod' \in [Servers -> PodObjects]
           /\ podWatch' \in [Servers -> WatchStates]
  <1>1. AfterWrite(podWatch[s], new # pod[s], passes) \in WatchStates
    BY AfterWriteType DEF TypeOK
  <1> QED
    BY <1>1 DEF TypeOK, WritePod

\* So does deleting one.
LEMMA DeletePodType ==
    ASSUME TypeOK, NEW s \in Servers, DeletePod(s)
    PROVE  /\ pod' \in [Servers -> PodObjects]
           /\ podWatch' \in [Servers -> WatchStates]
  <1>1. CASE pod[s].phase = "None"
    BY <1>1 DEF DeletePod, TypeOK
  <1>2. CASE pod[s].phase # "None"
    <2>1. [pod[s] EXCEPT !.term = TRUE] \in PodObjects
      BY PodChangeTypes DEF TypeOK
    <2>2. WritePod(s, [pod[s] EXCEPT !.term = TRUE],
                   TracksPodGeneration /\ ~pod[s].term)
      BY <1>2 DEF DeletePod
    <2> QED
      BY <2>1, <2>2, WritePodType
  <1> QED
    BY <1>1, <1>2

\* The end of a reconcile keeps the types of the worker and the workqueue.
LEMMA ReturnType ==
    ASSUME TypeOK, NEW s \in Servers, NEW requeue \in BOOLEAN, Return(s, requeue)
    PROVE  /\ worker' \in [Servers -> Workers]
           /\ timer' \in [Servers -> BOOLEAN]
           /\ snapFresh' \in [Servers -> BOOLEAN]
  BY ObjectTypes DEF Return, TypeOK

\* A move within a reconcile keeps the worker's type.
LEMMA GotoType ==
    ASSUME TypeOK, NEW s \in Servers, NEW pc \in WorkerSteps, Goto(s, pc)
    PROVE  worker' \in [Servers -> Workers]
  BY DEF Goto, TypeOK, Workers

\* So does the call of transitionState.
LEMMA TransitionType ==
    ASSUME TypeOK, NEW s \in Servers, NEW to \in StatusStates, Transition(s, to)
    PROVE  worker' \in [Servers -> Workers]
  <1> DEFINE new == [worker[s] EXCEPT !.pc = "transition", !.to = to]
  <1>1. worker \in [Servers -> Workers] /\ worker[s] \in Workers
    BY DEF TypeOK
  <1>2. new \in Workers
    BY <1>1 DEF Workers, WorkerSteps
  <1>3. worker' = [worker EXCEPT ![s] = new]
    BY <1>1 DEF Transition
  <1> HIDE DEF new
  <1> QED
    BY <1>1, <1>2, <1>3

\* The status transitionState writes is one.
LEMMA EnteredType ==
    ASSUME NEW o \in GameServerObjects, NEW to \in GameServerStates
    PROVE  Entered(o, to) \in GameServerObjects
  BY DEF Entered, SetProgressing, GameServerObjects, StatusStates, GameServerStates

-----------------------------------------------------------------------------
(***************************************************************************)
(* Type correctness.                                                       *)
(***************************************************************************)
\* Every step of a reconcile keeps the types.
LEMMA ReconcileType ==
    ASSUME TypeOK, NEW s \in Servers, Reconcile(s), UNCHANGED apiVars
    PROVE  TypeOK'
  <1> USE DEF storeVars, podVars, apiVars
  <1>w. snap(s) \in GameServerObjects /\ worker[s].to \in StatusStates
    BY DEF TypeOK, Workers, snap
  <1>c. gsCache[s] \in GameServerObjects /\ gs[s] \in GameServerObjects
    BY DEF TypeOK
  <1>p. pod[s] \in PodObjects
    BY DEF TypeOK
  <1>f. snapFresh[s] \in BOOLEAN
    BY DEF TypeOK
  <1>1. CASE HandleDeletion(s)
    <2>1. CASE snap(s).fin
      <3>1. Goto(s, "finalize")
        BY <1>1, <2>1 DEF HandleDeletion
      <3>2. worker' \in [Servers -> Workers]
        BY <3>1, GotoType DEF WorkerSteps
      <3>3. pod' \in [Servers -> PodObjects] /\ podWatch' \in [Servers -> WatchStates]
        BY <1>1, <2>1, DeletePodType DEF HandleDeletion, TypeOK
      <3> QED
        BY <1>1, <2>1, <3>2, <3>3 DEF HandleDeletion, TypeOK
    <2>2. CASE ~snap(s).fin
      <3>1. Return(s, FALSE)
        BY <1>1, <2>2 DEF HandleDeletion
      <3> QED
        BY <1>1, <2>2, <3>1, ReturnType DEF HandleDeletion, TypeOK
    <2> QED
      BY <2>1, <2>2
  <1>2. CASE RemoveFinalizer(s)
    <2>1. Return(s, ~snapFresh[s]) /\ (~snapFresh[s]) \in BOOLEAN
      BY <1>2, <1>f DEF RemoveFinalizer
    <2>2. /\ worker' \in [Servers -> Workers]
          /\ timer' \in [Servers -> BOOLEAN]
          /\ snapFresh' \in [Servers -> BOOLEAN]
      BY <2>1, ReturnType
    <2>3. /\ gs' \in [Servers -> GameServerObjects]
          /\ gsWatch' \in [Servers -> WatchStates]
          /\ pod' \in [Servers -> PodObjects]
          /\ podCache' \in [Servers -> PodObjects]
      BY <1>2, RemoveGSType DEF RemoveFinalizer, TypeOK
    <2> QED
      BY <1>2, <2>2, <2>3 DEF RemoveFinalizer, TypeOK
  <1>3. ASSUME NEW new \in GameServerObjects, UpdateSnapshot(s, new), Return(s, TRUE),
               UNCHANGED <<gsCache, podVars, queued, faults>>
        PROVE  TypeOK'
    <2>1. gs' \in [Servers -> GameServerObjects] /\ gsWatch' \in [Servers -> WatchStates]
      BY <1>3, WriteGSType DEF UpdateSnapshot, TypeOK
    <2>2. /\ worker' \in [Servers -> Workers]
          /\ timer' \in [Servers -> BOOLEAN]
          /\ snapFresh' \in [Servers -> BOOLEAN]
      BY <1>3, ReturnType
    <2> QED
      BY <1>3, <2>1, <2>2 DEF TypeOK
  <1>4. CASE AddFinalizer(s)
    BY <1>3, <1>4, <1>w, ServerChangeTypes DEF AddFinalizer
  <1>5. CASE InitializeState(s)
    BY <1>3, <1>5, <1>w, ServerChangeTypes DEF InitializeState
  <1>6. CASE ReconcileCreating(s)
    <2>1. worker' \in [Servers -> Workers]
      BY <1>6, GotoType, TransitionType
      DEF ReconcileCreating, WorkerSteps, StatusStates, GameServerStates
    <2>2. faults' \in Nat
      BY <1>6 DEF ReconcileCreating, TypeOK
    <2> QED
      BY <1>6, <2>1, <2>2 DEF ReconcileCreating, TypeOK
  <1>7. CASE ReconcilePod(s)
    <2>1. /\ worker' \in [Servers -> Workers]
          /\ timer' \in [Servers -> BOOLEAN]
          /\ snapFresh' \in [Servers -> BOOLEAN]
      BY <1>7, ReturnType, TransitionType
      DEF ReconcilePod, StatusStates, GameServerStates, TypeOK
    <2>2. pod' \in [Servers -> PodObjects] /\ podWatch' \in [Servers -> WatchStates]
      BY <1>7, <1>p, WritePodType, PodChangeTypes, ObjectTypes DEF ReconcilePod, TypeOK
    <2> QED
      BY <1>7, <2>1, <2>2 DEF ReconcilePod, TypeOK
  <1>8. CASE ReconcileStarting(s)
    <2>1. StartingVerdict(podCache[s], snap(s).prog) \in StatusStates
      BY DEF StartingVerdict, StatusStates, GameServerStates
    <2>2. /\ worker' \in [Servers -> Workers]
          /\ timer' \in [Servers -> BOOLEAN]
          /\ snapFresh' \in [Servers -> BOOLEAN]
      BY <1>8, <2>1, ReturnType, TransitionType DEF ReconcileStarting, TypeOK
    <2> QED
      BY <1>8, <2>2 DEF ReconcileStarting, TypeOK
  <1>9. CASE ReconcileReady(s)
    <2>1. worker' \in [Servers -> Workers]
      BY <1>9, GotoType, TransitionType
      DEF ReconcileReady, WorkerSteps, StatusStates, GameServerStates
    <2> QED
      BY <1>9, <2>1 DEF ReconcileReady, TypeOK
  <1>10. CASE ReconcileAllocated(s)
    <2>1. /\ worker' \in [Servers -> Workers]
          /\ timer' \in [Servers -> BOOLEAN]
          /\ snapFresh' \in [Servers -> BOOLEAN]
      BY <1>10, ReturnType, TransitionType
      DEF ReconcileAllocated, StatusStates, GameServerStates, TypeOK
    <2> QED
      BY <1>10, <2>1 DEF ReconcileAllocated, TypeOK
  <1>11. CASE ReconcileShutdown(s)
    <2>1. worker' \in [Servers -> Workers]
      BY <1>11, GotoType DEF ReconcileShutdown, WorkerSteps
    <2>2. pod' \in [Servers -> PodObjects] /\ podWatch' \in [Servers -> WatchStates]
      BY <1>11, DeletePodType DEF ReconcileShutdown, TypeOK
    <2> QED
      BY <1>11, <2>1, <2>2 DEF ReconcileShutdown, TypeOK
  <1>12. CASE ReconcileError(s)
    <2>1. worker' \in [Servers -> Workers]
      BY <1>12, GotoType DEF ReconcileError, WorkerSteps
    <2> QED
      BY <1>12, <2>1 DEF ReconcileError, TypeOK
  <1>13. CASE TransitionState(s)
    <2>1. Return(s, TRUE)
      BY <1>13 DEF TransitionState
    <2>2. /\ worker' \in [Servers -> Workers]
          /\ timer' \in [Servers -> BOOLEAN]
          /\ snapFresh' \in [Servers -> BOOLEAN]
      BY <2>1, ReturnType
    <2>3. gs' \in [Servers -> GameServerObjects] /\ gsWatch' \in [Servers -> WatchStates]
      <3>1. CASE IsValidTransition(snap(s).state, worker[s].to) /\ CanUpdateFresh(s)
        <4>1. worker[s].to \in GameServerStates
          BY <3>1 DEF IsValidTransition, ValidTransitions, GameServerStates
        <4>2. Entered(gsCache[s], worker[s].to) \in GameServerObjects
          BY <4>1, <1>c, EnteredType
        <4> QED
          BY <1>13, <3>1, <4>2, WriteGSType DEF TransitionState
      <3>2. CASE ~(IsValidTransition(snap(s).state, worker[s].to) /\ CanUpdateFresh(s))
        BY <1>13, <3>2 DEF TransitionState, TypeOK
      <3> QED
        BY <3>1, <3>2
    <2> QED
      BY <1>13, <2>2, <2>3 DEF TransitionState, TypeOK
  <1>14. ASSUME NEW new \in GameServerObjects, UpdateFresh(s, new),
                UNCHANGED <<gsCache, podVars, queued, faults>>
         PROVE  TypeOK'
    <2>1. gs' \in [Servers -> GameServerObjects] /\ gsWatch' \in [Servers -> WatchStates]
      BY <1>14, WriteGSType DEF UpdateFresh, TypeOK
    <2>2. Return(s, ~CanUpdateFresh(s)) /\ (~CanUpdateFresh(s)) \in BOOLEAN
      BY <1>14 DEF UpdateFresh
    <2>3. /\ worker' \in [Servers -> Workers]
          /\ timer' \in [Servers -> BOOLEAN]
          /\ snapFresh' \in [Servers -> BOOLEAN]
      BY <2>2, ReturnType
    <2> QED
      BY <1>14, <2>1, <2>3 DEF TypeOK
  <1>15. CASE UpdateReadyStatus(s)
    BY <1>14, <1>15, <1>c, ServerChangeTypes DEF UpdateReadyStatus
  <1>16. CASE UpdateCondition(s)
    BY <1>14, <1>16, <1>c, ServerChangeTypes DEF UpdateCondition
  <1> QED
    BY <1>1, <1>2, <1>4, <1>5, <1>6, <1>7, <1>8, <1>9, <1>10, <1>11, <1>12, <1>13,
       <1>15, <1>16 DEF Reconcile


\* Every step of the operator's goroutines keeps the types.
LEMMA ControllerType ==
    ASSUME TypeOK, NEW s \in Servers, ControllerStep(s)
    PROVE  TypeOK'
  <1> USE DEF storeVars, podVars, apiVars
  <1>0. UNCHANGED apiVars
    BY DEF ControllerStep
  <1>1. CASE ReconcileGet(s)
    <2>1. ASSUME gsCache[s].exists
          PROVE  [pc |-> "dispatch", snap |-> gsCache[s], to |-> ""] \in Workers
      BY DEF TypeOK, Workers, WorkerSteps, StatusStates
    <2>2. worker' \in [Servers -> Workers]
      BY <1>1, <2>1 DEF ReconcileGet, TypeOK
    <2>3. snapFresh' \in [Servers -> BOOLEAN]
      BY <1>1 DEF ReconcileGet, TypeOK
    <2>4. queued' \in [Servers -> BOOLEAN] /\ timer' \in [Servers -> BOOLEAN]
      BY <1>1 DEF ReconcileGet, TypeOK
    <2> QED
      BY <1>0, <1>1, <2>2, <2>3, <2>4 DEF ReconcileGet, TypeOK
  <1>2. CASE Reconcile(s)
    BY <1>0, <1>2, ReconcileType
  <1>3. CASE ReconcileFails(s)
    <2>1. /\ worker' \in [Servers -> Workers]
          /\ timer' \in [Servers -> BOOLEAN]
          /\ snapFresh' \in [Servers -> BOOLEAN]
      BY <1>3, ReturnType DEF ReconcileFails
    <2>2. faults' \in Nat
      BY <1>3 DEF ReconcileFails, TypeOK
    <2> QED
      BY <1>0, <1>3, <2>1, <2>2 DEF ReconcileFails, TypeOK
  <1>4. CASE SyncGS(s)
    BY <1>0, <1>4 DEF SyncGS, TypeOK, WatchStates
  <1>5. CASE SyncPod(s)
    BY <1>0, <1>5 DEF SyncPod, TypeOK, WatchStates
  <1>6. CASE TimerFires(s)
    BY <1>0, <1>6 DEF TimerFires, TypeOK
  <1> QED
    BY <1>1, <1>2, <1>3, <1>4, <1>5, <1>6 DEF ControllerStep

\* Every request of a user keeps the types.
LEMMA UserType ==
    ASSUME TypeOK, NEW s \in Servers, UserStep(s) \/ EndExec(s)
    PROVE  TypeOK'
  <1> USE DEF storeVars, podVars, controllerVars
  <1>0. gs[s] \in GameServerObjects
    BY DEF TypeOK
  <1>o. ASSUME UserRequest PROVE ops' \in Nat
    BY <1>o DEF UserRequest, TypeOK
  <1>w. ASSUME NEW new \in GameServerObjects, NEW passes, UserWrite(s, new, passes)
        PROVE  /\ gs' \in [Servers -> GameServerObjects]
               /\ gsWatch' \in [Servers -> WatchStates]
               /\ snapFresh' \in [Servers -> BOOLEAN]
    <2>1. WriteGS(s, new, passes)
      BY <1>w DEF UserWrite
    <2>2. snapFresh' \in [Servers -> BOOLEAN]
      BY <1>w DEF UserWrite, TypeOK
    <2> QED
      BY <2>1, <2>2, WriteGSType
  <1>s. ASSUME NEW state \in {"Creating", "Shutdown"}, SetState(s, state)
        PROVE  /\ gs' \in [Servers -> GameServerObjects]
               /\ gsWatch' \in [Servers -> WatchStates]
               /\ snapFresh' \in [Servers -> BOOLEAN]
               /\ UNCHANGED <<gsCache, podVars, queued, timer, worker, faults>>
    <2>1. [gs[s] EXCEPT !.state = state] \in GameServerObjects
      BY <1>0, ServerChangeTypes
    <2> QED
      BY <1>s, <1>w, <2>1 DEF SetState
  <1>1. CASE CreateGameServer(s)
    BY <1>1, <1>o, <1>w, ObjectTypes DEF CreateGameServer, TypeOK
  <1>2. CASE UpdateGameServer(s)
    BY <1>2, <1>0, <1>o, <1>w DEF UpdateGameServer, TypeOK
  <1>3. CASE DeleteGameServer(s)
    <2>1. /\ gs' \in [Servers -> GameServerObjects]
          /\ gsWatch' \in [Servers -> WatchStates]
          /\ pod' \in [Servers -> PodObjects]
          /\ podCache' \in [Servers -> PodObjects]
      BY <1>0, <1>3, WriteGSType, RemoveGSType, ServerChangeTypes
      DEF DeleteGameServer, TypeOK
    <2> QED
      BY <1>3, <1>o, <2>1 DEF DeleteGameServer, TypeOK
  <1>4. CASE StartGameServer(s)
    BY <1>4, <1>o, <1>s DEF StartGameServer, TypeOK
  <1>5. CASE StopGameServer(s)
    BY <1>5, <1>o, <1>s DEF StopGameServer, TypeOK
  <1>6. CASE RestartGameServer(s)
    BY <1>6, <1>o, <1>s DEF RestartGameServer, TypeOK
  <1>7. CASE BeginExec(s)
    BY <1>7, <1>o DEF BeginExec, TypeOK
  <1>8. CASE ToggleAllocated(s)
    <2>1. [gs[s] EXCEPT !.alloc = ~@] \in GameServerObjects
      BY <1>0, ServerChangeTypes
    <2> QED
      BY <1>8, <1>o, <1>w, <2>1 DEF ToggleAllocated, TypeOK
  <1>9. CASE EndExec(s)
    BY <1>9, <1>s DEF EndExec, TypeOK
  <1> QED
    BY <1>1, <1>2, <1>3, <1>4, <1>5, <1>6, <1>7, <1>8, <1>9 DEF UserStep

\* Every step of Kubernetes keeps the types.
LEMMA EnvironmentType ==
    ASSUME TypeOK, NEW s \in Servers, EnvironmentStep(s)
    PROVE  TypeOK'
  <1> USE DEF storeVars, podOnly
  <1>0. pod[s] \in PodObjects
    BY DEF TypeOK
  <1>1. CASE PodProgresses(s)
    <2>1. pod' \in [Servers -> PodObjects] /\ podWatch' \in [Servers -> WatchStates]
      BY <1>0, <1>1, WritePodType, PodChangeTypes DEF PodProgresses
    <2> QED
      BY <1>1, <2>1 DEF PodProgresses, TypeOK
  <1>2. CASE PodFaults(s)
    <2>1. pod' \in [Servers -> PodObjects] /\ podWatch' \in [Servers -> WatchStates]
      BY <1>0, <1>2, WritePodType, DeletePodType, PodChangeTypes DEF PodFaults
    <2>2. faults' \in Nat
      BY <1>2 DEF PodFaults, TypeOK
    <2> QED
      BY <1>2, <2>1, <2>2 DEF PodFaults, TypeOK
  <1>3. CASE PodGone(s)
    <2>1. pod' \in [Servers -> PodObjects] /\ podWatch' \in [Servers -> WatchStates]
      BY <1>3, WritePodType, ObjectTypes DEF PodGone
    <2> QED
      BY <1>3, <2>1 DEF PodGone, TypeOK
  <1>4. CASE CollectGarbage(s)
    <2>1. pod' \in [Servers -> PodObjects] /\ podWatch' \in [Servers -> WatchStates]
      BY <1>4, DeletePodType DEF CollectGarbage
    <2> QED
      BY <1>4, <2>1 DEF CollectGarbage, TypeOK
  <1> QED
    BY <1>1, <1>2, <1>3, <1>4 DEF EnvironmentStep

\* The type invariant is inductive.
LEMMA TypeStep == TypeOK /\ [Next]_vars => TypeOK'
  <1> SUFFICES ASSUME TypeOK, [Next]_vars PROVE TypeOK'
    OBVIOUS
  <1>1. ASSUME NEW s \in Servers,
               ControllerStep(s) \/ UserStep(s) \/ EndExec(s) \/ EnvironmentStep(s)
        PROVE  TypeOK'
    BY <1>1, ControllerType, UserType, EnvironmentType
  <1>2. CASE Tick
    <2>1. /\ gs' \in [Servers -> GameServerObjects]
          /\ gsCache' \in [Servers -> GameServerObjects]
      BY <1>2, ServerChangeTypes DEF Tick, TypeOK
    <2>2. worker' \in [Servers -> Workers]
      <3>1. ASSUME NEW s \in Servers
            PROVE  [worker[s] EXCEPT !.snap = Aged(@)] \in Workers
        <4>1. worker[s] \in Workers /\ worker[s].snap \in GameServerObjects
          BY DEF TypeOK, Workers
        <4>2. Aged(worker[s].snap) \in GameServerObjects
          BY <4>1, ServerChangeTypes
        <4> QED
          BY <4>1, <4>2 DEF Workers
      <3> QED
        BY <1>2, <3>1 DEF Tick
    <2> QED
      BY <1>2, <2>1, <2>2 DEF Tick, TypeOK, podVars
  <1>3. CASE Crash
    BY <1>3, ObjectTypes DEF Crash, TypeOK, WatchStates
  <1>4. CASE UNCHANGED vars
    BY <1>4 DEF vars, controllerVars, TypeOK
  <1> QED
    BY <1>1, <1>2, <1>3, <1>4 DEF Next

\* The initial state is well typed.
LEMMA TypeInit == Init => TypeOK
  BY ObjectTypes, BudgetsAssumption DEF Init, TypeOK, WatchStates

\* Every reachable state is well typed: the objects keep their fields and the
\* budgets never go below zero.
THEOREM TypeCorrect == Spec => []TypeOK
  BY TypeInit, TypeStep, PTL DEF Spec


-----------------------------------------------------------------------------
(***************************************************************************)
(* The inductive invariant, server by server.                              *)
(***************************************************************************)
\* Versions: a cache that is up to date and a copy whose version is current
\* equal the object; an object that is not there has no content.
VersionsAgree(s) ==
    /\ gsWatch[s] = "current" => gsCache[s] = gs[s]
    /\ snapFresh[s] => Busy(s) /\ gsWatch[s] = "current" /\ snap(s) = gs[s]
    /\ ~gs[s].exists => gs[s] = NoServer
    /\ ~gsCache[s].exists => gsCache[s] = NoServer

\* A cached object that carries the finalizer and is not being deleted is still
\* there: only a worker that saw the deletion removes the finalizer.
CacheHolds(s) ==
    gsCache[s].fin /\ ~gsCache[s].del => gs[s].exists /\ gs[s].fin

\* While a worker has a copy with the finalizer that is not being deleted, the
\* object cannot go away, in the API server or in the cache.
WorkerHolds(s) ==
    /\ Busy(s) => snap(s).exists
    /\ Busy(s) /\ snap(s).fin /\ ~snap(s).del =>
           gs[s].exists /\ gs[s].fin /\ gsCache[s].exists
    /\ worker[s].pc \in {"pod", "transition", "ready", "condition"} =>
           snap(s).fin /\ ~snap(s).del
    /\ worker[s].pc = "finalize" => snap(s).del

\* An object with a finalizer or a state has been in the cache since.
KnownToCache(s) == gs[s].fin \/ gs[s].state # "" => gsCache[s].exists

\* The two safety properties, for one server.
PodFinalized(s) ==
    pod[s].phase # "None" /\ pod[s].own => gs[s].exists /\ gs[s].fin

StatusClean(s) ==
    gs[s].exists /\ ~gs[s].fin =>
        /\ ~gs[s].ready /\ ~gs[s].degr /\ ~gs[s].addr /\ gs[s].prog = "False"
        /\ gs[s].state \in {"", "Creating", "Shutdown"}

ServerInv(s) ==
    /\ VersionsAgree(s)
    /\ CacheHolds(s)
    /\ WorkerHolds(s)
    /\ KnownToCache(s)
    /\ PodFinalized(s)
    /\ StatusClean(s)

IInv == TypeOK /\ \A s \in Servers : ServerInv(s)


-----------------------------------------------------------------------------
(***************************************************************************)
(* A step of one server leaves the others alone.                           *)
(***************************************************************************)
\* What the invariant reads of server x does not change.
SameAt(x) ==
    /\ gs'[x] = gs[x] /\ gsCache'[x] = gsCache[x] /\ gsWatch'[x] = gsWatch[x]
    /\ pod'[x] = pod[x] /\ worker'[x] = worker[x] /\ snapFresh'[x] = snapFresh[x]

\* Where nothing changes, the invariant stays.
LEMMA SameAtKeeps ==
    ASSUME NEW x \in Servers, ServerInv(x), SameAt(x)
    PROVE  ServerInv(x)'
  BY DEF SameAt, ServerInv, VersionsAgree, CacheHolds, WorkerHolds, KnownToCache,
         PodFinalized, StatusClean, Busy, snap

\* The writes change the entry of their server only.
LEMMA WriteGSAt ==
    ASSUME TypeOK, NEW s \in Servers, NEW new, NEW passes, WriteGS(s, new, passes)
    PROVE  /\ gs'[s] = new
           /\ gsWatch'[s] = AfterWrite(gsWatch[s], new # gs[s], passes)
           /\ \A x \in Servers \ {s} : gs'[x] = gs[x] /\ gsWatch'[x] = gsWatch[x]
  BY DEF TypeOK, WriteGS

\* So does the write of a handler, which also outdates the worker's copy.
LEMMA UserWriteAt ==
    ASSUME TypeOK, NEW s \in Servers, NEW new, NEW passes \in BOOLEAN,
           UserWrite(s, new, passes)
    PROVE  /\ gs'[s] = new
           /\ gsWatch'[s] = AfterWrite(gsWatch[s], new # gs[s], passes)
           /\ snapFresh'[s] = (snapFresh[s] /\ new = gs[s] /\ ~passes)
           /\ \A x \in Servers \ {s} : /\ gs'[x] = gs[x] /\ gsWatch'[x] = gsWatch[x]
                                       /\ snapFresh'[x] = snapFresh[x]
  <1>1. WriteGS(s, new, passes)
    BY DEF UserWrite
  <1>2. /\ snapFresh'[s] = (snapFresh[s] /\ new = gs[s] /\ ~passes)
        /\ \A x \in Servers \ {s} : snapFresh'[x] = snapFresh[x]
    BY DEF TypeOK, UserWrite
  <1> QED
    BY <1>1, <1>2, WriteGSAt

\* Writing a Pod changes the Pod of its server only.
LEMMA WritePodAt ==
    ASSUME TypeOK, NEW s \in Servers, NEW new, NEW passes, WritePod(s, new, passes)
    PROVE  /\ pod'[s] = new
           /\ \A x \in Servers \ {s} : pod'[x] = pod[x]
  BY DEF TypeOK, WritePod

\* Deleting a Pod leaves its phase and its owner as they are.
LEMMA DeletePodAt ==
    ASSUME TypeOK, NEW s \in Servers, DeletePod(s)
    PROVE  /\ pod'[s].phase = pod[s].phase /\ pod'[s].own = pod[s].own
           /\ \A x \in Servers \ {s} : pod'[x] = pod[x]
  <1>1. CASE pod[s].phase = "None"
    BY <1>1 DEF DeletePod, TypeOK
  <1>2. CASE pod[s].phase # "None"
    <2> DEFINE new == [pod[s] EXCEPT !.term = TRUE]
    <2>1. WritePod(s, new, TracksPodGeneration /\ ~pod[s].term)
      BY <1>2 DEF DeletePod
    <2>2. pod[s] \in PodObjects
      BY DEF TypeOK
    <2>3. new.phase = pod[s].phase /\ new.own = pod[s].own
      BY <2>2 DEF PodObjects
    <2> HIDE DEF new
    <2> QED
      BY <2>1, <2>3, WritePodAt
  <1> QED
    BY <1>1, <1>2

\* Removing a GameServer leaves nothing of it, and its Pod without an owner.
LEMMA RemoveGSAt ==
    ASSUME TypeOK, NEW s \in Servers, RemoveGS(s)
    PROVE  /\ gs'[s] = NoServer /\ gsWatch'[s] = "event" /\ ~pod'[s].own
           /\ \A x \in Servers \ {s} : /\ gs'[x] = gs[x] /\ gsWatch'[x] = gsWatch[x]
                                       /\ pod'[x] = pod[x]
  <1>1. WriteGS(s, NoServer, TRUE)
    BY DEF RemoveGS
  <1>2. AfterWrite(gsWatch[s], NoServer # gs[s], TRUE) = "event"
    BY DEF AfterWrite
  <1>3. pod'[s] = Disown(pod[s]) /\ \A x \in Servers \ {s} : pod'[x] = pod[x]
    BY DEF RemoveGS, TypeOK
  <1>4. ~Disown(pod[s]).own
    BY DEF Disown, TypeOK, PodObjects
  <1>5. /\ gs'[s] = NoServer /\ gsWatch'[s] = "event"
        /\ \A x \in Servers \ {s} : gs'[x] = gs[x] /\ gsWatch'[x] = gsWatch[x]
    BY <1>1, <1>2, WriteGSAt
  <1> QED
    BY <1>3, <1>4, <1>5

\* The moves of a worker change its own entry only.
LEMMA ReturnAt ==
    ASSUME TypeOK, NEW s \in Servers, NEW requeue, Return(s, requeue)
    PROVE  /\ worker'[s] = Idle /\ snapFresh'[s] = FALSE
           /\ \A x \in Servers \ {s} : /\ worker'[x] = worker[x]
                                       /\ snapFresh'[x] = snapFresh[x]
  BY DEF TypeOK, Return

\* Going on keeps the copy.
LEMMA GotoAt ==
    ASSUME TypeOK, NEW s \in Servers, NEW pc, Goto(s, pc)
    PROVE  /\ worker'[s].pc = pc /\ worker'[s].snap = worker[s].snap
           /\ \A x \in Servers \ {s} : worker'[x] = worker[x]
  BY DEF TypeOK, Workers, Goto

\* Calling transitionState keeps the copy.
LEMMA TransitionAt ==
    ASSUME TypeOK, NEW s \in Servers, NEW to, Transition(s, to)
    PROVE  /\ worker'[s].pc = "transition" /\ worker'[s].to = to
           /\ worker'[s].snap = worker[s].snap
           /\ \A x \in Servers \ {s} : worker'[x] = worker[x]
  BY DEF TypeOK, Workers, Transition

\* Every step of server s changes at most what is stored at s.
LEMMA Frame ==
    ASSUME TypeOK, NEW s \in Servers, NEW x \in Servers, x # s,
           ControllerStep(s) \/ UserStep(s) \/ EndExec(s) \/ EnvironmentStep(s)
    PROVE  SameAt(x)
  <1> USE DEF SameAt, storeVars, podVars, apiVars, controllerVars, podOnly
  <1>1. CASE Reconcile(s)
    <2>1. CASE HandleDeletion(s)
      <3>1. pod'[x] = pod[x]
        BY <2>1, DeletePodAt DEF HandleDeletion
      <3>2. worker'[x] = worker[x] /\ snapFresh'[x] = snapFresh[x]
        BY <2>1, GotoAt, ReturnAt DEF HandleDeletion
      <3> QED
        BY <2>1, <3>1, <3>2 DEF HandleDeletion
    <2>2. CASE RemoveFinalizer(s)
      <3>1. gs'[x] = gs[x] /\ gsWatch'[x] = gsWatch[x] /\ pod'[x] = pod[x]
        BY <2>2, RemoveGSAt DEF RemoveFinalizer
      <3>2. Return(s, ~snapFresh[s])
        BY <2>2 DEF RemoveFinalizer
      <3>3. worker'[x] = worker[x] /\ snapFresh'[x] = snapFresh[x]
        BY <3>2, ReturnAt
      <3> QED
        BY <2>2, <3>1, <3>3 DEF RemoveFinalizer
    <2>3. CASE AddFinalizer(s)
      BY <2>3, WriteGSAt, ReturnAt DEF AddFinalizer, UpdateSnapshot
    <2>4. CASE InitializeState(s)
      <3>1. gs'[x] = gs[x] /\ gsWatch'[x] = gsWatch[x]
        BY <2>4, WriteGSAt DEF InitializeState, UpdateSnapshot
      <3>2. worker'[x] = worker[x] /\ snapFresh'[x] = snapFresh[x]
        BY <2>4, ReturnAt DEF InitializeState
      <3> QED
        BY <2>4, <3>1, <3>2 DEF InitializeState
    <2>5. CASE ReconcileCreating(s)
      BY <2>5, GotoAt, TransitionAt DEF ReconcileCreating
    <2>6. CASE ReconcilePod(s)
      <3>1. pod'[x] = pod[x]
        <4>1. \/ WritePod(s, NewPod, TRUE)
              \/ WritePod(s, [pod[s] EXCEPT !.own = TRUE], TracksPodGeneration)
              \/ UNCHANGED pod
          BY <2>6 DEF ReconcilePod
        <4> QED
          BY <4>1, WritePodAt
      <3>2. worker'[x] = worker[x] /\ snapFresh'[x] = snapFresh[x]
        <4>1. \/ Transition(s, "Starting") /\ UNCHANGED snapFresh
              \/ Return(s, TRUE)
          BY <2>6 DEF ReconcilePod
        <4> QED
          BY <4>1, TransitionAt, ReturnAt
      <3> QED
        BY <2>6, <3>1, <3>2 DEF ReconcilePod
    <2>7. CASE ReconcileStarting(s)
      <3>1. UNCHANGED <<gs, gsCache, gsWatch, pod>>
        BY <2>7 DEF ReconcileStarting
      <3>2. \/ /\ Transition(s, StartingVerdict(podCache[s], snap(s).prog))
               /\ UNCHANGED snapFresh
            \/ Return(s, TRUE)
        BY <2>7 DEF ReconcileStarting
      <3>3. worker'[x] = worker[x] /\ snapFresh'[x] = snapFresh[x]
        BY <3>2, TransitionAt, ReturnAt
      <3> QED
        BY <3>1, <3>3
    <2>8. CASE ReconcileReady(s)
      <3>1. UNCHANGED <<gs, gsCache, gsWatch, pod, snapFresh>>
        BY <2>8 DEF ReconcileReady
      <3>2. Transition(s, "Error") \/ Transition(s, "Allocated") \/ Goto(s, "ready")
        BY <2>8 DEF ReconcileReady
      <3>3. worker'[x] = worker[x]
        BY <3>2, TransitionAt, GotoAt
      <3> QED
        BY <3>1, <3>3
    <2>9. CASE ReconcileAllocated(s)
      <3>1. UNCHANGED <<gs, gsCache, gsWatch, pod>>
        BY <2>9 DEF ReconcileAllocated
      <3>2. \/ /\ Transition(s, IF IsPodReady(podCache[s]) THEN "Ready" ELSE "Error")
               /\ UNCHANGED snapFresh
            \/ Return(s, FALSE)
        BY <2>9 DEF ReconcileAllocated
      <3>3. worker'[x] = worker[x] /\ snapFresh'[x] = snapFresh[x]
        BY <3>2, TransitionAt, ReturnAt
      <3> QED
        BY <3>1, <3>3
    <2>10. CASE ReconcileShutdown(s)
      <3>1. UNCHANGED <<gs, gsCache, gsWatch, snapFresh>> /\ Goto(s, "condition")
        BY <2>10 DEF ReconcileShutdown
      <3>2. pod'[x] = pod[x]
        BY <2>10, DeletePodAt DEF ReconcileShutdown
      <3> QED
        BY <3>1, <3>2, GotoAt
    <2>11. CASE ReconcileError(s)
      BY <2>11, GotoAt DEF ReconcileError
    <2>12. CASE TransitionState(s)
      <3>1. gs'[x] = gs[x] /\ gsWatch'[x] = gsWatch[x]
        BY <2>12, WriteGSAt DEF TransitionState
      <3>2. Return(s, TRUE) /\ UNCHANGED <<gsCache, pod>>
        BY <2>12 DEF TransitionState
      <3>3. worker'[x] = worker[x] /\ snapFresh'[x] = snapFresh[x]
        BY <3>2, ReturnAt
      <3> QED
        BY <3>1, <3>2, <3>3
    <2>13. CASE UpdateReadyStatus(s)
      <3>1. gs'[x] = gs[x] /\ gsWatch'[x] = gsWatch[x]
        BY <2>13, WriteGSAt DEF UpdateReadyStatus, UpdateFresh
      <3>2. Return(s, ~CanUpdateFresh(s)) /\ UNCHANGED <<gsCache, pod>>
        BY <2>13 DEF UpdateReadyStatus, UpdateFresh
      <3>3. worker'[x] = worker[x] /\ snapFresh'[x] = snapFresh[x]
        BY <3>2, ReturnAt
      <3> QED
        BY <3>1, <3>2, <3>3
    <2>14. CASE UpdateCondition(s)
      <3>1. gs'[x] = gs[x] /\ gsWatch'[x] = gsWatch[x]
        BY <2>14, WriteGSAt DEF UpdateCondition, UpdateFresh
      <3>2. Return(s, ~CanUpdateFresh(s)) /\ UNCHANGED <<gsCache, pod>>
        BY <2>14 DEF UpdateCondition, UpdateFresh
      <3>3. worker'[x] = worker[x] /\ snapFresh'[x] = snapFresh[x]
        BY <3>2, ReturnAt
      <3> QED
        BY <3>1, <3>2, <3>3
    <2> QED
      BY <1>1, <2>1, <2>2, <2>3, <2>4, <2>5, <2>6, <2>7, <2>8, <2>9, <2>10, <2>11,
         <2>12, <2>13, <2>14 DEF Reconcile
  <1>2. CASE ControllerStep(s) /\ ~Reconcile(s)
    BY <1>2, ReturnAt DEF TypeOK, ControllerStep, ReconcileGet, ReconcileFails, SyncGS, SyncPod,
              TimerFires
  <1>3. CASE UserStep(s)
    <2> USE DEF SetState
    <2>1. CASE CreateGameServer(s)
      BY <2>1, UserWriteAt DEF CreateGameServer
    <2>2. CASE UpdateGameServer(s)
      BY <2>2, UserWriteAt DEF UpdateGameServer
    <2>3. CASE DeleteGameServer(s)
      <3>1. gs'[x] = gs[x] /\ gsWatch'[x] = gsWatch[x] /\ pod'[x] = pod[x]
        <4>1. \/ WriteGS(s, [gs[s] EXCEPT !.del = TRUE], TRUE) /\ UNCHANGED pod
              \/ RemoveGS(s)
          BY <2>3 DEF DeleteGameServer
        <4>2. CASE WriteGS(s, [gs[s] EXCEPT !.del = TRUE], TRUE) /\ UNCHANGED pod
          BY <4>2, WriteGSAt
        <4>3. CASE RemoveGS(s)
          BY <4>3, RemoveGSAt
        <4> QED
          BY <4>1, <4>2, <4>3
      <3>2. snapFresh'[x] = snapFresh[x]
        BY <2>3 DEF DeleteGameServer, TypeOK
      <3> QED
        BY <2>3, <3>1, <3>2 DEF DeleteGameServer
    <2>4. CASE StartGameServer(s) \/ StopGameServer(s) \/ RestartGameServer(s)
      BY <2>4, UserWriteAt DEF StartGameServer, StopGameServer, RestartGameServer
    <2>5. CASE BeginExec(s) \/ ToggleAllocated(s)
      BY <2>5, UserWriteAt DEF BeginExec, ToggleAllocated
    <2> QED
      BY <1>3, <2>1, <2>2, <2>3, <2>4, <2>5 DEF UserStep
  <1>4. CASE EndExec(s)
    BY <1>4, UserWriteAt DEF EndExec, SetState
  <1>5. CASE EnvironmentStep(s)
    BY <1>5, WritePodAt, DeletePodAt DEF EnvironmentStep, PodProgresses, PodFaults, PodGone, CollectGarbage
  <1> QED
    BY <1>1, <1>2, <1>3, <1>4, <1>5


-----------------------------------------------------------------------------
(***************************************************************************)
(* The invariant is preserved at the server that takes the step.           *)
(***************************************************************************)
\* An idle worker is idle.
LEMMA IdlePc == Idle.pc = "idle"
  BY DEF Idle

\* The end of a reconcile that wrote nothing.
LEMMA ReturnKeeps ==
    ASSUME TypeOK, NEW s \in Servers, ServerInv(s), NEW requeue, Return(s, requeue),
           UNCHANGED <<gs, gsCache, gsWatch, pod>>
    PROVE  ServerInv(s)'
  <1>1. worker'[s] = Idle /\ snapFresh'[s] = FALSE
    BY ReturnAt
  <1>2. worker'[s].pc = "idle"
    BY <1>1, IdlePc
  <1> QED
    BY <1>1, <1>2 DEF ServerInv, VersionsAgree, CacheHolds, WorkerHolds, KnownToCache,
                      PodFinalized, StatusClean, Busy, snap

\* A worker that goes on with its copy, on a path where the copy has the
\* finalizer and is not being deleted, and at most marks the Pod.
LEMMA MoveKeeps ==
    ASSUME TypeOK, NEW s \in Servers, ServerInv(s),
           Busy(s), snap(s).fin, ~snap(s).del,
           worker'[s].pc \in WorkerSteps \ {"idle", "finalize"},
           worker'[s].snap = worker[s].snap,
           pod'[s].phase = pod[s].phase, pod'[s].own = pod[s].own,
           UNCHANGED <<gs, gsCache, gsWatch, snapFresh>>
    PROVE  ServerInv(s)'
  BY DEF ServerInv, VersionsAgree, CacheHolds, WorkerHolds, KnownToCache,
         PodFinalized, StatusClean, Busy, snap

\* The end of a reconcile that wrote new over an object with the finalizer (or
\* added it), when the cache was current.
LEMMA WriteKeeps ==
    ASSUME TypeOK, NEW s \in Servers, ServerInv(s), NEW new \in GameServerObjects,
           WriteGS(s, new, FALSE), worker'[s] = Idle, snapFresh'[s] = FALSE,
           UNCHANGED <<gsCache, pod>>,
           gsWatch[s] = "current", gs[s].exists, new.exists, new.fin
    PROVE  ServerInv(s)'
  <1>1. gs'[s] = new /\ gsWatch'[s] = AfterWrite(gsWatch[s], new # gs[s], FALSE)
    BY WriteGSAt
  <1>2. gsWatch'[s] = "current" => new = gs[s]
    BY <1>1 DEF AfterWrite
  <1>3. worker'[s].pc = "idle"
    BY IdlePc
  <1>4. gsCache'[s] = gs[s] /\ gsCache[s] = gs[s] /\ pod'[s] = pod[s]
    BY DEF ServerInv, VersionsAgree
  <1>5. VersionsAgree(s)'
    BY <1>1, <1>2, <1>3, <1>4 DEF VersionsAgree, Busy
  <1>6. CacheHolds(s)' /\ KnownToCache(s)' /\ PodFinalized(s)' /\ StatusClean(s)'
    BY <1>1, <1>4 DEF CacheHolds, KnownToCache, PodFinalized, StatusClean
  <1>7. WorkerHolds(s)'
    BY <1>3 DEF WorkerHolds, Busy
  <1> QED
    BY <1>5, <1>6, <1>7 DEF ServerInv

\* A write of someone else that keeps the object and its finalizer.
LEMMA UserWriteKeeps ==
    ASSUME TypeOK, NEW s \in Servers, ServerInv(s), NEW new \in GameServerObjects,
           NEW passes \in BOOLEAN, UserWrite(s, new, passes),
           UNCHANGED <<gsCache, pod, worker>>,
           gs[s].exists, new.exists, new.fin = gs[s].fin,
           new.state # "" => gs[s].state # "" \/ gsCache[s].exists,
           ~new.fin => /\ ~new.ready /\ ~new.degr /\ ~new.addr /\ new.prog = "False"
                       /\ new.state \in {"", "Creating", "Shutdown"}
    PROVE  ServerInv(s)'
  <1>1. /\ gs'[s] = new
        /\ gsWatch'[s] = AfterWrite(gsWatch[s], new # gs[s], passes)
        /\ snapFresh'[s] = (snapFresh[s] /\ new = gs[s] /\ ~passes)
    <2>1. WriteGS(s, new, passes)
      BY DEF UserWrite
    <2>2. gs'[s] = new
      BY <2>1 DEF WriteGS, TypeOK
    <2>3. gsWatch'[s] = AfterWrite(gsWatch[s], new # gs[s], passes)
      BY <2>1 DEF WriteGS, TypeOK
    <2>4. snapFresh'[s] = (snapFresh[s] /\ new = gs[s] /\ ~passes)
      BY DEF UserWrite, TypeOK
    <2> QED
      BY <2>2, <2>3, <2>4
  <1>2. gsWatch'[s] = "current" => new = gs[s] /\ gsWatch[s] = "current"
    BY <1>1 DEF AfterWrite
  <1>3. gsWatch[s] = "current" /\ new = gs[s] /\ ~passes => gsWatch'[s] = "current"
    BY <1>1 DEF AfterWrite
  <1>4. VersionsAgree(s)'
    BY <1>1, <1>2, <1>3 DEF ServerInv, VersionsAgree, Busy, snap
  <1>5. CacheHolds(s)' /\ KnownToCache(s)' /\ PodFinalized(s)' /\ StatusClean(s)'
    BY <1>1 DEF ServerInv, CacheHolds, KnownToCache, PodFinalized, StatusClean
  <1>6. WorkerHolds(s)'
    BY <1>1 DEF ServerInv, WorkerHolds, Busy, snap
  <1> QED
    BY <1>4, <1>5, <1>6 DEF ServerInv

\* The object goes away: no copy or cache counts on it any more.
LEMMA RemoveKeeps ==
    ASSUME TypeOK, NEW s \in Servers, ServerInv(s), RemoveGS(s),
           gsCache' = gsCache, snapFresh'[s] = FALSE,
           \/ worker'[s] = Idle /\ gsCache[s].del
           \/ worker' = worker /\ ~gs[s].fin
    PROVE  ServerInv(s)'
  <1>1. gs'[s] = NoServer /\ gsWatch'[s] = "event" /\ ~pod'[s].own
    BY RemoveGSAt
  <1>2. ~NoServer.exists /\ ~NoServer.fin /\ NoServer.state = ""
    BY DEF NoServer
  <1> QED
    BY <1>1, <1>2, IdlePc
    DEF ServerInv, VersionsAgree, CacheHolds, WorkerHolds, KnownToCache, PodFinalized,
        StatusClean, Busy, snap

\* What the operator's writes leave of the object.
LEMMA OperatorWrites ==
    ASSUME NEW o \in GameServerObjects, NEW to \in GameServerStates
    PROVE  /\ Entered(o, to).exists = o.exists /\ Entered(o, to).fin = o.fin
           /\ Entered(o, to).state = to
  BY DEF Entered, SetProgressing, GameServerObjects, StatusStates, GameServerStates

\* A valid transition ends in a state of the lifecycle.
LEMMA ValidTarget ==
    ASSUME NEW from, NEW to, IsValidTransition(from, to)
    PROVE  to \in GameServerStates
  BY DEF IsValidTransition, ValidTransitions, GameServerStates

\* A status update of the re-fetched object, by a worker whose copy has the
\* finalizer and is not being deleted.
LEMMA UpdateFreshKeeps ==
    ASSUME TypeOK, NEW s \in Servers, ServerInv(s), NEW new \in GameServerObjects,
           UpdateFresh(s, new), UNCHANGED <<gsCache, pod>>,
           Busy(s), snap(s).fin, ~snap(s).del,
           new.exists = gsCache[s].exists, new.fin = gsCache[s].fin
    PROVE  ServerInv(s)'
  <1>1. CASE CanUpdateFresh(s)
    <2>1. WriteGS(s, new, FALSE) /\ Return(s, ~CanUpdateFresh(s))
      BY <1>1 DEF UpdateFresh
    <2>2. worker'[s] = Idle /\ snapFresh'[s] = FALSE
      BY <2>1, ReturnAt
    <2>3. gsWatch[s] = "current" /\ gsCache[s] = gs[s] /\ gs[s].exists /\ gs[s].fin
      BY <1>1 DEF CanUpdateFresh, ServerInv, VersionsAgree, WorkerHolds
    <2>4. new.exists /\ new.fin
      BY <2>3
    <2> QED
      BY <2>1, <2>2, <2>3, <2>4, WriteKeeps
  <1>2. CASE ~CanUpdateFresh(s)
    <2>1. UNCHANGED <<gs, gsWatch>> /\ Return(s, ~CanUpdateFresh(s))
      BY <1>2 DEF UpdateFresh
    <2> QED
      BY <2>1, ReturnKeeps
  <1> QED
    BY <1>1, <1>2

\* What the invariant says of a worker that has reached one of the steps.
LEMMA WorkerFacts ==
    ASSUME NEW s \in Servers, ServerInv(s), Busy(s)
    PROVE  /\ snap(s).exists
           /\ snapFresh[s] => /\ gsWatch[s] = "current" /\ gsCache[s] = snap(s)
                              /\ gs[s] = snap(s)
           /\ worker[s].pc \in {"pod", "transition", "ready", "condition"} =>
                  snap(s).fin /\ ~snap(s).del
           /\ worker[s].pc = "finalize" => snap(s).del
           /\ snap(s).fin /\ ~snap(s).del =>
                  gs[s].exists /\ gs[s].fin /\ gsCache[s].exists
  BY DEF ServerInv, VersionsAgree, WorkerHolds

\* An update of the copy fetched at the start that leaves it with the finalizer.
LEMMA UpdateSnapshotKeeps ==
    ASSUME TypeOK, NEW s \in Servers, ServerInv(s), NEW new \in GameServerObjects,
           Busy(s), UpdateSnapshot(s, new), Return(s, TRUE), UNCHANGED <<gsCache, pod>>,
           new.exists = snap(s).exists, new.fin
    PROVE  ServerInv(s)'
  <1>1. CASE snapFresh[s]
    <2>1. WriteGS(s, new, FALSE)
      BY <1>1 DEF UpdateSnapshot
    <2>2. worker'[s] = Idle /\ snapFresh'[s] = FALSE
      BY ReturnAt
    <2>3. gsWatch[s] = "current" /\ gs[s].exists /\ new.exists
      BY <1>1, WorkerFacts
    <2> QED
      BY <2>1, <2>2, <2>3, WriteKeeps
  <1>2. CASE ~snapFresh[s]
    <2>1. UNCHANGED <<gs, gsWatch>>
      BY <1>2 DEF UpdateSnapshot
    <2> QED
      BY <2>1, ReturnKeeps
  <1> QED
    BY <1>1, <1>2

\* The path of a deletion.
LEMMA DeletionKeeps ==
    ASSUME TypeOK, NEW s \in Servers, ServerInv(s), HandleDeletion(s) \/ RemoveFinalizer(s)
    PROVE  ServerInv(s)'
  <1>1. CASE HandleDeletion(s) /\ snap(s).fin
    <2>1. pod'[s].phase = pod[s].phase /\ pod'[s].own = pod[s].own
      BY <1>1, DeletePodAt DEF HandleDeletion
    <2>2. Goto(s, "finalize") /\ snap(s).del /\ worker[s].pc = "dispatch"
      BY <1>1 DEF HandleDeletion
    <2>3. worker'[s].pc = "finalize" /\ worker'[s].snap = worker[s].snap
      BY <2>2, GotoAt
    <2>4. UNCHANGED <<gs, gsCache, gsWatch, snapFresh>>
      BY <1>1 DEF HandleDeletion, storeVars
    <2> QED
      BY <2>1, <2>2, <2>3, <2>4
      DEF ServerInv, VersionsAgree, CacheHolds, WorkerHolds, KnownToCache,
          PodFinalized, StatusClean, Busy, snap
  <1>2. CASE HandleDeletion(s) /\ ~snap(s).fin
    BY <1>2, ReturnKeeps DEF HandleDeletion, storeVars
  <1>3. CASE RemoveFinalizer(s)
    <2>1. Busy(s) /\ Return(s, ~snapFresh[s]) /\ gsCache' = gsCache
      BY <1>3 DEF RemoveFinalizer, Busy
    <2>2. CASE snapFresh[s]
      <3>1. RemoveGS(s) /\ worker[s].pc = "finalize"
        BY <1>3, <2>2 DEF RemoveFinalizer
      <3>2. gsCache[s].del
        BY <2>1, <2>2, <3>1, WorkerFacts
      <3>3. worker'[s] = Idle /\ snapFresh'[s] = FALSE
        BY <2>1, ReturnAt
      <3> QED
        BY <2>1, <3>1, <3>2, <3>3, RemoveKeeps
    <2>3. CASE ~snapFresh[s]
      BY <1>3, <2>1, <2>3, ReturnKeeps DEF RemoveFinalizer
    <2> QED
      BY <2>2, <2>3
  <1> QED
    BY <1>1, <1>2, <1>3

\* The steps of a reconcile.
LEMMA ReconcileKeeps ==
    ASSUME TypeOK, NEW s \in Servers, ServerInv(s), Reconcile(s)
    PROVE  ServerInv(s)'
  <1> USE DEF storeVars, podVars
  <1>w. snap(s) \in GameServerObjects /\ gsCache[s] \in GameServerObjects
    BY DEF TypeOK, Workers, snap
  <1>m. ASSUME NEW pc \in WorkerSteps \ {"idle", "finalize"}, NEW state,
               InState(s, state), worker'[s].pc = pc,
               worker'[s].snap = worker[s].snap,
               pod'[s].phase = pod[s].phase, pod'[s].own = pod[s].own,
               UNCHANGED <<gs, gsCache, gsWatch, snapFresh>>
        PROVE  ServerInv(s)'
    <2>1. Busy(s) /\ snap(s).fin /\ ~snap(s).del
      BY <1>m DEF InState, Busy
    <2> QED
      BY <1>m, <2>1, MoveKeeps
  <1>1. CASE HandleDeletion(s) \/ RemoveFinalizer(s)
    BY <1>1, DeletionKeeps
  <1>2. CASE AddFinalizer(s)
    <2> DEFINE new == [snap(s) EXCEPT !.fin = TRUE]
    <2>1. new \in GameServerObjects
      BY <1>w, ServerChangeTypes
    <2>2. new.exists = snap(s).exists /\ new.fin
      BY <1>w DEF GameServerObjects
    <2>3. /\ Busy(s) /\ UpdateSnapshot(s, new) /\ Return(s, TRUE)
          /\ UNCHANGED <<gsCache, pod>>
      BY <1>2 DEF AddFinalizer, Busy
    <2> HIDE DEF new
    <2> QED
      BY <2>1, <2>2, <2>3, UpdateSnapshotKeeps
  <1>3. CASE InitializeState(s)
    <2> DEFINE new == [snap(s) EXCEPT !.state = "Creating", !.prog = SetProgressing(@),
                                      !.ready = FALSE]
    <2>1. new \in GameServerObjects
      BY <1>w, ServerChangeTypes
    <2>2. new.exists = snap(s).exists /\ new.fin = snap(s).fin
      BY <1>w DEF GameServerObjects
    <2>3. /\ Busy(s) /\ UpdateSnapshot(s, new) /\ Return(s, TRUE)
          /\ UNCHANGED <<gsCache, pod>> /\ snap(s).fin
      BY <1>3 DEF InitializeState, InState, Busy
    <2> HIDE DEF new
    <2> QED
      BY <2>1, <2>2, <2>3, UpdateSnapshotKeeps
  <1>4. CASE ReconcileCreating(s)
    <2>1. InState(s, "Creating") /\ UNCHANGED <<gs, gsCache, gsWatch, snapFresh, pod>>
      BY <1>4 DEF ReconcileCreating
    <2>2. Transition(s, "Error") \/ Goto(s, "pod")
      BY <1>4 DEF ReconcileCreating
    <2>3. /\ worker'[s].pc \in {"transition", "pod"}
          /\ worker'[s].snap = worker[s].snap
      BY <2>2, TransitionAt, GotoAt
    <2> QED
      BY <1>m, <2>1, <2>3 DEF WorkerSteps
  <1>5. CASE ReconcilePod(s)
    <2>1. Busy(s) /\ worker[s].pc = "pod" /\ UNCHANGED <<gs, gsCache, gsWatch>>
      BY <1>5 DEF ReconcilePod, Busy
    <2>2. snap(s).fin /\ ~snap(s).del /\ gs[s].exists /\ gs[s].fin /\ gsCache[s].exists
      BY <2>1, WorkerFacts
    <2>3. CASE Transition(s, "Starting") /\ UNCHANGED snapFresh
      <3>1. worker'[s].pc = "transition" /\ worker'[s].snap = worker[s].snap
        BY <2>3, TransitionAt
      <3> QED
        BY <2>1, <2>2, <2>3, <3>1
        DEF ServerInv, VersionsAgree, CacheHolds, WorkerHolds, KnownToCache,
            PodFinalized, StatusClean, Busy, snap
    <2>4. CASE Return(s, TRUE) /\ UNCHANGED pod
      BY <2>1, <2>4, ReturnKeeps
    <2> QED
      BY <1>5, <2>3, <2>4 DEF ReconcilePod
  <1>6. CASE ReconcileStarting(s)
    <2>1. InState(s, "Starting") /\ UNCHANGED <<gs, gsCache, gsWatch, pod>>
      BY <1>6 DEF ReconcileStarting
    <2>2. \/ Transition(s, StartingVerdict(podCache[s], snap(s).prog)) /\ UNCHANGED snapFresh
          \/ Return(s, TRUE)
      BY <1>6 DEF ReconcileStarting
    <2>3. CASE Return(s, TRUE)
      BY <2>1, <2>3, ReturnKeeps
    <2>4. CASE /\ Transition(s, StartingVerdict(podCache[s], snap(s).prog))
               /\ UNCHANGED snapFresh
      <3>1. worker'[s].pc = "transition" /\ worker'[s].snap = worker[s].snap
        BY <2>4, TransitionAt
      <3> QED
        BY <1>m, <2>1, <2>4, <3>1 DEF WorkerSteps
    <2> QED
      BY <2>2, <2>3, <2>4
  <1>7. CASE ReconcileReady(s)
    <2>1. InState(s, "Ready") /\ UNCHANGED <<gs, gsCache, gsWatch, snapFresh, pod>>
      BY <1>7 DEF ReconcileReady
    <2>2. Transition(s, "Error") \/ Transition(s, "Allocated") \/ Goto(s, "ready")
      BY <1>7 DEF ReconcileReady
    <2>3. /\ worker'[s].pc \in {"transition", "ready"}
          /\ worker'[s].snap = worker[s].snap
      BY <2>2, TransitionAt, GotoAt
    <2> QED
      BY <1>m, <2>1, <2>3 DEF WorkerSteps
  <1>8. CASE ReconcileAllocated(s)
    <2>1. InState(s, "Allocated") /\ UNCHANGED <<gs, gsCache, gsWatch, pod>>
      BY <1>8 DEF ReconcileAllocated
    <2>2. \/ Transition(s, IF IsPodReady(podCache[s]) THEN "Ready" ELSE "Error")
             /\ UNCHANGED snapFresh
          \/ Return(s, FALSE)
      BY <1>8 DEF ReconcileAllocated
    <2>3. CASE Return(s, FALSE)
      BY <2>1, <2>3, ReturnKeeps
    <2>4. CASE Transition(s, IF IsPodReady(podCache[s]) THEN "Ready" ELSE "Error")
               /\ UNCHANGED snapFresh
      <3>1. worker'[s].pc = "transition" /\ worker'[s].snap = worker[s].snap
        BY <2>4, TransitionAt
      <3> QED
        BY <1>m, <2>1, <2>4, <3>1 DEF WorkerSteps
    <2> QED
      BY <2>2, <2>3, <2>4
  <1>9. CASE ReconcileShutdown(s)
    <2>1. InState(s, "Shutdown") /\ UNCHANGED <<gs, gsCache, gsWatch, snapFresh>>
      BY <1>9 DEF ReconcileShutdown
    <2>2. pod'[s].phase = pod[s].phase /\ pod'[s].own = pod[s].own
      BY <1>9, DeletePodAt DEF ReconcileShutdown
    <2>3. worker'[s].pc = "condition" /\ worker'[s].snap = worker[s].snap
      BY <1>9, GotoAt DEF ReconcileShutdown
    <2> QED
      BY <1>m, <2>1, <2>2, <2>3 DEF WorkerSteps
  <1>10. CASE ReconcileError(s)
    <2>1. InState(s, "Error") /\ UNCHANGED <<gs, gsCache, gsWatch, snapFresh, pod>>
      BY <1>10 DEF ReconcileError
    <2>2. worker'[s].pc = "condition" /\ worker'[s].snap = worker[s].snap
      BY <1>10, GotoAt DEF ReconcileError
    <2> QED
      BY <1>m, <2>1, <2>2 DEF WorkerSteps
  <1>11. CASE TransitionState(s)
    <2>1. /\ Busy(s) /\ worker[s].pc = "transition" /\ Return(s, TRUE)
          /\ UNCHANGED <<gsCache, pod>>
      BY <1>11 DEF TransitionState, Busy
    <2>2. CASE IsValidTransition(snap(s).state, worker[s].to) /\ CanUpdateFresh(s)
      <3> DEFINE new == Entered(gsCache[s], worker[s].to)
      <3>1. WriteGS(s, new, FALSE)
        BY <1>11, <2>2 DEF TransitionState
      <3>2. worker[s].to \in GameServerStates
        BY <2>2, ValidTarget
      <3>3. new \in GameServerObjects
        BY <1>w, <3>2, EnteredType
      <3>4. new.exists = gsCache[s].exists /\ new.fin = gsCache[s].fin
        BY <1>w, <3>2, OperatorWrites
      <3> HIDE DEF new
      <3>5. gsWatch[s] = "current" /\ gsCache[s] = gs[s]
        BY <2>2 DEF CanUpdateFresh, ServerInv, VersionsAgree
      <3>6. gs[s].exists /\ gs[s].fin
        BY <2>1, WorkerFacts
      <3>7. worker'[s] = Idle /\ snapFresh'[s] = FALSE
        BY <2>1, ReturnAt
      <3> QED
        BY <2>1, <3>1, <3>3, <3>4, <3>5, <3>6, <3>7, WriteKeeps
    <2>3. CASE ~(IsValidTransition(snap(s).state, worker[s].to) /\ CanUpdateFresh(s))
      <3>1. UNCHANGED <<gs, gsWatch>>
        BY <1>11, <2>3 DEF TransitionState
      <3> QED
        BY <2>1, <3>1, ReturnKeeps
    <2> QED
      BY <2>2, <2>3
  <1>12. CASE UpdateReadyStatus(s)
    <2> DEFINE new == [gsCache[s] EXCEPT !.addr = TRUE, !.ready = TRUE, !.prog = "False"]
    <2>1. new \in GameServerObjects
      BY <1>w, ServerChangeTypes
    <2>2. new.exists = gsCache[s].exists /\ new.fin = gsCache[s].fin
      BY <1>w DEF GameServerObjects
    <2>3. Busy(s) /\ worker[s].pc = "ready" /\ UNCHANGED <<gsCache, pod>>
      BY <1>12 DEF UpdateReadyStatus, Busy
    <2>4. UpdateFresh(s, new)
      BY <1>12 DEF UpdateReadyStatus
    <2> HIDE DEF new
    <2>5. snap(s).fin /\ ~snap(s).del
      BY <2>3, WorkerFacts
    <2> QED
      BY <2>1, <2>2, <2>3, <2>4, <2>5, UpdateFreshKeeps
  <1>13. CASE UpdateCondition(s)
    <2> DEFINE new == IF snap(s).state = "Shutdown"
                      THEN [gsCache[s] EXCEPT !.ready = FALSE]
                      ELSE [gsCache[s] EXCEPT !.degr = TRUE]
    <2>1. new \in GameServerObjects
      BY <1>w, ServerChangeTypes
    <2>2. new.exists = gsCache[s].exists /\ new.fin = gsCache[s].fin
      BY <1>w DEF GameServerObjects
    <2>3. Busy(s) /\ worker[s].pc = "condition" /\ UNCHANGED <<gsCache, pod>>
      BY <1>13 DEF UpdateCondition, Busy
    <2>4. UpdateFresh(s, new)
      BY <1>13 DEF UpdateCondition
    <2> HIDE DEF new
    <2>5. snap(s).fin /\ ~snap(s).del
      BY <2>3, WorkerFacts
    <2> QED
      BY <2>1, <2>2, <2>3, <2>4, <2>5, UpdateFreshKeeps
  <1> QED
    BY <1>1, <1>2, <1>3, <1>4, <1>5, <1>6, <1>7, <1>8, <1>9, <1>10, <1>11, <1>12,
       <1>13 DEF Reconcile

\* The steps of the operator's goroutines.
LEMMA ControllerKeeps ==
    ASSUME TypeOK, NEW s \in Servers, ServerInv(s), ControllerStep(s)
    PROVE  ServerInv(s)'
  <1> USE DEF storeVars, podVars
  <1>1. CASE Reconcile(s)
    BY <1>1, ReconcileKeeps
  <1>2. CASE ReconcileGet(s)
    <2>1. UNCHANGED <<gs, gsCache, gsWatch, pod>>
      BY <1>2 DEF ReconcileGet
    <2>2. CASE ~gsCache[s].exists
      <3>1. UNCHANGED <<worker, snapFresh>>
        BY <1>2, <2>2 DEF ReconcileGet
      <3> QED
        BY <2>1, <3>1, SameAtKeeps DEF SameAt
    <2>3. CASE gsCache[s].exists
      <3> DEFINE w == [pc |-> "dispatch", snap |-> gsCache[s], to |-> ""]
      <3>1. worker'[s] = w
        BY <1>2, <2>3 DEF ReconcileGet, TypeOK
      <3>2. w.pc = "dispatch" /\ w.snap = gsCache[s]
        OBVIOUS
      <3>3. worker'[s].pc = "dispatch" /\ worker'[s].snap = gsCache[s]
        BY <3>1, <3>2
      <3>4. snapFresh'[s] <=> gsWatch[s] = "current"
        BY <1>2, <2>3 DEF ReconcileGet, TypeOK
      <3> QED
        BY <2>1, <2>3, <3>3, <3>4
        DEF ServerInv, VersionsAgree, CacheHolds, WorkerHolds, KnownToCache,
            PodFinalized, StatusClean, Busy, snap
    <2> QED
      BY <2>2, <2>3
  <1>3. CASE ReconcileFails(s)
    BY <1>3, ReturnKeeps DEF ReconcileFails
  <1>4. CASE SyncGS(s)
    <2>1. gsCache'[s] = gs[s] /\ gsWatch'[s] = "current"
      BY <1>4 DEF SyncGS, TypeOK
    <2>2. gsWatch[s] # "current" /\ UNCHANGED <<gs, pod, worker, snapFresh>>
      BY <1>4 DEF SyncGS
    <2>3. NoServer.exists = FALSE /\ NoServer.fin = FALSE /\ NoServer.state = ""
      BY DEF NoServer
    <2>4. gs[s].fin \/ gs[s].state # "" => gs[s].exists
      BY <2>3 DEF ServerInv, VersionsAgree
    <2>5. VersionsAgree(s)'
      BY <2>1, <2>2 DEF ServerInv, VersionsAgree, Busy, snap
    <2>6. CacheHolds(s)' /\ KnownToCache(s)' /\ PodFinalized(s)' /\ StatusClean(s)'
      BY <2>1, <2>2, <2>4 DEF ServerInv, CacheHolds, KnownToCache, PodFinalized, StatusClean
    <2>7. WorkerHolds(s)'
      BY <2>1, <2>2 DEF ServerInv, WorkerHolds, Busy, snap
    <2> QED
      BY <2>5, <2>6, <2>7 DEF ServerInv
  <1>5. CASE SyncPod(s) \/ TimerFires(s)
    BY <1>5, SameAtKeeps DEF SyncPod, TimerFires, SameAt
  <1> QED
    BY <1>1, <1>2, <1>3, <1>4, <1>5 DEF ControllerStep

\* A new GameServer of the name, while copies of an earlier one may be around.
LEMMA CreateKeeps ==
    ASSUME TypeOK, NEW s \in Servers, ServerInv(s), CreateGameServer(s)
    PROVE  ServerInv(s)'
  <1>1. ~gs[s].exists /\ WriteGS(s, NewServer, TRUE) /\ UNCHANGED <<gsCache, pod, worker>>
    BY DEF CreateGameServer, UserWrite, podVars
  <1>2. gs'[s] = NewServer /\ gsWatch'[s] = "event"
    BY <1>1, WriteGSAt DEF AfterWrite
  <1>3. ~snapFresh'[s]
    BY DEF CreateGameServer, UserWrite, TypeOK
  <1>4. /\ NewServer.exists /\ ~NewServer.fin /\ NewServer.state = ""
        /\ ~NewServer.ready /\ ~NewServer.degr /\ ~NewServer.addr
        /\ NewServer.prog = "False"
    BY DEF NewServer, NoServer
  <1>5. VersionsAgree(s)'
    BY <1>1, <1>2, <1>3, <1>4 DEF ServerInv, VersionsAgree
  <1>6. CacheHolds(s)' /\ KnownToCache(s)' /\ PodFinalized(s)' /\ StatusClean(s)'
    BY <1>1, <1>2, <1>4 DEF ServerInv, CacheHolds, KnownToCache, PodFinalized, StatusClean
  <1>7. WorkerHolds(s)'
    BY <1>1, <1>2 DEF ServerInv, WorkerHolds, Busy, snap
  <1> QED
    BY <1>5, <1>6, <1>7 DEF ServerInv

\* A handler's update of the state.
LEMMA SetStateKeeps ==
    ASSUME TypeOK, NEW s \in Servers, ServerInv(s), NEW state \in {"Creating", "Shutdown"},
           SetState(s, state)
    PROVE  ServerInv(s)'
  <1> DEFINE new == [gs[s] EXCEPT !.state = state]
  <1>1. gs[s] \in GameServerObjects
    BY DEF TypeOK
  <1>2. new \in GameServerObjects
    BY <1>1 DEF GameServerObjects, StatusStates, GameServerStates
  <1>3. /\ new.exists = gs[s].exists /\ new.fin = gs[s].fin /\ new.state = state
        /\ new.ready = gs[s].ready /\ new.degr = gs[s].degr /\ new.addr = gs[s].addr
        /\ new.prog = gs[s].prog
    BY <1>1 DEF GameServerObjects
  <1>4. UserWrite(s, new, FALSE) /\ CanUpdateFresh(s) /\ UNCHANGED <<gsCache, pod, worker>>
    BY DEF SetState, podVars
  <1> HIDE DEF new
  <1>5. gs[s].exists /\ gsCache[s].exists
    BY <1>4 DEF CanUpdateFresh, ServerInv, VersionsAgree
  <1>6. ~new.fin => /\ ~new.ready /\ ~new.degr /\ ~new.addr /\ new.prog = "False"
                    /\ new.state \in {"", "Creating", "Shutdown"}
    BY <1>3, <1>5 DEF ServerInv, StatusClean
  <1> QED
    BY <1>2, <1>3, <1>4, <1>5, <1>6, UserWriteKeeps

\* The requests of users.
LEMMA UserKeeps ==
    ASSUME TypeOK, NEW s \in Servers, ServerInv(s), UserStep(s) \/ EndExec(s)
    PROVE  ServerInv(s)'
  <1> USE DEF podVars
  <1>0. gs[s] \in GameServerObjects
    BY DEF TypeOK
  <1>1. CASE CreateGameServer(s)
    BY <1>1, CreateKeeps
  <1>2. CASE UpdateGameServer(s)
    <2>1. /\ UserWrite(s, gs[s], TRUE) /\ CanUpdateFresh(s)
          /\ UNCHANGED <<gsCache, pod, worker>>
      BY <1>2 DEF UpdateGameServer
    <2>2. gs[s].exists
      BY <2>1 DEF CanUpdateFresh, ServerInv, VersionsAgree
    <2>3. ~gs[s].fin => /\ ~gs[s].ready /\ ~gs[s].degr /\ ~gs[s].addr
                        /\ gs[s].prog = "False"
                        /\ gs[s].state \in {"", "Creating", "Shutdown"}
      BY <2>2 DEF ServerInv, StatusClean
    <2> QED
      BY <1>0, <2>1, <2>2, <2>3, UserWriteKeeps
  <1>3. CASE DeleteGameServer(s) /\ gs[s].fin
    <2> DEFINE new == [gs[s] EXCEPT !.del = TRUE]
    <2>1. /\ WriteGS(s, new, TRUE) /\ UNCHANGED <<gsCache, pod, worker>>
          /\ gsCache[s].exists
      BY <1>3 DEF DeleteGameServer
    <2>2. new.exists = gs[s].exists /\ new.fin
      BY <1>0, <1>3 DEF GameServerObjects
    <2>3. ~snapFresh'[s] /\ gs[s].exists
      BY <1>3 DEF DeleteGameServer, TypeOK
    <2> HIDE DEF new
    <2>4. gs'[s] = new /\ gsWatch'[s] = "event"
      BY <2>1, WriteGSAt DEF AfterWrite
    <2> QED
      BY <2>1, <2>2, <2>3, <2>4
      DEF ServerInv, VersionsAgree, CacheHolds, WorkerHolds, KnownToCache,
          PodFinalized, StatusClean, Busy, snap
  <1>4. CASE DeleteGameServer(s) /\ ~gs[s].fin
    <2>1. RemoveGS(s) /\ UNCHANGED <<gsCache, worker>>
      BY <1>4 DEF DeleteGameServer
    <2>2. snapFresh'[s] = FALSE
      BY <1>4 DEF DeleteGameServer, TypeOK
    <2> QED
      BY <1>4, <2>1, <2>2, RemoveKeeps
  <1>5. CASE StartGameServer(s) \/ StopGameServer(s) \/ RestartGameServer(s)
    BY <1>5, SetStateKeeps DEF StartGameServer, StopGameServer, RestartGameServer
  <1>6. CASE BeginExec(s)
    BY <1>6, SameAtKeeps DEF BeginExec, controllerVars, SameAt
  <1>7. CASE EndExec(s)
    <2>1. CASE SetState(s, "Creating")
      BY <2>1, SetStateKeeps
    <2>2. CASE UNCHANGED controllerVars
      BY <2>2, SameAtKeeps DEF controllerVars, SameAt
    <2> QED
      BY <1>7, <2>1, <2>2 DEF EndExec
  <1>8. CASE ToggleAllocated(s)
    <2> DEFINE new == [gs[s] EXCEPT !.alloc = ~@]
    <2>1. new \in GameServerObjects
      BY <1>0, ServerChangeTypes
    <2>2. /\ new.exists = gs[s].exists /\ new.fin = gs[s].fin /\ new.state = gs[s].state
          /\ new.ready = gs[s].ready /\ new.degr = gs[s].degr /\ new.addr = gs[s].addr
          /\ new.prog = gs[s].prog
      BY <1>0 DEF GameServerObjects
    <2>3. UserWrite(s, new, TRUE) /\ gs[s].exists /\ UNCHANGED <<gsCache, pod, worker>>
      BY <1>8 DEF ToggleAllocated
    <2> HIDE DEF new
    <2>4. ~new.fin => /\ ~new.ready /\ ~new.degr /\ ~new.addr /\ new.prog = "False"
                      /\ new.state \in {"", "Creating", "Shutdown"}
      BY <2>2, <2>3 DEF ServerInv, StatusClean
    <2> QED
      BY <2>1, <2>2, <2>3, <2>4, UserWriteKeeps
  <1> QED
    BY <1>1, <1>2, <1>3, <1>4, <1>5, <1>6, <1>7, <1>8 DEF UserStep

\* Kubernetes never makes a Pod, or gives one to a GameServer.
LEMMA EnvironmentPods ==
    ASSUME TypeOK, NEW s \in Servers, EnvironmentStep(s),
           pod'[s].phase # "None", pod'[s].own
    PROVE  pod[s].phase # "None" /\ pod[s].own
  <1>0. pod[s] \in PodObjects
    BY DEF TypeOK
  <1>1. ASSUME NEW phase, WritePod(s, [pod[s] EXCEPT !.phase = phase], FALSE),
               pod[s].phase # "None"
        PROVE  pod[s].phase # "None" /\ pod[s].own
    <2>1. pod'[s] = [pod[s] EXCEPT !.phase = phase]
      BY <1>1, WritePodAt
    <2> QED
      BY <1>0, <1>1, <2>1 DEF PodObjects
  <1>2. CASE PodProgresses(s)
    BY <1>1, <1>2 DEF PodProgresses
  <1>3. CASE PodFaults(s)
    BY <1>1, <1>3, DeletePodAt DEF PodFaults
  <1>4. CASE PodGone(s)
    <2>1. pod'[s] = NoPod
      BY <1>4, WritePodAt DEF PodGone
    <2> QED
      BY <2>1 DEF NoPod
  <1>5. CASE CollectGarbage(s)
    BY <1>5, DeletePodAt DEF CollectGarbage
  <1> QED
    BY <1>2, <1>3, <1>4, <1>5 DEF EnvironmentStep

\* The kubelet and the garbage collector keep the invariant.
LEMMA EnvironmentKeeps ==
    ASSUME TypeOK, NEW s \in Servers, ServerInv(s), EnvironmentStep(s)
    PROVE  ServerInv(s)'
  <1>1. UNCHANGED <<gs, gsCache, gsWatch, worker, snapFresh>>
    BY DEF EnvironmentStep, PodProgresses, PodFaults, PodGone, CollectGarbage, podOnly,
           storeVars
  <1>2. PodFinalized(s)'
    BY <1>1, EnvironmentPods DEF ServerInv, PodFinalized
  <1> QED
    BY <1>1, <1>2 DEF ServerInv, VersionsAgree, CacheHolds, WorkerHolds, KnownToCache,
                      StatusClean, Busy, snap

\* Time changes nothing but the age of a condition.
LEMMA AgedFields ==
    ASSUME NEW o \in GameServerObjects
    PROVE  /\ Aged(o).exists = o.exists /\ Aged(o).fin = o.fin /\ Aged(o).del = o.del
           /\ Aged(o).state = o.state /\ Aged(o).ready = o.ready
           /\ Aged(o).degr = o.degr /\ Aged(o).addr = o.addr
           /\ Aged(o).prog = "False" <=> o.prog = "False"
           /\ o = NoServer => Aged(o) = NoServer
  <1>1. NoServer.prog = "False"
    BY DEF NoServer
  <1>2. o = NoServer => Aged(o) = NoServer
    BY <1>1 DEF Aged
  <1> QED
    BY <1>2 DEF Aged, GameServerObjects

\* The passing of time keeps the invariant, at every server.
LEMMA TickKeeps ==
    ASSUME TypeOK, NEW s \in Servers, ServerInv(s), Tick
    PROVE  ServerInv(s)'
  <1>0. /\ gs[s] \in GameServerObjects /\ gsCache[s] \in GameServerObjects
        /\ snap(s) \in GameServerObjects
    BY DEF TypeOK, Workers, snap
  <1>1. gs'[s] = Aged(gs[s]) /\ gsCache'[s] = Aged(gsCache[s])
    BY DEF Tick
  <1>2. worker'[s].pc = worker[s].pc /\ worker'[s].snap = Aged(worker[s].snap)
    <2>1. worker'[s] = [worker[s] EXCEPT !.snap = Aged(@)]
      BY DEF Tick
    <2>2. worker[s] \in Workers
      BY DEF TypeOK
    <2> QED
      BY <2>1, <2>2 DEF Workers
  <1>3. UNCHANGED <<gsWatch, pod, snapFresh>>
    BY DEF Tick, podVars
  <1>a. /\ gs'[s].exists = gs[s].exists /\ gs'[s].fin = gs[s].fin
        /\ gs'[s].state = gs[s].state /\ gs'[s].ready = gs[s].ready
        /\ gs'[s].degr = gs[s].degr /\ gs'[s].addr = gs[s].addr
        /\ gs[s].prog = "False" => gs'[s].prog = "False"
    BY <1>0, <1>1, AgedFields
  <1>b. /\ gsCache'[s].exists = gsCache[s].exists /\ gsCache'[s].fin = gsCache[s].fin
        /\ gsCache'[s].del = gsCache[s].del
    BY <1>0, <1>1, AgedFields
  <1>4. VersionsAgree(s)'
    BY <1>0, <1>1, <1>2, <1>3, AgedFields DEF ServerInv, VersionsAgree, Busy, snap
  <1>5. CacheHolds(s)' /\ KnownToCache(s)' /\ PodFinalized(s)'
    BY <1>3, <1>a, <1>b DEF ServerInv, CacheHolds, KnownToCache, PodFinalized
  <1>6. StatusClean(s)'
    BY <1>a DEF ServerInv, StatusClean
  <1>7. WorkerHolds(s)'
    BY <1>0, <1>1, <1>2, AgedFields DEF ServerInv, WorkerHolds, Busy, snap
  <1> QED
    BY <1>4, <1>5, <1>6, <1>7 DEF ServerInv

\* A restart drops every copy and reads the store anew.
LEMMA CrashKeeps ==
    ASSUME TypeOK, NEW s \in Servers, ServerInv(s), Crash
    PROVE  ServerInv(s)'
  <1>1. /\ gs'[s] = gs[s] /\ gsCache'[s] = gs[s] /\ gsWatch'[s] = "current"
        /\ worker'[s] = Idle /\ ~snapFresh'[s] /\ pod'[s] = pod[s]
    BY DEF Crash
  <1>2. worker'[s].pc = "idle"
    BY <1>1, IdlePc
  <1>3. NoServer.exists = FALSE /\ NoServer.fin = FALSE /\ NoServer.state = ""
    BY DEF NoServer
  <1>4. gs[s].fin \/ gs[s].state # "" => gs[s].exists
    BY <1>3 DEF ServerInv, VersionsAgree
  <1> QED
    BY <1>1, <1>2, <1>4
    DEF ServerInv, VersionsAgree, CacheHolds, WorkerHolds, KnownToCache, PodFinalized,
        StatusClean, Busy

-----------------------------------------------------------------------------
(***************************************************************************)
(* The invariant holds.                                                    *)
(***************************************************************************)
\* The invariant holds at the start.
LEMMA InvInit == Init => IInv
  <1> SUFFICES ASSUME Init PROVE IInv
    OBVIOUS
  <1>1. TypeOK
    BY TypeInit
  <1>2. ASSUME NEW s \in Servers PROVE ServerInv(s)
    <2>1. /\ gs[s] = NoServer /\ gsCache[s] = NoServer /\ gsWatch[s] = "current"
          /\ pod[s] = NoPod /\ worker[s] = Idle /\ snapFresh[s] = FALSE
      BY DEF Init
    <2>2. ~NoServer.exists /\ ~NoServer.fin /\ NoServer.state = "" /\ ~NoPod.own
      BY DEF NoServer, NoPod
    <2> QED
      BY <2>1, <2>2, IdlePc
      DEF ServerInv, VersionsAgree, CacheHolds, WorkerHolds, KnownToCache,
          PodFinalized, StatusClean, Busy
  <1> QED
    BY <1>1, <1>2 DEF IInv

\* Every step keeps the invariant.
LEMMA InvStep == IInv /\ [Next]_vars => IInv'
  <1> SUFFICES ASSUME IInv, [Next]_vars PROVE IInv'
    OBVIOUS
  <1>t. TypeOK /\ TypeOK'
    BY TypeStep DEF IInv
  <1> SUFFICES ASSUME NEW x \in Servers PROVE ServerInv(x)'
    BY <1>t DEF IInv
  <1>x. ServerInv(x)
    BY DEF IInv
  <1>1. ASSUME NEW s \in Servers,
               ControllerStep(s) \/ UserStep(s) \/ EndExec(s) \/ EnvironmentStep(s)
        PROVE  ServerInv(x)'
    <2>1. CASE x = s
      BY <1>t, <1>x, <1>1, <2>1, ControllerKeeps, UserKeeps, EnvironmentKeeps
    <2>2. CASE x # s
      BY <1>t, <1>x, <1>1, <2>2, Frame, SameAtKeeps
    <2> QED
      BY <2>1, <2>2
  <1>2. CASE Tick
    BY <1>t, <1>x, <1>2, TickKeeps
  <1>3. CASE Crash
    BY <1>t, <1>x, <1>3, CrashKeeps
  <1>4. CASE UNCHANGED vars
    BY <1>x, <1>4, SameAtKeeps DEF vars, controllerVars, SameAt
  <1> QED
    BY <1>1, <1>2, <1>3, <1>4 DEF Next

\* The inductive invariant.
THEOREM Invariance == Spec => []IInv
  BY InvInit, InvStep, PTL DEF Spec

\* No Pod belongs to a GameServer without the finalizer: no deletion can skip
\* handleDeletion, for any number of servers and however far the caches lag.
THEOREM PodsFinalized == Spec => []PodsHaveFinalizer
  <1>1. IInv => PodsHaveFinalizer
    BY DEF IInv, ServerInv, PodFinalized, PodsHaveFinalizer
  <1> QED
    BY <1>1, Invariance, PTL

\* Nothing the operator knew of a deleted GameServer reaches a later one of the
\* same name.
THEOREM StatusNeverLeaks == Spec => []NoStatusLeak
  <1>1. IInv => NoStatusLeak
    BY DEF IInv, ServerInv, StatusClean, NoStatusLeak
  <1> QED
    BY <1>1, Invariance, PTL

-----------------------------------------------------------------------------
(***************************************************************************)
(* The limits.  A server claims a slot from the moment the admission check *)
(* of reconcileCreating lets it through: nothing may happen in between that *)
(* the check of another server does not see, because everything that claims *)
(* a slot is listed by the cache.                                          *)
(***************************************************************************)
Claims(s) ==
    \/ gs[s].state \in ActiveStates
    \/ gsCache[s].state \in ActiveStates
    \/ pod[s].phase # "None" /\ pod[s].own
    \/ /\ Busy(s) /\ snap(s).fin /\ ~snap(s).del
       /\ \/ snap(s).state \in ActiveStates
          \/ worker[s].pc = "pod"
          \/ worker[s].pc = "transition" /\ worker[s].to \in ActiveStates

Claimants == {s \in Servers : Claims(s)}

OwnClaimants(u) == {s \in Claimants : NamespaceUser[s] = u /\ OwnerLabel[s] = u}

LimitInv ==
    /\ Cardinality(Claimants) <= MaxServersGlobal
    /\ \A u \in Users : Cardinality(OwnClaimants(u)) <= MaxServersPerUser

\* Every server that claims a slot is listed.
LEMMA ClaimantsListed ==
    ASSUME IInv
    PROVE  Claimants \subseteq ListedServers
  <1> SUFFICES ASSUME NEW s \in Servers, Claims(s) PROVE gsCache[s].exists
    BY DEF Claimants, ListedServers
  <1>1. ServerInv(s)
    BY DEF IInv
  <1>2. NoServer.state = "" /\ "" \notin ActiveStates
    BY DEF NoServer, ActiveStates
  <1>3. CASE gs[s].state \in ActiveStates
    BY <1>1, <1>2, <1>3 DEF ServerInv, KnownToCache
  <1>4. CASE gsCache[s].state \in ActiveStates
    BY <1>1, <1>2, <1>4 DEF ServerInv, VersionsAgree
  <1>5. CASE pod[s].phase # "None" /\ pod[s].own
    BY <1>1, <1>5 DEF ServerInv, PodFinalized, KnownToCache
  <1>6. CASE Busy(s) /\ snap(s).fin /\ ~snap(s).del
    BY <1>1, <1>6, WorkerFacts
  <1> QED
    BY <1>3, <1>4, <1>5, <1>6 DEF Claims

\* Where nothing changes, no claim appears.
LEMMA SameAtClaims ==
    ASSUME NEW x \in Servers, SameAt(x), Claims(x)'
    PROVE  Claims(x)
  BY DEF SameAt, Claims, Busy, snap

\* Admission: the step of reconcileCreating that goes on to the Pod.
Admits(s) == ReconcileCreating(s) /\ ~Rejected(s)

\* A step of a worker that ends its reconcile claims what it wrote.
LEMMA ReturnClaims ==
    ASSUME TypeOK, NEW s \in Servers, NEW requeue, Return(s, requeue),
           UNCHANGED <<gsCache, pod>>,
           gs'[s].state \in ActiveStates => Claims(s), Claims(s)'
    PROVE  Claims(s)
  <1>1. worker'[s].pc = "idle"
    BY ReturnAt, IdlePc
  <1> QED
    BY <1>1 DEF Claims, Busy

\* A worker that goes on with its copy claims no more than before, unless it
\* goes on to the Pod or to an active state.
LEMMA MoveClaims ==
    ASSUME TypeOK, NEW s \in Servers, Busy(s), worker'[s].snap = worker[s].snap,
           worker'[s].pc # "pod",
           worker'[s].pc = "transition" => worker'[s].to \notin ActiveStates,
           pod'[s].phase = pod[s].phase, pod'[s].own = pod[s].own,
           UNCHANGED <<gs, gsCache>>, Claims(s)'
    PROVE  Claims(s)
  BY DEF Claims, Busy, snap

\* No step of a reconcile but the admission makes a claim.
LEMMA ReconcileClaims ==
    ASSUME TypeOK, NEW s \in Servers, ServerInv(s), Reconcile(s), ~Admits(s), Claims(s)'
    PROVE  Claims(s)
  <1> USE DEF storeVars, podVars
  <1>w. /\ snap(s) \in GameServerObjects /\ gsCache[s] \in GameServerObjects
        /\ gs[s] \in GameServerObjects
    BY DEF TypeOK, Workers, snap
  <1>n. \A state \in {"", "Creating", "Shutdown", "Error"} : state \notin ActiveStates
    BY DEF ActiveStates
  <1>a. ASSUME NEW state \in ActiveStates, InState(s, state)
        PROVE  Claims(s)
    BY <1>a DEF Claims, InState, Busy
  <1>1. CASE HandleDeletion(s) /\ snap(s).fin
    <2>1. pod'[s].phase = pod[s].phase /\ pod'[s].own = pod[s].own
      BY <1>1, DeletePodAt DEF HandleDeletion
    <2>2. worker'[s].pc = "finalize" /\ worker'[s].snap = worker[s].snap
      BY <1>1, GotoAt DEF HandleDeletion
    <2>3. Busy(s) /\ UNCHANGED <<gs, gsCache>>
      BY <1>1 DEF HandleDeletion, Busy
    <2> QED
      BY <2>1, <2>2, <2>3, MoveClaims
  <1>2. CASE HandleDeletion(s) /\ ~snap(s).fin
    <2>1. Return(s, FALSE) /\ UNCHANGED <<gs, gsCache, pod>>
      BY <1>2 DEF HandleDeletion
    <2> QED
      BY <2>1, ReturnClaims DEF Claims
  <1>3. CASE RemoveFinalizer(s)
    <2>1. Return(s, ~snapFresh[s]) /\ gsCache' = gsCache
      BY <1>3 DEF RemoveFinalizer
    <2>2. worker'[s].pc = "idle"
      BY <2>1, ReturnAt, IdlePc
    <2>3. CASE snapFresh[s]
      <3>1. gs'[s] = NoServer /\ ~pod'[s].own
        BY <1>3, <2>3, RemoveGSAt DEF RemoveFinalizer
      <3>2. NoServer.state = ""
        BY DEF NoServer
      <3>3. gs'[s].state \notin ActiveStates
        BY <1>n, <3>1, <3>2
      <3> QED
        BY <2>1, <2>2, <3>1, <3>3 DEF Claims, Busy
    <2>4. CASE ~snapFresh[s]
      <3>1. UNCHANGED <<gs, pod>>
        BY <1>3, <2>4 DEF RemoveFinalizer
      <3> QED
        BY <2>1, <2>2, <3>1 DEF Claims, Busy
    <2> QED
      BY <2>3, <2>4
  <1>4. CASE AddFinalizer(s)
    <2> DEFINE new == [snap(s) EXCEPT !.fin = TRUE]
    <2>1. Busy(s) /\ Return(s, TRUE) /\ UpdateSnapshot(s, new) /\ UNCHANGED <<gsCache, pod>>
      BY <1>4 DEF AddFinalizer, Busy
    <2>2. new.state = snap(s).state
      BY <1>w DEF GameServerObjects
    <2> HIDE DEF new
    <2>3. snapFresh[s] => gs[s] = snap(s)
      BY <2>1, WorkerFacts
    <2>4. gs'[s].state = gs[s].state
      BY <2>1, <2>2, <2>3, WriteGSAt DEF UpdateSnapshot
    <2> QED
      BY <2>1, <2>4, ReturnClaims DEF Claims
  <1>5. CASE InitializeState(s)
    <2> DEFINE new == [snap(s) EXCEPT !.state = "Creating", !.prog = SetProgressing(@),
                                      !.ready = FALSE]
    <2>1. Return(s, TRUE) /\ UpdateSnapshot(s, new) /\ UNCHANGED <<gsCache, pod>>
      BY <1>5 DEF InitializeState
    <2>2. new.state = "Creating"
      BY <1>w DEF GameServerObjects
    <2> HIDE DEF new
    <2>3. gs'[s].state = "Creating" \/ gs'[s].state = gs[s].state
      BY <2>1, <2>2, WriteGSAt DEF UpdateSnapshot
    <2> QED
      BY <1>n, <2>1, <2>3, ReturnClaims DEF Claims
  <1>6. CASE ReconcileCreating(s)
    <2>1. Busy(s) /\ UNCHANGED <<gs, gsCache, pod>>
      BY <1>6 DEF ReconcileCreating, InState, Busy
    <2>2. Transition(s, "Error")
      BY <1>6 DEF ReconcileCreating, Admits
    <2>3. /\ worker'[s].pc = "transition" /\ worker'[s].to = "Error"
          /\ worker'[s].snap = worker[s].snap
      BY <2>2, TransitionAt
    <2> QED
      BY <1>n, <2>1, <2>3, MoveClaims
  <1>7. CASE ReconcilePod(s)
    <2>1. Busy(s) /\ worker[s].pc = "pod"
      BY <1>7 DEF ReconcilePod, Busy
    <2> QED
      BY <2>1, WorkerFacts DEF Claims
  <1>8. CASE ReconcileStarting(s)
    BY <1>8, <1>a DEF ReconcileStarting, ActiveStates
  <1>9. CASE ReconcileReady(s)
    BY <1>9, <1>a DEF ReconcileReady, ActiveStates
  <1>10. CASE ReconcileAllocated(s)
    BY <1>10, <1>a DEF ReconcileAllocated, ActiveStates
  <1>11. CASE ReconcileShutdown(s)
    <2>1. pod'[s].phase = pod[s].phase /\ pod'[s].own = pod[s].own
      BY <1>11, DeletePodAt DEF ReconcileShutdown
    <2>2. worker'[s].pc = "condition" /\ worker'[s].snap = worker[s].snap
      BY <1>11, GotoAt DEF ReconcileShutdown
    <2>3. Busy(s) /\ UNCHANGED <<gs, gsCache>>
      BY <1>11 DEF ReconcileShutdown, InState, Busy
    <2> QED
      BY <2>1, <2>2, <2>3, MoveClaims
  <1>12. CASE ReconcileError(s)
    <2>1. worker'[s].pc = "condition" /\ worker'[s].snap = worker[s].snap
      BY <1>12, GotoAt DEF ReconcileError
    <2>2. Busy(s) /\ UNCHANGED <<gs, gsCache, pod>>
      BY <1>12 DEF ReconcileError, InState, Busy
    <2> QED
      BY <2>1, <2>2, MoveClaims
  <1>13. CASE TransitionState(s)
    <2>1. /\ Busy(s) /\ worker[s].pc = "transition" /\ Return(s, TRUE)
          /\ UNCHANGED <<gsCache, pod>>
      BY <1>13 DEF TransitionState, Busy
    <2>2. CASE IsValidTransition(snap(s).state, worker[s].to) /\ CanUpdateFresh(s)
      <3>1. worker[s].to \in GameServerStates
        BY <2>2, ValidTarget
      <3>2. gs'[s] = Entered(gsCache[s], worker[s].to)
        BY <1>13, <2>2, WriteGSAt DEF TransitionState
      <3>3. gs'[s].state = worker[s].to
        BY <1>w, <3>1, <3>2, OperatorWrites
      <3>4. snap(s).fin /\ ~snap(s).del
        BY <2>1, WorkerFacts
      <3>5. gs'[s].state \in ActiveStates => Claims(s)
        BY <2>1, <3>3, <3>4 DEF Claims
      <3> QED
        BY <2>1, <3>5, ReturnClaims
    <2>3. CASE ~(IsValidTransition(snap(s).state, worker[s].to) /\ CanUpdateFresh(s))
      <3>1. gs' = gs
        BY <1>13, <2>3 DEF TransitionState
      <3> QED
        BY <2>1, <3>1, ReturnClaims DEF Claims
    <2> QED
      BY <2>2, <2>3
  <1>14. ASSUME NEW new, UpdateFresh(s, new), new.state = gsCache[s].state,
                UNCHANGED <<gsCache, pod>>
         PROVE  Claims(s)
    <2>1. Return(s, ~CanUpdateFresh(s))
      BY <1>14 DEF UpdateFresh
    <2>2. gs'[s] = new \/ gs'[s] = gs[s]
      BY <1>14, WriteGSAt DEF UpdateFresh
    <2>3. gs'[s].state \in ActiveStates => Claims(s)
      BY <1>14, <2>2 DEF Claims
    <2> QED
      BY <1>14, <2>1, <2>3, ReturnClaims
  <1>15. CASE UpdateReadyStatus(s)
    <2> DEFINE new == [gsCache[s] EXCEPT !.addr = TRUE, !.ready = TRUE, !.prog = "False"]
    <2>1. UpdateFresh(s, new) /\ UNCHANGED <<gsCache, pod>>
      BY <1>15 DEF UpdateReadyStatus
    <2>2. new.state = gsCache[s].state
      BY <1>w DEF GameServerObjects
    <2> QED
      BY <1>14, <2>1, <2>2
  <1>16. CASE UpdateCondition(s)
    <2> DEFINE new == IF snap(s).state = "Shutdown"
                      THEN [gsCache[s] EXCEPT !.ready = FALSE]
                      ELSE [gsCache[s] EXCEPT !.degr = TRUE]
    <2>1. UpdateFresh(s, new) /\ UNCHANGED <<gsCache, pod>>
      BY <1>16 DEF UpdateCondition
    <2>2. new.state = gsCache[s].state
      BY <1>w DEF GameServerObjects
    <2> QED
      BY <1>14, <2>1, <2>2
  <1> QED
    BY <1>1, <1>2, <1>3, <1>4, <1>5, <1>6, <1>7, <1>8, <1>9, <1>10, <1>11, <1>12,
       <1>13, <1>15, <1>16 DEF Reconcile

\* Nor does any other step.
LEMMA StepClaims ==
    ASSUME TypeOK, NEW s \in Servers, ServerInv(s), ~Admits(s), Claims(s)',
           ControllerStep(s) \/ UserStep(s) \/ EndExec(s) \/ EnvironmentStep(s)
    PROVE  Claims(s)
  <1> USE DEF storeVars, podVars
  <1>0. gs[s] \in GameServerObjects
    BY DEF TypeOK
  <1>n. \A state \in {"", "Creating", "Shutdown"} : state \notin ActiveStates
    BY DEF ActiveStates
  <1>u. ASSUME gs'[s].state \in ActiveStates => gs[s].state \in ActiveStates,
               UNCHANGED <<gsCache, worker>>, pod'[s].own => pod' = pod
        PROVE  Claims(s)
    BY <1>u DEF Claims, Busy, snap
  <1>s. ASSUME NEW state \in {"Creating", "Shutdown"}, SetState(s, state)
        PROVE  Claims(s)
    <2>1. gs'[s] = [gs[s] EXCEPT !.state = state]
      BY <1>s, WriteGSAt DEF SetState, UserWrite
    <2>2. gs'[s].state = state
      BY <1>0, <2>1 DEF GameServerObjects
    <2>3. UNCHANGED <<gsCache, worker, pod>>
      BY <1>s DEF SetState
    <2> QED
      BY <1>n, <1>u, <2>2, <2>3
  <1>1. CASE Reconcile(s)
    BY <1>1, ReconcileClaims
  <1>2. CASE ReconcileGet(s)
    <2>1. UNCHANGED <<gs, gsCache, pod>>
      BY <1>2 DEF ReconcileGet
    <2>2. CASE ~gsCache[s].exists
      BY <1>2, <2>1, <2>2, <1>u DEF ReconcileGet
    <2>3. CASE gsCache[s].exists
      <3> DEFINE w == [pc |-> "dispatch", snap |-> gsCache[s], to |-> ""]
      <3>1. worker'[s] = w
        BY <1>2, <2>3 DEF ReconcileGet, TypeOK
      <3>2. w.pc = "dispatch" /\ w.snap = gsCache[s]
        OBVIOUS
      <3>3. worker'[s].pc = "dispatch" /\ worker'[s].snap = gsCache[s]
        BY <3>1, <3>2
      <3> QED
        BY <2>1, <3>3 DEF Claims, snap
    <2> QED
      BY <2>2, <2>3
  <1>3. CASE ReconcileFails(s)
    <2>1. Return(s, TRUE) /\ UNCHANGED <<gs, gsCache, pod>>
      BY <1>3 DEF ReconcileFails
    <2> QED
      BY <2>1, ReturnClaims DEF Claims
  <1>4. CASE SyncGS(s)
    <2>1. gsCache'[s] = gs[s] /\ UNCHANGED <<gs, pod, worker>>
      BY <1>4 DEF SyncGS, TypeOK
    <2> QED
      BY <2>1 DEF Claims, Busy, snap
  <1>5. CASE SyncPod(s) \/ TimerFires(s)
    BY <1>5, <1>u DEF SyncPod, TimerFires
  <1>6. CASE CreateGameServer(s)
    <2>1. gs'[s] = NewServer
      BY <1>6, WriteGSAt DEF CreateGameServer, UserWrite
    <2>2. NewServer.state = ""
      BY DEF NewServer, NoServer
    <2>3. UNCHANGED <<gsCache, worker, pod>>
      BY <1>6 DEF CreateGameServer
    <2> QED
      BY <1>n, <1>u, <2>1, <2>2, <2>3
  <1>7. CASE UpdateGameServer(s)
    <2>1. gs'[s] = gs[s]
      BY <1>7, WriteGSAt DEF UpdateGameServer, UserWrite
    <2>2. UNCHANGED <<gsCache, worker, pod>>
      BY <1>7 DEF UpdateGameServer
    <2> QED
      BY <1>u, <2>1, <2>2
  <1>8. CASE DeleteGameServer(s) /\ gs[s].fin
    <2>1. gs'[s] = [gs[s] EXCEPT !.del = TRUE]
      BY <1>8, WriteGSAt DEF DeleteGameServer
    <2>2. gs'[s].state = gs[s].state
      BY <1>0, <2>1 DEF GameServerObjects
    <2>3. UNCHANGED <<gsCache, worker, pod>>
      BY <1>8 DEF DeleteGameServer
    <2> QED
      BY <1>u, <2>2, <2>3
  <1>9. CASE DeleteGameServer(s) /\ ~gs[s].fin
    <2>1. gs'[s] = NoServer /\ ~pod'[s].own
      BY <1>9, RemoveGSAt DEF DeleteGameServer
    <2>2. NoServer.state = ""
      BY DEF NoServer
    <2>3. UNCHANGED <<gsCache, worker>>
      BY <1>9 DEF DeleteGameServer
    <2> QED
      BY <1>n, <1>u, <2>1, <2>2, <2>3
  <1>10. CASE StartGameServer(s) \/ StopGameServer(s) \/ RestartGameServer(s)
    BY <1>10, <1>s DEF StartGameServer, StopGameServer, RestartGameServer
  <1>11. CASE BeginExec(s)
    BY <1>11, <1>u DEF BeginExec, controllerVars
  <1>12. CASE EndExec(s)
    BY <1>12, <1>s, <1>u DEF EndExec, controllerVars
  <1>13. CASE ToggleAllocated(s)
    <2>1. gs'[s] = [gs[s] EXCEPT !.alloc = ~@]
      BY <1>13, WriteGSAt DEF ToggleAllocated, UserWrite
    <2>2. gs'[s].state = gs[s].state
      BY <1>0, <2>1 DEF GameServerObjects
    <2>3. UNCHANGED <<gsCache, worker, pod>>
      BY <1>13 DEF ToggleAllocated
    <2> QED
      BY <1>u, <2>2, <2>3
  <1>14. CASE EnvironmentStep(s)
    <2>1. UNCHANGED <<gs, gsCache, worker>>
      BY <1>14 DEF EnvironmentStep, PodProgresses, PodFaults, PodGone, CollectGarbage,
                   podOnly
    <2> QED
      BY <1>14, <2>1, EnvironmentPods DEF Claims, Busy, snap
  <1> QED
    BY <1>1, <1>2, <1>3, <1>4, <1>5, <1>6, <1>7, <1>8, <1>9, <1>10, <1>11, <1>12,
       <1>13, <1>14 DEF ControllerStep, UserStep

\* Time makes no claim.
LEMMA TickClaims ==
    ASSUME TypeOK, NEW s \in Servers, Tick, Claims(s)'
    PROVE  Claims(s)
  <1>0. /\ gs[s] \in GameServerObjects /\ gsCache[s] \in GameServerObjects
        /\ snap(s) \in GameServerObjects /\ worker[s] \in Workers
    BY DEF TypeOK, Workers, snap
  <1>1. gs'[s].state = gs[s].state /\ gsCache'[s].state = gsCache[s].state
    BY <1>0, AgedFields DEF Tick
  <1>2. worker'[s] = [worker[s] EXCEPT !.snap = Aged(@)] /\ pod' = pod
    BY DEF Tick, podVars
  <1>3. /\ worker'[s].pc = worker[s].pc /\ worker'[s].to = worker[s].to
        /\ worker'[s].snap = Aged(snap(s))
    BY <1>0, <1>2 DEF Workers, snap
  <1>4. /\ worker'[s].snap.fin = snap(s).fin /\ worker'[s].snap.del = snap(s).del
        /\ worker'[s].snap.state = snap(s).state
    BY <1>0, <1>3, AgedFields
  <1> QED
    BY <1>1, <1>2, <1>3, <1>4 DEF Claims, Busy, snap

\* A restart makes no claim.
LEMMA CrashClaims ==
    ASSUME TypeOK, NEW s \in Servers, Crash, Claims(s)'
    PROVE  Claims(s)
  <1>1. gs' = gs /\ gsCache' = gs /\ pod' = pod /\ worker'[s] = Idle
    BY DEF Crash
  <1> QED
    BY <1>1, IdlePc DEF Claims, Busy

\* Fewer claims need fewer slots.
LEMMA SmallerSets ==
    ASSUME NEW S \in SUBSET Servers, NEW T \in SUBSET S, NEW n \in Nat, Cardinality(S) <= n
    PROVE  Cardinality(T) <= n
  <1>1. IsFiniteSet(S)
    BY ServersAssumption, FS_Subset
  <1>2. IsFiniteSet(T) /\ Cardinality(T) <= Cardinality(S)
    BY <1>1, FS_Subset
  <1>3. Cardinality(S) \in Nat /\ Cardinality(T) \in Nat
    BY <1>1, <1>2, FS_CardinalityType
  <1> QED
    BY <1>2, <1>3

\* At the start nobody claims a slot.
LEMMA LimitInit == Init => LimitInv
  <1> SUFFICES ASSUME Init PROVE LimitInv
    OBVIOUS
  <1>1. ASSUME NEW s \in Servers PROVE ~Claims(s)
    <2>1. gs[s] = NoServer /\ gsCache[s] = NoServer /\ pod[s] = NoPod /\ worker[s] = Idle
      BY DEF Init
    <2>2. NoServer.state \notin ActiveStates /\ ~NoPod.own
      BY DEF NoServer, NoPod, ActiveStates
    <2> QED
      BY <2>1, <2>2, IdlePc DEF Claims, Busy
  <1>2. Claimants = {} /\ \A u \in Users : OwnClaimants(u) = {}
    BY <1>1 DEF Claimants, OwnClaimants
  <1>3. Cardinality({}) = 0
    BY FS_EmptySet
  <1> QED
    BY <1>2, <1>3, LimitsAssumption DEF LimitInv

\* A step that makes no claim keeps the limits.
LEMMA FewerClaims ==
    ASSUME LimitInv, \A x \in Servers : Claims(x)' => Claims(x)
    PROVE  LimitInv'
  <1>1. Claimants' \subseteq Claimants /\ Claimants \subseteq Servers
    BY DEF Claimants
  <1>2. Cardinality(Claimants') <= MaxServersGlobal
    BY <1>1, SmallerSets, LimitsAssumption DEF LimitInv
  <1>3. ASSUME NEW u \in Users PROVE Cardinality(OwnClaimants(u)') <= MaxServersPerUser
    <2>1. OwnClaimants(u)' \subseteq OwnClaimants(u) /\ OwnClaimants(u) \subseteq Servers
      BY <1>1 DEF OwnClaimants
    <2> QED
      BY <2>1, SmallerSets, LimitsAssumption DEF LimitInv
  <1> QED
    BY <1>2, <1>3 DEF LimitInv

\* The admission of s: the cache lists s and everyone who claims a slot, and is
\* found to be within the limits.
LEMMA AdmissionKeepsLimits ==
    ASSUME IInv, LimitInv, NEW s \in Servers, Admits(s),
           \A x \in Servers \ {s} : Claims(x)' => Claims(x)
    PROVE  LimitInv'
  <1>0. TypeOK /\ ServerInv(s)
    BY DEF IInv
  <1>1. Busy(s) /\ snap(s).fin /\ ~snap(s).del
    BY DEF Admits, ReconcileCreating, InState, Busy
  <1>2. s \in ListedServers
    BY <1>0, <1>1, WorkerFacts DEF ListedServers
  <1>3. Claimants' \subseteq Claimants \cup {s}
    BY DEF Claimants
  <1>4. Claimants' \subseteq ListedServers /\ ListedServers \subseteq Servers
    BY <1>2, <1>3, ClaimantsListed DEF ListedServers
  <1>5. /\ ~(Cardinality(ListedServers) > MaxServersGlobal)
        /\ ~(Cardinality(ListedInNamespace(OwnerLabel[s])) > MaxServersPerUser)
    BY DEF Admits, Rejected
  <1>c. ASSUME NEW S \in SUBSET Servers PROVE Cardinality(S) \in Nat
    BY ServersAssumption, FS_Subset, FS_CardinalityType
  <1>6. Cardinality(Claimants') <= MaxServersGlobal
    <2>1. Cardinality(ListedServers) <= MaxServersGlobal
      BY <1>4, <1>5, <1>c, LimitsAssumption
    <2> QED
      BY <1>4, <2>1, SmallerSets, LimitsAssumption
  <1>7. ASSUME NEW u \in Users PROVE Cardinality(OwnClaimants(u)') <= MaxServersPerUser
    <2>1. CASE OwnerLabel[s] = u
      <3>1. ListedInNamespace(u) \in SUBSET Servers
        BY DEF ListedInNamespace, ListedServers
      <3>2. OwnClaimants(u)' \subseteq ListedInNamespace(u)
        BY <1>4 DEF OwnClaimants, ListedInNamespace
      <3>3. Cardinality(ListedInNamespace(u)) <= MaxServersPerUser
        BY <1>5, <1>c, <2>1, <3>1, LimitsAssumption
      <3> QED
        BY <3>1, <3>2, <3>3, SmallerSets, LimitsAssumption
    <2>2. CASE OwnerLabel[s] # u
      <3>1. OwnClaimants(u)' \subseteq OwnClaimants(u) /\ OwnClaimants(u) \subseteq Servers
        BY <1>3, <2>2 DEF OwnClaimants, Claimants
      <3> QED
        BY <3>1, SmallerSets, LimitsAssumption DEF LimitInv
    <2> QED
      BY <2>1, <2>2
  <1> QED
    BY <1>6, <1>7 DEF LimitInv

\* Every step keeps the limits.
LEMMA LimitStep == IInv /\ LimitInv /\ [Next]_vars => LimitInv'
  <1> SUFFICES ASSUME IInv, LimitInv, [Next]_vars PROVE LimitInv'
    OBVIOUS
  <1>0. TypeOK /\ \A s \in Servers : ServerInv(s)
    BY DEF IInv
  <1>1. ASSUME NEW s \in Servers,
               ControllerStep(s) \/ UserStep(s) \/ EndExec(s) \/ EnvironmentStep(s)
        PROVE  LimitInv'
    <2>1. ASSUME NEW x \in Servers \ {s}, Claims(x)' PROVE Claims(x)
      BY <1>0, <1>1, <2>1, Frame, SameAtClaims
    <2>2. CASE Admits(s)
      BY <2>1, <2>2, AdmissionKeepsLimits
    <2>3. CASE ~Admits(s)
      <3>1. Claims(s)' => Claims(s)
        BY <1>0, <1>1, <2>3, StepClaims
      <3> QED
        BY <2>1, <3>1, FewerClaims
    <2> QED
      BY <2>2, <2>3
  <1>2. CASE Tick
    BY <1>0, <1>2, TickClaims, FewerClaims
  <1>3. CASE Crash
    BY <1>0, <1>3, CrashClaims, FewerClaims
  <1>4. CASE UNCHANGED vars
    <2>1. \A x \in Servers : SameAt(x)
      BY <1>4 DEF vars, controllerVars, SameAt
    <2> QED
      BY <2>1, SameAtClaims, FewerClaims
  <1> QED
    BY <1>1, <1>2, <1>3, <1>4 DEF Next

\* The admin's limits hold in every reachable state, for any set of servers,
\* any number of workers and however far the caches lag: no interleaving of the
\* admission checks lets one server too many through.
THEOREM LimitsRespected == Spec => []LimitRespected
  <1>1. IInv /\ LimitInv => LimitRespected
    <2> SUFFICES ASSUME IInv, LimitInv PROVE LimitRespected
      OBVIOUS
    <2>1. Occupying \subseteq Claimants /\ Claimants \subseteq Servers
      BY DEF Occupying, Claimants, Claims
    <2>2. Cardinality(Occupying) <= MaxServersGlobal
      BY <2>1, SmallerSets, LimitsAssumption DEF LimitInv
    <2>3. ASSUME NEW u \in Users
          PROVE  Cardinality({s \in Occupying : NamespaceUser[s] = u /\ OwnerLabel[s] = u})
                   <= MaxServersPerUser
      <3> DEFINE own == {s \in Occupying : NamespaceUser[s] = u /\ OwnerLabel[s] = u}
      <3>1. own \subseteq OwnClaimants(u) /\ OwnClaimants(u) \subseteq Servers
        BY <2>1 DEF OwnClaimants
      <3> HIDE DEF own
      <3>2. Cardinality(own) <= MaxServersPerUser
        BY <3>1, SmallerSets, LimitsAssumption DEF LimitInv
      <3> QED
        BY <3>2 DEF own
    <2> QED
      BY <2>2, <2>3 DEF LimitRespected
  <1> QED
    BY <1>1, Invariance, LimitInit, LimitStep, PTL DEF Spec

-----------------------------------------------------------------------------
(***************************************************************************)
(* The conditions, as long as no reconcile has read an outdated state.     *)
(***************************************************************************)
\* What ConditionsAgree says of one server.
Agreed(s) ==
    /\ gs[s].state \in {"Ready", "Allocated"} =>
           gs[s].ready /\ gs[s].prog = "False"
    /\ gs[s].state = "Starting" => ~gs[s].ready /\ gs[s].prog # "False"
    /\ gs[s].state = "Error" =>
           gs[s].degr /\ ~gs[s].ready /\ gs[s].prog = "False"

\* While a worker is busy only users change the state, to Creating or Shutdown
\* (or to nothing, with a new object), and they leave the conditions of the state
\* the worker has seen.
CopyFollowed(s) ==
    Busy(s) =>
        /\ gs[s].state \in {snap(s).state, "Creating", "Shutdown", ""}
        /\ snap(s).state \in {"Ready", "Allocated"} => gs[s].prog = "False"

\* The worker is at a condition update only in the state it belongs to.
StepFits(s) ==
    /\ worker[s].pc = "ready" => snap(s).state \in {"Ready", "Allocated"}
    /\ worker[s].pc = "condition" => snap(s).state \in {"Shutdown", "Error"}

ConditionInv(s) == Agreed(s) /\ CopyFollowed(s) /\ StepFits(s)

\* Where nothing changes, the conditions agree as before.
LEMMA SameAtAgrees ==
    ASSUME NEW x \in Servers, ConditionInv(x),
           gs'[x] = gs[x], worker'[x] = worker[x]
    PROVE  ConditionInv(x)'
  BY DEF ConditionInv, Agreed, CopyFollowed, StepFits, Busy, snap

\* The end of a reconcile that wrote nothing.
LEMMA ReturnAgrees ==
    ASSUME TypeOK, NEW s \in Servers, ConditionInv(s), NEW requeue,
           Return(s, requeue), UNCHANGED gs
    PROVE  ConditionInv(s)'
  <1>1. worker'[s].pc = "idle"
    BY ReturnAt, IdlePc
  <1> QED
    BY <1>1 DEF ConditionInv, Agreed, CopyFollowed, StepFits, Busy

\* The end of a reconcile that wrote an object whose conditions agree.
LEMMA WriteAgrees ==
    ASSUME TypeOK, NEW s \in Servers, NEW new, NEW requeue,
           WriteGS(s, new, FALSE), Return(s, requeue),
           new.state \in {"Ready", "Allocated"} => new.ready /\ new.prog = "False",
           new.state = "Starting" => ~new.ready /\ new.prog # "False",
           new.state = "Error" => new.degr /\ ~new.ready /\ new.prog = "False"
    PROVE  ConditionInv(s)'
  <1>1. worker'[s].pc = "idle"
    BY ReturnAt, IdlePc
  <1>2. gs'[s] = new
    BY WriteGSAt
  <1> QED
    BY <1>1, <1>2 DEF ConditionInv, Agreed, CopyFollowed, StepFits, Busy

\* A worker that goes on with its copy.
LEMMA MoveAgrees ==
    ASSUME NEW s \in Servers, ConditionInv(s), Busy(s), UNCHANGED gs,
           worker'[s].snap = worker[s].snap,
           worker'[s].pc = "ready" => snap(s).state \in {"Ready", "Allocated"},
           worker'[s].pc = "condition" => snap(s).state \in {"Shutdown", "Error"}
    PROVE  ConditionInv(s)'
  BY DEF ConditionInv, Agreed, CopyFollowed, StepFits, Busy, snap

\* A write by someone else: the state the object has, with its conditions, or
\* one that the handlers write, with the conditions of the state before or none.
LEMMA UserWriteAgrees ==
    ASSUME NEW s \in Servers, ConditionInv(s), UNCHANGED worker,
           \/ /\ gs'[s].state = gs[s].state /\ gs'[s].ready = gs[s].ready
              /\ gs'[s].degr = gs[s].degr /\ gs'[s].prog = gs[s].prog
           \/ /\ gs'[s].state \in {"Creating", "Shutdown", ""}
              /\ gs'[s].prog = gs[s].prog \/ gs'[s].prog = "False"
    PROVE  ConditionInv(s)'
  BY DEF ConditionInv, Agreed, CopyFollowed, StepFits, Busy, snap

\* The conditions transitionState writes agree with the state it writes: those
\* of Allocated because it comes from Ready, where Progressing is False.
LEMMA EnteredAgrees ==
    ASSUME NEW o \in GameServerObjects, NEW to \in GameServerStates,
           to = "Allocated" => o.prog = "False"
    PROVE  LET new == Entered(o, to)
           IN  /\ new.state \in {"Ready", "Allocated"} =>
                      new.ready /\ new.prog = "False"
               /\ new.state = "Starting" => ~new.ready /\ new.prog # "False"
               /\ new.state = "Error" =>
                      new.degr /\ ~new.ready /\ new.prog = "False"
  <1>1. CASE to \in {"Creating", "Starting"}
    BY <1>1 DEF Entered, SetProgressing, GameServerObjects
  <1>2. CASE to \in {"Ready", "Shutdown"}
    BY <1>2 DEF Entered, GameServerObjects
  <1>3. CASE to = "Allocated"
    BY <1>3 DEF Entered, GameServerObjects
  <1>4. CASE to = "Error"
    BY <1>4 DEF Entered, GameServerObjects
  <1> QED
    BY <1>1, <1>2, <1>3, <1>4 DEF GameServerStates

\* Allocated is entered from Ready only.
LEMMA AllocatedFromReady ==
    ASSUME NEW from, IsValidTransition(from, "Allocated")
    PROVE  from = "Ready"
  BY DEF IsValidTransition, ValidTransitions

\* The steps of a reconcile that write.
LEMMA WritesAgree ==
    ASSUME TypeOK, NEW s \in Servers, ServerInv(s), ConditionInv(s),
           \/ RemoveFinalizer(s) \/ AddFinalizer(s) \/ InitializeState(s)
           \/ TransitionState(s) \/ UpdateReadyStatus(s) \/ UpdateCondition(s)
    PROVE  ConditionInv(s)'
  <1>w. /\ snap(s) \in GameServerObjects /\ gsCache[s] \in GameServerObjects
        /\ gs[s] \in GameServerObjects
    BY DEF TypeOK, Workers, snap
  <1>c. CanUpdateFresh(s) => gsCache[s] = gs[s]
    BY DEF CanUpdateFresh, ServerInv, VersionsAgree
  <1>1. CASE RemoveFinalizer(s)
    <2>1. Return(s, ~snapFresh[s])
      BY <1>1 DEF RemoveFinalizer
    <2>2. CASE snapFresh[s]
      <3>1. gs'[s] = NoServer
        BY <1>1, <2>2, RemoveGSAt DEF RemoveFinalizer
      <3>2. worker'[s].pc = "idle" /\ NoServer.state = ""
        BY <2>1, ReturnAt, IdlePc DEF NoServer
      <3> QED
        BY <3>1, <3>2 DEF ConditionInv, Agreed, CopyFollowed, StepFits, Busy
    <2>3. CASE ~snapFresh[s]
      BY <1>1, <2>1, <2>3, ReturnAgrees DEF RemoveFinalizer
    <2> QED
      BY <2>2, <2>3
  <1>2. CASE AddFinalizer(s)
    <2> DEFINE new == [snap(s) EXCEPT !.fin = TRUE]
    <2>1. Return(s, TRUE) /\ UpdateSnapshot(s, new) /\ Busy(s)
      BY <1>2 DEF AddFinalizer, Busy
    <2>2. /\ new.state = snap(s).state /\ new.ready = snap(s).ready
          /\ new.degr = snap(s).degr /\ new.prog = snap(s).prog
      BY <1>w DEF GameServerObjects
    <2> HIDE DEF new
    <2>3. CASE snapFresh[s]
      <3>1. WriteGS(s, new, FALSE) /\ gs[s] = snap(s)
        BY <2>1, <2>3, WorkerFacts DEF UpdateSnapshot
      <3>2. /\ new.state \in {"Ready", "Allocated"} => new.ready /\ new.prog = "False"
            /\ new.state = "Starting" => ~new.ready /\ new.prog # "False"
            /\ new.state = "Error" => new.degr /\ ~new.ready /\ new.prog = "False"
        BY <2>2, <3>1 DEF ConditionInv, Agreed
      <3> QED
        BY <2>1, <3>1, <3>2, WriteAgrees
    <2>4. CASE ~snapFresh[s]
      BY <2>1, <2>4, ReturnAgrees DEF UpdateSnapshot
    <2> QED
      BY <2>3, <2>4
  <1>3. CASE InitializeState(s)
    <2> DEFINE new == [snap(s) EXCEPT !.state = "Creating", !.prog = SetProgressing(@),
                                      !.ready = FALSE]
    <2>1. Return(s, TRUE) /\ UpdateSnapshot(s, new)
      BY <1>3 DEF InitializeState
    <2>2. new.state = "Creating"
      BY <1>w DEF GameServerObjects
    <2> HIDE DEF new
    <2>3. CASE snapFresh[s]
      BY <2>1, <2>2, <2>3, WriteAgrees DEF UpdateSnapshot
    <2>4. CASE ~snapFresh[s]
      BY <2>1, <2>4, ReturnAgrees DEF UpdateSnapshot
    <2> QED
      BY <2>3, <2>4
  <1>4. CASE TransitionState(s)
    <2>1. Return(s, TRUE) /\ Busy(s)
      BY <1>4 DEF TransitionState, Busy
    <2>2. CASE IsValidTransition(snap(s).state, worker[s].to) /\ CanUpdateFresh(s)
      <3> DEFINE new == Entered(gsCache[s], worker[s].to)
      <3>1. WriteGS(s, new, FALSE)
        BY <1>4, <2>2 DEF TransitionState
      <3>2. worker[s].to \in GameServerStates
        BY <2>2, ValidTarget
      <3>3. worker[s].to = "Allocated" => gsCache[s].prog = "False"
        <4> SUFFICES ASSUME worker[s].to = "Allocated" PROVE gsCache[s].prog = "False"
          OBVIOUS
        <4>1. snap(s).state = "Ready"
          BY <2>2, AllocatedFromReady
        <4> QED
          BY <1>c, <2>1, <2>2, <4>1 DEF ConditionInv, CopyFollowed
      <3>4. /\ new.state \in {"Ready", "Allocated"} => new.ready /\ new.prog = "False"
            /\ new.state = "Starting" => ~new.ready /\ new.prog # "False"
            /\ new.state = "Error" => new.degr /\ ~new.ready /\ new.prog = "False"
        BY <1>w, <3>2, <3>3, EnteredAgrees
      <3> HIDE DEF new
      <3> QED
        BY <2>1, <3>1, <3>4, WriteAgrees
    <2>3. CASE ~(IsValidTransition(snap(s).state, worker[s].to) /\ CanUpdateFresh(s))
      BY <1>4, <2>1, <2>3, ReturnAgrees DEF TransitionState
    <2> QED
      BY <2>2, <2>3
  <1>5. CASE UpdateReadyStatus(s)
    <2> DEFINE new == [gsCache[s] EXCEPT !.addr = TRUE, !.ready = TRUE, !.prog = "False"]
    <2>1. UpdateFresh(s, new) /\ Busy(s) /\ worker[s].pc = "ready"
      BY <1>5 DEF UpdateReadyStatus, Busy
    <2>2. new.state = gsCache[s].state /\ new.ready /\ new.prog = "False"
      BY <1>w DEF GameServerObjects
    <2> HIDE DEF new
    <2>3. CASE CanUpdateFresh(s)
      <3>1. new.state \in {"Ready", "Allocated", "Creating", "Shutdown", ""}
        BY <1>c, <2>1, <2>2, <2>3 DEF ConditionInv, CopyFollowed, StepFits
      <3>2. WriteGS(s, new, FALSE) /\ Return(s, ~CanUpdateFresh(s))
        BY <2>1, <2>3 DEF UpdateFresh
      <3> QED
        BY <2>2, <3>1, <3>2, WriteAgrees
    <2>4. CASE ~CanUpdateFresh(s)
      BY <2>1, <2>4, ReturnAgrees DEF UpdateFresh
    <2> QED
      BY <2>3, <2>4
  <1>6. CASE UpdateCondition(s)
    <2> DEFINE new == IF snap(s).state = "Shutdown"
                      THEN [gsCache[s] EXCEPT !.ready = FALSE]
                      ELSE [gsCache[s] EXCEPT !.degr = TRUE]
    <2>1. UpdateFresh(s, new) /\ Busy(s) /\ worker[s].pc = "condition"
      BY <1>6 DEF UpdateCondition, Busy
    <2>2. /\ new.state = gsCache[s].state /\ new.prog = gsCache[s].prog
          /\ snap(s).state # "Shutdown" => new.degr /\ new.ready = gsCache[s].ready
      BY <1>w DEF GameServerObjects
    <2> HIDE DEF new
    <2>3. CASE CanUpdateFresh(s)
      <3>1. WriteGS(s, new, FALSE) /\ Return(s, ~CanUpdateFresh(s))
        BY <2>1, <2>3 DEF UpdateFresh
      <3>2. CASE snap(s).state = "Shutdown"
        <4>1. new.state \in {"Creating", "Shutdown", ""}
          BY <1>c, <2>1, <2>2, <2>3, <3>2 DEF ConditionInv, CopyFollowed
        <4> QED
          BY <3>1, <4>1, WriteAgrees
      <3>3. CASE snap(s).state # "Shutdown"
        <4>1. /\ new.state \in {"Ready", "Allocated"} => new.ready /\ new.prog = "False"
              /\ new.state = "Starting" => ~new.ready /\ new.prog # "False"
              /\ new.state = "Error" => new.degr /\ ~new.ready /\ new.prog = "False"
          BY <1>c, <2>2, <2>3, <3>3 DEF ConditionInv, Agreed
        <4> QED
          BY <3>1, <4>1, WriteAgrees
      <3> QED
        BY <3>2, <3>3
    <2>4. CASE ~CanUpdateFresh(s)
      BY <2>1, <2>4, ReturnAgrees DEF UpdateFresh
    <2> QED
      BY <2>3, <2>4
  <1> QED
    BY <1>1, <1>2, <1>3, <1>4, <1>5, <1>6

\* The steps of a reconcile that only decide what to do next.
LEMMA MovesAgree ==
    ASSUME TypeOK, NEW s \in Servers, ConditionInv(s),
           \/ HandleDeletion(s) \/ ReconcileCreating(s) \/ ReconcilePod(s)
           \/ ReconcileStarting(s) \/ ReconcileReady(s) \/ ReconcileAllocated(s)
           \/ ReconcileShutdown(s) \/ ReconcileError(s)
    PROVE  ConditionInv(s)'
  <1>0. Busy(s) /\ UNCHANGED gs
    BY DEF Busy, InState, storeVars, HandleDeletion, ReconcileCreating, ReconcilePod,
           ReconcileStarting, ReconcileReady, ReconcileAllocated, ReconcileShutdown,
           ReconcileError
  <1>r. ASSUME NEW requeue, Return(s, requeue) PROVE ConditionInv(s)'
    BY <1>0, <1>r, ReturnAgrees
  <1>t. ASSUME NEW to, Transition(s, to) PROVE ConditionInv(s)'
    BY <1>0, <1>t, TransitionAt, MoveAgrees
  <1>g. ASSUME NEW pc \in {"finalize", "pod"}, Goto(s, pc) PROVE ConditionInv(s)'
    BY <1>0, <1>g, GotoAt, MoveAgrees
  <1>1. CASE HandleDeletion(s)
    BY <1>1, <1>r, <1>g DEF HandleDeletion
  <1>2. CASE ReconcileCreating(s)
    BY <1>2, <1>t, <1>g DEF ReconcileCreating
  <1>3. CASE ReconcilePod(s)
    BY <1>3, <1>t, <1>r DEF ReconcilePod
  <1>4. CASE ReconcileStarting(s)
    BY <1>4, <1>t, <1>r DEF ReconcileStarting
  <1>5. CASE ReconcileReady(s)
    <2>1. CASE Goto(s, "ready")
      <3>1. snap(s).state = "Ready"
        BY <1>5 DEF ReconcileReady, InState
      <3>2. worker'[s].pc = "ready" /\ worker'[s].snap = worker[s].snap
        BY <2>1, GotoAt
      <3> QED
        BY <1>0, <3>1, <3>2, MoveAgrees
    <2>2. Transition(s, "Error") \/ Transition(s, "Allocated") \/ Goto(s, "ready")
      BY <1>5 DEF ReconcileReady
    <2> QED
      BY <1>t, <2>1, <2>2
  <1>6. CASE ReconcileAllocated(s)
    BY <1>6, <1>t, <1>r DEF ReconcileAllocated
  <1>7. CASE ReconcileShutdown(s) \/ ReconcileError(s)
    <2>1. snap(s).state \in {"Shutdown", "Error"} /\ Goto(s, "condition")
      BY <1>7 DEF ReconcileShutdown, ReconcileError, InState
    <2>2. worker'[s].pc = "condition" /\ worker'[s].snap = worker[s].snap
      BY <2>1, GotoAt
    <2> QED
      BY <1>0, <2>1, <2>2, MoveAgrees
  <1> QED
    BY <1>1, <1>2, <1>3, <1>4, <1>5, <1>6, <1>7

\* The operator's goroutines.  A reconcile that begins has to read the state the
\* server has; the rest of its copy may be outdated.
LEMMA ControllerAgrees ==
    ASSUME TypeOK, NEW s \in Servers, ServerInv(s), ConditionInv(s),
           ControllerStep(s),
           Begins(s) => worker'[s].snap.state = gs[s].state
    PROVE  ConditionInv(s)'
  <1>1. CASE Reconcile(s)
    BY <1>1, WritesAgree, MovesAgree DEF Reconcile
  <1>2. CASE ReconcileGet(s)
    <2>1. CASE gsCache[s].exists
      <3>1. worker'[s].snap.state = gs[s].state /\ worker'[s].pc = "dispatch"
        <4> DEFINE w == [pc |-> "dispatch", snap |-> gsCache[s], to |-> ""]
        <4>1. worker'[s] = w
          BY <1>2, <2>1 DEF ReconcileGet, TypeOK
        <4>2. w.pc = "dispatch"
          OBVIOUS
        <4> HIDE DEF w
        <4>3. worker[s].pc = "idle"
          BY <1>2 DEF ReconcileGet, Busy
        <4> QED
          BY <4>1, <4>2, <4>3 DEF Begins
      <3>2. gs' = gs
        BY <1>2 DEF ReconcileGet, storeVars
      <3> QED
        BY <3>1, <3>2 DEF ConditionInv, Agreed, CopyFollowed, StepFits, Busy, snap
    <2>2. CASE ~gsCache[s].exists
      BY <1>2, <2>2, SameAtAgrees DEF ReconcileGet, storeVars
    <2> QED
      BY <2>1, <2>2
  <1>3. CASE ReconcileFails(s)
    BY <1>3, ReturnAgrees DEF ReconcileFails, storeVars
  <1>4. CASE SyncGS(s) \/ SyncPod(s) \/ TimerFires(s)
    BY <1>4, SameAtAgrees DEF SyncGS, SyncPod, TimerFires, storeVars
  <1> QED
    BY <1>1, <1>2, <1>3, <1>4 DEF ControllerStep

\* The handlers write no condition.
LEMMA UserAgrees ==
    ASSUME TypeOK, NEW s \in Servers, ConditionInv(s), UserStep(s) \/ EndExec(s)
    PROVE  ConditionInv(s)'
  <1>0. gs[s] \in GameServerObjects
    BY DEF TypeOK
  <1>n. /\ NoServer.state = "" /\ NoServer.prog = "False"
        /\ NewServer.state = "" /\ NewServer.prog = "False"
    BY DEF NoServer, NewServer
  <1>s. ASSUME NEW state \in {"Creating", "Shutdown"}, SetState(s, state)
        PROVE  ConditionInv(s)'
    <2> DEFINE new == [gs[s] EXCEPT !.state = state]
    <2>1. UserWrite(s, new, FALSE) /\ UNCHANGED worker
      BY <1>s DEF SetState
    <2>2. new.state = state /\ new.prog = gs[s].prog
      BY <1>0 DEF GameServerObjects
    <2> HIDE DEF new
    <2>3. gs'[s] = new
      BY <2>1, UserWriteAt
    <2> QED
      BY <2>1, <2>2, <2>3, UserWriteAgrees
  <1>1. CASE CreateGameServer(s)
    <2>1. gs'[s] = NewServer /\ UNCHANGED worker
      BY <1>1, UserWriteAt DEF CreateGameServer
    <2> QED
      BY <1>n, <2>1, UserWriteAgrees
  <1>2. CASE UpdateGameServer(s)
    <2>1. gs'[s] = gs[s] /\ UNCHANGED worker
      BY <1>2, UserWriteAt DEF UpdateGameServer
    <2> QED
      BY <2>1, SameAtAgrees
  <1>3. CASE DeleteGameServer(s)
    <2>1. UNCHANGED worker
      BY <1>3 DEF DeleteGameServer
    <2>2. CASE gs[s].fin
      <3> DEFINE new == [gs[s] EXCEPT !.del = TRUE]
      <3>1. WriteGS(s, new, TRUE)
        BY <1>3, <2>2 DEF DeleteGameServer
      <3>2. /\ new.state = gs[s].state /\ new.ready = gs[s].ready
            /\ new.degr = gs[s].degr /\ new.prog = gs[s].prog
        BY <1>0 DEF GameServerObjects
      <3> HIDE DEF new
      <3>3. gs'[s] = new
        BY <3>1, WriteGSAt
      <3> QED
        BY <2>1, <3>2, <3>3, UserWriteAgrees
    <2>3. CASE ~gs[s].fin
      <3>1. gs'[s] = NoServer
        BY <1>3, <2>3, RemoveGSAt DEF DeleteGameServer
      <3> QED
        BY <1>n, <2>1, <3>1, UserWriteAgrees
    <2> QED
      BY <2>2, <2>3
  <1>4. CASE StartGameServer(s) \/ StopGameServer(s) \/ RestartGameServer(s)
    BY <1>4, <1>s DEF StartGameServer, StopGameServer, RestartGameServer
  <1>5. CASE BeginExec(s)
    BY <1>5, SameAtAgrees DEF BeginExec, controllerVars
  <1>6. CASE EndExec(s)
    <2>1. CASE UNCHANGED controllerVars
      BY <2>1, SameAtAgrees DEF controllerVars
    <2> QED
      BY <1>6, <1>s, <2>1 DEF EndExec
  <1>7. CASE ToggleAllocated(s)
    <2> DEFINE new == [gs[s] EXCEPT !.alloc = ~@]
    <2>1. UserWrite(s, new, TRUE) /\ UNCHANGED worker
      BY <1>7 DEF ToggleAllocated
    <2>2. /\ new.state = gs[s].state /\ new.ready = gs[s].ready
          /\ new.degr = gs[s].degr /\ new.prog = gs[s].prog
      BY <1>0 DEF GameServerObjects
    <2> HIDE DEF new
    <2>3. gs'[s] = new
      BY <2>1, UserWriteAt
    <2> QED
      BY <2>1, <2>2, <2>3, UserWriteAgrees
  <1> QED
    BY <1>1, <1>2, <1>3, <1>4, <1>5, <1>6, <1>7 DEF UserStep

\* Time ages a condition, it neither sets nor clears one.
LEMMA TickAgrees ==
    ASSUME TypeOK, NEW s \in Servers, ConditionInv(s), Tick
    PROVE  ConditionInv(s)'
  <1>0. gs[s] \in GameServerObjects /\ snap(s) \in GameServerObjects
    BY DEF TypeOK, Workers, snap
  <1>1. gs'[s] = Aged(gs[s])
    BY DEF Tick
  <1>2. worker'[s].pc = worker[s].pc /\ worker'[s].snap = Aged(snap(s))
    <2>1. worker'[s] = [worker[s] EXCEPT !.snap = Aged(@)]
      BY DEF Tick
    <2>2. worker[s] \in Workers
      BY DEF TypeOK
    <2> QED
      BY <2>1, <2>2 DEF Workers, snap
  <1>3. /\ gs'[s].state = gs[s].state /\ gs'[s].ready = gs[s].ready
        /\ gs'[s].degr = gs[s].degr
        /\ gs'[s].prog = "False" <=> gs[s].prog = "False"
    BY <1>0, <1>1, AgedFields
  <1>4. worker'[s].snap.state = snap(s).state
    BY <1>0, <1>2, AgedFields
  <1> QED
    BY <1>2, <1>3, <1>4 DEF ConditionInv, Agreed, CopyFollowed, StepFits, Busy, snap

\* Every step keeps the conditions of a server in agreement, unless it begins a
\* reconcile with an outdated state.
LEMMA ConditionStep ==
    ASSUME IInv, [Next]_vars, NEW x \in Servers, ConditionInv(x),
           Begins(x) => worker'[x].snap.state = gs[x].state
    PROVE  ConditionInv(x)'
  <1>0. TypeOK /\ ServerInv(x)
    BY DEF IInv
  <1>1. ASSUME NEW s \in Servers,
               ControllerStep(s) \/ UserStep(s) \/ EndExec(s) \/ EnvironmentStep(s)
        PROVE  ConditionInv(x)'
    <2>1. CASE x # s
      BY <1>0, <1>1, <2>1, Frame, SameAtAgrees DEF SameAt
    <2>2. CASE x = s /\ EnvironmentStep(s)
      BY <1>0, <2>2, SameAtAgrees
      DEF EnvironmentStep, PodProgresses, PodFaults, PodGone, CollectGarbage, podOnly,
          storeVars
    <2>3. CASE x = s /\ ~EnvironmentStep(s)
      BY <1>0, <1>1, <2>3, ControllerAgrees, UserAgrees
    <2> QED
      BY <2>1, <2>2, <2>3
  <1>2. CASE Tick
    BY <1>0, <1>2, TickAgrees
  <1>3. CASE Crash
    <2>1. gs'[x] = gs[x] /\ worker'[x].pc = "idle"
      BY <1>3, IdlePc DEF Crash
    <2> QED
      BY <1>0, <2>1 DEF ConditionInv, Agreed, CopyFollowed, StepFits, Busy
  <1>4. CASE UNCHANGED vars
    BY <1>0, <1>4, SameAtAgrees DEF vars, controllerVars
  <1> QED
    BY <1>1, <1>2, <1>3, <1>4 DEF Next

\* The steps with the history are steps of the system, and a history without an
\* outdated read has none in the last step either.
LEMMA HistoryStep ==
    ASSUME [HistoryNext]_historyVars
    PROVE  /\ [Next]_vars
           /\ \A x \in Servers : misread'[x] = "never" =>
                  /\ misread[x] = "never"
                  /\ Begins(x) => worker'[x].snap.state = gs[x].state
  <1>1. CASE UNCHANGED historyVars
    BY <1>1 DEF historyVars, vars, controllerVars, Begins
  <1>2. CASE HistoryNext
    BY <1>2 DEF HistoryNext, RecordReads, NotLast
  <1> QED
    BY <1>1, <1>2

\* As long as no reconcile of a server has read an outdated state, the server's
\* conditions agree with the state the operator wrote, for any set of servers and
\* whatever else in the caches is outdated: users change the state under a
\* running reconcile, and what transitionState, updateReadyStatus and
\* refreshAndUpdateCondition then write still fits.
THEOREM ConditionsFollowState == HistorySpec => []ConditionsAgree
  <1> DEFINE Inv == \A s \in Servers : misread[s] = "never" => ConditionInv(s)
  <1>1. Init => Inv
    <2> SUFFICES ASSUME Init, NEW s \in Servers PROVE ConditionInv(s)
      OBVIOUS
    <2>1. gs[s].state = "" /\ worker[s].pc = "idle"
      BY IdlePc DEF Init, NoServer
    <2> QED
      BY <2>1 DEF ConditionInv, Agreed, CopyFollowed, StepFits, Busy
  <1>2. IInv /\ Inv /\ [HistoryNext]_historyVars => Inv'
    <2> SUFFICES ASSUME IInv, Inv, [HistoryNext]_historyVars,
                        NEW x \in Servers, misread'[x] = "never"
                 PROVE  ConditionInv(x)'
      OBVIOUS
    <2> QED
      BY HistoryStep, ConditionStep
  <1>3. [HistoryNext]_historyVars => [Next]_vars
    BY HistoryStep
  <1>4. HistoryInit => Init
    BY DEF HistoryInit
  <1>5. HistorySpec => Spec
    BY <1>3, <1>4, PTL DEF HistorySpec, Spec
  <1>6. Inv => ConditionsAgree
    BY DEF ConditionInv, Agreed, ConditionsAgree
  <1> QED
    BY <1>1, <1>2, <1>4, <1>5, <1>6, Invariance, PTL DEF HistorySpec

=============================================================================
