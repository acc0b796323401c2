----------------------------- MODULE DnsProofs -----------------------------
(***************************************************************************)
(* Theorems about Dns for any base domains, any number of servers of one   *)
(* name and any bounds on changes, faults and crashes.                     *)
(***************************************************************************)
EXTENDS Dns, TLAPS

-----------------------------------------------------------------------------
(***************************************************************************)
(* The inductive invariant.                                                *)
(***************************************************************************)
Budgets == [states : 0..MaxStates, reports : 0..MaxReports,
            domains : 0..MaxDomains, faults : 0..MaxFaults,
            crashes : 0..MaxCrashes]

\* A copy the API server would accept an update of is the newest one.
FreshCopies ==
    /\ gsFresh => gsCache = gs
    /\ \A k \in Kinds : netFresh[k] => netCache[k] = net[k]

IInv == TypeOK /\ used \in Budgets /\ FreshCopies

-----------------------------------------------------------------------------
(***************************************************************************)
(* Operators.                                                              *)
(***************************************************************************)
\* What the proofs use of the bounds.
LEMMA BoundsType ==
    /\ MaxServers \in Nat /\ 0 \in 0..MaxServers /\ 1 \in 1..MaxServers
    /\ MaxStates \in Nat /\ MaxReports \in Nat /\ MaxDomains \in Nat
    /\ MaxFaults \in Nat /\ MaxCrashes \in Nat
    /\ 0 \in 0..MaxStates /\ 0 \in 0..MaxReports /\ 0 \in 0..MaxDomains
    /\ 0 \in 0..MaxFaults /\ 0 \in 0..MaxCrashes
  <1>1. /\ MaxServers \in Nat \ {0}
        /\ {MaxStates, MaxReports, MaxDomains, MaxFaults, MaxCrashes, MaxEvents}
             \subseteq Nat
    BY DnsAssumption, Zenon
  <1> QED
    BY <1>1

\* The server that is created next has a new uid.
LEMMA NextUid ==
    ASSUME NEW uid \in 1..MaxServers, uid < MaxServers
    PROVE  uid + 1 \in 1..MaxServers
  <1>1. MaxServers \in Nat
    BY BoundsType
  <1> QED
    BY <1>1

WorkerStates == [pc : Steps, uid : 0..MaxServers, clear : BOOLEAN,
                 seen : Domains \cup {""}]

\* The worker between two reconciles, or failing in one.
LEMMA RestingType ==
    ASSUME NEW seen \in Domains \cup {""}
    PROVE  Resting(seen) \in WorkerStates /\ Resting(seen).pc = "idle"
  BY BoundsType DEF Resting, At, WorkerStates, Steps

\* The bounds stay bounds: what is counted within Budgets is of its type.
LEMMA BudgetsType ==
    ASSUME used \in Budgets
    PROVE  \A kind \in DOMAIN Bound : used[kind] \in 0..Bound[kind]
  BY DEF Budgets, Bound

\* What is spent stays within its bound.
LEMMA SpendType ==
    ASSUME used \in Budgets,
           NEW kind \in {"states", "reports", "domains", "faults", "crashes"},
           Spend(kind)
    PROVE  used' \in Budgets
  <1>1. /\ MaxStates \in Nat /\ MaxReports \in Nat /\ MaxDomains \in Nat
        /\ MaxFaults \in Nat /\ MaxCrashes \in Nat
    BY BoundsType
  <1>2. used' = [used EXCEPT ![kind] = @ + 1] /\ used[kind] < Bound[kind]
    BY DEF Spend
  <1>3. CASE kind = "states"
    BY <1>1, <1>2, <1>3 DEF Budgets, Bound
  <1>4. CASE kind = "reports"
    BY <1>1, <1>2, <1>4 DEF Budgets, Bound
  <1>5. CASE kind = "domains"
    BY <1>1, <1>2, <1>5 DEF Budgets, Bound
  <1>6. CASE kind = "faults"
    BY <1>1, <1>2, <1>6 DEF Budgets, Bound
  <1>7. CASE kind = "crashes"
    BY <1>1, <1>2, <1>7 DEF Budgets, Bound
  <1> QED
    BY <1>3, <1>4, <1>5, <1>6, <1>7

\* A step that goes wrong spends a fault and leaves the worker at rest.
LEMMA FaultType ==
    ASSUME IInv, Fault
    PROVE  /\ used' \in Budgets
           /\ worker' \in WorkerStates /\ worker'.pc = "idle"
           /\ queued' \in BOOLEAN
  <1>1. worker.seen \in Domains \cup {""} /\ used \in Budgets
    BY DEF IInv, TypeOK
  <1> QED
    BY <1>1, RestingType, SpendType DEF Fault, Fails

\* So does one that is refused, and one that is the last.
LEMMA RestType ==
    ASSUME IInv, Returns \/ Fails
    PROVE  /\ worker' \in WorkerStates /\ worker'.pc = "idle"
           /\ queued' \in BOOLEAN
  <1>1. worker.seen \in Domains \cup {""} /\ queued \in BOOLEAN
    BY DEF IInv, TypeOK
  <1> QED
    BY <1>1, RestingType DEF Returns, Fails

\* The worker goes on to the next step of a reconcile.
LEMMA GoToType ==
    ASSUME IInv, NEW pc \in Steps, worker.pc # "idle", GoTo(pc)
    PROVE  /\ worker' \in WorkerStates /\ worker'.seen # ""
           /\ queued' \in BOOLEAN
  BY DEF IInv, TypeOK, GoTo, WorkerStates

\* A write of an object to the API server.
LEMMA SetObjectType ==
    ASSUME IInv, NEW k \in Kinds, NEW object \in Objects, SetObject(k, object),
           UNCHANGED netCache
    PROVE  /\ net' \in [Kinds -> Objects] /\ netFresh' \in [Kinds -> BOOLEAN]
           /\ \A j \in Kinds : netFresh'[j] => netCache'[j] = net'[j]
  BY DEF IInv, TypeOK, SetObject, FreshCopies

-----------------------------------------------------------------------------
(***************************************************************************)
(* The steps.                                                              *)
(***************************************************************************)
\* What one step may do to each part of the state, to be checked of every
\* action: the parts of the invariant, primed.
ServerKept ==
    /\ gs' \in Servers /\ gsCache' \in Servers /\ gsFresh' \in BOOLEAN
    /\ gsFresh' => gsCache' = gs'

NetKept ==
    /\ net' \in [Kinds -> Objects] /\ netCache' \in [Kinds -> Objects]
    /\ netFresh' \in [Kinds -> BOOLEAN]
    /\ \A k \in Kinds : netFresh'[k] => netCache'[k] = net'[k]

WorkerKept ==
    /\ worker' \in WorkerStates
    /\ worker'.pc # "idle" => worker'.seen # ""

RestKept ==
    /\ domain' \in Domains \cup {""}
    /\ queued' \in BOOLEAN /\ reporting' \in BOOLEAN
    /\ used' \in Budgets

\* The parts make the whole.
LEMMA PartsKept ==
    ASSUME ServerKept, NetKept, WorkerKept, RestKept
    PROVE  IInv'
  <1>0. used' \in Budgets
    BY DEF RestKept
  <1>1. (\A kind \in DOMAIN Bound : used[kind] \in 0..Bound[kind])'
    BY <1>0 DEF Budgets, Bound
  <1>2. TypeOK'
    BY <1>1 DEF ServerKept, NetKept, WorkerKept, RestKept, TypeOK, WorkerStates
  <1> QED
    BY <1>2 DEF ServerKept, NetKept, RestKept, IInv, FreshCopies

\* The invariant, taken apart the same way.
LEMMA PartsUnchanged ==
    ASSUME IInv
    PROVE  /\ UNCHANGED <<gs, gsCache, gsFresh>> => ServerKept
           /\ UNCHANGED <<net, netCache, netFresh>> => NetKept
           /\ UNCHANGED worker => WorkerKept
           /\ UNCHANGED <<domain, queued, reporting, used>> => RestKept
  <1>0. /\ gs \in Servers /\ gsCache \in Servers /\ gsFresh \in BOOLEAN
        /\ gsFresh => gsCache = gs
        /\ worker \in WorkerStates
        /\ worker.pc # "idle" => worker.seen # ""
    BY Zenon DEF IInv, TypeOK, FreshCopies, WorkerStates
  <1>1. UNCHANGED <<gs, gsCache, gsFresh>> => ServerKept
    <2> SUFFICES ASSUME gs' = gs, gsCache' = gsCache, gsFresh' = gsFresh
                 PROVE  ServerKept
      OBVIOUS
    <2> QED
      BY <1>0 DEF ServerKept
  <1>2. UNCHANGED <<net, netCache, netFresh>> => NetKept
    BY DEF IInv, TypeOK, FreshCopies, NetKept
  <1>3. UNCHANGED worker => WorkerKept
    BY <1>0, Zenon DEF WorkerKept
  <1>4. UNCHANGED <<domain, queued, reporting, used>> => RestKept
    BY DEF IInv, TypeOK, RestKept
  <1> QED
    BY <1>1, <1>2, <1>3, <1>4

\* Reading the server and the configuration (Reconcile).
LEMMA FetchKeeps ==
    ASSUME IInv, Fetch
    PROVE  IInv'
  <1>1. ServerKept /\ NetKept
    BY PartsUnchanged DEF Fetch
  <1>2. /\ domain' \in Domains \cup {""} /\ reporting' \in BOOLEAN
        /\ domain \in Domains \cup {""} /\ gsCache \in Servers
        /\ used \in Budgets /\ worker.seen \in Domains \cup {""}
    BY DEF Fetch, IInv, TypeOK
  <1>3. CASE Fault
    BY <1>1, <1>2, <1>3, FaultType, PartsKept DEF WorkerKept, RestKept
  <1>4. CASE ~Fault
    <2>1. queued' = FALSE /\ used' = used
      BY <1>4 DEF Fetch
    <2>2. WorkerKept
      <3>1. CASE domain = "" \/ gsCache.state \in {"Gone", "Deleting"}
        BY <1>2, <1>4, <3>1, RestingType DEF Fetch, WorkerKept
      <3>2. CASE domain # "" /\ gsCache.state = "Down"
        <4>1. worker' = At("cleanService", 0, gsCache.address # "", domain)
          BY <1>4, <3>2 DEF Fetch
        <4> QED
          BY <1>2, <3>2, <4>1, BoundsType DEF At, WorkerKept, WorkerStates, Steps
      <3>3. CASE domain # "" /\ gsCache.state = "Up"
        <4>1. worker' = At("Service", gsCache.uid, FALSE, domain)
          BY <1>4, <3>3 DEF Fetch
        <4>2. gsCache.uid \in 1..MaxServers
          BY <1>2 DEF Servers
        <4>3. gsCache.uid \in 0..MaxServers
          BY <4>2, BoundsType
        <4> QED
          BY <1>2, <3>3, <4>1, <4>3 DEF At, WorkerKept, WorkerStates, Steps
      <3> QED
        BY <1>2, <3>1, <3>2, <3>3 DEF Servers
    <2> QED
      BY <1>1, <1>2, <2>1, <2>2, PartsKept DEF RestKept
  <1> QED
    BY <1>3, <1>4

\* Creating or updating an object (ensureService, ensureHTTPRoute).
LEMMA EnsureKeeps ==
    ASSUME IInv, NEW k \in Kinds, Ensure(k)
    PROVE  IInv'
  <1> DEFINE next == IF k = "Service" THEN "HTTPRoute" ELSE "address"
  <1>1. /\ ServerKept /\ domain' \in Domains \cup {""} /\ reporting' \in BOOLEAN
        /\ UNCHANGED netCache
    BY PartsUnchanged DEF Ensure, IInv, TypeOK
  <1>2. next \in Steps /\ worker.pc # "idle" /\ used \in Budgets
    BY DEF Ensure, Steps, Kinds, IInv
  <1>3. WantedObject(k) \in Objects
    BY DEF WantedObject, Objects, IInv, TypeOK
  <1>4. CASE GoTo(next) /\ UNCHANGED used
             /\ (UNCHANGED <<net, netFresh>> \/ SetObject(k, WantedObject(k)))
    <2>1. WorkerKept /\ queued' \in BOOLEAN
      BY <1>2, <1>4, GoToType DEF WorkerKept
    <2>2. NetKept
      <3>1. CASE UNCHANGED <<net, netFresh>>
        BY <1>1, <3>1, PartsUnchanged
      <3>2. CASE SetObject(k, WantedObject(k))
        BY <1>1, <1>3, <3>2, SetObjectType DEF NetKept, IInv, TypeOK
      <3> QED
        BY <1>4, <3>1, <3>2
    <2> QED
      BY <1>1, <1>2, <1>4, <2>1, <2>2, PartsKept DEF RestKept
  <1>5. CASE Fails /\ UNCHANGED <<net, netFresh, used>>
    <2>1. WorkerKept /\ queued' \in BOOLEAN /\ used' \in Budgets
      BY <1>2, <1>5, RestType DEF WorkerKept
    <2>2. NetKept
      BY <1>1, <1>5, PartsUnchanged
    <2> QED
      BY <1>1, <2>1, <2>2, PartsKept DEF RestKept
  <1>6. CASE Fault /\ UNCHANGED <<net, netFresh>>
    <2>1. WorkerKept /\ queued' \in BOOLEAN /\ used' \in Budgets
      BY <1>2, <1>6, FaultType DEF WorkerKept
    <2>2. NetKept
      BY <1>1, <1>6, PartsUnchanged
    <2> QED
      BY <1>1, <2>1, <2>2, PartsKept DEF RestKept
  <1> QED
    BY <1>4, <1>5, <1>6 DEF Ensure

\* Deleting an object (cleanupNetworking).
LEMMA CleanupKeeps ==
    ASSUME IInv, NEW k \in Kinds, Cleanup(k)
    PROVE  IInv'
  <1> DEFINE next == IF k = "Service" THEN "cleanHTTPRoute" ELSE "cleanAddress"
  <1>1. /\ ServerKept /\ domain' \in Domains \cup {""} /\ reporting' \in BOOLEAN
        /\ UNCHANGED netCache
    BY PartsUnchanged DEF Cleanup, IInv, TypeOK
  <1>2. next \in Steps /\ worker.pc # "idle" /\ used \in Budgets
    BY DEF Cleanup, Steps, Kinds, IInv
  <1>3. NoObject \in Objects
    BY BoundsType DEF NoObject, Objects
  <1>4. CASE GoTo(next) /\ UNCHANGED used
             /\ (UNCHANGED <<net, netFresh>> \/ SetObject(k, NoObject))
    <2>1. WorkerKept /\ queued' \in BOOLEAN
      BY <1>2, <1>4, GoToType DEF WorkerKept
    <2>2. NetKept
      <3>1. CASE UNCHANGED <<net, netFresh>>
        BY <1>1, <3>1, PartsUnchanged
      <3>2. CASE SetObject(k, NoObject)
        BY <1>1, <1>3, <3>2, SetObjectType DEF NetKept, IInv, TypeOK
      <3> QED
        BY <1>4, <3>1, <3>2
    <2> QED
      BY <1>1, <1>2, <1>4, <2>1, <2>2, PartsKept DEF RestKept
  <1>5. CASE Fault /\ UNCHANGED <<net, netFresh>>
    <2>1. WorkerKept /\ queued' \in BOOLEAN /\ used' \in Budgets
      BY <1>5, FaultType DEF WorkerKept
    <2>2. NetKept
      BY <1>1, <1>5, PartsUnchanged
    <2> QED
      BY <1>1, <2>1, <2>2, PartsKept DEF RestKept
  <1> QED
    BY <1>4, <1>5 DEF Cleanup

\* Where the worker is about to write an address, it returns without a write,
\* writes over the newest copy, or fails.
WritesAddress(address) ==
    \/ Returns /\ UNCHANGED <<gs, gsFresh, used>>
    \/ Fails /\ UNCHANGED <<gs, gsFresh, used>>
    \/ WriteAddress(address)

\* Writing the address (updateConnectionInfo, cleanupNetworking).
LEMMA AddressKeeps ==
    ASSUME IInv, NEW address \in Domains \cup {""}, WritesAddress(address),
           UNCHANGED <<gsCache, net, netCache, netFresh, domain, reporting>>
    PROVE  IInv'
  <1>1. NetKept /\ domain' \in Domains \cup {""} /\ reporting' \in BOOLEAN
    BY PartsUnchanged DEF IInv, TypeOK
  <1>2. used \in Budgets /\ gsCache \in Servers
    BY DEF IInv, TypeOK
  <1>3. WorkerKept /\ queued' \in BOOLEAN /\ used' \in Budgets
    BY <1>2, FaultType, RestType DEF WritesAddress, WriteAddress, WorkerKept
  <1>4. ServerKept
    <2>1. CASE UNCHANGED <<gs, gsFresh>>
      BY <2>1, PartsUnchanged
    <2>2. CASE SetServer([gsCache EXCEPT !.address = address])
      BY <1>2, <2>2 DEF SetServer, ServerKept, Servers
    <2> QED
      BY <2>1, <2>2 DEF WritesAddress, WriteAddress
  <1> QED
    BY <1>1, <1>3, <1>4, PartsKept DEF RestKept

\* The steps of the informers and of the garbage collector.
LEMMA SyncKeeps ==
    ASSUME IInv, SyncServer \/ \E k \in Kinds : SyncObject(k) \/ CollectGarbage(k)
    PROVE  IInv'
  <1>1. CASE SyncServer
    <2>1. NetKept /\ WorkerKept
      BY <1>1, PartsUnchanged DEF SyncServer
    <2>2. ServerKept /\ RestKept
      BY <1>1 DEF SyncServer, ServerKept, RestKept, IInv, TypeOK
    <2> QED
      BY <2>1, <2>2, PartsKept
  <1>2. ASSUME NEW k \in Kinds, SyncObject(k) PROVE IInv'
    <2>1. ServerKept /\ WorkerKept
      BY <1>2, PartsUnchanged DEF SyncObject
    <2>2. NetKept /\ RestKept
      BY <1>2 DEF SyncObject, NetKept, RestKept, IInv, TypeOK, FreshCopies
    <2> QED
      BY <2>1, <2>2, PartsKept
  <1>3. ASSUME NEW k \in Kinds, CollectGarbage(k) PROVE IInv'
    <2>1. ServerKept /\ WorkerKept /\ RestKept
      BY <1>3, PartsUnchanged DEF CollectGarbage
    <2>2. NoObject \in Objects
      BY BoundsType DEF NoObject, Objects
    <2>3. NetKept
      BY <1>3, <2>2, SetObjectType DEF CollectGarbage, NetKept, IInv, TypeOK
    <2> QED
      BY <2>1, <2>3, PartsKept
  <1> QED
    BY <1>1, <1>2, <1>3

\* The steps of the GameServer reconciler, of users and administrators, and a
\* restart.
LEMMA OtherKeeps ==
    ASSUME IInv,
           \/ ReconcileReady \/ UpdateReadyStatus \/ ChangeState
           \/ DeleteOrRecreate \/ \E d \in Domains \cup {""} : ChangeDomain(d)
           \/ Crash
    PROVE  IInv'
  <1>1. gs \in Servers /\ gsCache \in Servers /\ used \in Budgets
    BY DEF IInv, TypeOK
  <1>2. CASE ReconcileReady
    <2>1. ServerKept /\ NetKept /\ WorkerKept
      BY <1>2, PartsUnchanged DEF ReconcileReady
    <2>2. RestKept
      BY <1>1, <1>2, SpendType DEF ReconcileReady, RestKept, IInv, TypeOK
    <2> QED
      BY <2>1, <2>2, PartsKept
  <1>3. CASE UpdateReadyStatus
    <2>1. NetKept /\ WorkerKept
      BY <1>3, PartsUnchanged DEF UpdateReadyStatus
    <2>2. RestKept
      BY <1>3 DEF UpdateReadyStatus, RestKept, IInv, TypeOK
    <2>3. ServerKept
      <3>1. CASE UNCHANGED <<gs, gsFresh>>
        BY <1>3, <3>1, PartsUnchanged DEF UpdateReadyStatus
      <3>2. CASE SetServer([gsCache EXCEPT !.address = "pod"])
        BY <1>1, <1>3, <3>2 DEF SetServer, ServerKept, Servers, UpdateReadyStatus
      <3> QED
        BY <1>3, <3>1, <3>2 DEF UpdateReadyStatus
    <2> QED
      BY <2>1, <2>2, <2>3, PartsKept
  <1>4. CASE ChangeState
    <2>1. NetKept /\ WorkerKept
      BY <1>4, PartsUnchanged DEF ChangeState
    <2>2. RestKept
      BY <1>1, <1>4, SpendType DEF ChangeState, RestKept, IInv, TypeOK
    <2>3. ServerKept
      BY <1>1, <1>4 DEF ChangeState, SetServer, ServerKept, Servers
    <2> QED
      BY <2>1, <2>2, <2>3, PartsKept
  <1>5. CASE DeleteOrRecreate
    <2>1. NetKept /\ WorkerKept
      BY <1>5, PartsUnchanged DEF DeleteOrRecreate
    <2>2. RestKept
      BY <1>5, PartsUnchanged DEF DeleteOrRecreate
    <2>3. gs.uid < MaxServers => gs.uid + 1 \in 1..MaxServers
      <3>1. gs.uid \in 1..MaxServers
        BY <1>1 DEF Servers
      <3> QED
        BY <3>1, NextUid
    <2>4. gs' \in Servers /\ gsFresh' = FALSE /\ UNCHANGED gsCache
      <3>1. ASSUME NEW state \in {"Deleting", "Gone"},
                   SetServer([gs EXCEPT !.state = state])
            PROVE  gs' \in Servers
        BY <1>1, <3>1 DEF SetServer, Servers
      <3>2. ASSUME gs.uid < MaxServers,
                   SetServer([uid |-> gs.uid + 1, state |-> "Down", address |-> ""])
            PROVE  gs' \in Servers
        <4>1. gs.uid + 1 \in 1..MaxServers
          BY <2>3, <3>2
        <4> QED
          BY <3>2, <4>1 DEF SetServer, Servers
      <3> QED
        BY <1>5, <3>1, <3>2 DEF DeleteOrRecreate, SetServer
    <2>5. ServerKept
      BY <1>1, <2>4 DEF ServerKept
    <2> QED
      BY <2>1, <2>2, <2>5, PartsKept
  <1>6. ASSUME NEW d \in Domains \cup {""}, ChangeDomain(d) PROVE IInv'
    <2>1. ServerKept /\ NetKept /\ WorkerKept
      BY <1>6, PartsUnchanged DEF ChangeDomain
    <2>2. RestKept
      BY <1>1, <1>6, SpendType DEF ChangeDomain, RestKept, IInv, TypeOK
    <2> QED
      BY <2>1, <2>2, PartsKept
  <1>7. CASE Crash
    <2>1. ServerKept /\ NetKept
      BY <1>7 DEF Crash, ServerKept, NetKept, IInv, TypeOK
    <2>2. WorkerKept
      <3>1. worker.seen \in Domains \cup {""}
        BY DEF IInv, TypeOK
      <3> QED
        BY <1>7, <3>1, RestingType DEF Crash, WorkerKept
    <2>3. RestKept
      BY <1>1, <1>7, SpendType DEF Crash, RestKept, IInv, TypeOK
    <2> QED
      BY <2>1, <2>2, <2>3, PartsKept
  <1> QED
    BY <1>2, <1>3, <1>4, <1>5, <1>6, <1>7

-----------------------------------------------------------------------------
(***************************************************************************)
(* Theorems.                                                               *)
(***************************************************************************)
\* At the start there are no objects, and the cache is up to date.
LEMMA InitInv == Init => IInv
  <1> SUFFICES ASSUME Init PROVE IInv
    OBVIOUS
  <1>1. NoObject \in Objects
    BY BoundsType DEF NoObject, Objects
  <1>2. gs \in Servers
    BY BoundsType DEF Init, Servers
  <1>3. worker \in WorkerStates /\ worker.pc = "idle"
    BY RestingType DEF Init
  <1>4. used \in Budgets
    BY BoundsType DEF Init, Budgets, Bound
  <1>5. TypeOK
    BY <1>1, <1>2, <1>3, <1>4, BudgetsType DEF Init, TypeOK, WorkerStates
  <1>6. FreshCopies
    BY DEF Init, FreshCopies
  <1> QED
    BY <1>4, <1>5, <1>6 DEF IInv

\* The invariant holds always: both reconcilers, the informers, the garbage
\* collector, users, administrators and restarts keep it.
THEOREM DnsInvariance == Spec => []IInv
  <1>1. Init => IInv
    BY InitInv
  <1>2. IInv /\ [Next]_vars => IInv'
    <2> SUFFICES ASSUME IInv, [Next]_vars PROVE IInv'
      OBVIOUS
    <2>1. CASE UpdateConnectionInfo
      <3>1. WritesAddress(worker.seen) /\ worker.seen \in Domains \cup {""}
        BY <2>1 DEF UpdateConnectionInfo, WritesAddress, IInv, TypeOK
      <3> QED
        BY <2>1, <3>1, AddressKeeps DEF UpdateConnectionInfo
    <2>2. CASE ClearAddress
      <3>1. WritesAddress("")
        BY <2>2 DEF ClearAddress, WritesAddress
      <3> QED
        BY <2>2, <3>1, AddressKeeps DEF ClearAddress
    <2>3. CASE UNCHANGED vars
      BY <2>3, PartsUnchanged, PartsKept DEF vars
    <2> QED
      BY <2>1, <2>2, <2>3, FetchKeeps, EnsureKeeps, CleanupKeeps, SyncKeeps,
         OtherKeeps
      DEF Next, WorkerStep
  <1> QED
    BY <1>1, <1>2, PTL DEF Spec

\* The state is always of its type: in particular a reconcile that has started
\* has a base domain to build host names from (Reconcile).
THEOREM DnsTypeCorrect == Spec => []TypeOK
  <1>1. IInv => TypeOK
    BY DEF IInv
  <1> QED
    BY <1>1, DnsInvariance, PTL

\* The two writers of the address never undo a start, a stop, a deletion or a
\* new server of the same name, whatever copy they worked on
\* (updateConnectionInfo, cleanupNetworking, updateReadyStatus).
THEOREM StateNeverReverted == Spec => StateNotReverted
  <1> DEFINE Kept == worker' # worker \/ reporting' # reporting
                        => gs'.state = gs.state /\ gs'.uid = gs.uid
  <1>1. IInv /\ [Next]_vars => [Kept]_vars
    <2> SUFFICES ASSUME IInv, Next PROVE Kept
      OBVIOUS
    <2>1. gs \in Servers /\ (gsFresh => gsCache = gs)
      BY DEF IInv, TypeOK, FreshCopies
    <2>2. CASE UNCHANGED gs
      BY <2>2
    <2>3. CASE UNCHANGED <<worker, reporting>>
      BY <2>3
    <2>4. ASSUME NEW address, gsFresh, SetServer([gsCache EXCEPT !.address = address])
          PROVE  Kept
      BY <2>1, <2>4 DEF SetServer, Servers
    <2>5. CASE UpdateConnectionInfo
      BY <2>2, <2>4, <2>5 DEF UpdateConnectionInfo, WriteAddress
    <2>6. CASE ClearAddress
      BY <2>2, <2>4, <2>6 DEF ClearAddress, WriteAddress
    <2>7. CASE UpdateReadyStatus
      BY <2>2, <2>4, <2>7 DEF UpdateReadyStatus
    <2>8. CASE ChangeState \/ DeleteOrRecreate
      BY <2>3, <2>8 DEF ChangeState, DeleteOrRecreate
    <2> QED
      BY <2>2, <2>5, <2>6, <2>7, <2>8
      DEF Next, WorkerStep, Fetch, Ensure, Cleanup, SyncServer, SyncObject,
          CollectGarbage, ReconcileReady, ChangeDomain, Crash
  <1> QED
    BY <1>1, DnsInvariance, PTL DEF Spec, StateNotReverted
=============================================================================
