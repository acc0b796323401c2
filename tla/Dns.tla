--------------------------------- MODULE Dns ---------------------------------
(***************************************************************************)
(* The networking of one game server: DNSReconciler of                     *)
(* internal/controller/dns_controller.go, which gives a running server a   *)
(* Service, an HTTPRoute and a host name, and updateReadyStatus of the     *)
(* GameServer reconciler, which writes the same part of the status.        *)
(*                                                                         *)
(* The reconciler has one worker and one key here.  It reads everything    *)
(* from the informers' caches and writes to the API server, which refuses  *)
(* an update of anything but the newest version.  A step of the worker     *)
(* ends at a write.                                                        *)
(***************************************************************************)
EXTENDS Naturals

CONSTANTS
    Domains,     \* base domains the administrator may configure
    MaxServers,  \* bound: servers that have the name, one after the other
    MaxStates,   \* bound: starts and stops
    MaxReports,  \* bound: reconciles of a Ready server
    MaxDomains,  \* bound: changes of the configuration
    MaxFaults,   \* bound: requests that fail
    MaxCrashes,  \* bound: restarts of the operator
    MaxEvents    \* bound: reports, changes of domain, faults and crashes

ASSUME DnsAssumption ==
    /\ "" \notin Domains /\ "pod" \notin Domains
    /\ MaxServers \in Nat \ {0}
    /\ {MaxStates, MaxReports, MaxDomains, MaxFaults, MaxCrashes, MaxEvents}
         \subseteq Nat

VARIABLES
    gs,         \* the GameServer: uid, state and Status.Address
    gsCache,    \* the informer's copy
    gsFresh,    \* it has the API server's version
    net,        \* the Service and the HTTPRoute
    netCache,   \* the informers' copies
    netFresh,   \* which of them have the API server's version
    domain,     \* baseDomain of the configuration, or ""
    queued,     \* the server's key is in the workqueue
    worker,     \* where Reconcile is, and what it has read
    reporting,  \* the GameServer reconciler is about to write the Pod's IP
    used        \* how much of each bound is used up

vars == <<gs, gsCache, gsFresh, net, netCache, netFresh, domain, queued,
          worker, reporting, used>>

-----------------------------------------------------------------------------
Kinds == {"Service", "HTTPRoute"}

\* "Up" is Ready or Allocated; "Deleting" has a deletion timestamp.
Servers == [uid : 1..MaxServers, state : {"Up", "Down", "Deleting", "Gone"},
            address : Domains \cup {"", "pod"}]

\* owner is the uid of the controller reference, host the route's host name.
Objects == [exists : BOOLEAN, owner : 0..MaxServers, host : Domains \cup {""}]
NoObject == [exists |-> FALSE, owner |-> 0, host |-> ""]

Steps == {"idle", "Service", "HTTPRoute", "address",
          "cleanService", "cleanHTTPRoute", "cleanAddress"}

\* Of what it has read the worker uses the uid to publish, whether there was
\* an address to clean up, and the base domain, which is kept at rest.
At(pc, uid, clear, seen) == [pc |-> pc, uid |-> uid, clear |-> clear, seen |-> seen]
Resting(seen) == At("idle", 0, FALSE, seen)

Bound == [states |-> MaxStates, reports |-> MaxReports, domains |-> MaxDomains,
          faults |-> MaxFaults, crashes |-> MaxCrashes]

TypeOK ==
    /\ gs \in Servers /\ gsCache \in Servers /\ gsFresh \in BOOLEAN
    /\ net \in [Kinds -> Objects] /\ netCache \in [Kinds -> Objects]
    /\ netFresh \in [Kinds -> BOOLEAN]
    /\ domain \in Domains \cup {""}
    /\ queued \in BOOLEAN /\ reporting \in BOOLEAN
    /\ worker \in [pc : Steps, uid : 0..MaxServers, clear : BOOLEAN,
                   seen : Domains \cup {""}]
    /\ worker.pc # "idle" => worker.seen # ""
    /\ \A kind \in DOMAIN Bound : used[kind] \in 0..Bound[kind]

\* A new server, whose creation is still to be delivered.
Init ==
    /\ gs = [uid |-> 1, state |-> "Down", address |-> ""]
    /\ gsCache = gs
    /\ gsFresh = TRUE
    /\ net = [k \in Kinds |-> NoObject]
    /\ netCache = net
    /\ netFresh = [k \in Kinds |-> TRUE]
    /\ domain \in Domains \cup {""}
    /\ queued = TRUE
    /\ worker = Resting("")
    /\ reporting = FALSE
    /\ used = [kind \in DOMAIN Bound |-> 0]

-----------------------------------------------------------------------------
(***************************************************************************)
(* The API server and the informers.                                       *)
(***************************************************************************)
SetServer(g) == gs' = g /\ gsFresh' = FALSE

SetObject(k, object) ==
    /\ net' = [net EXCEPT ![k] = object]
    /\ netFresh' = [netFresh EXCEPT ![k] = FALSE]

Spend(kind) ==
    /\ used[kind] < Bound[kind]
    /\ kind = "states"
         \/ used.reports + used.domains + used.faults + used.crashes < MaxEvents
    /\ used' = [used EXCEPT ![kind] = @ + 1]

\* Fault: only changes of the specification are delivered, as they are to the
\* GameServer reconciler.
SyncSpecOnly ==
    /\ ~gsFresh
    /\ gsCache' = gs
    /\ gsFresh' = TRUE
    /\ queued' = (queued \/ gs.uid # gsCache.uid)
    /\ UNCHANGED <<gs, net, netCache, netFresh, domain, worker, reporting, used>>

\* Every change of the server is an event: SetupWithManager has no predicate.
SyncServer ==
    /\ ~gsFresh
    /\ gsCache' = gs
    /\ gsFresh' = TRUE
    /\ queued' = TRUE
    /\ UNCHANGED <<gs, net, netCache, netFresh, domain, worker, reporting, used>>

\* Fault: Service and HTTPRoute are not watched.
SyncQuietly(k) ==
    /\ ~netFresh[k]
    /\ netCache' = [netCache EXCEPT ![k] = net[k]]
    /\ netFresh' = [netFresh EXCEPT ![k] = TRUE]
    /\ UNCHANGED <<gs, gsCache, gsFresh, net, domain, queued, worker,
                   reporting, used>>

\* Owns: a change of an owned object is an event of its owner.
SyncObject(k) ==
    /\ ~netFresh[k]
    /\ netCache' = [netCache EXCEPT ![k] = net[k]]
    /\ netFresh' = [netFresh EXCEPT ![k] = TRUE]
    /\ queued' = TRUE
    /\ UNCHANGED <<gs, gsCache, gsFresh, net, domain, worker, reporting, used>>

\* The garbage collector removes what an object that is gone has owned.
CollectGarbage(k) ==
    /\ net[k].exists /\ net[k].owner # 0
    /\ net[k].owner # gs.uid \/ gs.state = "Gone"
    /\ SetObject(k, NoObject)
    /\ UNCHANGED <<gs, gsCache, gsFresh, netCache, domain, queued, worker,
                   reporting, used>>

-----------------------------------------------------------------------------
(***************************************************************************)
(* Reconcile.                                                              *)
(***************************************************************************)
GoTo(pc) == worker' = [worker EXCEPT !.pc = pc] /\ UNCHANGED queued

Returns == worker' = Resting(worker.seen) /\ UNCHANGED queued

\* The error requeues the key.
Fails == worker' = Resting(worker.seen) /\ queued' = TRUE

\* A request that fails for no reason of its own.
Fault == Spend("faults") /\ Fails

\* Fault: an empty base domain is used like any other.
FetchAnyway ==
    /\ worker.pc = "idle" /\ queued
    /\ worker' = IF gsCache.state = "Up"
                 THEN At("Service", gsCache.uid, FALSE, domain)
                 ELSE Resting(domain)
    /\ queued' = FALSE
    /\ UNCHANGED <<gs, gsCache, gsFresh, net, netCache, netFresh, domain,
                   reporting, used>>

\* The server and the configuration are read.  Without a base domain, for a
\* server that is gone or being deleted, there is nothing to do.
Fetch ==
    /\ worker.pc = "idle" /\ queued
    /\ \/ /\ worker' =
             CASE domain = "" \/ gsCache.state \in {"Gone", "Deleting"} ->
                    Resting(domain)
               [] domain # "" /\ gsCache.state = "Down" ->
                    At("cleanService", 0, gsCache.address # "", domain)
               [] domain # "" /\ gsCache.state = "Up" ->
                    At("Service", gsCache.uid, FALSE, domain)
          /\ queued' = FALSE
          /\ UNCHANGED used
       \/ Fault
    /\ UNCHANGED <<gs, gsCache, gsFresh, net, netCache, netFresh, domain,
                   reporting>>

\* Fault: the controller reference is left out.
UnownedObject(k) ==
    [exists |-> TRUE, owner |-> 0,
     host |-> IF k = "HTTPRoute" THEN worker.seen ELSE ""]

\* What the mutate function makes of either object: SetControllerReference
\* replaces the reference of an earlier server of the same name.
WantedObject(k) ==
    [exists |-> TRUE, owner |-> worker.uid,
     host |-> IF k = "HTTPRoute" THEN worker.seen ELSE ""]

\* ensureService and ensureHTTPRoute: CreateOrUpdate compares with the cached
\* object.  An object that is there after all, or another version of it, is an
\* error.
Ensure(k) ==
    /\ worker.pc = k
    /\ LET next == IF k = "Service" THEN "HTTPRoute" ELSE "address"
       IN  \/ /\ netCache[k] = WantedObject(k)
              /\ GoTo(next)
              /\ UNCHANGED <<net, netFresh, used>>
           \/ /\ netCache[k] # WantedObject(k)
              /\ IF netCache[k].exists THEN netFresh[k] ELSE ~net[k].exists
              /\ SetObject(k, WantedObject(k))
              /\ GoTo(next)
              /\ UNCHANGED used
           \/ /\ netCache[k] # WantedObject(k)
              /\ IF netCache[k].exists THEN ~netFresh[k] ELSE net[k].exists
              /\ Fails
              /\ UNCHANGED <<net, netFresh, used>>
           \/ Fault /\ UNCHANGED <<net, netFresh>>
    /\ UNCHANGED <<gs, gsCache, gsFresh, netCache, domain, reporting>>

\* Status().Update over the re-fetched server, whatever its state is by now.
WriteAddress(address) ==
    \/ /\ gsFresh
       /\ SetServer([gsCache EXCEPT !.address = address])
       /\ Returns
       /\ UNCHANGED used
    \/ /\ ~gsFresh
       /\ Fails
       /\ UNCHANGED <<gs, gsFresh, used>>
    \/ Fault /\ UNCHANGED <<gs, gsFresh>>

\* Fault: an update that does not compare versions.
OverwriteAddress ==
    /\ worker.pc = "address"
    /\ IF gsCache.state = "Gone" \/ gs.state = "Gone"
       THEN Fails /\ UNCHANGED <<gs, gsFresh, used>>
       ELSE /\ SetServer([gsCache EXCEPT !.address = worker.seen])
            /\ Returns
            /\ UNCHANGED used
    /\ UNCHANGED <<gsCache, net, netCache, netFresh, domain, reporting>>

UpdateConnectionInfo ==
    /\ worker.pc = "address"
    /\ CASE gsCache.state = "Gone" -> Fails /\ UNCHANGED <<gs, gsFresh, used>>
         [] gsCache.state # "Gone" /\ gsCache.address = worker.seen ->
                Returns /\ UNCHANGED <<gs, gsFresh, used>>
         [] OTHER -> WriteAddress(worker.seen)
    /\ UNCHANGED <<gsCache, net, netCache, netFresh, domain, reporting>>

\* cleanupNetworking deletes what the cache has, by name.
Cleanup(k) ==
    /\ worker.pc = IF k = "Service" THEN "cleanService" ELSE "cleanHTTPRoute"
    /\ LET next == IF k = "Service" THEN "cleanHTTPRoute" ELSE "cleanAddress"
       IN  \/ /\ GoTo(next)
              /\ IF netCache[k].exists /\ net[k].exists
                 THEN SetObject(k, NoObject)
                 ELSE UNCHANGED <<net, netFresh>>
              /\ UNCHANGED used
           \/ /\ netCache[k].exists
              /\ Fault
              /\ UNCHANGED <<net, netFresh>>
    /\ UNCHANGED <<gs, gsCache, gsFresh, netCache, domain, reporting>>

\* The address is cleared if both the first copy and the new one have any.
ClearAddress ==
    /\ worker.pc = "cleanAddress"
    /\ IF \/ ~worker.clear
          \/ gsCache.state = "Gone" \/ gsCache.address = ""
       THEN Returns /\ UNCHANGED <<gs, gsFresh, used>>
       ELSE WriteAddress("")
    /\ UNCHANGED <<gsCache, net, netCache, netFresh, domain, reporting>>

-----------------------------------------------------------------------------
(***************************************************************************)
(* The GameServer reconciler and the environment.                          *)
(***************************************************************************)
\* reconcileReady finds a Ready server and its Pod...
ReconcileReady ==
    /\ Spend("reports")
    /\ ~reporting
    /\ gsCache.state = "Up"
    /\ reporting' = TRUE
    /\ UNCHANGED <<gs, gsCache, gsFresh, net, netCache, netFresh, domain,
                   queued, worker>>

\* ...and updateReadyStatus writes the Pod's IP over the re-fetched copy.
UpdateReadyStatus ==
    /\ reporting
    /\ reporting' = FALSE
    /\ IF gsFresh /\ gsCache.state # "Gone"
       THEN SetServer([gsCache EXCEPT !.address = "pod"])
       ELSE UNCHANGED <<gs, gsFresh>>
    /\ UNCHANGED <<gsCache, net, netCache, netFresh, domain, queued, worker,
                   used>>

\* The GameServer reconciler and the handlers start and stop the server.
ChangeState ==
    /\ Spend("states")
    /\ \/ gs.state = "Up" /\ SetServer([gs EXCEPT !.state = "Down"])
       \/ gs.state = "Down" /\ SetServer([gs EXCEPT !.state = "Up"])
    /\ UNCHANGED <<gsCache, net, netCache, netFresh, domain, queued, worker,
                   reporting>>

\* Users delete the server, its finalizer is removed, the name is used again.
DeleteOrRecreate ==
    /\ \/ gs.state \in {"Up", "Down"} /\ SetServer([gs EXCEPT !.state = "Deleting"])
       \/ gs.state = "Deleting" /\ SetServer([gs EXCEPT !.state = "Gone"])
       \/ /\ gs.state = "Gone" /\ gs.uid < MaxServers
          /\ SetServer([uid |-> gs.uid + 1, state |-> "Down", address |-> ""])
    /\ UNCHANGED <<gsCache, net, netCache, netFresh, domain, queued, worker,
                   reporting, used>>

\* The ConfigMap is not watched: its change is no event.
ChangeDomain(d) ==
    /\ Spend("domains")
    /\ d # domain
    /\ domain' = d
    /\ UNCHANGED <<gs, gsCache, gsFresh, net, netCache, netFresh, queued,
                   worker, reporting>>

\* The operator restarts: the informers list everything anew.
Crash ==
    /\ Spend("crashes")
    /\ gsCache' = gs /\ gsFresh' = TRUE
    /\ netCache' = net /\ netFresh' = [k \in Kinds |-> TRUE]
    /\ queued' = (gs.state # "Gone" \/ \E k \in Kinds : net[k].exists)
    /\ worker' = Resting(worker.seen)
    /\ reporting' = FALSE
    /\ UNCHANGED <<gs, net, domain>>

-----------------------------------------------------------------------------
WorkerStep ==
    \/ Fetch
    \/ \E k \in Kinds : Ensure(k) \/ Cleanup(k)
    \/ UpdateConnectionInfo
    \/ ClearAddress

Next ==
    \/ WorkerStep
    \/ SyncServer
    \/ \E k \in Kinds : SyncObject(k) \/ CollectGarbage(k)
    \/ ReconcileReady
    \/ UpdateReadyStatus
    \/ ChangeState
    \/ DeleteOrRecreate
    \/ \E d \in Domains \cup {""} : ChangeDomain(d)
    \/ Crash

Spec == Init /\ [][Next]_vars

\* The worker, the informers and the garbage collector run on; users, the
\* other reconciler and failures do as they like.
Fairness ==
    /\ WF_vars(WorkerStep)
    /\ WF_vars(SyncServer)
    /\ \A k \in Kinds : WF_vars(SyncObject(k)) /\ WF_vars(CollectGarbage(k))

FairSpec == Spec /\ Fairness

-----------------------------------------------------------------------------
(***************************************************************************)
(* Properties.                                                             *)
(***************************************************************************)
Published ==
    /\ \A k \in Kinds : net[k].exists /\ net[k].owner = gs.uid
    /\ gs.address = worker.seen /\ net["HTTPRoute"].host = worker.seen

Withdrawn == gs.address = "" /\ \A k \in Kinds : ~net[k].exists

\* The two writers of the status' address work on copies, and never undo a
\* stop, a start or a deletion that came between (updateConnectionInfo,
\* cleanupNetworking, updateReadyStatus).
StateNotReverted ==
    [][worker' # worker \/ reporting' # reporting
         => gs'.state = gs.state /\ gs'.uid = gs.uid]_vars

\* A server that stays up ends with its Service, its HTTPRoute and the host
\* name of the base domain last read as its address, however the Pod's IP was
\* written over it before, even if an earlier server of the same name has
\* left objects behind (Reconcile).
AddressPublished ==
    <>[](gs.state = "Up") => <>[](worker.seen # "" => Published)

\* A server that stays down ends with none of these, although the address
\* may be written once more after it has stopped; only an administrator who
\* removes the base domain first leaves them behind (cleanupNetworking).
AddressWithdrawn ==
    <>[](gs.state = "Down") => <>[](worker.seen # "" => Withdrawn)

\* Nothing is left of a deleted server, objects created for it too late
\* included (the controller references of ensureService, ensureHTTPRoute).
NetworkingCollected ==
    <>[](gs.state = "Gone") => <>[](\A k \in Kinds : ~net[k].exists)
=============================================================================
