---------------------------- MODULE ControlPlane ----------------------------
(***************************************************************************)
(* The control plane: the API server's objects, the two informers and      *)
(* their handler goroutines, the cluster state (ClusterState) and the way  *)
(* its changes reach the xDS cache (Dispatch).                             *)
(*                                                                         *)
(* An informer delivers, object by object, the version it read last; on a  *)
(* re-list it may skip versions, but never goes back.  The handlers of one *)
(* informer run one at a time, in one goroutine; the two informers run     *)
(* independently, so a slice may be delivered before its service.          *)
(***************************************************************************)
EXTENDS ClusterState

CONSTANT
  FirstVersion  \* the API server's revision before the first write

ASSUME FirstVersionAssumption == FirstVersion \in Nat

VARIABLES
  svcStore, esStore,  \* the objects in the API server that match the selector
  svcSeen, esSeen,    \* the objects the informers handed to the handlers last
  rev,                \* the API server's revision
  cache, eventLost, lockHeld, hpc, rpc, snap, pub, ingestErr, done

apiVars == <<svcStore, esStore, rev>>
seenVars == <<svcSeen, esSeen>>
procVars == <<cache, eventLost, lockHeld, hpc, rpc, snap, pub, ingestErr, done>>

\* run registers the subscriber with a service and an endpoint-slice informer.
Handlers == {"svc", "es"}

D == INSTANCE Dispatch WITH CacheStates <- Services, EmptyCache <- EmptyServices

vars == <<apiVars, seenVars, procVars>>

\* Type correctness of the informers' and the subscriber's state.
TypeOK ==
  /\ svcStore \in [ServiceKeys -> Service \cup {Nil}]
  /\ svcSeen \in [ServiceKeys -> Service \cup {Nil}]
  /\ esStore \in [SliceKeys -> Slice \cup {Nil}]
  /\ esSeen \in [SliceKeys -> Slice \cup {Nil}]
  /\ rev \in Versions \cup {FirstVersion}
  /\ D!TypeOK

Init ==
  /\ svcStore = [k \in ServiceKeys |-> Nil]
  /\ svcSeen = svcStore
  /\ esStore = [k \in SliceKeys |-> Nil]
  /\ esSeen = esStore
  /\ rev = FirstVersion
  /\ D!Init

-----------------------------------------------------------------------------
(* The API server (external) *)

\* Bound: at most Cardinality(Versions) writes.
NewVersion == rev + 1 \in Versions /\ rev' = rev + 1

PutService(k) ==
  /\ NewVersion
  /\ svcStore' = [svcStore EXCEPT ![k] = [key |-> k, rv |-> rev']]
  /\ UNCHANGED <<esStore, seenVars, procVars>>

DropService(k) ==
  /\ svcStore[k] # Nil
  /\ svcStore' = [svcStore EXCEPT ![k] = Nil]
  /\ UNCHANGED <<esStore, rev, seenVars, procVars>>

PutSlice(k) ==
  /\ NewVersion
  /\ \E label \in SliceLabels[k] :
       esStore' = [esStore EXCEPT ![k] =
                     [key |-> k, label |-> label, rv |-> rev']]
  /\ UNCHANGED <<svcStore, seenVars, procVars>>

DropSlice(k) ==
  /\ esStore[k] # Nil
  /\ esStore' = [esStore EXCEPT ![k] = Nil]
  /\ UNCHANGED <<svcStore, rev, seenVars, procVars>>

API ==
  \/ \E k \in ServiceKeys : PutService(k) \/ DropService(k)
  \/ \E k \in SliceKeys : PutSlice(k) \/ DropSlice(k)

-----------------------------------------------------------------------------
(* The callbacks: one cache operation and, if it says so, dispatchEvent. *)

Callback(h, result) ==
  /\ hpc[h] = "idle"
  /\ IF result.dispatch
     THEN D!Apply(h, result.services)
     ELSE /\ cache' = result.services
          /\ UNCHANGED <<eventLost, lockHeld, hpc, rpc, snap, pub, ingestErr, done>>

OnServiceAdd(k) ==
  /\ svcSeen[k] = Nil
  /\ svcStore[k] # Nil
  /\ svcSeen' = [svcSeen EXCEPT ![k] = svcStore[k]]
  /\ Callback("svc", UpdateServices(cache, svcStore[k], FALSE))
  /\ UNCHANGED <<apiVars, esSeen>>

OnServiceUpdate(k) ==
  /\ Nil \notin {svcSeen[k], svcStore[k]}
  /\ svcSeen[k] # svcStore[k]
  /\ svcSeen' = [svcSeen EXCEPT ![k] = svcStore[k]]
  /\ Callback("svc", UpdateServices(cache, svcStore[k], FALSE))
  /\ UNCHANGED <<apiVars, esSeen>>

OnServiceDelete(k) ==
  /\ svcSeen[k] # Nil
  /\ svcStore[k] = Nil
  /\ svcSeen' = [svcSeen EXCEPT ![k] = Nil]
  /\ Callback("svc", UpdateServices(cache, svcSeen[k], TRUE))
  /\ UNCHANGED <<apiVars, esSeen>>

\* Every RESYNC_INTERVAL the informer calls OnServiceUpdate with the objects
\* it already delivered.
ResyncService(k) ==
  /\ svcSeen[k] # Nil
  /\ Callback("svc", UpdateServices(cache, svcSeen[k], FALSE))
  /\ UNCHANGED <<apiVars, seenVars>>

OnEndpointSliceAdd(k) ==
  /\ esSeen[k] = Nil
  /\ esStore[k] # Nil
  /\ esSeen' = [esSeen EXCEPT ![k] = esStore[k]]
  /\ Callback("es", UpdatEndpointSlice(cache, esStore[k], FALSE))
  /\ UNCHANGED <<apiVars, svcSeen>>

OnEndpointSliceUpdate(k) ==
  /\ Nil \notin {esSeen[k], esStore[k]}
  /\ esSeen[k] # esStore[k]
  /\ esSeen' = [esSeen EXCEPT ![k] = esStore[k]]
  /\ Callback("es", UpdatEndpointSlice(cache, esStore[k], FALSE))
  /\ UNCHANGED <<apiVars, svcSeen>>

OnEndpointSliceDelete(k) ==
  /\ esSeen[k] # Nil
  /\ esStore[k] = Nil
  /\ esSeen' = [esSeen EXCEPT ![k] = Nil]
  /\ Callback("es", UpdatEndpointSlice(cache, esSeen[k], TRUE))
  /\ UNCHANGED <<apiVars, svcSeen>>

\* Mutant: the informers never resync (RESYNC_INTERVAL is 0).
ResyncEndpointSliceOff(k) ==
  /\ esSeen[k] = Nil
  /\ UNCHANGED vars

ResyncEndpointSlice(k) ==
  /\ esSeen[k] # Nil
  /\ Callback("es", UpdatEndpointSlice(cache, esSeen[k], FALSE))
  /\ UNCHANGED <<apiVars, seenVars>>

\* What an informer hands over for one object, new or on resync.
DeliverService(k) == OnServiceAdd(k) \/ OnServiceUpdate(k) \/ OnServiceDelete(k)
DeliverSlice(k) ==
  \/ OnEndpointSliceAdd(k) \/ OnEndpointSliceUpdate(k)
  \/ OnEndpointSliceDelete(k)

Informers ==
  \/ \E k \in ServiceKeys : DeliverService(k) \/ ResyncService(k)
  \/ \E k \in SliceKeys : DeliverSlice(k) \/ ResyncEndpointSlice(k)

-----------------------------------------------------------------------------
(* dispatchEvent, the receiver and the shutdown, as in Dispatch *)

Process ==
  /\ \/ \E h \in Handlers : D!dispatchEvent(h)
     \/ D!Receiver
     \/ D!Cancel
  /\ UNCHANGED <<apiVars, seenVars>>

\* After the loop has ended run returns and the process ends; the handlers
\* may have had their last call.
Exited == rpc = "exit" /\ UNCHANGED vars

Next == API \/ Informers \/ Process \/ Exited

(***************************************************************************)
(* The fairness of Dispatch, and: an informer works through its queue in   *)
(* order, so what it has to deliver, resyncs included, is delivered in the *)
(* end although its goroutine is busy in between (strong fairness), until  *)
(* ctx is cancelled.  Nothing is assumed about writes to the API server.   *)
(***************************************************************************)
Fairness ==
  /\ D!Fairness
  /\ \A k \in ServiceKeys :
       SF_vars(~done /\ DeliverService(k)) /\ SF_vars(~done /\ ResyncService(k))
  /\ \A k \in SliceKeys :
       SF_vars(~done /\ DeliverSlice(k)) /\ SF_vars(~done /\ ResyncEndpointSlice(k))

SafeSpec == Init /\ [][Next]_vars
Spec == SafeSpec /\ Fairness

-----------------------------------------------------------------------------
(* How far a map of containers agrees with a set of API objects. *)

\* Every service has its container, with the service's latest version.
ServicesPresent(services, svcs) ==
  \A k \in ServiceKeys :
    svcs[k] # Nil => /\ services[Name(k)] # Nil
                     /\ services[Name(k)].obj = svcs[k]

\* Every container belongs to a service that exists, in that version.
ServicesCurrent(services, svcs) ==
  \A n \in ServiceNames :
    services[n] # Nil => svcs[services[n].obj.key] = services[n].obj

\* Every slice is attached to the service it names, if that exists.
SlicesPresent(services, ess) ==
  \A k \in SliceKeys :
    LET es == ess[k]
    IN  es # Nil => es.label = NoLabel \/ services[es.label] = Nil
                      \/ services[es.label].slices[Name(k)] = es

\* Every attached slice exists, in that version, and names this service.
SlicesCurrent(services, ess) ==
  \A n \in ServiceNames, s \in SliceNames :
    services[n] # Nil /\ services[n].slices[s] # Nil =>
      LET es == services[n].slices[s]
      IN  ess[es.key] = es /\ es.label = n

Reflects(services, svcs, ess) ==
  /\ ServicesPresent(services, svcs)
  /\ ServicesCurrent(services, svcs)
  /\ SlicesPresent(services, ess)
  /\ SlicesCurrent(services, ess)

-----------------------------------------------------------------------------
(* Properties *)

\* The cache knows exactly the services the informer handed over, each in the
\* version handed over last: no update is taken for an old one.
EveryServiceCached ==
  /\ ServicesPresent(cache, svcSeen)
  /\ ServicesCurrent(cache, svcSeen)

\* However services and slices come and go, in either order, an attached slice
\* is the one the informer handed over last: none outlives its deletion and
\* none is older than what the informer saw.
NoGhostSlices == SlicesCurrent(cache, esSeen)

(***************************************************************************)
(* EveryServiceCached and NoGhostSlices depend on the cluster: names that  *)
(* are unique without their namespace, resource versions of one length,    *)
(* slices that never change the service they name.  They are not inductive *)
(* by themselves: objects sit under their own key, and what an informer    *)
(* has yet to deliver is newer than what it delivered.                     *)
(***************************************************************************)
UniqueNames ==
  /\ \A k, l \in ServiceKeys : Name(k) = Name(l) => k = l
  /\ \A k, l \in SliceKeys : Name(k) = Name(l) => k = l
SameLength == \A v, w \in Versions : Digits(v) = Digits(w)
FixedLabels == \A k \in SliceKeys : \A x, y \in SliceLabels[k] : x = y

ObjectsKeyed ==
  /\ \A k \in ServiceKeys :
       /\ svcStore[k] # Nil => svcStore[k].key = k
       /\ svcSeen[k] # Nil => svcSeen[k].key = k
  /\ \A k \in SliceKeys :
       /\ esStore[k] # Nil => esStore[k].key = k /\ esStore[k].label \in SliceLabels[k]
       /\ esSeen[k] # Nil => esSeen[k].key = k /\ esSeen[k].label \in SliceLabels[k]

CacheKeyed ==
  \A n \in ServiceNames : cache[n] # Nil =>
    /\ Name(cache[n].obj.key) = n
    /\ \A s \in SliceNames :
         cache[n].slices[s] # Nil => Name(cache[n].slices[s].key) = s

InOrder(seen, store) ==
  /\ seen # Nil => seen.rv <= rev
  /\ seen # Nil /\ store # Nil => seen = store \/ seen.rv < store.rv

DeliveryInOrder ==
  /\ \A k \in ServiceKeys : InOrder(svcSeen[k], svcStore[k])
  /\ \A k \in SliceKeys : InOrder(esSeen[k], esStore[k])
  /\ \A k \in ServiceKeys : svcStore[k] # Nil => svcStore[k].rv <= rev
  /\ \A k \in SliceKeys : esStore[k] # Nil => esStore[k].rv <= rev

Inv ==
  /\ TypeOK
  /\ ObjectsKeyed
  /\ CacheKeyed
  /\ DeliveryInOrder
  /\ EveryServiceCached
  /\ NoGhostSlices

\* As long as a service is registered, a slice attached to it stays attached
\* until the informer reports the slice deleted: no update of the service or
\* of another slice takes endpoints away.
AttachedUntilDeleted ==
  [][\A n \in ServiceNames, k \in SliceKeys :
       /\ Nil \notin {cache[n], cache'[n], esSeen'[k]}
       /\ cache[n].slices[Name(k)] # Nil
       => cache'[n].slices[Name(k)] # Nil]_vars

\* Dispatch's promise holds for the real cache: no change of the cluster state
\* is lost on its way to the xDS cache.
NoLostUpdate == D!NoLostUpdate

\* Unless the process is stopped or the last publication failed, the published
\* snapshot ends up reflecting the API server's objects: every service, every
\* slice of it, nothing else.  Slices that arrive before their service, or
\* survive its deletion, are attached by the informer's resync at the latest.
ConvergesToAPI ==
  <>done \/ <>[](ingestErr \/ Reflects(pub, svcStore, esStore))
=============================================================================
