------------------------- MODULE ControlPlaneProofs -------------------------
(***************************************************************************)
(* Theorems about ClusterState and ControlPlane, for any set of services,  *)
(* slices and versions.                                                    *)
(***************************************************************************)
EXTENDS ControlPlane, TLAPS

(* The operations of the cluster state *)

\* On versions of one length, comparing strings is comparing numbers.
LEMMA StringGeqSameLength ==
  ASSUME SameLength, NEW a \in Versions, NEW b \in Versions
  PROVE  StringGeq(a, b) <=> a >= b
BY VersionsAssumption DEF StringGeq, SameLength

\* updateService keeps the shape of the map and touches no other container.
LEMMA updateServiceType ==
  ASSUME NEW c \in Services, NEW svc \in Service
  PROVE  updateService(c, svc).services \in Services
<1> DEFINE n == Name(svc.key)
<1>1. n \in ServiceNames
  BY DEF ServiceNames, Service
<1>2. NewServiceContainer(svc) \in Container
  BY DEF NewServiceContainer, Container
<1>3. c[n] # Nil => Update(c[n], svc) \in Container
  BY <1>1 DEF Update, Services, Container
<1> QED
  BY <1>1, <1>2, <1>3 DEF updateService, Result, Services

\* deleteService keeps the shape of the map.
LEMMA deleteServiceType ==
  ASSUME NEW c \in Services, NEW svc \in Service
  PROVE  deleteService(c, svc).services \in Services
BY DEF deleteService, Result, Services

\* UpdatEndpointSlice keeps the shape of the map.
LEMMA UpdatEndpointSliceType ==
  ASSUME NEW c \in Services, NEW es \in Slice, NEW delete \in BOOLEAN
  PROVE  UpdatEndpointSlice(c, es, delete).services \in Services
<1>1. CASE es.label = NoLabel \/ c[es.label] = Nil
  BY <1>1 DEF UpdatEndpointSlice, Result
<1>2. CASE es.label # NoLabel /\ c[es.label] # Nil
  <2>1. es.label \in ServiceNames /\ Name(es.key) \in SliceNames
    BY <1>2 DEF Slice, Labels, SliceNames
  <2>2. c[es.label] \in Container
    BY <1>2, <2>1 DEF Services
  <2>3. UpdatEndpointslices(c[es.label], es, delete).container \in Container
    <3>1. deleteEndpointSlice(c[es.label], es).container \in Container
      BY <2>1, <2>2 DEF deleteEndpointSlice, Container
    <3>2. updateEndpointSlice(c[es.label], es).container \in Container
      BY <2>1, <2>2 DEF updateEndpointSlice, Container
    <3> QED
      BY <2>2, <3>1, <3>2 DEF UpdatEndpointslices
  <2> QED
    BY <1>2, <2>1, <2>3 DEF UpdatEndpointSlice, Result, Services
<1> QED
  BY <1>1, <1>2

\* An operation that reports no change made none, so that no event is needed.
LEMMA QuietMeansUnchanged ==
  ASSUME NEW c \in Services
  PROVE  /\ \A svc \in Service :
              ~updateService(c, svc).dispatch => updateService(c, svc).services = c
         /\ \A svc \in Service :
              ~deleteService(c, svc).dispatch => deleteService(c, svc).services = c
         /\ \A es \in Slice, delete \in BOOLEAN :
              ~UpdatEndpointSlice(c, es, delete).dispatch
                => UpdatEndpointSlice(c, es, delete).services = c
<1>1. ASSUME NEW svc \in Service, ~updateService(c, svc).dispatch
      PROVE  updateService(c, svc).services = c
  BY <1>1 DEF updateService, Result
<1>2. ASSUME NEW svc \in Service, ~deleteService(c, svc).dispatch
      PROVE  deleteService(c, svc).services = c
  BY <1>2 DEF deleteService, Result, Services
<1>3. ASSUME NEW es \in Slice, NEW delete \in BOOLEAN,
             ~UpdatEndpointSlice(c, es, delete).dispatch
      PROVE  UpdatEndpointSlice(c, es, delete).services = c
  <2>1. CASE es.label = NoLabel \/ c[es.label] = Nil
    BY <2>1 DEF UpdatEndpointSlice, Result
  <2>2. CASE es.label # NoLabel /\ c[es.label] # Nil
    <3> DEFINE r == UpdatEndpointslices(c[es.label], es, delete)
    <3>1. es.label \in ServiceNames /\ c[es.label] \in Container
      BY <2>2 DEF Slice, Labels, Services
    <3>2. r.status = "noop"
      BY <1>3, <2>2 DEF UpdatEndpointSlice, Result
    <3>3. r.container = c[es.label]
      BY <3>1, <3>2 DEF UpdatEndpointslices, updateEndpointSlice,
                        deleteEndpointSlice, Container
    <3> QED
      BY <2>2, <3>1, <3>3 DEF UpdatEndpointSlice, Result, Services
  <2> QED
    BY <2>1, <2>2
<1> QED
  BY <1>1, <1>2, <1>3

-----------------------------------------------------------------------------
(* Types, and the refinement of Dispatch *)

\* The control plane starts as Dispatch does, with an empty cache.
LEMMA InitTypeOK == Init => TypeOK
<1> SUFFICES ASSUME Init PROVE TypeOK
  OBVIOUS
<1>1. EmptyServices \in Services
  BY DEF EmptyServices, Services
<1>2. D!TypeOK
  BY <1>1 DEF Init, D!Init, D!TypeOK, D!HandlerPC, D!ReceiverPC
<1> QED
  BY <1>2 DEF Init, TypeOK

\* What a callback does is Apply, or nothing that Dispatch can see.
LEMMA CallbackRefines ==
  ASSUME NEW h \in Handlers, NEW result,
         result.services \in Services,
         ~result.dispatch => result.services = cache,
         Callback(h, result)
  PROVE  [D!Next]_(D!vars)
BY DEF Callback, D!Next, D!vars

\* Every callback hands a well-formed map to Dispatch, and asks for an event if
\* it changed anything.
LEMMA InformersRefine ==
  ASSUME TypeOK, Informers
  PROVE  [D!Next]_(D!vars)
<1> USE DEF Handlers
<1>0. cache \in Services
  BY DEF TypeOK, D!TypeOK
<1>1. ASSUME NEW k \in ServiceKeys, DeliverService(k) \/ ResyncService(k)
      PROVE  [D!Next]_(D!vars)
  <2>1. CASE OnServiceAdd(k)
    BY <1>0, <2>1, CallbackRefines, updateServiceType, QuietMeansUnchanged
       DEF TypeOK, OnServiceAdd, UpdateServices
  <2>2. CASE OnServiceUpdate(k)
    BY <1>0, <2>2, CallbackRefines, updateServiceType, QuietMeansUnchanged
       DEF TypeOK, OnServiceUpdate, UpdateServices
  <2>3. CASE OnServiceDelete(k)
    BY <1>0, <2>3, CallbackRefines, deleteServiceType, QuietMeansUnchanged
       DEF TypeOK, OnServiceDelete, UpdateServices
  <2>4. CASE ResyncService(k)
    BY <1>0, <2>4, CallbackRefines, updateServiceType, QuietMeansUnchanged
       DEF TypeOK, ResyncService, UpdateServices
  <2> QED
    BY <1>1, <2>1, <2>2, <2>3, <2>4 DEF DeliverService
<1>2. ASSUME NEW k \in SliceKeys, DeliverSlice(k) \/ ResyncEndpointSlice(k)
      PROVE  [D!Next]_(D!vars)
  <2>1. CASE OnEndpointSliceAdd(k)
    BY <1>0, <2>1, CallbackRefines, UpdatEndpointSliceType, QuietMeansUnchanged
       DEF TypeOK, OnEndpointSliceAdd
  <2>2. CASE OnEndpointSliceUpdate(k)
    BY <1>0, <2>2, CallbackRefines, UpdatEndpointSliceType, QuietMeansUnchanged
       DEF TypeOK, OnEndpointSliceUpdate
  <2>3. CASE OnEndpointSliceDelete(k)
    BY <1>0, <2>3, CallbackRefines, UpdatEndpointSliceType, QuietMeansUnchanged
       DEF TypeOK, OnEndpointSliceDelete
  <2>4. CASE ResyncEndpointSlice(k)
    BY <1>0, <2>4, CallbackRefines, UpdatEndpointSliceType, QuietMeansUnchanged
       DEF TypeOK, ResyncEndpointSlice
  <2> QED
    BY <1>2, <2>1, <2>2, <2>3, <2>4 DEF DeliverSlice
<1> QED
  BY <1>1, <1>2 DEF Informers

\* Every step of the control plane is a step of Dispatch or invisible to it.
LEMMA NextRefines == TypeOK /\ [Next]_vars => [D!Next]_(D!vars)
<1> SUFFICES ASSUME TypeOK, [Next]_vars
             PROVE  [D!Next]_(D!vars)
  OBVIOUS
<1>1. CASE API
  BY <1>1 DEF API, PutService, DropService, PutSlice, DropSlice, procVars, D!vars
<1>2. CASE Informers
  BY <1>2, InformersRefine
<1>3. CASE Process
  BY <1>3 DEF Process, D!Next
<1>4. CASE Exited \/ UNCHANGED vars
  BY <1>4 DEF Exited, vars, procVars, D!vars
<1> QED
  BY <1>1, <1>2, <1>3, <1>4 DEF Next

\* The theorems of Dispatch, for the cache of ControlPlane.
DP == INSTANCE DispatchProofs WITH
        CacheStates <- Services, EmptyCache <- EmptyServices

\* The same definitions under two names.
LEMMA SameNext == [D!Next]_(D!vars) <=> [DP!Next]_(DP!vars)
BY DEF D!Next, DP!Next, D!Apply, DP!Apply, D!dispatchEvent,
       DP!dispatchEvent, D!DispatchSend, DP!DispatchSend,
       D!DispatchDefault, DP!DispatchDefault, D!MarkEventLost,
       DP!MarkEventLost, D!Receiver, DP!Receiver, D!Iterate,
       DP!Iterate, D!ReceiveLost, DP!ReceiveLost, D!ReceiveBlock,
       DP!ReceiveBlock, D!ReceiveTimeout, DP!ReceiveTimeout,
       D!TakeSnapshot, DP!TakeSnapshot, D!Ingest, DP!Ingest,
       D!IngestFail, DP!IngestFail, D!Cancel, DP!Cancel, D!vars,
       DP!vars

\* The assumption of Dispatch holds for the empty map.
LEMMA EmptyIsServices == EmptyServices \in Services
BY DEF EmptyServices, Services

\* The state of Dispatch keeps its types.
LEMMA NextDispatchTypeOK == D!TypeOK /\ [D!Next]_(D!vars) => D!TypeOK'
<1>1. D!TypeOK <=> DP!TypeOK
  BY DEF D!TypeOK, DP!TypeOK, D!HandlerPC, DP!HandlerPC, D!ReceiverPC, DP!ReceiverPC
<1>2. D!TypeOK' <=> DP!TypeOK'
  BY DEF D!TypeOK, DP!TypeOK, D!HandlerPC, DP!HandlerPC, D!ReceiverPC, DP!ReceiverPC
<1>3. DP!TypeOK /\ [DP!Next]_(DP!vars) => DP!TypeOK'
  BY EmptyIsServices, DP!NextTypeOK
<1> QED
  BY <1>1, <1>2, <1>3, SameNext

\* The informers' and the API server's objects keep their types.
LEMMA NextTypeOK == TypeOK /\ [Next]_vars => TypeOK'
<1> SUFFICES ASSUME TypeOK, [Next]_vars
             PROVE  TypeOK'
  OBVIOUS
<1>1. D!TypeOK'
  BY NextRefines, NextDispatchTypeOK DEF TypeOK
<1>2. CASE API
  <2>1. ASSUME NEW k \in ServiceKeys, PutService(k) \/ DropService(k)
        PROVE  TypeOK'
    BY <1>1, <2>1 DEF PutService, DropService, NewVersion, TypeOK, seenVars, Service
  <2>2. ASSUME NEW k \in SliceKeys, PutSlice(k)
        PROVE  TypeOK'
    <3>1. PICK label \in SliceLabels[k] :
            esStore' = [esStore EXCEPT ![k] = [key |-> k, label |-> label, rv |-> rev']]
      BY <2>2 DEF PutSlice
    <3>2. label \in Labels
      BY LabelsAssumption
    <3> QED
      BY <1>1, <2>2, <3>1, <3>2 DEF PutSlice, NewVersion, TypeOK, seenVars, Slice
  <2>3. ASSUME NEW k \in SliceKeys, DropSlice(k)
        PROVE  TypeOK'
    BY <1>1, <2>3 DEF DropSlice, TypeOK, seenVars
  <2> QED
    BY <1>2, <2>1, <2>2, <2>3 DEF API
<1>3. CASE Informers
  BY <1>1, <1>3 DEF Informers, DeliverService, DeliverSlice, OnServiceAdd,
     OnServiceUpdate, OnServiceDelete, ResyncService, OnEndpointSliceAdd,
     OnEndpointSliceUpdate, OnEndpointSliceDelete, ResyncEndpointSlice,
     apiVars, seenVars, TypeOK
<1>4. CASE Process \/ Exited \/ UNCHANGED vars
  BY <1>1, <1>4 DEF Process, Exited, vars, apiVars, seenVars, TypeOK
<1> QED
  BY <1>2, <1>3, <1>4 DEF Next

\* In every reachable state the types hold.
THEOREM TypeCorrect == SafeSpec => []TypeOK
BY InitTypeOK, NextTypeOK, PTL DEF SafeSpec

\* The control plane with its real cache implements Dispatch.
THEOREM ImplementsDispatch == SafeSpec => D!SafeSpec
<1>1. Init => D!Init
  BY DEF Init
<1> QED
  BY <1>1, NextRefines, TypeCorrect, PTL DEF SafeSpec, D!SafeSpec

\* The same, in terms of the instance that carries Dispatch's theorems.
LEMMA DispatchTheoremsApply == SafeSpec => DP!SafeSpec
<1>1. Init => DP!Init
  BY DEF Init, D!Init, DP!Init
<1>2. TypeOK /\ [Next]_vars => [DP!Next]_(DP!vars)
  BY NextRefines, SameNext
<1> QED
  BY <1>1, <1>2, TypeCorrect, PTL DEF SafeSpec, DP!SafeSpec

\* No change of the real cluster state is lost on its way to the xDS cache.
THEOREM NoUpdateIsLost == SafeSpec => []NoLostUpdate
<1>1. DP!SafeSpec => []DP!NoLostUpdate
  BY EmptyIsServices, DP!NoUpdateIsLost
<1>2. DP!NoLostUpdate => NoLostUpdate
  BY DEF NoLostUpdate, D!NoLostUpdate, DP!NoLostUpdate, D!Pending, DP!Pending
<1> QED
  BY <1>1, <1>2, DispatchTheoremsApply, PTL

\* So the control plane with its real cache is a conflating mailbox of cluster
\* states (the safety part; fairness is left to TLC).
THEOREM ImplementsMailbox == SafeSpec => D!MB!MSafeSpec
<1>1. DP!SafeSpec => DP!MB!MSafeSpec
  BY EmptyIsServices, DP!ImplementsMailbox
<1>2. DP!MB!MInit => D!MB!MInit
  BY DEF DP!MB!MInit, D!MB!MInit, D!Pending, DP!Pending
<1>3. [DP!MB!MNext]_(DP!MB!mvars) => [D!MB!MNext]_(D!MB!mvars)
  BY DEF D!MB!MNext, DP!MB!MNext, D!MB!Put, DP!MB!Put, D!MB!Take, DP!MB!Take,
     D!MB!Deliver, DP!MB!Deliver, D!MB!Fail, DP!MB!Fail, D!MB!Close, DP!MB!Close,
     D!MB!mvars, DP!MB!mvars, D!Pending, DP!Pending
<1> QED
  BY <1>1, <1>2, <1>3, DispatchTheoremsApply, PTL DEF D!MB!MSafeSpec, DP!MB!MSafeSpec

-----------------------------------------------------------------------------
(* The cache and the informers' objects *)

\* What updateService does to every container, in terms of version numbers.
LEMMA updateServiceEffect ==
  ASSUME SameLength, NEW c \in Services, NEW svc \in Service
  PROVE  LET n == Name(svc.key)
             new == updateService(c, svc).services
         IN  /\ n \in ServiceNames
             /\ \A m \in ServiceNames \ {n} : new[m] = c[m]
             /\ c[n] # Nil /\ c[n].obj.rv >= svc.rv => new = c
             /\ c[n] # Nil /\ ~(c[n].obj.rv >= svc.rv) =>
                  new[n] # Nil /\ new[n].obj = svc /\ new[n].slices = c[n].slices
             /\ c[n] = Nil =>
                  new[n] # Nil /\ new[n].obj = svc /\ \A s \in SliceNames : new[n].slices[s] = Nil
<1> DEFINE n == Name(svc.key)
           new == updateService(c, svc).services
<1>1. n \in ServiceNames
  BY DEF ServiceNames, Service
<1>2. \A m \in ServiceNames \ {n} : new[m] = c[m]
  BY <1>1 DEF updateService, Result, Services
<1>3. ASSUME c[n] # Nil
      PROVE  /\ c[n].obj.rv >= svc.rv => new = c
             /\ ~(c[n].obj.rv >= svc.rv) =>
                  new[n] # Nil /\ new[n].obj = svc /\ new[n].slices = c[n].slices
  <2>1. c[n] \in Container /\ c[n].obj.rv \in Versions /\ svc.rv \in Versions
    BY <1>1, <1>3 DEF Services, Container, Service
  <2>2. StringGeq(c[n].obj.rv, svc.rv) <=> c[n].obj.rv >= svc.rv
    BY <2>1, StringGeqSameLength
  <2>3. Update(c[n], svc) \in Container
    BY <2>1 DEF Update, Container
  <2>4. Update(c[n], svc) # Nil
    BY <2>3, NilAssumption
  <2>5. Update(c[n], svc).obj = svc /\ Update(c[n], svc).slices = c[n].slices
    BY <2>1 DEF Update, Container
  <2> QED
    BY <1>1, <1>3, <2>2, <2>4, <2>5 DEF updateService, Result, Services
<1>4. ASSUME c[n] = Nil
      PROVE  new[n] # Nil /\ new[n].obj = svc /\ \A s \in SliceNames : new[n].slices[s] = Nil
  <2>1. NewServiceContainer(svc) \in Container
    BY DEF NewServiceContainer, Container
  <2>2. NewServiceContainer(svc) # Nil
    BY <2>1, NilAssumption
  <2> QED
    BY <1>1, <1>4, <2>2 DEF updateService, Result, Services, NewServiceContainer
<1> QED
  BY <1>1, <1>2, <1>3, <1>4

\* After a callback the cache is what its operation made of it.
LEMMA CallbackCache ==
  ASSUME NEW h, NEW result, Callback(h, result)
  PROVE  cache' = result.services
BY DEF Callback, D!Apply

\* A callback that delivers svc: it is newer than the cached version, or the
\* cache had none, or (on resync) has exactly this version.
LEMMA ServiceDelivered ==
  ASSUME SameLength, UniqueNames, Inv, NEW k \in ServiceKeys, NEW svc \in Service,
         svc.key = k,
         cache' = updateService(cache, svc).services,
         svcSeen' = [svcSeen EXCEPT ![k] = svc],
         svcSeen[k] # Nil => svcSeen[k] = svc \/ svcSeen[k].rv < svc.rv,
         UNCHANGED <<apiVars, esSeen>>
  PROVE  CacheKeyed' /\ EveryServiceCached' /\ NoGhostSlices'
<1> DEFINE n == Name(k)
<1> USE DEF Inv
<1>0. cache \in Services /\ svc # Nil
  BY NilAssumption DEF TypeOK, D!TypeOK
<1>1. /\ n \in ServiceNames
      /\ \A m \in ServiceNames \ {n} : cache'[m] = cache[m]
      /\ cache[n] # Nil /\ cache[n].obj.rv >= svc.rv => cache' = cache
      /\ cache[n] # Nil /\ ~(cache[n].obj.rv >= svc.rv) =>
           cache'[n] # Nil /\ cache'[n].obj = svc /\ cache'[n].slices = cache[n].slices
      /\ cache[n] = Nil =>
           cache'[n] # Nil /\ cache'[n].obj = svc
             /\ \A s \in SliceNames : cache'[n].slices[s] = Nil
  BY <1>0, updateServiceEffect
<1>2. cache[n] # Nil => cache[n].obj = svcSeen[k] /\ svcSeen[k] # Nil
  <2> SUFFICES ASSUME cache[n] # Nil
               PROVE  cache[n].obj = svcSeen[k] /\ svcSeen[k] # Nil
    OBVIOUS
  <2>1. cache[n].obj \in Service /\ cache[n].obj.key \in ServiceKeys
    BY <1>0, <1>1 DEF Services, Container, Service
  <2>2. cache[n].obj.key = k
    BY <1>1, <2>1 DEF CacheKeyed, UniqueNames
  <2>3. cache[n].obj # Nil
    BY <2>1, NilAssumption
  <2> QED
    BY <1>1, <2>2, <2>3 DEF EveryServiceCached, ServicesCurrent
<1>3. cache'[n] # Nil /\ cache'[n].obj = svc
  <2>1. CASE cache[n] = Nil
    BY <1>1, <2>1
  <2>2. CASE cache[n] # Nil /\ svcSeen[k] = svc
    BY <1>1, <1>2, <2>2
  <2>3. CASE cache[n] # Nil /\ svcSeen[k].rv < svc.rv
    <3>1. svcSeen[k].rv \in Nat /\ svc.rv \in Nat
      BY <1>2, <2>3, VersionsAssumption DEF TypeOK, Service
    <3> QED
      BY <1>1, <1>2, <2>3, <3>1
  <2> QED
    BY <1>2, <2>1, <2>2, <2>3
<1>4. /\ \A m \in ServiceNames \ {n} : cache'[m] = cache[m]
      /\ \A s \in SliceNames :
           cache'[n].slices[s] # Nil =>
             cache[n] # Nil /\ cache'[n].slices[s] = cache[n].slices[s]
  BY <1>1
<1>5. CacheKeyed'
  BY <1>3, <1>4 DEF CacheKeyed
<1>6. NoGhostSlices'
  BY <1>3, <1>4 DEF NoGhostSlices, SlicesCurrent
<1>7. svcSeen'[k] = svc /\ \A l \in ServiceKeys \ {k} : svcSeen'[l] = svcSeen[l]
  BY DEF TypeOK
<1>8. ServicesPresent(cache, svcSeen)'
  <2> SUFFICES ASSUME NEW l \in ServiceKeys, svcSeen'[l] # Nil
               PROVE  cache'[Name(l)] # Nil /\ cache'[Name(l)].obj = svcSeen'[l]
    BY DEF ServicesPresent
  <2>1. CASE l = k
    BY <2>1, <1>3, <1>7
  <2>2. CASE l # k
    <3>1. Name(l) # n /\ Name(l) \in ServiceNames
      BY <2>2 DEF UniqueNames, ServiceNames
    <3> QED
      BY <2>2, <3>1, <1>4, <1>7 DEF EveryServiceCached, ServicesPresent
  <2> QED
    BY <2>1, <2>2
<1>9. ServicesCurrent(cache, svcSeen)'
  <2> SUFFICES ASSUME NEW m \in ServiceNames, cache'[m] # Nil
               PROVE  svcSeen'[cache'[m].obj.key] = cache'[m].obj
    BY DEF ServicesCurrent
  <2>1. CASE m = n
    BY <2>1, <1>3, <1>7
  <2>2. CASE m # n
    <3>1. cache'[m] = cache[m] /\ cache[m].obj.key # k
      BY <2>2, <1>4 DEF CacheKeyed
    <3>2. cache[m].obj.key \in ServiceKeys
      BY <2>2, <3>1, <1>0 DEF Services, Container, Service
    <3> QED
      BY <3>1, <3>2, <1>7 DEF EveryServiceCached, ServicesCurrent
  <2> QED
    BY <2>1, <2>2
<1> QED
  BY <1>5, <1>6, <1>8, <1>9 DEF EveryServiceCached

\* A callback that deletes the service the informer knew under key k.
LEMMA ServiceDeleted ==
  ASSUME UniqueNames, Inv, NEW k \in ServiceKeys, svcSeen[k] # Nil,
         cache' = deleteService(cache, svcSeen[k]).services,
         svcSeen' = [svcSeen EXCEPT ![k] = Nil],
         UNCHANGED <<apiVars, esSeen>>
  PROVE  CacheKeyed' /\ EveryServiceCached' /\ NoGhostSlices'
<1> DEFINE n == Name(k)
<1> USE DEF Inv
<1>0. cache \in Services /\ svcSeen[k].key = k /\ n \in ServiceNames
  BY DEF TypeOK, D!TypeOK, ObjectsKeyed, ServiceNames
<1>1. cache'[n] = Nil /\ \A m \in ServiceNames \ {n} : cache'[m] = cache[m]
  BY <1>0 DEF deleteService, Result, Services
<1>2. svcSeen'[k] = Nil /\ \A l \in ServiceKeys \ {k} : svcSeen'[l] = svcSeen[l]
  BY DEF TypeOK
<1>3. CacheKeyed'
  BY <1>1 DEF CacheKeyed
<1>4. NoGhostSlices'
  BY <1>1 DEF NoGhostSlices, SlicesCurrent
<1>5. ServicesPresent(cache, svcSeen)'
  <2> SUFFICES ASSUME NEW l \in ServiceKeys, svcSeen'[l] # Nil
               PROVE  cache'[Name(l)] # Nil /\ cache'[Name(l)].obj = svcSeen'[l]
    BY DEF ServicesPresent
  <2>1. Name(l) # n /\ Name(l) \in ServiceNames /\ l # k
    BY <1>2 DEF UniqueNames, ServiceNames
  <2> QED
    BY <1>1, <1>2, <2>1 DEF EveryServiceCached, ServicesPresent
<1>6. ServicesCurrent(cache, svcSeen)'
  <2> SUFFICES ASSUME NEW m \in ServiceNames, cache'[m] # Nil
               PROVE  svcSeen'[cache'[m].obj.key] = cache'[m].obj
    BY DEF ServicesCurrent
  <2>1. cache'[m] = cache[m] /\ m # n
    BY <1>1
  <2>2. cache[m].obj.key # k /\ cache[m].obj.key \in ServiceKeys
    BY <1>0, <2>1 DEF CacheKeyed, Services, Container, Service
  <2> QED
    BY <1>2, <2>1, <2>2 DEF EveryServiceCached, ServicesCurrent
<1> QED
  BY <1>3, <1>4, <1>5, <1>6 DEF EveryServiceCached

\* What UpdatEndpointSlice does to every container: the objects stay, and of
\* the slices only the named one, in the container it names, may change.
LEMMA UpdatEndpointSliceEffect ==
  ASSUME SameLength, NEW c \in Services, NEW es \in Slice, NEW delete \in BOOLEAN,
         es.label \in ServiceNames /\ c[es.label] # Nil =>
           Name(c[es.label].obj.key) = es.label
  PROVE  LET n == es.label
             s == Name(es.key)
             new == UpdatEndpointSlice(c, es, delete).services
         IN  /\ \A m \in ServiceNames :
                  /\ new[m] # Nil <=> c[m] # Nil
                  /\ c[m] # Nil => new[m].obj = c[m].obj
                  /\ \A t \in SliceNames :
                       c[m] # Nil /\ <<m, t>> # <<n, s>> =>
                         new[m].slices[t] = c[m].slices[t]
             /\ n \in ServiceNames /\ c[n] # Nil =>
                  IF delete THEN new[n].slices[s] = Nil
                  ELSE IF c[n].slices[s] # Nil /\ c[n].slices[s].rv >= es.rv
                       THEN new[n].slices[s] = c[n].slices[s]
                       ELSE new[n].slices[s] = es
<1> DEFINE n == es.label
           s == Name(es.key)
           new == UpdatEndpointSlice(c, es, delete).services
<1>0. s \in SliceNames /\ n \in ServiceNames \cup {NoLabel} /\ NoLabel \notin ServiceNames
  BY LabelsAssumption DEF Slice, SliceNames, Labels
<1>1. CASE n = NoLabel \/ c[n] = Nil
  <2>1. new = c
    BY <1>1 DEF UpdatEndpointSlice, Result
  <2> QED
    BY <1>0, <1>1, <2>1
<1>2. CASE n # NoLabel /\ c[n] # Nil
  <2> DEFINE r == UpdatEndpointslices(c[n], es, delete).container
  <2>1. n \in ServiceNames /\ c[n] \in Container /\ Name(c[n].obj.key) = n
    BY <1>0, <1>2 DEF Services
  <2>2. new = [c EXCEPT ![n] = r]
    BY <1>2 DEF UpdatEndpointSlice, Result
  <2>3. /\ r \in Container
        /\ r.obj = c[n].obj
        /\ \A t \in SliceNames \ {s} : r.slices[t] = c[n].slices[t]
        /\ IF delete THEN r.slices[s] = Nil
           ELSE IF c[n].slices[s] # Nil /\ c[n].slices[s].rv >= es.rv
                THEN r.slices[s] = c[n].slices[s]
                ELSE r.slices[s] = es
    <3>1. CASE delete
      <4>1. r = [c[n] EXCEPT !.slices[s] = Nil]
        BY <2>1, <3>1 DEF UpdatEndpointslices, deleteEndpointSlice
      <4> QED
        BY <1>0, <2>1, <3>1, <4>1 DEF Container
    <3>2. CASE ~delete
      <4>1. c[n].slices[s] # Nil =>
              (StringGeq(c[n].slices[s].rv, es.rv) <=> c[n].slices[s].rv >= es.rv)
        BY <1>0, <2>1, StringGeqSameLength DEF Container, Slice
      <4>2. r = IF c[n].slices[s] # Nil /\ c[n].slices[s].rv >= es.rv
                THEN c[n] ELSE [c[n] EXCEPT !.slices[s] = es]
        BY <2>1, <3>2, <4>1 DEF UpdatEndpointslices, updateEndpointSlice
      <4> QED
        BY <1>0, <2>1, <3>2, <4>2 DEF Container
    <3> QED
      BY <3>1, <3>2
  <2>4. r # Nil
    BY <2>3, NilAssumption
  <2>5. new[n] = r /\ \A m \in ServiceNames \ {n} : new[m] = c[m]
    BY <2>1, <2>2 DEF Services
  <2> QED
    BY <1>0, <1>2, <2>1, <2>3, <2>4, <2>5
<1> QED
  BY <1>1, <1>2

\* A callback that delivers or deletes a slice: a cached copy of it is the
\* version the informer knew, so it is replaced, kept or removed as it must.
LEMMA SliceHandled ==
  ASSUME SameLength, UniqueNames, FixedLabels, Inv,
         NEW k \in SliceKeys, NEW es \in Slice, NEW delete \in BOOLEAN,
         es.key = k, es.label \in SliceLabels[k],
         cache' = UpdatEndpointSlice(cache, es, delete).services,
         esSeen' = [esSeen EXCEPT ![k] = IF delete THEN Nil ELSE es],
         esSeen[k] # Nil => esSeen[k] = es \/ esSeen[k].rv < es.rv,
         UNCHANGED <<apiVars, svcSeen>>
  PROVE  CacheKeyed' /\ EveryServiceCached' /\ NoGhostSlices'
<1> DEFINE n == es.label
           s == Name(k)
<1> USE DEF Inv
<1>0. cache \in Services /\ es # Nil
  BY NilAssumption DEF TypeOK, D!TypeOK
<1>1. /\ \A m \in ServiceNames :
           /\ cache'[m] # Nil <=> cache[m] # Nil
           /\ cache[m] # Nil => cache'[m].obj = cache[m].obj
           /\ \A t \in SliceNames :
                cache[m] # Nil /\ <<m, t>> # <<n, s>> =>
                  cache'[m].slices[t] = cache[m].slices[t]
      /\ n \in ServiceNames /\ cache[n] # Nil =>
           IF delete THEN cache'[n].slices[s] = Nil
           ELSE IF cache[n].slices[s] # Nil /\ cache[n].slices[s].rv >= es.rv
                THEN cache'[n].slices[s] = cache[n].slices[s]
                ELSE cache'[n].slices[s] = es
  BY <1>0, UpdatEndpointSliceEffect DEF CacheKeyed
\* A cached copy of the slice is what the informer knew, and under this label.
<1>2. ASSUME NEW m \in ServiceNames, cache[m] # Nil, cache[m].slices[s] # Nil
      PROVE  esSeen[k] = cache[m].slices[s] /\ m = n
  <2>0. s \in SliceNames
    BY DEF SliceNames
  <2>1. cache[m].slices[s].key \in SliceKeys
    BY <1>0, <1>2, <2>0 DEF Services, Container, Slice
  <2>2. cache[m].slices[s].key = k
    BY <1>2, <2>0, <2>1 DEF CacheKeyed, UniqueNames
  <2>3. esSeen[k] = cache[m].slices[s] /\ cache[m].slices[s].label = m
    BY <1>2, <2>0, <2>2 DEF NoGhostSlices, SlicesCurrent
  <2> QED
    BY <1>2, <2>3 DEF ObjectsKeyed, FixedLabels
\* After the callback a copy is exactly what was delivered.
<1>3. ASSUME NEW m \in ServiceNames, cache'[m] # Nil, cache'[m].slices[s] # Nil
      PROVE  ~delete /\ m = n /\ cache'[m].slices[s] = es
  <2>0. s \in SliceNames /\ cache[m] # Nil
    BY <1>1, <1>3 DEF SliceNames
  <2>1. m = n
    BY <1>1, <1>2, <1>3, <2>0
  <2>2. cache[n].slices[s] # Nil /\ cache[n].slices[s].rv >= es.rv
          => cache[n].slices[s] = es
    <3> SUFFICES ASSUME cache[n].slices[s] # Nil, cache[n].slices[s].rv >= es.rv
                 PROVE  cache[n].slices[s] = es
      OBVIOUS
    <3>1. esSeen[k] = cache[n].slices[s]
      BY <1>2, <2>0, <2>1
    <3>2. esSeen[k].rv \in Nat /\ es.rv \in Nat
      BY <3>1, VersionsAssumption DEF TypeOK, Slice
    <3> QED
      BY <3>1, <3>2
  <2> QED
    BY <1>1, <1>3, <2>0, <2>1, <2>2
<1>4. CacheKeyed'
  BY <1>1, <1>3 DEF CacheKeyed
<1>5. EveryServiceCached'
  <2>1. \A l \in ServiceKeys : Name(l) \in ServiceNames
    BY DEF ServiceNames
  <2> QED
    BY <1>1, <2>1 DEF EveryServiceCached, ServicesPresent, ServicesCurrent
<1>6. NoGhostSlices'
  <2> SUFFICES ASSUME NEW m \in ServiceNames, NEW t \in SliceNames,
                      cache'[m] # Nil, cache'[m].slices[t] # Nil
               PROVE  /\ esSeen'[cache'[m].slices[t].key] = cache'[m].slices[t]
                      /\ cache'[m].slices[t].label = m
    BY DEF NoGhostSlices, SlicesCurrent
  <2>1. CASE t = s
    BY <1>3, <2>1 DEF TypeOK
  <2>2. CASE t # s
    <3>1. cache[m] # Nil /\ cache'[m].slices[t] = cache[m].slices[t]
      BY <1>1, <2>2
    <3>2. cache[m].slices[t].key # k /\ cache[m].slices[t].key \in SliceKeys
      BY <1>0, <2>2, <3>1 DEF CacheKeyed, Services, Container, Slice
    <3> QED
      BY <3>1, <3>2 DEF TypeOK, NoGhostSlices, SlicesCurrent
  <2> QED
    BY <2>1, <2>2
<1> QED
  BY <1>4, <1>5, <1>6

\* Versions of delivered objects are numbers.
LEMMA VersionNumbers ==
  ASSUME TypeOK
  PROVE  /\ \A k \in ServiceKeys : svcSeen[k] # Nil => svcSeen[k].rv \in Nat
         /\ \A k \in ServiceKeys : svcStore[k] # Nil => svcStore[k].rv \in Nat
         /\ \A k \in SliceKeys : esSeen[k] # Nil => esSeen[k].rv \in Nat
         /\ \A k \in SliceKeys : esStore[k] # Nil => esStore[k].rv \in Nat
BY VersionsAssumption DEF TypeOK, Service, Slice

\* Every step keeps the invariant.
LEMMA NextInv ==
  ASSUME UniqueNames, SameLength, FixedLabels, Inv, [Next]_vars
  PROVE  Inv'
<1> DEFINE Rest == CacheKeyed /\ EveryServiceCached /\ NoGhostSlices
<1> DEFINE Objects == ObjectsKeyed /\ DeliveryInOrder
<1> SUFFICES Objects' /\ Rest'
  BY NextTypeOK DEF Inv
<1>0. TypeOK /\ rev \in Nat
  BY VersionsAssumption, FirstVersionAssumption DEF Inv, TypeOK
\* Steps that change neither the cache nor what the informers delivered.
<1>1. ASSUME UNCHANGED <<cache, seenVars>>
      PROVE  Rest'
  BY <1>1 DEF Inv, CacheKeyed, EveryServiceCached, ServicesPresent, ServicesCurrent,
              NoGhostSlices, SlicesCurrent, seenVars
<1>2. ASSUME NEW k \in ServiceKeys, PutService(k) \/ DropService(k)
      PROVE  Objects' /\ Rest'
  <2>1. Rest'
    BY <1>1, <1>2 DEF PutService, DropService, procVars
  <2>2. /\ UNCHANGED <<esStore, svcSeen, esSeen>>
        /\ \A l \in ServiceKeys \ {k} : svcStore'[l] = svcStore[l]
    BY <1>0, <1>2 DEF PutService, DropService, seenVars, TypeOK
  <2>3. \/ rev' = rev + 1 /\ svcStore'[k] = [key |-> k, rv |-> rev']
        \/ rev' = rev /\ svcStore'[k] = Nil
    BY <1>0, <1>2 DEF PutService, DropService, NewVersion, TypeOK
  <2>4. ObjectsKeyed'
    BY <2>2, <2>3 DEF Inv, ObjectsKeyed
  <2>5. DeliveryInOrder'
    BY <1>0, <2>2, <2>3, VersionNumbers DEF Inv, DeliveryInOrder, InOrder
  <2> QED
    BY <2>1, <2>4, <2>5
<1>3. ASSUME NEW k \in SliceKeys, PutSlice(k) \/ DropSlice(k)
      PROVE  Objects' /\ Rest'
  <2>1. Rest'
    BY <1>1, <1>3 DEF PutSlice, DropSlice, procVars
  <2>2. /\ UNCHANGED <<svcStore, svcSeen, esSeen>>
        /\ \A l \in SliceKeys \ {k} : esStore'[l] = esStore[l]
    BY <1>0, <1>3 DEF PutSlice, DropSlice, seenVars, TypeOK
  <2>3. \/ /\ rev' = rev + 1
           /\ esStore'[k].key = k /\ esStore'[k].rv = rev'
           /\ esStore'[k].label \in SliceLabels[k]
        \/ rev' = rev /\ esStore'[k] = Nil
    <3>1. CASE PutSlice(k)
      <4>1. PICK label \in SliceLabels[k] :
              esStore' = [esStore EXCEPT ![k] = [key |-> k, label |-> label, rv |-> rev']]
        BY <3>1 DEF PutSlice
      <4>2. esStore'[k] = [key |-> k, label |-> label, rv |-> rev']
        BY <1>0, <4>1 DEF TypeOK
      <4> QED
        BY <3>1, <4>2 DEF PutSlice, NewVersion
    <3>2. CASE DropSlice(k)
      BY <1>0, <3>2 DEF DropSlice, TypeOK
    <3> QED
      BY <1>3, <3>1, <3>2
  <2>4. ObjectsKeyed'
    BY <2>2, <2>3 DEF Inv, ObjectsKeyed
  <2>5. DeliveryInOrder'
    BY <1>0, <2>2, <2>3, VersionNumbers DEF Inv, DeliveryInOrder, InOrder
  <2> QED
    BY <2>1, <2>4, <2>5
<1>4. CASE Informers
  <2>0. /\ UNCHANGED <<svcStore, esStore, rev>>
        /\ \A k \in ServiceKeys : svcSeen'[k] \in {svcSeen[k], svcStore[k]}
        /\ \A k \in SliceKeys : esSeen'[k] \in {esSeen[k], esStore[k]}
    BY <1>0, <1>4
       DEF Informers, DeliverService, DeliverSlice, OnServiceAdd, OnServiceUpdate,
           OnServiceDelete, ResyncService, OnEndpointSliceAdd, OnEndpointSliceUpdate,
           OnEndpointSliceDelete, ResyncEndpointSlice, apiVars, seenVars, TypeOK
  <2>1. Objects'
    <3>1. ObjectsKeyed'
      BY <2>0 DEF Inv, ObjectsKeyed
    <3>2. DeliveryInOrder'
      BY <2>0 DEF Inv, DeliveryInOrder, InOrder
    <3> QED
      BY <3>1, <3>2
  <2>2. ASSUME NEW k \in ServiceKeys, DeliverService(k) \/ ResyncService(k)
        PROVE  Rest'
    <3>1. CASE OnServiceAdd(k) \/ OnServiceUpdate(k)
      BY <3>1, CallbackCache, ServiceDelivered
         DEF OnServiceAdd, OnServiceUpdate, Inv, TypeOK, ObjectsKeyed, DeliveryInOrder,
             InOrder, UpdateServices
    <3>2. CASE OnServiceDelete(k)
      BY <3>2, CallbackCache, ServiceDeleted DEF OnServiceDelete, UpdateServices
    <3>3. CASE ResyncService(k)
      <4>1. svcSeen' = [svcSeen EXCEPT ![k] = svcSeen[k]]
        BY <1>0, <3>3 DEF ResyncService, seenVars, TypeOK
      <4> QED
        <5>1. /\ svcSeen[k] \in Service /\ svcSeen[k].key = k
              /\ UNCHANGED <<apiVars, esSeen>>
          BY <1>0, <3>3 DEF ResyncService, seenVars, Inv, TypeOK, ObjectsKeyed
        <5>2. cache' = updateService(cache, svcSeen[k]).services
          BY <3>3, CallbackCache DEF ResyncService, UpdateServices
        <5> QED
          BY <4>1, <5>1, <5>2, ServiceDelivered
    <3> QED
      BY <2>2, <3>1, <3>2, <3>3 DEF DeliverService
  <2>3. ASSUME NEW k \in SliceKeys, DeliverSlice(k) \/ ResyncEndpointSlice(k)
        PROVE  Rest'
    <3>1. CASE OnEndpointSliceAdd(k) \/ OnEndpointSliceUpdate(k)
      <4>1. /\ esStore[k] \in Slice /\ esStore[k].key = k
            /\ esStore[k].label \in SliceLabels[k]
            /\ esSeen[k] # Nil => esSeen[k] = esStore[k] \/ esSeen[k].rv < esStore[k].rv
            /\ esSeen' = [esSeen EXCEPT ![k] = IF FALSE THEN Nil ELSE esStore[k]]
            /\ UNCHANGED <<apiVars, svcSeen>>
        BY <1>0, <3>1 DEF OnEndpointSliceAdd, OnEndpointSliceUpdate, Inv, TypeOK,
                          ObjectsKeyed, DeliveryInOrder, InOrder
      <4>2. cache' = UpdatEndpointSlice(cache, esStore[k], FALSE).services
        BY <3>1, CallbackCache DEF OnEndpointSliceAdd, OnEndpointSliceUpdate
      <4> QED
        BY <4>1, <4>2, SliceHandled
    <3>2. CASE OnEndpointSliceDelete(k)
      <4>1. /\ esSeen[k] \in Slice /\ esSeen[k].key = k
            /\ esSeen[k].label \in SliceLabels[k]
            /\ esSeen' = [esSeen EXCEPT ![k] = IF TRUE THEN Nil ELSE esSeen[k]]
            /\ UNCHANGED <<apiVars, svcSeen>>
        BY <1>0, <3>2 DEF OnEndpointSliceDelete, Inv, TypeOK, ObjectsKeyed
      <4>2. cache' = UpdatEndpointSlice(cache, esSeen[k], TRUE).services
        BY <3>2, CallbackCache DEF OnEndpointSliceDelete
      <4> QED
        BY <4>1, <4>2, SliceHandled
    <3>3. CASE ResyncEndpointSlice(k)
      <4>1. esSeen' = [esSeen EXCEPT ![k] = IF FALSE THEN Nil ELSE esSeen[k]]
        BY <1>0, <3>3 DEF ResyncEndpointSlice, seenVars, TypeOK
      <4>2. /\ esSeen[k] \in Slice /\ esSeen[k].key = k
            /\ esSeen[k].label \in SliceLabels[k]
            /\ UNCHANGED <<apiVars, svcSeen>>
        BY <1>0, <3>3 DEF ResyncEndpointSlice, seenVars, Inv, TypeOK, ObjectsKeyed
      <4>3. cache' = UpdatEndpointSlice(cache, esSeen[k], FALSE).services
        BY <3>3, CallbackCache DEF ResyncEndpointSlice
      <4> QED
        BY <4>1, <4>2, <4>3, SliceHandled
    <3> QED
      BY <2>3, <3>1, <3>2, <3>3 DEF DeliverSlice
  <2> QED
    BY <1>4, <2>1, <2>2, <2>3 DEF Informers
<1>5. CASE Process \/ Exited \/ UNCHANGED vars
  <2>1. UNCHANGED <<cache, apiVars, seenVars>>
    BY <1>5 DEF Process, Exited, vars, procVars, D!dispatchEvent, D!DispatchSend,
       D!DispatchDefault, D!MarkEventLost, D!Receiver, D!Iterate, D!ReceiveLost,
       D!ReceiveBlock, D!ReceiveTimeout, D!TakeSnapshot, D!Ingest, D!IngestFail, D!Cancel
  <2>2. Objects'
    BY <2>1 DEF Inv, ObjectsKeyed, DeliveryInOrder, InOrder, apiVars, seenVars
  <2> QED
    BY <1>1, <2>1, <2>2
<1> QED
  BY <1>2, <1>3, <1>4, <1>5 DEF Next, API

\* The initial state satisfies the invariant: nothing stored, nothing cached.
LEMMA InitInv == Init => Inv
<1> SUFFICES ASSUME Init PROVE Inv
  OBVIOUS
<1>1. \A n \in ServiceNames : cache[n] = Nil
  BY DEF Init, D!Init, EmptyServices
<1>2. ObjectsKeyed /\ DeliveryInOrder
  BY DEF Init, ObjectsKeyed, DeliveryInOrder, InOrder
<1>3. CacheKeyed /\ EveryServiceCached /\ NoGhostSlices
  BY <1>1 DEF Init, CacheKeyed, EveryServiceCached, ServicesPresent,
              ServicesCurrent, NoGhostSlices, SlicesCurrent
<1> QED
  BY <1>2, <1>3, InitTypeOK DEF Inv

\* In a cluster whose names are unique without their namespace, while resource
\* versions keep their length and slices their label, the cache knows exactly
\* the services the informer delivered, in the version delivered last.
THEOREM ServicesAreCached ==
  ASSUME UniqueNames, SameLength, FixedLabels
  PROVE  SafeSpec => []EveryServiceCached
<1>1. Inv /\ [Next]_vars => Inv'
  BY NextInv
<1>2. Inv => EveryServiceCached
  BY DEF Inv
<1> QED
  BY <1>1, <1>2, InitInv, PTL DEF SafeSpec

\* In such a cluster no cached slice outlives its deletion or is older than
\* what the informer delivered last.
THEOREM NoSliceIsGhost ==
  ASSUME UniqueNames, SameLength, FixedLabels
  PROVE  SafeSpec => []NoGhostSlices
<1>1. Inv /\ [Next]_vars => Inv'
  BY NextInv
<1>2. Inv => NoGhostSlices
  BY DEF Inv
<1> QED
  BY <1>1, <1>2, InitInv, PTL DEF SafeSpec

-----------------------------------------------------------------------------
(* Attached slices *)

\* Neither the update of a service nor that of a slice detaches a slice, and a
\* deletion detaches no slice of another name.
LEMMA SlicesKept ==
  ASSUME NEW c \in Services, NEW n \in ServiceNames, NEW s \in SliceNames,
         c[n] # Nil, c[n].slices[s] # Nil
  PROVE  /\ \A svc \in Service : updateService(c, svc).services[n].slices[s] # Nil
         /\ \A svc \in Service :
              \/ deleteService(c, svc).services[n] = Nil
              \/ deleteService(c, svc).services[n] = c[n]
         /\ \A es \in Slice, delete \in BOOLEAN :
              ~delete \/ s # Name(es.key) =>
                UpdatEndpointSlice(c, es, delete).services[n].slices[s] # Nil
<1>1. c[n] \in Container
  BY DEF Services
<1>2. ASSUME NEW svc \in Service
      PROVE  updateService(c, svc).services[n].slices[s] # Nil
  <2> DEFINE m == Name(svc.key)
  <2>1. updateService(c, svc).services \in {c, [c EXCEPT ![m] = IF c[m] # Nil
                                              THEN Update(c[m], svc)
                                              ELSE NewServiceContainer(svc)]}
    BY DEF updateService, Result
  <2>2. Update(c[n], svc).slices = c[n].slices
    BY <1>1 DEF Update, Container
  <2> QED
    BY <2>1, <2>2 DEF Services
<1>3. ASSUME NEW svc \in Service
      PROVE  \/ deleteService(c, svc).services[n] = Nil
             \/ deleteService(c, svc).services[n] = c[n]
  BY DEF deleteService, Result, Services
<1>4. ASSUME NEW es \in Slice, NEW delete \in BOOLEAN, ~delete \/ s # Name(es.key)
      PROVE  UpdatEndpointSlice(c, es, delete).services[n].slices[s] # Nil
  <2> DEFINE r == UpdatEndpointslices(c[es.label], es, delete).container
             t == Name(es.key)
  <2>1. UpdatEndpointSlice(c, es, delete).services \in {c, [c EXCEPT ![es.label] = r]}
    BY DEF UpdatEndpointSlice, Result
  <2>2. es.label = n => r.slices[s] # Nil
    <3> SUFFICES ASSUME es.label = n PROVE r.slices[s] # Nil
      OBVIOUS
    <3>1. CASE r = c[n]
      BY <3>1
    <3>2. CASE delete /\ r = [c[n] EXCEPT !.slices[t] = Nil]
      BY <1>1, <1>4, <3>2 DEF Container
    <3>3. CASE r = [c[n] EXCEPT !.slices[t] = es]
      BY <1>1, <3>3, NilAssumption DEF Container
    <3> QED
      BY <3>1, <3>2, <3>3
         DEF UpdatEndpointslices, updateEndpointSlice, deleteEndpointSlice
  <2> HIDE DEF r
  <2> QED
    BY <2>1, <2>2 DEF Services
<1> QED
  BY <1>2, <1>3, <1>4

\* The informers hand over objects under their own keys.
LEMMA KeysStay == TypeOK /\ ObjectsKeyed /\ [Next]_vars => ObjectsKeyed'
<1> SUFFICES ASSUME TypeOK, ObjectsKeyed, [Next]_vars PROVE ObjectsKeyed'
  OBVIOUS
<1>1. ASSUME NEW k \in ServiceKeys, PutService(k) \/ DropService(k)
      PROVE  ObjectsKeyed'
  BY <1>1 DEF PutService, DropService, seenVars, TypeOK, ObjectsKeyed
<1>2. ASSUME NEW k \in SliceKeys, PutSlice(k)
      PROVE  ObjectsKeyed'
  BY <1>2 DEF PutSlice, seenVars, TypeOK, ObjectsKeyed
<1>3. ASSUME NEW k \in SliceKeys, DropSlice(k)
      PROVE  ObjectsKeyed'
  BY <1>3 DEF DropSlice, seenVars, TypeOK, ObjectsKeyed
<1>4. ASSUME UNCHANGED apiVars,
             \/ UNCHANGED seenVars
             \/ /\ UNCHANGED esSeen
                /\ \E k \in ServiceKeys : \E o \in {svcStore[k], Nil} :
                     svcSeen' = [svcSeen EXCEPT ![k] = o]
             \/ /\ UNCHANGED svcSeen
                /\ \E k \in SliceKeys : \E o \in {esStore[k], Nil} :
                     esSeen' = [esSeen EXCEPT ![k] = o]
      PROVE  ObjectsKeyed'
  BY <1>4 DEF apiVars, seenVars, TypeOK, ObjectsKeyed
<1>5. CASE Informers
  BY <1>4, <1>5 DEF Informers, DeliverService, DeliverSlice, OnServiceAdd,
     OnServiceUpdate, OnServiceDelete, ResyncService, OnEndpointSliceAdd,
     OnEndpointSliceUpdate, OnEndpointSliceDelete, ResyncEndpointSlice
<1>6. CASE Process \/ Exited \/ UNCHANGED vars
  BY <1>4, <1>6 DEF Process, Exited, vars
<1> QED
  BY <1>1, <1>2, <1>3, <1>5, <1>6 DEF Next, API

\* Where slice names are unique, whatever happens to services and to other
\* slices, and however versions compare, an attached slice stays attached until
\* its service goes or the informer reports it deleted.
THEOREM AttachedSlicesStay ==
  ASSUME UniqueNames
  PROVE  SafeSpec => AttachedUntilDeleted
<1> DEFINE Kept ==
      \A n \in ServiceNames, k \in SliceKeys :
        /\ Nil \notin {cache[n], cache'[n], esSeen'[k]}
        /\ cache[n].slices[Name(k)] # Nil
        => cache'[n].slices[Name(k)] # Nil
<1>1. Init => ObjectsKeyed
  BY DEF Init, ObjectsKeyed
<1>2. TypeOK /\ ObjectsKeyed /\ [Next]_vars => [Kept]_vars
  <2> SUFFICES ASSUME TypeOK, ObjectsKeyed, [Next]_vars,
                      NEW n \in ServiceNames, NEW k \in SliceKeys,
                      Nil \notin {cache[n], cache'[n], esSeen'[k]},
                      cache[n].slices[Name(k)] # Nil
               PROVE  cache'[n].slices[Name(k)] # Nil
    OBVIOUS
  <2>0. cache \in Services /\ Name(k) \in SliceNames
    BY DEF TypeOK, D!TypeOK, SliceNames
  <2>1. CASE cache' = cache
    BY <2>1
  <2>2. ASSUME NEW l \in ServiceKeys, DeliverService(l) \/ ResyncService(l)
        PROVE  cache'[n].slices[Name(k)] # Nil
    <3>1. ASSUME NEW svc \in Service, cache' = updateService(cache, svc).services
          PROVE  cache'[n].slices[Name(k)] # Nil
      BY <2>0, <3>1, SlicesKept
    <3>2. ASSUME NEW svc \in Service, cache' = deleteService(cache, svc).services
          PROVE  cache'[n].slices[Name(k)] # Nil
      <4>1. cache'[n] = cache[n]
        BY <2>0, <3>2, SlicesKept
      <4> QED
        BY <4>1
    <3>3. CASE OnServiceAdd(l) \/ OnServiceUpdate(l)
      <4>1. svcStore[l] \in Service
        BY <3>3 DEF OnServiceAdd, OnServiceUpdate, TypeOK
      <4>2. cache' = updateService(cache, svcStore[l]).services
        BY <3>3, CallbackCache DEF OnServiceAdd, OnServiceUpdate, UpdateServices
      <4> QED
        BY <3>1, <4>1, <4>2
    <3>4. CASE ResyncService(l)
      <4>1. svcSeen[l] \in Service
        BY <3>4 DEF ResyncService, TypeOK
      <4>2. cache' = updateService(cache, svcSeen[l]).services
        BY <3>4, CallbackCache DEF ResyncService, UpdateServices
      <4> QED
        BY <3>1, <4>1, <4>2
    <3>5. CASE OnServiceDelete(l)
      <4>1. svcSeen[l] \in Service
        BY <3>5 DEF OnServiceDelete, TypeOK
      <4>2. cache' = deleteService(cache, svcSeen[l]).services
        BY <3>5, CallbackCache DEF OnServiceDelete, UpdateServices
      <4> QED
        BY <3>2, <4>1, <4>2
    <3> QED
      BY <2>2, <3>3, <3>4, <3>5 DEF DeliverService
  <2>3. ASSUME NEW l \in SliceKeys, OnEndpointSliceDelete(l)
        PROVE  cache'[n].slices[Name(k)] # Nil
    <3>1. /\ cache' = UpdatEndpointSlice(cache, esSeen[l], TRUE).services
          /\ esSeen[l] \in Slice /\ esSeen[l].key = l
          /\ esSeen'[l] = Nil
      BY <2>3, CallbackCache DEF OnEndpointSliceDelete, TypeOK, ObjectsKeyed
    <3>2. Name(k) # Name(esSeen[l].key)
      BY <3>1 DEF UniqueNames
    <3> QED
      BY <2>0, <3>1, <3>2, SlicesKept
  <2>4. ASSUME NEW l \in SliceKeys,
               OnEndpointSliceAdd(l) \/ OnEndpointSliceUpdate(l) \/ ResyncEndpointSlice(l)
        PROVE  cache'[n].slices[Name(k)] # Nil
    <3>1. ASSUME NEW es \in Slice, cache' = UpdatEndpointSlice(cache, es, FALSE).services
          PROVE  cache'[n].slices[Name(k)] # Nil
      BY <2>0, <3>1, SlicesKept
    <3>2. CASE OnEndpointSliceAdd(l) \/ OnEndpointSliceUpdate(l)
      <4>1. esStore[l] \in Slice
        BY <3>2 DEF OnEndpointSliceAdd, OnEndpointSliceUpdate, TypeOK
      <4>2. cache' = UpdatEndpointSlice(cache, esStore[l], FALSE).services
        BY <3>2, CallbackCache DEF OnEndpointSliceAdd, OnEndpointSliceUpdate
      <4> QED
        BY <3>1, <4>1, <4>2
    <3>3. CASE ResyncEndpointSlice(l)
      <4>1. esSeen[l] \in Slice
        BY <3>3 DEF ResyncEndpointSlice, TypeOK
      <4>2. cache' = UpdatEndpointSlice(cache, esSeen[l], FALSE).services
        BY <3>3, CallbackCache DEF ResyncEndpointSlice
      <4> QED
        BY <3>1, <4>1, <4>2
    <3> QED
      BY <2>4, <3>2, <3>3
  <2>5. API \/ Process \/ Exited \/ UNCHANGED vars => cache' = cache
    BY DEF API, PutService, DropService, PutSlice, DropSlice, Process, Exited, vars,
       procVars, D!dispatchEvent, D!DispatchSend, D!DispatchDefault, D!MarkEventLost,
       D!Receiver, D!Iterate, D!ReceiveLost, D!ReceiveBlock, D!ReceiveTimeout,
       D!TakeSnapshot, D!Ingest, D!IngestFail, D!Cancel
  <2> QED
    BY <2>1, <2>2, <2>3, <2>4, <2>5 DEF Next, Informers, DeliverSlice
<1> QED
  BY <1>1, <1>2, KeysStay, TypeCorrect, PTL DEF SafeSpec, AttachedUntilDeleted
=============================================================================
