---------------------------- MODULE ClusterState ----------------------------
(***************************************************************************)
(* The in-memory cluster state (pkg/state/cache.go, pkg/state/service.go)  *)
(* as operators on its value: a map from service NAME to a container with  *)
(* the service object and the endpoint slices attached to it, by slice     *)
(* NAME.  Every operation returns the new map and the code's result, which *)
(* decides whether the subscriber dispatches an event.                     *)
(*                                                                         *)
(* Of a Kubernetes object only what the code looks at is kept: its key     *)
(* <<namespace, name>>, its resource version and, for a slice, the value   *)
(* of the service-name label.                                              *)
(***************************************************************************)
EXTENDS Integers

CONSTANTS
  ServiceKeys,  \* <<namespace, name>> of the services
  SliceKeys,    \* <<namespace, name>> of the endpoint slices
  SliceLabels,  \* the service-name labels each slice may carry
  NoLabel,      \* an endpoint slice without that label
  Versions,     \* resource versions
  Nil           \* no object

Name(k) == k[2]

ServiceNames == {Name(k) : k \in ServiceKeys}
SliceNames == {Name(k) : k \in SliceKeys}
Labels == ServiceNames \cup {NoLabel}

Service == [key : ServiceKeys, rv : Versions]
Slice == [key : SliceKeys, label : Labels, rv : Versions]
Container == [obj : Service, slices : [SliceNames -> Slice \cup {Nil}]]
Services == [ServiceNames -> Container \cup {Nil}]

ASSUME VersionsAssumption == Versions \subseteq Nat \ {0}
ASSUME LabelsAssumption ==
  /\ NoLabel \notin ServiceNames
  /\ SliceLabels \in [SliceKeys -> SUBSET Labels]
ASSUME NilAssumption == Nil \notin Service \cup Slice \cup Container

\* NewClusterServiceStateCache
EmptyServices == [n \in ServiceNames |-> Nil]

-----------------------------------------------------------------------------
(* Resource versions are compared as the decimal strings they are. *)

\* Bound: versions have at most this many digits.
MaxDigits == 6

Digits(v) == CHOOSE d \in 1..MaxDigits : v < 10^d /\ (d = 1 \/ 10^(d - 1) <= v)

\* The number written by the first d digits of v.
Prefix(v, d) == v \div 10^(Digits(v) - d)

\* a >= b on Go strings: the first differing digit decides; of a string and a
\* proper prefix of it the longer is the greater.
StringGeq(a, b) ==
  IF Digits(a) = Digits(b) THEN a >= b
  ELSE IF Digits(a) > Digits(b) THEN Prefix(a, Digits(b)) >= b
       ELSE a > Prefix(b, Digits(a))

-----------------------------------------------------------------------------
(* Services *)

Result(services, dispatch) == [services |-> services, dispatch |-> dispatch]

NewServiceContainer(svc) ==
  [obj |-> svc, slices |-> [s \in SliceNames |-> Nil]]

\* Mutant: an update replaces the container, and its slices with it.
UpdateReplaces(container, svc) == NewServiceContainer(svc)

\* serviceContainer.Update keeps the slices.
Update(container, svc) == [container EXCEPT !.obj = svc]

\* Mutant: a known service is never updated.
updateServiceOnce(services, svc) ==
  IF services[Name(svc.key)] # Nil
  THEN Result(services, FALSE)
  ELSE Result([services EXCEPT ![Name(svc.key)] = NewServiceContainer(svc)], TRUE)

updateService(services, svc) ==
  LET n == Name(svc.key)
      existing == services[n]
  IN  IF existing # Nil /\ StringGeq(existing.obj.rv, svc.rv)
      THEN Result(services, FALSE)
      ELSE Result([services EXCEPT ![n] = IF existing # Nil
                                          THEN Update(existing, svc)
                                          ELSE NewServiceContainer(svc)],
                  TRUE)

\* Mutant: the container stays behind without its object.
deleteServiceKeepsContainer(services, svc) ==
  LET n == Name(svc.key)
  IN  Result([services EXCEPT ![n] = IF @ = Nil THEN Nil ELSE [@ EXCEPT !.obj = Nil]],
             services[n] # Nil)

deleteService(services, svc) ==
  LET n == Name(svc.key)
  IN  Result([services EXCEPT ![n] = Nil], services[n] # Nil)

UpdateServices(services, svc, delete) ==
  IF delete THEN deleteService(services, svc) ELSE updateService(services, svc)

-----------------------------------------------------------------------------
(* Endpoint slices *)

\* The statuses are those of EndpointSliceOperationStatus; the one for a nil
\* pointer is left out, informers pass no nil object.

\* Mutant: the first version of a slice is stored but not reported.
updateEndpointSliceSilent(container, es) ==
  [container |-> [container EXCEPT !.slices[Name(es.key)] = es],
   status |-> IF container.slices[Name(es.key)] # Nil
              THEN "updated" ELSE "noop"]

updateEndpointSlice(container, es) ==
  LET existing == container.slices[Name(es.key)]
  IN  IF existing # Nil /\ StringGeq(existing.rv, es.rv)
      THEN [container |-> container, status |-> "noop"]
      ELSE [container |-> [container EXCEPT !.slices[Name(es.key)] = es],
            status |-> "updated"]

\* Mutant: the slice is looked up but never removed.
deleteEndpointSliceKeeps(container, es) ==
  [container |-> container,
   status |-> IF container.slices[Name(es.key)] # Nil
              THEN "deleted" ELSE "noop"]

deleteEndpointSlice(container, es) ==
  [container |-> [container EXCEPT !.slices[Name(es.key)] = Nil],
   status |-> IF container.slices[Name(es.key)] # Nil
              THEN "deleted" ELSE "noop"]

\* serviceContainer.UpdatEndpointslices
UpdatEndpointslices(container, es, delete) ==
  IF es.label # Name(container.obj.key)
  THEN [container |-> container, status |-> "invalidServiceLabel"]
  ELSE IF delete THEN deleteEndpointSlice(container, es)
       ELSE updateEndpointSlice(container, es)

\* clusterServiceStateCache.UpdatEndpointSlice: a slice of a service that is
\* not registered is dropped, and reported as a change.
UpdatEndpointSlice(services, es, delete) ==
  IF es.label = NoLabel
  THEN Result(services, FALSE)
  ELSE IF services[es.label] = Nil
       THEN Result(services, TRUE)
       ELSE LET r == UpdatEndpointslices(services[es.label], es, delete)
            IN  Result([services EXCEPT ![es.label] = r.container],
                       r.status # "noop")
=============================================================================
