-------------------------- MODULE KubeMapperProofs --------------------------
(***************************************************************************)
(* Theorems about the translation, for all services, slices and orders.    *)
(***************************************************************************)
EXTENDS KubeMapper, TLAPS

Metas(f) == \A m \in DOMAIN f : m.ipFamily \in Families /\ m.port \in Nat

\* Put joins the domains, and takes the values from one side or the other.
LEMMA PutDomain ==
  ASSUME NEW f, NEW g
  PROVE  /\ DOMAIN Put(f, g) = DOMAIN f \cup DOMAIN g
         /\ \A x \in DOMAIN Put(f, g) :
              \/ x \in DOMAIN g /\ Put(f, g)[x] = g[x]
              \/ x \in DOMAIN f /\ Put(f, g)[x] = f[x]
BY DEF Put

\* A sequence over a set is one over every larger set.
LEMMA SequenceOver ==
  ASSUME NEW S, NEW T, S \subseteq T, NEW q \in Seq(S)
  PROVE  q \in Seq(T)
OBVIOUS

\* A service at work is one that may occur, with ports that may occur.
LEMMA AtWork ==
  ASSUME TypeOK
  PROVE  /\ snap[svc].obj \in Objects
         /\ IsObject(snap[svc].obj)
         /\ \A ip \in snap[svc].obj.clusterIPs \ {"None"} :
              ip \in Addrs /\ ipStringToIpFamily[ip] \in snap[svc].obj.ipFamilies
<1>1. snap[svc].obj \in Objects
  BY DEF TypeOK
<1>2. IsObject(snap[svc].obj)
  BY <1>1, ObjectsAssumption
<1> QED
  BY <1>1, <1>2, ObjectsAssumption DEF IsObject

\* The ports still to be mapped are ports of services that may occur.
LEMMA NextPort ==
  ASSUME TypeOK, portTodo # <<>>
  PROVE  /\ IsPort(Head(portTodo))
         /\ Tail(portTodo) \in Seq(UNION {PortsOf(o) : o \in Objects})
<1> DEFINE Ports == UNION {PortsOf(o) : o \in Objects}
<1>1. portTodo \in Seq(Ports)
  BY DEF TypeOK
<1>2. Head(portTodo) \in Ports /\ Tail(portTodo) \in Seq(Ports)
  <2> HIDE DEF Ports
  <2> QED
    BY <1>1
<1>3. \A p \in Ports : IsPort(p)
  BY ObjectsAssumption DEF IsObject, PortsOf
<1> QED
  BY <1>2, <1>3

\* The clusters of a port: one for each family of the service.
LEMMA ClustersOfPort ==
  ASSUME TypeOK, NEW p, IsPort(p)
  PROVE  /\ DOMAIN MapServicePortToClusters(svc, snap[svc].obj, p) \subseteq ClusterNames
         /\ \A f \in snap[svc].obj.ipFamilies :
              getClusterName(svc, f, p.targetPort)
                \in DOMAIN MapServicePortToClusters(svc, snap[svc].obj, p)
<1>1. /\ svc \in ServiceKeys
      /\ snap[svc].obj.ipFamilies \subseteq Families
      /\ p.targetPort \in Nat
  BY AtWork DEF TypeOK, IsObject, IsPort
<1> QED
  BY <1>1 DEF MapServicePortToClusters, getClusterName, ClusterNames

\* A node port's address tells its family.
LEMMA AnyAddrFamily ==
  ASSUME NEW f \in Families
  PROVE  /\ AnyAddr[f] \in {"0.0.0.0", "::"}
         /\ (CHOOSE g \in Families : AnyAddr[g] = AnyAddr[f]) = f
BY DEF AnyAddr, Families

\* The listeners of a port listen on addresses, and route to its clusters.
LEMMA ListenersOfPort ==
  ASSUME TypeOK, NEW p, IsPort(p),
         NEW n \in DOMAIN MapServicePortToListeners(svc, snap[svc].obj, p)
  PROVE  /\ n \in ServiceKeys \X ListenAddrs \X Nat
         /\ \A chain \in MapServicePortToListeners(svc, snap[svc].obj, p)[n].filterChains :
              chain.cluster \in DOMAIN MapServicePortToClusters(svc, snap[svc].obj, p)
<1> DEFINE o == snap[svc].obj
           L == ClusterIPListeners(svc, o, p)
           N == NodePortListeners(svc, o, p)
           C == DOMAIN MapServicePortToClusters(svc, o, p)
<1>0. svc \in ServiceKeys /\ p.port \in Nat /\ p.nodePort \in Nat
  BY DEF TypeOK, IsPort
<1>2. ASSUME n \in DOMAIN L
      PROVE  /\ n \in ServiceKeys \X ListenAddrs \X Nat
             /\ \A chain \in L[n].filterChains : chain.cluster \in C
  <2>1. PICK ip \in o.clusterIPs \ {"None"} : n = <<svc, ip, p.port>>
    BY <1>2 DEF ClusterIPListeners, getListenerName
  <2>2. ip \in Addrs /\ ipStringToIpFamily[ip] \in o.ipFamilies
    BY <2>1, AtWork
  <2>3. L[n] = genListener(n[2], p.port, FALSE, getPortSetings(o.annotations, p),
                           getClusterName(svc, ipStringToIpFamily[n[2]], p.targetPort))
    BY <1>2 DEF ClusterIPListeners
  <2>4. \A chain \in L[n].filterChains : chain.cluster \in C
    <3>1. getClusterName(svc, ipStringToIpFamily[n[2]], p.targetPort) \in C
      BY <2>1, <2>2, ClustersOfPort
    <3> QED
      BY <3>1, <2>3 DEF genListener, genTCPFilterChain, genHTTPFilterChain
  <2> QED
    BY <1>0, <2>1, <2>2, <2>4 DEF ListenAddrs
<1>3. ASSUME n \in DOMAIN N
      PROVE  /\ n \in ServiceKeys \X ListenAddrs \X Nat
             /\ \A chain \in N[n].filterChains : chain.cluster \in C
  <2>1. PICK f \in o.ipFamilies : n = <<svc, AnyAddr[f], p.nodePort>>
    BY <1>3 DEF NodePortListeners, getListenerName
  <2>2. f \in Families
    BY <2>1, AtWork DEF IsObject
  <2>3. N[n] = genListener(n[2], p.nodePort, TRUE, getPortSetings(o.annotations, p),
                 getClusterName(svc, CHOOSE g \in Families : AnyAddr[g] = n[2],
                                p.targetPort))
    BY <1>3 DEF NodePortListeners
  <2>4. (CHOOSE g \in Families : AnyAddr[g] = n[2]) = f
    BY <2>1, <2>2, AnyAddrFamily
  <2>5. \A chain \in N[n].filterChains : chain.cluster \in C
    <3>1. getClusterName(svc, f, p.targetPort) \in C
      BY <2>1, ClustersOfPort
    <3> QED
      BY <3>1, <2>3, <2>4 DEF genListener, genTCPFilterChain, genHTTPFilterChain
  <2> QED
    BY <1>0, <2>1, <2>2, <2>5, AnyAddrFamily DEF ListenAddrs
<1>4. \/ n \in DOMAIN N /\ MapServicePortToListeners(svc, o, p)[n] = N[n]
      \/ n \in DOMAIN L /\ MapServicePortToListeners(svc, o, p)[n] = L[n]
  BY PutDomain DEF MapServicePortToListeners
<1> QED
  BY <1>2, <1>3, <1>4

\* A slice contributes endpoints of one of the families.
LEMMA SliceMetas ==
  ASSUME NEW e \in Slices
  PROVE  Metas(sliceEndpoints(e))
BY SlicesAssumption DEF IsSlice, sliceEndpoints, sliceFamily, Metas, Families

\* EnvoySnapshotFromKubeSnapshot keeps its types: no listener for "None", no
\* resource without a service and a family.
THEOREM TypeCorrect == Spec => []TypeOK
<1>1. Init => TypeOK
  <2>1. DOMAIN Empty = {}
    BY DEF Empty
  <2>2. ASSUME ServiceKeys # {} PROVE (CHOOSE s \in ServiceKeys : TRUE) \in ServiceKeys
    BY <2>2
  <2> QED
    BY <2>1, <2>2, ObjectsAssumption DEF Init, TypeOK
<1>2. TypeOK /\ [Next]_vars => TypeOK'
  <2> SUFFICES ASSUME TypeOK, [Next]_vars PROVE TypeOK'
    OBVIOUS
  <2> USE DEF resources, work
  <2>1. ASSUME NEW s \in ServiceKeys, NextService(s) PROVE TypeOK'
    <3>1. snap[s] \in [obj : Objects, slices : SUBSET Slices]
      BY DEF TypeOK
    <3>2. snap[s].obj.ports \in Seq(UNION {PortsOf(o) : o \in Objects})
      <4>1. IsObject(snap[s].obj)
        BY <3>1, ObjectsAssumption
      <4>2. snap[s].obj.ports \in Seq(PortsOf(snap[s].obj))
        BY <4>1 DEF IsObject
      <4>3. PortsOf(snap[s].obj) \subseteq UNION {PortsOf(o) : o \in Objects}
        BY <3>1
      <4> QED
        BY <4>2, <4>3, SequenceOver
    <3> QED
      BY <2>1, <3>1, <3>2 DEF NextService, TypeOK, Empty
  <2>2. CASE SkipPort
    BY <2>2, NextPort DEF SkipPort, TypeOK
  <2>3. CASE MapPort
    <3> DEFINE p == Head(portTodo)
    <3>1. IsPort(p) /\ Tail(portTodo) \in Seq(UNION {PortsOf(o) : o \in Objects})
      BY <2>3, NextPort DEF MapPort
    <3> DEFINE C == MapServicePortToClusters(svc, snap[svc].obj, p)
               L == MapServicePortToListeners(svc, snap[svc].obj, p)
    <3>4. DOMAIN C \subseteq ClusterNames
      BY <3>1, ClustersOfPort
    <3>5. DOMAIN L \subseteq ServiceKeys \X ListenAddrs \X Nat
      BY <3>1, ListenersOfPort
    <3>6. /\ DOMAIN Put(clusters, C) = DOMAIN clusters \cup DOMAIN C
          /\ DOMAIN Put(listeners, L) = DOMAIN listeners \cup DOMAIN L
      BY PutDomain
    <3>2. DOMAIN clusters' \subseteq ClusterNames
      BY <2>3, <3>4, <3>6 DEF MapPort, TypeOK
    <3>3. DOMAIN listeners' \subseteq ServiceKeys \X ListenAddrs \X Nat
      BY <2>3, <3>5, <3>6 DEF MapPort, TypeOK
    <3> QED
      BY <2>3, <3>1, <3>2, <3>3 DEF MapPort, TypeOK
  <2>4. CASE PortsDone \/ NewSnapshot \/ UNCHANGED vars
    BY <2>4 DEF PortsDone, NewSnapshot, vars, TypeOK
  <2>5. ASSUME NEW e \in Slices, extractEndpointMetaAndState(e) PROVE TypeOK'
    <3>1. Metas(Put(res, sliceEndpoints(e)))
      BY PutDomain, SliceMetas DEF TypeOK, Metas
    <3> QED
      BY <2>5, <3>1 DEF extractEndpointMetaAndState, TypeOK, Metas
  <2>6. CASE MapEndpoints
    <3>1. DOMAIN MapEndpointSliceToLocalityEndpoints(svc, res) \subseteq ClusterNames
      BY DEF TypeOK, MapEndpointSliceToLocalityEndpoints, getClusterName, ClusterNames
    <3> QED
      BY <2>6, <3>1, PutDomain DEF MapEndpoints, TypeOK
  <2> QED
    BY <2>1, <2>2, <2>3, <2>4, <2>5, <2>6 DEF Next
<1> QED
  BY <1>1, <1>2, PTL DEF Spec

\* No listener that genListener builds routes to a cluster that is not in the
\* same Envoy snapshot, for all services, families, port lists and orders.
THEOREM RoutesResolve == Spec => []ListenersResolve
<1>1. Init => ListenersResolve
  BY DEF Init, ListenersResolve, Empty
<1>2. TypeOK /\ ListenersResolve /\ [Next]_vars => ListenersResolve'
  <2> SUFFICES ASSUME TypeOK, ListenersResolve, [Next]_vars PROVE ListenersResolve'
    OBVIOUS
  <2>1. CASE MapPort
    <3> DEFINE p == Head(portTodo)
               C == MapServicePortToClusters(svc, snap[svc].obj, p)
               L == MapServicePortToListeners(svc, snap[svc].obj, p)
    <3>1. IsPort(p)
      BY <2>1, NextPort DEF MapPort
    <3>2. clusters' = Put(clusters, C) /\ listeners' = Put(listeners, L)
      BY <2>1 DEF MapPort
    <3>3. \A n \in DOMAIN L : \A chain \in L[n].filterChains : chain.cluster \in DOMAIN C
      BY <3>1, ListenersOfPort
    <3> HIDE DEF C, L
    <3>4. DOMAIN clusters' = DOMAIN clusters \cup DOMAIN C
      BY <3>2, PutDomain
    <3>5. \A n \in DOMAIN listeners' :
            \/ n \in DOMAIN L /\ listeners'[n] = L[n]
            \/ n \in DOMAIN listeners /\ listeners'[n] = listeners[n]
      BY <3>2, PutDomain
    <3> QED
      BY <3>3, <3>4, <3>5 DEF ListenersResolve
  <2>2. CASE UNCHANGED <<clusters, listeners>>
    BY <2>2 DEF ListenersResolve
  <2> QED
    BY <2>1, <2>2 DEF Next, NextService, SkipPort, PortsDone,
       extractEndpointMetaAndState, MapEndpoints, NewSnapshot, vars, resources
<1> QED
  BY <1>1, <1>2, TypeCorrect, PTL DEF Spec
=============================================================================
