-------------------------- MODULE TranslationProofs --------------------------
(***************************************************************************)
(* What a finished translation has to do with its input: which endpoints a *)
(* listener leads to, their health, and the settings on the way.  All of   *)
(* it is about the end state; the invariant here says the same of the part *)
(* of the snapshot that has been read so far.                              *)
(***************************************************************************)
EXTENDS KubeMapperProofs

Ports(s) == snap[s].obj.ports
TcpPorts(s) == {i \in 1..Len(Ports(s)) : Ports(s)[i].protocol = "TCP"}

\* The number of ports of a service that have been looked at.
Seen(s) ==
  IF s \in svcTodo THEN 0
  ELSE IF s = svc /\ pc = "ports" THEN Len(Ports(s)) - Len(portTodo)
  ELSE Len(Ports(s))

\* The endpoints of a service have been mapped.
Assigned(s) == s \notin svcTodo /\ (s = svc => pc \in {"services", "published"})

-----------------------------------------------------------------------------
(* The invariant *)

\* What is left of the service at work: the end of its list of ports, and all
\* slices as long as there are ports.
RestIsSuffix ==
  pc = "ports" =>
    /\ svc \notin svcTodo
    /\ sliceTodo = snap[svc].slices
    /\ res = Empty
    /\ Len(portTodo) <= Len(Ports(svc))
    /\ \A k \in 1..Len(portTodo) :
         portTodo[k] = Ports(svc)[Len(Ports(svc)) - Len(portTodo) + k]

AllRead == pc = "published" => svcTodo = {}

\* The listener of an address of the service, and the cluster of a port.
ListenerOf(s, ip, p) ==
  genListener(ip, p.port, FALSE, getPortSetings(snap[s].obj.annotations, p),
              getClusterName(s, ipStringToIpFamily[ip], p.targetPort))

ClusterOf(s, p) == With(getPortSetings(snap[s].obj.annotations, p), ClusterSettings)

ListenersOfSeenPorts ==
  \A s \in ServiceKeys : \A i \in TcpPorts(s) : i <= Seen(s) =>
    \A ip \in snap[s].obj.clusterIPs \ {"None"} :
      /\ <<s, ip, Ports(s)[i].port>> \in DOMAIN listeners
      /\ listeners[<<s, ip, Ports(s)[i].port>>] = ListenerOf(s, ip, Ports(s)[i])

\* Of the ports seen, j is the last with this target port.
LastSeen(s, j, target) ==
  /\ j <= Seen(s)
  /\ Ports(s)[j].targetPort = target
  /\ \A k \in TcpPorts(s) : k <= Seen(s) /\ Ports(s)[k].targetPort = target => k <= j

ClustersOfSeenPorts ==
  \A s \in ServiceKeys : \A i \in TcpPorts(s) : i <= Seen(s) =>
    \E j \in TcpPorts(s) :
      /\ LastSeen(s, j, Ports(s)[i].targetPort)
      /\ \A f \in snap[s].obj.ipFamilies :
           /\ <<f, s, Ports(s)[i].targetPort>> \in DOMAIN clusters
           /\ clusters[<<f, s, Ports(s)[i].targetPort>>] = ClusterOf(s, Ports(s)[j])

\* The port of its service that a listener is for.
ForPort(n, p) ==
  /\ p \in PortsOf(snap[n[1]].obj)
  /\ p.protocol = "TCP"
  /\ n[3] = IF n[2] \in Addrs THEN p.port ELSE p.nodePort

\* A listener routes to the cluster of its own service, family and target port.
RoutesAreOwn ==
  \A n \in DOMAIN listeners : \E p :
    /\ ForPort(n, p)
    /\ \A chain \in listeners[n].filterChains :
         chain.cluster = <<ListenFamily(n[2]), n[1], p.targetPort>>

\* The meta of an endpoint in a slice.
Meta(e, q, a) ==
  [ipFamily |-> sliceFamily(e), ip |-> a.ip, port |-> q.port, locality |-> a.locality]

\* What has been collected comes from slices of the service at work, and
\* everything in the slices that have been read has been collected.
CollectedIsListed ==
  \A m \in DOMAIN res : \E e \in snap[svc].slices : \E q \in e.ports, a \in DOMAIN e.endpoints :
    m = Meta(e, q, a) /\ res[m] = endpointState(e.endpoints[a])

ReadIsCollected ==
  pc = "slices" =>
    /\ svc \notin svcTodo
    /\ sliceTodo \subseteq snap[svc].slices
    /\ \A e \in snap[svc].slices \ sliceTodo : \A q \in e.ports, a \in DOMAIN e.endpoints :
         Meta(e, q, a) \in DOMAIN res

\* The same for the load assignments of all services.
AssignedIsListed ==
  \A c \in DOMAIN endpoints : \A lb \in endpoints[c] :
    \E e \in snap[c[2]].slices : \E q \in e.ports, a \in DOMAIN e.endpoints :
      /\ c[1] = sliceFamily(e) /\ c[3] = q.port
      /\ lb = [ip |-> a.ip, port |-> q.port, locality |-> a.locality,
               health |-> Health(endpointState(e.endpoints[a]))]

ListedIsAssigned ==
  \A s \in ServiceKeys : Assigned(s) =>
    \A e \in snap[s].slices : \A q \in e.ports, a \in DOMAIN e.endpoints :
      /\ <<sliceFamily(e), s, q.port>> \in DOMAIN endpoints
      /\ \E lb \in endpoints[<<sliceFamily(e), s, q.port>>] :
           lb.ip = a.ip /\ lb.locality = a.locality /\ lb.port = q.port

Inv ==
  /\ TypeOK
  /\ RestIsSuffix
  /\ AllRead
  /\ ListenersOfSeenPorts
  /\ ClustersOfSeenPorts
  /\ RoutesAreOwn
  /\ CollectedIsListed
  /\ ReadIsCollected
  /\ AssignedIsListed
  /\ ListedIsAssigned

-----------------------------------------------------------------------------
(* Facts about the input *)

\* A service of the snapshot is one that may occur.
LEMMA ServiceFacts ==
  ASSUME TypeOK, NEW s \in ServiceKeys
  PROVE  /\ snap[s].obj \in Objects
         /\ IsObject(snap[s].obj)
         /\ DistinctPorts(snap[s].obj)
         /\ snap[s].slices \subseteq Slices
         /\ snap[s].obj.ipFamilies \subseteq Families
         /\ \A ip \in snap[s].obj.clusterIPs \ {"None"} :
              ip \in Addrs /\ ipStringToIpFamily[ip] \in snap[s].obj.ipFamilies
<1>1. snap[s].obj \in Objects /\ snap[s].slices \subseteq Slices
  BY DEF TypeOK
<1>2. IsObject(snap[s].obj) /\ DistinctPorts(snap[s].obj)
  BY <1>1, ObjectsAssumption
<1> QED
  BY <1>1, <1>2, ObjectsAssumption DEF IsObject

\* Its ports are numbered, and ports.
LEMMA PortFacts ==
  ASSUME TypeOK, NEW s \in ServiceKeys
  PROVE  /\ Len(Ports(s)) \in Nat
         /\ \A i \in 1..Len(Ports(s)) : IsPort(Ports(s)[i])
<1>1. IsObject(snap[s].obj)
  BY ServiceFacts
<1>2. Ports(s) \in Seq(PortsOf(snap[s].obj))
  BY <1>1 DEF IsObject, Ports
<1>3. \A i \in 1..Len(Ports(s)) : Ports(s)[i] \in PortsOf(snap[s].obj)
  BY DEF Ports, PortsOf
<1>4. \A p \in PortsOf(snap[s].obj) : IsPort(p)
  BY <1>1 DEF IsObject
<1> QED
  BY <1>2, <1>3, <1>4

-----------------------------------------------------------------------------
(* How far the translation has come *)

\* The step past a port.
PastPort ==
  /\ pc = "ports"
  /\ portTodo # <<>>
  /\ portTodo' = Tail(portTodo)
  /\ UNCHANGED <<snap, svcTodo, svc, sliceTodo, res, pc>>

\* The next port is the one after those seen, and one more has been seen then.
LEMMA PortSeen ==
  ASSUME TypeOK, RestIsSuffix, PastPort
  PROVE  /\ Seen(svc) + 1 \in 1..Len(Ports(svc))
         /\ Head(portTodo) = Ports(svc)[Seen(svc) + 1]
         /\ Seen(svc)' = Seen(svc) + 1
         /\ \A s \in ServiceKeys : s # svc => Seen(s)' = Seen(s)
         /\ \A s \in ServiceKeys : Ports(s)' = Ports(s)
         /\ RestIsSuffix'
<1> DEFINE P == Ports(svc)
<1>1. /\ Len(P) \in Nat
      /\ svc \in ServiceKeys
  BY PortFacts DEF TypeOK
<1>2. /\ portTodo \in Seq(UNION {PortsOf(o) : o \in Objects})
      /\ portTodo # <<>>
  BY DEF TypeOK, PastPort
<1>3. /\ Len(portTodo) \in Nat \ {0}
      /\ Head(portTodo) = portTodo[1]
      /\ Len(Tail(portTodo)) = Len(portTodo) - 1
      /\ \A k \in 1..Len(Tail(portTodo)) : Tail(portTodo)[k] = portTodo[k + 1]
  <2> DEFINE S == UNION {PortsOf(o) : o \in Objects}
  <2> HIDE DEF S
  <2>1. portTodo \in Seq(S)
    BY <1>2 DEF S
  <2> QED
    BY <1>2, <2>1
<1>4. /\ svc \notin svcTodo
      /\ Len(portTodo) <= Len(P)
      /\ \A k \in 1..Len(portTodo) : portTodo[k] = P[Len(P) - Len(portTodo) + k]
      /\ sliceTodo = snap[svc].slices
      /\ res = Empty
  BY DEF RestIsSuffix, PastPort
<1>5. \A s \in ServiceKeys : Ports(s)' = Ports(s)
  BY DEF Ports, PastPort
<1>6. Seen(svc) = Len(P) - Len(portTodo)
  BY <1>4 DEF Seen, PastPort
<1>7. Seen(svc)' = Len(P) - Len(Tail(portTodo))
  BY <1>1, <1>4, <1>5 DEF Seen, PastPort
<1>8. \A s \in ServiceKeys : s # svc => Seen(s)' = Seen(s)
  BY <1>5 DEF Seen, PastPort
<1> HIDE DEF P
<1>9. /\ Seen(svc) + 1 \in 1..Len(P)
      /\ Head(portTodo) = P[Seen(svc) + 1]
      /\ Seen(svc)' = Seen(svc) + 1
  BY <1>1, <1>3, <1>4, <1>6, <1>7
<1>10. /\ Len(Tail(portTodo)) <= Len(P)
       /\ \A k \in 1..Len(Tail(portTodo)) :
            Tail(portTodo)[k] = P[Len(P) - Len(Tail(portTodo)) + k]
  <2> SUFFICES ASSUME NEW k \in 1..Len(Tail(portTodo))
               PROVE  Tail(portTodo)[k] = P[Len(P) - Len(Tail(portTodo)) + k]
    BY <1>1, <1>3, <1>4
  <2>1. k + 1 \in 1..Len(portTodo) /\ Tail(portTodo)[k] = portTodo[k + 1]
    BY <1>3
  <2>2. Len(P) - Len(portTodo) + (k + 1) = Len(P) - Len(Tail(portTodo)) + k
    BY <1>1, <1>3
  <2> QED
    BY <1>4, <2>1, <2>2
<1>11. RestIsSuffix'
  BY <1>1, <1>4, <1>5, <1>10 DEF P, RestIsSuffix, PastPort
<1> QED
  BY <1>5, <1>8, <1>9, <1>11 DEF P

\* A service is taken up with no port seen; nothing changes for the others.
LEMMA ServiceTaken ==
  ASSUME TypeOK, NEW s \in ServiceKeys, NextService(s)
  PROVE  /\ Seen(s)' = 0 /\ ~Assigned(s)'
         /\ \A t \in ServiceKeys : t # s => Seen(t)' = Seen(t) /\ (Assigned(t)' => Assigned(t))
         /\ \A t \in ServiceKeys : Ports(t)' = Ports(t)
         /\ RestIsSuffix'
<1>1. \A t \in ServiceKeys : Ports(t)' = Ports(t)
  BY DEF Ports, NextService
<1>2. Len(Ports(s)) \in Nat
  BY PortFacts
<1>3. Seen(s)' = 0
  <2>1. s \notin svcTodo' /\ svc' = s /\ pc' = "ports" /\ portTodo' = Ports(s)
    BY DEF NextService, Ports
  <2>2. Seen(s)' = Len(Ports(s)) - Len(Ports(s))
    BY <1>1, <2>1 DEF Seen
  <2> QED
    BY <1>2, <2>2
<1>4. RestIsSuffix'
  BY <1>1, <1>2 DEF RestIsSuffix, NextService, Ports
<1>5. \A t \in ServiceKeys : t # s => Seen(t)' = Seen(t) /\ (Assigned(t)' => Assigned(t))
  BY <1>1 DEF Seen, Assigned, NextService
<1>6. ~Assigned(s)'
  BY DEF Assigned, NextService
<1> QED
  BY <1>1, <1>3, <1>4, <1>5, <1>6

\* The other steps look at no port.
LEMMA NothingSeen ==
  ASSUME TypeOK, RestIsSuffix,
         \/ PortsDone \/ MapEndpoints \/ NewSnapshot \/ UNCHANGED vars
         \/ \E e \in Slices : extractEndpointMetaAndState(e)
  PROVE  /\ UNCHANGED <<snap, svcTodo, svc>>
         /\ \A s \in ServiceKeys : Seen(s)' = Seen(s) /\ Ports(s)' = Ports(s)
         /\ RestIsSuffix'
<1>1. UNCHANGED <<snap, svcTodo, svc>>
  BY DEF PortsDone, MapEndpoints, NewSnapshot, vars, work, extractEndpointMetaAndState
<1>2. \A s \in ServiceKeys : Ports(s)' = Ports(s) /\ Len(Ports(s)) \in Nat
  BY <1>1, PortFacts DEF Ports
<1>3. CASE PortsDone
  <2>1. pc = "ports" /\ portTodo = <<>> /\ pc' = "slices" /\ Len(portTodo) = 0
    BY <1>3 DEF PortsDone
  <2>2. \A s \in ServiceKeys : Seen(s)' = Seen(s)
    BY <1>1, <1>2, <2>1 DEF Seen
  <2> QED
    BY <1>1, <1>2, <2>1, <2>2 DEF RestIsSuffix
<1>4. CASE UNCHANGED vars
  BY <1>2, <1>4 DEF vars, work, RestIsSuffix, Seen, Ports
<1>5. CASE pc # "ports" /\ pc' # "ports"
  BY <1>1, <1>2, <1>5 DEF RestIsSuffix, Seen
<1>6. (pc # "ports" /\ pc' # "ports") \/ PortsDone \/ UNCHANGED vars
  BY DEF MapEndpoints, NewSnapshot, extractEndpointMetaAndState
<1> QED
  BY <1>1, <1>2, <1>3, <1>4, <1>5, <1>6

\* With a step at most the port that MapPort maps is seen in addition.
LEMMA Progress ==
  ASSUME TypeOK, RestIsSuffix, [Next]_vars
  PROVE  /\ RestIsSuffix'
         /\ snap' = snap
         /\ \A s \in ServiceKeys : Ports(s)' = Ports(s)
         /\ \A s \in ServiceKeys : \A i \in TcpPorts(s) :
              /\ i <= Seen(s) => i <= Seen(s)'
              /\ i <= Seen(s)' =>
                   \/ i <= Seen(s)
                   \/ MapPort /\ s = svc /\ i = Seen(svc) + 1 /\ Head(portTodo) = Ports(svc)[i]
<1>1. \A s \in ServiceKeys : \A i \in TcpPorts(s) :
        i \in 1..Len(Ports(s)) /\ Ports(s)[i].protocol = "TCP"
  BY DEF TcpPorts
<1>2. CASE PastPort /\ (SkipPort \/ MapPort)
  <2>0. svc \in ServiceKeys /\ Len(Ports(svc)) \in Nat
    BY PortFacts DEF TypeOK
  <2>1. /\ Seen(svc) + 1 \in 1..Len(Ports(svc))
        /\ Head(portTodo) = Ports(svc)[Seen(svc) + 1]
        /\ Seen(svc)' = Seen(svc) + 1
        /\ \A s \in ServiceKeys : s # svc => Seen(s)' = Seen(s)
    BY <1>2, PortSeen
  <2>2. Seen(svc) \in Int
    <3>1. Seen(svc) = Len(Ports(svc)) - Len(portTodo)
      BY <1>2 DEF Seen, PastPort, RestIsSuffix
    <3>2. Len(portTodo) \in Nat
      BY DEF TypeOK
    <3> QED
      BY <2>0, <3>1, <3>2
  <2>3. \A i \in TcpPorts(svc) : i = Seen(svc) + 1 => ~SkipPort
    BY <2>0, <2>1, <1>1 DEF SkipPort
  <2>4. \A s \in ServiceKeys : \A i \in TcpPorts(s) :
              /\ i <= Seen(s) => i <= Seen(s)'
              /\ i <= Seen(s)' => i <= Seen(s) \/ (s = svc /\ i = Seen(svc) + 1)
    <3>1. \A i \in TcpPorts(svc) :
              /\ i <= Seen(svc) => i <= Seen(svc)'
              /\ i <= Seen(svc)' => i <= Seen(svc) \/ i = Seen(svc) + 1
      BY <2>0, <2>1, <2>2, <1>1
    <3>2. svc' = svc
      BY <1>2 DEF PastPort
    <3> QED
      BY <2>1, <3>1, <3>2
  <2>5. RestIsSuffix' /\ \A s \in ServiceKeys : Ports(s)' = Ports(s)
    BY <1>2, PortSeen
  <2> QED
    BY <1>2, <2>1, <2>3, <2>4, <2>5 DEF PastPort
<1>3. ASSUME NEW s \in ServiceKeys, NextService(s)
      PROVE  /\ RestIsSuffix'
             /\ snap' = snap
             /\ \A t \in ServiceKeys : Ports(t)' = Ports(t)
             /\ \A t \in ServiceKeys : Seen(t)' = Seen(t)
  <2>1. Seen(s) = 0
    BY <1>3 DEF NextService, Seen
  <2> QED
    BY <1>3, <2>1, ServiceTaken DEF NextService
<1>4. CASE \/ PortsDone \/ MapEndpoints \/ NewSnapshot \/ UNCHANGED vars
           \/ \E e \in Slices : extractEndpointMetaAndState(e)
  <2>1. /\ snap' = snap
        /\ \A s \in ServiceKeys : Seen(s)' = Seen(s) /\ Ports(s)' = Ports(s)
        /\ RestIsSuffix'
    BY <1>4, NothingSeen
  <2> QED
    BY <2>1
<1>5. SkipPort \/ MapPort => PastPort
  BY DEF SkipPort, MapPort, PastPort
<1> QED
  BY <1>2, <1>3, <1>4, <1>5 DEF Next

-----------------------------------------------------------------------------
(* Listeners *)

\* Put takes the new value of a name, and keeps the others.
LEMMA PutValues ==
  ASSUME NEW f, NEW g
  PROVE  /\ \A x \in DOMAIN g : x \in DOMAIN Put(f, g) /\ Put(f, g)[x] = g[x]
         /\ \A x \in DOMAIN f \ DOMAIN g : x \in DOMAIN Put(f, g) /\ Put(f, g)[x] = f[x]
BY DEF Put

\* The names of the listeners of a port.
LEMMA ListenerNames ==
  ASSUME TypeOK, NEW p
  PROVE  /\ \A n \in DOMAIN NodePortListeners(svc, snap[svc].obj, p) :
              n[1] = svc /\ n[2] \notin Addrs
         /\ \A n \in DOMAIN ClusterIPListeners(svc, snap[svc].obj, p) :
              n[1] = svc /\ n[3] = p.port
         /\ \A ip \in snap[svc].obj.clusterIPs \ {"None"} :
              <<svc, ip, p.port>> \in DOMAIN ClusterIPListeners(svc, snap[svc].obj, p)
<1> DEFINE o == snap[svc].obj
<1>1. ASSUME NEW n \in DOMAIN NodePortListeners(svc, o, p)
      PROVE  n[1] = svc /\ n[2] \notin Addrs
  <2>1. PICK f \in o.ipFamilies : n = <<svc, AnyAddr[f], p.nodePort>>
    BY DEF NodePortListeners, getListenerName
  <2>2. f \in Families
    BY <2>1, AtWork DEF IsObject
  <2>3. n[2] \in {"0.0.0.0", "::"} /\ n[1] = svc
    BY <2>1, <2>2, AnyAddrFamily
  <2> QED
    BY <2>3, ObjectsAssumption
<1>2. ASSUME NEW n \in DOMAIN ClusterIPListeners(svc, o, p)
      PROVE  n[1] = svc /\ n[3] = p.port
  <2>1. PICK ip \in o.clusterIPs \ {"None"} : n = <<svc, ip, p.port>>
    BY DEF ClusterIPListeners, getListenerName
  <2> QED
    BY <2>1
<1>3. \A ip \in o.clusterIPs \ {"None"} :
        <<svc, ip, p.port>> \in DOMAIN ClusterIPListeners(svc, o, p)
  BY DEF ClusterIPListeners, getListenerName
<1> QED
  BY <1>1, <1>2, <1>3

\* MapPort: a listener of the port for every address, and no change to those of
\* other services and of the service's other port numbers.
LEMMA ListenersMapped ==
  ASSUME TypeOK, MapPort
  PROVE  /\ \A ip \in snap[svc].obj.clusterIPs \ {"None"} :
              LET n == <<svc, ip, Head(portTodo).port>>
              IN  n \in DOMAIN listeners' /\ listeners'[n] = ListenerOf(svc, ip, Head(portTodo))
         /\ \A s \in ServiceKeys, ip \in Addrs, num \in Nat :
              LET n == <<s, ip, num>>
              IN  n \in DOMAIN listeners /\ (s # svc \/ num # Head(portTodo).port) =>
                    n \in DOMAIN listeners' /\ listeners'[n] = listeners[n]
<1> DEFINE o == snap[svc].obj
           p == Head(portTodo)
           C == ClusterIPListeners(svc, o, p)
           N == NodePortListeners(svc, o, p)
           L == MapServicePortToListeners(svc, o, p)
<1>1. listeners' = Put(listeners, L) /\ L = Put(C, N)
  BY DEF MapPort, MapServicePortToListeners
<1>2. DOMAIN L = DOMAIN C \cup DOMAIN N
  <2> HIDE DEF C, N, L
  <2> QED
    BY <1>1, PutDomain
<1>3. ASSUME NEW ip \in o.clusterIPs \ {"None"}
      PROVE  LET n == <<svc, ip, p.port>>
             IN  n \in DOMAIN listeners' /\ listeners'[n] = ListenerOf(svc, ip, p)
  <2> DEFINE n == <<svc, ip, p.port>>
  <2>1. ip \in Addrs /\ n[2] = ip
    BY AtWork
  <2>2. n \in DOMAIN C /\ n \notin DOMAIN N
    BY <2>1, ListenerNames
  <2>3. C[n] = ListenerOf(svc, ip, p)
    <3>1. C[n] = genListener(n[2], p.port, FALSE, getPortSetings(o.annotations, p),
                   getClusterName(svc, ipStringToIpFamily[n[2]], p.targetPort))
      BY <2>2 DEF ClusterIPListeners
    <3> QED
      BY <2>1, <3>1 DEF ListenerOf
  <2> HIDE DEF n, C, N, L
  <2>4. n \in DOMAIN L /\ L[n] = C[n]
    BY <1>1, <2>2, PutValues
  <2>5. n \in DOMAIN listeners' /\ listeners'[n] = L[n]
    BY <1>1, <2>4, PutValues
  <2> QED
    BY <2>3, <2>4, <2>5 DEF n
<1>4. ASSUME NEW s \in ServiceKeys, NEW ip \in Addrs, NEW num \in Nat,
             <<s, ip, num>> \in DOMAIN listeners, s # svc \/ num # p.port
      PROVE  /\ <<s, ip, num>> \in DOMAIN listeners'
             /\ listeners'[<<s, ip, num>>] = listeners[<<s, ip, num>>]
  <2> DEFINE n == <<s, ip, num>>
  <2>1. n[1] = s /\ n[2] = ip /\ n[3] = num
    OBVIOUS
  <2>2. n \notin DOMAIN C /\ n \notin DOMAIN N
    BY <2>1, <1>4, ListenerNames
  <2> HIDE DEF n, C, N, L
  <2>3. n \in DOMAIN listeners \ DOMAIN L
    BY <1>2, <1>4, <2>2 DEF n
  <2> QED
    BY <1>1, <2>3, PutValues DEF n
<1> QED
  BY <1>3, <1>4

\* Only MapPort writes clusters and listeners.
LEMMA OnlyMapPort ==
  ASSUME [Next]_vars, ~MapPort
  PROVE  UNCHANGED <<clusters, listeners>>
BY DEF Next, NextService, SkipPort, PortsDone, extractEndpointMetaAndState,
       MapEndpoints, NewSnapshot, vars, resources

\* What ListenersOfSeenPorts says stays true: no later port of the service, and
\* no other service, takes over a listener's name.
LEMMA ListenersStay ==
  ASSUME TypeOK, RestIsSuffix, ListenersOfSeenPorts, [Next]_vars
  PROVE  ListenersOfSeenPorts'
<1>1. snap' = snap /\ \A s \in ServiceKeys : Ports(s)' = Ports(s)
  BY Progress
<1>2. SUFFICES ASSUME NEW s \in ServiceKeys, NEW i \in TcpPorts(s), i <= Seen(s)',
                      NEW ip \in snap[s].obj.clusterIPs \ {"None"}
               PROVE  LET n == <<s, ip, Ports(s)[i].port>>
                      IN  n \in DOMAIN listeners' /\ listeners'[n] = ListenerOf(s, ip, Ports(s)[i])
  <2>1. \A s \in ServiceKeys : TcpPorts(s)' = TcpPorts(s)
    BY <1>1 DEF TcpPorts
  <2>2. \A s \in ServiceKeys : \A ip, p : ListenerOf(s, ip, p)' = ListenerOf(s, ip, p)
    BY <1>1 DEF ListenerOf
  <2> QED
    BY <1>1, <2>1, <2>2 DEF ListenersOfSeenPorts
<1> DEFINE n == <<s, ip, Ports(s)[i].port>>
<1>3. /\ i \in 1..Len(Ports(s))
      /\ Ports(s)[i].protocol = "TCP"
      /\ Ports(s)[i].port \in Nat
      /\ ip \in Addrs
  BY PortFacts, ServiceFacts DEF TcpPorts, IsPort
<1>4. CASE i <= Seen(s)
  <2>1. n \in DOMAIN listeners /\ listeners[n] = ListenerOf(s, ip, Ports(s)[i])
    BY <1>4 DEF ListenersOfSeenPorts
  <2>2. CASE ~MapPort
    BY <2>1, <2>2, OnlyMapPort
  <2>3. CASE MapPort
    <3>1. s # svc \/ Ports(s)[i].port # Head(portTodo).port
      <4>1. SUFFICES ASSUME s = svc PROVE Ports(s)[i].port # Head(portTodo).port
        OBVIOUS
      <4>2. PastPort
        BY <2>3 DEF MapPort, PastPort
      <4>3. /\ Seen(s) + 1 \in 1..Len(Ports(s))
            /\ Head(portTodo) = Ports(s)[Seen(s) + 1]
        BY <4>1, <4>2, PortSeen
      <4>4. Ports(s)[Seen(s) + 1].protocol = "TCP"
        BY <2>3, <4>3 DEF MapPort
      <4>5. Seen(s) + 1 # i
        <5>1. Seen(s) = Len(Ports(s)) - Len(portTodo)
          BY <4>1, <4>2 DEF Seen, PastPort, RestIsSuffix
        <5>2. Len(portTodo) \in Nat /\ Len(Ports(s)) \in Nat
          BY PortFacts DEF TypeOK
        <5> QED
          BY <5>1, <5>2, <1>3, <1>4
      <4>6. DistinctPorts(snap[s].obj)
        BY ServiceFacts
      <4> QED
        BY <1>3, <4>3, <4>4, <4>5, <4>6 DEF DistinctPorts, Ports
    <3> QED
      BY <1>3, <2>1, <2>3, <3>1, ListenersMapped
  <2> QED
    BY <2>2, <2>3
<1>5. CASE MapPort /\ s = svc /\ Head(portTodo) = Ports(svc)[i]
  BY <1>5, ListenersMapped
<1> QED
  BY <1>2, <1>4, <1>5, Progress

\* The port at work is one of the service at work.
LEMMA PortAtWork ==
  ASSUME TypeOK, RestIsSuffix, MapPort
  PROVE  Head(portTodo) \in PortsOf(snap[svc].obj)
<1>1. PastPort
  BY DEF MapPort, PastPort
<1>2. Seen(svc) + 1 \in 1..Len(Ports(svc)) /\ Head(portTodo) = Ports(svc)[Seen(svc) + 1]
  BY <1>1, PortSeen
<1> QED
  BY <1>2 DEF PortsOf, Ports

\* The listeners of the port at work are for this port and route to its clusters.
LEMMA RoutesMapped ==
  ASSUME TypeOK, RestIsSuffix, MapPort,
         NEW n \in DOMAIN MapServicePortToListeners(svc, snap[svc].obj, Head(portTodo))
  PROVE  LET p == Head(portTodo)
             L == MapServicePortToListeners(svc, snap[svc].obj, p)
         IN  /\ ForPort(n, p)
             /\ \A chain \in L[n].filterChains :
                  chain.cluster = <<ListenFamily(n[2]), n[1], p.targetPort>>
<1> DEFINE o == snap[svc].obj
           p == Head(portTodo)
           C == ClusterIPListeners(svc, o, p)
           N == NodePortListeners(svc, o, p)
           L == MapServicePortToListeners(svc, o, p)
<1>1. p \in PortsOf(o) /\ p.protocol = "TCP"
  BY PortAtWork DEF MapPort
<1>2. ASSUME n \in DOMAIN C
      PROVE  /\ ForPort(n, p)
             /\ \A chain \in C[n].filterChains :
                  chain.cluster = <<ListenFamily(n[2]), n[1], p.targetPort>>
  <2>1. PICK ip \in o.clusterIPs \ {"None"} : n = <<svc, ip, p.port>>
    BY <1>2 DEF ClusterIPListeners, getListenerName
  <2>2. n[1] = svc /\ n[2] \in Addrs /\ n[3] = p.port
    BY <2>1, AtWork
  <2>3. C[n] = genListener(n[2], p.port, FALSE, getPortSetings(o.annotations, p),
                           getClusterName(svc, ipStringToIpFamily[n[2]], p.targetPort))
    BY <1>2 DEF ClusterIPListeners
  <2>4. \A chain \in C[n].filterChains :
          chain.cluster = getClusterName(svc, ipStringToIpFamily[n[2]], p.targetPort)
    BY <2>3 DEF genListener, genTCPFilterChain, genHTTPFilterChain
  <2> QED
    BY <1>1, <2>2, <2>4 DEF ForPort, ListenFamily, getClusterName
<1>3. ASSUME n \in DOMAIN N
      PROVE  /\ ForPort(n, p)
             /\ \A chain \in N[n].filterChains :
                  chain.cluster = <<ListenFamily(n[2]), n[1], p.targetPort>>
  <2>1. PICK f \in o.ipFamilies : n = <<svc, AnyAddr[f], p.nodePort>>
    BY <1>3 DEF NodePortListeners, getListenerName
  <2>2. f \in Families
    BY <2>1, AtWork DEF IsObject
  <2>3. n[1] = svc /\ n[2] = AnyAddr[f] /\ n[3] = p.nodePort
    BY <2>1
  <2>4. n[2] \notin Addrs
    BY <1>3, ListenerNames
  <2>5. ListenFamily(n[2]) = f
    BY <2>2, <2>3, <2>4 DEF ListenFamily, AnyAddr, Families
  <2>6. N[n] = genListener(n[2], p.nodePort, TRUE, getPortSetings(o.annotations, p),
                 getClusterName(svc, CHOOSE g \in Families : AnyAddr[g] = n[2],
                                p.targetPort))
    BY <1>3 DEF NodePortListeners
  <2>7. (CHOOSE g \in Families : AnyAddr[g] = n[2]) = f
    BY <2>2, <2>3, AnyAddrFamily
  <2>8. \A chain \in N[n].filterChains : chain.cluster = getClusterName(svc, f, p.targetPort)
    BY <2>6, <2>7 DEF genListener, genTCPFilterChain, genHTTPFilterChain
  <2> QED
    BY <1>1, <2>3, <2>4, <2>5, <2>8 DEF ForPort, getClusterName
<1>4. \/ n \in DOMAIN N /\ L[n] = N[n]
      \/ n \in DOMAIN C /\ L[n] = C[n]
  <2>1. L = Put(C, N) /\ n \in DOMAIN L
    BY DEF MapServicePortToListeners
  <2> HIDE DEF C, N, L
  <2> QED
    BY <2>1, PutDomain
<1> HIDE DEF C, N, L, p
<1>5. /\ ForPort(n, p)
      /\ \A chain \in L[n].filterChains :
           chain.cluster = <<ListenFamily(n[2]), n[1], p.targetPort>>
  BY <1>2, <1>3, <1>4
<1> QED
  BY <1>5 DEF L, p

\* Listeners route to the cluster of their own service, family and target port.
LEMMA RoutesStay ==
  ASSUME TypeOK, RestIsSuffix, RoutesAreOwn, [Next]_vars
  PROVE  RoutesAreOwn'
<1>0. snap' = snap
  BY Progress
<1>1. CASE ~MapPort
  BY <1>0, <1>1, OnlyMapPort DEF RoutesAreOwn, ForPort
<1>2. CASE MapPort
  <2> DEFINE L == MapServicePortToListeners(svc, snap[svc].obj, Head(portTodo))
             Own(n, l) ==
               \E p : /\ ForPort(n, p)
                      /\ \A chain \in l.filterChains :
                           chain.cluster = <<ListenFamily(n[2]), n[1], p.targetPort>>
  <2>1. listeners' = Put(listeners, L)
    BY <1>2 DEF MapPort
  <2>2. \A n \in DOMAIN L : Own(n, L[n])
    BY <1>2, RoutesMapped
  <2>3. \A n \in DOMAIN listeners : Own(n, listeners[n])
    BY DEF RoutesAreOwn
  <2> HIDE DEF L, Own
  <2>4. \A n \in DOMAIN listeners' :
          \/ n \in DOMAIN L /\ listeners'[n] = L[n]
          \/ n \in DOMAIN listeners /\ listeners'[n] = listeners[n]
    BY <2>1, PutDomain
  <2>5. \A n \in DOMAIN listeners' : Own(n, listeners'[n])
    BY <2>2, <2>3, <2>4
  <2> QED
    BY <1>0, <2>5 DEF Own, RoutesAreOwn, ForPort
<1> QED
  BY <1>1, <1>2

-----------------------------------------------------------------------------
(* Clusters *)

\* MapPort: a cluster of the port for every family, and no change to those of
\* other services and of the service's other target ports.
LEMMA ClustersMapped ==
  ASSUME TypeOK, MapPort
  PROVE  /\ \A f \in snap[svc].obj.ipFamilies :
              LET n == <<f, svc, Head(portTodo).targetPort>>
              IN  n \in DOMAIN clusters' /\ clusters'[n] = ClusterOf(svc, Head(portTodo))
         /\ \A f \in Families, s \in ServiceKeys, num \in Nat :
              LET n == <<f, s, num>>
              IN  n \in DOMAIN clusters /\ (s # svc \/ num # Head(portTodo).targetPort) =>
                    n \in DOMAIN clusters' /\ clusters'[n] = clusters[n]
<1> DEFINE o == snap[svc].obj
           p == Head(portTodo)
           C == MapServicePortToClusters(svc, o, p)
<1>1. clusters' = Put(clusters, C)
  BY DEF MapPort
<1>2. \A f \in o.ipFamilies : <<f, svc, p.targetPort>> \in DOMAIN C
  BY DEF MapServicePortToClusters, getClusterName
<1>3. \A n \in DOMAIN C : C[n] = ClusterOf(svc, p)
  BY DEF MapServicePortToClusters, ClusterOf
<1>4. \A n \in DOMAIN C : n[2] = svc /\ n[3] = p.targetPort
  BY DEF MapServicePortToClusters, getClusterName
<1> HIDE DEF C
<1>5. \A f \in o.ipFamilies :
        LET n == <<f, svc, p.targetPort>>
        IN  n \in DOMAIN clusters' /\ clusters'[n] = ClusterOf(svc, p)
  BY <1>1, <1>2, <1>3, PutValues
<1>6. ASSUME NEW f \in Families, NEW s \in ServiceKeys, NEW num \in Nat,
             <<f, s, num>> \in DOMAIN clusters, s # svc \/ num # p.targetPort
      PROVE  /\ <<f, s, num>> \in DOMAIN clusters'
             /\ clusters'[<<f, s, num>>] = clusters[<<f, s, num>>]
  <2> DEFINE n == <<f, s, num>>
  <2>1. n[2] = s /\ n[3] = num
    OBVIOUS
  <2>2. n \in DOMAIN clusters \ DOMAIN C
    BY <1>4, <1>6, <2>1
  <2> HIDE DEF n
  <2> QED
    BY <1>1, <2>2, PutValues DEF n
<1> QED
  BY <1>5, <1>6

\* What ClustersOfSeenPorts says stays true: of the ports that share a target
\* port, the last one seen gives the cluster its settings.
LEMMA ClustersStay ==
  ASSUME TypeOK, RestIsSuffix, ClustersOfSeenPorts, [Next]_vars
  PROVE  ClustersOfSeenPorts'
<1>1. snap' = snap /\ \A s \in ServiceKeys : Ports(s)' = Ports(s)
  BY Progress
<1>2. \A s \in ServiceKeys : TcpPorts(s)' = TcpPorts(s)
  BY <1>1 DEF TcpPorts
<1> DEFINE Last(s, j, target) ==
             /\ j <= Seen(s)'
             /\ Ports(s)[j].targetPort = target
             /\ \A k \in TcpPorts(s) :
                  k <= Seen(s)' /\ Ports(s)[k].targetPort = target => k <= j
<1>3. SUFFICES ASSUME NEW s \in ServiceKeys, NEW i \in TcpPorts(s), i <= Seen(s)'
               PROVE  \E j \in TcpPorts(s) :
                        /\ Last(s, j, Ports(s)[i].targetPort)
                        /\ \A f \in snap[s].obj.ipFamilies :
                             LET n == <<f, s, Ports(s)[i].targetPort>>
                             IN  n \in DOMAIN clusters' /\ clusters'[n] = ClusterOf(s, Ports(s)[j])
  <2>1. \A s \in ServiceKeys : \A p : ClusterOf(s, p)' = ClusterOf(s, p)
    BY <1>1 DEF ClusterOf
  <2> QED
    BY <1>1, <1>2, <2>1 DEF ClustersOfSeenPorts, LastSeen
<1> DEFINE target == Ports(s)[i].targetPort
<1>4. /\ \A k \in TcpPorts(s) : k \in Int /\ Ports(s)[k].targetPort \in Nat
      /\ snap[s].obj.ipFamilies \subseteq Families
  BY PortFacts, ServiceFacts DEF TcpPorts, IsPort
<1>5. CASE MapPort /\ s = svc /\ target = Head(portTodo).targetPort
  <2> DEFINE m == Seen(s) + 1
  <2>1. PastPort
    BY <1>5 DEF MapPort, PastPort
  <2>2. m \in 1..Len(Ports(s)) /\ Head(portTodo) = Ports(s)[m] /\ Seen(s)' = m
    BY <1>5, <2>1, PortSeen DEF PastPort
  <2>3. m \in TcpPorts(s)
    BY <1>5, <2>2 DEF MapPort, TcpPorts
  <2>4. Last(s, m, target)
    <3> HIDE DEF m
    <3>1. m \in Int
      BY <2>3, <1>4
    <3> QED
      BY <1>5, <2>2, <2>3, <3>1
  <2> HIDE DEF Last, m
  <2>5. \A f \in snap[s].obj.ipFamilies :
          LET n == <<f, s, target>>
          IN  n \in DOMAIN clusters' /\ clusters'[n] = ClusterOf(s, Ports(s)[m])
    BY <1>5, <2>2, ClustersMapped
  <2> QED
    BY <2>3, <2>4, <2>5
<1>6. CASE ~(MapPort /\ s = svc /\ target = Head(portTodo).targetPort)
  <2>1. \A k \in TcpPorts(s) : k <= Seen(s)' /\ Ports(s)[k].targetPort = target => k <= Seen(s)
    BY <1>6, Progress
  <2>2. PICK j \in TcpPorts(s) :
          /\ LastSeen(s, j, target)
          /\ \A f \in snap[s].obj.ipFamilies :
               LET n == <<f, s, target>>
               IN  n \in DOMAIN clusters /\ clusters[n] = ClusterOf(s, Ports(s)[j])
    BY <1>3, <2>1 DEF ClustersOfSeenPorts
  <2>3. Last(s, j, target)
    <3>1. j <= Seen(s)'
      BY <2>2, Progress DEF LastSeen
    <3> QED
      BY <2>1, <2>2, <3>1 DEF LastSeen
  <2> HIDE DEF Last
  <2>4. \A f \in snap[s].obj.ipFamilies :
          LET n == <<f, s, target>>
          IN  n \in DOMAIN clusters' /\ clusters'[n] = clusters[n]
    <3>1. CASE ~MapPort
      BY <2>2, <3>1, OnlyMapPort
    <3>2. CASE MapPort
      BY <1>4, <1>6, <2>2, <3>2, ClustersMapped
    <3> QED
      BY <3>1, <3>2
  <2> QED
    BY <2>2, <2>3, <2>4
<1> QED
  BY <1>5, <1>6

-----------------------------------------------------------------------------
(* Endpoints *)

\* A slice contributes a meta for every endpoint and port, with the endpoint's
\* state.
LEMMA SliceRead ==
  ASSUME NEW e \in Slices
  PROVE  /\ \A q \in e.ports, a \in DOMAIN e.endpoints :
              Meta(e, q, a) \in DOMAIN sliceEndpoints(e)
         /\ \A m \in DOMAIN sliceEndpoints(e) :
              \E q \in e.ports, a \in DOMAIN e.endpoints :
                /\ m = Meta(e, q, a)
                /\ sliceEndpoints(e)[m] = endpointState(e.endpoints[a])
<1>1. \A q \in e.ports, a \in DOMAIN e.endpoints : Meta(e, q, a) \in DOMAIN sliceEndpoints(e)
  BY DEF Meta, sliceEndpoints
<1>2. ASSUME NEW m \in DOMAIN sliceEndpoints(e)
      PROVE  \E q \in e.ports, a \in DOMAIN e.endpoints :
                /\ m = Meta(e, q, a)
                /\ sliceEndpoints(e)[m] = endpointState(e.endpoints[a])
  <2>1. PICK q \in e.ports, a \in DOMAIN e.endpoints : m = Meta(e, q, a)
    BY DEF Meta, sliceEndpoints
  <2>2. a = [ip |-> m.ip, locality |-> m.locality]
    <3>1. a = [ip |-> a.ip, locality |-> a.locality]
      BY SlicesAssumption DEF IsSlice
    <3>2. m.ip = a.ip /\ m.locality = a.locality
      BY <2>1 DEF Meta
    <3> QED
      BY <3>1, <3>2
  <2>3. sliceEndpoints(e)[m] = endpointState(e.endpoints[[ip |-> m.ip, locality |-> m.locality]])
    BY DEF sliceEndpoints
  <2> QED
    BY <2>1, <2>2, <2>3
<1> QED
  BY <1>1, <1>2

\* What was collected stays justified by the slices of the service, and all of
\* what was read stays collected: a later slice adds, and replaces no meta by
\* another.
LEMMA CollectedStays ==
  ASSUME TypeOK, RestIsSuffix, CollectedIsListed, ReadIsCollected, [Next]_vars
  PROVE  CollectedIsListed' /\ ReadIsCollected'
<1>1. ASSUME NEW s \in ServiceKeys, NextService(s)
      PROVE  CollectedIsListed' /\ ReadIsCollected'
  BY <1>1 DEF NextService, CollectedIsListed, ReadIsCollected, Empty
<1>2. CASE PortsDone
  <2>1. /\ UNCHANGED <<snap, svcTodo, svc, sliceTodo, res>>
        /\ svc \notin svcTodo
        /\ sliceTodo = snap[svc].slices
    BY <1>2 DEF PortsDone, work, RestIsSuffix
  <2> QED
    BY <2>1 DEF CollectedIsListed, ReadIsCollected, Meta
<1>3. CASE UNCHANGED <<snap, svcTodo, svc, sliceTodo, res>> /\ (pc' = "slices" => pc = "slices")
  BY <1>3 DEF CollectedIsListed, ReadIsCollected, Meta
<1>4. ASSUME NEW e \in Slices, extractEndpointMetaAndState(e)
      PROVE  CollectedIsListed' /\ ReadIsCollected'
  <2> DEFINE E == sliceEndpoints(e)
  <2>1. /\ UNCHANGED <<snap, svcTodo, svc, pc>>
        /\ pc = "slices"
        /\ e \in sliceTodo
        /\ sliceTodo' = sliceTodo \ {e}
        /\ res' = Put(res, E)
    BY <1>4 DEF extractEndpointMetaAndState
  <2>2. e \in snap[svc].slices
    BY <2>1 DEF ReadIsCollected
  <2>3. \A m \in DOMAIN res' : \/ m \in DOMAIN E /\ res'[m] = E[m]
                               \/ m \in DOMAIN res /\ res'[m] = res[m]
    <3> HIDE DEF E
    <3> QED
      BY <2>1, PutDomain
  <2>4. DOMAIN res' = DOMAIN res \cup DOMAIN E
    <3> HIDE DEF E
    <3> QED
      BY <2>1, PutDomain
  <2>5. CollectedIsListed'
    <3> SUFFICES ASSUME NEW m \in DOMAIN res'
                 PROVE  \E d \in snap[svc].slices : \E q \in d.ports, a \in DOMAIN d.endpoints :
                          m = Meta(d, q, a) /\ res'[m] = endpointState(d.endpoints[a])
      BY <2>1 DEF CollectedIsListed, Meta
    <3>1. CASE m \in DOMAIN E /\ res'[m] = E[m]
      BY <2>2, <3>1, SliceRead
    <3>2. CASE m \in DOMAIN res /\ res'[m] = res[m]
      BY <3>2 DEF CollectedIsListed
    <3> QED
      BY <2>3, <3>1, <3>2
  <2>6. ReadIsCollected'
    <3>1. /\ svc' \notin svcTodo'
          /\ sliceTodo' \subseteq snap'[svc'].slices
      BY <2>1 DEF ReadIsCollected
    <3>2. ASSUME NEW d \in snap[svc].slices \ sliceTodo', NEW q \in d.ports,
                 NEW a \in DOMAIN d.endpoints
          PROVE  Meta(d, q, a) \in DOMAIN res'
      <4>1. CASE d = e
        BY <2>4, <4>1, SliceRead
      <4>2. CASE d # e
        BY <2>1, <2>4, <4>2 DEF ReadIsCollected
      <4> QED
        BY <4>1, <4>2
    <3> QED
      BY <2>1, <3>1, <3>2 DEF ReadIsCollected, Meta
  <2> QED
    BY <2>5, <2>6
<1> QED
  BY <1>1, <1>2, <1>3, <1>4 DEF Next, SkipPort, MapPort, MapEndpoints, NewSnapshot, vars, work

\* Only MapEndpoints assigns endpoints, and finishes a service.
LEMMA OnlyMapEndpoints ==
  ASSUME TypeOK, [Next]_vars, ~MapEndpoints
  PROVE  /\ UNCHANGED <<snap, endpoints>>
         /\ \A s \in ServiceKeys : Assigned(s)' => Assigned(s)
<1>1. UNCHANGED <<snap, endpoints>>
  BY DEF Next, NextService, SkipPort, MapPort, PortsDone, extractEndpointMetaAndState,
         NewSnapshot, vars, resources
<1>2. ASSUME NEW s \in ServiceKeys, NextService(s)
      PROVE  \A t \in ServiceKeys : Assigned(t)' => Assigned(t)
  BY <1>2, ServiceTaken
<1>3. ASSUME UNCHANGED <<svcTodo, svc>>,
             pc' \in {"services", "published"} => pc \in {"services", "published"}
      PROVE  \A t \in ServiceKeys : Assigned(t)' => Assigned(t)
  BY <1>3 DEF Assigned
<1> QED
  BY <1>1, <1>2, <1>3 DEF Next, SkipPort, MapPort, PortsDone, extractEndpointMetaAndState,
                          NewSnapshot, vars, work

\* The load assignments that MapEndpoints makes of what was collected.
LEMMA AssignmentsMapped ==
  ASSUME TypeOK
  PROVE  LET M == MapEndpointSliceToLocalityEndpoints(svc, res)
         IN  /\ \A m \in DOMAIN res :
                  LET n == <<m.ipFamily, svc, m.port>>
                  IN  /\ n \in DOMAIN M
                      /\ \E lb \in M[n] :
                           lb.ip = m.ip /\ lb.locality = m.locality /\ lb.port = m.port
             /\ \A n \in DOMAIN M : \A lb \in M[n] : \E m \in DOMAIN res :
                  /\ n = <<m.ipFamily, svc, m.port>>
                  /\ lb = [ip |-> m.ip, port |-> m.port, locality |-> m.locality,
                           health |-> Health(res[m])]
             /\ \A n \in DOMAIN M : n[2] = svc
<1> DEFINE M == MapEndpointSliceToLocalityEndpoints(svc, res)
           Lb(m) == [ip |-> m.ip, port |-> m.port, locality |-> m.locality,
                     health |-> Health(res[m])]
           Of(n) == {m \in DOMAIN res : <<m.ipFamily, svc, m.port>> = n}
<1>1. /\ DOMAIN M = {<<m.ipFamily, svc, m.port>> : m \in DOMAIN res}
      /\ \A n \in DOMAIN M : M[n] = {Lb(m) : m \in Of(n)}
  BY DEF MapEndpointSliceToLocalityEndpoints, getClusterName
<1> HIDE DEF M
<1>2. ASSUME NEW m \in DOMAIN res
      PROVE  LET n == <<m.ipFamily, svc, m.port>>
             IN  /\ n \in DOMAIN M
                 /\ \E lb \in M[n] : lb.ip = m.ip /\ lb.locality = m.locality /\ lb.port = m.port
  <2> DEFINE n == <<m.ipFamily, svc, m.port>>
  <2>1. n \in DOMAIN M /\ m \in Of(n)
    BY <1>1
  <2>2. Lb(m) \in M[n]
    BY <1>1, <2>1
  <2>3. Lb(m).ip = m.ip /\ Lb(m).locality = m.locality /\ Lb(m).port = m.port
    OBVIOUS
  <2> HIDE DEF Lb
  <2> QED
    BY <2>1, <2>2, <2>3
<1>3. ASSUME NEW n \in DOMAIN M, NEW lb \in M[n]
      PROVE  \E m \in DOMAIN res : n = <<m.ipFamily, svc, m.port>> /\ lb = Lb(m)
  BY <1>1
<1>4. \A n \in DOMAIN M : n[2] = svc
  BY <1>1
<1> QED
  BY <1>2, <1>3, <1>4 DEF M

\* The load assignments stay justified by the slices of their service.
LEMMA AssignedStays ==
  ASSUME TypeOK, CollectedIsListed, AssignedIsListed, [Next]_vars
  PROVE  AssignedIsListed'
<1>1. CASE ~MapEndpoints
  BY <1>1, OnlyMapEndpoints DEF AssignedIsListed
<1>2. CASE MapEndpoints
  <2> DEFINE M == MapEndpointSliceToLocalityEndpoints(svc, res)
             From(c, lb) ==
               \E e \in snap[c[2]].slices : \E q \in e.ports, a \in DOMAIN e.endpoints :
                 /\ c[1] = sliceFamily(e) /\ c[3] = q.port
                 /\ lb = [ip |-> a.ip, port |-> q.port, locality |-> a.locality,
                          health |-> Health(endpointState(e.endpoints[a]))]
  <2>1. endpoints' = Put(endpoints, M) /\ snap' = snap
    BY <1>2 DEF MapEndpoints
  <2>2. ASSUME NEW c \in DOMAIN M, NEW lb \in M[c]
        PROVE  From(c, lb)
    <3>1. PICK m \in DOMAIN res :
            /\ c = <<m.ipFamily, svc, m.port>>
            /\ lb = [ip |-> m.ip, port |-> m.port, locality |-> m.locality,
                     health |-> Health(res[m])]
      BY AssignmentsMapped
    <3>0. PICK e \in snap[svc].slices : \E q \in e.ports, a \in DOMAIN e.endpoints :
            m = Meta(e, q, a) /\ res[m] = endpointState(e.endpoints[a])
      BY DEF CollectedIsListed
    <3>2. PICK q \in e.ports, a \in DOMAIN e.endpoints :
            m = Meta(e, q, a) /\ res[m] = endpointState(e.endpoints[a])
      BY <3>0
    <3>3. /\ m.ipFamily = sliceFamily(e) /\ m.ip = a.ip /\ m.port = q.port
          /\ m.locality = a.locality
      BY <3>2 DEF Meta
    <3>4. c[2] = svc /\ c[1] = sliceFamily(e) /\ c[3] = q.port
      BY <3>1, <3>3
    <3>5. lb = [ip |-> a.ip, port |-> q.port, locality |-> a.locality,
                health |-> Health(endpointState(e.endpoints[a]))]
      BY <3>1, <3>2, <3>3
    <3> QED
      BY <3>4, <3>5
  <2>3. \A c \in DOMAIN endpoints : \A lb \in endpoints[c] : From(c, lb)
    BY DEF AssignedIsListed
  <2> HIDE DEF M, From
  <2>4. \A c \in DOMAIN endpoints' : \A lb \in endpoints'[c] : From(c, lb)
    <3>1. \A c \in DOMAIN endpoints' :
            \/ c \in DOMAIN M /\ endpoints'[c] = M[c]
            \/ c \in DOMAIN endpoints /\ endpoints'[c] = endpoints[c]
      BY <2>1, PutDomain
    <3> QED
      BY <2>2, <2>3, <3>1
  <2> QED
    BY <2>1, <2>4 DEF From, AssignedIsListed
<1> QED
  BY <1>1, <1>2

\* Every listed endpoint of a finished service is in a load assignment and
\* stays there: MapEndpoints of another service leaves it alone.
LEMMA ListedStays ==
  ASSUME TypeOK, ReadIsCollected, ListedIsAssigned, [Next]_vars
  PROVE  ListedIsAssigned'
<1> DEFINE Found(eps, s, e, q, a) ==
             /\ <<sliceFamily(e), s, q.port>> \in DOMAIN eps
             /\ \E lb \in eps[<<sliceFamily(e), s, q.port>>] :
                  lb.ip = a.ip /\ lb.locality = a.locality /\ lb.port = q.port
<1>1. CASE ~MapEndpoints
  BY <1>1, OnlyMapEndpoints DEF ListedIsAssigned
<1>2. CASE MapEndpoints
  <2> DEFINE M == MapEndpointSliceToLocalityEndpoints(svc, res)
  <2>1. /\ endpoints' = Put(endpoints, M)
        /\ UNCHANGED <<snap, svcTodo, svc>>
        /\ sliceTodo = {} /\ pc = "slices"
    BY <1>2 DEF MapEndpoints, work
  <2>2. SUFFICES ASSUME NEW s \in ServiceKeys, Assigned(s)', NEW e \in snap[s].slices,
                        NEW q \in e.ports, NEW a \in DOMAIN e.endpoints
                 PROVE  Found(endpoints', s, e, q, a)
    BY <2>1 DEF ListedIsAssigned
  <2> DEFINE n == <<sliceFamily(e), s, q.port>>
  <2>3. CASE s = svc
    <3> DEFINE m == Meta(e, q, a)
    <3>1. m \in DOMAIN res
      BY <2>1, <2>3 DEF ReadIsCollected
    <3>2. /\ m.ipFamily = sliceFamily(e) /\ m.ip = a.ip /\ m.port = q.port
          /\ m.locality = a.locality
      BY DEF Meta
    <3> HIDE DEF m
    <3>3. /\ n \in DOMAIN M
          /\ \E lb \in M[n] : lb.ip = a.ip /\ lb.locality = a.locality /\ lb.port = q.port
      BY <2>3, <3>1, <3>2, AssignmentsMapped
    <3> HIDE DEF M, n
    <3>4. n \in DOMAIN endpoints' /\ endpoints'[n] = M[n]
      BY <2>1, <3>3, PutValues
    <3> QED
      BY <3>3, <3>4 DEF n
  <2>4. CASE s # svc
    <3>1. Assigned(s)
      BY <2>1, <2>2, <2>4 DEF Assigned
    <3>2. Found(endpoints, s, e, q, a)
      BY <3>1 DEF ListedIsAssigned
    <3>3. n \notin DOMAIN M
      BY <2>4, AssignmentsMapped
    <3> HIDE DEF M, n
    <3>4. n \in DOMAIN endpoints' /\ endpoints'[n] = endpoints[n]
      BY <2>1, <3>2, <3>3, PutValues DEF n
    <3> QED
      BY <3>2, <3>4 DEF n
  <2> QED
    BY <2>3, <2>4
<1> QED
  BY <1>1, <1>2

-----------------------------------------------------------------------------
(* The theorems *)

\* The snapshot read so far is translated as it should be, at every step of
\* EnvoySnapshotFromKubeSnapshot.
THEOREM TranslatedSoFar == Spec => []Inv
<1>1. Init /\ TypeOK => Inv
  <2> SUFFICES ASSUME Init, TypeOK PROVE Inv
    OBVIOUS
  <2>1. RestIsSuffix /\ AllRead /\ ReadIsCollected
    BY DEF Init, RestIsSuffix, AllRead, ReadIsCollected
  <2>2. \A s \in ServiceKeys : Seen(s) = 0 /\ ~Assigned(s)
    BY DEF Init, Seen, Assigned
  <2>3. \A s \in ServiceKeys : \A i \in TcpPorts(s) : ~(i <= Seen(s))
    BY <2>2, PortFacts DEF TcpPorts
  <2>4. ListenersOfSeenPorts /\ ClustersOfSeenPorts
    BY <2>3 DEF ListenersOfSeenPorts, ClustersOfSeenPorts
  <2>5. ListedIsAssigned
    BY <2>2 DEF ListedIsAssigned
  <2>6. RoutesAreOwn /\ CollectedIsListed /\ AssignedIsListed
    BY DEF Init, Empty, RoutesAreOwn, CollectedIsListed, AssignedIsListed
  <2> QED
    BY <2>1, <2>4, <2>5, <2>6 DEF Inv
<1>2. Inv /\ TypeOK' /\ [Next]_vars => Inv'
  <2> SUFFICES ASSUME Inv, TypeOK', [Next]_vars PROVE Inv'
    OBVIOUS
  <2> USE DEF Inv
  <2>1. AllRead'
    BY DEF AllRead, Next, NextService, SkipPort, MapPort, PortsDone,
           extractEndpointMetaAndState, MapEndpoints, NewSnapshot, vars, work
  <2>2. RestIsSuffix'
    BY Progress
  <2>3. ListenersOfSeenPorts'
    BY ListenersStay
  <2>4. ClustersOfSeenPorts'
    BY ClustersStay
  <2>5. RoutesAreOwn'
    BY RoutesStay
  <2>6. CollectedIsListed' /\ ReadIsCollected'
    BY CollectedStays
  <2>7. AssignedIsListed'
    BY AssignedStays
  <2>8. ListedIsAssigned'
    BY ListedStays
  <2> QED
    BY <2>1, <2>2, <2>3, <2>4, <2>5, <2>6, <2>7, <2>8
<1> QED
  BY <1>1, <1>2, TypeCorrect, PTL DEF Spec

\* A load-balancing endpoint is in a slice of its service and of its cluster's
\* family, with the health that the slice says.
LEMMA AssignmentListed ==
  ASSUME Inv, NEW c \in DOMAIN endpoints, NEW lb \in endpoints[c]
  PROVE  \E e \in snap[c[2]].slices :
           /\ c[1] = sliceFamily(e) /\ c[3] = lb.port
           /\ Listed(lb, e)
           /\ lb.health = Health(endpointState(
                            e.endpoints[[ip |-> lb.ip, locality |-> lb.locality]]))
<1>1. PICK e \in snap[c[2]].slices : \E q \in e.ports, a \in DOMAIN e.endpoints :
        /\ c[1] = sliceFamily(e) /\ c[3] = q.port
        /\ lb = [ip |-> a.ip, port |-> q.port, locality |-> a.locality,
                 health |-> Health(endpointState(e.endpoints[a]))]
  BY DEF Inv, AssignedIsListed
<1>2. PICK q \in e.ports, a \in DOMAIN e.endpoints :
        /\ c[1] = sliceFamily(e) /\ c[3] = q.port
        /\ lb = [ip |-> a.ip, port |-> q.port, locality |-> a.locality,
                 health |-> Health(endpointState(e.endpoints[a]))]
  BY <1>1
<1>3. e \in Slices
  <2>1. c[2] \in ServiceKeys
    BY DEF Inv, TypeOK, ClusterNames
  <2> QED
    BY <2>1, ServiceFacts DEF Inv
<1>4. a = [ip |-> a.ip, locality |-> a.locality]
  BY <1>3, SlicesAssumption DEF IsSlice
<1>5. /\ lb.ip = a.ip /\ lb.locality = a.locality /\ lb.port = q.port
      /\ lb.health = Health(endpointState(e.endpoints[a]))
  BY <1>2
<1>6. a = [ip |-> lb.ip, locality |-> lb.locality]
  BY <1>4, <1>5
<1> QED
  BY <1>2, <1>5, <1>6 DEF Listed

\* No endpoint of another service, of the other family or at another port's
\* target port gets the traffic for a port of a service.
THEOREM OwnEndpoints == Spec => []OnlyOwnEndpoints
<1>1. Inv => OnlyOwnEndpoints
  <2> SUFFICES ASSUME Inv, NEW n \in DOMAIN listeners
               PROVE  \E p \in PortsOf(snap[n[1]].obj) :
                 /\ p.protocol = "TCP"
                 /\ n[3] = IF n[2] \in Addrs THEN p.port ELSE p.nodePort
                 /\ \A chain \in listeners[n].filterChains :
                      chain.cluster \in DOMAIN endpoints =>
                        \A lb \in endpoints[chain.cluster] :
                          /\ lb.port = p.targetPort
                          /\ \E e \in snap[n[1]].slices :
                               sliceFamily(e) = ListenFamily(n[2]) /\ Listed(lb, e)
    BY DEF OnlyOwnEndpoints
  <2>1. PICK p : /\ ForPort(n, p)
                 /\ \A chain \in listeners[n].filterChains :
                      chain.cluster = <<ListenFamily(n[2]), n[1], p.targetPort>>
    BY DEF Inv, RoutesAreOwn
  <2>2. ASSUME NEW chain \in listeners[n].filterChains,
               chain.cluster \in DOMAIN endpoints, NEW lb \in endpoints[chain.cluster]
        PROVE  /\ lb.port = p.targetPort
               /\ \E e \in snap[n[1]].slices :
                    sliceFamily(e) = ListenFamily(n[2]) /\ Listed(lb, e)
    <3> DEFINE c == chain.cluster
    <3>1. c[1] = ListenFamily(n[2]) /\ c[2] = n[1] /\ c[3] = p.targetPort
      BY <2>1
    <3>2. PICK e \in snap[c[2]].slices :
            c[1] = sliceFamily(e) /\ c[3] = lb.port /\ Listed(lb, e)
      BY <2>2, AssignmentListed
    <3> QED
      BY <3>1, <3>2
  <2> QED
    BY <2>1, <2>2 DEF ForPort
<1> QED
  BY <1>1, TranslatedSoFar, PTL

\* The health of an endpoint is what some slice of the service says of it, in
\* whatever order extractEndpointMetaAndState reads the slices.
THEOREM HealthAsListed == Spec => []HealthJustified
<1>1. Inv => HealthJustified
  <2> SUFFICES ASSUME Inv, NEW c \in DOMAIN endpoints, NEW lb \in endpoints[c]
               PROVE  \E e \in snap[c[2]].slices :
                        /\ Listed(lb, e)
                        /\ LET conditions == e.endpoints[[ip |-> lb.ip, locality |-> lb.locality]]
                           IN  /\ lb.health = "UNHEALTHY" <=> conditions.ready = "false"
                               /\ lb.health = "HEALTHY" => conditions.terminating # "true"
    BY DEF HealthJustified
  <2>1. PICK e \in snap[c[2]].slices :
          /\ Listed(lb, e)
          /\ lb.health = Health(endpointState(
                           e.endpoints[[ip |-> lb.ip, locality |-> lb.locality]]))
    BY AssignmentListed
  <2>2. \A conditions :
          LET health == Health(endpointState(conditions))
          IN  /\ health = "UNHEALTHY" <=> conditions.ready = "false"
              /\ health = "HEALTHY" => conditions.terminating # "true"
    BY DEF Health, endpointState
  <2> QED
    BY <2>1, <2>2
<1> QED
  BY <1>1, TranslatedSoFar, PTL

\* In the end all ports have been seen and all endpoints assigned.
LEMMA Finished ==
  ASSUME Inv, pc = "published", NEW s \in ServiceKeys
  PROVE  /\ Assigned(s)
         /\ Seen(s) = Len(Ports(s))
         /\ \A i \in TcpPorts(s) : i <= Seen(s)
<1>1. svcTodo = {}
  BY DEF Inv, AllRead
<1>2. Assigned(s) /\ Seen(s) = Len(Ports(s))
  BY <1>1 DEF Assigned, Seen
<1>3. Len(Ports(s)) \in Nat
  BY PortFacts DEF Inv
<1> QED
  BY <1>2, <1>3 DEF TcpPorts

\* Traffic for a port of a service gets to all endpoints listed for its target
\* port, whatever other services, ports and slices there are.
THEOREM AllEndpointsServed == Spec => []EndpointsReachable
<1>1. Inv => EndpointsReachable
  <2> SUFFICES ASSUME Inv, pc = "published",
                      NEW s \in ServiceKeys, NEW p \in PortsOf(snap[s].obj),
                      p.protocol = "TCP", getProtocol(p) # "REDIS",
                      NEW ip \in snap[s].obj.clusterIPs \ {"None"}
               PROVE  /\ <<s, ip, p.port>> \in DOMAIN listeners
                      /\ \E chain \in listeners[<<s, ip, p.port>>].filterChains :
                           \A e \in snap[s].slices :
                              /\ p.targetPort \in {q.port : q \in e.ports}
                              /\ sliceFamily(e) = ipStringToIpFamily[ip]
                              => \A a \in DOMAIN e.endpoints :
                                   /\ chain.cluster \in DOMAIN endpoints
                                   /\ \E lb \in endpoints[chain.cluster] :
                                        /\ <<lb.ip, lb.locality>> = <<a.ip, a.locality>>
                                        /\ lb.port = p.targetPort
    BY DEF EndpointsReachable
  <2> DEFINE c == getClusterName(s, ipStringToIpFamily[ip], p.targetPort)
             settings == getPortSetings(snap[s].obj.annotations, p)
  <2>1. PICK i \in TcpPorts(s) : Ports(s)[i] = p
    BY DEF PortsOf, TcpPorts, Ports
  <2>2. /\ <<s, ip, p.port>> \in DOMAIN listeners
        /\ listeners[<<s, ip, p.port>>] = ListenerOf(s, ip, p)
    BY <2>1, Finished DEF Inv, ListenersOfSeenPorts
  <2>3. \E chain \in ListenerOf(s, ip, p).filterChains : chain.cluster = c
    <3>1. settings.Protocol \in {"TCP", "HTTP"}
      BY DEF getPortSetings, getProtocol
    <3>2. ListenerOf(s, ip, p).filterChains
            \in {genTCPFilterChain(settings, c), genHTTPFilterChain(settings, c)}
      <4> HIDE DEF settings, c
      <4>1. genListener(ip, p.port, FALSE, settings, c).filterChains
              \in {genTCPFilterChain(settings, c), genHTTPFilterChain(settings, c)}
        BY <3>1 DEF genListener
      <4> QED
        BY <4>1 DEF ListenerOf, settings, c
    <3>3. /\ \E chain \in genTCPFilterChain(settings, c) : chain.cluster = c
          /\ \E chain \in genHTTPFilterChain(settings, c) : chain.cluster = c
      BY DEF genTCPFilterChain, genHTTPFilterChain
    <3> HIDE DEF settings, c
    <3> QED
      BY <3>1, <3>2, <3>3
  <2>4. PICK chain \in listeners[<<s, ip, p.port>>].filterChains : chain.cluster = c
    BY <2>2, <2>3
  <2>5. ASSUME NEW e \in snap[s].slices,
               p.targetPort \in {q.port : q \in e.ports},
               sliceFamily(e) = ipStringToIpFamily[ip],
               NEW a \in DOMAIN e.endpoints
        PROVE  /\ c \in DOMAIN endpoints
               /\ \E lb \in endpoints[c] :
                    /\ <<lb.ip, lb.locality>> = <<a.ip, a.locality>>
                    /\ lb.port = p.targetPort
    <3>1. PICK q \in e.ports : q.port = p.targetPort
      BY <2>5
    <3>2. c = <<sliceFamily(e), s, q.port>>
      BY <2>5, <3>1 DEF getClusterName
    <3>3. Assigned(s)
      BY Finished
    <3>4. /\ <<sliceFamily(e), s, q.port>> \in DOMAIN endpoints
          /\ \E lb \in endpoints[<<sliceFamily(e), s, q.port>>] :
               lb.ip = a.ip /\ lb.locality = a.locality /\ lb.port = q.port
      BY <3>3 DEF Inv, ListedIsAssigned
    <3> QED
      BY <3>1, <3>2, <3>4
  <2> QED
    BY <2>2, <2>4, <2>5
<1> QED
  BY <1>1, TranslatedSoFar, PTL

-----------------------------------------------------------------------------
(* Settings *)

\* The kinds of settings, and the defaults that matter.
LEMMA SettingKinds ==
  ASSUME NEW setting \in SettingNames
  PROVE  /\ Settings[setting].type \in {"uint32", "duration", "bool", "string"}
         /\ Settings[setting].type = "bool" => Settings[setting].default \in BOOLEAN
         /\ setting = "LoadBalancingPolicy" =>
              /\ Settings[setting].type = "string"
              /\ Settings[setting].default = Word("LEAST_REQUEST")
<1> DEFINE Durations == {"IdleTimeout", "RequestTimeout",
                         "UpstreamRequestTimeout", "UpstreamIdleTimeout",
                         "UpstreamConnectTimeout", "OutlierDetectionInterval",
                         "OutlierDetectionBaseEjectionTime",
                         "OutlierDetectionMaxEjectionTime"}
           Numbers == {"NumRetries", "CircuitBreakerDefaultMaxConnections",
                       "CircuitBreakerDefaultMaxPendingRequests",
                       "CircuitBreakerDefaultMaxRequests",
                       "CircuitBreakerDefaultMaxRetries",
                       "CircuitBreakerHighMaxConnections",
                       "CircuitBreakerHighMaxPendingRequests",
                       "CircuitBreakerHighMaxRequests",
                       "CircuitBreakerHighMaxRetries",
                       "OutlierDetectionMaxEjectionPercent",
                       "OutlierDetectionConsecutive5xx",
                       "OutlierDetectionConsecutiveGatewayFailure"}
           Bools == {"EnableRetry", "CircuitBreakerDefaultTrackRemaining",
                     "CircuitBreakerHighTrackRemaining", "AccessLog"}
           Strings == {"RetryOn", "LoadBalancingPolicy"}
<1>1. SettingNames = Durations \cup Numbers \cup Bools \cup Strings
  BY SMT DEF SettingNames, Settings
<1>2. \A x \in Durations : Settings[x].type = "duration"
  <2>1. /\ Settings["IdleTimeout"].type = "duration"
        /\ Settings["RequestTimeout"].type = "duration"
        /\ Settings["UpstreamRequestTimeout"].type = "duration"
        /\ Settings["UpstreamIdleTimeout"].type = "duration"
        /\ Settings["UpstreamConnectTimeout"].type = "duration"
        /\ Settings["OutlierDetectionInterval"].type = "duration"
        /\ Settings["OutlierDetectionBaseEjectionTime"].type = "duration"
        /\ Settings["OutlierDetectionMaxEjectionTime"].type = "duration"
    BY SMT DEF Settings, Duration
  <2> QED
    BY <2>1
<1>3. \A x \in Numbers : Settings[x].type = "uint32"
  <2>1. /\ Settings["NumRetries"].type = "uint32"
        /\ Settings["CircuitBreakerDefaultMaxConnections"].type = "uint32"
        /\ Settings["CircuitBreakerDefaultMaxPendingRequests"].type = "uint32"
        /\ Settings["CircuitBreakerDefaultMaxRequests"].type = "uint32"
        /\ Settings["CircuitBreakerDefaultMaxRetries"].type = "uint32"
        /\ Settings["CircuitBreakerHighMaxConnections"].type = "uint32"
        /\ Settings["CircuitBreakerHighMaxPendingRequests"].type = "uint32"
        /\ Settings["CircuitBreakerHighMaxRequests"].type = "uint32"
        /\ Settings["CircuitBreakerHighMaxRetries"].type = "uint32"
        /\ Settings["OutlierDetectionMaxEjectionPercent"].type = "uint32"
        /\ Settings["OutlierDetectionConsecutive5xx"].type = "uint32"
        /\ Settings["OutlierDetectionConsecutiveGatewayFailure"].type = "uint32"
    BY SMT DEF Settings, Uint32
  <2> QED
    BY <2>1
<1>4. \A x \in Strings : Settings[x].type = "string"
  <2>1. Settings["RetryOn"].type = "string"
    BY SMT DEF Settings, Uint32, Duration, Bool, String
  <2>2. Settings["LoadBalancingPolicy"].type = "string"
    BY SMT DEF Settings, Uint32, Duration, Bool, String
  <2> QED
    BY <2>1, <2>2
<1>5. \A x \in Bools : Settings[x].type = "bool" /\ Settings[x].default \in BOOLEAN
  <2>1. /\ Settings["EnableRetry"].type = "bool"
        /\ Settings["CircuitBreakerDefaultTrackRemaining"].type = "bool"
        /\ Settings["CircuitBreakerHighTrackRemaining"].type = "bool"
        /\ Settings["AccessLog"].type = "bool"
    BY SMT DEF Settings, Uint32, Duration, Bool, String
  <2>2. /\ Settings["EnableRetry"].default = TRUE
        /\ Settings["CircuitBreakerDefaultTrackRemaining"].default = FALSE
        /\ Settings["CircuitBreakerHighTrackRemaining"].default = FALSE
        /\ Settings["AccessLog"].default = TRUE
    BY SMT DEF Settings, Uint32, Duration, Bool, String
  <2> QED
    BY <2>1, <2>2
<1>6. Settings["LoadBalancingPolicy"].default = Word("LEAST_REQUEST")
  BY SMT DEF Settings, String
<1> QED
  BY <1>1, <1>2, <1>3, <1>4, <1>5, <1>6

\* The conversion to uint32 loses multiples of 2^32 and nothing else.
LEMMA Uint32Fits ==
  ASSUME NEW n \in Int
  PROVE  /\ uint32(n) \in 0..(Uint32Size - 1)
         /\ (n - uint32(n)) % Uint32Size = 0
<1>1. /\ n % Uint32Size \in 0..(Uint32Size - 1)
      /\ n = (Uint32Size * (n \div Uint32Size)) + (n % Uint32Size)
      /\ n \div Uint32Size \in Int
  BY WidthAssumption, SMTT(20)
<1>2. \A k \in Int : (Uint32Size * k) % Uint32Size = 0
  BY WidthAssumption, SMTT(20)
<1>3. n - (n % Uint32Size) = Uint32Size * (n \div Uint32Size)
  BY <1>1, WidthAssumption
<1> QED
  BY <1>1, <1>2, <1>3 DEF uint32

\* The helpers of helper.go give a setting what its annotation says.
LEMMA ConfigAsAnnotated ==
  ASSUME NEW annotations, NEW port, NEW setting \in SettingNames,
         \A key \in DOMAIN annotations : IsText(annotations[key])
  PROVE  AsAnnotated(getConfig(annotations, port, setting), annotations, port, setting)
<1> DEFINE key == port.name \o Settings[setting].key
           type == Settings[setting].type
           default == Settings[setting].default
           value == getConfig(annotations, port, setting)
           text == annotations[key]
<1>1. CASE type \in {"uint32", "duration"}
  <2>1. value = IF key \in DOMAIN annotations /\ IsInt64(text) THEN uint32(text.value) ELSE default
    BY <1>1 DEF getConfig, getDurationConfig, getUint32Config, getPortSettingsAnnotationsKey
  <2>2. key \in DOMAIN annotations /\ IsInt64(text) => text.value \in Int
    BY DEF IsInt64, IsText
  <2> HIDE DEF key, type, default, value, text
  <2>3. IF key \notin DOMAIN annotations THEN value = default
        ELSE IF ~IsInt64(text) THEN value = default
        ELSE /\ value \in 0..(Uint32Size - 1)
             /\ (text.value - value) % Uint32Size = 0
    BY <2>1, <2>2, Uint32Fits
  <2> QED
    BY <1>1, <2>3 DEF AsAnnotated, key, type, default, value, text
<1>2. CASE type = "bool"
  <2>1. value = IF key \in DOMAIN annotations /\ (IsTrue(text) \/ IsFalse(text))
                THEN IsTrue(text) ELSE default
    BY <1>2 DEF getConfig, getBoolConfig, getPortSettingsAnnotationsKey
  <2>2. IsTrue(text) \in BOOLEAN /\ IsFalse(text) \in BOOLEAN /\ default \in BOOLEAN
    <3>1. CASE text.kind = "number"
      BY <1>2, <3>1, SettingKinds DEF IsTrue, IsFalse
    <3>2. CASE text.kind # "number"
      BY <1>2, <3>2, SettingKinds DEF IsTrue, IsFalse
    <3> QED
      BY <3>1, <3>2
  <2> HIDE DEF key, type, default, value, text
  <2>3. IF key \notin DOMAIN annotations THEN value = default
        ELSE value = (IsTrue(text) \/ (default /\ ~IsFalse(text)))
    BY <2>1, <2>2
  <2> QED
    BY <1>2, <2>3 DEF AsAnnotated, key, type, default, value, text
<1>3. CASE type = "string"
  <2> DEFINE given == IF key \in DOMAIN annotations THEN text ELSE default
  <2>1. value = IF setting = "LoadBalancingPolicy" THEN getLbPolicy(given) ELSE given
    BY <1>3 DEF getConfig, getStringConfig, getPortSettingsAnnotationsKey
  <2>2. setting = "LoadBalancingPolicy" => default = Word("LEAST_REQUEST")
    BY SettingKinds
  <2> DEFINE IsPolicy(t) == t.kind = "word" /\ t.value \in LbPolicies
  <2>3. getLbPolicy(given) = IF IsPolicy(given) THEN given ELSE Word("LEAST_REQUEST")
    BY DEF getLbPolicy
  <2> HIDE DEF key, type, default, value, text, IsPolicy
  <2>4. IF key \notin DOMAIN annotations THEN value = default
        ELSE value = IF setting = "LoadBalancingPolicy" /\ ~IsPolicy(text)
                     THEN default ELSE text
    BY <2>1, <2>2, <2>3
  <2> QED
    BY <1>3, <2>4 DEF AsAnnotated, key, type, default, value, text, IsPolicy
<1> QED
  BY <1>1, <1>2, <1>3, SettingKinds

\* So do the settings that a cluster or a filter takes over.
LEMMA WithAsAnnotated ==
  ASSUME NEW annotations, NEW port, NEW names \in SUBSET SettingNames,
         \A key \in DOMAIN annotations : IsText(annotations[key])
  PROVE  LET settings == With(getPortSetings(annotations, port), names)
         IN  \A n \in DOMAIN settings : AsAnnotated(settings[n], annotations, port, n)
<1> DEFINE settings == With(getPortSetings(annotations, port), names)
<1>1. DOMAIN settings = names
  BY DEF With
<1>2. \A n \in names : settings[n] = getConfig(annotations, port, n)
  BY DEF With, getPortSetings
<1> QED
  BY <1>1, <1>2, ConfigAsAnnotated

\* They take over settings of a port.
LEMMA SettingsTaken ==
  /\ TCPSettings \subseteq SettingNames
  /\ HTTPSettings \subseteq SettingNames
  /\ ClusterSettings \subseteq SettingNames
<1>1. TCPSettings \subseteq SettingNames /\ HTTPSettings \subseteq SettingNames
  BY SMT DEF SettingNames, Settings, TCPSettings, HTTPSettings
<1>2. ClusterSettings \subseteq SettingNames
  BY SMT DEF SettingNames, Settings, ClusterSettings
<1> QED
  BY <1>1, <1>2

\* Connections are subject to the settings annotated for their port, and
\* clusters have those of the last port that leads to them, for all names of
\* ports and all annotations.
THEOREM AnnotationsObeyed == Spec => []SettingsApplied
<1>1. Inv => SettingsApplied
  <2> SUFFICES ASSUME Inv, pc = "published", NEW s \in ServiceKeys
               PROVE
      LET obj == snap[s].obj
          Applied(settings, port) ==
            \A n \in DOMAIN settings :
              AsAnnotated(settings[n], obj.annotations, port, n)
          Tcp == {i \in 1..Len(obj.ports) : obj.ports[i].protocol = "TCP"}
          LastOf(target) == CHOOSE i \in Tcp :
            /\ obj.ports[i].targetPort = target
            /\ \A k \in Tcp : obj.ports[k].targetPort = target => k <= i
      IN  \A i \in Tcp :
            LET port == obj.ports[i]
            IN  /\ \A ip \in obj.clusterIPs \ {"None"} :
                     \A chain \in listeners[<<s, ip, port.port>>].filterChains :
                       Applied(chain.settings, port)
                /\ \A f \in obj.ipFamilies :
                     Applied(clusters[<<f, s, port.targetPort>>],
                             obj.ports[LastOf(port.targetPort)])
    BY DEF SettingsApplied
  <2> DEFINE obj == snap[s].obj
             Applied(settings, port) ==
               \A n \in DOMAIN settings :
                 AsAnnotated(settings[n], obj.annotations, port, n)
             LastOf(target) == CHOOSE i \in TcpPorts(s) :
               /\ Ports(s)[i].targetPort = target
               /\ \A k \in TcpPorts(s) : Ports(s)[k].targetPort = target => k <= i
  <2>1. \A key \in DOMAIN obj.annotations : IsText(obj.annotations[key])
    BY ServiceFacts DEF Inv, IsObject
  <2>2. ASSUME NEW i \in TcpPorts(s), NEW ip \in obj.clusterIPs \ {"None"},
               NEW chain \in listeners[<<s, ip, Ports(s)[i].port>>].filterChains
        PROVE  Applied(chain.settings, Ports(s)[i])
    <3> DEFINE port == Ports(s)[i]
               settings == getPortSetings(obj.annotations, port)
    <3>1. chain \in ListenerOf(s, ip, port).filterChains
      BY Finished DEF Inv, ListenersOfSeenPorts
    <3>2. \/ chain.settings = With(settings, TCPSettings)
          \/ chain.settings = With(settings, HTTPSettings)
      BY <3>1 DEF ListenerOf, genListener, genTCPFilterChain, genHTTPFilterChain
    <3>3. /\ Applied(With(settings, TCPSettings), port)
          /\ Applied(With(settings, HTTPSettings), port)
      BY <2>1, SettingsTaken, WithAsAnnotated
    <3> HIDE DEF Applied
    <3> QED
      BY <3>2, <3>3
  <2>3. ASSUME NEW i \in TcpPorts(s), NEW f \in obj.ipFamilies
        PROVE  Applied(clusters[<<f, s, Ports(s)[i].targetPort>>],
                       Ports(s)[LastOf(Ports(s)[i].targetPort)])
    <3> DEFINE target == Ports(s)[i].targetPort
    <3>1. PICK j \in TcpPorts(s) :
            /\ LastSeen(s, j, target)
            /\ clusters[<<f, s, target>>] = ClusterOf(s, Ports(s)[j])
      BY Finished DEF Inv, ClustersOfSeenPorts
    <3>2. LastOf(target) = j
      <4>1. /\ Ports(s)[j].targetPort = target
            /\ \A k \in TcpPorts(s) : Ports(s)[k].targetPort = target => k <= j
        BY <3>1, Finished DEF LastSeen
      <4>2. \A k \in TcpPorts(s) : k \in Int
        BY PortFacts DEF Inv, TcpPorts
      <4>3. \A m \in TcpPorts(s) :
              /\ Ports(s)[m].targetPort = target
              /\ \A k \in TcpPorts(s) : Ports(s)[k].targetPort = target => k <= m
              => m = j
        BY <4>1, <4>2
      <4> QED
        BY <4>1, <4>3
    <3>3. Applied(ClusterOf(s, Ports(s)[j]), Ports(s)[j])
      BY <2>1, SettingsTaken, WithAsAnnotated DEF ClusterOf
    <3> HIDE DEF Applied, LastOf
    <3> QED
      BY <3>1, <3>2, <3>3
  <2> QED
    BY <2>2, <2>3 DEF TcpPorts, Ports
<1> QED
  BY <1>1, TranslatedSoFar, PTL
=============================================================================
