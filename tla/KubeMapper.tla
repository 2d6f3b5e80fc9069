----------------------------- MODULE KubeMapper -----------------------------
(***************************************************************************)
(* The translation of a snapshot of services and endpoint slices into an   *)
(* Envoy snapshot (pkg/translations): clusters, load assignments and       *)
(* listeners, by name.                                                     *)
(*                                                                         *)
(* The snapshot lists services and slices in the order of a Go map, which  *)
(* is any order.  The ports of a service keep theirs.  Resources are       *)
(* appended to lists and cache.NewSnapshot indexes each list by name, so   *)
(* of two resources of one name the later counts; here they are put into a *)
(* map at once.                                                            *)
(*                                                                         *)
(* Names are tuples instead of strings joined with "|", which no part of a *)
(* name contains.  The settings of a port come from PortSettings.  Of a    *)
(* filter or a cluster the settings it carries are kept, not its constant  *)
(* parts.                                                                  *)
(***************************************************************************)
EXTENDS PortSettings

CONSTANTS
  ServiceKeys,         \* namespace/name
  Objects,             \* service objects that may occur, see Object
  Slices,              \* endpoint slices that may occur, see Slice
  ipStringToIpFamily   \* the family of the addresses that occur in ClusterIPs

Families == {"IPv4", "IPv6"}
Addrs == DOMAIN ipStringToIpFamily

\* Service.Spec and the annotations with the config prefix, which is left out
\* of their keys.  A targetPort of 0 is a named port: its IntVal is 0.
IsPort(p) ==
  /\ DOMAIN p = {"name", "appProtocol", "protocol", "port", "targetPort", "nodePort"}
  /\ p.protocol \in {"TCP", "UDP"}
  /\ {p.port, p.targetPort, p.nodePort} \subseteq Nat

PortsOf(o) == {o.ports[i] : i \in 1..Len(o.ports)}

IsObject(o) ==
  /\ DOMAIN o = {"type", "ipFamilies", "clusterIPs", "ports", "annotations"}
  /\ o.type \in {"ClusterIP", "NodePort"}
  /\ o.ipFamilies \subseteq Families
  /\ o.clusterIPs \subseteq Addrs \cup {"None"}
  /\ o.ports \in Seq(PortsOf(o))
  /\ \A p \in PortsOf(o) : IsPort(p)
  /\ \A key \in DOMAIN o.annotations : IsText(o.annotations[key])

\* No two ports of a service have the same protocol and number.
DistinctPorts(o) ==
  \A i, j \in 1..Len(o.ports) :
    /\ o.ports[i].protocol = o.ports[j].protocol
    /\ o.ports[i].port = o.ports[j].port
    => i = j

\* An EndpointSlice: ports carry the name of the service port they are for;
\* endpoints maps an address and its locality to conditions, each "true",
\* "false" or "nil".
IsSlice(e) ==
  /\ DOMAIN e = {"addressType", "ports", "endpoints"}
  /\ e.addressType \in {"IPv4", "IPv6", "FQDN"}
  /\ \A p \in e.ports : DOMAIN p = {"name", "port"} /\ p.port \in Nat
  /\ \A a \in DOMAIN e.endpoints : a = [ip |-> a.ip, locality |-> a.locality]

\* The API server keeps the families of a service in step with its addresses,
\* refuses two ports with one protocol and number, and assigns no unspecified
\* address.
ASSUME ObjectsAssumption ==
  /\ ServiceKeys # {}
  /\ ipStringToIpFamily \in [Addrs -> Families]
  /\ {"None", "0.0.0.0", "::"} \cap Addrs = {}
  /\ \A o \in Objects :
       /\ IsObject(o)
       /\ DistinctPorts(o)
       /\ \A ip \in o.clusterIPs \ {"None"} : ipStringToIpFamily[ip] \in o.ipFamilies
ASSUME SlicesAssumption == \A e \in Slices : IsSlice(e)

VARIABLES
  snap,       \* the snapshot: an object and slices for every service
  svcTodo,    \* services not looked at yet
  svc,        \* the service at work
  portTodo,   \* its ports not mapped yet
  sliceTodo,  \* its slices not looked at yet
  res,        \* endpointMeta -> endpointState, as collected so far
  clusters,   \* cluster name -> settings
  listeners,  \* listener name -> listener
  endpoints,  \* cluster name -> load assignment
  pc          \* "services", "ports", "slices", "published"

work == <<svcTodo, svc, portTodo, sliceTodo, res>>
resources == <<clusters, listeners, endpoints>>
vars == <<snap, work, resources, pc>>

Empty == [x \in {} |-> x]

\* A map after the entries of another were written to it.
Put(old, new) ==
  [x \in DOMAIN old \cup DOMAIN new |-> IF x \in DOMAIN new THEN new[x] ELSE old[x]]

Init ==
  /\ snap \in [ServiceKeys -> [obj : Objects, slices : SUBSET Slices]]
  /\ svcTodo = ServiceKeys
  /\ svc = CHOOSE s \in ServiceKeys : TRUE
  /\ portTodo = <<>>
  /\ sliceTodo = {}
  /\ res = Empty
  /\ clusters = Empty /\ listeners = Empty /\ endpoints = Empty
  /\ pc = "services"

-----------------------------------------------------------------------------
(* Names *)

getClusterName(s, ipFamily, port) == <<ipFamily, s, port>>

getListenerName(s, ip, port) == <<s, ip, port>>

-----------------------------------------------------------------------------
(* Clusters and listeners of a port *)

\* The settings that a cluster, a TCP filter and an HTTP filter carry.  No one
\* carries EnableRetry: an HTTP filter always has a retry policy.
ClusterSettings ==
  {"UpstreamConnectTimeout", "LoadBalancingPolicy",
   "CircuitBreakerDefaultMaxConnections", "CircuitBreakerDefaultMaxPendingRequests",
   "CircuitBreakerDefaultMaxRequests", "CircuitBreakerDefaultMaxRetries",
   "CircuitBreakerDefaultTrackRemaining",
   "CircuitBreakerHighMaxConnections", "CircuitBreakerHighMaxPendingRequests",
   "CircuitBreakerHighMaxRequests", "CircuitBreakerHighMaxRetries",
   "CircuitBreakerHighTrackRemaining",
   "OutlierDetectionInterval", "OutlierDetectionBaseEjectionTime",
   "OutlierDetectionMaxEjectionTime", "OutlierDetectionMaxEjectionPercent",
   "OutlierDetectionConsecutive5xx", "OutlierDetectionConsecutiveGatewayFailure"}

TCPSettings == {"IdleTimeout", "UpstreamIdleTimeout", "NumRetries"}

HTTPSettings ==
  {"IdleTimeout", "RequestTimeout", "UpstreamIdleTimeout", "UpstreamRequestTimeout",
   "RetryOn", "NumRetries", "AccessLog"}

With(settings, names) == [n \in names |-> settings.config[n]]

\* Mutant: only the family of the first address gets a cluster.
MapServicePortToClustersV4(s, obj, port) ==
  [n \in {getClusterName(s, f, port.targetPort) : f \in obj.ipFamilies \cap {"IPv4"}}
     |-> With(getPortSetings(obj.annotations, port), ClusterSettings)]

MapServicePortToClusters(s, obj, port) ==
  [n \in {getClusterName(s, f, port.targetPort) : f \in obj.ipFamilies}
     |-> With(getPortSetings(obj.annotations, port), ClusterSettings)]

\* A filter chain: the proxy filter, its settings, and where it routes to.  The
\* HTTP filter has one catch-all route.
genTCPFilterChain(settings, cluster) ==
  {[filter |-> "tcp_proxy", settings |-> With(settings, TCPSettings), cluster |-> cluster]}

genHTTPFilterChain(settings, cluster) ==
  {[filter |-> "http_connection_manager", settings |-> With(settings, HTTPSettings),
    cluster |-> cluster]}

genListener(ip, port, bind, settings, cluster) ==
  [ip |-> ip, port |-> port, bind |-> bind,
   filterChains |-> CASE settings.Protocol = "TCP" -> genTCPFilterChain(settings, cluster)
                      [] settings.Protocol = "HTTP" -> genHTTPFilterChain(settings, cluster)
                      [] OTHER -> {}]

\* Mutant: the filter for headless services is missing.
ClusterIPListenersHeadless(s, obj, port) ==
  [n \in {getListenerName(s, ip, port.port) : ip \in obj.clusterIPs} |->
     genListener(n[2], port.port, FALSE, getPortSetings(obj.annotations, port),
                 getClusterName(s, "IPv4", port.targetPort))]

\* ClusterIPs: Envoy gets these connections redirected and does not bind.
ClusterIPListeners(s, obj, port) ==
  [n \in {getListenerName(s, ip, port.port) : ip \in obj.clusterIPs \ {"None"}} |->
     genListener(n[2], port.port, FALSE, getPortSetings(obj.annotations, port),
                 getClusterName(s, ipStringToIpFamily[n[2]], port.targetPort))]

AnyAddr == [f \in Families |-> IF f = "IPv6" THEN "::" ELSE "0.0.0.0"]

NodePortListeners(s, obj, port) ==
  LET families == {f \in obj.ipFamilies : obj.type = "NodePort"}
      family(ip) == CHOOSE f \in Families : AnyAddr[f] = ip
  IN  [n \in {getListenerName(s, AnyAddr[f], port.nodePort) : f \in families} |->
         genListener(n[2], port.nodePort, TRUE, getPortSetings(obj.annotations, port),
                     getClusterName(s, family(n[2]), port.targetPort))]

MapServicePortToListeners(s, obj, port) ==
  Put(ClusterIPListeners(s, obj, port), NodePortListeners(s, obj, port))

-----------------------------------------------------------------------------
(* Endpoints *)

Health(state) ==
  IF ~state.ready THEN "UNHEALTHY"
  ELSE IF state.terminating THEN "DRAINING" ELSE "HEALTHY"

\* Mutant: readiness that is left out counts as false.
endpointStateNil(conditions) ==
  [ready |-> conditions.ready = "true",
   terminating |-> conditions.terminating = "true"]

\* Left out, ready counts as true and terminating as false.  serving is
\* recorded by the code too and never read.
endpointState(conditions) ==
  [ready |-> conditions.ready # "false",
   terminating |-> conditions.terminating = "true"]

\* Every address type but IPv6 counts as IPv4.
sliceFamily(e) == IF e.addressType = "IPv6" THEN "IPv6" ELSE "IPv4"

\* What one slice contributes to extractEndpointMetaAndState.
sliceEndpoints(e) ==
  [m \in {[ipFamily |-> sliceFamily(e), ip |-> a.ip, port |-> p.port, locality |-> a.locality] :
            a \in DOMAIN e.endpoints, p \in e.ports} |->
     endpointState(e.endpoints[[ip |-> m.ip, locality |-> m.locality]])]

\* Mutant: endpoints are grouped by family, not by family and port.
MapEndpointSliceToLocalityEndpointsAnyPort(s, metas) ==
  [n \in {getClusterName(s, m.ipFamily, m.port) : m \in DOMAIN metas} |->
     {[ip |-> m.ip, port |-> m.port, locality |-> m.locality, health |-> Health(metas[m])] :
        m \in {k \in DOMAIN metas : k.ipFamily = n[1]}}]

MapEndpointSliceToLocalityEndpoints(s, metas) ==
  [n \in {getClusterName(s, m.ipFamily, m.port) : m \in DOMAIN metas} |->
     {[ip |-> m.ip, port |-> m.port, locality |-> m.locality, health |-> Health(metas[m])] :
        m \in {k \in DOMAIN metas : getClusterName(s, k.ipFamily, k.port) = n}}]

-----------------------------------------------------------------------------
(* EnvoySnapshotFromKubeSnapshot *)

NextService(s) ==
  /\ pc = "services"
  /\ s \in svcTodo
  /\ svc' = s
  /\ svcTodo' = svcTodo \ {s}
  /\ portTodo' = snap[s].obj.ports
  /\ sliceTodo' = snap[s].slices
  /\ res' = Empty
  /\ pc' = "ports"
  /\ UNCHANGED <<snap, resources>>

SkipPort ==
  /\ pc = "ports"
  /\ portTodo # <<>>
  /\ Head(portTodo).protocol # "TCP"
  /\ portTodo' = Tail(portTodo)
  /\ UNCHANGED <<snap, svcTodo, svc, sliceTodo, res, resources, pc>>

MapPort ==
  /\ pc = "ports"
  /\ portTodo # <<>>
  /\ Head(portTodo).protocol = "TCP"
  /\ clusters' = Put(clusters, MapServicePortToClusters(svc, snap[svc].obj, Head(portTodo)))
  /\ listeners' = Put(listeners, MapServicePortToListeners(svc, snap[svc].obj, Head(portTodo)))
  /\ portTodo' = Tail(portTodo)
  /\ UNCHANGED <<snap, svcTodo, svc, sliceTodo, res, endpoints, pc>>

PortsDone ==
  /\ pc = "ports"
  /\ portTodo = <<>>
  /\ pc' = "slices"
  /\ UNCHANGED <<snap, work, resources>>

\* Mutant: each slice starts a new map.
extractEndpointMetaAndStateReset(e) ==
  /\ pc = "slices"
  /\ e \in sliceTodo
  /\ res' = sliceEndpoints(e)
  /\ sliceTodo' = sliceTodo \ {e}
  /\ UNCHANGED <<snap, svcTodo, svc, portTodo, resources, pc>>

\* One round of the loop: of a meta in two slices the later slice's state stays.
extractEndpointMetaAndState(e) ==
  /\ pc = "slices"
  /\ e \in sliceTodo
  /\ res' = Put(res, sliceEndpoints(e))
  /\ sliceTodo' = sliceTodo \ {e}
  /\ UNCHANGED <<snap, svcTodo, svc, portTodo, resources, pc>>

MapEndpoints ==
  /\ pc = "slices"
  /\ sliceTodo = {}
  /\ endpoints' = Put(endpoints, MapEndpointSliceToLocalityEndpoints(svc, res))
  /\ pc' = "services"
  /\ UNCHANGED <<snap, work, clusters, listeners>>

NewSnapshot ==
  /\ pc = "services"
  /\ svcTodo = {}
  /\ pc' = "published"
  /\ UNCHANGED <<snap, work, resources>>

Next ==
  \/ \E s \in ServiceKeys : NextService(s)
  \/ SkipPort \/ MapPort \/ PortsDone
  \/ \E e \in Slices : extractEndpointMetaAndState(e)
  \/ MapEndpoints \/ NewSnapshot

Spec == Init /\ [][Next]_vars

-----------------------------------------------------------------------------
(* Properties *)

ListenAddrs == Addrs \cup {"0.0.0.0", "::"}
ClusterNames == Families \X ServiceKeys \X Nat

\* Type correctness of the translation: no listener listens on "None".
TypeOK ==
  /\ snap \in [ServiceKeys -> [obj : Objects, slices : SUBSET Slices]]
  /\ svcTodo \subseteq ServiceKeys
  /\ svc \in ServiceKeys
  /\ portTodo \in Seq(UNION {PortsOf(o) : o \in Objects})
  /\ sliceTodo \subseteq Slices
  /\ \A m \in DOMAIN res : m.ipFamily \in Families /\ m.port \in Nat
  /\ DOMAIN clusters \subseteq ClusterNames
  /\ DOMAIN endpoints \subseteq ClusterNames
  /\ DOMAIN listeners \subseteq ServiceKeys \X ListenAddrs \X Nat
  /\ pc \in {"services", "ports", "slices", "published"}

\* Wherever a listener routes to, that cluster is published: of a dual-stack
\* service, of ports that share a target port, of node ports.
ListenersResolve ==
  \A n \in DOMAIN listeners :
    \A chain \in listeners[n].filterChains : chain.cluster \in DOMAIN clusters

\* The listed endpoint a load-balancing endpoint stands for.
Listed(lb, e) ==
  /\ lb.port \in {q.port : q \in e.ports}
  /\ [ip |-> lb.ip, locality |-> lb.locality] \in DOMAIN e.endpoints

\* Whatever the order of services and slices, a TCP or HTTP port with a numeric
\* target port gets through to all endpoints of its family: for each address of
\* the service there is a listener that leads to a cluster whose load
\* assignment has every endpoint that some slice lists for the target port.
EndpointsReachable ==
  pc = "published" =>
    \A s \in ServiceKeys : \A p \in PortsOf(snap[s].obj) :
      p.protocol = "TCP" /\ getProtocol(p) # "REDIS" =>
        \A ip \in snap[s].obj.clusterIPs \ {"None"} :
          /\ <<s, ip, p.port>> \in DOMAIN listeners
          /\ \E chain \in listeners[<<s, ip, p.port>>].filterChains :
               \A e \in snap[s].slices :
                  /\ p.targetPort \in {q.port : q \in e.ports}
                  /\ sliceFamily(e) = ipStringToIpFamily[ip]
                  => \A a \in DOMAIN e.endpoints :
                       /\ chain.cluster \in DOMAIN endpoints
                       /\ \E lb \in endpoints[chain.cluster] :
                            /\ <<lb.ip, lb.locality>> = <<a.ip, a.locality>>
                            /\ lb.port = p.targetPort

\* The family of an address that a listener listens on.
ListenFamily(ip) ==
  IF ip \in Addrs THEN ipStringToIpFamily[ip] ELSE IF ip = "::" THEN "IPv6" ELSE "IPv4"

\* Traffic for a port of a service, at its addresses or at its node port, ends
\* at endpoints that a slice of this service lists, of the address's family, and
\* at the target port of this very port: services, ports and families are never
\* mixed up.
OnlyOwnEndpoints ==
  pc = "published" =>
    \A n \in DOMAIN listeners : \E p \in PortsOf(snap[n[1]].obj) :
      /\ p.protocol = "TCP"
      /\ n[3] = IF n[2] \in Addrs THEN p.port ELSE p.nodePort
      /\ \A chain \in listeners[n].filterChains :
           chain.cluster \in DOMAIN endpoints =>
             \A lb \in endpoints[chain.cluster] :
               /\ lb.port = p.targetPort
               /\ \E e \in snap[n[1]].slices :
                    sliceFamily(e) = ListenFamily(n[2]) /\ Listed(lb, e)

\* An endpoint is withheld from traffic only if a slice says that it is not
\* ready, and offered only if a slice does not: with one slice, or slices that
\* agree, the order in which they are read does not matter.
HealthJustified ==
  pc = "published" =>
    \A c \in DOMAIN endpoints : \A lb \in endpoints[c] :
      \E e \in snap[c[2]].slices :
        /\ Listed(lb, e)
        /\ LET conditions == e.endpoints[[ip |-> lb.ip, locality |-> lb.locality]]
           IN  /\ lb.health = "UNHEALTHY" <=> conditions.ready = "false"
               /\ lb.health = "HEALTHY" => conditions.terminating # "true"

\* What an annotation makes of a setting of a port: a number is taken as it is,
\* but for multiples of 2^32, which are lost; a text that is no number of 64
\* bits, no truth value or no policy where one is due leaves the default, the
\* constant of wellknown.go.
AsAnnotated(value, annotations, port, setting) ==
  LET key == port.name \o Settings[setting].key
      type == Settings[setting].type
      default == Settings[setting].default
      IsPolicy(text) == text.kind = "word" /\ text.value \in LbPolicies
  IN  IF key \notin DOMAIN annotations THEN value = default
      ELSE CASE type = "string" ->
                  value = IF setting = "LoadBalancingPolicy" /\ ~IsPolicy(annotations[key])
                          THEN default ELSE annotations[key]
             [] type = "bool" ->
                  value = (IsTrue(annotations[key]) \/ (default /\ ~IsFalse(annotations[key])))
             [] type \in {"uint32", "duration"} ->
                  IF ~IsInt64(annotations[key]) THEN value = default
                  ELSE /\ value \in 0..(Uint32Size - 1)
                       /\ (annotations[key].value - value) % Uint32Size = 0

\* "Per port configuration options": each connection to a port is subject to the
\* listener settings annotated for that very port, whatever the other ports
\* are called; its cluster, shared by the ports with one target port, has
\* the settings of the last of them, in the order of the service's ports.
SettingsApplied ==
  pc = "published" =>
    \A s \in ServiceKeys :
      LET obj == snap[s].obj
          Applied(settings, port) ==
            \A n \in DOMAIN settings :
              AsAnnotated(settings[n], obj.annotations, port, n)
          Tcp == {i \in 1..Len(obj.ports) : obj.ports[i].protocol = "TCP"}
          LastOf(target) == CHOOSE i \in Tcp :
            /\ obj.ports[i].targetPort = target
            /\ \A k \in Tcp : obj.ports[k].targetPort = target => k <= i
      IN  \A i \in Tcp :
            LET port == obj.ports[i]
            IN  /\ \A ip \in obj.clusterIPs \ {"None"} :
                     \A chain \in listeners[<<s, ip, port.port>>].filterChains :
                       Applied(chain.settings, port)
                /\ \A f \in obj.ipFamilies :
                     Applied(clusters[<<f, s, port.targetPort>>],
                             obj.ports[LastOf(port.targetPort)])

\* What the comments say of the settings of a port.  Left out, the idle timeout
\* upstream is 300 seconds, "default: 300", and an HTTP request is repeated on
\* "gateway-error,reset,connect-failure,"; retry-enabled set to disabled is to
\* "disable retries", and outlier-detection-max-ejection-percent set to 0 is to
\* "don't allow outlier ejection".
SettingsDocumented ==
  pc = "published" =>
    \A s \in ServiceKeys : \A p \in PortsOf(snap[s].obj) :
      LET annotations == snap[s].obj.annotations
          Unset(setting) == (p.name \o Settings[setting].key) \notin DOMAIN annotations
          Set(key, text) == key \in DOMAIN annotations /\ annotations[key] = text
          percent == Settings["OutlierDetectionMaxEjectionPercent"].key
      IN  p.protocol = "TCP" /\ getProtocol(p) = "HTTP" =>
            /\ \A ip \in snap[s].obj.clusterIPs \ {"None"} :
                 \A chain \in listeners[<<s, ip, p.port>>].filterChains :
                   /\ Unset("UpstreamIdleTimeout") => chain.settings["UpstreamIdleTimeout"] = 300
                   /\ Unset("RetryOn") => chain.settings["RetryOn"]
                                            = Word("gateway-error,reset,connect-failure,")
                   /\ Set(p.name \o Settings["EnableRetry"].key, Word("disabled")) =>
                        chain.settings["NumRetries"] = 0
            /\ Set(percent, Number(0)) => \A f \in snap[s].obj.ipFamilies :
                 clusters[<<f, s, p.targetPort>>]["OutlierDetectionMaxEjectionPercent"] = 0

\* Every TCP port of the service has an endpoint in a slice, in each family, and
\* the slices have no ports but these.
Backed(s) ==
  LET tcp == {p \in PortsOf(snap[s].obj) : p.protocol = "TCP"}
  IN  /\ \A p \in tcp, f \in snap[s].obj.ipFamilies : \E e \in snap[s].slices :
           /\ sliceFamily(e) = f
           /\ DOMAIN e.endpoints # {}
           /\ \E q \in e.ports : q.name = p.name
      /\ \A e \in snap[s].slices :
           /\ sliceFamily(e) \in snap[s].obj.ipFamilies
           /\ \A q \in e.ports : \E p \in tcp : p.name = q.name

\* UpdateSnapshot warns that a "Snapshot is inconsistent" when clusters and load
\* assignments do not go by the same names: not so for services whose ports
\* all have endpoints.
SnapshotConsistent ==
  pc = "published" /\ (\A s \in ServiceKeys : Backed(s))
    => DOMAIN clusters = DOMAIN endpoints
=============================================================================
