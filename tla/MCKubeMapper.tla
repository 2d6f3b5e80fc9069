---------------------------- MODULE MCKubeMapper ----------------------------
\* Instances of KubeMapper: services of every kind with slices of every kind.
EXTENDS KubeMapper, TLC

TwoServices == {"ns/a", "ns/b"}
OneService == {"ns/a"}

FamilyOf == "10.0.0.1" :> "IPv4" @@ "fd00::1" :> "IPv6"

Port(name, app, protocol, port, targetPort) ==
  [name |-> name, appProtocol |-> app, protocol |-> protocol, port |-> port,
   targetPort |-> targetPort, nodePort |-> 30000 + port]

Http == Port(<<"http">>, <<>>, "TCP", 80, 8080)
Metrics == Port(<<"metrics">>, <<"tcp">>, "TCP", 81, 8080)
Admin == Port(<<"admin">>, <<>>, "TCP", 82, 8082)
AdminHttp == Port(<<"admin", "upstream">>, <<"http">>, "TCP", 83, 8080)
Dns == Port(<<"dns">>, <<>>, "UDP", 53, 8082)
Redis == Port(<<"redis">>, <<"lightpath.cloud/redis">>, "TCP", 6379, 8082)
Named == Port(<<"web">>, <<"http">>, "TCP", 80, 0)
Unnamed == Port(<<"">>, <<>>, "TCP", 84, 8082)

\* Numbers that fit, that do not fit 32 bits, that do not fit 64 bits; a number
\* for a text, a text for a number.  The key of http's idle timeout is shared by
\* no other setting, the one of admin-upstream's is also admin's
\* upstream-idle-timeout.
HttpAnnotations ==
  <<"http", "idle", "timeout">> :> Number(7)
  @@ <<"http", "num", "retries">> :> Number(-1)
  @@ <<"http", "retry", "on">> :> Number(5)
  @@ <<"http", "retry", "enabled">> :> Word("disabled")
  @@ <<"http", "upstream", "connect", "timeout">> :> Number(0)
  @@ <<"metrics", "upstream", "connect", "timeout">> :> Number(Uint32Size + 3)
  @@ <<"metrics", "lb", "policy">> :> Word("MAGLEV")
AdminAnnotations ==
  <<"admin", "upstream", "idle", "timeout">> :> Number(Uint32Size - 1)
  @@ <<"admin", "num", "retries">> :> Number(MaxInt64 + 1)
  @@ <<"admin", "idle", "timeout">> :> Word("5s")
  @@ <<"admin", "lb", "policy">> :> Word("FASTEST")
  @@ <<"admin", "circuit", "breaker", "high", "track", "remaining">> :> Number(1)
  @@ <<"admin", "upstream", "access", "log">> :> Word("f")
  @@ <<"", "idle", "timeout">> :> Number(9)

Object(type, families, ips, ports, annotations) ==
  [type |-> type, ipFamilies |-> families, clusterIPs |-> ips, ports |-> ports,
   annotations |-> annotations]

DualStack(ports, annotations) ==
  Object("NodePort", {"IPv4", "IPv6"}, {"10.0.0.1", "fd00::1"}, ports, annotations)
SingleStack(ports, annotations) ==
  Object("ClusterIP", {"IPv4"}, {"10.0.0.1"}, ports, annotations)

\* Two ports with one target port; a UDP port; a redis and a named port; an
\* unlabelled headless service; an IPv6 service without port names.
AllObjects ==
  {DualStack(<<Http, Metrics>>, HttpAnnotations),
   SingleStack(<<AdminHttp, Dns, Admin>>, AdminAnnotations),
   DualStack(<<Redis, Named>>, Empty),
   Object("ClusterIP", {"IPv4"}, {"None"}, <<Http>>, HttpAnnotations),
   Object("ClusterIP", {"IPv6"}, {"fd00::1"}, <<Unnamed>>, AdminAnnotations)}

PortNumbered(n) == [name |-> IF n = 8080 THEN <<"http">> ELSE <<"admin">>, port |-> n]
Conditions(ready, terminating) == [ready |-> ready, terminating |-> terminating]
At(ip) == [ip |-> ip, locality |-> "zone"]

\* An endpoint in two slices that disagree about it, one of them with a second
\* endpoint that is draining; an IPv6 slice with both ports; host names.
AllSlices ==
  {[addressType |-> "IPv4", ports |-> {PortNumbered(8080)},
    endpoints |-> At("e1") :> Conditions("nil", "nil")],
   [addressType |-> "IPv4", ports |-> {PortNumbered(8080), PortNumbered(8082)},
    endpoints |-> At("e1") :> Conditions("false", "true")
                  @@ At("e2") :> Conditions("true", "true")],
   [addressType |-> "IPv6", ports |-> {PortNumbered(8080), PortNumbered(8082)},
    endpoints |-> At("e6") :> Conditions("true", "false")],
   [addressType |-> "FQDN", ports |-> {PortNumbered(8082)},
    endpoints |-> At("host") :> Conditions("nil", "false")]}

\* A single slice behind a port of the name web.
WebSlice ==
  [addressType |-> "IPv4", ports |-> {[name |-> <<"web">>, port |-> 8080]},
   endpoints |-> At("e1") :> Conditions("true", "false")]

NamedObjects == {SingleStack(<<Named>>, Empty)}

\* A service with the annotations of the test deployment (hack/ci/test-deploy.yaml).
Whoami ==
  SingleStack(<<Http>>,
    <<"http", "retry", "enabled">> :> Word("disabled")
    @@ <<"outlier", "detection", "max", "ejection", "percent">> :> Number(0))
DeployedObjects == {Whoami}
OneSlice == {WebSlice}
=============================================================================
