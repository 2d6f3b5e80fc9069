---------------------------- MODULE PortSettings ----------------------------
(***************************************************************************)
(* The settings of a service port, read from the service's annotations     *)
(* (pkg/translations/portsettings.go, helper.go; names and defaults from   *)
(* pkg/wellknown).                                                         *)
(*                                                                         *)
(* A name is the sequence of its words, the parts between hyphens, because *)
(* an annotation's key joins a port name and a setting name with a hyphen. *)
(* An annotation's text is a decimal number, or a word that is none.       *)
(* Durations are in seconds.  The sizes of Go's integers are parameters;   *)
(* uint32 keeps the remainder, as the conversion does.                     *)
(***************************************************************************)
EXTENDS Integers, Sequences

CONSTANTS
  Uint32Size,  \* 2^32
  MaxInt64     \* 2^63 - 1

ASSUME WidthAssumption ==
  /\ Uint32Size \in Nat \ {0}
  /\ MaxInt64 \in Nat
  /\ Uint32Size <= MaxInt64

Number(n) == [kind |-> "number", value |-> n]
Word(w) == [kind |-> "word", value |-> w]

IsText(text) == text.kind = "number" => text.value \in Int

-----------------------------------------------------------------------------
(* The annotations *)

Uint32(key, default) == [type |-> "uint32", key |-> key, default |-> default]
Duration(key, default) == [type |-> "duration", key |-> key, default |-> default]
Bool(key, default) == [type |-> "bool", key |-> key, default |-> default]
String(key, default) == [type |-> "string", key |-> key, default |-> default]

PortRetryOnDefault == Word("5xx,reset,retriable-headers")

\* The settings of a port under the names of PortSettings' fields.
Settings ==
  LET breaker(words) == <<"circuit", "breaker">> \o words
      outlier(words) == <<"outlier", "detection">> \o words
      unlimited == 1000000000
  IN
  [IdleTimeout |-> Duration(<<"idle", "timeout">>, 300),
   RequestTimeout |-> Duration(<<"request", "timeout">>, 15),
   UpstreamRequestTimeout |-> Duration(<<"upstream", "request", "timeout">>, 5),
   UpstreamIdleTimeout |-> Duration(<<"upstream", "idle", "timeout">>, 15),
   UpstreamConnectTimeout |-> Duration(<<"upstream", "connect", "timeout">>, 5),
   EnableRetry |-> Bool(<<"retry", "enabled">>, TRUE),
   RetryOn |-> String(<<"retry", "on">>, PortRetryOnDefault),
   NumRetries |-> Uint32(<<"num", "retries">>, 2),
   CircuitBreakerDefaultMaxConnections |->
     Uint32(breaker(<<"default", "max", "connections">>), unlimited),
   CircuitBreakerDefaultMaxPendingRequests |->
     Uint32(breaker(<<"default", "max", "pending", "requests">>), unlimited),
   CircuitBreakerDefaultMaxRequests |->
     Uint32(breaker(<<"default", "max", "requests">>), unlimited),
   CircuitBreakerDefaultMaxRetries |->
     Uint32(breaker(<<"default", "max", "retries">>), 3),
   CircuitBreakerDefaultTrackRemaining |->
     Bool(breaker(<<"default", "track", "remaining">>), FALSE),
   CircuitBreakerHighMaxConnections |->
     Uint32(breaker(<<"high", "max", "connections">>), unlimited),
   CircuitBreakerHighMaxPendingRequests |->
     Uint32(breaker(<<"high", "max", "pending", "requests">>), unlimited),
   CircuitBreakerHighMaxRequests |->
     Uint32(breaker(<<"high", "max", "requests">>), unlimited),
   CircuitBreakerHighMaxRetries |->
     Uint32(breaker(<<"high", "max", "retries">>), 3),
   CircuitBreakerHighTrackRemaining |->
     Bool(breaker(<<"high", "track", "remaining">>), FALSE),
   OutlierDetectionInterval |-> Duration(outlier(<<"interval">>), 10),
   OutlierDetectionBaseEjectionTime |->
     Duration(outlier(<<"base", "ejection", "time">>), 30),
   OutlierDetectionMaxEjectionTime |->
     Duration(outlier(<<"max", "ejection", "time">>), 300),
   OutlierDetectionMaxEjectionPercent |->
     Uint32(outlier(<<"max", "ejection", "percent">>), 10),
   OutlierDetectionConsecutive5xx |-> Uint32(outlier(<<"consecutive", "5xx">>), 5),
   OutlierDetectionConsecutiveGatewayFailure |->
     Uint32(outlier(<<"consecutive", "gateway", "failure">>), 5),
   LoadBalancingPolicy |-> String(<<"lb", "policy">>, Word("LEAST_REQUEST")),
   AccessLog |-> Bool(<<"access", "log">>, TRUE)]

SettingNames == DOMAIN Settings

-----------------------------------------------------------------------------
(* helper.go: one operator per type of setting *)

\* Mutant: the settings are those of the service, not of the port.
getPortSettingsAnnotationsKeyNoPort(port, setting) == Settings[setting].key

getPortSettingsAnnotationsKey(port, setting) == port.name \o Settings[setting].key

\* strconv.ParseInt(text, 10, 64) succeeds.
IsInt64(text) ==
  text.kind = "number" /\ -MaxInt64 - 1 <= text.value /\ text.value <= MaxInt64

uint32(n) == n % Uint32Size

getUint32Config(annotations, port, setting) ==
  LET key == getPortSettingsAnnotationsKey(port, setting)
  IN  IF key \in DOMAIN annotations /\ IsInt64(annotations[key])
      THEN uint32(annotations[key].value)
      ELSE Settings[setting].default

\* A uint32 of seconds is far from the limit of a time.Duration.
getDurationConfig(annotations, port, setting) ==
  getUint32Config(annotations, port, setting)

\* strconv.ParseBool: the texts that mean true, and those that mean false.
IsTrue(text) ==
  IF text.kind = "number" THEN text.value = 1
  ELSE text.value \in {"t", "T", "true", "TRUE", "True"}
IsFalse(text) ==
  IF text.kind = "number" THEN text.value = 0
  ELSE text.value \in {"f", "F", "false", "FALSE", "False"}

getBoolConfig(annotations, port, setting) ==
  LET key == getPortSettingsAnnotationsKey(port, setting)
      IsBool(text) == IsTrue(text) \/ IsFalse(text)
  IN  IF key \in DOMAIN annotations /\ IsBool(annotations[key])
      THEN IsTrue(annotations[key])
      ELSE Settings[setting].default

getStringConfig(annotations, port, setting) ==
  LET key == getPortSettingsAnnotationsKey(port, setting)
  IN  IF key \in DOMAIN annotations THEN annotations[key] ELSE Settings[setting].default

-----------------------------------------------------------------------------
(* portsettings.go *)

\* The application protocol decides and, where it is left out (<<>>), the name.
getProtocol(port) ==
  LET app == IF port.appProtocol = <<>> THEN port.name ELSE port.appProtocol
  IN  CASE app = <<"lightpath.cloud/redis">> -> "REDIS"
        [] app = <<"http">> -> "HTTP"
        [] OTHER -> "TCP"

LbPolicies == {"LEAST_REQUEST", "ROUND_ROBIN", "MAGLEV", "RANDOM", "RING_HASH"}

getLbPolicy(lbPolicy) ==
  IF lbPolicy.kind = "word" /\ lbPolicy.value \in LbPolicies THEN lbPolicy ELSE Word("LEAST_REQUEST")

getConfig(annotations, port, setting) ==
  CASE Settings[setting].type = "duration" -> getDurationConfig(annotations, port, setting)
    [] Settings[setting].type = "uint32" -> getUint32Config(annotations, port, setting)
    [] Settings[setting].type = "bool" -> getBoolConfig(annotations, port, setting)
    [] Settings[setting].type = "string" ->
         LET text == getStringConfig(annotations, port, setting)
         IN  IF setting = "LoadBalancingPolicy" THEN getLbPolicy(text) ELSE text

getPortSetings(annotations, port) ==
  [Protocol |-> getProtocol(port),
   config |-> [s \in SettingNames |-> getConfig(annotations, port, s)]]
=============================================================================
