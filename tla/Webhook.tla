------------------------------ MODULE Webhook ------------------------------
(***************************************************************************)
(* Which proxy gets a service: the admission webhook's policy              *)
(* (deploy/webhook/rego/labelinject.rego), its registration                *)
(* (deploy/webhook/webhook.yaml), and the API server that calls it.        *)
(*                                                                         *)
(* A service has labels, a map that is left out when it is empty, and      *)
(* ports, reduced to their protocols.  An undefined reference makes a Rego *)
(* expression false and its negation true.  JSON Patch and the API server  *)
(* are external, and so is kube-proxy, which passes over services with a   *)
(* proxy name or the headless label.                                       *)
(***************************************************************************)
EXTENDS Naturals, Sequences

CONSTANTS
  Keys,                \* services: pairs of a namespace and a name
  Disabled,            \* namespaces with the label lightpath: disabled
  Objects,             \* what users may submit: labels and protocols
  WebhookServer,       \* the service the webhook is called through
  MaxFaults            \* bound on failures of the webhook's pods

ProxyName == "service.kubernetes.io/service-proxy-name"
ProxyEnabled == "lightpath.cloud/proxy"
Headless == "service.kubernetes.io/headless"
Lightpath == "lightpath.cloud"

Protocols == {"TCP", "UDP", "SCTP"}

IsObject(o) ==
  /\ DOMAIN o = {"labels", "protocols"}
  /\ o.protocols \in SUBSET Protocols \ {{}}

ASSUME WebhookAssumption ==
  /\ WebhookServer \in Keys
  /\ WebhookServer[1] \in Disabled
  /\ \A o \in Objects : IsObject(o)
  /\ MaxFaults \in Nat

VARIABLES
  stored,     \* the services in the API server, as far as they exist
  created,    \* what their users wrote first, at their creation
  submitted,  \* what their users wrote last
  installed,  \* the MutatingWebhookConfiguration exists
  pods,       \* a pod of the webhook answers
  faults      \* failures of the pods so far

vars == <<stored, created, submitted, installed, pods, faults>>

Empty == [x \in {} |-> x]

Init ==
  /\ stored = Empty
  /\ created = Empty
  /\ submitted = Empty
  /\ installed = FALSE
  /\ pods = FALSE
  /\ faults = 0

-----------------------------------------------------------------------------
(* labelinject.rego *)

well_known_exclusions == {"lightpath-system", "kube-system", "cert-manager"}

\* The rule asks for input.object, which no input has.
ExcludedNamespace(input) ==
  /\ "object" \in DOMAIN input
  /\ input.object.namespace \in well_known_exclusions

\* Mutant: services of all protocols match.
patch_conditionsAnyProtocol(input) ==
  LET labels == input.request.object.labels
  IN  /\ input.request.operation = "CREATE"
      /\ ProxyName \notin DOMAIN labels
      /\ ~(ProxyEnabled \in DOMAIN labels /\ labels[ProxyEnabled] = "disabled")
      /\ ~ExcludedNamespace(input)

\* "some port" binds one port: a service with one TCP port among others matches.
patch_conditions(input) ==
  LET labels == input.request.object.labels
  IN  /\ input.request.operation = "CREATE"
      /\ \E protocol \in input.request.object.protocols : ~(protocol # "TCP")
      /\ ProxyName \notin DOMAIN labels
      /\ ~(ProxyEnabled \in DOMAIN labels /\ labels[ProxyEnabled] = "disabled")
      /\ ~ExcludedNamespace(input)

\* Mutant: the slash in the label's name is escaped twice.
AddLabelEscaped(label, value) ==
  [path |-> <<"metadata", "labels", "service.kubernetes.io~1service-proxy-name">>,
   value |-> value]

\* Operations of JSON Patch that add a label, or a label map.
AddLabel(label, value) == [path |-> <<"metadata", "labels", label>>, value |-> value]

AddLabels(labels) == [path |-> <<"metadata", "labels">>, value |-> labels]

Proxied == [l \in {ProxyName} |-> Lightpath]

\* Mutant: the label map is always created.
patchReplaces(input) == {p \in {AddLabels(Proxied)} : patch_conditions(input)}

\* Mutant: the label map is taken to exist.
patchNoMap(input) == {p \in {AddLabel(ProxyName, Lightpath)} : patch_conditions(input)}

\* One label where there is a label map, else the map.
patch(input) ==
  LET exists == DOMAIN input.request.object.labels # {}
  IN  {p \in {IF exists THEN AddLabel(ProxyName, Lightpath) ELSE AddLabels(Proxied)} :
         patch_conditions(input)}

deny(input) ==
  input.request.kind.kind # "Service" \/ input.request.kind.version # "v1"

mutate(input) == [allowed |-> ~deny(input), patch |-> patch(input)]

-----------------------------------------------------------------------------
(* The API server *)

\* "add" needs the parent of what it adds, and replaces what is there.
Applies(p, labels) == Len(p.path) = 3 => DOMAIN labels # {}

Apply(p, labels) ==
  IF Len(p.path) = 2 THEN p.value
  ELSE [l \in DOMAIN labels \cup {p.path[3]} |->
          IF l = p.path[3] THEN p.value ELSE labels[l]]

AdmissionReview(operation, key, object) ==
  [apiVersion |-> "admission.k8s.io/v1", kind |-> "AdmissionReview",
   request |-> [operation |-> operation, kind |-> [kind |-> "Service", version |-> "v1"],
                namespace |-> key[1], object |-> object]]

\* Mutant: the registration has no namespace selector.
MatchesAll(key) == installed

\* webhook.yaml: rules and namespaceSelector, for the creation of a service.
Matches(key) == installed /\ key[1] \notin Disabled

\* The API server reaches the webhook through its service.
Serving == installed /\ pods /\ WebhookServer \in DOMAIN stored

Set(map, key, value) ==
  [k \in DOMAIN map \cup {key} |-> IF k = key THEN value ELSE map[k]]

\* A creation that the webhook has no part in.
CreateDirectly(key, object) ==
  /\ key \notin DOMAIN stored
  /\ ~Matches(key)
  /\ stored' = Set(stored, key, object)
  /\ created' = Set(created, key, object)
  /\ submitted' = Set(submitted, key, object)
  /\ UNCHANGED <<installed, pods, faults>>

\* The webhook's answer to a creation lets it happen.
Admitted(key, object) ==
  LET answer == mutate(AdmissionReview("CREATE", key, object))
  IN  answer.allowed /\ \A p \in answer.patch : Applies(p, object.labels)

\* A creation that the webhook answers.
CreateReviewed(key, object) ==
  LET answer == mutate(AdmissionReview("CREATE", key, object))
  IN  /\ key \notin DOMAIN stored
      /\ Matches(key)
      /\ Serving
      /\ Admitted(key, object)
      /\ stored' = Set(stored, key,
           IF answer.patch = {} THEN object
           ELSE [object EXCEPT !.labels =
                   Apply(CHOOSE p \in answer.patch : TRUE, object.labels)])
      /\ created' = Set(created, key, object)
      /\ submitted' = Set(submitted, key, object)
      /\ UNCHANGED <<installed, pods, faults>>

\* failurePolicy: without an answer the creation is refused, as it is by an answer
\* that denies it or has a patch that does not apply.
CreateRefused(key, object) ==
  /\ key \notin DOMAIN stored
  /\ Matches(key)
  /\ ~Serving \/ ~Admitted(key, object)
  /\ UNCHANGED vars

\* Updates are not reviewed: the rules name CREATE only.  A user's object takes
\* the place of the stored one, as with kubectl replace ...
Replace(key, object) ==
  /\ key \in DOMAIN stored
  /\ stored' = Set(stored, key, object)
  /\ submitted' = Set(submitted, key, object)
  /\ UNCHANGED <<created, installed, pods, faults>>

\* ... or is merged with it, as with kubectl apply, patch or label: labels that
\* the user never wrote stay.
Merge(key, object) ==
  /\ key \in DOMAIN stored
  /\ LET old == stored[key].labels
         kept == DOMAIN old \ DOMAIN submitted[key].labels
         labels == [l \in kept \cup DOMAIN object.labels |->
                      IF l \in DOMAIN object.labels THEN object.labels[l] ELSE old[l]]
     IN  stored' = Set(stored, key, [labels |-> labels, protocols |-> object.protocols])
  /\ submitted' = Set(submitted, key, object)
  /\ UNCHANGED <<created, installed, pods, faults>>

Delete(key) ==
  /\ key \in DOMAIN stored
  /\ stored' = [k \in DOMAIN stored \ {key} |-> stored[k]]
  /\ created' = [k \in DOMAIN created \ {key} |-> created[k]]
  /\ submitted' = [k \in DOMAIN submitted \ {key} |-> submitted[k]]
  /\ UNCHANGED <<installed, pods, faults>>

\* The manifests arrive in any order.
Install ==
  /\ ~installed
  /\ installed' = TRUE
  /\ UNCHANGED <<stored, created, submitted, pods, faults>>

PodsStart ==
  /\ ~pods
  /\ pods' = TRUE
  /\ UNCHANGED <<stored, created, submitted, installed, faults>>

PodsFail ==
  /\ pods
  /\ faults < MaxFaults
  /\ pods' = FALSE
  /\ faults' = faults + 1
  /\ UNCHANGED <<stored, created, submitted, installed>>

Create(key, object) == CreateDirectly(key, object) \/ CreateReviewed(key, object)

Next ==
  \/ \E key \in Keys, object \in Objects :
       \/ Create(key, object) \/ CreateRefused(key, object)
       \/ Replace(key, object) \/ Merge(key, object)
  \/ \E key \in Keys : Delete(key)
  \/ Install \/ PodsStart \/ PodsFail

SafeSpec == Init /\ [][Next]_vars

\* The Deployment and whoever applies the manifests keep at it.
Fairness ==
  /\ WF_vars(Install)
  /\ WF_vars(PodsStart)
  /\ WF_vars(\E object \in Objects : Create(WebhookServer, object))

Spec == SafeSpec /\ Fairness

-----------------------------------------------------------------------------
(* Properties *)

Labels == {ProxyName} \cup UNION {DOMAIN o.labels : o \in Objects}

\* Type correctness of what the API server stores, and what was submitted.
TypeOK ==
  /\ DOMAIN stored \subseteq Keys
  /\ DOMAIN created = DOMAIN stored
  /\ DOMAIN submitted = DOMAIN stored
  /\ \A key \in DOMAIN stored :
       /\ {created[key], submitted[key]} \subseteq Objects
       /\ IsObject(stored[key])
       /\ DOMAIN stored[key].labels \subseteq Labels
  /\ installed \in BOOLEAN
  /\ pods \in BOOLEAN
  /\ faults \in 0..MaxFaults

\* A user who wants another proxy, or none of lightpath.
OptsOut(object) ==
  \/ ProxyName \in DOMAIN object.labels
  \/ ProxyEnabled \in DOMAIN object.labels /\ object.labels[ProxyEnabled] = "disabled"

\* Whatever is created, replaced, merged and deleted before or after the webhook
\* is installed, no label that a user wrote is lost or changed, and none is
\* added but the proxy name of a service whose user did not opt out when it was
\* created.  (A user who opts out later, by an update that does not mention the
\* proxy name, is not heard: updates are not reviewed.)
ChoiceRespected ==
  \A key \in DOMAIN stored :
    LET wrote == submitted[key].labels
        has == stored[key].labels
    IN  /\ stored[key].protocols = submitted[key].protocols
        /\ \A l \in DOMAIN wrote : l \in DOMAIN has /\ has[l] = wrote[l]
        /\ \A l \in DOMAIN has \ DOMAIN wrote :
             l = ProxyName /\ has[l] = Lightpath /\ ~OptsOut(created[key])

\* Once the webhook answers, no creation is refused: the patch fits the object,
\* whether it has labels or not.
NothingRefused ==
  Serving => \A key \in Keys \ DOMAIN stored, object \in Objects : Admitted(key, object)

\* kube-proxy's and lightpath's informers; lightpath maps TCP ports only.
ServedByKubeProxy(object) ==
  ProxyName \notin DOMAIN object.labels /\ Headless \notin DOMAIN object.labels

ServedByLightpath(object, protocol) ==
  /\ ProxyName \in DOMAIN object.labels /\ object.labels[ProxyName] = Lightpath
  /\ Headless \notin DOMAIN object.labels
  /\ protocol = "TCP"

\* The webhook gave the service its proxy name, and no user's update took it away.
Injected(key) == ProxyName \in DOMAIN stored[key].labels \ DOMAIN submitted[key].labels

\* "a hybrid setup is required for full service connectivity": no TCP port is left
\* without a proxy, unless the service's user chose one or made it headless;
\* and a port of another protocol only if, besides that, the webhook moved the
\* service to lightpath at its creation, when it had a TCP port and its user did
\* not opt out.  Services that never had a TCP port stay with kube-proxy.  (That
\* there are such ports at all is against the policy's own comment, see
\* PatchedAsCommented.)
GapsAreKnown ==
  \A key \in DOMAIN stored : \A protocol \in stored[key].protocols :
    \/ ServedByKubeProxy(stored[key])
    \/ ServedByLightpath(stored[key], protocol)
    \/ {ProxyName, Headless} \cap DOMAIN submitted[key].labels # {}
    \/ /\ protocol # "TCP"
       /\ Injected(key)
       /\ "TCP" \in created[key].protocols /\ ~OptsOut(created[key])

\* "otherwise lightpath cannot bootstrap": in whatever order the manifests are
\* applied and the pods fail, the webhook ends up answering, although its own
\* service is created while it does not.
Bootstraps == []<>Serving

\* "match only TCP services", "Exclude well-known namespaces we are relying on": a
\* service that the webhook moved to lightpath was created with TCP ports only,
\* and in none of these namespaces.
PatchedAsCommented ==
  \A key \in DOMAIN stored : Injected(key) =>
    created[key].protocols = {"TCP"} /\ key[1] \notin well_known_exclusions
=============================================================================
