--------------------------- MODULE WebhookProofs ---------------------------
(***************************************************************************)
(* The webhook's policy, for all services, labels and orders of events.    *)
(***************************************************************************)
EXTENDS Webhook, TLAPS

\* An object with the proxy name added to its labels.
Patched(object) ==
  [object EXCEPT !.labels =
     [l \in DOMAIN object.labels \cup {ProxyName} |->
        IF l = ProxyName THEN Lightpath ELSE object.labels[l]]]

\* What may be stored for what was submitted last and first: the labels of the
\* last, and perhaps the proxy name, if the first had a TCP port and its user
\* did not opt out.
IsResult(o, last, first) ==
  /\ IsObject(o)
  /\ o.protocols = last.protocols
  /\ \A l \in DOMAIN last.labels : l \in DOMAIN o.labels /\ o.labels[l] = last.labels[l]
  /\ \A l \in DOMAIN o.labels \ DOMAIN last.labels :
       l = ProxyName /\ o.labels[l] = Lightpath /\ ~OptsOut(first) /\ "TCP" \in first.protocols

\* Every stored service is a result of what was submitted for it.
StoredIsResult ==
  /\ DOMAIN created = DOMAIN stored
  /\ DOMAIN submitted = DOMAIN stored
  /\ DOMAIN stored \subseteq Keys
  /\ \A key \in DOMAIN stored :
       /\ created[key] \in Objects
       /\ submitted[key] \in Objects
       /\ IsResult(stored[key], submitted[key], created[key])

FlagsOK == installed \in BOOLEAN /\ pods \in BOOLEAN /\ faults \in 0..MaxFaults

Inv == StoredIsResult /\ FlagsOK

-----------------------------------------------------------------------------
(* The policy *)

\* What the policy makes of a creation: no patch, or one that adds the label to
\* an object with a TCP port whose user did not opt out.
LEMMA PatchFits ==
  ASSUME NEW key, NEW object
  PROVE  LET input == AdmissionReview("CREATE", key, object)
         IN  /\ ~deny(input)
             /\ \A p \in patch(input) :
                  /\ Applies(p, object.labels)
                  /\ [object EXCEPT !.labels = Apply(p, object.labels)] = Patched(object)
                  /\ ~OptsOut(object) /\ "TCP" \in object.protocols
<1> DEFINE input == AdmissionReview("CREATE", key, object)
<1>1. /\ input.request.kind.kind = "Service"
      /\ input.request.kind.version = "v1"
      /\ input.request.object = object
  BY DEF AdmissionReview
<1>2. ~deny(input)
  BY <1>1 DEF deny
<1>3. ASSUME NEW p \in patch(input)
      PROVE  /\ Applies(p, object.labels)
             /\ Apply(p, object.labels) = [l \in DOMAIN object.labels \cup {ProxyName} |->
                  IF l = ProxyName THEN Lightpath ELSE object.labels[l]]
             /\ ~OptsOut(object) /\ "TCP" \in object.protocols
  <2>1. /\ patch_conditions(input)
        /\ p = IF DOMAIN object.labels # {} THEN AddLabel(ProxyName, Lightpath)
                                           ELSE AddLabels(Proxied)
    <3> HIDE DEF input
    <3> QED
      BY <1>1, <1>3 DEF patch
  <2>2. ~OptsOut(object) /\ "TCP" \in object.protocols
    <3> HIDE DEF input
    <3> QED
      BY <1>1, <2>1 DEF patch_conditions, OptsOut
  <2>3. CASE DOMAIN object.labels # {}
    <3>1. p.path = <<"metadata", "labels", ProxyName>> /\ p.value = Lightpath
      BY <2>1, <2>3 DEF AddLabel
    <3>2. Len(p.path) = 3 /\ p.path[3] = ProxyName
      BY <3>1
    <3> QED
      BY <2>2, <2>3, <3>1, <3>2 DEF Applies, Apply
  <2>4. CASE DOMAIN object.labels = {}
    <3>1. p.path = <<"metadata", "labels">> /\ p.value = Proxied
      BY <2>1, <2>4 DEF AddLabels
    <3>2. Len(p.path) = 2
      BY <3>1
    <3> QED
      BY <2>2, <2>4, <3>1, <3>2 DEF Applies, Apply, Proxied
  <2> QED
    BY <2>3, <2>4
<1> QED
  BY <1>2, <1>3 DEF Patched

\* The policy admits every service.
LEMMA EveryoneAdmitted == ASSUME NEW key, NEW object PROVE Admitted(key, object)
BY PatchFits DEF Admitted, mutate

-----------------------------------------------------------------------------
(* The invariant *)

\* An object that is stored as it was submitted is a result.
LEMMA AsSubmitted ==
  ASSUME NEW object \in Objects, NEW first PROVE IsResult(object, object, first)
BY WebhookAssumption DEF IsResult

\* So is one that the policy patched, at its creation.
LEMMA AsPatched ==
  ASSUME NEW object \in Objects, ~OptsOut(object), "TCP" \in object.protocols
  PROVE  IsResult(Patched(object), object, object)
<1> DEFINE o == Patched(object)
<1>0. DOMAIN object = {"labels", "protocols"} /\ object.protocols \in SUBSET Protocols \ {{}}
  BY WebhookAssumption DEF IsObject
<1>1. /\ DOMAIN o = {"labels", "protocols"}
      /\ o.protocols = object.protocols
      /\ o.labels = [l \in DOMAIN object.labels \cup {ProxyName} |->
                       IF l = ProxyName THEN Lightpath ELSE object.labels[l]]
  BY <1>0 DEF Patched
<1>2. ProxyName \notin DOMAIN object.labels
  BY DEF OptsOut
<1> HIDE DEF o
<1>3. IsResult(o, object, object)
  BY <1>0, <1>1, <1>2 DEF IsResult, IsObject
<1> QED
  BY <1>3 DEF o

\* And so is an object merged with a result.
LEMMA AsMerged ==
  ASSUME NEW object \in Objects, NEW o, NEW last, NEW first, IsResult(o, last, first),
         NEW labels,
         labels = [l \in (DOMAIN o.labels \ DOMAIN last.labels) \cup DOMAIN object.labels |->
                     IF l \in DOMAIN object.labels THEN object.labels[l] ELSE o.labels[l]]
  PROVE  IsResult([labels |-> labels, protocols |-> object.protocols], object, first)
<1> DEFINE new == [labels |-> labels, protocols |-> object.protocols]
<1>1. /\ DOMAIN new = {"labels", "protocols"}
      /\ new.labels = labels /\ new.protocols = object.protocols
  OBVIOUS
<1>2. object.protocols \in SUBSET Protocols \ {{}}
  BY WebhookAssumption DEF IsObject
<1> HIDE DEF new
<1>3. IsResult(new, object, first)
  BY <1>1, <1>2 DEF IsResult, IsObject
<1> QED
  BY <1>3 DEF new

\* Storing a result of what is submitted keeps the invariant's first part.
LEMMA SetKeepsResults ==
  ASSUME StoredIsResult,
         NEW key \in Keys, NEW object \in Objects, NEW o, NEW first \in Objects,
         IsResult(o, object, first),
         stored' = Set(stored, key, o),
         submitted' = Set(submitted, key, object),
         \/ created' = Set(created, key, first)
         \/ created' = created /\ key \in DOMAIN created /\ first = created[key]
  PROVE  StoredIsResult'
<1>1. /\ DOMAIN stored' = DOMAIN stored \cup {key}
      /\ DOMAIN submitted' = DOMAIN submitted \cup {key}
      /\ \A k \in DOMAIN stored' : stored'[k] = IF k = key THEN o ELSE stored[k]
      /\ \A k \in DOMAIN submitted' : submitted'[k] = IF k = key THEN object ELSE submitted[k]
  BY DEF Set
<1>2. /\ DOMAIN created' = DOMAIN created \cup {key}
      /\ \A k \in DOMAIN created' : created'[k] = IF k = key THEN first ELSE created[k]
  BY DEF Set
<1> QED
  BY <1>1, <1>2 DEF StoredIsResult

\* Every step keeps what is stored a result of what was submitted.
LEMMA ResultsKept == StoredIsResult /\ [Next]_vars => StoredIsResult'
<1> SUFFICES ASSUME StoredIsResult, [Next]_vars PROVE StoredIsResult'
  OBVIOUS
<1>1. ASSUME NEW key \in Keys, NEW object \in Objects, CreateDirectly(key, object)
      PROVE  StoredIsResult'
  BY <1>1, AsSubmitted, SetKeepsResults DEF CreateDirectly
<1>2. ASSUME NEW key \in Keys, NEW object \in Objects, CreateReviewed(key, object)
      PROVE  StoredIsResult'
  <2> DEFINE answer == mutate(AdmissionReview("CREATE", key, object))
             o == IF answer.patch = {} THEN object
                  ELSE [object EXCEPT !.labels =
                          Apply(CHOOSE p \in answer.patch : TRUE, object.labels)]
  <2>1. answer.patch = patch(AdmissionReview("CREATE", key, object))
    BY DEF mutate
  <2>2. IsResult(o, object, object)
    <3>1. CASE answer.patch = {}
      BY <3>1, AsSubmitted
    <3>2. CASE answer.patch # {}
      <4>1. (CHOOSE p \in answer.patch : TRUE) \in answer.patch
        BY <3>2
      <4>2. o = Patched(object) /\ ~OptsOut(object) /\ "TCP" \in object.protocols
        BY <2>1, <3>2, <4>1, PatchFits
      <4> QED
        BY <4>2, AsPatched
    <3> QED
      BY <3>1, <3>2
  <2>3. /\ stored' = Set(stored, key, o)
        /\ created' = Set(created, key, object)
        /\ submitted' = Set(submitted, key, object)
    BY <1>2 DEF CreateReviewed
  <2> HIDE DEF o
  <2> QED
    BY <2>2, <2>3, SetKeepsResults
<1>3. ASSUME NEW key \in Keys, NEW object \in Objects, Replace(key, object)
      PROVE  StoredIsResult'
  <2>1. key \in DOMAIN created /\ created[key] \in Objects
    BY <1>3 DEF Replace, StoredIsResult
  <2> QED
    BY <1>3, <2>1, AsSubmitted, SetKeepsResults DEF Replace
<1>4. ASSUME NEW key \in Keys, NEW object \in Objects, Merge(key, object)
      PROVE  StoredIsResult'
  <2> DEFINE old == stored[key].labels
             labels == [l \in (DOMAIN old \ DOMAIN submitted[key].labels) \cup DOMAIN object.labels |->
                          IF l \in DOMAIN object.labels THEN object.labels[l] ELSE old[l]]
             o == [labels |-> labels, protocols |-> object.protocols]
  <2>1. /\ key \in DOMAIN created /\ created[key] \in Objects
        /\ IsResult(stored[key], submitted[key], created[key])
    BY <1>4 DEF Merge, StoredIsResult
  <2>2. IsResult(o, object, created[key])
    BY <2>1, AsMerged
  <2>3. /\ stored' = Set(stored, key, o)
        /\ submitted' = Set(submitted, key, object)
        /\ created' = created
    BY <1>4 DEF Merge
  <2> HIDE DEF o
  <2> QED
    BY <2>1, <2>2, <2>3, SetKeepsResults
<1>5. ASSUME NEW key \in Keys, Delete(key) PROVE StoredIsResult'
  BY <1>5 DEF Delete, StoredIsResult
<1>6. CASE UNCHANGED <<stored, created, submitted>>
  BY <1>6 DEF StoredIsResult
<1> QED
  BY <1>1, <1>2, <1>3, <1>4, <1>5, <1>6
  DEF Next, vars, Create, CreateRefused, Install, PodsStart, PodsFail

\* The invariant holds in the beginning and after every step.
LEMMA Inductive == (Init => Inv) /\ (Inv /\ [Next]_vars => Inv')
<1>0. MaxFaults \in Nat
  BY WebhookAssumption
<1>1. Init => Inv
  <2> SUFFICES ASSUME Init PROVE StoredIsResult /\ FlagsOK
    BY DEF Inv
  <2>1. StoredIsResult
    BY DEF Init, Empty, StoredIsResult
  <2>2. installed \in BOOLEAN /\ pods \in BOOLEAN
    BY DEF Init
  <2>3. faults \in 0..MaxFaults
    BY <1>0 DEF Init
  <2> QED
    BY <2>1, <2>2, <2>3 DEF FlagsOK
<1>2. ASSUME FlagsOK, [Next]_vars PROVE FlagsOK'
  <2>1. CASE PodsFail
    <3>1. installed' \in BOOLEAN /\ pods' \in BOOLEAN
      BY <1>2, <2>1 DEF FlagsOK, PodsFail
    <3>2. faults' \in 0..MaxFaults
      BY <1>0, <1>2, <2>1 DEF FlagsOK, PodsFail
    <3> QED
      BY <3>1, <3>2 DEF FlagsOK
  <2>2. CASE Install \/ PodsStart
    BY <1>2, <2>2 DEF FlagsOK, Install, PodsStart
  <2>3. CASE UNCHANGED <<installed, pods, faults>>
    BY <1>2, <2>3 DEF FlagsOK
  <2> QED
    BY <1>2, <2>1, <2>2, <2>3 DEF Next, vars, Create, CreateDirectly, CreateReviewed,
       CreateRefused, Replace, Merge, Delete
<1> QED
  BY <1>1, <1>2, ResultsKept DEF Inv

-----------------------------------------------------------------------------
(* The theorems *)

\* What the API server stores are services with known labels.
THEOREM TypeCorrect == SafeSpec => []TypeOK
<1>1. Inv => TypeOK
  <2> SUFFICES ASSUME Inv, NEW key \in DOMAIN stored
               PROVE  /\ IsObject(stored[key])
                      /\ DOMAIN stored[key].labels \subseteq Labels
    BY DEF Inv, StoredIsResult, FlagsOK, TypeOK
  <2>1. submitted[key] \in Objects /\ IsResult(stored[key], submitted[key], created[key])
    BY DEF Inv, StoredIsResult
  <2>2. DOMAIN stored[key].labels \subseteq DOMAIN submitted[key].labels \cup {ProxyName}
    BY <2>1 DEF IsResult
  <2>3. DOMAIN submitted[key].labels \cup {ProxyName} \subseteq Labels
    BY <2>1 DEF Labels
  <2> QED
    BY <2>1, <2>2, <2>3 DEF IsResult
<1> QED
  BY <1>1, Inductive, PTL DEF SafeSpec

\* No label a user wrote is lost or changed, and none is added against what the
\* user chose at the creation, whatever the order of creations, replacements,
\* merges, deletions, the installation and failures of the webhook.
THEOREM UsersChoose == SafeSpec => []ChoiceRespected
<1>1. Inv => ChoiceRespected
  BY DEF Inv, StoredIsResult, IsResult, ChoiceRespected
<1> QED
  BY <1>1, Inductive, PTL DEF SafeSpec

\* A webhook that answers lets every service be created.
THEOREM WebhookRefusesNothing == SafeSpec => []NothingRefused
<1>1. NothingRefused
  BY EveryoneAdmitted DEF NothingRefused
<1> QED
  BY <1>1, PTL

\* A TCP port is served by no proxy only if its user chose so, and another port
\* only if the webhook moved its service, which had a TCP port when it was
\* created.
THEOREM NoOtherGaps == SafeSpec => []GapsAreKnown
<1>1. Inv => GapsAreKnown
  <2> SUFFICES ASSUME Inv, NEW key \in DOMAIN stored, NEW protocol \in stored[key].protocols,
                      ~ServedByKubeProxy(stored[key]),
                      ~ServedByLightpath(stored[key], protocol),
                      {ProxyName, Headless} \cap DOMAIN submitted[key].labels = {}
               PROVE  /\ protocol # "TCP"
                      /\ Injected(key)
                      /\ "TCP" \in created[key].protocols /\ ~OptsOut(created[key])
    BY DEF GapsAreKnown
  <2>1. IsResult(stored[key], submitted[key], created[key])
    BY DEF Inv, StoredIsResult
  <2>2. Headless \notin DOMAIN stored[key].labels
    BY <2>1 DEF IsResult, ProxyName, Headless
  <2>3. Injected(key)
    BY <2>2 DEF ServedByKubeProxy, Injected
  <2>4. /\ stored[key].labels[ProxyName] = Lightpath
        /\ "TCP" \in created[key].protocols /\ ~OptsOut(created[key])
    BY <2>1, <2>3 DEF IsResult, Injected
  <2> QED
    BY <2>2, <2>3, <2>4 DEF ServedByLightpath, Injected
<1> QED
  BY <1>1, Inductive, PTL DEF SafeSpec
=============================================================================
