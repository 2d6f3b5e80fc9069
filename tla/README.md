# Formal verification of Lightpath

TLA+ specifications, TLC configurations and TLAPS proofs for
[xvzf/lightpath](https://github.com/xvzf/lightpath), a kube-proxy replacement
that programs a node-local Envoy over xDS and sends service traffic to it with
iptables. Paths such as `pkg/state/cache.go` are relative to the repository.
`PROJECT.json` lists runs, mutants, findings, hazards and theorems, and maps
every definition to the lines it models.

## 1. Inventory

| Part | State | Operations | What makes it correct |
|---|---|---|---|
| State subscriber, `pkg/state/subscriber.go` | `eventChan` (unbuffered), `eventLost`, `eventLostLock` | `On*` callbacks, `dispatchEvent`, `ReceiveEvent` | no change of the cluster state is lost; callbacks return |
| Cluster state, `pkg/state/cache.go`, `service.go` | map name -> container; container: service object, map name -> slice | add, update, delete of services and slices, `Snapshot` | agrees with what the informers delivered, in any order of delivery |
| Control-plane loop, `cmd/controlplane` | the last snapshot, the xDS cache | informers with resync, `updateSnapshot`, shutdown | the API server's objects are published in the end; shutdown ends the loop |
| xDS server, `pkg/server` | go-control-plane snapshot cache, gRPC server | `UpdateSnapshot`, `Start` | Envoy ends up with what was published, across restarts of either side; a failing or cancelled server ends the process |
| Translation, `pkg/translations` | none | snapshot -> clusters, endpoints, listeners, filters | every reference resolves; every ready endpoint is reachable |
| Port settings, `portsettings.go`, `helper.go`, `pkg/wellknown` | none | annotations -> settings of a port | each port has the settings annotated for it, whatever is written there |
| Redirect daemon, `cmd/redirect`, `pkg/redirect` | kernel: chain, jumps, rules per address family | `AddFunc`, `UpdateFunc`, `DeleteFunc`, `AddIP`, `RemoveIP`, `Prereqs`, `Cleanup` | every address of every service is redirected, nothing else, across failures and restarts |
| Admission webhook, `deploy/webhook` | its registration, service and pods | label injection on creation of a service | users' choices hold; no service without a proxy by accident; the webhook can be installed through itself |
| BPF programs, `bpf/` | maps of destinations and sockets | connect, sockops, sendmsg, getsockopt | "non functional, shipped for completeness" according to the repository's README |

The control plane and the redirect daemon are separate processes. They share
no memory; both watch the same services in the API server. Inside the control
plane there are three kinds of goroutine: one handler per informer (services,
endpoint slices), the loop that waits for an event, copies the cluster state
and publishes it, and the gRPC server, whose stream handlers answer Envoy. The redirect daemon has one handler
goroutine and `main`, which share the mutex `ir.m`; its rules live in the
kernel and outlive it. The webhook is an Open Policy Agent that the API server
calls; it decides which services the other two ever see.

What is hard here: a channel that is used with `default` together with a flag
under a lock that the receiver keeps while it sleeps; two informers without any
order between them; version comparison; iptables commands that fail one by one;
state that survives the process; an Envoy that survives its control plane;
signals at any moment. `PROJECT.json` lists
each of these as a hazard, at the line where it bites.

## 2. Modules

| Module | Models |
|---|---|
| `Mailbox` | what the subscriber promises: a conflating mailbox of size one, no lock or channel in sight |
| `Dispatch` | `subscriber.go`'s lock, flag and channel, and the loop of `cmd/controlplane`; the content of the cache is a parameter |
| `ClusterState` | `cache.go` and `service.go` as operators on the value of the map |
| `ControlPlane` | API server, informers, `ClusterState` and `Dispatch` together |
| `KubeMapper` | `pkg/translations`: from a snapshot to clusters, load assignments and listeners |
| `PortSettings` | annotations and what the settings of a port become, used by `KubeMapper` |
| `XdsServer` | `pkg/server` and the life of the process in `cmd/controlplane`, with Envoy and the snapshot cache as environment |
| `Webhook` | the Rego policy, its registration, and the API server |
| `Redirect` | `cmd/redirect` and `pkg/redirect` against the kernel's tables |
| `DispatchProofs`, `ControlPlaneProofs`, `KubeMapperProofs`, `TranslationProofs`, `RedirectProofs`, `XdsServerProofs`, `WebhookProofs` | the theorems |
| `MCDispatch`, `MCControlPlane`, `MCKubeMapper`, `MCRedirect`, `MCXdsServer`, `MCWebhook` | constants for TLC |

`ControlPlane` instantiates `Dispatch` with `CacheStates <- Services`. `Dispatch`
implements `Mailbox` (`MailboxSpec`); `ControlPlane` implements `Dispatch`
(theorem `ImplementsDispatch`) and so, on the real cache, `Mailbox` (theorem
`ImplementsMailbox` of `ControlPlaneProofs`). `XdsServer` takes its steps between the informers
and `UpdateSnapshot` from `Mailbox`, which is what the former two justify.

### Dispatch

`hpc[h]` says where an informer goroutine is: outside the subscriber, about to
try the send, waiting for `eventLostLock`. `rpc` says the same for the loop.
The channel is unbuffered, so a send succeeds exactly when the receiver is
parked in its `select`; `DispatchSend` and `DispatchDefault` are those two
cases, each one step, as a Go `select` is. `lockHeld` is the lock as the
receiver holds it; a handler takes and frees it within `MarkEventLost`.
`TakeSnapshot` is one step because `DeepCopy` copies the whole map under
`c.m`; the copy is the value of the cache. `ReceiveTimeout` is always possible
in the `select`: the deadline is 10 s and the model has no clock.
`IngestFail` stands for an error of the translation or of `SetSnapshot`; the
loop logs it and goes on. `SetSnapshot` may have stored the snapshot first.

Between the `recvCtx` deadline and a pending event, a Go `select` chooses
freely, and so does the model. When `ReceiveEvent` returns nil after a time-out
the code skips translation and ingestion, which is why `ReceiveTimeout` goes
back to the top of the loop.

### ClusterState and ControlPlane

A service is its key and version, a slice its key, version and service-name
label; nothing else of an object is looked at in `pkg/state`. The map is keyed
by name without namespace, as in the code. `StringGeq` is Go's `>=` on the
decimal strings.

An informer hands over, per object, the latest version it has read: `svcSeen`
is what was handed over last, `svcStore` what the API server has. Versions may
be skipped (a re-list) but never come twice in the wrong order; a skipped
version is just a write nobody watched, so one action per callback covers both
watch and re-list. `ResyncService` and `ResyncEndpointSlice` are the periodic
redelivery of `RESYNC_INTERVAL`, which the code relies on for slices that come
before their service. An object deleted and created again between two
deliveries is seen as an update, as by a real informer.
The callbacks of one informer run one at a time: a callback needs `hpc` idle.

### KubeMapper

`EnvoySnapshotFromKubeSnapshot` step by step: the next service (any, they come
out of a Go map), its ports in order, its slices (any order again), its load
assignments, and in the end `NewSnapshot`, which indexes the resources by name.
Of two clusters of one name the later counts; the maps of the model are written
to in the same order. Names are tuples, as no part of a name can contain the
separator. Of a filter only its settings and the cluster it routes to are kept. A named target port has the
number 0, which is what `IntVal` gives. Of the objects the model assumes what
the API server's validation guarantees (`ObjectsAssumption`): `ipFamilies` are in
step with `clusterIPs`, no two ports of a service have the same protocol and
number, and no service has an unspecified address.

The settings come from `PortSettings`: one entry per setting with its key, type
and default, and one operator per `get...Config` function. A name is the
sequence of its words, because a key is a port name, a hyphen and a setting's
name, each of which may contain hyphens. The text of an annotation is a number
or a word; `IsInt64`, `IsTrue` and `IsFalse` say what `strconv` accepts and
`uint32` cuts down as the Go conversion does. `2^32` and `2^63 - 1` are the
parameters `Uint32Size` and `MaxInt64`.

### XdsServer

One variable per goroutine of `run` (`informer`, `start`, `loop`) and for the
`Serve` goroutine inside `Start`, the context, and the mailbox between informers
and `UpdateSnapshot`. `Run` covers `run` up to the start of its goroutines: the
empty initial snapshot included, whose version is the empty string. `Exit` is
the return of `wg.Wait`; `Gone` is what a process leaves behind, namely nothing
but Envoy's configuration. `StartStops` and `GracefulStop` are the two halves of
the shutdown path: the gRPC server waits for Envoy's stream, which ends because
`xds.NewServer` was given `ctx` (`StreamEnds`). After it nobody receives from
`errChan`, so the `Serve` goroutine stays behind in its send (`serve = "sending"`);
`run` does not wait for it, and `ShutsDown` shows that the process ends all the
same.

The content of a snapshot is the set of its services, since that is what a
process that has just begun to list has only part of. Of versions only equality
matters. A time stamp is never used twice, so when a snapshot is published, or a
new process starts, every version Envoy holds becomes `"old"`.
Envoy and go-control-plane are external: a request is answered when its version
differs from the snapshot's; endpoints are asked for by the names of Envoy's
clusters and, in ADS mode (`NewSnapshotCache(true, ...)`), only answered if all
load assignments of the snapshot are among these names; Envoy drops a cluster's
endpoints with the cluster. `Mismatched` are services whose load assignments go
by names that no cluster has (run `kubemapper_named`).

### Webhook

`patch_conditions`, `patch`, `deny` and `mutate` are the rules of the policy, on
an admission review. An undefined reference makes a Rego expression fail and its
negation succeed, hence `ExcludedNamespace`, which asks for a part of the input
that is not there. `some port ... not` binds one port. A label map that is empty
is left out of the object, as it is in JSON. The API server applies patches,
refuses what it cannot patch or have reviewed (`failurePolicy: Fail`), calls the
webhook for creations outside of the disabled namespaces only, and reaches it
through its service. Updates are never reviewed. They come in two forms:
`Replace` (`kubectl replace`) stores the user's object as it is, `Merge`
(`kubectl apply`, `patch`, `label`) keeps the labels that the user never wrote,
among them the one that the webhook added. `created` remembers what the user wrote
at the creation, `submitted` what the user wrote last.

### Redirect

`store[s]` is the set of strings in `ClusterIPs` and `ExternalIPs` of a service,
one of `Entries`, and `{}` when there is no service; every service the informer
selects has at least one entry. Events are compared as strings, commands act on
what `ParseIP` (`net.ParseIP`) makes of them: one IP may have several spellings,
and a string such as `None` becomes the nil IP, goes to ip6tables and fails there.
A rule is a service (its comment) and an IP. It redirects an address only together
with the jumps of both hooks to its chain (`Redirected`).
The handler's event is split into commands (`todo`), one step each. Additions come
before removals, so an update that respells an address adds the rule it has and
then removes it. The order within each group is left open: its commands concern
different rules, or one rule under two spellings, where the second command
changes nothing that the first has done. `Cleanup` is one step because it holds
`ir.m` throughout; it may come between any two commands of the handler. Any of its
own commands may fail, for whatever reason. Four history variables remember what
the code forgets: `failed` are the rules whose last command failed (it is logged),
`prereqErr` is the result of `Prereqs` (it is ignored), `respelled` are the rules
of which an update dropped one spelling and kept another, `inherited` those that
an earlier process left.
A resync of an unchanged service calls `UpdateFunc` with two equal objects; the
difference is empty and nothing happens, so there is no action for it.

iptables and its Go wrapper are external and modelled from their use:
`EnsureChain` and `EnsureRule` do nothing if their object exists, a rule needs
its chain, a chain with rules in it or jumps to it cannot be deleted, a missing
object gives "not found". `IsNotFoundError(nil)` at `iptables.go:126` is taken
to be false; if the library panics there, that is `Crash` after the removal.

## 3. Runs

| Run | Result | Shows |
|---|---|---|
| `dispatch` | holds | two informers, three cache values, the loop: `NoLostUpdate`; the refinement `MailboxSpec`, liveness included; `Converges`; `DispatchReturns`; `ShutsDown` |
| `controlplane` | holds | one service and one slice of it, three writes and any number of deletions: `EveryServiceCached`, `NoGhostSlices`, `NoLostUpdate` on the real cache, `AttachedUntilDeleted`, `ConvergesToAPI` |
| `kubemapper` | holds | two services of five kinds (dual stack with node ports and a shared target port; port names that are ambiguous in annotation keys, and a UDP port; redis and named ports; headless; IPv6) with any of four slices (two that disagree about an endpoint, IPv6, host names) and annotations that fit, overflow or are nonsense: `ListenersResolve`, `EndpointsReachable`, `OnlyOwnEndpoints` (own service, family and target port), `HealthJustified`, `SettingsApplied` |
| `redirect` | holds | one service with a v4 and a v6 address, the latter in two spellings; any writes, failures (of `Prereqs` and `Cleanup` too), crashes, restarts: `RedirectsComplete`, `NoForeignRedirects`, `TodoMatchesSeen`, `KeepsLiveRedirects`, `EventuallyRedirected`, `EventuallyOnlyHandled` |
| `xdsserver` | holds | two services, one of them mismatched, three writes, two faults of any kind: `EnvoyUpToDate`, `EnvoyConverges`, `ShutsDown`, `FailureEnds` |
| `webhook` | holds | the webhook's own service and one of a user, of six kinds, created, replaced, merged, deleted: `ChoiceRespected`, `NothingRefused`, `GapsAreKnown`, `Bootstraps` |
| `controlplane_namespaces` | violated | two services of one name in two namespaces: one of them is missing from the cache |
| `controlplane_versions` | violated | version 10 after version 9 is dropped as old |
| `kubemapper_named` | violated | a named target port: cluster and load assignment have different names, and the port has no endpoints |
| `redirect_cleanup` | violated | `Cleanup` returns nil and leaves chains behind; the test of `IsNotFoundError` is the wrong way round |
| `kubemapper_documented` | violated | the service of the repository's own test deployment: four settings differ from what comments say. `http-retry-enabled: disabled` leaves two retries, as the setting is parsed (and not understood) but used nowhere; the key for the ejection percentage lacks the port name and is never read; the upstream idle time-out is 15 s and not 300; the default of retry-on is another list |
| `webhook_commented` | violated | kube-dns, with a TCP and a UDP port in `kube-system`, gets the proxy label, although the policy "matches only TCP services" and lists the namespace as excluded |

Smaller observations from reading and modelling the code, without a run of
their own:

- `dispatchEvent` calls itself "fire and forget", yet it waits for
  `eventLostLock` for up to `NEW_SNAPSHOT_WAIT_TIMEOUT` when it misses the receiver
  by a moment (`DispatchReturns` shows that the wait ends).
- A signal during the cache sync makes the redirect daemon return without
  `Cleanup` (`CacheSyncFails`).
- `genListener` has no case for redis, so such a listener has no filter chain.
- A rule inherited from an earlier redirect process whose service was deleted in
  between is never removed; `EventuallyOnlyHandled` states this exception.
- An update that respells an `ExternalIP`, or drops one of two spellings of it,
  takes the rule of the address away although the service still has it
  (`kube.go:34,40`). The properties of `Redirect` name it (`respelled`), as the
  only event besides failures that leaves an address without its rule.
- When `Prereqs` fails half-way, rules are added that nothing jumps to, until the
  process is restarted. The properties name this exception too (`prereqErr`).
- A user who opts out of lightpath by a later `kubectl apply` is not heard, and a
  service whose ports become UDP by one keeps the label: updates are not reviewed.
  `ChoiceRespected` and `GapsAreKnown` therefore speak of the object as created.
- A port name and a setting's name are joined by a hyphen, so one annotation can
  be a setting of two ports; both take it.
- Ports with one target port share a cluster, which has the settings of the last
  of them; `SettingsApplied` says so.
- A restarted control plane first tells Envoy that there is nothing, and then
  what its informers have listed so far: all listeners go away for a moment.
- One service with a named target port keeps Envoy from getting endpoints for
  any service, because the ADS cache withholds the whole answer; this is why
  `Settled` asks for endpoints only without such services.
- The policy's comment "Only trigger on create or update" stands over a condition
  that admits `CREATE` only, and the registration never sends updates.
- The wrong path at `labelinject.rego:43` is not found by the policy's tests, as
  the object of the one for excluded namespaces has the proxy label already.

Each property of a passing run has a mutant in `PROJECT.json`: a small change of
a definition, of the kind a slip in the code would be, that violates it.

**Bounds.** Two handlers are what `run` starts; three cache values let a change
arrive while an older one is being published. Three versions allow a service
and a slice of it to be created and one of them to be updated, with
deletions (which cost no version) at any place; all the versions of the passing
runs have the same number of digits, because `controlplane_versions` shows what
happens otherwise. Two addresses cover both families, with two
spellings of one of them; the three entries let an update add, remove, respell,
and do two of these at once; commands for an address that does not parse fail, as
every command may. The services and slices of `kubemapper` are one of each kind the
code distinguishes; two services show that names keep them apart. `MaxDigits`
bounds the length of a version. TLC's integers have 32 bits, so `Uint32Size` is
`2^30` and `MaxInt64` 2000000000 in the runs; what matters is that numbers below,
at and above both occur. `MaxWrites = 3` lets a service come, go and come back
or both come and one go; `MaxFaults = 2` lets a second fault hit the recovery
from the first. One failure of the webhook's pods suffices to take it away after
it has worked. Its run has two services, as no two of a user concern each other; a
namespace that the policy means to exclude is treated as any other. The theorems of section 4 do not depend on these bounds, and
cover what the runs leave out: slices without a label, addresses that do not
parse, any number of services and faults.

Deadlock is checked in all runs but those of `KubeMapper`, which end with the
published snapshot; `ControlPlane` has an explicit stuttering step after the
loop has ended, where `run` returns.

**Fairness.** Goroutines that can run do run: weak fairness for the loop, for
`dispatchEvent`'s `select`, for `main` and for the handler's commands. Waiting
for `eventLostLock` gets strong fairness: the receiver frees the lock in each
round, at the latest after `NEW_SNAPSHOT_WAIT_TIMEOUT`, and a Go mutex goes to a
waiter that has been starving for a millisecond. Deliveries and resyncs get
strong fairness while the context is not cancelled: an informer works through a
FIFO queue, so an object's event comes up although the goroutine is busy again
and again. The weak fairness of `Main` includes the start of the redirect
process, which its DaemonSet restarts; so do `Run` of `XdsServer` and `PodsStart` of
`Webhook`. In `XdsServer` a pending event is received under strong fairness: the
loop comes back to its `select` after every time-out, and `Dispatch` shows that
an event it has missed is flagged. Envoy reconnects and acknowledges. It asks for endpoints again
when its clusters have changed, which is when an answer that ADS mode withheld can
become possible; `EnvoyConverges` rests on this. `Bootstraps`
assumes that whoever applies the manifests keeps trying, as `kubectl apply` in a
script or an operator does. Nothing is assumed about writes, signals,
crashes and failures; the liveness properties say "unless the last publication
failed" and "unless the command failed", because the code retries neither.

## 4. Theorems

All proofs are checked by TLAPS with no statement left unproved; they hold for
all values of the constants under the assumptions of the modules.

*Dispatch.* `NoLostUpdate` says that an event is pending (flagged, on its way in
a handler, or received and not yet copied), or the last copy equals the cache
and is published, about to be, or was refused with an error. With `TypeOK` this
is inductive as it stands: the flag is lowered only in the step in which `rpc`
becomes `"snapshot"`, and a change makes its handler non-idle in the step in
which it happens. `ImplementsMailbox` maps `dirty` to `Pending`, `busy` to
`rpc = "ingest"`; the only delicate step is `TakeSnapshot`, which must find
`Pending` true and does because `rpc = "snapshot"` is part of it.

*ControlPlane.* `ImplementsDispatch` rests on a fact about the cache operations:
one that reports no change leaves the map as it was (`QuietMeansUnchanged`).
The converse is false: a slice of an unknown service is reported as a change.
`NoUpdateIsLost` then follows from Dispatch's theorem. `ServicesAreCached` and
`NoSliceIsGhost` need the strengthening `Inv`: objects sit under their own key
(`ObjectsKeyed`, `CacheKeyed`), and what is still to be delivered is newer than
what has been (`DeliveryInOrder`); without the last one an update could be
dropped as old. They assume `UniqueNames`, `SameLength` and `FixedLabels`. The
first two are necessary: `controlplane_namespaces` and `controlplane_versions`
are the counterexamples. The third excludes a slice that moves to another
service, whose old attachment the code never removes.
`AttachedSlicesStay` is the action property `AttachedUntilDeleted`. It needs
`UniqueNames` and `ObjectsKeyed` only, whatever versions and labels are: an
operation on a service keeps the container's slices, one on a slice touches that
name alone (`SlicesKept`). Without unique names the deletion of another
namespace's slice takes this one away. `ImplementsMailbox` instantiates Dispatch's
theorem of that name, whose assumptions hold of the composition
(`DispatchTheoremsApply`).

*KubeMapper.* `ListenersResolve` is inductive with `TypeOK`: a port writes its
clusters and its listeners in one step, later ports only add names, and each
listener's cluster name is built from a family of the service. For the addresses
in `ClusterIPs` this needs `ObjectsAssumption`; for node ports, that the
unspecified address tells the family.

*Translation.* `OnlyOwnEndpoints`, `HealthJustified`, `EndpointsReachable` and
`SettingsApplied` speak of the published resources only. The invariant `Inv` of
`TranslationProofs` says the same of what has been read so far: `Seen(s)` counts
the ports of a service that have been mapped, `Assigned(s)` says that its slices
have been. TLC agrees that it is an invariant of the instance of the run
`kubemapper`.

- The ports to come are the end of the service's list (`RestIsSuffix`); otherwise
  the last port with a target port would not be the last one to write the shared
  cluster (`ClustersOfSeenPorts`).
- A listener is that of its port from the step that makes it
  (`ListenersOfSeenPorts`). No later port takes its name: the ports of a service
  differ in protocol or number (`DistinctPorts`), and a listener for node ports has
  the unspecified address, which no service has.
- What is collected comes from slices of the service at work, and each slice read
  has been collected (`CollectedIsListed`, `ReadIsCollected`); `AssignedIsListed`
  and `ListedIsAssigned` carry both over to the load assignments, where the names
  keep services apart. An endpoint that two slices list has the state of one of
  them, which is all that can be said.
- A route has the service and the family of its listener, and the target port of
  the port that the listener was made for (`RoutesAreOwn`); for node ports the
  family is that of the unspecified address.

Of the settings, `ConfigAsAnnotated` shows that each `get...Config` returns what
the annotation says, or the default, by the four types of settings; the cut to 32
bits loses multiples of `2^32` and nothing else (`Uint32Fits`). The theorems assume
`ObjectsAssumption` and `SlicesAssumption`, and of the sizes of numbers what
`PortSettings` states.

*Redirect.* `Inv` has two parts besides the types. `TodoMatchesSeen`: what a
handler has left to do agrees with the object it was called for. Without it a
late `AddIP` could recreate a rule for an address that is gone, and a late
`RemoveIP` could take one away from an address that is kept. `JumpsReady`: from a
`Prereqs` that succeeded (`PrereqsMakeJumps`) until `Cleanup` both hooks of both
families lead to the chain. With `RulesComplete`, the part of `RedirectsComplete`
about rules, it gives that a delivered address is redirected, not just present in
a chain; `LiveRedirectsStay` is the action property that follows: only `Cleanup`,
and an update that drops another spelling, end the redirect of a live address.

*XdsServer.* `EnvoyIsUpToDate` holds for any services and any number of faults.
`EnvoyUpToDate` speaks of quiet states only, so its invariant has to say what each
hop guarantees: a lowered flag means a current copy, and a successful ingestion
that the xDS cache has it (`CopiesCurrent`); a version that Envoy shares with the
cache means equal content, and the version `""` means none (`VersionsTell`); a
process that is down has nothing (`DownMeansGone`), without which a new one would
publish its predecessor's snapshot under the version `""`.

*Webhook.* What is stored is what was submitted last, or that with the proxy name
added, the latter only if the object as created had a TCP port and its user did
not opt out (`StoredIsResult`). There is a lemma for each way to get there:
stored as submitted (`AsSubmitted`), patched at the creation (`AsPatched`, from
`PatchFits`, by the two forms of the patch), merged (`AsMerged`). The four theorems
follow.

Only model-checked: all liveness properties (`Converges`, `DispatchReturns`,
`ShutsDown`, `ConvergesToAPI`, `EventuallyRedirected`, `EventuallyOnlyHandled`,
`EnvoyConverges`, `FailureEnds`, `Bootstraps`, the fairness part of `MailboxSpec`),
which TLAPS does not handle. Every invariant and every action property of a passing
run is a theorem as well.

## 5. Not modelled, and the plan

Modelled: the subscriber, the cluster state, the control-plane loop, the xDS
server and the life of its process, the translation with the port settings, the
redirect daemon and the admission webhook. All their safety properties are proved;
liveness is left to TLC.

Not modelled:

- The BPF programs in `bpf/`. The repository's README calls them non-functional
  and shipped for completeness; no code loads them or fills their maps, so there
  is no behaviour of the running system to compare a model with.
- Envoy, go-control-plane, client-go, iptables and the API server are not in the
  repository; they appear as environment, as far as the code depends on them.
- The translation is not composed with `ControlPlane`: it is a function of one
  snapshot and keeps nothing between calls, so `KubeMapper` takes every snapshot
  as its input, and `XdsServer` what becomes of its result.
- Logging, version strings, client construction, the manifests of the proxy and
  of the two daemons, benchmarks and CI scripts keep no state that a property
  here could depend on. Nil objects passed to the callbacks are left out, since
  informers never pass them.
