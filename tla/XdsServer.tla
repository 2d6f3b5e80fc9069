----------------------------- MODULE XdsServer -----------------------------
(***************************************************************************)
(* The life of a control-plane process and what its Envoy gets from it     *)
(* (pkg/server and run of cmd/controlplane): start, serving, a failing     *)
(* gRPC server, signals, crashes, restarts, and Envoy's xDS stream.        *)
(*                                                                         *)
(* The way from the informers to UpdateSnapshot is the Mailbox that        *)
(* ControlPlane and Dispatch implement.  The content of a snapshot is the  *)
(* set of services in it, since a restarted process lists them one by one. *)
(*                                                                         *)
(* Envoy and go-control-plane are external.  Of two versions only whether  *)
(* they are equal matters: "" is the one of an empty cache.Snapshot and of *)
(* an Envoy without resources, "stamp" the time stamp of the snapshot in   *)
(* the xDS cache, "old" any other.                                         *)
(***************************************************************************)
EXTENDS Naturals

CONSTANTS
  Services,    \* services of the cluster
  Mismatched,  \* services whose load assignments go by names of no cluster
  MaxWrites,   \* bound on changes of the API server
  MaxFaults    \* bound on crashes, failures, signals and lost streams

ASSUME XdsAssumption ==
  /\ Mismatched \subseteq Services
  /\ MaxWrites \in Nat
  /\ MaxFaults \in Nat

VARIABLES
  api,       \* the services in the API server
  proc,      \* the process: "down" or "up"
  ctxDone,   \* run's ctx is cancelled
  informer,  \* run's informer goroutine: "running" or "ended"
  start,     \* run's xDS goroutine: in Start's "select", in "GracefulStop", or "ended"
  serve,     \* Start's Serve goroutine: "running", "sending" its result or "ended"
  loop,      \* run's loop: at the "top", "receiving", or "ended"
  known,     \* the services in the cluster state
  dirty,     \* an event waits for the loop
  taken,     \* the snapshot taken last
  busy,      \* the loop translates and ingests it
  snap,      \* the content of the xDS cache for the node
  failed,    \* the last updateSnapshot returned an error
  snapVer,   \* the version of that content, "none" without any
  stream,    \* Envoy's xDS stream is open
  envoy,     \* the clusters (and listeners) and the endpoints Envoy has
  envoyVer,  \* their versions
  writes,    \* changes of the API server so far
  faults     \* faults so far

goroutines == <<ctxDone, informer, start, serve, loop>>
mailbox == <<known, dirty, taken, busy, snap, failed>>
client == <<stream, envoy, envoyVer>>
bounds == <<writes, faults>>
vars == <<api, proc, goroutines, mailbox, snapVer, client, bounds>>

M == INSTANCE Mailbox WITH
  Values <- SUBSET Services, Initial <- {},
  cur <- known, pub <- snap, open <- ~ctxDone

Types == {"clusters", "endpoints"}

Init ==
  /\ api = {}
  /\ proc = "down"
  /\ ctxDone = FALSE
  /\ informer = "ended" /\ start = "ended" /\ serve = "ended" /\ loop = "ended"
  /\ known = {} /\ dirty = FALSE /\ taken = {} /\ busy = FALSE /\ snap = {}
  /\ failed = FALSE
  /\ snapVer = "none"
  /\ stream = FALSE
  /\ envoy = [t \in Types |-> {}]
  /\ envoyVer = [t \in Types |-> ""]
  /\ writes = 0 /\ faults = 0

\* A fault, of which there are MaxFaults.
Fault ==
  /\ faults < MaxFaults
  /\ faults' = faults + 1
  /\ UNCHANGED writes

-----------------------------------------------------------------------------
(* The API server *)

Write(s) ==
  /\ writes < MaxWrites
  /\ writes' = writes + 1
  /\ api' \in {api \cup {s}, api \ {s}}
  /\ UNCHANGED <<proc, goroutines, mailbox, snapVer, client, faults>>

-----------------------------------------------------------------------------
(* The process *)

\* Versions of Envoy's that were current are old from now on.
Outdated == [t \in Types |-> IF envoyVer[t] = "" THEN "" ELSE "old"]

\* Mutant: run does not push an initial snapshot.
RunNoSnapshot ==
  /\ proc = "down"
  /\ proc' = "up"
  /\ ctxDone' = FALSE
  /\ informer' = "running" /\ start' = "select" /\ serve' = "running" /\ loop' = "top"
  /\ snapVer' = "none"
  /\ envoyVer' = Outdated
  /\ UNCHANGED <<api, mailbox, stream, envoy, bounds>>

\* run gets the listener, pushes the empty snapshot and starts its goroutines.  A
\* run that fails before leaves the process as it was: down.
Run ==
  /\ proc = "down"
  /\ proc' = "up"
  /\ ctxDone' = FALSE
  /\ informer' = "running" /\ start' = "select" /\ serve' = "running" /\ loop' = "top"
  /\ snapVer' = ""
  /\ envoyVer' = Outdated
  /\ UNCHANGED <<api, mailbox, stream, envoy, bounds>>

\* The memory of the process and its connections are gone.
Gone ==
  /\ proc' = "down"
  /\ ctxDone' = FALSE
  /\ informer' = "ended" /\ start' = "ended" /\ serve' = "ended" /\ loop' = "ended"
  /\ known' = {} /\ dirty' = FALSE /\ taken' = {} /\ busy' = FALSE /\ snap' = {}
  /\ failed' = FALSE
  /\ snapVer' = "none"
  /\ stream' = FALSE
  /\ UNCHANGED <<api, envoy, envoyVer>>

\* wg.Wait returns, run and main return.  The goroutine of Serve is not waited
\* for: it may hang for good.
Exit ==
  /\ proc = "up"
  /\ informer = "ended" /\ start = "ended" /\ loop = "ended"
  /\ Gone
  /\ UNCHANGED bounds

Crash ==
  /\ proc = "up"
  /\ Fault
  /\ Gone

\* main's signal handler cancels the context.
Signal ==
  /\ proc = "up"
  /\ ~ctxDone
  /\ ctxDone' = TRUE
  /\ Fault
  /\ UNCHANGED <<api, proc, informer, start, serve, loop, mailbox, snapVer, client>>

-----------------------------------------------------------------------------
(* The informer goroutine and the informers it started *)

\* The callback for a service of which the informer's view was out of date.
Deliver(s) ==
  /\ informer = "running"
  /\ s \in known <=> s \notin api
  /\ known' = IF s \in api THEN known \cup {s} ELSE known \ {s}
  /\ UNCHANGED <<api, proc, goroutines, snapVer, client, bounds>>
  /\ M!Put

\* The resync hands over a slice again, which always counts as a change.
Resync ==
  /\ informer = "running"
  /\ known # {}
  /\ UNCHANGED <<api, proc, goroutines, known, snapVer, client, bounds>>
  /\ M!Put

InformerEnds ==
  /\ informer = "running"
  /\ ctxDone
  /\ informer' = "ended"
  /\ UNCHANGED <<api, proc, ctxDone, start, serve, loop, mailbox, snapVer, client, bounds>>

-----------------------------------------------------------------------------
(* The loop *)

Iterate ==
  /\ loop = "top"
  /\ loop' = IF ctxDone THEN "ended" ELSE "receiving"
  /\ UNCHANGED <<api, proc, ctxDone, informer, start, serve, mailbox, snapVer, client, bounds>>

ReceiveEvent ==
  /\ loop = "receiving"
  /\ UNCHANGED <<api, proc, goroutines, snapVer, client, bounds>>
  /\ M!Take

\* Time-out or cancelled context while nothing was received.
ReceiveNothing ==
  /\ loop = "receiving"
  /\ ~busy
  /\ loop' = "top"
  /\ UNCHANGED <<api, proc, ctxDone, informer, start, serve, mailbox, snapVer, client, bounds>>

\* Mutant: the time stamp of the process's start instead of the snapshot's.
NewVersionOnce ==
  /\ snapVer' = "stamp"
  /\ envoyVer' = IF snapVer = "stamp" THEN envoyVer ELSE Outdated

\* The snapshot in the xDS cache gets a time stamp no snapshot had before.
NewVersion ==
  /\ snapVer' = "stamp"
  /\ envoyVer' = Outdated

UpdateSnapshot ==
  /\ NewVersion
  /\ loop' = "top"
  /\ UNCHANGED <<api, proc, ctxDone, informer, start, serve, stream, envoy, bounds>>
  /\ M!Deliver

\* The error of the translation or, with the snapshot stored, of SetSnapshot.
UpdateSnapshotFails ==
  /\ \/ snap' = snap /\ UNCHANGED <<snapVer, envoyVer>>
     \/ snap' = taken /\ NewVersion
  /\ Fault
  /\ loop' = "top"
  /\ UNCHANGED <<api, proc, ctxDone, informer, start, serve, stream, envoy>>
  /\ M!Fail

-----------------------------------------------------------------------------
(* Start *)

ServeFails ==
  /\ serve = "running"
  /\ serve' = "sending"
  /\ Fault
  /\ UNCHANGED <<api, proc, ctxDone, informer, start, loop, mailbox, snapVer, client>>

\* GracefulStop closes the listener and waits for the streams to end.  Serve
\* returns, but nobody receives from errChan any more: its goroutine hangs in the
\* send until the process ends.
StartStops ==
  /\ start = "select"
  /\ ctxDone
  /\ start' = "GracefulStop"
  /\ serve' = "sending"
  /\ UNCHANGED <<api, proc, ctxDone, informer, loop, mailbox, snapVer, client, bounds>>

GracefulStop ==
  /\ start = "GracefulStop"
  /\ ~stream
  /\ start' = "ended"
  /\ UNCHANGED <<api, proc, ctxDone, informer, serve, loop, mailbox, snapVer, client, bounds>>

\* Mutant: the goroutine logs the error and leaves the context alone.
StartFailsQuietly ==
  /\ start = "select"
  /\ serve = "sending"
  /\ serve' = "ended"
  /\ start' = "ended"
  /\ UNCHANGED <<api, proc, ctxDone, informer, loop, mailbox, snapVer, client, bounds>>

\* Start returns Serve's error and run's goroutine cancels the context.
StartFails ==
  /\ start = "select"
  /\ serve = "sending"
  /\ serve' = "ended"
  /\ start' = "ended"
  /\ ctxDone' = TRUE
  /\ UNCHANGED <<api, proc, informer, loop, mailbox, snapVer, client, bounds>>

-----------------------------------------------------------------------------
(* Envoy and the stream handler *)

Connect ==
  /\ ~stream
  /\ serve = "running"
  /\ stream' = TRUE
  /\ UNCHANGED <<api, proc, goroutines, mailbox, snapVer, envoy, envoyVer, bounds>>

Disconnect ==
  /\ stream
  /\ stream' = FALSE
  /\ Fault
  /\ UNCHANGED <<api, proc, goroutines, mailbox, snapVer, envoy, envoyVer>>

EnvoyRestarts ==
  /\ stream' = FALSE
  /\ envoy' = [t \in Types |-> {}]
  /\ envoyVer' = [t \in Types |-> ""]
  /\ Fault
  /\ UNCHANGED <<api, proc, goroutines, mailbox, snapVer>>

\* Mutant: xds.NewServer gets a context of its own.
StreamEndsNever ==
  /\ FALSE
  /\ UNCHANGED vars

\* xds.NewServer got ctx, so its stream handlers end with it.
StreamEnds ==
  /\ stream
  /\ ctxDone
  /\ stream' = FALSE
  /\ UNCHANGED <<api, proc, goroutines, mailbox, snapVer, envoy, envoyVer, bounds>>

\* A request for a type is answered when its version is not the snapshot's.
\* Clusters and listeners are asked for without names.  Endpoints are asked for
\* by Envoy's clusters and, in ADS mode, withheld when the snapshot has a load
\* assignment that is not asked for.
Due(t) ==
  /\ stream
  /\ snapVer # "none"
  /\ envoyVer[t] # snapVer
  /\ t = "endpoints" => /\ envoy["clusters"] # {}
                        /\ snap \subseteq envoy["clusters"] \ Mismatched

\* The endpoints of a cluster go with it.
Respond(t) ==
  /\ Due(t)
  /\ envoyVer' = [envoyVer EXCEPT ![t] = snapVer]
  /\ envoy' = IF t = "clusters"
              THEN [u \in Types |-> IF u = t THEN snap ELSE envoy[u] \cap snap]
              ELSE [envoy EXCEPT ![t] = snap]
  /\ UNCHANGED <<api, proc, goroutines, mailbox, snapVer, stream, bounds>>

-----------------------------------------------------------------------------
Next ==
  \/ \E s \in Services : Write(s) \/ Deliver(s)
  \/ Run \/ Exit \/ Crash \/ Signal
  \/ Resync \/ InformerEnds
  \/ Iterate \/ ReceiveEvent \/ ReceiveNothing \/ UpdateSnapshot \/ UpdateSnapshotFails
  \/ ServeFails \/ StartStops \/ GracefulStop \/ StartFails
  \/ Connect \/ Disconnect \/ EnvoyRestarts \/ StreamEnds
  \/ \E t \in Types : Respond(t)

SafeSpec == Init /\ [][Next]_vars

\* Goroutines that can run do, the DaemonSet restarts the process, Envoy connects
\* again, informers deliver.  Nothing is assumed of faults and writes.  A pending
\* event is received, whatever the number of rounds that time out.
Fairness ==
  /\ WF_vars(Run) /\ WF_vars(Exit)
  /\ \A s \in Services : WF_vars(Deliver(s))
  /\ WF_vars(InformerEnds)
  /\ WF_vars(Iterate) /\ WF_vars(ReceiveNothing)
  /\ SF_vars(ReceiveEvent)
  /\ WF_vars(UpdateSnapshot \/ UpdateSnapshotFails)
  /\ WF_vars(StartStops \/ StartFails) /\ WF_vars(GracefulStop)
  /\ WF_vars(Connect) /\ WF_vars(StreamEnds)
  /\ \A t \in Types : WF_vars(Respond(t))

Spec == SafeSpec /\ Fairness

-----------------------------------------------------------------------------
(* Properties *)

ProcessOK ==
  /\ proc \in {"down", "up"}
  /\ ctxDone \in BOOLEAN
  /\ informer \in {"running", "ended"}
  /\ start \in {"select", "GracefulStop", "ended"}
  /\ serve \in {"running", "sending", "ended"}
  /\ loop \in {"top", "receiving", "ended"}

MailboxOK ==
  /\ known \subseteq Services /\ taken \subseteq Services /\ snap \subseteq Services
  /\ dirty \in BOOLEAN /\ busy \in BOOLEAN /\ failed \in BOOLEAN

ClientOK ==
  /\ snapVer \in {"none", "", "stamp"}
  /\ stream \in BOOLEAN
  /\ envoy \in [Types -> SUBSET Services]
  /\ envoyVer \in [Types -> {"", "stamp", "old"}]

\* Type correctness of the process, its mailbox and its client; the xDS cache has
\* a snapshot for the node exactly while the process is up.
TypeOK ==
  /\ api \subseteq Services
  /\ writes \in 0..MaxWrites /\ faults \in 0..MaxFaults
  /\ ProcessOK /\ MailboxOK /\ ClientOK
  /\ proc = "down" <=> snapVer = "none"

\* Envoy has what the API server has; endpoints only if no service's load
\* assignments are withheld.
Settled ==
  /\ envoy["clusters"] = api
  /\ api \cap Mismatched = {} => envoy["endpoints"] = api

\* Nothing is on its way from the API server to Envoy.
Quiet ==
  /\ known = api
  /\ ~dirty /\ ~busy /\ ~failed
  /\ stream
  /\ \A t \in Types : ~Due(t)

\* End to end, and across restarts of either side: when nothing is under way
\* any more, Envoy has exactly what the API server has.  In particular a
\* process that lists no service at all takes away what Envoy had from its
\* predecessor, and one that publishes the same content under a new version
\* takes away nothing.
EnvoyUpToDate == Quiet => Settled

\* A process that is left alone, with a stream to its Envoy, brings it up to
\* date, unless a publication failed and no event came after it.
EnvoyConverges ==
  \A services \in SUBSET Services :
    <>[](api = services /\ stream /\ ~ctxDone) => <>[](Settled \/ failed)

\* A cancelled context ends the process: GracefulStop, the loop and the informer
\* goroutine all return, whatever Envoy does, and although Serve's goroutine is
\* left hanging in its send.
ShutsDown == ctxDone ~> proc = "down"

\* A gRPC server that no longer serves, because it failed or was stopped, does not
\* leave a process behind that publishes snapshots nobody can ask for.
FailureEnds == serve = "sending" ~> proc = "down"
=============================================================================
