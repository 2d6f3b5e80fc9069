------------------------------ MODULE Dispatch ------------------------------
(***************************************************************************)
(* How a change of the cluster state reaches the xDS cache                 *)
(* (pkg/state/subscriber.go and the loop of cmd/controlplane).             *)
(*                                                                         *)
(* Informer goroutines (Handlers) change the cache and then run            *)
(* dispatchEvent: a non-blocking send on the unbuffered eventChan and, if  *)
(* nobody is receiving, eventLost = true under eventLostLock.  One         *)
(* receiver goroutine runs the loop of cmd/controlplane: ReceiveEvent      *)
(* holds eventLostLock from its first line to its return, so also while it *)
(* is blocked in its select.                                               *)
(*                                                                         *)
(* The content of the cache is a parameter here: ControlPlane instantiates *)
(* this module with the real cache.  Taking c.m and the containers' locks  *)
(* is not visible: every cache operation holds c.m from start to end.      *)
(***************************************************************************)
EXTENDS Naturals

CONSTANTS
  Handlers,     \* informer goroutines that call the On* callbacks
  CacheStates,  \* values of clusterServiceStateCache
  EmptyCache    \* the cache made by NewClusterServiceStateCache

ASSUME EmptyCacheAssumption == EmptyCache \in CacheStates

VARIABLES
  cache,      \* cs.clusterState
  eventLost,  \* cs.eventLost
  lockHeld,   \* cs.eventLostLock is held by the receiver
  hpc,        \* program counter of each handler
  rpc,        \* program counter of the receiver
  snap,       \* the snapshot the receiver took last
  pub,        \* the snapshot whose translation the xDS cache holds
  ingestErr,  \* the last updateSnapshot that got a snapshot returned an error
  done        \* ctx is cancelled

vars == <<cache, eventLost, lockHeld, hpc, rpc, snap, pub, ingestErr, done>>

\* A handler is idle, about to try the send, or waiting for eventLostLock.
HandlerPC == {"idle", "send", "markLost"}

\* The receiver is at the top of its loop, waiting for eventLostLock, blocked
\* in the select, about to copy the cache, about to hand the snapshot to the
\* xDS server, or has left the loop.
ReceiverPC == {"loop", "lock", "select", "snapshot", "ingest", "exit"}

\* Type correctness of the subscriber's and the loop's state, with the lock
\* tied to the receiver: it holds eventLostLock exactly from the acquisition
\* in ReceiveEvent to its deferred release.
TypeOK ==
  /\ cache \in CacheStates
  /\ eventLost \in BOOLEAN
  /\ lockHeld \in BOOLEAN
  /\ hpc \in [Handlers -> HandlerPC]
  /\ rpc \in ReceiverPC
  /\ snap \in CacheStates
  /\ pub \in CacheStates
  /\ ingestErr \in BOOLEAN
  /\ done \in BOOLEAN
  /\ lockHeld <=> rpc \in {"select", "snapshot"}

\* run has pushed the empty snapshot before any goroutine starts.
Init ==
  /\ cache = EmptyCache
  /\ eventLost = FALSE
  /\ lockHeld = FALSE
  /\ hpc = [h \in Handlers |-> "idle"]
  /\ rpc = "loop"
  /\ snap = EmptyCache
  /\ pub = EmptyCache
  /\ ingestErr = FALSE
  /\ done = FALSE

-----------------------------------------------------------------------------
(* Informer goroutines *)

\* A callback's cache operation returned true and left the cache at c.
Apply(h, c) ==
  /\ hpc[h] = "idle"
  /\ cache' = c
  /\ hpc' = [hpc EXCEPT ![h] = "send"]
  /\ UNCHANGED <<eventLost, lockHeld, rpc, snap, pub, ingestErr, done>>

\* dispatchEvent, send case: the receiver is parked in its select.
DispatchSend(h) ==
  /\ hpc[h] = "send"
  /\ rpc = "select"
  /\ rpc' = "snapshot"
  /\ hpc' = [hpc EXCEPT ![h] = "idle"]
  /\ UNCHANGED <<cache, eventLost, lockHeld, snap, pub, ingestErr, done>>

\* dispatchEvent, default case.
DispatchDefault(h) ==
  /\ hpc[h] = "send"
  /\ rpc # "select"
  /\ hpc' = [hpc EXCEPT ![h] = "markLost"]
  /\ UNCHANGED <<cache, eventLost, lockHeld, rpc, snap, pub, ingestErr, done>>

\* Mutant: the default case forgets the event.
MarkEventLostForgets(h) ==
  /\ hpc[h] = "markLost"
  /\ ~lockHeld
  /\ hpc' = [hpc EXCEPT ![h] = "idle"]
  /\ UNCHANGED <<cache, eventLost, lockHeld, rpc, snap, pub, ingestErr, done>>

\* The rest of the default case: lock, eventLost = true, unlock.
MarkEventLost(h) ==
  /\ hpc[h] = "markLost"
  /\ ~lockHeld
  /\ eventLost' = TRUE
  /\ hpc' = [hpc EXCEPT ![h] = "idle"]
  /\ UNCHANGED <<cache, lockHeld, rpc, snap, pub, ingestErr, done>>

-----------------------------------------------------------------------------
(* The receiver: the loop of run, updateSnapshot and ReceiveEvent *)

\* Mutant: the loop does not look at ctx.
IterateIgnoresDone ==
  /\ rpc = "loop"
  /\ rpc' = "lock"
  /\ UNCHANGED <<cache, eventLost, lockHeld, hpc, snap, pub, ingestErr, done>>

\* The loop's select: default starts updateSnapshot, ctx.Done leaves.
Iterate ==
  /\ rpc = "loop"
  /\ rpc' = IF done THEN "exit" ELSE "lock"
  /\ UNCHANGED <<cache, eventLost, lockHeld, hpc, snap, pub, ingestErr, done>>

\* ReceiveEvent finds a lost event: clear the flag and go to the snapshot.
ReceiveLost ==
  /\ rpc = "lock"
  /\ eventLost
  /\ eventLost' = FALSE
  /\ lockHeld' = TRUE
  /\ rpc' = "snapshot"
  /\ UNCHANGED <<cache, hpc, snap, pub, ingestErr, done>>

\* ReceiveEvent finds none: block in the select with the lock held.
ReceiveBlock ==
  /\ rpc = "lock"
  /\ ~eventLost
  /\ lockHeld' = TRUE
  /\ rpc' = "select"
  /\ UNCHANGED <<cache, eventLost, hpc, snap, pub, ingestErr, done>>

\* Mutant: the wait has no deadline of its own.
ReceiveTimeoutOnlyOnShutdown ==
  /\ rpc = "select"
  /\ done
  /\ lockHeld' = FALSE
  /\ rpc' = "loop"
  /\ UNCHANGED <<cache, eventLost, hpc, snap, pub, ingestErr, done>>

\* recvCtx is done (NEW_SNAPSHOT_WAIT_TIMEOUT, or ctx was cancelled):
\* ReceiveEvent returns nil and updateSnapshot has nothing to do.
ReceiveTimeout ==
  /\ rpc = "select"
  /\ lockHeld' = FALSE
  /\ rpc' = "loop"
  /\ UNCHANGED <<cache, eventLost, hpc, snap, pub, ingestErr, done>>

\* Mutant: ReceiveEvent returns the snapshot without releasing the lock.
TakeSnapshotKeepsLock ==
  /\ rpc = "snapshot"
  /\ snap' = cache
  /\ rpc' = "ingest"
  /\ UNCHANGED <<cache, eventLost, lockHeld, hpc, pub, ingestErr, done>>

\* Mutant: the event is consumed but the snapshot is the one taken before.
TakeSnapshotStale ==
  /\ rpc = "snapshot"
  /\ snap' = snap
  /\ lockHeld' = FALSE
  /\ rpc' = "ingest"
  /\ UNCHANGED <<cache, eventLost, hpc, pub, ingestErr, done>>

\* cs.Snapshot() copies the cache under c.m; ReceiveEvent returns it and its
\* deferred Unlock runs.
TakeSnapshot ==
  /\ rpc = "snapshot"
  /\ snap' = cache
  /\ lockHeld' = FALSE
  /\ rpc' = "ingest"
  /\ UNCHANGED <<cache, eventLost, hpc, pub, ingestErr, done>>

\* EnvoySnapshotFromKubeSnapshot and server.UpdateSnapshot succeed.
Ingest ==
  /\ rpc = "ingest"
  /\ pub' = snap
  /\ ingestErr' = FALSE
  /\ rpc' = "loop"
  /\ UNCHANGED <<cache, eventLost, lockHeld, hpc, snap, done>>

\* One of the two returns an error: updateSnapshot returns it, the loop logs
\* it and goes on.  SetSnapshot, which is not part of this repository, may
\* have stored the snapshot before it failed.
IngestFail ==
  /\ rpc = "ingest"
  /\ pub' \in {pub, snap}
  /\ ingestErr' = TRUE
  /\ rpc' = "loop"
  /\ UNCHANGED <<cache, eventLost, lockHeld, hpc, snap, done>>

\* main's signal handler, or a failing xDS server, cancels ctx.
Cancel ==
  /\ ~done
  /\ done' = TRUE
  /\ UNCHANGED <<cache, eventLost, lockHeld, hpc, rpc, snap, pub, ingestErr>>

-----------------------------------------------------------------------------
dispatchEvent(h) == DispatchSend(h) \/ DispatchDefault(h) \/ MarkEventLost(h)

Receiver ==
  \/ Iterate \/ ReceiveLost \/ ReceiveBlock \/ ReceiveTimeout
  \/ TakeSnapshot \/ Ingest \/ IngestFail

Next ==
  \/ \E h \in Handlers, c \in CacheStates : Apply(h, c)
  \/ \E h \in Handlers : dispatchEvent(h)
  \/ Receiver
  \/ Cancel

(***************************************************************************)
(* Goroutines that can run do run.  Waiting for eventLostLock gets strong  *)
(* fairness: the receiver frees the lock again and again and a sync.Mutex  *)
(* is handed to a waiter that has been starving for a millisecond.         *)
(* Nothing is assumed about when a change happens or ctx is cancelled.     *)
(***************************************************************************)
Fairness ==
  /\ WF_vars(Receiver)
  /\ \A h \in Handlers :
       /\ WF_vars(DispatchSend(h) \/ DispatchDefault(h))
       /\ SF_vars(MarkEventLost(h))

SafeSpec == Init /\ [][Next]_vars
Spec == SafeSpec /\ Fairness

-----------------------------------------------------------------------------
(* Properties *)

\* A change is under way to the receiver: flagged, being dispatched, or
\* received and not copied yet.
Pending ==
  \/ eventLost
  \/ \E h \in Handlers : hpc[h] # "idle"
  \/ rpc = "snapshot"

\* No change of the cache is ever lost between dispatchEvent and ReceiveEvent,
\* in whatever order the informers, the flag, the channel and the time-out
\* meet: an event that will make the receiver copy the cache is pending, or
\* its last copy is up to date and published, about to be published, or was
\* refused with an error (which updateSnapshot does not retry).
NoLostUpdate ==
  \/ Pending
  \/ snap = cache /\ (rpc = "ingest" \/ pub = cache \/ ingestErr)

Inv == TypeOK /\ NoLostUpdate

\* Once the cache stops changing (and the process is not told to stop) its
\* content is published for good, unless publishing it failed.
Converges ==
  \A c \in CacheStates :
    <>[](cache = c /\ ~done) => <>[](pub = c \/ ingestErr)

\* dispatchEvent returns: an informer goroutine never waits for ever on
\* eventLostLock although ReceiveEvent holds it while it is blocked.
DispatchReturns ==
  \A h \in Handlers : hpc[h] # "idle" ~> hpc[h] = "idle"

\* A cancelled context ends the loop, whatever the informers are doing.
ShutsDown == done ~> rpc = "exit"

(***************************************************************************)
(* The subscriber and the loop implement a conflating mailbox.             *)
(***************************************************************************)
MB == INSTANCE Mailbox WITH
        Values <- CacheStates, Initial <- EmptyCache,
        cur <- cache, dirty <- Pending, taken <- snap,
        busy <- (rpc = "ingest"), failed <- ingestErr, open <- ~done

\* Every behaviour of locks, channel and flag is a behaviour of the mailbox:
\* a change raises the flag, the receiver never finds it lowered when it
\* takes a snapshot, and what is taken is delivered in order, one at a time.
MailboxSpec == MB!MSpec
=============================================================================
