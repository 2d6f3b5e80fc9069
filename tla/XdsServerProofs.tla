-------------------------- MODULE XdsServerProofs --------------------------
(***************************************************************************)
(* What Envoy has, for all clusters of services and any number of faults.  *)
(***************************************************************************)
EXTENDS XdsServer, TLAPS

\* A process that is down holds nothing and has no client.
DownMeansGone ==
  proc = "down" =>
    /\ informer = "ended" /\ start = "ended" /\ serve = "ended" /\ loop = "ended"
    /\ known = {} /\ taken = {} /\ snap = {}
    /\ ~dirty /\ ~busy /\ ~failed /\ ~stream

\* The loop's part of the way: nothing pending means that the copy is current,
\* and an ingestion that went well that the xDS cache has the copy.
CopiesCurrent ==
  /\ ~dirty => taken = known
  /\ ~busy /\ ~failed => snap = taken

\* Equal versions mean equal content; the version "" means no content.
VersionsTell ==
  /\ snapVer = "" => snap = {}
  /\ \A t \in Types :
       /\ envoyVer[t] = "" => envoy[t] = {}
       /\ envoyVer[t] = "stamp" /\ snapVer = "stamp" => envoy[t] = snap
  /\ envoy["endpoints"] \subseteq envoy["clusters"]

Inv == TypeOK /\ DownMeansGone /\ CopiesCurrent /\ VersionsTell

\* Outdated versions are versions.
LEMMA OutdatedType ==
  ASSUME ClientOK PROVE Outdated \in [Types -> {"", "stamp", "old"}]
BY DEF ClientOK, Outdated

\* The goroutines keep their types.
LEMMA ProcessTypes == ProcessOK /\ [Next]_vars => ProcessOK'
<1> SUFFICES ASSUME ProcessOK, [Next]_vars PROVE ProcessOK'
  OBVIOUS
<1> USE DEF ProcessOK, goroutines
<1>1. CASE Run \/ Exit \/ Crash \/ Signal
  BY <1>1 DEF Run, Exit, Crash, Gone, Signal
<1>2. CASE InformerEnds \/ Iterate \/ ReceiveNothing
  BY <1>2 DEF InformerEnds, Iterate, ReceiveNothing
<1>3. CASE UpdateSnapshot \/ UpdateSnapshotFails
  BY <1>3 DEF UpdateSnapshot, UpdateSnapshotFails
<1>4. CASE ServeFails \/ StartStops \/ GracefulStop \/ StartFails
  BY <1>4 DEF ServeFails, StartStops, GracefulStop, StartFails
<1>5. CASE UNCHANGED <<proc, goroutines>>
  BY <1>5
<1> QED
  BY <1>1, <1>2, <1>3, <1>4, <1>5 DEF Next, vars, Write, Deliver, Resync, ReceiveEvent,
     Connect, Disconnect, EnvoyRestarts, StreamEnds, Respond

\* The mailbox keeps its types.
LEMMA MailboxTypes == TypeOK /\ [Next]_vars => MailboxOK'
<1> SUFFICES ASSUME TypeOK, [Next]_vars PROVE MailboxOK'
  OBVIOUS
<1>0. MailboxOK /\ api \subseteq Services
  BY DEF TypeOK
<1> USE <1>0 DEF MailboxOK, mailbox
<1>1. CASE Exit \/ Crash
  BY <1>1 DEF Exit, Crash, Gone
<1>2. ASSUME NEW s \in Services, Deliver(s) PROVE MailboxOK'
  BY <1>2 DEF Deliver, M!Put
<1>3. CASE Resync \/ ReceiveEvent
  BY <1>3 DEF Resync, ReceiveEvent, M!Put, M!Take
<1>4. CASE UpdateSnapshot \/ UpdateSnapshotFails
  BY <1>4 DEF UpdateSnapshot, UpdateSnapshotFails, M!Deliver, M!Fail
<1>5. CASE UNCHANGED mailbox
  BY <1>5
<1> QED
  BY <1>1, <1>2, <1>3, <1>4, <1>5 DEF Next, vars, Write, Run, Signal, InformerEnds, Iterate,
     ReceiveNothing, ServeFails, StartStops, GracefulStop, StartFails,
     Connect, Disconnect, EnvoyRestarts, StreamEnds, Respond

\* The xDS cache's version and the client keep their types.
LEMMA ClientTypes == TypeOK /\ [Next]_vars => ClientOK'
<1> SUFFICES ASSUME TypeOK, [Next]_vars PROVE ClientOK'
  OBVIOUS
<1>0. ClientOK /\ snap \subseteq Services
  BY DEF TypeOK, MailboxOK
<1> USE <1>0 DEF ClientOK, client
<1>1. CASE Run \/ Exit \/ Crash
  BY <1>1, OutdatedType DEF Run, Exit, Crash, Gone
<1>2. CASE UpdateSnapshot \/ UpdateSnapshotFails
  BY <1>2, OutdatedType DEF UpdateSnapshot, UpdateSnapshotFails, NewVersion
<1>3. CASE Connect \/ Disconnect \/ EnvoyRestarts \/ StreamEnds
  BY <1>3 DEF Connect, Disconnect, EnvoyRestarts, StreamEnds
<1>4. ASSUME NEW t \in Types, Respond(t) PROVE ClientOK'
  BY <1>4 DEF Respond, Due
<1>5. CASE UNCHANGED <<snapVer, client>>
  BY <1>5
<1> QED
  BY <1>1, <1>2, <1>3, <1>4, <1>5 DEF Next, vars, Write, Deliver, Signal, Resync, InformerEnds,
     Iterate, ReceiveEvent, ReceiveNothing, ServeFails, StartStops, GracefulStop, StartFails

\* The bounds, and the services of the API server, keep their types.
LEMMA OtherTypes ==
  ASSUME TypeOK, [Next]_vars
  PROVE  (api \subseteq Services /\ writes \in 0..MaxWrites /\ faults \in 0..MaxFaults)'
<1> USE XdsAssumption DEF bounds
<1>0. api \subseteq Services /\ writes \in 0..MaxWrites /\ faults \in 0..MaxFaults
  BY DEF TypeOK
<1>1. ASSUME NEW s \in Services, Write(s)
      PROVE  (api \subseteq Services /\ writes \in 0..MaxWrites /\ faults \in 0..MaxFaults)'
  BY <1>0, <1>1 DEF Write
<1>2. CASE Fault /\ UNCHANGED api
  BY <1>0, <1>2 DEF Fault
<1>3. CASE UNCHANGED <<api, bounds>>
  BY <1>0, <1>3
<1> QED
  BY <1>1, <1>2, <1>3 DEF Next, vars, Deliver, Run, Exit, Crash, Gone, Signal, Resync,
     InformerEnds, Iterate, ReceiveEvent, ReceiveNothing, UpdateSnapshot,
     UpdateSnapshotFails, ServeFails, StartStops, GracefulStop, StartFails,
     Connect, Disconnect, EnvoyRestarts, StreamEnds, Respond

\* Only run brings a process up, and whatever else happens needs one of its
\* goroutines, its mailbox or its stream.
LEMMA DownStaysGone ==
  ASSUME TypeOK, DownMeansGone, [Next]_vars
  PROVE  DownMeansGone' /\ (proc = "down" <=> snapVer = "none")'
<1>0. /\ proc \in {"down", "up"}
      /\ proc = "down" <=> snapVer = "none"
  BY DEF TypeOK, ProcessOK
<1> USE <1>0 DEF DownMeansGone, goroutines, mailbox, client
<1>1. CASE Run \/ Exit \/ Crash
  BY <1>1 DEF Run, Exit, Crash, Gone
<1>2. CASE proc = "up" /\ proc' = "up" /\ snapVer' # "none"
  BY <1>2
<1>3. CASE UNCHANGED <<proc, goroutines, mailbox, snapVer, stream>>
  BY <1>3
<1>4. CASE Next /\ proc = "down"
  <2>0. /\ informer # "running" /\ start = "ended" /\ serve # "running" /\ loop = "ended"
        /\ ~busy /\ ~stream
    BY <1>4
  <2>1. ~(Exit \/ Crash \/ Signal)
    BY <1>4 DEF Exit, Crash, Signal
  <2>2. ~(Resync \/ InformerEnds) /\ \A s \in Services : ~Deliver(s)
    BY <2>0 DEF Deliver, Resync, InformerEnds
  <2>3. ~(Iterate \/ ReceiveEvent \/ ReceiveNothing \/ UpdateSnapshot \/ UpdateSnapshotFails)
    BY <2>0 DEF Iterate, ReceiveEvent, ReceiveNothing, UpdateSnapshot, UpdateSnapshotFails,
       M!Deliver, M!Fail
  <2>4. ~(ServeFails \/ StartStops \/ GracefulStop \/ StartFails)
    BY <2>0 DEF ServeFails, StartStops, GracefulStop, StartFails
  <2>5. ~(Connect \/ Disconnect \/ StreamEnds) /\ \A t \in Types : ~Respond(t)
    BY <2>0 DEF Connect, Disconnect, StreamEnds, Respond, Due
  <2>6. CASE EnvoyRestarts
    BY <1>4, <2>6 DEF EnvoyRestarts
  <2>7. ASSUME NEW s \in Services, Write(s)
        PROVE  DownMeansGone' /\ (proc = "down" <=> snapVer = "none")'
    BY <1>3, <2>7 DEF Write
  <2> QED
    BY <1>1, <1>4, <2>1, <2>2, <2>3, <2>4, <2>5, <2>6, <2>7 DEF Next
<1>5. CASE Next /\ proc = "up"
  <2>1. CASE UpdateSnapshot \/ UpdateSnapshotFails
    BY <1>2, <1>5, <2>1 DEF UpdateSnapshot, UpdateSnapshotFails, NewVersion
  <2>2. CASE UNCHANGED <<proc, snapVer>>
    BY <1>2, <1>5, <2>2
  <2> QED
    BY <1>1, <1>5, <2>1, <2>2 DEF Next, Write, Deliver, Signal, Resync, InformerEnds, Iterate,
       ReceiveEvent, ReceiveNothing, ServeFails, StartStops, GracefulStop, StartFails,
       Connect, Disconnect, EnvoyRestarts, StreamEnds, Respond
<1> QED
  BY <1>0, <1>3, <1>4, <1>5 DEF vars

\* A change of the cluster state raises the flag, and only a copy lowers it.
LEMMA CopiesStayCurrent ==
  ASSUME TypeOK, CopiesCurrent, [Next]_vars
  PROVE  CopiesCurrent'
<1> USE DEF CopiesCurrent, mailbox
<1>1. CASE Exit \/ Crash
  BY <1>1 DEF Exit, Crash, Gone
<1>2. ASSUME NEW s \in Services, Deliver(s) PROVE CopiesCurrent'
  BY <1>2 DEF Deliver, M!Put
<1>3. CASE Resync \/ ReceiveEvent
  BY <1>3 DEF Resync, ReceiveEvent, M!Put, M!Take
<1>4. CASE UpdateSnapshot \/ UpdateSnapshotFails
  BY <1>4 DEF UpdateSnapshot, UpdateSnapshotFails, M!Deliver, M!Fail
<1>5. CASE UNCHANGED mailbox
  BY <1>5
<1> QED
  BY <1>1, <1>2, <1>3, <1>4, <1>5 DEF Next, vars, Write, Run, Signal, InformerEnds, Iterate,
     ReceiveNothing, ServeFails, StartStops, GracefulStop, StartFails,
     Connect, Disconnect, EnvoyRestarts, StreamEnds, Respond

\* A new version makes Envoy's old, and an answer makes its content the snapshot's.
LEMMA VersionsStillTell ==
  ASSUME TypeOK, DownMeansGone, VersionsTell, [Next]_vars
  PROVE  VersionsTell'
<1>0. /\ ClientOK
      /\ proc = "down" <=> snapVer = "none"
  BY DEF TypeOK
<1>o. \A t \in Types : Outdated[t] # "stamp" /\ (Outdated[t] = "" => envoyVer[t] = "")
  BY DEF Outdated
<1> USE <1>0 DEF VersionsTell, client, mailbox
<1>1. CASE Run
  BY <1>1, <1>o DEF Run, DownMeansGone
<1>2. CASE Exit \/ Crash
  BY <1>2 DEF Exit, Crash, Gone
<1>3. CASE NewVersion /\ UNCHANGED envoy
  BY <1>3, <1>o DEF NewVersion
<1>4. CASE EnvoyRestarts
  BY <1>4 DEF EnvoyRestarts, Types
<1>5. ASSUME NEW t \in Types, Respond(t) PROVE VersionsTell'
  <2>0. UNCHANGED <<snap, snapVer>> /\ snapVer \in {"", "stamp"}
    BY <1>5 DEF Respond, Due, ClientOK
  <2>1. CASE t = "clusters"
    <3>1. /\ envoy'["clusters"] = snap
          /\ envoy'["endpoints"] = envoy["endpoints"] \cap snap
          /\ envoyVer'["clusters"] = snapVer
          /\ envoyVer'["endpoints"] = envoyVer["endpoints"]
      BY <1>5, <2>1 DEF Respond, Types, ClientOK
    <3> QED
      BY <2>0, <3>1 DEF Types
  <2>2. CASE t = "endpoints"
    <3>1. /\ envoy'["clusters"] = envoy["clusters"]
          /\ envoy'["endpoints"] = snap
          /\ envoyVer'["clusters"] = envoyVer["clusters"]
          /\ envoyVer'["endpoints"] = snapVer
          /\ snap \subseteq envoy["clusters"]
      BY <1>5, <2>2 DEF Respond, Due, Types, ClientOK
    <3> QED
      BY <2>0, <3>1 DEF Types
  <2> QED
    BY <2>1, <2>2 DEF Types
<1>6. CASE UNCHANGED <<snap, snapVer, envoy, envoyVer>>
  BY <1>6
<1>7. CASE UpdateSnapshot \/ UpdateSnapshotFails
  BY <1>3, <1>6, <1>7 DEF UpdateSnapshot, UpdateSnapshotFails
<1> QED
  BY <1>1, <1>2, <1>4, <1>5, <1>6, <1>7 DEF Next, vars, Write, Deliver, Resync, ReceiveEvent,
     M!Put, M!Take, Signal, InformerEnds, Iterate,
     ReceiveNothing, ServeFails, StartStops, GracefulStop, StartFails,
     Connect, Disconnect, StreamEnds

\* The invariant holds in the beginning and after every step.
LEMMA Inductive == (Init => Inv) /\ (Inv /\ [Next]_vars => Inv')
<1>1. Init => Inv
  <2> SUFFICES ASSUME Init PROVE Inv
    OBVIOUS
  <2> USE DEF Init
  <2>1. ProcessOK /\ MailboxOK /\ ClientOK
    BY DEF ProcessOK, MailboxOK, ClientOK, Types
  <2>2. TypeOK
    <3>0. api = {} /\ writes = 0 /\ faults = 0
      OBVIOUS
    <3>1. api \subseteq Services /\ writes \in 0..MaxWrites /\ faults \in 0..MaxFaults
      <4> HIDE DEF Init
      <4> QED
        BY <3>0, XdsAssumption
    <3>2. proc = "down" <=> snapVer = "none"
      OBVIOUS
    <3> QED
      BY <2>1, <3>1, <3>2 DEF TypeOK
  <2>3. DownMeansGone /\ CopiesCurrent /\ VersionsTell
    BY DEF DownMeansGone, CopiesCurrent, VersionsTell, Types
  <2> QED
    BY <2>2, <2>3 DEF Inv
<1>2. ASSUME Inv, [Next]_vars PROVE Inv'
  <2>1. TypeOK /\ DownMeansGone /\ CopiesCurrent /\ VersionsTell /\ ProcessOK
    BY <1>2 DEF Inv, TypeOK
  <2>2. ProcessOK' /\ MailboxOK' /\ ClientOK'
    BY <1>2, <2>1, ProcessTypes, MailboxTypes, ClientTypes
  <2>3. DownMeansGone' /\ (proc = "down" <=> snapVer = "none")'
    BY <1>2, <2>1, DownStaysGone
  <2>4. TypeOK'
    BY <1>2, <2>1, <2>2, <2>3, OtherTypes DEF TypeOK
  <2>5. CopiesCurrent' /\ VersionsTell'
    BY <1>2, <2>1, CopiesStayCurrent, VersionsStillTell
  <2> QED
    BY <2>3, <2>4, <2>5 DEF Inv
<1> QED
  BY <1>1, <1>2

\* The goroutines of run, the mailbox and the client keep their types, and the
\* xDS cache has a snapshot for the node from run's first to its last moment.
THEOREM TypeCorrect == SafeSpec => []TypeOK
<1>1. Inv => TypeOK
  BY DEF Inv
<1> QED
  BY <1>1, Inductive, PTL DEF SafeSpec

\* Whatever crashed, restarted, failed or was signalled before: when nothing is
\* under way from the API server through UpdateSnapshot to Envoy, Envoy has
\* what the API server has.
THEOREM EnvoyIsUpToDate == SafeSpec => []EnvoyUpToDate
<1>1. Inv => EnvoyUpToDate
  <2> SUFFICES ASSUME Inv, Quiet PROVE Settled
    BY DEF EnvoyUpToDate
  <2>0. TypeOK /\ DownMeansGone /\ CopiesCurrent /\ VersionsTell /\ ClientOK /\ ProcessOK
    BY DEF Inv, TypeOK
  <2>1. snap = api
    BY <2>0 DEF CopiesCurrent, Quiet
  <2>2. stream /\ snapVer \in {"", "stamp"}
    BY <2>0 DEF Quiet, DownMeansGone, TypeOK, ProcessOK, ClientOK
  <2>3. envoyVer["clusters"] = snapVer
    BY <2>2 DEF Quiet, Due, Types
  <2>4. envoy["clusters"] = api
    BY <2>0, <2>1, <2>2, <2>3 DEF VersionsTell, Types
  <2>5. ASSUME api \cap Mismatched = {} PROVE envoy["endpoints"] = api
    <3>1. envoyVer["endpoints"] = snapVer \/ envoy["clusters"] = {}
      BY <2>1, <2>2, <2>4, <2>5 DEF Quiet, Due, Types
    <3> QED
      BY <2>0, <2>1, <2>2, <2>4, <3>1 DEF VersionsTell, Types
  <2> QED
    BY <2>4, <2>5 DEF Settled
<1> QED
  BY <1>1, Inductive, PTL DEF SafeSpec
=============================================================================
