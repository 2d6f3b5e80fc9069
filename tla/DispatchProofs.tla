--------------------------- MODULE DispatchProofs ---------------------------
(***************************************************************************)
(* Theorems about Dispatch, for any number of informer goroutines and any  *)
(* cache: no change of the cache is lost, and the protocol implements the  *)
(* conflating mailbox.                                                     *)
(***************************************************************************)
EXTENDS Dispatch, TLAPS

\* The state new() and run() leave behind before the goroutines start is
\* well typed: the receiver does not hold eventLostLock.
LEMMA InitTypeOK == Init => TypeOK
BY EmptyCacheAssumption DEF Init, TypeOK, HandlerPC, ReceiverPC

\* Every step of an informer goroutine or of the receiver keeps the types and
\* leaves eventLostLock with the receiver exactly inside ReceiveEvent.
LEMMA NextTypeOK == TypeOK /\ [Next]_vars => TypeOK'
<1> SUFFICES ASSUME TypeOK, [Next]_vars
             PROVE  TypeOK'
  OBVIOUS
<1> USE DEF TypeOK, HandlerPC, ReceiverPC
<1>1. ASSUME NEW h \in Handlers, NEW c \in CacheStates, Apply(h, c)
      PROVE  TypeOK'
  BY <1>1 DEF Apply
<1>2. ASSUME NEW h \in Handlers, dispatchEvent(h)
      PROVE  TypeOK'
  <2>1. CASE DispatchSend(h)
    BY <2>1 DEF DispatchSend
  <2>2. CASE DispatchDefault(h)
    BY <2>2 DEF DispatchDefault
  <2>3. CASE MarkEventLost(h)
    BY <2>3 DEF MarkEventLost
  <2> QED
    BY <1>2, <2>1, <2>2, <2>3 DEF dispatchEvent
<1>3. CASE Iterate
  BY <1>3 DEF Iterate
<1>4. CASE ReceiveLost
  BY <1>4 DEF ReceiveLost
<1>5. CASE ReceiveBlock
  BY <1>5 DEF ReceiveBlock
<1>6. CASE ReceiveTimeout
  BY <1>6 DEF ReceiveTimeout
<1>7. CASE TakeSnapshot
  BY <1>7 DEF TakeSnapshot
<1>8. CASE Ingest
  BY <1>8 DEF Ingest
<1>9. CASE IngestFail
  BY <1>9 DEF IngestFail
<1>10. CASE Cancel
  BY <1>10 DEF Cancel
<1>11. CASE UNCHANGED vars
  BY <1>11 DEF vars
<1> QED
  BY <1>1, <1>2, <1>3, <1>4, <1>5, <1>6, <1>7, <1>8, <1>9, <1>10, <1>11
     DEF Next, Receiver

\* In every reachable state the types hold and eventLostLock is held by the
\* receiver exactly from its acquisition in ReceiveEvent to its release.
THEOREM TypeCorrect == SafeSpec => []TypeOK
BY InitTypeOK, NextTypeOK, PTL DEF SafeSpec

-----------------------------------------------------------------------------
(* No lost update *)

\* Every step keeps the promise that no change of the cache is forgotten.
LEMMA NextNoLostUpdate == Inv /\ [Next]_vars => NoLostUpdate'
<1> SUFFICES ASSUME TypeOK, NoLostUpdate, [Next]_vars
             PROVE  NoLostUpdate'
  BY DEF Inv
\* A change starts a dispatchEvent.
<1>1. ASSUME NEW h \in Handlers, NEW c \in CacheStates, Apply(h, c)
      PROVE  NoLostUpdate'
  BY <1>1 DEF Apply, TypeOK, NoLostUpdate, Pending
\* A dispatchEvent ends in a received event or in the flag.
<1>2. ASSUME NEW h \in Handlers, dispatchEvent(h)
      PROVE  NoLostUpdate'
  <2>1. CASE DispatchSend(h)
    BY <2>1 DEF DispatchSend, NoLostUpdate, Pending
  <2>2. CASE DispatchDefault(h)
    BY <2>2 DEF DispatchDefault, TypeOK, NoLostUpdate, Pending
  <2>3. CASE MarkEventLost(h)
    BY <2>3 DEF MarkEventLost, NoLostUpdate, Pending
  <2> QED
    BY <1>2, <2>1, <2>2, <2>3 DEF dispatchEvent
\* The flag is cleared only on the way to a snapshot.
<1>3. CASE ReceiveLost
  BY <1>3 DEF ReceiveLost, NoLostUpdate, Pending
\* The snapshot is the cache's content of this very moment.
<1>4. CASE TakeSnapshot
  BY <1>4 DEF TakeSnapshot, NoLostUpdate, Pending
\* Publishing an overtaken snapshot cannot hide the change that overtook it.
<1>5. CASE Ingest
  BY <1>5 DEF Ingest, NoLostUpdate, Pending
<1>6. CASE IngestFail
  BY <1>6 DEF IngestFail, NoLostUpdate, Pending
<1>7. CASE Iterate \/ ReceiveBlock \/ ReceiveTimeout
  BY <1>7 DEF Iterate, ReceiveBlock, ReceiveTimeout, NoLostUpdate, Pending
<1>8. CASE Cancel \/ UNCHANGED vars
  BY <1>8 DEF Cancel, vars, NoLostUpdate, Pending
<1> QED
  BY <1>1, <1>2, <1>3, <1>4, <1>5, <1>6, <1>7, <1>8 DEF Next, Receiver

\* No change of the cache is lost between dispatchEvent and ReceiveEvent.
THEOREM NoUpdateIsLost == SafeSpec => []NoLostUpdate
<1>1. Init => Inv
  BY InitTypeOK DEF Inv, Init, NoLostUpdate
<1>2. Inv /\ [Next]_vars => Inv'
  BY NextTypeOK, NextNoLostUpdate DEF Inv
<1>3. Inv => NoLostUpdate
  BY DEF Inv
<1> QED
  BY <1>1, <1>2, <1>3, PTL DEF SafeSpec

-----------------------------------------------------------------------------
(* Refinement *)

\* Subscriber and loop start as an empty mailbox.
LEMMA InitRefines == Init => MB!MInit
BY DEF Init, MB!MInit, Pending

\* Every step of the protocol is a step of the mailbox or changes nothing the
\* mailbox shows.
LEMMA NextRefines == TypeOK /\ [Next]_vars => [MB!MNext]_(MB!mvars)
<1> SUFFICES ASSUME TypeOK, [Next]_vars
             PROVE  MB!MNext \/ UNCHANGED MB!mvars
  OBVIOUS
<1>1. ASSUME NEW h \in Handlers, NEW c \in CacheStates, Apply(h, c)
      PROVE  MB!Put
  BY <1>1 DEF Apply, TypeOK, Pending, MB!Put
<1>2. ASSUME NEW h \in Handlers, dispatchEvent(h)
      PROVE  UNCHANGED MB!mvars
  <2>1. Pending
    BY <1>2 DEF dispatchEvent, DispatchSend, DispatchDefault, MarkEventLost,
                Pending
  <2>2. CASE DispatchSend(h)
    BY <2>1, <2>2 DEF DispatchSend, Pending, MB!mvars
  <2>3. CASE DispatchDefault(h)
    BY <2>1, <2>3 DEF DispatchDefault, TypeOK, Pending, MB!mvars
  <2>4. CASE MarkEventLost(h)
    BY <2>1, <2>4 DEF MarkEventLost, Pending, MB!mvars
  <2> QED
    BY <1>2, <2>2, <2>3, <2>4 DEF dispatchEvent
<1>3. ASSUME Iterate \/ ReceiveLost \/ ReceiveBlock \/ ReceiveTimeout
      PROVE  UNCHANGED MB!mvars
  BY <1>3 DEF Iterate, ReceiveLost, ReceiveBlock, ReceiveTimeout, Pending,
              MB!mvars
<1>4. ASSUME TakeSnapshot
      PROVE  MB!Take
  BY <1>4 DEF TakeSnapshot, Pending, MB!Take
<1>5. ASSUME Ingest
      PROVE  MB!Deliver
  BY <1>5 DEF Ingest, Pending, MB!Deliver
<1>6. ASSUME IngestFail
      PROVE  MB!Fail
  BY <1>6 DEF IngestFail, Pending, MB!Fail
<1>7. ASSUME Cancel
      PROVE  MB!Close
  BY <1>7 DEF Cancel, Pending, MB!Close
<1>8. ASSUME UNCHANGED vars
      PROVE  UNCHANGED MB!mvars
  BY <1>8 DEF vars, Pending, MB!mvars
<1> QED
  BY <1>1, <1>2, <1>3, <1>4, <1>5, <1>6, <1>7, <1>8
     DEF Next, Receiver, MB!MNext

\* Locks, channel and flag of the subscriber implement the conflating mailbox
\* (its safety part; the fairness part is left to TLC).
THEOREM ImplementsMailbox == SafeSpec => MB!MSafeSpec
BY InitRefines, NextRefines, TypeCorrect, PTL DEF SafeSpec, MB!MSafeSpec
=============================================================================
