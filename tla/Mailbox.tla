------------------------------- MODULE Mailbox -------------------------------
(***************************************************************************)
(* What the subscriber promises to the control-plane loop, with no lock,   *)
(* channel or goroutine in sight: a conflating mailbox of size one.        *)
(*                                                                         *)
(* Producers replace the current value and raise a flag.  One consumer     *)
(* takes the value that is current at that moment, whatever the number of  *)
(* changes since the last time, and delivers it or fails to.  A take may   *)
(* leave the flag raised (a redundant wake-up); it never finds it lowered. *)
(*                                                                         *)
(* Dispatch implements this specification (see Dispatch!MailboxSpec).      *)
(***************************************************************************)
EXTENDS Naturals

CONSTANTS
  Values,   \* what the producers may write
  Initial   \* the value at start, already delivered

VARIABLES
  cur,      \* the value the producers maintain
  dirty,    \* a change may not have been taken yet
  taken,    \* the value the consumer took last
  busy,     \* the consumer holds a value it has not delivered yet
  pub,      \* the value delivered last
  failed,   \* the last delivery reported an error
  open      \* the consumer has not been told to stop

mvars == <<cur, dirty, taken, busy, pub, failed, open>>

MInit ==
  /\ cur = Initial
  /\ dirty = FALSE
  /\ taken = Initial
  /\ busy = FALSE
  /\ pub = Initial
  /\ failed = FALSE
  /\ open = TRUE

Put ==
  /\ cur' \in Values
  /\ dirty' = TRUE
  /\ UNCHANGED <<taken, busy, pub, failed, open>>

Take ==
  /\ dirty
  /\ ~busy
  /\ taken' = cur
  /\ busy' = TRUE
  /\ dirty' \in BOOLEAN
  /\ UNCHANGED <<cur, pub, failed, open>>

Deliver ==
  /\ busy
  /\ pub' = taken
  /\ busy' = FALSE
  /\ failed' = FALSE
  /\ UNCHANGED <<cur, dirty, taken, open>>

\* A failed delivery may or may not have replaced the delivered value.
Fail ==
  /\ busy
  /\ pub' \in {pub, taken}
  /\ busy' = FALSE
  /\ failed' = TRUE
  /\ UNCHANGED <<cur, dirty, taken, open>>

Close ==
  /\ open' = FALSE
  /\ UNCHANGED <<cur, dirty, taken, busy, pub, failed>>

MNext == Put \/ Take \/ Deliver \/ Fail \/ Close

\* While the mailbox is open a raised flag is eventually acted on, and what
\* was taken is eventually delivered or reported as failed.
MFairness ==
  /\ WF_mvars(open /\ Take)
  /\ WF_mvars(Deliver \/ Fail)

MSafeSpec == MInit /\ [][MNext]_mvars
MSpec == MSafeSpec /\ MFairness
=============================================================================
