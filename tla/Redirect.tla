------------------------------ MODULE Redirect ------------------------------
(***************************************************************************)
(* The redirect daemon (cmd/redirect, pkg/redirect): a service informer    *)
(* drives iptables rules that send traffic for a service's addresses to    *)
(* the node-local Envoy.                                                   *)
(*                                                                         *)
(* The handler goroutine works through one event at a time, one iptables   *)
(* command per step; main prepares chain and jumps, waits for a signal and *)
(* cleans up, taking turns with the handler on ir.m.  The rules live in    *)
(* the kernel and outlive the process.  A failed command is logged, never  *)
(* repeated.                                                               *)
(***************************************************************************)
EXTENDS Naturals

CONSTANTS
  Services,  \* namespace/name, which is also the rule's comment
  Addrs,     \* strings in ClusterIPs and ExternalIPs
  Entries,   \* the sets of them that a service may have
  ParseIP,   \* net.ParseIP: the address a string stands for, or NilIP
  family     \* the family of an address, as To4 tells it

Families == {"v4", "v6"}
Hooks == {"PREROUTING", "OUTPUT"}
NilIP == "<nil>"
IPs == DOMAIN family

\* One address may have several spellings.
ASSUME ParseAssumption ==
  /\ family \in [IPs -> Families]
  /\ NilIP \notin IPs
  /\ Entries \subseteq SUBSET Addrs
  /\ ParseIP \in [Addrs -> IPs \cup {NilIP}]

VARIABLES
  store,      \* addresses of each service in the API server; {}: no service
  seen,       \* addresses the informer handed to the handler last
  chains,     \* kernel: families with a LIGHTPATH-SVC-REDIRECT chain
  jumps,      \* kernel: <<family, hook>> with a jump to that chain
  rules,      \* kernel: <<service, IP>> with a REDIRECT rule in the chain
  todo,       \* commands the running handler has left: <<service, IP>>
  pc,         \* where main is
  done,       \* ctx is cancelled
  cleanErr,   \* what run returned: an error or nil
  prereqErr,  \* history: what this process's Prereqs returned
  failed,     \* history: rules whose last command by this process failed
  respelled,  \* history: rules of which an update dropped one spelling and kept
              \* another
  inherited   \* history: rules of an earlier process, not touched since

kernel == <<chains, jumps, rules>>
history == <<prereqErr, failed, respelled, inherited>>
vars == <<store, seen, kernel, todo, pc, done, cleanErr, history>>

\* No process; Prereqs done and informer starting; waiting for ctx.Done; run
\* has returned to main.
PC == {"down", "syncing", "running", "returned"}

Rule == Services \X IPs
Work == Services \X (IPs \cup {NilIP})
Idle == [add |-> {}, remove |-> {}]

\* Type correctness, with what the kernel enforces: no rule without its chain,
\* no jump to a chain that does not exist, no rule for a nil IP.
TypeOK ==
  /\ store \in [Services -> SUBSET Addrs]
  /\ seen \in [Services -> SUBSET Addrs]
  /\ chains \subseteq Families
  /\ jumps \subseteq chains \X Hooks
  /\ rules \subseteq {r \in Rule : family[r[2]] \in chains}
  /\ todo \in [add : SUBSET Work, remove : SUBSET Work]
  /\ pc \in PC
  /\ done \in BOOLEAN
  /\ cleanErr \in BOOLEAN
  /\ prereqErr \in BOOLEAN
  /\ failed \subseteq Work
  /\ respelled \subseteq Work
  /\ inherited \subseteq Rule

Init ==
  /\ store \in [Services -> Entries \cup {{}}]
  /\ seen = [s \in Services |-> {}]
  /\ chains = {} /\ jumps = {} /\ rules = {}
  /\ todo = Idle
  /\ pc = "down"
  /\ done = FALSE
  /\ cleanErr = FALSE
  /\ prereqErr = FALSE
  /\ failed = {} /\ respelled = {} /\ inherited = {}

-----------------------------------------------------------------------------
(* The API server (external) *)

Write(s) ==
  /\ \E addrs \in Entries \cup {{}} : store' = [store EXCEPT ![s] = addrs]
  /\ UNCHANGED <<seen, kernel, todo, pc, done, cleanErr, history>>

-----------------------------------------------------------------------------
(* main *)

\* The commands of Prereqs, in order.
ChainCommands == <<"v4", "v6">>
JumpCommands ==
  << <<"v4", "PREROUTING">>, <<"v4", "OUTPUT">>,
     <<"v6", "PREROUTING">>, <<"v6", "OUTPUT">> >>

\* Prereqs stops at the first command that fails, after n successes; run
\* ignores its error and starts the informer.
Prereqs ==
  /\ pc = "down"
  /\ \E n \in 0..6 :
       /\ chains' = chains \cup {ChainCommands[i] : i \in {j \in 1..2 : j <= n}}
       /\ jumps' = jumps \cup {JumpCommands[i] : i \in {j \in 1..4 : j + 2 <= n}}
       /\ prereqErr' = (n < 6)
  /\ pc' = "syncing"
  /\ inherited' = rules
  /\ UNCHANGED <<store, seen, rules, todo, done, cleanErr, failed, respelled>>

CacheSynced ==
  /\ pc = "syncing"
  /\ pc' = "running"
  /\ UNCHANGED <<store, seen, kernel, todo, done, cleanErr, history>>

\* The process ends and its memory is gone; the kernel keeps what it has.
Stop ==
  /\ pc' = "down"
  /\ seen' = [s \in Services |-> {}]
  /\ todo' = Idle
  /\ done' = FALSE
  /\ cleanErr' = FALSE
  /\ prereqErr' = FALSE
  /\ failed' = {} /\ respelled' = {} /\ inherited' = {}
  /\ UNCHANGED <<store, kernel>>

\* ctx is cancelled while WaitForCacheSync waits: run returns an error.
CacheSyncFails ==
  /\ pc = "syncing"
  /\ done
  /\ pc' = "returned"
  /\ cleanErr' = TRUE
  /\ UNCHANGED <<store, seen, kernel, todo, done, history>>

Signal ==
  /\ pc # "down"
  /\ ~done
  /\ done' = TRUE
  /\ UNCHANGED <<store, seen, kernel, todo, pc, cleanErr, history>>

\* A chain can be deleted if it is empty and nothing jumps to it.
Deletable(f, js) ==
  /\ f \in chains
  /\ \A r \in rules : family[r[2]] # f
  /\ \A h \in Hooks : <<f, h>> \notin js

\* All of Cleanup, under ir.m.  Any command may fail and the next is tried
\* all the same; but only errors of the kind "not found" are reported, which
\* there may be when something is missing.
Cleanup ==
  /\ pc = "running"
  /\ done
  /\ jumps' \in SUBSET jumps
  /\ chains' \in {chains \ fs : fs \in SUBSET {f \in Families : Deletable(f, jumps')}}
  /\ \/ cleanErr' = FALSE
     \/ jumps # Families \X Hooks /\ cleanErr' = TRUE
  /\ pc' = "returned"
  /\ UNCHANGED <<store, seen, rules, todo, done, history>>

Exit ==
  /\ pc = "returned"
  /\ Stop

\* SIGKILL, a panic, a node failure.
Crash ==
  /\ pc # "down"
  /\ Stop

Main ==
  \/ Prereqs \/ CacheSynced \/ CacheSyncFails \/ Cleanup \/ Exit

-----------------------------------------------------------------------------
(* The event handler: NewEventHandler's three functions *)

Event(s) == pc # "down" /\ todo = Idle /\ seen[s] # store[s]

Parsed(addrs) == {ParseIP[a] : a \in addrs}

\* Start handling: the IPs to add, then the IPs to remove.
Handle(s, add, remove) ==
  /\ todo' = [add |-> {s} \X add, remove |-> {s} \X remove]
  /\ seen' = [seen EXCEPT ![s] = store[s]]
  /\ respelled' = respelled \cup
       ({s} \X (Parsed(seen[s] \ store[s]) \cap Parsed(store[s])))
  /\ UNCHANGED <<store, kernel, pc, done, cleanErr, prereqErr, failed, inherited>>

\* Mutant: events before the cache is synced are skipped.
AddFuncAfterSync(s) ==
  /\ Event(s)
  /\ seen[s] = {}
  /\ Handle(s, IF pc = "syncing" THEN {} ELSE Parsed(store[s]), {})

AddFunc(s) ==
  /\ Event(s)
  /\ seen[s] = {}
  /\ Handle(s, Parsed(store[s]), {})

\* Mutant: the two results are swapped.
svcIPDiffSwapped(old, new) == <<Parsed(old \ new), Parsed(new \ old)>>

\* Mutant: everything the old object has is removed.
svcIPDiffRemovesOld(old, new) == <<Parsed(new \ old), Parsed(old)>>

\* What only the new object has, and what only the old one has.  Strings are
\* compared, and parsed afterwards.
svcIPDiff(old, new) == <<Parsed(new \ old), Parsed(old \ new)>>

UpdateFunc(s) ==
  /\ Event(s)
  /\ {} \notin {seen[s], store[s]}
  /\ LET diff == svcIPDiff(seen[s], store[s])
     IN  Handle(s, diff[1], diff[2])

\* Mutant: the addresses to remove are read from the wrong object.
DeleteFuncWrongObject(s) ==
  /\ Event(s)
  /\ store[s] = {}
  /\ Handle(s, {}, Parsed(store[s]))

DeleteFunc(s) ==
  /\ Event(s)
  /\ store[s] = {}
  /\ Handle(s, {}, Parsed(seen[s]))

\* The deletion was missed by the watch and found on re-list: the informer
\* passes a DeletedFinalStateUnknown and the type assertion panics.
DeleteFuncTombstone(s) ==
  /\ Event(s)
  /\ store[s] = {}
  /\ Stop

\* Mutant: iptables is used for both families.
AddIPWrongFamily(r) ==
  /\ r \in todo.add
  /\ todo' = [todo EXCEPT !.add = @ \ {r}]
  /\ "v4" \in chains
  /\ rules' = rules \cup {r}
  /\ UNCHANGED <<store, seen, chains, jumps, pc, done, cleanErr, history>>

\* EnsureRule -A needs the chain; it does nothing if the rule is there.  A nil
\* IP goes to ip6tables, which refuses it.
AddIP(r) ==
  /\ r \in todo.add
  /\ todo' = [todo EXCEPT !.add = @ \ {r}]
  /\ \/ /\ r \in Rule
        /\ family[r[2]] \in chains
        /\ rules' = rules \cup {r}
        /\ failed' = failed \ {r}
        /\ respelled' = respelled \ ({r} \ todo.remove)
        /\ inherited' = inherited \ {r}
     \/ /\ failed' = failed \cup {r}
        /\ UNCHANGED <<rules, respelled, inherited>>
  /\ UNCHANGED <<store, seen, chains, jumps, pc, done, cleanErr, prereqErr>>

\* UpdateFunc removes after it has added.  A rule that is not there, or whose
\* chain is not there, counts as removed.
RemoveIP(r) ==
  /\ todo.add = {}
  /\ r \in todo.remove
  /\ todo' = [todo EXCEPT !.remove = @ \ {r}]
  /\ \/ /\ r \in Rule
        /\ rules' = rules \ {r}
        /\ failed' = failed \ {r}
        /\ inherited' = inherited \ {r}
     \/ /\ failed' = failed \cup {r}
        /\ UNCHANGED <<rules, inherited>>
  /\ UNCHANGED <<store, seen, chains, jumps, pc, done, cleanErr, prereqErr, respelled>>

Command == \E r \in Work : AddIP(r) \/ RemoveIP(r)

Deliver(s) == AddFunc(s) \/ UpdateFunc(s) \/ DeleteFunc(s)

Handler == Command \/ \E s \in Services : Deliver(s) \/ DeleteFuncTombstone(s)

-----------------------------------------------------------------------------
Next ==
  \/ \E s \in Services : Write(s)
  \/ Main \/ Signal \/ Crash \/ Handler

(***************************************************************************)
(* main and the handler goroutine proceed when they can; the informer      *)
(* works through its queue in order, so the event of a service is handled  *)
(* although those of others come before it.  The DaemonSet restarts the    *)
(* process.  Nothing is assumed about writes, signals and crashes.         *)
(***************************************************************************)
Fairness ==
  /\ WF_vars(Main)
  /\ WF_vars(Command)
  /\ \A s \in Services : SF_vars(~done /\ Deliver(s))

SafeSpec == Init /\ [][Next]_vars
Spec == SafeSpec /\ Fairness

-----------------------------------------------------------------------------
(* Properties *)

\* Connections to the address get to Envoy: there is the rule, and both hooks
\* lead to it.
Redirected(r) == r \in rules /\ \A h \in Hooks : <<family[r[2]], h>> \in jumps

\* Prereqs succeeded and Cleanup has not been called.
Ready == pc \in {"syncing", "running"} /\ ~prereqErr

\* While the process runs, every address of every service it was told about has
\* its rule, whose chain both hooks lead to if Prereqs succeeded; unless the
\* command is still ahead or was tried and failed, or the last update dropped
\* another spelling of the address, which takes the rule along.
RedirectsComplete ==
  pc # "down" =>
    \A r \in Rule :
      r[2] \in Parsed(seen[r[1]]) =>
        \/ r \in rules /\ (Ready => Redirected(r))
        \/ r \in todo.add \cup failed \cup respelled

\* While the process runs, a rule belongs to an address of a service it was
\* told about, unless its removal is still ahead or failed, or the rule is
\* left over from an earlier process.
NoForeignRedirects ==
  pc # "down" =>
    \A r \in rules :
      r[2] \in Parsed(seen[r[1]]) \/ r \in todo.remove \cup failed \cup inherited

\* What a handler still has to do fits the object it was called for: it adds
\* addresses the service has and removes addresses it does not have, or does
\* not have in the spelling that was dropped.  No work of a process that ended
\* is left to the next.
TodoMatchesSeen ==
  /\ \A r \in todo.add : r[2] \in Parsed(seen[r[1]])
  /\ \A r \in todo.remove : r[2] \in Parsed(seen[r[1]]) => r \in respelled
  /\ pc = "down" => todo = Idle

\* An address whose service has it, as far as the process was told, stays
\* redirected, rule and jumps, whatever commands, events and crashes follow: it
\* is lost only in Cleanup, which takes the jumps away, and in an update that
\* drops another spelling of it.
KeepsLiveRedirects ==
  [][\A r \in Rule :
       Redirected(r) /\ ~Redirected(r)' =>
         \/ r[2] \notin Parsed(seen[r[1]])
         \/ done /\ pc' = "returned"
         \/ r \in respelled]_vars

\* If the process is left running and its Prereqs succeeded, all addresses of all
\* services are redirected in the end, except those whose command failed or of
\* which another spelling was dropped.
EventuallyRedirected ==
  \A r \in Rule :
    <>[](Ready /\ pc = "running" /\ ~done /\ r[2] \in Parsed(store[r[1]]))
      => <>[](Redirected(r) \/ r \in failed \cup respelled)

\* "We want to catch all errors but continue the cleanup": if Cleanup returns
\* nil nothing failed, and neither a jump nor a chain is left.
CleanupReportsErrors ==
  pc = "returned" /\ ~cleanErr => jumps = {} /\ chains = {}

\* "`redirect` configures the iptables redirect targets for ClusterIPs handled
\* by Lightpath": while the process is left running, a redirect whose service
\* is gone vanishes in the end, unless its removal failed or the rule is left
\* over from an earlier process, which nobody removes.
EventuallyOnlyHandled ==
  \A r \in Rule :
    <>[](pc = "running" /\ ~done /\ r[2] \notin Parsed(store[r[1]]))
      => <>[](r \in rules => r \in failed \cup inherited)
=============================================================================
