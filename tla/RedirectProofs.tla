--------------------------- MODULE RedirectProofs ---------------------------
(***************************************************************************)
(* Theorems about Redirect, for any services and addresses: what the       *)
(* kernel's rules have to do with the services the handler was told about. *)
(***************************************************************************)
EXTENDS Redirect, TLAPS

\* A successful Prereqs lasts until Cleanup: all hooks lead to the chains.
JumpsReady == Ready => jumps = Families \X Hooks

\* Every address the handler was told about has its rule, up to what is ahead,
\* failed or lost to another spelling.
RulesComplete ==
  pc # "down" =>
    \A r \in Rule :
      r[2] \in Parsed(seen[r[1]]) => r \in rules \cup todo.add \cup failed \cup respelled

\* A process that has ended knows nothing.
NothingSeen == pc = "down" => seen = [s \in Services |-> {}]

Inv ==
  TypeOK /\ NothingSeen /\ JumpsReady /\ TodoMatchesSeen /\ RulesComplete /\ NoForeignRedirects

\* An empty kernel and no process satisfy the inductive invariant.
LEMMA InitInv == Init => Inv
<1> SUFFICES ASSUME Init PROVE Inv
  OBVIOUS
<1>1. TypeOK
  BY ParseAssumption DEF Init, TypeOK, PC, Idle
<1>2. NothingSeen /\ JumpsReady /\ TodoMatchesSeen /\ RulesComplete /\ NoForeignRedirects
  BY DEF Init, NothingSeen, JumpsReady, Ready, TodoMatchesSeen, RulesComplete, NoForeignRedirects, Idle
<1> QED
  BY <1>1, <1>2 DEF Inv

\* Strings are parsed to IPs or to nil.
LEMMA ParsedIPs == \A addrs \in SUBSET Addrs : Parsed(addrs) \subseteq IPs \cup {NilIP}
BY ParseAssumption DEF Parsed

\* Every step of main, of the handler, of the API server and every crash keeps
\* the types and what the kernel enforces.
LEMMA NextTypeOK == TypeOK /\ [Next]_vars => TypeOK'
<1> SUFFICES ASSUME TypeOK, [Next]_vars
             PROVE  TypeOK'
  OBVIOUS
<1> USE DEF TypeOK, PC, Families, Hooks, Rule, Work, Idle, kernel, history
<1>1. ASSUME NEW s \in Services, Write(s)
      PROVE  TypeOK'
  BY <1>1, ParseAssumption DEF Write
<1>2. CASE Prereqs
  <2>1. PICK n \in 0..6 :
          /\ chains' = chains \cup {ChainCommands[i] : i \in {j \in 1..2 : j <= n}}
          /\ jumps' = jumps \cup {JumpCommands[i] : i \in {j \in 1..4 : j + 2 <= n}}
          /\ prereqErr' = (n < 6)
    BY <1>2 DEF Prereqs
  <2>0. prereqErr' \in BOOLEAN
    BY <2>1
  <2>2. chains \subseteq chains' /\ chains' \subseteq Families
    <3>1. \A i \in 1..2 : ChainCommands[i] \in Families
      BY DEF ChainCommands
    <3> QED
      BY <2>1, <3>1
  <2>3. jumps' \subseteq chains' \X Hooks
    BY <2>1, <2>2 DEF ChainCommands, JumpCommands
  <2> QED
    BY <1>2, <2>0, <2>2, <2>3 DEF Prereqs
<1>3. CASE CacheSynced
  BY <1>3 DEF CacheSynced
<1>4. CASE CacheSyncFails
  BY <1>4 DEF CacheSyncFails
<1>5. CASE Cleanup
  <2>1. PICK fs \in SUBSET {f \in Families : Deletable(f, jumps')} :
          chains' = chains \ fs
    BY <1>5 DEF Cleanup
  <2>2. ASSUME NEW j \in jumps'
        PROVE  j \in chains' \X Hooks
    <3>0. j \in chains \X Hooks
      BY <1>5 DEF Cleanup
    <3>1. PICK f \in chains, h \in Hooks : j = <<f, h>>
      BY ONLY <3>0
    <3>2. f \notin fs
      BY <3>1 DEF Deletable
    <3> QED
      BY <2>1, <3>1, <3>2
  <2>3. rules' \subseteq {r \in Rule : family[r[2]] \in chains'}
    BY <1>5, <2>1 DEF Cleanup, Deletable
  <2>4. cleanErr' \in BOOLEAN
    BY <1>5 DEF Cleanup
  <2> QED
    BY <1>5, <2>1, <2>2, <2>3, <2>4 DEF Cleanup
<1>6. CASE Exit \/ Crash
  <2>1. todo' \in [add : SUBSET Work, remove : SUBSET Work]
    BY <1>6 DEF Exit, Crash, Stop
  <2> QED
    BY <1>6, <2>1 DEF Exit, Crash, Stop
<1>7. CASE Signal
  BY <1>7 DEF Signal
<1>8. ASSUME NEW r \in Work, AddIP(r)
      PROVE  TypeOK'
  BY <1>8 DEF AddIP
<1>9. ASSUME NEW r \in Work, RemoveIP(r)
      PROVE  TypeOK'
  BY <1>9 DEF RemoveIP
<1>10. ASSUME NEW s \in Services, Deliver(s) \/ DeleteFuncTombstone(s)
       PROVE  TypeOK'
  <2>1. ASSUME NEW add \in SUBSET (IPs \cup {NilIP}), NEW remove \in SUBSET (IPs \cup {NilIP}),
               Handle(s, add, remove)
        PROVE  TypeOK'
    <3>1. Parsed(store[s]) \subseteq IPs \cup {NilIP}
      BY ParsedIPs
    <3>2. respelled' \subseteq Work
      BY <2>1, <3>1 DEF Handle
    <3>3. todo' \in [add : SUBSET Work, remove : SUBSET Work]
      BY <2>1 DEF Handle
    <3> QED
      BY <2>1, <3>2, <3>3 DEF Handle
  <2>2. CASE AddFunc(s)
    BY <2>1, <2>2, ParsedIPs DEF AddFunc
  <2>3. CASE UpdateFunc(s)
    <3>1. Parsed(store[s] \ seen[s]) \subseteq IPs \cup {NilIP}
      BY ParsedIPs
    <3>2. Parsed(seen[s] \ store[s]) \subseteq IPs \cup {NilIP}
      BY ParsedIPs
    <3>3. Handle(s, Parsed(store[s] \ seen[s]), Parsed(seen[s] \ store[s]))
      BY <2>3 DEF UpdateFunc, svcIPDiff
    <3> QED
      BY <2>1, <3>1, <3>2, <3>3
  <2>4. CASE DeleteFunc(s)
    BY <2>1, <2>4, ParsedIPs DEF DeleteFunc
  <2>5. CASE DeleteFuncTombstone(s)
    BY <2>5 DEF DeleteFuncTombstone, Stop
  <2> QED
    BY <1>10, <2>2, <2>3, <2>4, <2>5 DEF Deliver
<1>11. CASE UNCHANGED vars
  BY <1>11 DEF vars
<1> QED
  BY <1>1, <1>2, <1>3, <1>4, <1>5, <1>6, <1>7, <1>8, <1>9, <1>10, <1>11
     DEF Next, Main, Handler, Command

\* In every reachable state the types hold, no rule is without its chain and
\* no jump leads nowhere.
THEOREM TypeCorrect == SafeSpec => []TypeOK
<1>1. Init => TypeOK
  BY InitInv DEF Inv
<1> QED
  BY <1>1, NextTypeOK, PTL DEF SafeSpec

-----------------------------------------------------------------------------
(* The rules and the services *)

\* Steps that touch neither the handler's work, nor what it was told, nor the
\* rules, and neither start nor end a process, keep what is said of the rules.
LEMMA QuietStep ==
  ASSUME Inv, UNCHANGED <<seen, rules, todo, failed, respelled, inherited>>,
         pc' = "down" <=> pc = "down"
  PROVE  TodoMatchesSeen' /\ RulesComplete' /\ NoForeignRedirects'
BY DEF Inv, TodoMatchesSeen, RulesComplete, NoForeignRedirects, Parsed

\* A process that ends leaves no work behind.
LEMMA StopStep ==
  ASSUME Stop
  PROVE  JumpsReady' /\ TodoMatchesSeen' /\ RulesComplete' /\ NoForeignRedirects'
BY DEF Stop, JumpsReady, Ready, TodoMatchesSeen, RulesComplete, NoForeignRedirects, Idle

\* Jumps are made by Prereqs and taken away by Cleanup only.
LEMMA JumpsStay ==
  ASSUME JumpsReady, UNCHANGED <<jumps, prereqErr>>,
         pc' \in {"syncing", "running"} => pc \in {"syncing", "running"}
  PROVE  JumpsReady'
BY DEF JumpsReady, Ready

\* A Prereqs that returns no error has made all jumps.
LEMMA PrereqsMakeJumps == TypeOK /\ Prereqs => JumpsReady'
<1> SUFFICES ASSUME TypeOK, Prereqs, ~prereqErr' PROVE jumps' = Families \X Hooks
  BY DEF JumpsReady, Ready
<1>0. PICK n \in 0..6 :
        /\ jumps' = jumps \cup {JumpCommands[i] : i \in {j \in 1..4 : j + 2 <= n}}
        /\ prereqErr' = (n < 6)
  BY DEF Prereqs
<1>1. n = 6
  <2>1. ~(n < 6)
    BY <1>0, Zenon
  <2> QED
    BY <2>1
<1>2. jumps \subseteq Families \X Hooks
  BY DEF TypeOK
<1>3. {JumpCommands[i] : i \in {j \in 1..4 : j + 2 <= 6}} = Families \X Hooks
  BY DEF JumpCommands, Families, Hooks
<1> QED
  BY <1>0, <1>1, <1>2, <1>3

\* An event handler takes over exactly the difference between what it was told
\* before and what it is told now.
LEMMA HandleStep ==
  ASSUME Inv, NEW s \in Services, NEW add, NEW remove,
         Event(s), Handle(s, add, remove),
         add = Parsed(store[s] \ seen[s]),
         remove = Parsed(seen[s] \ store[s])
  PROVE  TodoMatchesSeen' /\ RulesComplete' /\ NoForeignRedirects'
<1> USE DEF Handle, Inv, TypeOK, kernel
<1>1. \A t \in Services : seen'[t] = IF t = s THEN store[s] ELSE seen[t]
  OBVIOUS
<1>2. \A r \in todo'.add : r[1] = s /\ r[2] \in add
  OBVIOUS
<1>3. \A r \in todo'.remove : r[1] = s /\ r[2] \in remove /\ r = <<s, r[2]>>
  OBVIOUS
<1>4. \A ip : ip \in remove \cap Parsed(store[s]) => <<s, ip>> \in respelled'
  OBVIOUS
<1>5. TodoMatchesSeen'
  <2>1. \A r \in todo'.add : r[2] \in Parsed(seen'[r[1]])
    BY <1>1, <1>2 DEF Parsed
  <2>2. \A r \in todo'.remove : r[2] \in Parsed(seen'[r[1]]) => r \in respelled'
    BY <1>1, <1>3, <1>4
  <2> QED
    BY <2>1, <2>2 DEF TodoMatchesSeen, Event
<1>6. RulesComplete'
  <2> SUFFICES ASSUME NEW r \in Rule, r[2] \in Parsed(seen'[r[1]])
               PROVE  r \in rules' \cup todo'.add \cup failed' \cup respelled'
    BY DEF RulesComplete
  <2>1. CASE r[2] \in Parsed(seen[r[1]])
    BY <2>1 DEF RulesComplete, Event, Idle
  <2>2. CASE r[2] \notin Parsed(seen[r[1]])
    <3>1. r = <<r[1], r[2]>> /\ r[1] \in Services
      BY DEF Rule
    <3>2. r[1] = s /\ r[2] \in Parsed(store[s])
      BY <1>1, <2>2, <3>1
    <3>3. r[2] \in add
      BY <2>2, <3>2 DEF Parsed
    <3>4. r \in {s} \X add
      BY <3>1, <3>2, <3>3
    <3> QED
      BY <3>4
  <2> QED
    BY <2>1, <2>2
<1>7. NoForeignRedirects'
  <2> SUFFICES ASSUME NEW r \in rules, r[2] \notin Parsed(seen'[r[1]])
               PROVE  r \in todo'.remove \cup failed \cup inherited
    BY DEF NoForeignRedirects
  <2>1. CASE r[2] \in Parsed(seen[r[1]])
    <3>1. r = <<r[1], r[2]>> /\ r[1] \in Services
      BY DEF Rule
    <3>2. r[1] = s /\ r[2] \notin Parsed(store[s])
      BY <1>1, <2>1, <3>1
    <3>3. r[2] \in remove
      BY <2>1, <3>2 DEF Parsed
    <3>4. r \in {s} \X remove
      BY <3>1, <3>2, <3>3
    <3> QED
      BY <3>4
  <2>2. CASE r[2] \notin Parsed(seen[r[1]])
    BY <2>2 DEF NoForeignRedirects, Event, Idle
  <2> QED
    BY <2>1, <2>2
<1> QED
  BY <1>5, <1>6, <1>7

\* Every step keeps the invariant.
LEMMA NextInv == Inv /\ [Next]_vars => Inv'
<1> SUFFICES ASSUME Inv, [Next]_vars
             PROVE  Inv'
  OBVIOUS
<1> DEFINE Rest == TodoMatchesSeen /\ RulesComplete /\ NoForeignRedirects
<1>a. NothingSeen'
  BY DEF Inv, NothingSeen, Next, Write, Main, Prereqs, CacheSynced, CacheSyncFails, Cleanup,
         Exit, Crash, Stop, Signal, Handler, Command, AddIP, RemoveIP, Deliver, Event,
         AddFunc, UpdateFunc, DeleteFunc, DeleteFuncTombstone, Handle, vars
<1> SUFFICES JumpsReady' /\ Rest'
  BY <1>a, NextTypeOK DEF Inv
<1>0. TypeOK /\ JumpsReady
  BY DEF Inv
<1>1. ASSUME NEW s \in Services, Write(s)
      PROVE  JumpsReady' /\ Rest'
  BY <1>0, <1>1, QuietStep, JumpsStay DEF Write, kernel, history
<1>2. CASE Prereqs
  <2>1. todo' = Idle /\ rules' = rules /\ inherited' = rules
    BY <1>2 DEF Prereqs, Inv, TodoMatchesSeen
  <2>2. \A s \in Services : seen'[s] = {}
    BY <1>2 DEF Prereqs, Inv, NothingSeen
  <2>3. Rest'
    BY <2>1, <2>2 DEF TodoMatchesSeen, RulesComplete, NoForeignRedirects, Idle, Rule, Parsed
  <2> QED
    BY <1>0, <1>2, <2>3, PrereqsMakeJumps
<1>3. CASE CacheSynced \/ CacheSyncFails \/ Signal
  BY <1>0, <1>3, QuietStep, JumpsStay DEF CacheSynced, CacheSyncFails, Signal, kernel, history
<1>4. CASE Cleanup
  <2>1. JumpsReady'
    BY <1>4 DEF Cleanup, JumpsReady, Ready
  <2> QED
    BY <1>4, <2>1, QuietStep DEF Cleanup, history
<1>5. CASE Exit \/ Crash
  BY <1>5, StopStep DEF Exit, Crash
<1>6. ASSUME NEW r \in Work, AddIP(r)
      PROVE  JumpsReady' /\ Rest'
  <2>1. JumpsReady'
    BY <1>0, <1>6, JumpsStay DEF AddIP
  <2>2. TodoMatchesSeen'
    BY <1>6 DEF AddIP, Inv, TypeOK, TodoMatchesSeen, Idle, Parsed
  <2>3. RulesComplete'
    BY <1>6 DEF AddIP, Inv, TypeOK, RulesComplete, Parsed
  <2>4. NoForeignRedirects'
    BY <1>6 DEF AddIP, Inv, TypeOK, TodoMatchesSeen, NoForeignRedirects, Parsed
  <2> QED
    BY <2>1, <2>2, <2>3, <2>4
<1>7. ASSUME NEW r \in Work, RemoveIP(r)
      PROVE  JumpsReady' /\ Rest'
  <2>1. JumpsReady'
    BY <1>0, <1>7, JumpsStay DEF RemoveIP
  <2>2. TodoMatchesSeen'
    BY <1>7 DEF RemoveIP, Inv, TypeOK, TodoMatchesSeen, Idle, Parsed
  <2>3. RulesComplete'
    BY <1>7 DEF RemoveIP, Inv, TypeOK, TodoMatchesSeen, RulesComplete, Parsed
  <2>4. NoForeignRedirects'
    BY <1>7 DEF RemoveIP, Inv, TypeOK, NoForeignRedirects, Parsed
  <2> QED
    BY <2>1, <2>2, <2>3, <2>4
<1>8. ASSUME NEW s \in Services, Deliver(s) \/ DeleteFuncTombstone(s)
      PROVE  JumpsReady' /\ Rest'
  <2>0. ASSUME NEW add, NEW remove, Handle(s, add, remove)
        PROVE  JumpsReady'
    BY <1>0, <2>0, JumpsStay DEF Handle, kernel
  <2>1. CASE AddFunc(s)
    <3>1. Parsed(store[s]) = Parsed(store[s] \ seen[s]) /\ {} = Parsed(seen[s] \ store[s])
      BY <2>1 DEF AddFunc, Parsed
    <3> QED
      BY <2>0, <2>1, <3>1, HandleStep DEF AddFunc
  <2>2. CASE UpdateFunc(s)
    <3>1. Event(s) /\ Handle(s, Parsed(store[s] \ seen[s]), Parsed(seen[s] \ store[s]))
      BY <2>2 DEF UpdateFunc, svcIPDiff
    <3> QED
      BY <2>0, <3>1, HandleStep
  <2>3. CASE DeleteFunc(s)
    <3>1. {} = Parsed(store[s] \ seen[s]) /\ Parsed(seen[s]) = Parsed(seen[s] \ store[s])
      BY <2>3 DEF DeleteFunc, Parsed
    <3> QED
      BY <2>0, <2>3, <3>1, HandleStep DEF DeleteFunc
  <2>4. CASE DeleteFuncTombstone(s)
    BY <2>4, StopStep DEF DeleteFuncTombstone
  <2> QED
    BY <1>8, <2>1, <2>2, <2>3, <2>4 DEF Deliver
<1>9. CASE UNCHANGED vars
  BY <1>0, <1>9, QuietStep, JumpsStay DEF vars, kernel, history
<1> QED
  BY <1>1, <1>2, <1>3, <1>4, <1>5, <1>6, <1>7, <1>8, <1>9
     DEF Next, Main, Handler, Command

\* What the handler is about to do never contradicts what it was told last.
THEOREM WorkMatchesSeen == SafeSpec => []TodoMatchesSeen
<1>1. Inv => TodoMatchesSeen
  BY DEF Inv
<1> QED
  BY <1>1, InitInv, NextInv, PTL DEF SafeSpec

\* While the process runs, every address of every service it was told about has
\* its rule, and both hooks lead to it if Prereqs succeeded, unless the command
\* is still ahead or failed or another spelling was dropped.
THEOREM RedirectsAreComplete == SafeSpec => []RedirectsComplete
<1>1. Inv => RedirectsComplete
  <2> SUFFICES ASSUME Inv, pc # "down", NEW r \in Rule, r[2] \in Parsed(seen[r[1]]),
                      r \notin todo.add \cup failed \cup respelled
               PROVE  r \in rules /\ (Ready => Redirected(r))
    BY DEF RedirectsComplete
  <2>1. r \in rules
    BY DEF Inv, RulesComplete
  <2>2. family[r[2]] \in Families
    BY ParseAssumption DEF Rule
  <2> QED
    BY <2>1, <2>2 DEF Inv, JumpsReady, Redirected
<1> QED
  BY <1>1, InitInv, NextInv, PTL DEF SafeSpec

\* While the process runs, no rule is without its service, unless its removal
\* is still ahead or failed, or an earlier process left it.
THEOREM RedirectsAreOurs == SafeSpec => []NoForeignRedirects
<1>1. Inv => NoForeignRedirects
  BY DEF Inv
<1> QED
  BY <1>1, InitInv, NextInv, PTL DEF SafeSpec

\* Only Cleanup, and an update that drops another spelling, take a redirect away
\* from an address its service keeps: neither its rule nor the jumps to it.
THEOREM LiveRedirectsStay == SafeSpec => KeepsLiveRedirects
<1> DEFINE Keeps ==
      \A r \in Rule :
        Redirected(r) /\ ~Redirected(r)' =>
          \/ r[2] \notin Parsed(seen[r[1]])
          \/ done /\ pc' = "returned"
          \/ r \in respelled
<1>1. Inv /\ [Next]_vars => [Keeps]_vars
  <2> SUFFICES ASSUME Inv, Next, NEW r \in Rule, Redirected(r), ~Redirected(r)',
                      ~(done /\ pc' = "returned")
               PROVE  r[2] \notin Parsed(seen[r[1]]) \/ r \in respelled
    OBVIOUS
  <2>1. ~(rules \subseteq rules' /\ jumps \subseteq jumps')
    BY DEF Redirected
  <2>2. PICK q \in Work : RemoveIP(q)
    BY <2>1 DEF Next, Write, Main, Prereqs, CacheSynced, CacheSyncFails, Cleanup,
           Exit, Crash, Stop, Signal, Handler, Command, AddIP, Deliver,
           AddFunc, UpdateFunc, DeleteFunc, DeleteFuncTombstone, Handle, kernel
  <2>3. r \in todo.remove /\ seen' = seen
    BY <2>2 DEF RemoveIP, Redirected
  <2> QED
    BY <2>3 DEF Inv, TodoMatchesSeen
<1> QED
  BY <1>1, InitInv, NextInv, PTL DEF SafeSpec, KeepsLiveRedirects
=============================================================================
