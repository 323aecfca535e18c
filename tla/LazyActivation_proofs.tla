------------------------- MODULE LazyActivation_proofs -------------------------
(***************************************************************************)
(* Proofs, for any plugins, requests and ports, of the safety of the lazy  *)
(* activation and of its implementation of OneShot.                        *)
(***************************************************************************)
EXTENDS LazyActivation, TLAPS

(* The request that keeps the loop is the only one whose plugin is being   *)
(* activated, and its step tells how far that is.                          *)
LoopOK ==
    /\ loop = Nobody <=> step = "none"
    /\ loop # Nobody => pc[loop] = "arrived"
    /\ step = "over" => status[Current] \in Finals
    /\ step = "setup" => Current \notin OutOfProcess
    /\ step \in {"reserve", "spawn", "poll", "ask", "register"} => Current \in OutOfProcess
    /\ step \notin {"none", "over"} => status[Current] = "activating"
    /\ step = "ask" => polls > 0
    /\ \A p \in Plugins :
          status[p] = "activating" => step \notin {"none", "over"} /\ p = Current

(* A plugin's process keeps the port it was given as long as it serves, and *)
(* is spawned only after the port was reserved, once.                      *)
ChildrenOK ==
    /\ \A n \in Ports : bound[n] \in Plugins =>
          child[bound[n]] = "serving" /\ port[bound[n]] = n
    /\ \A p \in Plugins :
          /\ child[p] # "none" => port[p] \in Ports
          /\ child[p] = "serving" => bound[port[p]] = p
          /\ status[p] = "inactive" => child[p] = "none"
          /\ step \in {"setup", "reserve", "spawn"} /\ p = Current => child[p] = "none"
          /\ step = "spawn" /\ p = Current => port[p] \in Ports
          /\ step \in {"poll", "ask", "register"} /\ p = Current => child[p] # "none"
          /\ p \in OutOfProcess /\ status[p] = "active" => child[p] # "none"

LInv ==
    /\ TypeOK
    /\ LoopOK
    /\ ChildrenOK
    /\ ProxyMeansActive
    /\ RefusedForGood

(* The names for "nothing" and for a stranger are not those of anything else. *)
LEMMA NameFacts ==
    /\ OutOfProcess \subseteq Plugins
    /\ Nobody \notin Plugins /\ Nobody \notin Ports /\ Nobody \notin Requests
    /\ Stranger \notin Plugins /\ Stranger # Nobody
    /\ BootPolls \in Nat \ {0}
BY LazyAssumption

LEMMA PollFacts ==
    /\ 0 \in 0 .. BootPolls /\ BootPolls \in 0 .. BootPolls
    /\ \A n \in 0 .. BootPolls : n > 0 => n - 1 \in 0 .. BootPolls
BY NameFacts

LEMMA InitLInv == Init => LInv
BY NameFacts, PollFacts
DEF Init, LInv, TypeOK, LoopOK, ChildrenOK, ProxyMeansActive, RefusedForGood, Statuses, Finals,
    Failures, Steps, Childs, Places, Replies, Current

-------------------------------------------------------------------------------
(* The requests. *)
LEMMA ArriveKeepsLInv ==
    ASSUME LInv, NEW r \in Requests, NEW p \in Plugins, Arrive(r, p)
    PROVE  LInv'
<1> USE DEF LInv, TypeOK, Arrive, boot, procs, Places
<1>1. TypeOK'
  OBVIOUS
<1>2. loop' = loop /\ step' = step /\ (loop # Nobody => target'[loop] = target[loop] /\ pc'[loop] = pc[loop])
  BY DEF LoopOK
<1>3. LoopOK'
  BY <1>2 DEF LoopOK, Current
<1>4. ChildrenOK'
  BY <1>2 DEF LoopOK, ChildrenOK, Current
<1>5. ProxyMeansActive' /\ RefusedForGood'
  BY DEF ProxyMeansActive, RefusedForGood
<1> QED BY <1>1, <1>3, <1>4, <1>5

LEMMA BeginKeepsLInv ==
    ASSUME LInv, NEW r \in Requests, Begin(r)
    PROVE  LInv'
<1> USE NameFacts DEF LInv, TypeOK, Begin, procs
<1>1. TypeOK'
  BY DEF Statuses, Steps
<1>2. loop' = r /\ r # Nobody /\ target' = target /\ step = "none"
  BY DEF LoopOK
<1>3. LoopOK'
  BY <1>2 DEF LoopOK, Current, Finals
<1>4. ChildrenOK'
  BY <1>2 DEF ChildrenOK, Current
<1>5. ProxyMeansActive' /\ RefusedForGood'
  BY DEF ProxyMeansActive, RefusedForGood, Failures
<1> QED BY <1>1, <1>3, <1>4, <1>5

LEMMA AnswerKeepsLInv ==
    ASSUME LInv, NEW r \in Requests, Refuse(r) \/ Admit(r)
    PROVE  LInv'
<1> USE NameFacts DEF LInv, TypeOK, Refuse, Admit, Decided, Hear, Release, procs
<1>1. TypeOK'
  <2>1. answers' \in [Plugins -> SUBSET Finals]
    BY DEF Finals
  <2>2. pc' \in [Requests -> Places] /\ reply' \in [Requests -> Replies]
    BY DEF Places, Replies
  <2>3. loop' \in Requests \cup {Nobody} /\ step' \in Steps /\ polls' \in 0 .. BootPolls
    BY PollFacts DEF Steps
  <2>4. UNCHANGED <<status, routes, port, child, bound, target>>
    OBVIOUS
  <2> QED BY <2>1, <2>2, <2>3, <2>4
<1>2. step \in {"none", "over"} /\ loop' = Nobody /\ step' = "none" /\ target' = target
  BY DEF LoopOK
<1>3. LoopOK'
  BY <1>2 DEF LoopOK, Current
<1>4. ChildrenOK'
  BY <1>2 DEF ChildrenOK
<1>5. ProxyMeansActive' /\ RefusedForGood'
  BY DEF ProxyMeansActive, RefusedForGood, Failures
<1> QED BY <1>1, <1>3, <1>4, <1>5

LEMMA HandleKeepsLInv ==
    ASSUME LInv, NEW r \in Requests, Handle(r)
    PROVE  LInv'
<1> USE NameFacts DEF LInv, TypeOK, Handle, boot, procs
<1>1. TypeOK'
  BY DEF Places, Replies
<1>2. LoopOK' /\ ChildrenOK'
  BY DEF LoopOK, ChildrenOK, Current
<1>3. ProxyMeansActive' /\ RefusedForGood'
  BY DEF ProxyMeansActive, RefusedForGood
<1> QED BY <1>1, <1>2, <1>3

-------------------------------------------------------------------------------
(* The activation that keeps the loop: a step that does not decide it, ...  *)
LEMMA KeepingKeepsLInv ==
    ASSUME LInv, Reserve \/ Spawn \/ FindRunning \/ FindHealthy \/ PollAgain
    PROVE  LInv'
<1> USE NameFacts DEF LInv, TypeOK, At
<1>1. /\ loop \in Requests /\ Current \in OutOfProcess /\ status[Current] = "activating"
      /\ Current' = Current
  BY DEF LoopOK, Current, Reserve, Spawn, FindRunning, FindHealthy, PollAgain, procs
<1>2. TypeOK'
  <2>1. ASSUME Reserve \/ Spawn PROVE TypeOK'
    BY <1>1, <2>1, PollFacts DEF Steps, Childs, Reserve, Spawn, procs
  <2>2. ASSUME FindRunning \/ FindHealthy PROVE TypeOK'
    BY <1>1, <2>2 DEF Steps, FindRunning, FindHealthy, procs
  <2>3. ASSUME PollAgain PROVE TypeOK'
    <3>1. polls' \in 0 .. BootPolls
      BY <2>3, PollFacts DEF LoopOK, PollAgain
    <3> QED BY <1>1, <2>3, <3>1 DEF Steps, PollAgain, procs
  <2> QED BY <2>1, <2>2, <2>3
<1>3. LoopOK'
  BY <1>1 DEF LoopOK, Reserve, Spawn, FindRunning, FindHealthy, PollAgain, procs
<1>4. ASSUME Reserve PROVE ChildrenOK'
  BY <1>1, <1>4 DEF ChildrenOK, Reserve, procs
<1>5. ASSUME Spawn PROVE ChildrenOK'
  BY <1>1, <1>5 DEF ChildrenOK, Spawn
<1>6. ASSUME FindRunning \/ FindHealthy \/ PollAgain PROVE ChildrenOK'
  BY <1>1, <1>6 DEF ChildrenOK, FindRunning, FindHealthy, PollAgain, procs
<1>7. ProxyMeansActive' /\ RefusedForGood'
  BY DEF ProxyMeansActive, RefusedForGood, Reserve, Spawn, FindRunning, FindHealthy, PollAgain, procs
<1> QED BY <1>2, <1>3, <1>4, <1>5, <1>6, <1>7

(* ... and one that does.                                                   *)
Concluding(s) ==
    /\ loop # Nobody /\ step \notin {"none", "over"}
    /\ Conclude(s)
    /\ IF s = "active" THEN routes' = routes \cup {Current} /\ step \in {"setup", "register"}
                       ELSE \/ routes' = routes
                            \/ step = "setup" /\ routes' = routes \cup {Current}

LEMMA ConcludingKeepsLInv ==
    ASSUME LInv, NEW s \in Finals, Concluding(s)
    PROVE  LInv'
<1> USE NameFacts DEF LInv, TypeOK, Concluding, Conclude, procs
<1>1. /\ loop \in Requests /\ Current \in Plugins /\ status[Current] = "activating"
      /\ Current' = Current
  BY DEF LoopOK, Current
<1>2. TypeOK'
  BY <1>1 DEF Steps, Statuses
<1>3. LoopOK'
  BY <1>1 DEF LoopOK, Finals, Failures
<1>4. \A p \in Plugins : p # Current => status'[p] = status[p]
  OBVIOUS
<1>5. status'[Current] = s /\ s # "inactive"
  BY <1>1 DEF Finals, Failures
<1>6. ChildrenOK'
  BY <1>1, <1>4, <1>5 DEF ChildrenOK, LoopOK
<1>7. ProxyMeansActive'
  BY <1>1, <1>4, <1>5 DEF ProxyMeansActive, LoopOK
<1>8. RefusedForGood'
  BY <1>1, <1>4 DEF RefusedForGood, Failures
<1> QED BY <1>2, <1>3, <1>6, <1>7, <1>8

LEMMA DecidingSteps ==
    ASSUME SetupReturns \/ SetupRaises \/ ReserveRaises \/ SpawnRaises \/ FindExited
           \/ FindRefused \/ BootTimesOut \/ RegisterProxy
    PROVE  \E s \in Finals : Concluding(s)
<1> USE DEF Concluding, At, Finals, Failures
<1>1. ASSUME SetupReturns \/ RegisterProxy PROVE Concluding("active")
  BY <1>1 DEF SetupReturns, RegisterProxy
<1>2. ASSUME SetupRaises PROVE Concluding("activation_failed")
  <2>1. PICK added \in SUBSET {Current} : routes' = routes \cup added
    BY <1>2 DEF SetupRaises
  <2>2. added = {} \/ added = {Current}
    OBVIOUS
  <2> QED BY <1>2, <2>1, <2>2 DEF SetupRaises
<1>3. ASSUME ReserveRaises \/ SpawnRaises PROVE Concluding("activation_failed")
  BY <1>3 DEF ReserveRaises, SpawnRaises
<1>4. ASSUME FindExited PROVE Concluding("process_exited")
  BY <1>4 DEF FindExited
<1>5. ASSUME FindRefused PROVE Concluding("auth_failed")
  BY <1>5 DEF FindRefused
<1>6. ASSUME BootTimesOut PROVE Concluding("boot_timeout")
  BY <1>6 DEF BootTimesOut
<1>7. {"active", "activation_failed", "process_exited", "auth_failed", "boot_timeout"} \subseteq Finals
  OBVIOUS
<1> QED BY <1>1, <1>2, <1>3, <1>4, <1>5, <1>6, <1>7

-------------------------------------------------------------------------------
(* The processes. *)
LEMMA ProcessKeepsLInv ==
    ASSUME LInv,
           \/ \E p \in OutOfProcess : ChildBinds(p) \/ ChildEnds(p)
           \/ \E n \in Ports : StrangerBinds(n) \/ StrangerLeaves(n)
    PROVE  LInv'
<1> USE NameFacts DEF LInv, TypeOK, boot
<1>1. UNCHANGED <<status, answers, boot, routes, port, pc, target, reply>>
  BY DEF ChildBinds, ChildEnds, StrangerBinds, StrangerLeaves
<1>2. LoopOK' /\ ProxyMeansActive' /\ RefusedForGood' /\ Current' = Current
  BY <1>1 DEF LoopOK, ProxyMeansActive, RefusedForGood, Current
<1>3. ASSUME NEW p \in OutOfProcess, ChildBinds(p) PROVE TypeOK' /\ ChildrenOK'
  BY <1>1, <1>2, <1>3 DEF ChildBinds, ChildrenOK, Childs
<1>4. ASSUME NEW p \in OutOfProcess, ChildEnds(p) PROVE TypeOK' /\ ChildrenOK'
  <2>1. TypeOK'
    BY <1>1, <1>4 DEF ChildEnds, Childs
  <2>2. /\ \A n \in Ports : bound'[n] \in Plugins => bound'[n] = bound[n] /\ bound[n] # p
        /\ \A q \in Plugins : q # p => child'[q] = child[q]
        /\ \A q \in Plugins : q # p /\ child[q] = "serving" => bound'[port[q]] = q
        /\ child'[p] = "ended" /\ child[p] # "none"
    BY <1>4 DEF ChildEnds, ChildrenOK
  <2> QED BY <1>1, <1>2, <2>1, <2>2 DEF ChildrenOK
<1>5. ASSUME NEW n \in Ports, StrangerBinds(n) \/ StrangerLeaves(n) PROVE TypeOK' /\ ChildrenOK'
  BY <1>1, <1>2, <1>5 DEF StrangerBinds, StrangerLeaves, ChildrenOK
<1> QED BY <1>2, <1>3, <1>4, <1>5

LEMMA NextLInv == LInv /\ [Next]_vars => LInv'
<1> SUFFICES ASSUME LInv, [Next]_vars PROVE LInv'
  OBVIOUS
<1>1. CASE UNCHANGED vars
  BY <1>1 DEF vars, boot, procs, LInv, TypeOK, LoopOK, ChildrenOK, ProxyMeansActive,
              RefusedForGood, Current
<1>2. ASSUME Activation PROVE LInv'
  BY <1>2, KeepingKeepsLInv, DecidingSteps, ConcludingKeepsLInv DEF Activation
<1> QED
  BY <1>1, <1>2, ArriveKeepsLInv, BeginKeepsLInv, AnswerKeepsLInv, HandleKeepsLInv,
     ProcessKeepsLInv DEF Next, Dispatch

THEOREM LazyInvariance == Spec => []LInv
BY InitLInv, NextLInv, PTL DEF Spec

-------------------------------------------------------------------------------
(* Type correctness of the middleware, the boot and the processes.          *)
THEOREM TypeCorrect == Spec => []TypeOK
<1>1. LInv => TypeOK
  BY DEF LInv
<1> QED BY <1>1, LazyInvariance, PTL

(* The proxy of an out-of-process plugin is in the app exactly when the     *)
(* plugin is active, at whatever point its boot failed.                     *)
THEOREM ProxyIffActive == Spec => []ProxyMeansActive
<1>1. LInv => ProxyMeansActive
  BY DEF LInv
<1> QED BY <1>1, LazyInvariance, PTL

(* Requests get through to active plugins only, and a refusal is final.     *)
THEOREM RefusalIsFinal == Spec => []RefusedForGood
<1>1. LInv => RefusedForGood
  BY DEF LInv
<1> QED BY <1>1, LazyInvariance, PTL

(* The middleware implements OneShot: each plugin is activated at most      *)
(* once and every request acts on that outcome.                             *)
THEOREM LazyRefinement == Spec => ImplementsOneShot
<1>1. Init => Abstract!Init
  BY DEF Init, Abstract!Init
<1>2. LInv /\ [Next]_vars => [Abstract!Next]_Abstract!vars
  <2> SUFFICES ASSUME LInv, [Next]_vars PROVE [Abstract!Next]_Abstract!vars
    OBVIOUS
  <2> USE DEF LInv, TypeOK
  <2>1. ASSUME NEW r \in Requests, NEW p \in Plugins, Arrive(r, p)
        PROVE  Abstract!Ask(r, p)
    BY <2>1 DEF Arrive, Abstract!Ask
  <2>2. ASSUME NEW r \in Requests, Begin(r) PROVE Abstract!Begin(r)
    BY <2>2 DEF Begin, Abstract!Begin
  <2>3. ASSUME NEW r \in Requests, Refuse(r) \/ Admit(r) PROVE Abstract!Answer(r)
    BY <2>3 DEF Refuse, Admit, Decided, Hear, Abstract!Answer
  <2>4. ASSUME NEW r \in Requests, Handle(r) PROVE UNCHANGED Abstract!vars
    BY <2>4 DEF Handle, Abstract!vars
  <2>5. ASSUME Reserve \/ Spawn \/ FindRunning \/ FindHealthy \/ PollAgain PROVE UNCHANGED Abstract!vars
    BY <2>5 DEF Reserve, Spawn, FindRunning, FindHealthy, PollAgain, Abstract!vars
  <2>6. ASSUME NEW s \in Finals, Concluding(s)
        PROVE  Current \in Plugins /\ Abstract!Decide(Current, s)
    BY <2>6 DEF Concluding, Conclude, LoopOK, Current, Abstract!Decide
  <2>7. ASSUME \/ \E p \in OutOfProcess : ChildBinds(p) \/ ChildEnds(p)
               \/ \E n \in Ports : StrangerBinds(n) \/ StrangerLeaves(n)
        PROVE  UNCHANGED Abstract!vars
    BY <2>7 DEF ChildBinds, ChildEnds, StrangerBinds, StrangerLeaves, Abstract!vars
  <2>8. CASE UNCHANGED vars
    BY <2>8 DEF vars, Abstract!vars
  <2>9. ASSUME Activation PROVE [Abstract!Next]_Abstract!vars
    BY <2>5, <2>6, <2>9, DecidingSteps DEF Activation, Abstract!Next
  <2> QED BY <2>1, <2>2, <2>3, <2>4, <2>7, <2>8, <2>9 DEF Next, Dispatch, Abstract!Next
<1> QED BY <1>1, <1>2, LazyInvariance, PTL DEF Spec, ImplementsOneShot, Abstract!Spec
===============================================================================
