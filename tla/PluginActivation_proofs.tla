------------------------ MODULE PluginActivation_proofs ------------------------
(***************************************************************************)
(* Proofs, for any set of threads and plugins, that the activation         *)
(* controller runs activate() at most once per plugin, that all its        *)
(* answers agree, that no sleeping thread is forgotten, that a status only *)
(* moves forward, and that it implements OneShot.                          *)
(***************************************************************************)
EXTENDS PluginActivation, TLAPS

(* Where a thread is tells what is stored about its plugin.                *)
ThreadOK(c) ==
    /\ pc[c] = "waiting" => status[target[c]] = Activating
    /\ pc[c] = "activating" =>
          status[target[c]] = Activating /\ outcomes[target[c]] = <<>>
    /\ pc[c] = "publishing" =>
          /\ status[target[c]] = Activating
          /\ reply[c] \in Finals
          /\ outcomes[target[c]] = <<reply[c]>>
    /\ pc[c] = "returning" => reply[c] \in Finals /\ status[target[c]] = reply[c]

OneOwner == \A c, d \in Callers : \A p \in Plugins : Owns(c, p) /\ Owns(d, p) => c = d

(* What is stored about a plugin tells how its run has gone.               *)
PluginOK(p) ==
    /\ status[p] \in {Unregistered, Inactive} => outcomes[p] = <<>>
    /\ status[p] = Activating =>
          (\E c \in Callers : Owns(c, p)) \/ outcomes[p] = <<Aborted>>
    /\ status[p] \in Finals => outcomes[p] = <<status[p]>>
    /\ \A s \in answers[p] : status[p] = s

IInv ==
    /\ TypeOK
    /\ \A c \in Callers : ThreadOK(c)
    /\ OneOwner
    /\ \A p \in Plugins : PluginOK(p)

(* The stored states are distinct from one another and from every outcome. *)
LEMMA StatusFacts ==
    /\ Statuses = {Unregistered, Inactive, Activating} \cup Finals
    /\ Unregistered # Inactive /\ Unregistered # Activating /\ Inactive # Activating
    /\ {Unregistered, Inactive, Activating, Aborted} \cap Finals = {}
    /\ Active \in Finals
BY DEF Statuses, Finals, Unregistered, Inactive, Activating, Active, Aborted, Plain, Failed

(* Whatever an exception says, _extract_error_code makes a code of it, so  *)
(* a raised error is stored as a well-formed failure.                      *)
LEMMA RaisedIsFinal ==
    ASSUME NEW m \in Messages
    PROVE  Failed(ExtractErrorCode(m)) \in Finals
BY DEF Messages, ExtractErrorCode, Codes, Finals

LEMMA InitIInv == Init => IInv
<1> SUFFICES ASSUME Init PROVE IInv
  OBVIOUS
<1>1. TypeOK
  BY StatusFacts DEF Init, TypeOK, Places
<1>2. (\A c \in Callers : ThreadOK(c)) /\ OneOwner
  BY DEF Init, ThreadOK, OneOwner, Owns
<1>3. \A p \in Plugins : PluginOK(p)
  BY StatusFacts DEF Init, PluginOK
<1> QED BY <1>1, <1>2, <1>3 DEF IInv

(* An ensured status is the stored one, or inactive for a new name.        *)
LEMMA EnsuredFacts ==
    ASSUME NEW s \in Statuses
    PROVE  /\ Ensured(s) \in Statuses
           /\ s \in {Unregistered, Inactive} => Ensured(s) = Inactive
           /\ s \notin {Unregistered, Inactive} => Ensured(s) = s
           /\ Ensured(s) = Inactive => s \in {Unregistered, Inactive}
BY StatusFacts DEF Ensured

LEMMA RegisterKeepsIInv ==
    ASSUME IInv, NEW names \in SUBSET Plugins, RegisterPlugins(names)
    PROVE  IInv'
<1> USE DEF IInv, TypeOK, RegisterPlugins
<1>1. \A p \in Plugins : /\ status[p] \in Statuses
                         /\ status'[p] = status[p] \/ status'[p] = Ensured(status[p])
  OBVIOUS
<1>2. TypeOK'
  BY <1>1, EnsuredFacts
<1>3. \A p \in Plugins :
         /\ status[p] \in {Unregistered, Inactive} <=> status'[p] \in {Unregistered, Inactive}
         /\ status[p] \notin {Unregistered, Inactive} => status'[p] = status[p]
  BY <1>1, EnsuredFacts, StatusFacts
<1>4. (\A c \in Callers : ThreadOK(c))'
  BY <1>3, StatusFacts DEF ThreadOK
<1>5. OneOwner'
  BY DEF OneOwner, Owns
<1>6. (\A p \in Plugins : PluginOK(p))'
  <2> TAKE p \in Plugins
  <2>1. PluginOK(p) /\ answers' = answers /\ outcomes' = outcomes
    OBVIOUS
  <2>2. status[p] \in {Unregistered, Inactive} => answers[p] = {}
    BY <2>1, StatusFacts DEF PluginOK
  <2>3. \A c \in Callers : Owns(c, p)' <=> Owns(c, p)
    BY DEF Owns
  <2> QED BY <1>3, <2>1, <2>2, <2>3, StatusFacts DEF PluginOK
<1> QED BY <1>2, <1>4, <1>5, <1>6

LEMMA CallKeepsIInv ==
    ASSUME IInv, NEW c \in Callers, NEW p \in Plugins, Call(c, p)
    PROVE  IInv'
<1> USE DEF IInv, TypeOK, Call, Move, Places
<1>1. TypeOK'
  OBVIOUS
<1>2. \A d \in Callers, q \in Plugins : Owns(d, q)' <=> Owns(d, q)
  BY DEF Owns
<1>3. (\A d \in Callers : ThreadOK(d))'
  BY DEF ThreadOK
<1>4. OneOwner'
  BY <1>2 DEF OneOwner
<1>5. (\A q \in Plugins : PluginOK(q))'
  BY <1>2 DEF PluginOK
<1> QED BY <1>1, <1>3, <1>4, <1>5

LEMMA ReturnFinalKeepsIInv ==
    ASSUME IInv, NEW c \in Callers, ReturnFinal(c)
    PROVE  IInv'
<1> USE DEF IInv, TypeOK, ReturnFinal, Move, Places
<1>1. TypeOK'
  OBVIOUS
<1>2. \A d \in Callers, q \in Plugins : Owns(d, q)' <=> Owns(d, q)
  BY DEF Owns
<1>3. (\A d \in Callers : ThreadOK(d))'
  BY DEF ThreadOK
<1>4. OneOwner'
  BY <1>2 DEF OneOwner
<1>5. (\A q \in Plugins : PluginOK(q))'
  BY <1>2 DEF PluginOK
<1> QED BY <1>1, <1>3, <1>4, <1>5

(* The claimer becomes the only owner: the plugin had none, for a plugin   *)
(* that has an owner is stored as activating.                              *)
LEMMA ClaimKeepsIInv ==
    ASSUME IInv, NEW c \in Callers, Claim(c)
    PROVE  IInv'
<1> DEFINE q == target[c]
<1> USE DEF IInv, TypeOK, Claim, Move, Places
<1>1. status[q] \in {Unregistered, Inactive}
  BY EnsuredFacts
<1>2. TypeOK'
  BY StatusFacts
<1>3. \A d \in Callers : ~ Owns(d, q)
  BY <1>1, StatusFacts DEF Owns, ThreadOK
<1>4. \A d \in Callers, r \in Plugins : Owns(d, r)' <=> Owns(d, r) \/ (d = c /\ r = q)
  BY DEF Owns
<1>5. OneOwner'
  BY <1>3, <1>4 DEF OneOwner
<1>6. outcomes[q] = <<>> /\ answers[q] = {}
  BY <1>1, StatusFacts DEF PluginOK
<1>7. (\A d \in Callers : ThreadOK(d))'
  BY <1>1, <1>6, StatusFacts DEF ThreadOK
<1>8. (\A r \in Plugins : PluginOK(r))'
  <2> TAKE r \in Plugins
  <2>1. CASE r = q
    BY <2>1, <1>4, <1>6, StatusFacts DEF PluginOK
  <2>2. CASE r # q
    BY <2>2, <1>4 DEF PluginOK
  <2> QED BY <2>1, <2>2
<1> QED BY <1>2, <1>5, <1>7, <1>8

LEMMA WaitKeepsIInv ==
    ASSUME IInv, NEW c \in Callers, Wait(c)
    PROVE  IInv'
<1> USE DEF IInv, TypeOK, Wait, Move, Places
<1>1. TypeOK'
  OBVIOUS
<1>2. \A d \in Callers, q \in Plugins : Owns(d, q)' <=> Owns(d, q)
  BY DEF Owns
<1>3. (\A d \in Callers : ThreadOK(d))'
  BY DEF ThreadOK
<1>4. OneOwner'
  BY <1>2 DEF OneOwner
<1>5. (\A q \in Plugins : PluginOK(q))'
  BY <1>2 DEF PluginOK
<1> QED BY <1>1, <1>3, <1>4, <1>5

(* activate() ends with an outcome for the owner to publish: the thread    *)
(* stays the owner.                                                        *)
LEMMA RunEndKeepsIInv ==
    ASSUME IInv, NEW c \in Callers, NEW o \in Finals,
           Move(c, "activating", "publishing"),
           reply' = [reply EXCEPT ![c] = o],
           EndRun(c, o)
    PROVE  IInv'
<1> DEFINE q == target[c]
<1> USE DEF IInv, TypeOK, EndRun, Move, Places
<1>1. Owns(c, q) /\ status[q] = Activating /\ outcomes[q] = <<>>
  BY DEF ThreadOK, Owns
<1>2. outcomes' = [outcomes EXCEPT ![q] = <<o>>]
  BY <1>1
<1>3. TypeOK'
  BY <1>2, StatusFacts
<1>4. \A d \in Callers, r \in Plugins : Owns(d, r)' <=> Owns(d, r)
  BY DEF Owns
<1>5. OneOwner'
  BY <1>4 DEF OneOwner
<1>6. (\A d \in Callers : ThreadOK(d))'
  <2> TAKE d \in Callers
  <2>1. CASE d = c
    BY <2>1, <1>1, <1>2 DEF ThreadOK
  <2>2. CASE d # c
    <3>1. pc'[d] = pc[d] /\ reply'[d] = reply[d] /\ target'[d] = target[d]
      BY <2>2
    <3>2. CASE target[d] # q
      BY <3>1, <3>2, <1>2 DEF ThreadOK
    <3>3. CASE target[d] = q
      <4>1. ~ Owns(d, q)
        BY <2>2, <1>1 DEF OneOwner
      <4> QED BY <3>1, <3>3, <4>1 DEF ThreadOK, Owns
    <3> QED BY <3>2, <3>3
  <2> QED BY <2>1, <2>2
<1>7. (\A r \in Plugins : PluginOK(r))'
  <2> TAKE r \in Plugins
  <2>1. CASE r = q
    BY <2>1, <1>1, <1>4, StatusFacts DEF PluginOK
  <2>2. CASE r # q
    BY <2>2, <1>2, <1>4 DEF PluginOK
  <2> QED BY <2>1, <2>2
<1> QED BY <1>3, <1>5, <1>6, <1>7

LEMMA AbortKeepsIInv ==
    ASSUME IInv, NEW c \in Callers, ActivateAborts(c)
    PROVE  IInv'
<1> DEFINE q == target[c]
<1> USE DEF IInv, TypeOK, ActivateAborts, EndRun, Move, Places
<1>1. Owns(c, q) /\ status[q] = Activating /\ outcomes[q] = <<>>
  BY DEF ThreadOK, Owns
<1>2. outcomes' = [outcomes EXCEPT ![q] = <<Aborted>>]
  BY <1>1
<1>3. TypeOK'
  BY <1>2
<1>4. \A d \in Callers, r \in Plugins : Owns(d, r)' <=> Owns(d, r) /\ d # c
  BY DEF Owns
<1>5. OneOwner'
  BY <1>4 DEF OneOwner
<1>6. (\A d \in Callers : ThreadOK(d))'
  <2> TAKE d \in Callers
  <2>1. CASE d = c
    BY <2>1 DEF ThreadOK
  <2>2. CASE d # c
    <3>1. ~ Owns(d, q)
      BY <2>2, <1>1 DEF OneOwner
    <3> QED BY <2>2, <3>1, <1>2 DEF ThreadOK, Owns
  <2> QED BY <2>1, <2>2
<1>7. (\A r \in Plugins : PluginOK(r))'
  <2> TAKE r \in Plugins
  <2>1. CASE r = q
    BY <2>1, <1>1, <1>2, StatusFacts DEF PluginOK
  <2>2. CASE r # q
    <3>1. ~ Owns(c, r)
      BY <2>2 DEF Owns
    <3> QED BY <2>2, <3>1, <1>2, <1>4 DEF PluginOK
  <2> QED BY <2>1, <2>2
<1> QED BY <1>3, <1>5, <1>6, <1>7

(* Publishing ends the ownership and leaves nobody asleep on the plugin.   *)
LEMMA PublishKeepsIInv ==
    ASSUME IInv, NEW c \in Callers, Publish(c)
    PROVE  IInv'
<1> DEFINE q == target[c]
<1> USE DEF IInv, TypeOK, Publish, Woken
<1>1. Owns(c, q) /\ status[q] = Activating /\ reply[c] \in Finals /\ outcomes[q] = <<reply[c]>>
  BY DEF ThreadOK, Owns
<1>2. TypeOK'
  BY <1>1, StatusFacts DEF Places
<1>3. \A d \in Callers, r \in Plugins : Owns(d, r)' <=> Owns(d, r) /\ d # c
  BY DEF Owns
<1>4. OneOwner'
  BY <1>3 DEF OneOwner
<1>5. (\A d \in Callers : ThreadOK(d))'
  <2> TAKE d \in Callers
  <2>1. CASE d = c
    BY <2>1, <1>1 DEF ThreadOK
  <2>2. CASE d # c /\ target[d] = q
    <3>1. ~ Owns(d, q)
      BY <2>2, <1>1 DEF OneOwner
    <3>2. pc[d] # "returning"
      BY <2>2, <1>1, StatusFacts DEF ThreadOK
    <3>3. pc'[d] \notin {"waiting", "activating", "publishing", "returning"}
      BY <2>2, <3>1, <3>2 DEF Owns
    <3> QED BY <3>3 DEF ThreadOK
  <2>3. CASE d # c /\ target[d] # q
    BY <2>3 DEF ThreadOK
  <2> QED BY <2>1, <2>2, <2>3
<1>6. (\A r \in Plugins : PluginOK(r))'
  <2> TAKE r \in Plugins
  <2>1. CASE r = q
    <3>1. answers[q] = {}
      BY <1>1, StatusFacts DEF PluginOK
    <3> QED BY <2>1, <3>1, <1>1, StatusFacts DEF PluginOK
  <2>2. CASE r # q
    <3>1. ~ Owns(c, r)
      BY <2>2 DEF Owns
    <3> QED BY <2>2, <3>1, <1>3 DEF PluginOK
  <2> QED BY <2>1, <2>2
<1> QED BY <1>2, <1>4, <1>5, <1>6

LEMMA ReturnKeepsIInv ==
    ASSUME IInv, NEW c \in Callers, Return(c)
    PROVE  IInv'
<1> USE DEF IInv, TypeOK, Return, Move, Places
<1>1. reply[c] \in Finals /\ status[target[c]] = reply[c]
  BY DEF ThreadOK
<1>2. TypeOK'
  BY <1>1
<1>3. \A d \in Callers, q \in Plugins : Owns(d, q)' <=> Owns(d, q)
  BY DEF Owns
<1>4. (\A d \in Callers : ThreadOK(d))'
  BY DEF ThreadOK
<1>5. OneOwner'
  BY <1>3 DEF OneOwner
<1>6. (\A q \in Plugins : PluginOK(q))'
  BY <1>1, <1>3 DEF PluginOK
<1> QED BY <1>2, <1>4, <1>5, <1>6

LEMMA NextKeepsIInv == IInv /\ [Next]_vars => IInv'
<1> SUFFICES ASSUME IInv, [Next]_vars PROVE IInv'
  OBVIOUS
<1>1. CASE UNCHANGED vars
  BY <1>1 DEF vars, IInv, TypeOK, ThreadOK, OneOwner, Owns, PluginOK
<1>2. ASSUME NEW names \in SUBSET Plugins, RegisterPlugins(names) PROVE IInv'
  BY <1>2, RegisterKeepsIInv
<1>3. ASSUME NEW c \in Callers, NEW p \in Plugins, Call(c, p) PROVE IInv'
  BY <1>3, CallKeepsIInv
<1>4. ASSUME NEW c \in Callers, Progress(c) PROVE IInv'
  <2>1. CASE ReturnFinal(c)
    BY <2>1, ReturnFinalKeepsIInv
  <2>2. CASE Claim(c)
    BY <2>2, ClaimKeepsIInv
  <2>3. CASE Wait(c)
    BY <2>3, WaitKeepsIInv
  <2>4. CASE ActivateReturns(c)
    BY <2>4, StatusFacts, RunEndKeepsIInv DEF ActivateReturns
  <2>5. ASSUME NEW m \in Messages, ActivateRaises(c, m) PROVE IInv'
    BY <2>5, RaisedIsFinal, RunEndKeepsIInv DEF ActivateRaises
  <2>6. CASE Publish(c)
    BY <2>6, PublishKeepsIInv
  <2>7. CASE Return(c)
    BY <2>7, ReturnKeepsIInv
  <2> QED BY <1>4, <2>1, <2>2, <2>3, <2>4, <2>5, <2>6, <2>7 DEF Progress
<1>5. ASSUME NEW c \in Callers, ActivateAborts(c) PROVE IInv'
  BY <1>5, AbortKeepsIInv
<1> QED BY <1>1, <1>2, <1>3, <1>4, <1>5 DEF Next

(* The strengthened invariant holds in every reachable state, for any sets *)
(* of threads and plugins.                                                 *)
THEOREM Invariance == Spec => []IInv
<1>1. Init => IInv
  BY InitIInv
<1>2. IInv /\ [Next]_vars => IInv'
  BY NextKeepsIInv
<1> QED BY <1>1, <1>2, PTL DEF Spec

(* Type correctness of the controller's state.                             *)
THEOREM TypeCorrect == Spec => []TypeOK
<1>1. IInv => TypeOK
  BY DEF IInv
<1> QED BY <1>1, Invariance, PTL

(* No plugin's activate() ever runs twice, or in two threads at once.      *)
THEOREM AtMostOnce == Spec => []ActivatedAtMostOnce
<1>1. IInv => ActivatedAtMostOnce
  <2> SUFFICES ASSUME IInv, NEW p \in Plugins
               PROVE  /\ Len(outcomes[p]) <= 1
                      /\ \A c, d \in Callers :
                            /\ pc[c] = "activating" /\ target[c] = p
                            /\ pc[d] = "activating" /\ target[d] = p
                            => c = d /\ outcomes[p] = <<>>
    BY DEF ActivatedAtMostOnce
  <2>1. PluginOK(p) /\ status[p] \in Statuses
    BY DEF IInv, TypeOK
  <2>2. outcomes[p] = <<>> \/ \E s \in Finals \cup {Aborted} : outcomes[p] = <<s>>
    <3>1. CASE status[p] \in {Unregistered, Inactive} \cup Finals
      BY <2>1, <3>1 DEF PluginOK
    <3>2. ASSUME status[p] = Activating, NEW c \in Callers, Owns(c, p)
          PROVE  outcomes[p] = <<>> \/ \E s \in Finals : outcomes[p] = <<s>>
      BY <3>2 DEF IInv, ThreadOK, Owns
    <3> QED BY <2>1, <3>1, <3>2, StatusFacts DEF PluginOK
  <2>3. Len(outcomes[p]) <= 1
    <3>1. CASE outcomes[p] = <<>>
      BY <3>1
    <3>2. ASSUME NEW s \in Finals \cup {Aborted}, outcomes[p] = <<s>>
          PROVE  Len(outcomes[p]) <= 1
      BY <3>2
    <3> QED BY <2>2, <3>1, <3>2
  <2> QED BY <2>3 DEF IInv, OneOwner, Owns, ThreadOK
<1> QED BY <1>1, Invariance, PTL

(* All the answers ever given about a plugin are the outcome of its one    *)
(* run, and that is what the controller still stores.                      *)
THEOREM Agreement == Spec => []AnswersAgree
<1>1. IInv => AnswersAgree
  BY DEF IInv, TypeOK, PluginOK, AnswersAgree
<1> QED BY <1>1, Invariance, PTL

(* A sleeping thread is owed a notify_all by a thread that has not given   *)
(* up.                                                                     *)
THEOREM NoLostWakeup == Spec => []SleepersHaveAWaker
<1>1. IInv => SleepersHaveAWaker
  BY DEF IInv, TypeOK, ThreadOK, PluginOK, SleepersHaveAWaker
<1> QED BY <1>1, Invariance, PTL

(* A stored status is never taken back: active and failed are retained.    *)
THEOREM Monotone == Spec => StatusNeverRegresses
<1>1. IInv /\ [Next]_vars =>
        [\A p \in Plugins : status'[p] = status[p] \/ Rank(status'[p]) > Rank(status[p])]_vars
  <2> SUFFICES ASSUME IInv, [Next]_vars, NEW p \in Plugins, status'[p] # status[p]
               PROVE  Rank(status'[p]) > Rank(status[p])
    OBVIOUS
  <2>1. Rank(Unregistered) = 0 /\ Rank(Inactive) = 1 /\ Rank(Activating) = 2
    BY StatusFacts DEF Rank
  <2>2. \A s \in Finals : Rank(s) = 3
    BY DEF Rank
  <2>3. status[p] \in Statuses /\ Unregistered \in Statuses
    BY StatusFacts DEF IInv, TypeOK
  <2>4. ASSUME NEW names \in SUBSET Plugins, RegisterPlugins(names)
        PROVE  Rank(status'[p]) > Rank(status[p])
    <3>1. status[p] = Unregistered /\ status'[p] = Inactive
      BY <2>4 DEF RegisterPlugins, Ensured, IInv, TypeOK
    <3> QED BY <3>1, <2>1
  <2>5. ASSUME NEW c \in Callers, Claim(c)
        PROVE  Rank(status'[p]) > Rank(status[p])
    <3>1. status[p] \in {Unregistered, Inactive} /\ status'[p] = Activating
      BY <2>3, <2>5, EnsuredFacts DEF Claim, IInv, TypeOK
    <3> QED BY <3>1, <2>1
  <2>6. ASSUME NEW c \in Callers, Publish(c)
        PROVE  Rank(status'[p]) > Rank(status[p])
    <3>1. status[p] = Activating /\ status'[p] \in Finals
      BY <2>6 DEF Publish, IInv, TypeOK, ThreadOK
    <3> QED BY <3>1, <2>1, <2>2
  <2> QED
    BY <2>4, <2>5, <2>6
    DEF Next, vars, Progress, Call, ReturnFinal, Wait, ActivateReturns, ActivateRaises,
        ActivateAborts, EndRun, Return
<1> QED BY <1>1, Invariance, PTL DEF Spec, StatusNeverRegresses

(* The controller implements OneShot: every step of a thread is a step of  *)
(* the abstract decision or a stutter.                                     *)
THEOREM Refinement == Spec => ImplementsOneShot
<1>1. Init => Abstract!Init
  BY StatusFacts DEF Init, Abstract!Init, Ensured
<1>2. IInv /\ [Next]_vars => [Abstract!Next]_Abstract!vars
  <2> SUFFICES ASSUME IInv, [Next]_vars PROVE [Abstract!Next]_Abstract!vars
    OBVIOUS
  <2> USE DEF IInv, TypeOK, Places
  <2>1. ASSUME NEW names \in SUBSET Plugins, RegisterPlugins(names)
        PROVE  UNCHANGED Abstract!vars
    <3>1. \A p \in Plugins : Ensured(status'[p]) = Ensured(status[p])
      BY <2>1, StatusFacts DEF RegisterPlugins, Ensured
    <3> QED BY <3>1, <2>1 DEF RegisterPlugins, Abstract!vars
  <2>2. ASSUME NEW c \in Callers, NEW p \in Plugins, Call(c, p)
        PROVE  Abstract!Ask(c, p)
    BY <2>2 DEF Call, Move, Abstract!Ask
  <2>3. ASSUME NEW c \in Callers, Claim(c) PROVE Abstract!Begin(c)
    <3>1. Ensured(Activating) = Activating
      BY StatusFacts DEF Ensured
    <3> QED BY <2>3, <3>1 DEF Claim, Move, Abstract!Begin
  <2>4. ASSUME NEW c \in Callers,
               ReturnFinal(c) \/ Wait(c) \/ ActivateReturns(c)
               \/ \E m \in Messages : ActivateRaises(c, m)
        PROVE  UNCHANGED Abstract!vars
    BY <2>4 DEF ReturnFinal, Wait, ActivateReturns, ActivateRaises, EndRun, Move, Abstract!vars
  <2>5. ASSUME NEW c \in Callers, Publish(c)
        PROVE  Abstract!Decide(target[c], reply[c])
    <3>1. status[target[c]] = Activating /\ reply[c] \in Finals
      BY <2>5 DEF Publish, ThreadOK
    <3>2. Ensured(Activating) = Activating /\ Ensured(reply[c]) = reply[c]
      BY <3>1, StatusFacts DEF Ensured
    <3> QED BY <2>5, <3>1, <3>2 DEF Publish, Woken, Abstract!Decide
  <2>6. ASSUME NEW c \in Callers, Return(c) PROVE Abstract!Answer(c)
    <3>1. reply[c] \in Finals /\ status[target[c]] = reply[c]
      BY <2>6 DEF Return, Move, ThreadOK
    <3>2. Ensured(reply[c]) = reply[c]
      BY <3>1, StatusFacts DEF Ensured
    <3> QED BY <2>6, <3>1, <3>2 DEF Return, Move, Abstract!Answer
  <2>7. ASSUME NEW c \in Callers, ActivateAborts(c) PROVE Abstract!Abandon(c)
    <3>1. Ensured(status[target[c]]) = Activating
      BY <2>7, StatusFacts DEF ActivateAborts, Move, ThreadOK, Ensured
    <3> QED BY <2>7, <3>1 DEF ActivateAborts, Move, EndRun, Abstract!Abandon
  <2>8. CASE UNCHANGED vars
    BY <2>8 DEF vars, Abstract!vars
  <2>9. ASSUME NEW c \in Callers, Publish(c) PROVE Abstract!Next
    <3>1. target[c] \in Plugins /\ reply[c] \in Finals
      BY <2>9 DEF Publish, ThreadOK
    <3> QED BY <2>5, <2>9, <3>1 DEF Abstract!Next
  <2> QED BY <2>1, <2>2, <2>3, <2>4, <2>6, <2>7, <2>8, <2>9 DEF Next, Progress, Abstract!Next
<1> QED BY <1>1, <1>2, Invariance, PTL DEF Spec, ImplementsOneShot, Abstract!Spec
===============================================================================
