--------------------------- MODULE PluginActivation ---------------------------
(***************************************************************************)
(* The lazy-activation controller of the gateway                           *)
(* (gateway/gateway/plugin_activation.py).                                 *)
(*                                                                         *)
(* Any number of threads call ensure_activated for any plugin.  The first  *)
(* one to find a plugin inactive claims it and runs the activate callback  *)
(* outside the lock; the others wait on the plugin's condition and are     *)
(* woken by notify_all.  Each critical section of the controller's single  *)
(* lock is one action; everything a thread does between two critical       *)
(* sections is a step of its own.                                          *)
(***************************************************************************)
EXTENDS Naturals, Sequences

CONSTANTS
    Callers,      \* threads that call ensure_activated
    Plugins,      \* plugin names
    Prefixes,     \* what the text before the first colon of an error strips to
    Blank,        \* the empty such text
    DefaultCode,  \* "activation_failed"
    NoCode,       \* error_code is None
    MayAbort      \* may activate() raise something that is not an Exception?

ASSUME CodesAssumption ==
    /\ Blank \in Prefixes
    /\ DefaultCode \notin Prefixes
    /\ NoCode \notin Prefixes \cup {DefaultCode}
    /\ MayAbort \in BOOLEAN

(* An exception's message, as far as _extract_error_code looks at it. *)
Messages == [colon : BOOLEAN, prefix : Prefixes]

ExtractErrorCode(m) ==
    IF m.colon /\ m.prefix # Blank THEN m.prefix ELSE DefaultCode

Codes == (Prefixes \ {Blank}) \cup {DefaultCode}

Plain(state) == [state |-> state, code |-> NoCode]
Unregistered == Plain("unregistered")     \* no entry in _statuses
Inactive     == Plain("inactive")
Activating   == Plain("activating")
Active       == Plain("active")
Failed(code) == [state |-> "failed", code |-> code]
Aborted      == Plain("aborted")          \* never stored: a run that did not return

Finals   == {Active} \cup {Failed(code) : code \in Codes}
Statuses == {Unregistered, Inactive, Activating} \cup Finals

VARIABLES
    status,    \* _statuses, with Unregistered for a name it has no entry for
    pc,        \* where each thread is in ensure_activated
    target,    \* the plugin_name of the thread's call
    reply,     \* the status the thread is about to store or return
    outcomes,  \* history: how each run of activate() ended, per plugin
    answers    \* history: every status ensure_activated ever returned

vars == <<status, pc, target, reply, outcomes, answers>>

(* A thread is in one of these places:                                      *)
(*   idle        outside the controller                                     *)
(*   checking    about to evaluate the loop body with the lock held         *)
(*   waiting     in condition.wait(): lock released, not notified           *)
(*   activating  has claimed the plugin, is inside activate()               *)
(*   publishing  activate() is over, about to store its outcome             *)
(*   returning   about to return reply to its caller                        *)
Places == {"idle", "checking", "waiting", "activating", "publishing", "returning"}

Move(c, from, to) == pc[c] = from /\ pc' = [pc EXCEPT ![c] = to]

Owns(c, p) == target[c] = p /\ pc[c] \in {"activating", "publishing"}

Init ==
    /\ status = [p \in Plugins |-> Unregistered]
    /\ pc = [c \in Callers |-> "idle"]
    /\ target \in [Callers -> Plugins]
    /\ reply = [c \in Callers |-> Unregistered]
    /\ outcomes = [p \in Plugins |-> <<>>]
    /\ answers = [p \in Plugins |-> {}]

(* Mutant: registering a name overwrites its entry. *)
EnsuredAnew(s) == IF s = Activating THEN s ELSE Inactive

(* _ensure_plugin_locked: a name that has an entry keeps it. *)
Ensured(s) == IF s = Unregistered THEN Inactive ELSE s

RegisterPlugins(names) ==
    /\ \E p \in names : status[p] = Unregistered
    /\ status' = [p \in Plugins |-> IF p \in names THEN Ensured(status[p]) ELSE status[p]]
    /\ UNCHANGED <<pc, target, reply, outcomes, answers>>

Call(c, p) ==
    /\ Move(c, "idle", "checking")
    /\ target' = [target EXCEPT ![c] = p]
    /\ UNCHANGED <<status, reply, outcomes, answers>>

(* ReturnFinal, Claim and Wait: the three ways through the loop body, with  *)
(* the lock held.                                                           *)
(* Mutant: a caller does not wait for a plugin that is activating. *)
ReturnAnyStatus(c) ==
    /\ Move(c, "checking", "returning")
    /\ status[target[c]] \in Finals \cup {Activating}
    /\ reply' = [reply EXCEPT ![c] = status[target[c]]]
    /\ UNCHANGED <<status, target, outcomes, answers>>

ReturnFinal(c) ==
    /\ Move(c, "checking", "returning")
    /\ status[target[c]] \in Finals
    /\ reply' = [reply EXCEPT ![c] = status[target[c]]]
    /\ UNCHANGED <<status, target, outcomes, answers>>

Claim(c) ==
    /\ Move(c, "checking", "activating")
    /\ Ensured(status[target[c]]) = Inactive
    /\ status' = [status EXCEPT ![target[c]] = Activating]
    /\ UNCHANGED <<target, reply, outcomes, answers>>

Wait(c) ==
    /\ Move(c, "checking", "waiting")
    /\ status[target[c]] = Activating
    /\ UNCHANGED <<status, target, reply, outcomes, answers>>

EndRun(c, outcome) ==
    /\ outcomes' = [outcomes EXCEPT ![target[c]] = Append(@, outcome)]
    /\ UNCHANGED <<status, target, answers>>

(* activate() returns, raises an Exception, or raises a BaseException that  *)
(* no handler of ensure_activated catches and that ends the call.           *)
ActivateReturns(c) ==
    /\ Move(c, "activating", "publishing")
    /\ reply' = [reply EXCEPT ![c] = Active]
    /\ EndRun(c, Active)

ActivateRaises(c, m) ==
    /\ Move(c, "activating", "publishing")
    /\ reply' = [reply EXCEPT ![c] = Failed(ExtractErrorCode(m))]
    /\ EndRun(c, Failed(ExtractErrorCode(m)))

ActivateAborts(c) ==
    /\ MayAbort
    /\ Move(c, "activating", "idle")
    /\ EndRun(c, Aborted)
    /\ UNCHANGED reply

Woken(p) == {w \in Callers : pc[w] = "waiting" /\ target[w] = p}

(* Mutant: notify() instead of notify_all(). *)
PublishNotifyOne(c) ==
    /\ pc[c] = "publishing"
    /\ status' = [status EXCEPT ![target[c]] = reply[c]]
    /\ \E woken \in SUBSET Woken(target[c]) :
          /\ (woken = {}) = (Woken(target[c]) = {})
          /\ \A v, w \in woken : v = w
          /\ pc' = [w \in Callers |->
                      IF w = c THEN "returning"
                      ELSE IF w \in woken THEN "checking" ELSE pc[w]]
    /\ UNCHANGED <<target, reply, outcomes, answers>>

(* Store the outcome and notify_all, in one critical section. *)
Publish(c) ==
    /\ pc[c] = "publishing"
    /\ status' = [status EXCEPT ![target[c]] = reply[c]]
    /\ pc' = [w \in Callers |->
                IF w = c THEN "returning"
                ELSE IF w \in Woken(target[c]) THEN "checking"
                ELSE pc[w]]
    /\ UNCHANGED <<target, reply, outcomes, answers>>

Return(c) ==
    /\ Move(c, "returning", "idle")
    /\ answers' = [answers EXCEPT ![target[c]] = @ \cup {reply[c]}]
    /\ UNCHANGED <<status, target, reply, outcomes>>

(* The steps of a call that has been made. *)
Progress(c) ==
    \/ ReturnFinal(c)
    \/ Claim(c)
    \/ Wait(c)
    \/ ActivateReturns(c)
    \/ \E m \in Messages : ActivateRaises(c, m)
    \/ Publish(c)
    \/ Return(c)

Next ==
    \/ \E names \in SUBSET Plugins : RegisterPlugins(names)
    \/ \E c \in Callers :
          \/ \E p \in Plugins : Call(c, p)
          \/ Progress(c)
          \/ ActivateAborts(c)

Spec == Init /\ [][Next]_vars

(* Threads that can run do run, and activate() ends: every wait inside it   *)
(* (the boot of a child process) has a deadline.                            *)
FairSpec == Spec /\ \A c \in Callers : WF_vars(Progress(c))

-------------------------------------------------------------------------------
TypeOK ==
    /\ status \in [Plugins -> Statuses]
    /\ pc \in [Callers -> Places]
    /\ target \in [Callers -> Plugins]
    /\ reply \in [Callers -> Statuses]
    /\ outcomes \in [Plugins -> Seq(Finals \cup {Aborted})]
    /\ answers \in [Plugins -> SUBSET Finals]

(* activate() runs at most once for a plugin in the life of the gateway,    *)
(* counting the run in progress: a setup() that adds routes, or that spawns *)
(* a child, is never done twice, and never after a failure.                 *)
ActivatedAtMostOnce ==
    \A p \in Plugins :
        /\ Len(outcomes[p]) <= 1
        /\ \A c, d \in Callers :
              /\ pc[c] = "activating" /\ target[c] = p
              /\ pc[d] = "activating" /\ target[d] = p
              => c = d /\ outcomes[p] = <<>>

(* Whatever the interleaving, all the callers that were ever answered about *)
(* a plugin were given one and the same status, the outcome of the one run  *)
(* of activate(), and it is the status the controller still stores.         *)
AnswersAgree ==
    \A p \in Plugins : \A s \in answers[p] :
        /\ s = status[p]
        /\ outcomes[p] = <<s>>

(* No wake-up is lost: a thread asleep on a plugin's condition has a thread *)
(* that still owes it the notify_all, unless the run was aborted by an      *)
(* exception that ensure_activated does not catch.                          *)
SleepersHaveAWaker ==
    \A c \in Callers : pc[c] = "waiting" =>
        \/ \E d \in Callers : Owns(d, target[c])
        \/ outcomes[target[c]] = <<Aborted>>

(* A stored status only moves forward, and only to activating from          *)
(* inactive: once active or failed it is retained, whatever is registered   *)
(* or called later.                                                         *)
Rank(s) ==
    IF s \in Finals THEN 3
    ELSE IF s = Activating THEN 2
    ELSE IF s = Inactive THEN 1 ELSE 0

StatusNeverRegresses ==
    [][\A p \in Plugins : status'[p] = status[p] \/ Rank(status'[p]) > Rank(status[p])]_vars

(* Every call returns, whatever becomes of the other plugins, unless the    *)
(* run of its own plugin was aborted by an exception nobody catches.        *)
EveryCallReturns ==
    \A c \in Callers :
        pc[c] # "idle" ~> pc[c] = "idle" \/ outcomes[target[c]] = <<Aborted>>

-------------------------------------------------------------------------------
(* The controller implements a one-shot decision per plugin; a name  *)
(* without an entry is as open as an inactive one.                         *)
Abstract == INSTANCE OneShot WITH
    Askers <- Callers, Questions <- Plugins,
    Open <- Inactive, Running <- Activating, Verdicts <- Finals,
    MayAbandon <- MayAbort,
    decision <- [p \in Plugins |-> Ensured(status[p])],
    asking <- {c \in Callers : pc[c] # "idle"},
    question <- target,
    heard <- answers

(* To its callers the controller is OneShot: each plugin is decided once,   *)
(* and everyone who asks hears that decision.                               *)
ImplementsOneShot == Abstract!Spec
===============================================================================
