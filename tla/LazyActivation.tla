---------------------------- MODULE LazyActivation ----------------------------
(***************************************************************************)
(* The lazy-activation middleware and the boot of out-of-process plugins   *)
(* (gateway/gateway/plugin_loader.py).                                     *)
(*                                                                         *)
(* The middleware runs on the gateway's event loop and calls               *)
(* ensure_activated there: while a plugin is activated, nothing else of    *)
(* the loop runs.  The plugins' processes do run: a port that was reserved *)
(* and released for a child may be taken by another child, one of a plugin *)
(* that has failed for instance, or by a stranger.                         *)
(***************************************************************************)
EXTENDS Naturals, FiniteSets

CONSTANTS
    Plugins,       \* the plugins discovered, by name
    OutOfProcess,  \* those with execution_mode out_of_process
    Requests,      \* requests under a plugin's prefix that may be in progress
    Ports,         \* loopback ports
    Nobody,        \* no process, no port, no request
    Stranger,      \* a process that is no plugin
    BootPolls,     \* how many times health is polled before the boot timeout
    MaxActive      \* out_of_process_max_active_plugins

ASSUME LazyAssumption ==
    /\ OutOfProcess \subseteq Plugins
    /\ {Nobody, Stranger} \cap (Plugins \cup Ports \cup Requests) = {}
    /\ Nobody # Stranger
    /\ BootPolls \in Nat \ {0}
    /\ MaxActive \in Nat \ {0}

VARIABLES
    status,   \* the controller's status of each plugin, a failure by its code
    answers,  \* history: every final status the middleware has acted on
    loop,     \* the request whose activation keeps the event loop, or Nobody
    step,     \* how far that activation is
    polls,    \* health polls left before the boot timeout
    routes,   \* the plugins whose routes are in the app
    port,     \* the port each out-of-process plugin was given
    child,    \* the process of each out-of-process plugin
    bound,    \* who listens on each port
    pc,       \* where each request is
    target,   \* the plugin its path belongs to
    reply     \* what the last response of each request was

boot  == <<loop, step, polls>>
procs == <<child, bound>>
vars  == <<status, answers, boot, routes, port, procs, pc, target, reply>>

Failures == {"boot_timeout", "process_exited", "auth_failed", "activation_failed"}
Finals   == {"active"} \cup Failures
Statuses == {"inactive", "activating"} \cup Finals
Steps    == {"none", "setup", "reserve", "spawn", "poll", "ask", "register", "over"}
Childs   == {"none", "starting", "serving", "ended"}
Places   == {"idle", "arrived", "admitted"}
Replies  == {"none", "failed", "handled"}

Init ==
    /\ status = [p \in Plugins |-> "inactive"]
    /\ answers = [p \in Plugins |-> {}]
    /\ loop = Nobody /\ step = "none" /\ polls = 0
    /\ routes = {}
    /\ port = [p \in Plugins |-> Nobody]
    /\ child = [p \in Plugins |-> "none"]
    /\ bound = [n \in Ports |-> Nobody]
    /\ pc = [r \in Requests |-> "idle"]
    /\ target \in [Requests -> Plugins]
    /\ reply = [r \in Requests |-> "none"]

-------------------------------------------------------------------------------
(* The middleware.                                                          *)
Arrive(r, p) ==
    /\ pc[r] = "idle"
    /\ pc' = [pc EXCEPT ![r] = "arrived"]
    /\ target' = [target EXCEPT ![r] = p]
    /\ UNCHANGED <<status, answers, boot, routes, port, procs, reply>>

(* Mutant: a failed plugin is activated again. *)
BeginAgain(r) ==
    /\ pc[r] = "arrived" /\ loop = Nobody
    /\ status[target[r]] \in {"inactive"} \cup Failures
    /\ status' = [status EXCEPT ![target[r]] = "activating"]
    /\ loop' = r
    /\ step' = IF target[r] \in OutOfProcess THEN "reserve" ELSE "setup"
    /\ UNCHANGED <<answers, polls, routes, port, procs, pc, target, reply>>

(* ensure_activated claims the plugin and runs activate_plugin_descriptors  *)
(* for it, on the event loop.                                               *)
Begin(r) ==
    /\ pc[r] = "arrived" /\ loop = Nobody
    /\ status[target[r]] = "inactive"
    /\ status' = [status EXCEPT ![target[r]] = "activating"]
    /\ loop' = r
    /\ step' = IF target[r] \in OutOfProcess THEN "reserve" ELSE "setup"
    /\ UNCHANGED <<answers, polls, routes, port, procs, pc, target, reply>>

(* ensure_activated has the final status: at once, or because this request  *)
(* has just run the activation; the middleware goes on without an await.    *)
Decided(r) ==
    /\ pc[r] = "arrived" /\ status[target[r]] \in Finals
    /\ \/ loop = Nobody
       \/ loop = r /\ step = "over"

Release ==
    /\ loop' = Nobody /\ step' = "none" /\ polls' = 0

Hear(r) == answers' = [answers EXCEPT ![target[r]] = @ \cup {status[target[r]]}]

Refuse(r) ==
    /\ Decided(r) /\ status[target[r]] \in Failures
    /\ pc' = [pc EXCEPT ![r] = "idle"]
    /\ reply' = [reply EXCEPT ![r] = "failed"]
    /\ Hear(r)
    /\ Release
    /\ UNCHANGED <<status, routes, port, procs, target>>

Admit(r) ==
    /\ Decided(r) /\ status[target[r]] = "active"
    /\ pc' = [pc EXCEPT ![r] = "admitted"]
    /\ Hear(r)
    /\ Release
    /\ UNCHANGED <<status, routes, port, procs, target, reply>>

(* The rest of the app handles an admitted request: the plugin's own routes *)
(* or its proxy, which ProxyCircuit models.                                 *)
Handle(r) ==
    /\ pc[r] = "admitted" /\ loop = Nobody
    /\ pc' = [pc EXCEPT ![r] = "idle"]
    /\ reply' = [reply EXCEPT ![r] = "handled"]
    /\ UNCHANGED <<status, answers, boot, routes, port, procs, target>>

-------------------------------------------------------------------------------
(* The activation that keeps the loop.                                      *)
Current == target[loop]
At(s) == loop # Nobody /\ step = s

(* How many plugins of the call's list are active already: the middleware   *)
(* calls activate_plugin_descriptors with one, and the count starts at 0.   *)
ActiveInCall == 0

Conclude(s) ==
    /\ status' = [status EXCEPT ![Current] = s]
    /\ step' = "over"
    /\ UNCHANGED <<answers, loop, polls, port, procs, pc, target, reply>>

(* In process: import the module and call setup(context), which adds routes *)
(* as it goes; an exception may leave some of them in the app.              *)
SetupReturns ==
    /\ At("setup")
    /\ routes' = routes \cup {Current}
    /\ Conclude("active")

SetupRaises ==
    /\ At("setup")
    /\ \E added \in SUBSET {Current} : routes' = routes \cup added
    /\ Conclude("activation_failed")

(* Bind to port 0, note the port and release it.                            *)
Reserve ==
    /\ At("reserve")
    /\ ActiveInCall < MaxActive
    /\ \E n \in Ports :
          /\ bound[n] = Nobody
          /\ port' = [port EXCEPT ![Current] = n]
    /\ step' = "spawn"
    /\ UNCHANGED <<status, answers, loop, polls, routes, procs, pc, target, reply>>

ReserveRaises ==
    /\ At("reserve")
    /\ \A n \in Ports : bound[n] # Nobody
    /\ Conclude("activation_failed")
    /\ UNCHANGED routes

(* Mutant: the proxy is registered before the health check. *)
SpawnAndRegister ==
    /\ At("spawn")
    /\ child' = [child EXCEPT ![Current] = "starting"]
    /\ step' = "poll" /\ polls' = BootPolls
    /\ routes' = routes \cup {Current}
    /\ UNCHANGED <<status, answers, loop, port, bound, pc, target, reply>>

Spawn ==
    /\ At("spawn")
    /\ child' = [child EXCEPT ![Current] = "starting"]
    /\ step' = "poll" /\ polls' = BootPolls
    /\ UNCHANGED <<status, answers, loop, routes, port, bound, pc, target, reply>>

SpawnRaises ==
    /\ At("spawn")
    /\ Conclude("activation_failed")
    /\ UNCHANGED routes

(* One round of _wait_for_out_of_process_health: the process is looked at,  *)
(* then whoever listens on its port is asked.                               *)
FindExited ==
    /\ At("poll") /\ polls > 0
    /\ child[Current] = "ended"
    /\ Conclude("process_exited")
    /\ UNCHANGED routes

FindRunning ==
    /\ At("poll") /\ polls > 0
    /\ child[Current] # "ended"
    /\ step' = "ask"
    /\ UNCHANGED <<status, answers, loop, polls, routes, port, procs, pc, target, reply>>

(* External: the plugin's own process, another plugin's or a stranger, each *)
(* of which may answer what it likes.  The host takes a 200 for the         *)
(* plugin's, and a 401 too.                                                 *)
SomebodyAnswers == bound[port[Current]] # Nobody

FindHealthy ==
    /\ At("ask") /\ SomebodyAnswers
    /\ step' = "register"
    /\ UNCHANGED <<status, answers, loop, polls, routes, port, procs, pc, target, reply>>

FindRefused ==
    /\ At("ask") /\ SomebodyAnswers
    /\ Conclude("auth_failed")
    /\ UNCHANGED routes

(* Mutant: the deadline is not looked at. *)
PollForEver ==
    /\ At("ask")
    /\ step' = "poll"
    /\ polls' = IF polls = 1 THEN BootPolls ELSE polls - 1
    /\ UNCHANGED <<status, answers, loop, routes, port, procs, pc, target, reply>>

(* Nobody answers, not in time, or with another status.                     *)
PollAgain ==
    /\ At("ask")
    /\ step' = "poll"
    /\ polls' = polls - 1
    /\ UNCHANGED <<status, answers, loop, routes, port, procs, pc, target, reply>>

BootTimesOut ==
    /\ At("poll") /\ polls = 0
    /\ Conclude("boot_timeout")
    /\ UNCHANGED routes

RegisterProxy ==
    /\ At("register")
    /\ routes' = routes \cup {Current}
    /\ Conclude("active")

-------------------------------------------------------------------------------
(* External: the plugins' processes and other ones.                         *)
ChildBinds(p) ==
    /\ child[p] = "starting" /\ bound[port[p]] = Nobody
    /\ child' = [child EXCEPT ![p] = "serving"]
    /\ bound' = [bound EXCEPT ![port[p]] = p]
    /\ UNCHANGED <<status, answers, boot, routes, port, pc, target, reply>>

(* ... for any reason: its port is taken, it crashes, it is told to stop.   *)
ChildEnds(p) ==
    /\ child[p] \in {"starting", "serving"}
    /\ child' = [child EXCEPT ![p] = "ended"]
    /\ bound' = [n \in Ports |-> IF bound[n] = p THEN Nobody ELSE bound[n]]
    /\ UNCHANGED <<status, answers, boot, routes, port, pc, target, reply>>

StrangerBinds(n) ==
    /\ bound[n] = Nobody
    /\ bound' = [bound EXCEPT ![n] = Stranger]
    /\ UNCHANGED <<status, answers, boot, routes, port, child, pc, target, reply>>

StrangerLeaves(n) ==
    /\ bound[n] = Stranger
    /\ bound' = [bound EXCEPT ![n] = Nobody]
    /\ UNCHANGED <<status, answers, boot, routes, port, child, pc, target, reply>>

-------------------------------------------------------------------------------
Activation ==
    \/ SetupReturns \/ SetupRaises
    \/ Reserve \/ ReserveRaises \/ Spawn \/ SpawnRaises
    \/ FindExited \/ FindRunning \/ FindHealthy \/ FindRefused \/ PollAgain \/ BootTimesOut
    \/ RegisterProxy

Dispatch(r) == Begin(r) \/ Refuse(r) \/ Admit(r) \/ Handle(r)

Next ==
    \/ \E r \in Requests : (\E p \in Plugins : Arrive(r, p)) \/ Dispatch(r)
    \/ Activation
    \/ \E p \in OutOfProcess : ChildBinds(p) \/ ChildEnds(p)
    \/ \E n \in Ports : StrangerBinds(n) \/ StrangerLeaves(n)

Spec == Init /\ [][Next]_vars

(* The activation runs on, and the event loop gets to every request.        *)
FairSpec ==
    /\ Spec
    /\ WF_vars(Activation)
    /\ \A r \in Requests : WF_vars(Dispatch(r))

-------------------------------------------------------------------------------
TypeOK ==
    /\ status \in [Plugins -> Statuses]
    /\ answers \in [Plugins -> SUBSET Finals]
    /\ loop \in Requests \cup {Nobody}
    /\ step \in Steps
    /\ polls \in 0 .. BootPolls
    /\ routes \in SUBSET Plugins
    /\ port \in [Plugins -> Ports \cup {Nobody}]
    /\ child \in [Plugins -> Childs]
    /\ bound \in [Ports -> Plugins \cup {Nobody, Stranger}]
    /\ pc \in [Requests -> Places]
    /\ target \in [Requests -> Plugins]
    /\ reply \in [Requests -> Replies]

(* The proxy of an out-of-process plugin is in the app exactly when the     *)
(* plugin is active: none is left by a boot that failed, at whatever point. *)
ProxyMeansActive ==
    \A p \in OutOfProcess : p \in routes <=> status[p] = "active"

(* A request is answered by a plugin's code or through its proxy only when  *)
(* the plugin is active; it is refused only when the plugin has failed, and *)
(* so is every later one.                                                   *)
RefusedForGood ==
    \A r \in Requests :
        /\ pc[r] = "admitted" => status[target[r]] = "active"
        /\ pc[r] = "idle" /\ reply[r] = "failed" => status[target[r]] \in Failures

(* Every request is answered: the loop is not kept for ever.                *)
EveryRequestAnswered == \A r \in Requests : pc[r] # "idle" ~> pc[r] = "idle"

(* "first request to `/api/<plugin_name>` triggers activation (`in_process`  *)
(* setup or `out_of_process` spawn + health-check handshake)", "requests are *)
(* proxied under `/api/<plugin_name>`" (docs/en/plugin-guide.md:105-106): an *)
(* active plugin whose process lives is who listens where its proxy sends.   *)
LivePluginsHavePorts ==
    \A p \in OutOfProcess :
        status[p] = "active" /\ child[p] # "ended" => bound[port[p]] = p

-------------------------------------------------------------------------------
(* To the requests, the middleware is a one-shot decision per plugin.       *)
Abstract == INSTANCE OneShot WITH
    Askers <- Requests, Questions <- Plugins,
    Open <- "inactive", Running <- "activating", Verdicts <- Finals,
    MayAbandon <- FALSE,
    decision <- status,
    asking <- {r \in Requests : pc[r] = "arrived"},
    question <- target,
    heard <- answers

(* Each plugin is activated at most once, by a request for it, and every    *)
(* request acts on that one outcome.                                        *)
ImplementsOneShot == Abstract!Spec
===============================================================================
