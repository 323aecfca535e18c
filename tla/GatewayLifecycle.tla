--------------------------- MODULE GatewayLifecycle ---------------------------
(***************************************************************************)
(* The life of one gateway under one desktop host: run_gateway in          *)
(* gateway/gateway/main.py, the liveness watch, the shutdown route, and     *)
(* start_gateway and GatewayRuntime::shutdown in src-tauri/src/gateway.rs.  *)
(*                                                                         *)
(* Three threads may run on_shutdown: the handler of POST                  *)
(* /api/system/shutdown, the liveness watch, and main in its finally.  The *)
(* host asks the gateway to stop, waits, and kills it.  The gateway's       *)
(* children are in process groups of their own and survive it.             *)
(*                                                                         *)
(* A tick is a second.  Only waits take time: the clock stands still while  *)
(* a thread can take a step or a signalled process has not ended.          *)
(***************************************************************************)
EXTENDS ProcessManager

CONSTANTS
    Workers,                  \* the children started with the gateway; the others are plugins
    Handler, Watcher, Main,   \* the callers of on_shutdown
    PostTimeout, KillAfter,   \* the host's two deadlines
    BootTimeout,              \* the boot timeout of an out-of-process plugin
    MaxStubborn,              \* how many children may ignore SIGTERM
    TokenMayExpire,           \* may the host live longer than its first token?
    StartMayFail              \* may starting a worker raise?

ASSUME LifecycleAssumption ==
    /\ IsFiniteSet(Children)
    /\ Workers \subseteq Children
    /\ Callers = {Handler, Watcher, Main}
    /\ Handler # Watcher /\ Watcher # Main /\ Main # Handler
    /\ {PostTimeout, KillAfter, BootTimeout} \subseteq Nat \ {0}
    /\ MaxStubborn \in Nat
    /\ {TokenMayExpire, StartMayFail} \subseteq BOOLEAN

VARIABLES
    host,         \* where the host is
    host_left,    \* ticks left of its current deadline
    gateway,      \* where main is
    closing,      \* where each caller is in on_shutdown
    should_exit,  \* server.should_exit
    ready_file,   \* does the ready file exist?
    request,      \* the host's POST /api/system/shutdown
    token,        \* is the startup token still valid?
    boot,         \* ticks left of the activation that keeps the event loop
    late          \* history: a plugin was spawned after the window was closed

glVars == <<host, host_left, gateway, closing, should_exit, ready_file, request, token, boot, late>>
vars   == <<pmVars, glVars>>

Hosts    == {"waiting", "degraded", "open", "posting", "polling", "gone"}
Gateways == {"starting", "watching", "serving", "finishing", "exited", "failed", "killed"}
Closings == {"no", "terminating", "unlinking", "flagging", "over"}
Requests == {"none", "pending", "handling", "answered"}

Plugins == Children \ Workers

Alive == gateway \in {"starting", "watching", "serving", "finishing"}
LoopFree == gateway = "serving" /\ spawning = {} /\ boot = 0

Init ==
    /\ PMInit
    /\ Cardinality({c \in Children : ~ obeys[c]}) <= MaxStubborn
    /\ host = "waiting" /\ host_left = 0
    /\ gateway = "starting"
    /\ closing = [t \in Callers |-> "no"]
    /\ should_exit = FALSE
    /\ ready_file = FALSE
    /\ request = "none"
    /\ token = "valid"
    /\ boot = 0
    /\ late = FALSE

-------------------------------------------------------------------------------
(* Startup of the gateway: the workers one after the other, the watch       *)
(* thread, then the server, whose startup hook writes the ready file.       *)
StartWorker(c) ==
    /\ gateway = "starting" /\ spawning = {}
    /\ c \in Workers
    /\ Popen(c)
    /\ UNCHANGED glVars

(* The start of a worker raises, Popen for a command that does not exist,   *)
(* the permissions for a blank entry: outside the try for ValueErrors, and  *)
(* not yet inside the one whose finally is on_shutdown.                     *)
StartFails ==
    /\ StartMayFail
    /\ gateway = "starting" /\ spawning = {}
    /\ \E c \in Workers : state[c] = "unborn"
    /\ gateway' = "failed"
    /\ UNCHANGED <<pmVars, host, host_left, closing, should_exit, ready_file, request, token, boot, late>>

StartWatch ==
    /\ gateway = "starting" /\ spawning = {}
    /\ \A c \in Workers : state[c] # "unborn"
    /\ gateway' = "watching"
    /\ UNCHANGED <<pmVars, host, host_left, closing, should_exit, ready_file, request, token, boot, late>>

WriteReadyFile ==
    /\ gateway = "watching"
    /\ gateway' = "serving"
    /\ ready_file' = TRUE
    /\ UNCHANGED <<pmVars, host, host_left, closing, should_exit, request, token, boot, late>>

(* The first request for an out-of-process plugin: the child is spawned and *)
(* its health awaited without leaving the event loop, until it is healthy,  *)
(* fails or runs out of time.                                               *)
BeginActivation(c) ==
    /\ LoopFree
    /\ c \in Plugins
    /\ Popen(c)
    /\ boot' = BootTimeout
    /\ late' = (late \/ host \in {"posting", "polling"})
    /\ UNCHANGED <<host, host_left, gateway, closing, should_exit, ready_file, request, token>>

EndActivation ==
    /\ gateway = "serving" /\ spawning = {} /\ boot > 0
    /\ boot' = 0
    /\ UNCHANGED <<pmVars, host, host_left, gateway, closing, should_exit, ready_file, request, token, late>>

TrackChild(c) ==
    /\ Alive
    /\ Track(c)
    /\ UNCHANGED glVars

ChildExits(c) ==
    /\ Exit(c)
    /\ UNCHANGED glVars

-------------------------------------------------------------------------------
(* on_shutdown: terminate_all, unlink the ready file, set should_exit.      *)
BeginShutdown(t) ==
    /\ closing[t] = "no"
    /\ closing' = [closing EXCEPT ![t] = "terminating"]
    /\ TerminateAll(t)

TerminateStep(t) ==
    /\ Alive
    /\ closing[t] = "terminating"
    /\ CallStep(t)
    /\ closing' = IF loop'[t] = "done" THEN [closing EXCEPT ![t] = "unlinking"] ELSE closing
    /\ UNCHANGED <<host, host_left, gateway, should_exit, ready_file, request, token, boot, late>>

(* Mutant: who finds the server told to stop takes the file for removed. *)
UnlinkUnlessStopping(t) ==
    /\ Alive
    /\ closing[t] = "unlinking"
    /\ closing' = [closing EXCEPT ![t] = "flagging"]
    /\ ready_file' = IF should_exit THEN ready_file ELSE FALSE
    /\ UNCHANGED <<pmVars, host, host_left, gateway, should_exit, request, token, boot, late>>

UnlinkReadyFile(t) ==
    /\ Alive
    /\ closing[t] = "unlinking"
    /\ closing' = [closing EXCEPT ![t] = "flagging"]
    /\ ready_file' = FALSE
    /\ UNCHANGED <<pmVars, host, host_left, gateway, should_exit, request, token, boot, late>>

(* Mutant: server_ref still holds None, the server is not told. *)
TellNoServer(t) ==
    /\ Alive
    /\ closing[t] = "flagging"
    /\ closing' = [closing EXCEPT ![t] = "over"]
    /\ request' = IF t = Handler THEN "answered" ELSE request
    /\ gateway' = IF t = Main THEN "exited" ELSE gateway
    /\ UNCHANGED <<pmVars, host, host_left, should_exit, ready_file, token, boot, late>>

(* The end of on_shutdown: the handler answers, main closes and returns.    *)
SetShouldExit(t) ==
    /\ Alive
    /\ closing[t] = "flagging"
    /\ closing' = [closing EXCEPT ![t] = "over"]
    /\ should_exit' = TRUE
    /\ request' = IF t = Handler THEN "answered" ELSE request
    /\ gateway' = IF t = Main THEN "exited" ELSE gateway
    /\ UNCHANGED <<pmVars, host, host_left, ready_file, token, boot, late>>

(* The shutdown request reaches the event loop: a token past its ttl is     *)
(* refused with 401, otherwise the route runs on_shutdown in a worker       *)
(* thread.                                                                  *)
RefuseShutdown ==
    /\ LoopFree
    /\ request = "pending" /\ token = "expired"
    /\ request' = "answered"
    /\ UNCHANGED <<pmVars, host, host_left, gateway, closing, should_exit, ready_file, token, boot, late>>

AcceptShutdown ==
    /\ LoopFree
    /\ request = "pending" /\ token = "valid"
    /\ request' = "handling"
    /\ BeginShutdown(Handler)
    /\ UNCHANGED <<host, host_left, gateway, should_exit, ready_file, token, boot, late>>

(* The watch finds the host's pid gone. *)
NoticeHostGone ==
    /\ gateway \in {"watching", "serving", "finishing"}
    /\ host = "gone"
    /\ BeginShutdown(Watcher)
    /\ UNCHANGED <<host, host_left, gateway, should_exit, ready_file, request, token, boot, late>>

(* Mutant: main's finally leaves the children to whoever set should_exit. *)
StopServingOnly ==
    /\ LoopFree
    /\ should_exit
    /\ request # "handling"
    /\ gateway' = "finishing"
    /\ closing' = [closing EXCEPT ![Main] = "unlinking"]
    /\ UNCHANGED <<pmVars, host, host_left, should_exit, ready_file, request, token, boot, late>>

(* The server sees should_exit, lets the request in progress finish, and    *)
(* server.run returns into main's finally.                                  *)
StopServing ==
    /\ LoopFree
    /\ should_exit
    /\ request # "handling"
    /\ gateway' = "finishing"
    /\ BeginShutdown(Main)
    /\ UNCHANGED <<host, host_left, should_exit, ready_file, request, token, boot, late>>

-------------------------------------------------------------------------------
(* The host.  Without a gateway it goes on, degraded, and does not keep the *)
(* child it may have started.                                               *)
SeeReady ==
    /\ host = "waiting" /\ ready_file /\ Alive
    /\ host' = "open"
    /\ UNCHANGED <<pmVars, host_left, gateway, closing, should_exit, ready_file, request, token, boot, late>>

StartupFails ==
    /\ host = "waiting"
    /\ host' = "degraded"
    /\ UNCHANGED <<pmVars, host_left, gateway, closing, should_exit, ready_file, request, token, boot, late>>

TokenExpires ==
    /\ TokenMayExpire
    /\ host = "open" /\ token = "valid"
    /\ token' = "expired"
    /\ UNCHANGED <<pmVars, host, host_left, gateway, closing, should_exit, ready_file, request, boot, late>>

(* The window is closed: POST with the startup token, for PostTimeout at    *)
(* most; then wait for the child, for KillAfter at most; then kill it.      *)
CloseWindow ==
    /\ host = "open"
    /\ host' = "posting" /\ host_left' = PostTimeout
    /\ request' = "pending"
    /\ UNCHANGED <<pmVars, gateway, closing, should_exit, ready_file, token, boot, late>>

(* Mutant: one deadline for both, taken before the POST. *)
StopPostingOneDeadline ==
    /\ host = "posting"
    /\ request = "answered" \/ ~ Alive \/ host_left = 0
    /\ host' = "polling"
    /\ UNCHANGED <<pmVars, host_left, gateway, closing, should_exit, ready_file, request, token, boot, late>>

StopPosting ==
    /\ host = "posting"
    /\ request = "answered" \/ ~ Alive \/ host_left = 0
    /\ host' = "polling" /\ host_left' = KillAfter
    /\ UNCHANGED <<pmVars, gateway, closing, should_exit, ready_file, request, token, boot, late>>

SeeGatewayGone ==
    /\ host = "polling" /\ ~ Alive
    /\ host' = "gone"
    /\ ready_file' = FALSE
    /\ UNCHANGED <<pmVars, host_left, gateway, closing, should_exit, request, token, boot, late>>

KillGateway ==
    /\ host = "polling" /\ Alive /\ host_left = 0
    /\ gateway' = "killed"
    /\ host' = "gone"
    /\ ready_file' = FALSE
    /\ UNCHANGED <<pmVars, host_left, closing, should_exit, request, token, boot, late>>

CloseDegraded ==
    /\ host = "degraded"
    /\ host' = "gone"
    /\ UNCHANGED <<pmVars, host_left, gateway, closing, should_exit, ready_file, request, token, boot, late>>

HostCrashes ==
    /\ host # "gone"
    /\ host' = "gone"
    /\ UNCHANGED <<pmVars, host_left, gateway, closing, should_exit, ready_file, request, token, boot, late>>

-------------------------------------------------------------------------------
ShutdownStep(t) == TerminateStep(t) \/ UnlinkReadyFile(t) \/ SetShouldExit(t)
LoopStep == RefuseShutdown \/ AcceptShutdown \/ StopServing
HostStep == StopPosting \/ SeeGatewayGone \/ KillGateway

(* What takes no time.  A child that was killed, or that was told to stop   *)
(* and obeys, ends within the tick.                                         *)
Urgent ==
    \/ \E t \in Callers : ShutdownStep(t)
    \/ LoopStep
    \/ HostStep
    \/ \E c \in Children : TrackChild(c) \/ (state[c] \in {"stopping", "killed"} /\ ChildExits(c))

(* No urgent step can be taken, and whoever is in terminate_all is waiting. *)
Quiet ==
    /\ Alive
    /\ spawning = {}
    /\ \A t \in Callers : /\ InCall(t) => Waiting(t)
                          /\ closing[t] \notin {"unlinking", "flagging"}
    /\ \A c \in Children : state[c] \notin {"stopping", "killed"}
    /\ LoopFree => request # "pending" /\ (should_exit => request = "handling")
    /\ host = "posting" => request # "answered" /\ host_left > 0
    /\ host = "polling" => host_left > 0

Countdown(n) == IF n > 0 THEN n - 1 ELSE 0

Second ==
    /\ \/ host \in {"posting", "polling"}
       \/ boot > 0
       \/ \E t \in Callers : InCall(t)
    /\ Quiet
    /\ PMTick
    /\ host_left' = Countdown(host_left)
    /\ boot' = Countdown(boot)
    /\ UNCHANGED <<host, gateway, closing, should_exit, ready_file, request, token, late>>

Next ==
    \/ \E c \in Children : StartWorker(c) \/ BeginActivation(c) \/ TrackChild(c) \/ ChildExits(c)
    \/ StartFails \/ StartWatch \/ WriteReadyFile \/ EndActivation
    \/ \E t \in Callers : ShutdownStep(t)
    \/ LoopStep
    \/ NoticeHostGone
    \/ SeeReady \/ StartupFails \/ TokenExpires \/ CloseWindow \/ CloseDegraded \/ HostCrashes
    \/ HostStep
    \/ Second

Spec == Init /\ [][Next]_vars

(* Threads and processes that can run do run, the watch polls, time passes. *)
FairSpec ==
    /\ Spec
    /\ WF_vars(\E c \in Children : StartWorker(c))
    /\ WF_vars(StartWatch)
    /\ WF_vars(WriteReadyFile)
    /\ WF_vars(Urgent)
    /\ WF_vars(NoticeHostGone)
    /\ WF_vars(Second)

-------------------------------------------------------------------------------
TypeOK ==
    /\ PMTypeOK
    /\ host \in Hosts
    /\ host_left \in 0 .. PostTimeout + KillAfter
    /\ gateway \in Gateways
    /\ closing \in [Callers -> Closings]
    /\ should_exit \in BOOLEAN
    /\ ready_file \in BOOLEAN
    /\ request \in Requests
    /\ token \in {"valid", "expired"}
    /\ boot \in 0 .. BootTimeout
    /\ late \in BOOLEAN

(* The steps are made of the process manager's: what is proved of            *)
(* terminate_all holds of the threads of the gateway.  Not a check of its    *)
(* own, but what carries those theorems over.                               *)
ImplementsProcessManager == PMSpec

(* A gateway that exits by itself leaves no child behind that has neither   *)
(* ended nor been killed, whoever started the shutdown, and also when a     *)
(* plugin was being spawned while another thread was in terminate_all.      *)
ExitLeavesNoChild ==
    gateway = "exited" => \A c \in Children : state[c] = "unborn" \/ Doomed(c)

(* ... and no ready file, also when the watch ended the gateway before the  *)
(* startup hook had written it.                                             *)
ExitLeavesNoReadyFile == gateway = "exited" => ~ ready_file

(* Closing the window ends the gateway by itself, before the host's kill,   *)
(* when the startup token is still valid, the boot in progress and the      *)
(* children that ignore SIGTERM fit into the host's two deadlines, and no   *)
(* plugin is activated meanwhile: one that is spawned while terminate_all   *)
(* is in its second loop is waited for without having got a SIGTERM.        *)
Stubborn == {c \in Children : state[c] # "unborn" /\ ~ obeys[c]}

WithinBudget ==
    /\ token = "valid"
    /\ BootTimeout + Timeout * Cardinality(Stubborn) < PostTimeout + KillAfter
    /\ ~ late

CloseIsOrderly == WithinBudget => gateway # "killed"

(* Once the window is closed, or the host is gone in any other way, neither *)
(* of the two stays: the host does not wait for ever for a gateway that does *)
(* not end, and no gateway outlives its host.                               *)
CloseEndsBoth == host \in {"posting", "gone"} ~> host = "gone" /\ ~ Alive

(* "ensure `worker` processes can terminate cleanly on gateway shutdown"    *)
(* (docs/en/plugin-guide.md:179), read as: when the host has shut the       *)
(* gateway down, a worker that obeys SIGTERM has been sent one.             *)
WorkersCanTerminate ==
    host = "gone" /\ ~ Alive =>
        \A c \in Workers : ~ (state[c] = "running" /\ obeys[c])
===============================================================================
