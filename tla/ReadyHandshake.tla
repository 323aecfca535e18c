----------------------------- MODULE ReadyHandshake -----------------------------
(***************************************************************************)
(* How instances of the desktop app find the port of the gateway each has   *)
(* started: src-tauri/src/gateway.rs with lib.rs, and the ready file of      *)
(* gateway/gateway/main.py.  All instances of a user share one data          *)
(* directory and therefore one ready file, and nothing keeps them apart: a   *)
(* second instance may start while the first is open, while the gateway of   *)
(* a crashed one is still ending, or after one that left its file behind.    *)
(*                                                                         *)
(* An app also names the gateway started for it: this is the pid, which is   *)
(* not given to another gateway.  The deadlines of the shutdown and the      *)
(* children of the gateway are the subject of GatewayLifecycle.             *)
(***************************************************************************)
EXTENDS Diagnostics

CONSTANTS
    Apps,        \* instances of the desktop app
    Polls,       \* how often the ready file can be read before the deadline
    NoFile, Torn, Leftover, \* what else is found at the path: nothing, part of a
                 \* file, the file of a gateway of former times
    Talkers,     \* the apps whose gateway writes to stdout and stderr
    LineSizes,   \* the lengths of what it writes
    StatusSize, ShutdownSize, \* the lengths of the host's own messages
    MaxSaid      \* how many events of an app are counted

ASSUME HandshakeAssumption ==
    /\ Polls \in Nat \ {0}
    /\ Apps \cap {NoFile, Torn, Leftover} = {}
    /\ NoFile # Torn /\ Torn # Leftover /\ Leftover # NoFile
    /\ Talkers \subseteq Apps
    /\ LineSizes \cup {StatusSize, ShutdownSize} \subseteq Nat

VARIABLES
    file,       \* gateway.ready.json: whose payload it holds
    host,       \* where the main thread of each app is
    left,       \* the polls left in wait_for_ready_port
    uses,       \* whose port GatewayInfo holds
    gateway,    \* where each gateway is in run_gateway
    told,       \* which threads have run on_shutdown and set should_exit
    published,  \* history: the gateways that have written their file
    status,     \* healthy and startup_error_summary
    ring,       \* the diagnostic events
    said        \* history: all events ever appended

fileVars == <<file, uses, published>>
diagVars == <<status, ring, said>>
vars == <<fileVars, host, left, gateway, told, diagVars>>

Unused == NoFile

Over(r)   == host[r] \in {"closed", "gone"}
Starting(r) == host[r] \in {"waiting", "reading", "sleeping"}
Running(r) == gateway[r] \notin {"none", "dead"}

HostAt(r, place)    == host' = [host EXCEPT ![r] = place]
GatewayAt(r, place) == gateway' = [gateway EXCEPT ![r] = place]

Init ==
    /\ file \in {NoFile, Leftover}
    /\ host = [r \in Apps |-> "off"]
    /\ left = [r \in Apps |-> Polls]
    /\ uses = [r \in Apps |-> Unused]
    /\ gateway = [r \in Apps |-> "none"]
    /\ told = [r \in Apps |-> {}]
    /\ published = {}
    /\ status = [r \in Apps |-> [healthy |-> FALSE, summary |-> "none"]]
    /\ ring = [r \in Apps |-> NewRing]
    /\ said = [r \in Apps |-> <<>>]

(* with_gateway_diagnostics around one of the append operations.            *)
Say(r, size) ==
    /\ ring' = [ring EXCEPT ![r] = AppendEvent(@, size)]
    /\ said' = [said EXCEPT ![r] = Append(@, size)]

ReportStart(r, healthy, summary) ==
    /\ status' = [status EXCEPT ![r] = [healthy |-> healthy, summary |-> summary]]
    /\ Say(r, StatusSize)

-------------------------------------------------------------------------------
(* The host: start_gateway. *)
RemoveStale(r) ==
    /\ host[r] = "off"
    /\ HostAt(r, "preparing")
    /\ file' = NoFile
    /\ UNCHANGED <<left, uses, gateway, told, published, diagVars>>

(* The data directory, the clock or the token: the error is returned as it  *)
(* is, and lib.rs prints it.                                                *)
PrepareFails(r) ==
    /\ host[r] \in {"off", "preparing"}
    /\ HostAt(r, "degraded")
    /\ UNCHANGED <<fileVars, left, gateway, told, diagVars>>

Spawn(r) ==
    /\ host[r] = "preparing"
    /\ HostAt(r, "waiting")
    /\ GatewayAt(r, "booting")
    /\ UNCHANGED <<fileVars, left, told, diagVars>>

(* Mutant: a failing spawn is returned as it is, too. *)
SpawnFailsSilently(r) ==
    /\ host[r] = "preparing"
    /\ HostAt(r, "degraded")
    /\ \E place \in {"none", "dead"} : GatewayAt(r, place)
    /\ UNCHANGED <<fileVars, left, told, diagVars>>

(* No process, or one that is killed because it takes no bootstrap.         *)
SpawnFails(r) ==
    /\ host[r] = "preparing"
    /\ HostAt(r, "degraded")
    /\ \E place \in {"none", "dead"} : GatewayAt(r, place)
    /\ ReportStart(r, FALSE, "spawn")
    /\ UNCHANGED <<fileVars, left, told>>

(* wait_for_ready_port: the child is looked at, then the file is read.      *)
SeeExit(r) ==
    /\ host[r] = "waiting" /\ gateway[r] = "dead"
    /\ HostAt(r, "degraded")
    /\ ReportStart(r, FALSE, "exited")
    /\ UNCHANGED <<fileVars, left, gateway, told>>

SeeRunning(r) ==
    /\ host[r] = "waiting" /\ gateway[r] # "dead"
    /\ HostAt(r, "reading")
    /\ UNCHANGED <<fileVars, left, gateway, told, diagVars>>

(* Mutant: whoever's file is there, it is ready. *)
ReadAnyReady(r) ==
    /\ host[r] = "reading" /\ file \in Apps
    /\ HostAt(r, "open")
    /\ uses' = [uses EXCEPT ![r] = file]
    /\ ReportStart(r, TRUE, "none")
    /\ UNCHANGED <<file, left, gateway, told, published>>

ReadReady(r) ==
    /\ host[r] = "reading" /\ file = r
    /\ HostAt(r, "open")
    /\ uses' = [uses EXCEPT ![r] = file]
    /\ ReportStart(r, TRUE, "none")
    /\ UNCHANGED <<file, left, gateway, told, published>>

(* What does not parse ends the wait; what is not there or is of another     *)
(* gateway is read again after a sleep.                                     *)
ReadOther(r) ==
    /\ host[r] = "reading" /\ file # r
    /\ IF file = Torn
          THEN HostAt(r, "degraded") /\ ReportStart(r, FALSE, "invalid")
          ELSE HostAt(r, "sleeping") /\ UNCHANGED diagVars
    /\ UNCHANGED <<fileVars, left, gateway, told>>

PollAgain(r) ==
    /\ host[r] = "sleeping" /\ left[r] > 1
    /\ HostAt(r, "waiting")
    /\ left' = [left EXCEPT ![r] = @ - 1]
    /\ UNCHANGED <<fileVars, gateway, told, diagVars>>

(* The time is over when the sleep is; the file is not read again.  The     *)
(* child is dropped, not killed: it may be ready later, or already.         *)
GiveUp(r) ==
    /\ host[r] = "sleeping" /\ left[r] = 1
    /\ HostAt(r, "degraded")
    /\ ReportStart(r, FALSE, "timeout")
    /\ UNCHANGED <<fileVars, left, gateway, told>>

(* The window is closed: shutdown asks the gateway to stop, waits for it or  *)
(* kills it, and takes the ready file away.                                 *)
Close(r) ==
    /\ host[r] = "open"
    /\ HostAt(r, "closing")
    /\ UNCHANGED <<fileVars, left, gateway, told, diagVars>>

Kill(r) ==
    /\ host[r] = "closing" /\ Running(r)
    /\ GatewayAt(r, "dead")
    /\ UNCHANGED <<fileVars, host, left, told, diagVars>>

(* Mutant: the file is left to the gateway. *)
LeaveFile(r) ==
    /\ host[r] = "closing" /\ ~ Running(r)
    /\ HostAt(r, "closed")
    /\ status' = [status EXCEPT ![r].healthy = FALSE]
    /\ Say(r, ShutdownSize)
    /\ UNCHANGED <<fileVars, left, gateway, told>>

RemoveOwn(r) ==
    /\ host[r] = "closing" /\ ~ Running(r)
    /\ HostAt(r, "closed")
    /\ file' = NoFile
    /\ status' = [status EXCEPT ![r].healthy = FALSE]
    /\ Say(r, ShutdownSize)
    /\ UNCHANGED <<uses, published, left, gateway, told>>

CloseDegraded(r) ==
    /\ host[r] = "degraded"
    /\ HostAt(r, "gone")
    /\ UNCHANGED <<fileVars, left, gateway, told, diagVars>>

Crash(r) ==
    /\ host[r] # "off" /\ ~ Over(r)
    /\ HostAt(r, "gone")
    /\ UNCHANGED <<fileVars, left, gateway, told, diagVars>>

(* A reader thread gets a line of the gateway, which may have ended since,  *)
(* or of a worker, which inherits its streams; or an error, and no more.    *)
Line(r) ==
    /\ gateway[r] # "none" /\ host[r] \notin {"off", "preparing"} /\ ~ Over(r)
    /\ r \in Talkers /\ Len(said[r]) < MaxSaid
    /\ \E size \in LineSizes : Say(r, size)
    /\ UNCHANGED <<fileVars, host, left, gateway, told, status>>

-------------------------------------------------------------------------------
(* The gateway: run_gateway and the hook that writes the ready file.        *)
UnlinkOld(r) ==
    /\ gateway[r] = "booting"
    /\ GatewayAt(r, "starting")
    /\ file' = NoFile
    /\ UNCHANGED <<uses, published, host, left, told, diagVars>>

StartWatch(r) ==
    /\ gateway[r] = "starting"
    /\ GatewayAt(r, "watching")
    /\ UNCHANGED <<fileVars, host, left, told, diagVars>>

(* Mutant: the payload is written to the ready file itself. *)
WriteInPlace(r) ==
    /\ gateway[r] = "watching"
    /\ GatewayAt(r, "replacing")
    /\ file' = Torn
    /\ UNCHANGED <<uses, published, host, left, told, diagVars>>

(* write_ready_file_atomic: a temporary file of its own, then os.replace.   *)
WriteTemp(r) ==
    /\ gateway[r] = "watching"
    /\ GatewayAt(r, "replacing")
    /\ UNCHANGED <<fileVars, host, left, told, diagVars>>

Replace(r) ==
    /\ gateway[r] = "replacing"
    /\ GatewayAt(r, "serving")
    /\ file' = r
    /\ published' = published \cup {r}
    /\ UNCHANGED <<uses, host, left, told, diagVars>>

(* on_shutdown in a thread: it unlinks whatever is at the path.             *)
OnShutdown(r, thread) ==
    /\ thread \notin told[r]
    /\ told' = [told EXCEPT ![r] = @ \cup {thread}]
    /\ file' = NoFile
    /\ UNCHANGED <<uses, published, host, left, gateway, diagVars>>

HandleShutdown(r) ==
    /\ gateway[r] = "serving" /\ host[r] = "closing"
    /\ OnShutdown(r, "handler")

(* Mutant: a host the watch may not signal is taken for gone. *)
NoticeAnyHost(r) ==
    /\ gateway[r] \in {"watching", "replacing", "serving", "finishing"}
    /\ OnShutdown(r, "watcher")

NoticeHostGone(r) ==
    /\ gateway[r] \in {"watching", "replacing", "serving", "finishing"} /\ Over(r)
    /\ OnShutdown(r, "watcher")

StopServing(r) ==
    /\ gateway[r] = "serving" /\ told[r] # {}
    /\ GatewayAt(r, "finishing")
    /\ UNCHANGED <<fileVars, host, left, told, diagVars>>

Finish(r) ==
    /\ gateway[r] = "finishing"
    /\ GatewayAt(r, "dead")
    /\ file' = NoFile
    /\ UNCHANGED <<uses, published, host, left, told, diagVars>>

(* It fails to start, or crashes: the file stays. *)
Die(r) ==
    /\ Running(r)
    /\ GatewayAt(r, "dead")
    /\ UNCHANGED <<fileVars, host, left, told, diagVars>>

-------------------------------------------------------------------------------
StartStep(r) ==
    \/ RemoveStale(r) \/ PrepareFails(r) \/ Spawn(r) \/ SpawnFails(r)
    \/ SeeExit(r) \/ SeeRunning(r) \/ ReadReady(r) \/ ReadOther(r) \/ PollAgain(r) \/ GiveUp(r)

HostStep(r) == StartStep(r) \/ Close(r) \/ Kill(r) \/ RemoveOwn(r) \/ CloseDegraded(r) \/ Crash(r)

GatewayStep(r) ==
    \/ UnlinkOld(r) \/ StartWatch(r) \/ WriteTemp(r) \/ Replace(r)
    \/ HandleShutdown(r) \/ NoticeHostGone(r) \/ StopServing(r) \/ Finish(r) \/ Die(r)

Next == \E r \in Apps : HostStep(r) \/ GatewayStep(r) \/ Line(r)

Spec == Init /\ [][Next]_vars

(* The main thread of an app that has begun to start goes on.               *)
FairSpec == Spec /\ \A r \in Apps : WF_vars(host[r] # "off" /\ StartStep(r))

-------------------------------------------------------------------------------
TypeOK ==
    /\ file \in Apps \cup {NoFile, Torn, Leftover}
    /\ host \in [Apps -> {"off", "preparing", "waiting", "reading", "sleeping", "open",
                          "degraded", "closing", "closed", "gone"}]
    /\ left \in [Apps -> 1 .. Polls]
    /\ uses \in [Apps -> Apps \cup {Unused}]
    /\ gateway \in [Apps -> {"none", "booting", "starting", "watching", "replacing",
                             "serving", "finishing", "dead"}]
    /\ told \in [Apps -> SUBSET {"handler", "watcher"}]
    /\ published \in SUBSET Apps
    /\ status \in [Apps -> [healthy : BOOLEAN,
                            summary : {"none", "spawn", "exited", "invalid", "timeout"}]]

(* A start that succeeds uses the gateway that was started for it, which    *)
(* has come up, whatever files other apps and earlier crashes leave in its  *)
(* way; it is decided once.                                                 *)
Outcome(place) ==
    IF place \in {"closed", "gone"} THEN "over"
    ELSE IF place \in {"open", "closing"} THEN "open"
    ELSE IF place = "degraded" THEN "failed" ELSE "none"

Start == INSTANCE Launch
             WITH Starts <- Apps, Nobody <- Unused, up <- published,
                  outcome <- [r \in Apps |-> Outcome(host[r])]

ImplementsLaunch == Start!Spec

(* No start fails because it reads a file while it is being written.        *)
NeverInvalid == \A r \in Apps : status[r].summary # "invalid"

(* A start whose gateway has written its file in time, before the last read *)
(* of it, succeeds unless one of the two crashes: while neither another app  *)
(* nor the gateway of a former one is around, nobody takes the file away.    *)
(* What is written while the host sleeps for the last time is never read.   *)
Alone(r) == \A q \in Apps \ {r} : host[q] = "off" \/ (Over(q) /\ ~ Running(q))

InTime(r) == Starting(r) /\ file = r /\ (host[r] = "sleeping" => left[r] > 1)

Settled(r) == host[r] \in {"open", "gone"} \/ gateway[r] = "dead"

LonelyStartSucceeds ==
    \A r \in Apps : InTime(r) /\ Alone(r) ~> Settled(r) \/ ~ Alone(r)

(* After the window of a started app is closed there is neither its gateway *)
(* nor its ready file, also if the gateway had to be killed.                *)
CloseLeavesNothing ==
    \A r \in Apps : host[r] = "closed" => ~ Running(r) /\ file # r

(* What the UI is told of the start is what became of it: healthy is said   *)
(* of a start that has found its gateway come up, a reason is given for one  *)
(* that fails although a process was started for it and for no other, and    *)
(* "exited" is true.  However much the gateway says, the reason is not lost: *)
(* it is not taken from the ring.  A start that fails before the spawn may   *)
(* leave no reason, and a gateway that ends later leaves healthy as it is.   *)
StatusTellsTheStart ==
    \A r \in Apps :
        /\ host[r] # "gone" => (status[r].healthy <=> host[r] \in {"open", "closing"})
        /\ status[r].healthy => r \in published
        /\ host[r] = "degraded" /\ gateway[r] # "none" => status[r].summary # "none"
        /\ status[r].summary # "none" => host[r] \in {"degraded", "gone"}
        /\ status[r].summary = "exited" => gateway[r] = "dead"

(* The ring holds the newest of what was said, and counts its bytes.        *)
RingKeepsTheNewest ==
    \A r \in Apps :
        /\ ring[r].events = Newest(said[r])
        /\ ring[r].total = Bytes(ring[r].events)
===============================================================================
