---------------------------- MODULE ProcessManager ----------------------------
(***************************************************************************)
(* The gateway's children (gateway/gateway/process_manager.py): spawn puts *)
(* a new process on a list that no lock protects, terminate_all walks the  *)
(* list twice, first asking every live process to stop, then waiting for   *)
(* each in turn and killing those that do not.  Several threads may be in  *)
(* terminate_all together, and processes may be spawned while they are.    *)
(***************************************************************************)
EXTENDS Naturals, Sequences, SequencesExt

CONSTANTS
    Children,    \* the processes that may be spawned
    Callers,     \* the threads that call terminate_all
    Timeout,     \* terminate_all's timeout, in ticks
    MaxElapsed   \* where the history stops counting the ticks of a call

ASSUME ProcessManagerAssumption ==
    /\ Timeout \in Nat \ {0}
    /\ MaxElapsed \in Nat

VARIABLES
    state,      \* what has become of each process
    obeys,      \* does the process stop when it gets a SIGTERM?
    spawning,   \* started by Popen, not on the list yet
    processes,  \* _processes
    loop,       \* where each caller is in terminate_all
    index,      \* the position it has reached in the list
    left,       \* the ticks left of its wait for that process
    elapsed     \* history: the ticks since its call began

pmVars == <<state, obeys, spawning, processes, loop, index, left, elapsed>>
callVars == <<loop, index, left, elapsed>>

(* "stopping": has got a SIGTERM it obeys; "killed": has got a SIGKILL.     *)
States == {"unborn", "running", "stopping", "killed", "exited"}
Loops  == {"idle", "term", "wait", "done"}

Live(c)   == state[c] \in {"running", "stopping", "killed"}  \* poll() is None
Doomed(c) == state[c] \in {"killed", "exited"}

Current(t) == processes[index[t]]
More(t)    == index[t] <= Len(processes)

PMInit ==
    /\ state = [c \in Children |-> "unborn"]
    /\ obeys \in [Children -> BOOLEAN]
    /\ spawning = {}
    /\ processes = <<>>
    /\ loop = [t \in Callers |-> "idle"]
    /\ index = [t \in Callers |-> 1]
    /\ left = [t \in Callers |-> 0]
    /\ elapsed = [t \in Callers |-> 0]

(* subprocess.Popen, then self._processes.append: another thread may run    *)
(* in between.                                                              *)
Popen(c) ==
    /\ state[c] = "unborn"
    /\ state' = [state EXCEPT ![c] = "running"]
    /\ spawning' = spawning \cup {c}
    /\ UNCHANGED <<obeys, processes, callVars>>

Track(c) ==
    /\ c \in spawning
    /\ spawning' = spawning \ {c}
    /\ processes' = Append(processes, c)
    /\ UNCHANGED <<state, obeys, callVars>>

(* External: a process ends, by itself or because of a signal. *)
Exit(c) ==
    /\ Live(c)
    /\ state' = [state EXCEPT ![c] = "exited"]
    /\ UNCHANGED <<obeys, spawning, processes, callVars>>

StartLoop(t, name) ==
    /\ loop' = [loop EXCEPT ![t] = name]
    /\ index' = [index EXCEPT ![t] = 1]
    /\ left' = [left EXCEPT ![t] = Timeout]

(* On to the next process; its wait gets the whole timeout again. *)
Advance(t) ==
    /\ index' = [index EXCEPT ![t] = @ + 1]
    /\ left' = [left EXCEPT ![t] = Timeout]
    /\ UNCHANGED <<obeys, spawning, processes, loop, elapsed>>

TerminateAll(t) ==
    /\ loop[t] \in {"idle", "done"}
    /\ StartLoop(t, "term")
    /\ elapsed' = [elapsed EXCEPT ![t] = 0]
    /\ UNCHANGED <<state, obeys, spawning, processes>>

(* First loop: a live process gets a SIGTERM. *)
Terminate(t) ==
    /\ loop[t] = "term" /\ More(t)
    /\ state' = IF state[Current(t)] = "running" /\ obeys[Current(t)]
                THEN [state EXCEPT ![Current(t)] = "stopping"] ELSE state
    /\ Advance(t)

StartWaiting(t) ==
    /\ loop[t] = "term" /\ ~ More(t)
    /\ StartLoop(t, "wait")
    /\ UNCHANGED <<state, obeys, spawning, processes, elapsed>>

(* Second loop: one process after the other is seen to have ended, or is    *)
(* killed when its wait has taken the whole timeout; nobody waits for a     *)
(* killed one.                                                              *)
SeeExit(t) ==
    /\ loop[t] = "wait" /\ More(t)
    /\ ~ Live(Current(t))
    /\ Advance(t)
    /\ UNCHANGED state

(* Mutants: a second SIGTERM where a SIGKILL is due; after the SIGKILL, wait *)
(* for the process once more.                                                *)
KillPolitely(t) ==
    /\ loop[t] = "wait" /\ More(t)
    /\ Live(Current(t))
    /\ left[t] = 0
    /\ Advance(t)
    /\ UNCHANGED state

KillAndWait(t) ==
    /\ loop[t] = "wait" /\ More(t)
    /\ Live(Current(t))
    /\ left[t] = 0
    /\ state' = [state EXCEPT ![Current(t)] = "killed"]
    /\ left' = [left EXCEPT ![t] = Timeout]
    /\ UNCHANGED <<obeys, spawning, processes, loop, index, elapsed>>

Kill(t) ==
    /\ loop[t] = "wait" /\ More(t)
    /\ Live(Current(t))
    /\ left[t] = 0
    /\ state' = [state EXCEPT ![Current(t)] = "killed"]
    /\ Advance(t)

Finish(t) ==
    /\ loop[t] = "wait" /\ ~ More(t)
    /\ loop' = [loop EXCEPT ![t] = "done"]
    /\ UNCHANGED <<state, obeys, spawning, processes, index, left, elapsed>>

Waiting(t) == loop[t] = "wait" /\ More(t) /\ Live(Current(t)) /\ left[t] > 0
InCall(t)  == loop[t] \in {"term", "wait"}

(* Mutant: wait() has no timeout. *)
PMTickNoTimeout ==
    /\ elapsed' = [t \in Callers |->
                     IF InCall(t) /\ elapsed[t] < MaxElapsed THEN elapsed[t] + 1 ELSE elapsed[t]]
    /\ UNCHANGED <<state, obeys, spawning, processes, loop, index, left>>

(* A tick of the clock, for the callers that are blocked in wait(timeout). *)
PMTick ==
    /\ left' = [t \in Callers |-> IF Waiting(t) THEN left[t] - 1 ELSE left[t]]
    /\ elapsed' = [t \in Callers |->
                     IF InCall(t) /\ elapsed[t] < MaxElapsed THEN elapsed[t] + 1 ELSE elapsed[t]]
    /\ UNCHANGED <<state, obeys, spawning, processes, loop, index>>

(* Everything a caller does takes no time, but for the waits. *)
Tick ==
    /\ \E t \in Callers : InCall(t)
    /\ \A t \in Callers : InCall(t) => Waiting(t)
    /\ PMTick

CallStep(t) == Terminate(t) \/ StartWaiting(t) \/ SeeExit(t) \/ Kill(t) \/ Finish(t)

PMNext ==
    \/ \E c \in Children : Popen(c) \/ Track(c) \/ Exit(c)
    \/ \E t \in Callers : TerminateAll(t) \/ CallStep(t)
    \/ Tick

PMSpec == PMInit /\ [][PMNext]_pmVars

(* Threads run, time passes, and a process that was told to stop or was     *)
(* killed ends.                                                             *)
PMFairSpec ==
    /\ PMSpec
    /\ \A t \in Callers : WF_pmVars(CallStep(t))
    /\ WF_pmVars(Tick)
    /\ \A c \in Children : WF_pmVars(state[c] \in {"stopping", "killed"} /\ Exit(c))

-------------------------------------------------------------------------------
PMTypeOK ==
    /\ state \in [Children -> States]
    /\ obeys \in [Children -> BOOLEAN]
    /\ spawning \in SUBSET Children
    /\ processes \in Seq(Children)
    /\ loop \in [Callers -> Loops]
    /\ index \in [Callers -> Nat \ {0}]
    /\ left \in [Callers -> 0 .. Timeout]
    /\ elapsed \in [Callers -> 0 .. MaxElapsed]

(* Every process the caller has gone past in its second loop has ended or   *)
(* has been killed: when terminate_all returns that is the whole list as it *)
(* is then, processes put on it during the call included.                   *)
PassedAreDoomed ==
    \A t \in Callers :
        loop[t] \in {"wait", "done"} =>
            \A i \in 1 .. Len(processes) : i < index[t] => Doomed(processes[i])

(* A started process is on the list, once, or about to be put there: none   *)
(* is forgotten.                                                            *)
NothingForgotten ==
    /\ \A c \in Children : state[c] # "unborn" <=> c \in spawning \cup ToSet(processes)
    /\ \A i, j \in 1 .. Len(processes) : processes[i] = processes[j] => i = j
    /\ spawning \cap ToSet(processes) = {}

(* The waits of one call add up: each process on the list may cost it the   *)
(* whole timeout, one after the other, and no more than that.               *)
CallBounded ==
    \A t \in Callers : InCall(t) => elapsed[t] <= Timeout * Len(processes)

(* terminate_all returns, also when processes ignore the SIGTERM, other     *)
(* threads are in it too and processes are being spawned.                   *)
EveryCallReturns == \A t \in Callers : InCall(t) ~> loop[t] = "done"
===============================================================================
