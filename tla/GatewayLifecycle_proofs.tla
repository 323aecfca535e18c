------------------------ MODULE GatewayLifecycle_proofs ------------------------
(***************************************************************************)
(* Proofs, for any workers, plugins and deadlines, that the gateway uses   *)
(* terminate_all as the module ProcessManager specifies it, that a gateway *)
(* that exits by itself leaves no child and no ready file, and that it     *)
(* exits before the host kills it if the waits fit into the deadlines.     *)
(***************************************************************************)
EXTENDS GatewayLifecycle, ProcessManager_proofs, FiniteSetTheorems

(* Where a caller is in on_shutdown tells where it is in terminate_all.    *)
ClosingOK(t) ==
    /\ closing[t] = "no" => loop[t] = "idle"
    /\ closing[t] = "terminating" => InCall(t)
    /\ closing[t] \in {"unlinking", "flagging", "over"} => loop[t] = "done"

(* Main comes last: nothing is spawned or written once it is in on_shutdown. *)
MainIsLast ==
    /\ closing[Main] # "no" => gateway \in {"finishing", "exited", "killed"}
    /\ gateway = "exited" => closing[Main] = "over"
    /\ gateway \in {"finishing", "exited"} =>
         /\ spawning = {}
         /\ loop[Main] = "done" => index[Main] > Len(processes)
         /\ closing[Main] \in {"flagging", "over"} => ~ ready_file

GLInv ==
    /\ IInv
    /\ TypeOK
    /\ \A t \in Callers : ClosingOK(t)
    /\ MainIsLast

(* Handlers of on_shutdown are callers of terminate_all, and distinct.     *)
LEMMA CallerFacts ==
    /\ Handler \in Callers /\ Watcher \in Callers /\ Main \in Callers
    /\ Handler # Main /\ Watcher # Main
BY LifecycleAssumption

(* The steps that leave the process manager alone.                         *)
OtherStep ==
    \/ StartFails \/ StartWatch \/ WriteReadyFile \/ EndActivation
    \/ \E t \in Callers : UnlinkReadyFile(t) \/ SetShouldExit(t)
    \/ RefuseShutdown
    \/ SeeReady \/ StartupFails \/ TokenExpires \/ CloseWindow \/ CloseDegraded \/ HostCrashes
    \/ HostStep

LEMMA OtherStepKeepsChildren == OtherStep => UNCHANGED pmVars
BY DEF OtherStep, StartFails, StartWatch, WriteReadyFile, EndActivation, UnlinkReadyFile,
       SetShouldExit, RefuseShutdown, SeeReady, StartupFails, TokenExpires, CloseWindow,
       CloseDegraded, HostCrashes, HostStep, StopPosting, SeeGatewayGone, KillGateway

(* The steps of the gateway, by what they do to the process manager.       *)
LEMMA NextCases ==
    ASSUME Next
    PROVE  \/ OtherStep
           \/ \E c \in Children : StartWorker(c) \/ BeginActivation(c) \/ TrackChild(c) \/ ChildExits(c)
           \/ \E t \in Callers : TerminateStep(t)
           \/ AcceptShutdown \/ NoticeHostGone \/ StopServing
           \/ Second
BY DEF Next, OtherStep, ShutdownStep, LoopStep

(* A second of the lifecycle is a tick of terminate_all, or nothing to it. *)
LEMMA SecondIsTick ==
    ASSUME TypeOK, Second PROVE Tick \/ UNCHANGED pmVars
<1>1. PMTick /\ \A t \in Callers : InCall(t) => Waiting(t)
  BY DEF Second, Quiet
<1>2. CASE \E t \in Callers : InCall(t)
  BY <1>1, <1>2 DEF Tick
<1>3. CASE ~ \E t \in Callers : InCall(t)
  <2>1. \A t \in Callers : ~ InCall(t) /\ ~ Waiting(t)
    BY <1>3 DEF Waiting, InCall
  <2>2. left' = left /\ elapsed' = elapsed
    BY <1>1, <2>1 DEF PMTick, TypeOK, PMTypeOK
  <2> QED BY <1>1, <2>2 DEF PMTick, pmVars
<1> QED BY <1>2, <1>3

LEMMA StepIsProcessManagerStep ==
    ASSUME TypeOK, [Next]_vars PROVE [PMNext]_pmVars
<1>1. CASE UNCHANGED vars
  BY <1>1 DEF vars
<1>2. CASE OtherStep
  BY <1>2, OtherStepKeepsChildren
<1>3. ASSUME NEW c \in Children, StartWorker(c) \/ BeginActivation(c) \/ TrackChild(c) \/ ChildExits(c)
      PROVE  PMNext
  BY <1>3 DEF StartWorker, BeginActivation, TrackChild, ChildExits, PMNext
<1>4. ASSUME NEW t \in Callers, TerminateStep(t) PROVE PMNext
  BY <1>4 DEF TerminateStep, PMNext
<1>5. CASE AcceptShutdown \/ NoticeHostGone \/ StopServing
  BY <1>5, CallerFacts DEF AcceptShutdown, NoticeHostGone, StopServing, BeginShutdown, PMNext
<1>6. CASE Second
  BY <1>6, SecondIsTick DEF PMNext
<1> QED BY <1>1, <1>2, <1>3, <1>4, <1>5, <1>6, NextCases

LEMMA DeadlineFacts ==
    /\ PostTimeout \in Nat /\ KillAfter \in Nat /\ BootTimeout \in Nat
    /\ {0, PostTimeout, KillAfter} \subseteq 0 .. PostTimeout + KillAfter
    /\ {0, BootTimeout} \subseteq 0 .. BootTimeout
BY LifecycleAssumption

LEMMA CountdownStays ==
    ASSUME NEW m \in Nat, NEW n \in 0 .. m PROVE Countdown(n) \in 0 .. m
BY DEF Countdown

LEMMA TypeKept ==
    ASSUME TypeOK, PMTypeOK', [Next]_vars PROVE TypeOK'
<1> USE DEF TypeOK
<1>1. CASE UNCHANGED vars
  BY <1>1 DEF vars, glVars
<1>2. CASE OtherStep
  <2> USE DEF Hosts, Gateways, Closings, Requests
  <2>0. /\ 0 \in 0 .. BootTimeout
        /\ PostTimeout \in 0 .. PostTimeout + KillAfter /\ KillAfter \in 0 .. PostTimeout + KillAfter
    BY DeadlineFacts
  <2>1. CASE StartFails \/ StartWatch \/ WriteReadyFile \/ EndActivation \/ RefuseShutdown
    BY <2>0, <2>1 DEF StartFails, StartWatch, WriteReadyFile, EndActivation, RefuseShutdown
  <2>2. ASSUME NEW t \in Callers, UnlinkReadyFile(t) \/ SetShouldExit(t) PROVE TypeOK'
    BY <2>2 DEF UnlinkReadyFile, SetShouldExit
  <2>3. CASE SeeReady \/ StartupFails \/ TokenExpires \/ CloseDegraded \/ HostCrashes
    BY <2>3 DEF SeeReady, StartupFails, TokenExpires, CloseDegraded, HostCrashes
  <2>4. CASE CloseWindow \/ HostStep
    BY <2>0, <2>4 DEF CloseWindow, HostStep, StopPosting, SeeGatewayGone, KillGateway
  <2> QED BY <1>2, <2>1, <2>2, <2>3, <2>4 DEF OtherStep
<1>3. ASSUME NEW c \in Children, StartWorker(c) \/ BeginActivation(c) \/ TrackChild(c) \/ ChildExits(c)
      PROVE  TypeOK'
  BY <1>3, DeadlineFacts DEF StartWorker, BeginActivation, TrackChild, ChildExits, glVars
<1>4. ASSUME NEW t \in Callers, TerminateStep(t) PROVE TypeOK'
  BY <1>4 DEF TerminateStep, Closings
<1>5. CASE AcceptShutdown \/ NoticeHostGone \/ StopServing
  BY <1>5 DEF AcceptShutdown, NoticeHostGone, StopServing, BeginShutdown, Closings, Gateways, Requests
<1>6. CASE Second
  <2>1. PostTimeout + KillAfter \in Nat
    BY DeadlineFacts
  <2>2. Countdown(host_left) \in 0 .. PostTimeout + KillAfter /\ Countdown(boot) \in 0 .. BootTimeout
    BY <2>1, DeadlineFacts, CountdownStays
  <2> QED BY <1>6, <2>2 DEF Second
<1> QED BY <1>1, <1>2, <1>3, <1>4, <1>5, <1>6, NextCases

(* What a step of terminate_all does to the place of its caller.           *)
LEMMA CallStepMoves ==
    ASSUME PMTypeOK, NEW t \in Callers, CallStep(t)
    PROVE  /\ InCall(t)
           /\ loop'[t] \in {"term", "wait", "done"}
           /\ \A u \in Callers \ {t} : loop'[u] = loop[u] /\ index'[u] = index[u]
           /\ UNCHANGED <<processes, spawning>>
           /\ loop'[t] = "done" => index'[t] > Len(processes)
<1> USE DEF PMTypeOK, InCall, Advance, StartLoop
<1>1. CASE Terminate(t) \/ SeeExit(t) \/ Kill(t)
  BY <1>1 DEF Terminate, SeeExit, Kill
<1>2. CASE StartWaiting(t)
  BY <1>2 DEF StartWaiting
<1>3. CASE Finish(t)
  <2>1. ~ (index[t] <= Len(processes)) /\ Len(processes) \in Nat /\ index[t] \in Nat
    BY <1>3 DEF Finish, More
  <2> QED BY <1>3, <2>1 DEF Finish
<1> QED BY <1>1, <1>2, <1>3 DEF CallStep

LEMMA ClosingKept ==
    ASSUME GLInv, [Next]_vars PROVE (\A t \in Callers : ClosingOK(t))'
<1> USE DEF GLInv, TypeOK
<1> SUFFICES ASSUME NEW u \in Callers PROVE ClosingOK(u)'
  OBVIOUS
<1>0. ClosingOK(u)
  OBVIOUS
<1>1. CASE UNCHANGED <<loop, closing>>
  BY <1>0, <1>1 DEF ClosingOK, InCall
<1>2. CASE OtherStep
  <2>1. UNCHANGED loop
    BY <1>2, OtherStepKeepsChildren DEF pmVars
  <2>2. CASE UNCHANGED closing
    BY <1>1, <2>1, <2>2
  <2>3. ASSUME NEW t \in Callers, UnlinkReadyFile(t) \/ SetShouldExit(t) PROVE ClosingOK(u)'
    BY <1>0, <2>1, <2>3 DEF UnlinkReadyFile, SetShouldExit, ClosingOK, InCall
  <2> QED BY <1>2, <2>2, <2>3
      DEF OtherStep, StartFails, StartWatch, WriteReadyFile, EndActivation, RefuseShutdown,
          SeeReady, StartupFails, TokenExpires, CloseWindow, CloseDegraded, HostCrashes, HostStep,
          StopPosting, SeeGatewayGone, KillGateway
<1>3. ASSUME NEW c \in Children, StartWorker(c) \/ BeginActivation(c) \/ TrackChild(c) \/ ChildExits(c)
      PROVE  UNCHANGED <<loop, closing>>
  BY <1>3 DEF StartWorker, BeginActivation, TrackChild, ChildExits, glVars, Popen, Track, Exit, callVars
<1>4. ASSUME NEW t \in Callers, TerminateStep(t) PROVE ClosingOK(u)'
  BY <1>0, <1>4, CallStepMoves DEF TerminateStep, ClosingOK, InCall
<1>5. CASE AcceptShutdown \/ NoticeHostGone \/ StopServing
  BY <1>0, <1>5, CallerFacts DEF AcceptShutdown, NoticeHostGone, StopServing, BeginShutdown, TerminateAll,
         StartLoop, ClosingOK, InCall, PMTypeOK
<1>6. CASE Second
  BY <1>1, <1>6 DEF Second, PMTick
<1> QED BY <1>1, <1>2, <1>3, <1>4, <1>5, <1>6, NextCases DEF vars, pmVars, glVars

LEMMA MainIsLastKept ==
    ASSUME GLInv, [Next]_vars PROVE MainIsLast'
<1> USE CallerFacts DEF GLInv, TypeOK, MainIsLast
<1>1. CASE UNCHANGED <<gateway, closing, spawning, loop, index, processes, ready_file>>
  BY <1>1
<1>2. CASE OtherStep
  <2>1. UNCHANGED <<spawning, loop, index, processes>>
    BY <1>2, OtherStepKeepsChildren DEF pmVars
  <2>2. CASE StartFails \/ StartWatch \/ WriteReadyFile
    BY <2>1, <2>2 DEF StartFails, StartWatch, WriteReadyFile
  <2>3. CASE EndActivation \/ RefuseShutdown \/ SeeReady \/ StartupFails \/ TokenExpires
             \/ CloseWindow \/ CloseDegraded \/ HostCrashes \/ StopPosting
    BY <1>1, <2>1, <2>3 DEF EndActivation, RefuseShutdown, SeeReady, StartupFails, TokenExpires,
       CloseWindow, CloseDegraded, HostCrashes, StopPosting
  <2>4. ASSUME NEW t \in Callers, UnlinkReadyFile(t) PROVE MainIsLast'
    BY <2>1, <2>4 DEF UnlinkReadyFile
  <2>5. ASSUME NEW t \in Callers, SetShouldExit(t) PROVE MainIsLast'
    BY <2>1, <2>5 DEF SetShouldExit, Alive
  <2>6. CASE SeeGatewayGone \/ KillGateway
    BY <2>1, <2>6 DEF SeeGatewayGone, KillGateway, Alive
  <2> QED BY <1>2, <2>2, <2>3, <2>4, <2>5, <2>6 DEF OtherStep, HostStep
<1>3. ASSUME NEW c \in Children, StartWorker(c) \/ BeginActivation(c) \/ TrackChild(c) \/ ChildExits(c)
      PROVE  MainIsLast'
  <2>1. UNCHANGED <<gateway, closing, loop, index, ready_file>>
    BY <1>3 DEF StartWorker, BeginActivation, TrackChild, ChildExits, glVars, Popen, Track, Exit, callVars
  <2>2. CASE StartWorker(c) \/ BeginActivation(c)
    BY <2>1, <2>2 DEF StartWorker, BeginActivation, LoopFree
  <2>3. CASE TrackChild(c)
    BY <2>1, <2>3 DEF TrackChild, Track
  <2>4. CASE ChildExits(c)
    BY <1>1, <2>1, <2>4 DEF ChildExits, Exit
  <2> QED BY <1>3, <2>2, <2>3, <2>4
<1>4. ASSUME NEW t \in Callers, TerminateStep(t) PROVE MainIsLast'
  <2>1. UNCHANGED <<gateway, ready_file, spawning, processes>>
    BY <1>4, CallStepMoves DEF TerminateStep
  <2>2. CASE t = Main
    BY <1>4, <2>1, <2>2, CallStepMoves DEF TerminateStep
  <2>3. CASE t # Main
    <3>1. loop'[Main] = loop[Main] /\ index'[Main] = index[Main] /\ closing'[Main] = closing[Main]
      BY <1>4, <2>3, CallStepMoves DEF TerminateStep
    <3> QED BY <2>1, <3>1
  <2> QED BY <2>2, <2>3
<1>5. CASE AcceptShutdown \/ NoticeHostGone
  <2>1. /\ UNCHANGED <<gateway, ready_file, spawning, processes>>
        /\ closing'[Main] = closing[Main] /\ loop'[Main] = loop[Main] /\ index'[Main] = index[Main]
    BY <1>5 DEF AcceptShutdown, NoticeHostGone, BeginShutdown, TerminateAll, StartLoop, PMTypeOK
  <2> QED BY <2>1
<1>6. CASE StopServing
  BY <1>6 DEF StopServing, BeginShutdown, TerminateAll, StartLoop, LoopFree, PMTypeOK
<1>7. CASE Second
  BY <1>1, <1>7 DEF Second, PMTick
<1> QED BY <1>1, <1>2, <1>3, <1>4, <1>5, <1>6, <1>7, NextCases DEF vars, pmVars, glVars

LEMMA InitGLInv == Init => GLInv
<1> SUFFICES ASSUME Init PROVE GLInv
  OBVIOUS
<1>1. IInv
  BY InitIInv DEF Init
<1>2. TypeOK
  BY <1>1, DeadlineFacts DEF Init, TypeOK, IInv, Hosts, Gateways, Closings, Requests
<1>3. (\A t \in Callers : ClosingOK(t)) /\ MainIsLast
  BY CallerFacts DEF Init, PMInit, ClosingOK, MainIsLast
<1> QED BY <1>1, <1>2, <1>3 DEF GLInv

LEMMA NextGLInv == GLInv /\ [Next]_vars => GLInv'
<1> SUFFICES ASSUME GLInv, [Next]_vars PROVE GLInv'
  OBVIOUS
<1>1. IInv'
  BY StepIsProcessManagerStep, NextKeepsIInv DEF GLInv
<1>2. TypeOK'
  BY <1>1, TypeKept DEF GLInv, IInv
<1> QED BY <1>1, <1>2, ClosingKept, MainIsLastKept DEF GLInv

THEOREM GLInvariance == Spec => []GLInv
BY InitGLInv, NextGLInv, PTL DEF Spec

(* Type correctness of the gateway's life.                                 *)
THEOREM LifecycleTypeCorrect == Spec => []TypeOK
<1>1. GLInv => TypeOK
  BY DEF GLInv
<1> QED BY <1>1, GLInvariance, PTL

(* Handler, watch and main use terminate_all as ProcessManager specifies.  *)
THEOREM UsesProcessManager == Spec => ImplementsProcessManager
<1>1. Init => PMInit
  BY DEF Init
<1>2. GLInv /\ [Next]_vars => [PMNext]_pmVars
  BY StepIsProcessManagerStep DEF GLInv
<1> QED BY <1>1, <1>2, GLInvariance, PTL DEF Spec, PMSpec, ImplementsProcessManager

(* So what is proved of terminate_all holds of it, whichever of the three   *)
(* parties call it and however they interleave.                             *)
THEOREM ChildrenAreManaged == Spec => [](PassedAreDoomed /\ NothingForgotten /\ CallBounded)
BY UsesProcessManager, LeavesOnlyDoomed, ForgetsNothing, CallIsBounded, PTL
   DEF ImplementsProcessManager

(* A gateway that exits by itself leaves no child that has neither ended   *)
(* nor been killed, for any number of workers and plugins.                 *)
THEOREM LeavesNoChild == Spec => []ExitLeavesNoChild
<1>1. GLInv => ExitLeavesNoChild
  <2> SUFFICES ASSUME GLInv, gateway = "exited", NEW c \in Children, state[c] # "unborn"
               PROVE  Doomed(c)
    BY DEF ExitLeavesNoChild
  <2> USE DEF GLInv
  <2>1. spawning = {} /\ loop[Main] = "done" /\ index[Main] > Len(processes)
    BY CallerFacts DEF MainIsLast, ClosingOK
  <2>2. c \in ToSet(processes)
    BY <2>1 DEF IInv, NothingForgotten
  <2>3. PICK i \in 1 .. Len(processes) : processes[i] = c
    BY <2>2, ListFacts DEF ToSet, IInv
  <2>4. i < index[Main]
    BY <2>1, <2>3, CallerFacts DEF IInv, PMTypeOK
  <2> QED BY <2>1, <2>3, <2>4, CallerFacts DEF IInv, PassedAreDoomed
<1> QED BY <1>1, GLInvariance, PTL

(* ... and no ready file.                                                  *)
THEOREM LeavesNoReadyFile == Spec => []ExitLeavesNoReadyFile
<1>1. GLInv => ExitLeavesNoReadyFile
  BY DEF GLInv, MainIsLast, ExitLeavesNoReadyFile
<1> QED BY <1>1, GLInvariance, PTL

-------------------------------------------------------------------------------
(* The orderly end.  From the window's closing to the gateway's end, the    *)
(* shutdown is the handler's: it is asked for, runs, and is answered, and   *)
(* the time it may still take stays below the time the host still gives.    *)
Closing == host \in {"posting", "polling"}

(* Nothing stops the gateway while the host has its window.                *)
BeforeClosing ==
    host \in {"waiting", "degraded", "open"} =>
        /\ request = "none" /\ ~ should_exit
        /\ closing[Handler] = "no" /\ closing[Main] = "no"
        /\ gateway \in {"starting", "watching", "serving", "failed"}

WatchSleeps == host # "gone" => closing[Watcher] = "no"

OpenWhenServing ==
    /\ host = "open" => gateway = "serving"
    /\ ready_file => gateway \notin {"starting", "watching", "failed"}

MainIsIn == gateway = "finishing" => closing[Main] \in {"terminating", "unlinking", "flagging"}

(* With no plugin spawned since, every child on the list that the handler  *)
(* has gone past has been asked to stop, and only one that ignores the     *)
(* SIGTERM is still running as if nothing had happened.                    *)
Asked ==
    ~ late =>
        /\ spawning = {} /\ boot = 0
        /\ loop[Handler] = "done" => index[Handler] > Len(processes)
        /\ \A i \in 1 .. Len(processes) :
             (loop[Handler] = "term" => i < index[Handler]) /\ obeys[processes[i]]
                 => state[processes[i]] # "running"

Requested ==
    /\ request = "pending" /\ closing[Handler] = "no"
    /\ gateway = "serving" /\ ~ should_exit

BeingHandled ==
    /\ request = "handling" /\ closing[Handler] \in {"terminating", "unlinking", "flagging"}
    /\ gateway = "serving" /\ ~ should_exit
    /\ Asked

HasBeenHandled ==
    /\ request = "answered" /\ closing[Handler] = "over"
    /\ gateway \in {"serving", "finishing", "exited"} /\ should_exit
    /\ Asked

Phases == Closing /\ token = "valid" => Requested \/ BeingHandled \/ HasBeenHandled

(* The children on the list from a position on that ignore SIGTERM, and    *)
(* the time the handler may still have to wait for them.                   *)
FromHere(i) == {c \in Stubborn : \E j \in i .. Len(processes) : processes[j] = c}
Cost(i) == Timeout * Cardinality(FromHere(i))

Remaining ==
    IF request = "pending" THEN boot + Timeout * Cardinality(Stubborn)
    ELSE IF loop[Handler] = "term" THEN Timeout * Cardinality(Stubborn)
    ELSE IF loop[Handler] = "wait"
         THEN (IF More(Handler) /\ Current(Handler) \in Stubborn THEN left[Handler] ELSE 0)
              + Cost(index[Handler] + 1)
    ELSE 0

TimeLeft == host_left + (IF host = "posting" THEN KillAfter ELSE 0)

InTime == Closing /\ Alive /\ WithinBudget => Remaining < TimeLeft

CloseInv ==
    /\ BeforeClosing
    /\ WatchSleeps
    /\ OpenWhenServing
    /\ MainIsIn
    /\ Phases
    /\ InTime
    /\ CloseIsOrderly

(* A process that has been started never becomes a new one, and is never   *)
(* again as it was before its SIGTERM.                                     *)
LEMMA ProcessFacts ==
    ASSUME GLInv, [Next]_vars, NEW c \in Children
    PROVE  /\ obeys' = obeys
           /\ state[c] # "unborn" => state'[c] # "unborn"
           /\ state[c] # "unborn" /\ state'[c] = "running" => state[c] = "running"
<1> USE DEF PMTypeOK
<1>1. PMTypeOK /\ [PMNext]_pmVars
  BY StepIsProcessManagerStep DEF GLInv, IInv
<1>2. CASE UNCHANGED <<state, obeys>>
  BY <1>2
<1>3. ASSUME NEW d \in Children, Popen(d) \/ Track(d) \/ Exit(d)
      PROVE  /\ obeys' = obeys
             /\ state[c] # "unborn" => state'[c] # "unborn"
             /\ state[c] # "unborn" /\ state'[c] = "running" => state[c] = "running"
  BY <1>1, <1>3 DEF Popen, Track, Exit
<1>4. ASSUME NEW t \in Callers, TerminateAll(t) \/ CallStep(t)
      PROVE  /\ obeys' = obeys
             /\ state[c] # "unborn" => state'[c] # "unborn"
             /\ state[c] # "unborn" /\ state'[c] = "running" => state[c] = "running"
  BY <1>1, <1>4
     DEF TerminateAll, CallStep, Terminate, StartWaiting, SeeExit, Kill, Finish, Advance
<1>5. CASE Tick
  BY <1>2, <1>5 DEF Tick, PMTick
<1> QED BY <1>1, <1>2, <1>3, <1>4, <1>5 DEF PMNext, pmVars

(* Only a step that starts a process makes the stubborn ones more.         *)
LEMMA StubbornKept ==
    ASSUME GLInv, [Next]_vars,
           \A c \in Children : ~ StartWorker(c) /\ ~ BeginActivation(c)
    PROVE  Stubborn' = Stubborn
<1> SUFFICES ASSUME NEW c \in Children PROVE state'[c] = "unborn" <=> state[c] = "unborn"
  BY ProcessFacts DEF Stubborn
<1> SUFFICES ASSUME state[c] = "unborn" PROVE state'[c] = "unborn"
  BY ProcessFacts
<1> USE DEF GLInv, IInv, PMTypeOK
<1>1. CASE UNCHANGED state
  BY <1>1
<1>2. CASE OtherStep
  BY <1>1, <1>2, OtherStepKeepsChildren DEF pmVars
<1>3. ASSUME NEW d \in Children, TrackChild(d) \/ ChildExits(d) PROVE state'[c] = "unborn"
  BY <1>3 DEF TrackChild, Track, ChildExits, Exit, Live
<1>4. ASSUME NEW t \in Callers, TerminateStep(t) PROVE state'[c] = "unborn"
  <2>1. CallStep(t)
    BY <1>4 DEF TerminateStep
  <2>2. CASE Terminate(t)
    BY <2>2 DEF Terminate
  <2>3. CASE Kill(t)
    BY <2>3 DEF Kill, Live
  <2> QED BY <1>1, <2>1, <2>2, <2>3 DEF CallStep, StartWaiting, SeeExit, Finish
<1>5. CASE AcceptShutdown \/ NoticeHostGone \/ StopServing
  BY <1>1, <1>5 DEF AcceptShutdown, NoticeHostGone, StopServing, BeginShutdown, TerminateAll
<1>6. CASE Second
  BY <1>1, <1>6 DEF Second, PMTick
<1> QED BY <1>1, <1>2, <1>3, <1>4, <1>5, <1>6, NextCases DEF vars, pmVars

LEMMA StubbornFacts ==
    ASSUME NEW i \in Nat
    PROVE  /\ IsFiniteSet(Stubborn) /\ Cardinality(Stubborn) \in Nat
           /\ IsFiniteSet(FromHere(i)) /\ Cardinality(FromHere(i)) \in Nat
           /\ Timeout * Cardinality(Stubborn) \in Nat
           /\ Cost(i) \in Nat
           /\ Cost(i) <= Timeout * Cardinality(Stubborn)
<1>1. IsFiniteSet(Stubborn) /\ Cardinality(Stubborn) \in Nat
  BY LifecycleAssumption, FS_Subset, FS_CardinalityType DEF Stubborn
<1>2. FromHere(i) \in SUBSET Stubborn
  BY DEF FromHere
<1>3. IsFiniteSet(FromHere(i)) /\ Cardinality(FromHere(i)) <= Cardinality(Stubborn)
  BY <1>1, <1>2, FS_Subset
<1>4. Cardinality(FromHere(i)) \in Nat
  BY <1>3, FS_CardinalityType
<1>5. Timeout * Cardinality(FromHere(i)) <= Timeout * Cardinality(Stubborn)
  BY <1>1, <1>3, <1>4, MoreProcessesMoreTime
<1>6. ASSUME NEW n \in Nat PROVE Timeout * n \in Nat
  BY ProcessManagerAssumption
<1> QED BY <1>1, <1>3, <1>4, <1>5, <1>6 DEF Cost

(* What one position on the list costs, and all from there on.             *)
LEMMA CostFacts ==
    ASSUME GLInv, NEW i \in 1 .. Len(processes)
    PROVE  Cost(i) = (IF processes[i] \in Stubborn THEN Timeout ELSE 0) + Cost(i + 1)
<1> DEFINE c == processes[i]
<1>0. i \in Nat /\ i + 1 \in Nat /\ Len(processes) \in Nat
  BY ListFacts DEF GLInv, IInv
<1>1. \A j \in 1 .. Len(processes) : processes[j] = c => j = i
  BY DEF GLInv, IInv, NothingForgotten
<1>2. FromHere(i + 1) = FromHere(i) \ {c}
  BY <1>0, <1>1 DEF FromHere
<1>3. c \in FromHere(i) <=> c \in Stubborn
  BY <1>0 DEF FromHere
<1>4. IsFiniteSet(FromHere(i)) /\ Cardinality(FromHere(i)) \in Nat
      /\ Cardinality(FromHere(i + 1)) \in Nat
  BY <1>0, StubbornFacts
<1>5. Cardinality(FromHere(i + 1)) =
        IF c \in FromHere(i) THEN Cardinality(FromHere(i)) - 1 ELSE Cardinality(FromHere(i))
  BY <1>2, <1>4, FS_RemoveElement
<1>6. CASE c \in Stubborn
  <2>1. Cardinality(FromHere(i)) = Cardinality(FromHere(i + 1)) + 1
    BY <1>3, <1>4, <1>5, <1>6
  <2>2. \A n \in Nat : Timeout * (n + 1) = Timeout + Timeout * n
    BY ProcessManagerAssumption
  <2> QED BY <1>4, <1>6, <2>1, <2>2 DEF Cost
<1>7. CASE c \notin Stubborn
  <2>1. Cost(i + 1) = Cost(i) /\ Cost(i) \in Nat
    BY <1>0, <1>3, <1>5, <1>7, StubbornFacts DEF Cost
  <2> QED BY <1>7, <2>1
<1> QED BY <1>6, <1>7

LEMMA TimeFacts ==
    ASSUME GLInv
    PROVE  /\ Remaining \in Nat /\ TimeLeft \in Nat /\ host_left \in Nat /\ boot \in Nat
           /\ left[Handler] \in 0 .. Timeout /\ index[Handler] \in Nat
           /\ KillAfter \in Nat \ {0} /\ PostTimeout \in Nat \ {0} /\ BootTimeout \in Nat
           /\ Timeout \in Nat
<1>1. /\ host_left \in Nat /\ boot \in Nat
      /\ KillAfter \in Nat \ {0} /\ PostTimeout \in Nat \ {0} /\ BootTimeout \in Nat
  BY LifecycleAssumption DEF GLInv, TypeOK
<1>2. left[Handler] \in 0 .. Timeout /\ index[Handler] \in Nat /\ Timeout \in Nat
  BY CallerFacts, ProcessManagerAssumption DEF GLInv, TypeOK, PMTypeOK
<1>3. Cost(index[Handler] + 1) \in Nat /\ Timeout * Cardinality(Stubborn) \in Nat
  BY <1>2, StubbornFacts
<1> QED BY <1>1, <1>2, <1>3 DEF Remaining, TimeLeft

(* Until the window is closed nothing but the host's end starts an          *)
(* on_shutdown, and the host that waits has a gateway that has not stopped. *)
LEMMA BeforeClosingKept ==
    ASSUME GLInv, CloseInv, [Next]_vars
    PROVE  (BeforeClosing /\ WatchSleeps /\ OpenWhenServing /\ MainIsIn)'
<1> USE CallerFacts DEF CloseInv, BeforeClosing, WatchSleeps, OpenWhenServing, MainIsIn
<1> DEFINE Goal == BeforeClosing /\ WatchSleeps /\ OpenWhenServing /\ MainIsIn
<1>0. closing \in [Callers -> Closings] /\ Callers = {Handler, Watcher, Main}
      /\ host \in Hosts /\ gateway \in Gateways
  BY LifecycleAssumption DEF GLInv, TypeOK
<1>1. CASE UNCHANGED <<host, gateway, closing, should_exit, ready_file, request>>
  BY <1>1
<1>2. CASE OtherStep
  <2>1. CASE StartFails \/ StartWatch \/ WriteReadyFile
    BY <2>1 DEF StartFails, StartWatch, WriteReadyFile
  <2>2. CASE EndActivation \/ TokenExpires
    BY <1>1, <2>2 DEF EndActivation, TokenExpires
  <2>3. ASSUME NEW t \in Callers, UnlinkReadyFile(t) PROVE Goal'
    BY <1>0, <2>3 DEF UnlinkReadyFile
  <2>4. ASSUME NEW t \in Callers, SetShouldExit(t) PROVE Goal'
    <3>1. host \notin {"waiting", "degraded", "open"}
      BY <1>0, <2>4 DEF SetShouldExit
    <3> QED BY <1>0, <2>4, <3>1 DEF SetShouldExit, Hosts
  <2>5. CASE RefuseShutdown
    BY <2>5 DEF RefuseShutdown
  <2>6. CASE SeeReady \/ StartupFails \/ CloseDegraded \/ HostCrashes
    BY <2>6 DEF SeeReady, StartupFails, CloseDegraded, HostCrashes, Alive
  <2>7. CASE CloseWindow \/ StopPosting
    BY <2>7 DEF CloseWindow, StopPosting
  <2>8. CASE SeeGatewayGone \/ KillGateway
    BY <2>8 DEF SeeGatewayGone, KillGateway
  <2> QED BY <1>2, <2>1, <2>2, <2>3, <2>4, <2>5, <2>6, <2>7, <2>8 DEF OtherStep, HostStep
<1>3. ASSUME NEW c \in Children, StartWorker(c) \/ BeginActivation(c) \/ TrackChild(c) \/ ChildExits(c)
      PROVE  Goal'
  BY <1>1, <1>3 DEF StartWorker, BeginActivation, TrackChild, ChildExits, glVars
<1>4. ASSUME NEW t \in Callers, TerminateStep(t) PROVE Goal'
  BY <1>0, <1>4 DEF TerminateStep
<1>5. CASE AcceptShutdown
  BY <1>0, <1>5, LifecycleAssumption DEF AcceptShutdown, BeginShutdown
<1>6. CASE NoticeHostGone
  BY <1>0, <1>6 DEF NoticeHostGone, BeginShutdown
<1>7. CASE StopServing
  BY <1>0, <1>7 DEF StopServing, BeginShutdown, LoopFree
<1>8. CASE Second
  BY <1>1, <1>8 DEF Second
<1> QED BY <1>1, <1>2, <1>3, <1>4, <1>5, <1>6, <1>7, <1>8, NextCases DEF vars, glVars

(* A started process is asked before the handler goes past it, and nothing *)
(* is started once the window is closed, but by a late activation.         *)
LEMMA AskedKept ==
    ASSUME GLInv, CloseInv, [Next]_vars, Closing,
           request \in {"handling", "answered"}, gateway \in {"serving", "finishing", "exited"},
           closing[Handler] # "no", Asked
    PROVE  Asked'
<1> USE CallerFacts
<1> SUFFICES ASSUME ~ late', ~ late PROVE Asked'
  <2>1. late => late'
    BY NextCases DEF OtherStep, StartFails, StartWatch, WriteReadyFile, EndActivation,
       UnlinkReadyFile, SetShouldExit, RefuseShutdown, SeeReady, StartupFails, TokenExpires,
       CloseWindow, CloseDegraded, HostCrashes, HostStep, StopPosting, SeeGatewayGone,
       KillGateway, StartWorker, BeginActivation, TrackChild, ChildExits, TerminateStep,
       AcceptShutdown, NoticeHostGone, StopServing, Second, vars, glVars
  <2> QED BY <2>1 DEF Asked
<1>0. /\ spawning = {} /\ boot = 0
      /\ loop[Handler] = "done" => index[Handler] > Len(processes)
      /\ loop[Handler] # "idle"
      /\ PMTypeOK
  BY DEF Asked, GLInv, IInv, ClosingOK, TypeOK, Closings, InCall
<1>1. ASSUME UNCHANGED <<spawning, loop, index, processes>>, boot' = 0 PROVE Asked'
  <2> SUFFICES ASSUME NEW i \in 1 .. Len(processes), loop[Handler] = "term" => i < index[Handler],
                      obeys'[processes[i]], state'[processes[i]] = "running"
               PROVE  FALSE
    BY <1>0, <1>1 DEF Asked
  <2>1. processes[i] \in Children /\ state[processes[i]] # "unborn"
    BY ListFacts DEF GLInv, IInv, NothingForgotten, ToSet
  <2> QED BY <2>1, ProcessFacts DEF Asked
<1>2. CASE UNCHANGED vars
  BY <1>0, <1>1, <1>2 DEF vars, pmVars, glVars
<1>3. CASE OtherStep
  <2>1. boot' = 0
    BY <1>0, <1>3 DEF OtherStep, StartFails, StartWatch, WriteReadyFile, EndActivation,
       UnlinkReadyFile, SetShouldExit, RefuseShutdown, SeeReady, StartupFails, TokenExpires,
       CloseWindow, CloseDegraded, HostCrashes, HostStep, StopPosting, SeeGatewayGone, KillGateway
  <2> QED BY <1>1, <1>3, <2>1, OtherStepKeepsChildren DEF pmVars
<1>4. ASSUME NEW c \in Children, StartWorker(c) \/ BeginActivation(c) \/ TrackChild(c) \/ ChildExits(c)
      PROVE  Asked'
  <2>1. ~ StartWorker(c) /\ ~ BeginActivation(c) /\ ~ TrackChild(c)
    BY <1>0 DEF StartWorker, BeginActivation, TrackChild, Track, Closing
  <2> QED BY <1>0, <1>1, <1>4, <2>1 DEF ChildExits, Exit, callVars, glVars
<1>5. ASSUME NEW t \in Callers, TerminateStep(t) PROVE Asked'
  <2>1. /\ CallStep(t) /\ boot' = 0 /\ UNCHANGED <<spawning, processes>>
    BY <1>0, <1>5, CallStepMoves DEF TerminateStep
  <2>2. CASE t # Handler \/ SeeExit(t) \/ Kill(t) \/ Finish(t)
    <3> SUFFICES ASSUME NEW i \in 1 .. Len(processes), obeys'[processes[i]],
                        loop'[Handler] = "term" => i < index'[Handler],
                        state'[processes[i]] = "running"
                 PROVE  FALSE
      <4>1. loop'[Handler] = "done" => index'[Handler] > Len(processes')
        BY <1>0, <2>1, CallStepMoves
      <4> QED BY <1>0, <2>1, <4>1 DEF Asked
    <3>1. processes[i] \in Children /\ state[processes[i]] # "unborn"
      BY ListFacts DEF GLInv, IInv, NothingForgotten, ToSet
    <3>2. loop[Handler] = "term" => i < index[Handler]
      <4>1. CASE t # Handler
        BY <1>0, <2>1, <4>1, CallStepMoves
      <4>2. CASE t = Handler
        BY <2>2, <4>2 DEF SeeExit, Kill, Finish
      <4> QED BY <4>1, <4>2
    <3> QED BY <3>1, <3>2, ProcessFacts DEF Asked
  <2>3. CASE t = Handler /\ Terminate(t)
    <3>1. /\ loop[Handler] = "term" /\ More(Handler) /\ index[Handler] \in Nat
          /\ UNCHANGED <<loop, obeys>> /\ index' = [index EXCEPT ![Handler] = @ + 1]
          /\ Current(Handler) \in Children
      BY <1>0, <2>3, ListFacts DEF Terminate, Advance, PMTypeOK
    <3>2. index'[Handler] = index[Handler] + 1
      BY <1>0, <3>1 DEF PMTypeOK
    <3> SUFFICES ASSUME NEW i \in 1 .. Len(processes), obeys[processes[i]],
                        i < index[Handler] + 1,
                        state'[processes[i]] = "running"
                 PROVE  FALSE
      BY <1>0, <2>1, <3>1, <3>2 DEF Asked
    <3>3. processes[i] \in Children /\ state[processes[i]] # "unborn"
      BY ListFacts DEF GLInv, IInv, NothingForgotten, ToSet
    <3>4. CASE i < index[Handler]
      BY <3>1, <3>3, <3>4, ProcessFacts DEF Asked
    <3>5. CASE i = index[Handler]
      BY <1>0, <2>3, <3>1, <3>3, <3>5 DEF Terminate, Current, PMTypeOK
    <3> QED BY <3>1, <3>4, <3>5
  <2>4. CASE t = Handler /\ StartWaiting(t)
    <3>1. /\ loop[Handler] = "term" /\ ~ More(Handler) /\ UNCHANGED <<state, obeys>>
          /\ loop'[Handler] = "wait"
      BY <1>0, <2>4 DEF StartWaiting, StartLoop, PMTypeOK
    <3>2. \A i \in 1 .. Len(processes) : i < index[Handler]
      BY <1>0, <3>1, ListFacts DEF More, PMTypeOK
    <3> QED BY <1>0, <2>1, <3>1, <3>2 DEF Asked
  <2> QED BY <2>1, <2>2, <2>3, <2>4 DEF CallStep
<1>6. CASE AcceptShutdown \/ NoticeHostGone
  BY <1>6 DEF AcceptShutdown, NoticeHostGone, Closing
<1>7. CASE StopServing
  <2>1. /\ UNCHANGED <<spawning, processes, state, obeys, boot>>
        /\ loop'[Handler] = loop[Handler] /\ index'[Handler] = index[Handler]
    BY <1>0, <1>7 DEF StopServing, BeginShutdown, TerminateAll, StartLoop, PMTypeOK
  <2> QED BY <1>0, <2>1 DEF Asked
<1>8. CASE Second
  BY <1>0, <1>1, <1>8 DEF Second, PMTick, Countdown
<1> QED BY <1>2, <1>3, <1>4, <1>5, <1>6, <1>7, <1>8, NextCases

(* What a step may do to the host, the token and the history.              *)
LEMMA LateForGood ==
    ASSUME TypeOK, [Next]_vars
    PROVE  /\ late => late'
           /\ token' = "valid" => token = "valid"
           /\ Closing' /\ ~ CloseWindow => Closing
           /\ gateway = "killed" => gateway' = "killed"
<1> USE DEF Closing
<1>1. CASE OtherStep
  BY <1>1 DEF OtherStep, StartFails, StartWatch, WriteReadyFile, EndActivation,
     UnlinkReadyFile, SetShouldExit, RefuseShutdown, SeeReady, StartupFails, TokenExpires,
     CloseWindow, CloseDegraded, HostCrashes, HostStep, StopPosting, SeeGatewayGone,
     KillGateway, Alive
<1>2. ASSUME UNCHANGED <<host, token>>, late => late', gateway = "killed" => gateway' = "killed"
      PROVE  /\ late => late'
             /\ token' = "valid" => token = "valid"
             /\ Closing' /\ ~ CloseWindow => Closing
             /\ gateway = "killed" => gateway' = "killed"
  BY <1>2
<1>3. CASE UNCHANGED vars
  BY <1>2, <1>3 DEF vars, glVars
<1>4. ASSUME NEW c \in Children, StartWorker(c) \/ BeginActivation(c) \/ TrackChild(c) \/ ChildExits(c)
      PROVE  UNCHANGED <<host, token, gateway>> /\ (late => late')
  <2>1. CASE BeginActivation(c)
    BY <2>1 DEF BeginActivation
  <2>2. CASE ~ BeginActivation(c)
    BY <1>4, <2>2 DEF StartWorker, TrackChild, ChildExits, glVars
  <2> QED BY <2>1, <2>2
<1>5. ASSUME NEW t \in Callers, TerminateStep(t)
      PROVE  UNCHANGED <<host, token, gateway, late>>
  BY <1>5 DEF TerminateStep
<1>6. CASE AcceptShutdown \/ NoticeHostGone \/ StopServing
  BY <1>2, <1>6 DEF AcceptShutdown, NoticeHostGone, StopServing, LoopFree
<1>7. CASE Second
  BY <1>2, <1>7 DEF Second
<1> QED BY <1>1, <1>2, <1>3, <1>4, <1>5, <1>6, <1>7, NextCases

LEMMA PhasesKept ==
    ASSUME GLInv, CloseInv, [Next]_vars PROVE Phases'
<1> USE CallerFacts
<1> SUFFICES ASSUME Closing', token' = "valid"
             PROVE  (Requested \/ BeingHandled \/ HasBeenHandled)'
  BY DEF Phases
<1>1. CASE CloseWindow
  BY <1>1 DEF CloseWindow, CloseInv, BeforeClosing, OpenWhenServing, Requested
<1> SUFFICES ASSUME ~ CloseWindow PROVE (Requested \/ BeingHandled \/ HasBeenHandled)'
  BY <1>1
<1>0. /\ Closing /\ token = "valid" /\ host # "gone" /\ TypeOK
      /\ Requested \/ BeingHandled \/ HasBeenHandled
      /\ closing[Watcher] = "no"
      /\ closing[Main] # "no" => gateway \in {"finishing", "exited", "killed"}
      /\ Callers = {Handler, Watcher, Main}
  BY LateForGood, LifecycleAssumption DEF Closing, CloseInv, Phases, WatchSleeps, GLInv, MainIsLast
<1>2. ASSUME BeingHandled \/ HasBeenHandled PROVE Asked'
  BY <1>0, <1>2, AskedKept DEF BeingHandled, HasBeenHandled
<1>3. ASSUME UNCHANGED <<request, gateway, should_exit>>, closing'[Handler] = closing[Handler]
      PROVE  (Requested \/ BeingHandled \/ HasBeenHandled)'
  BY <1>0, <1>2, <1>3 DEF Requested, BeingHandled, HasBeenHandled
<1>4. CASE UNCHANGED vars
  BY <1>3, <1>4 DEF vars, glVars
<1>5. CASE OtherStep
  <2>1. CASE StartFails \/ StartWatch \/ WriteReadyFile \/ RefuseShutdown
    BY <1>0, <2>1 DEF StartFails, StartWatch, WriteReadyFile, RefuseShutdown, Requested,
       BeingHandled, HasBeenHandled
  <2>2. CASE EndActivation \/ TokenExpires \/ StopPosting \/ SeeReady \/ StartupFails
    BY <1>3, <2>2 DEF EndActivation, TokenExpires, StopPosting, SeeReady, StartupFails
  <2>3. CASE CloseDegraded \/ HostCrashes \/ SeeGatewayGone \/ KillGateway
    BY <2>3 DEF CloseDegraded, HostCrashes, SeeGatewayGone, KillGateway, Closing
  <2>4. ASSUME NEW t \in Callers, UnlinkReadyFile(t)
        PROVE  (Requested \/ BeingHandled \/ HasBeenHandled)'
    <3>1. CASE t # Handler
      BY <1>0, <1>3, <2>4, <3>1 DEF UnlinkReadyFile, TypeOK
    <3>2. CASE t = Handler
      BY <1>0, <1>2, <2>4, <3>2 DEF UnlinkReadyFile, TypeOK, Requested, BeingHandled, HasBeenHandled
    <3> QED BY <3>1, <3>2
  <2>5. ASSUME NEW t \in Callers, SetShouldExit(t)
        PROVE  (Requested \/ BeingHandled \/ HasBeenHandled)'
    <3>1. CASE t = Handler
      BY <1>0, <1>2, <2>5, <3>1 DEF SetShouldExit, TypeOK, Requested, BeingHandled, HasBeenHandled
    <3>2. CASE t = Main
      BY <1>0, <1>2, <2>5, <3>2 DEF SetShouldExit, TypeOK, Requested, BeingHandled, HasBeenHandled
    <3> QED BY <1>0, <2>5, <3>1, <3>2 DEF SetShouldExit
  <2> QED BY <1>5, <2>1, <2>2, <2>3, <2>4, <2>5 DEF OtherStep, HostStep
<1>6. ASSUME NEW c \in Children, StartWorker(c) \/ BeginActivation(c) \/ TrackChild(c) \/ ChildExits(c)
      PROVE  (Requested \/ BeingHandled \/ HasBeenHandled)'
  BY <1>3, <1>6 DEF StartWorker, BeginActivation, TrackChild, ChildExits, glVars
<1>7. ASSUME NEW t \in Callers, TerminateStep(t)
      PROVE  (Requested \/ BeingHandled \/ HasBeenHandled)'
  <2>1. CASE t # Handler
    BY <1>0, <1>3, <1>7, <2>1 DEF TerminateStep, TypeOK
  <2>2. CASE t = Handler
    BY <1>0, <1>2, <1>7, <2>2 DEF TerminateStep, TypeOK, Requested, BeingHandled, HasBeenHandled
  <2> QED BY <2>1, <2>2
<1>8. CASE AcceptShutdown
  <2>1. /\ request = "pending" /\ request' = "handling" /\ UNCHANGED <<gateway, should_exit>>
        /\ closing'[Handler] = "terminating"
        /\ spawning = {} /\ boot = 0 /\ UNCHANGED <<spawning, boot, processes>>
        /\ loop'[Handler] = "term" /\ index'[Handler] = 1
    BY <1>0, <1>8 DEF AcceptShutdown, BeginShutdown, TerminateAll, StartLoop, LoopFree, TypeOK, PMTypeOK
  <2>2. Requested
    BY <1>0, <2>1 DEF BeingHandled, HasBeenHandled
  <2>3. Asked'
    BY <2>1 DEF Asked
  <2> QED BY <2>1, <2>2, <2>3 DEF Requested, BeingHandled
<1>9. CASE NoticeHostGone
  BY <1>0, <1>9 DEF NoticeHostGone
<1>10. CASE StopServing
  <2>1. /\ should_exit /\ gateway' = "finishing" /\ UNCHANGED <<should_exit, request>>
        /\ closing'[Handler] = closing[Handler]
    BY <1>0, <1>10 DEF StopServing, BeginShutdown, TypeOK
  <2> QED BY <1>0, <1>2, <2>1 DEF Requested, BeingHandled, HasBeenHandled
<1>11. CASE Second
  BY <1>3, <1>11 DEF Second
<1> QED BY <1>4, <1>5, <1>6, <1>7, <1>8, <1>9, <1>10, <1>11, NextCases

(* Where the handler stands, as it enters into the time it still takes.    *)
HandlerAt == <<loop[Handler], index[Handler], left[Handler]>>

LEMMA RemainingSame ==
    ASSUME GLInv, Stubborn' = Stubborn,
           UNCHANGED <<request, boot>>,
           request # "pending" => UNCHANGED processes /\ UNCHANGED HandlerAt
    PROVE  Remaining' = Remaining
<1>1. CASE request = "pending"
  BY <1>1 DEF Remaining
<1>2. CASE request # "pending"
  <2>1. Cost(index[Handler] + 1)' = Cost(index[Handler] + 1)
    BY <1>2 DEF Cost, FromHere, HandlerAt
  <2>2. (More(Handler) /\ Current(Handler) \in Stubborn)' <=> (More(Handler) /\ Current(Handler) \in Stubborn)
    BY <1>2 DEF More, Current, HandlerAt
  <2> QED BY <1>2, <2>1, <2>2 DEF Remaining, HandlerAt
<1> QED BY <1>1, <1>2

(* A step of the handler in terminate_all leaves no more to wait for.      *)
LEMMA HandlerStepSpends ==
    ASSUME GLInv, CallStep(Handler), Stubborn' = Stubborn, UNCHANGED request, request # "pending"
    PROVE  Remaining' <= Remaining
<1> USE CallerFacts
<1> DEFINE i == index[Handler]
<1>0. /\ i \in Nat \ {0} /\ Len(processes) \in Nat /\ PMTypeOK /\ UNCHANGED processes
      /\ Remaining \in Nat
  BY ListFacts, CallStepMoves, TimeFacts DEF GLInv, IInv, PMTypeOK
<1>1. /\ i + 1 \in Nat /\ i + 2 \in Nat /\ (i + 1) + 1 = i + 2
      /\ Cost(i + 1) \in Nat /\ Cost(i + 2) \in Nat
  <2>1. i + 1 \in Nat /\ i + 2 \in Nat /\ (i + 1) + 1 = i + 2
    BY <1>0
  <2> HIDE DEF i
  <2> QED BY <2>1, StubbornFacts
<1>2. CASE Terminate(Handler)
  <2>1. loop[Handler] = "term" /\ loop'[Handler] = "term"
    BY <1>2 DEF Terminate, Advance
  <2> QED BY <1>0, <2>1 DEF Remaining
<1>3. CASE StartWaiting(Handler)
  <2>1. /\ loop[Handler] = "term" /\ loop'[Handler] = "wait" /\ index'[Handler] = 1
        /\ left'[Handler] = Timeout
    BY <1>0, <1>3 DEF StartWaiting, StartLoop, PMTypeOK
  <2>2. Remaining = Timeout * Cardinality(Stubborn)
    BY <2>1 DEF Remaining
  <2>3. Remaining' = (IF 1 <= Len(processes) /\ processes[1] \in Stubborn THEN Timeout ELSE 0)
                     + Cost(2)
    <3>1. Cost(index[Handler] + 1)' = Cost(2)
      BY <1>0, <2>1 DEF Cost, FromHere
    <3> QED BY <1>0, <2>1, <3>1 DEF Remaining, More, Current
  <2>4. CASE 1 <= Len(processes)
    <3>1. Remaining' = Cost(1)
      BY <1>0, <2>3, <2>4, CostFacts
    <3> QED BY <2>2, <3>1, StubbornFacts
  <2>5. CASE ~ (1 <= Len(processes))
    BY <2>2, <2>3, <2>5, StubbornFacts
  <2> QED BY <2>4, <2>5
<1>4. CASE SeeExit(Handler) \/ Kill(Handler)
  <2>1. /\ loop[Handler] = "wait" /\ loop'[Handler] = "wait" /\ More(Handler)
        /\ index'[Handler] = i + 1 /\ left'[Handler] = Timeout /\ i \in 1 .. Len(processes)
    BY <1>0, <1>4 DEF SeeExit, Kill, Advance, PMTypeOK, More
  <2>2. Remaining' = (IF i + 1 <= Len(processes) /\ processes[i + 1] \in Stubborn
                      THEN Timeout ELSE 0) + Cost(i + 2)
    <3>1. Cost(index[Handler] + 1)' = Cost(i + 2)
      <4>1. index'[Handler] + 1 = i + 2
        BY <1>0, <2>1
      <4> QED BY <1>0, <4>1 DEF Cost, FromHere
    <3> QED BY <1>0, <2>1, <3>1 DEF Remaining, More, Current
  <2>3. Remaining' <= Cost(i + 1)
    <3>1. CASE i + 1 <= Len(processes)
      <4>1. i + 1 \in 1 .. Len(processes) /\ (i + 1) + 1 = i + 2 /\ Cost(i + 1) \in Nat
        BY <1>0, <1>1, <3>1
      <4>2. Cost(i + 1) = (IF processes[i + 1] \in Stubborn THEN Timeout ELSE 0) + Cost(i + 2)
        BY <4>1, CostFacts
      <4> QED BY <2>2, <3>1, <4>1, <4>2
    <3>2. CASE ~ (i + 1 <= Len(processes))
      <4>1. FromHere(i + 2) = {} /\ FromHere(i + 1) = {}
        BY <1>0, <3>2 DEF FromHere
      <4>2. Cost(i + 2) = Cost(i + 1) /\ Cost(i + 1) \in Nat
        BY <1>1, <4>1 DEF Cost
      <4> QED BY <2>2, <3>2, <4>2
    <3> QED BY <3>1, <3>2
  <2>4. Cost(i + 1) <= Remaining
    <3>1. left[Handler] \in Nat
      BY TimeFacts
    <3> QED BY <1>1, <2>1, <3>1 DEF Remaining
  <2>5. Remaining' \in Nat
    <3> HIDE DEF i
    <3> QED BY <1>1, <2>2, ProcessManagerAssumption
  <2> HIDE DEF i
  <2> QED BY <1>0, <1>1, <2>3, <2>4, <2>5
<1>5. CASE Finish(Handler)
  <2>1. loop'[Handler] = "done"
    BY <1>0, <1>5 DEF Finish, PMTypeOK
  <2> QED BY <1>0, <2>1 DEF Remaining
<1> QED BY <1>2, <1>3, <1>4, <1>5 DEF CallStep

(* A second of the host's time is a second of the activation in progress,  *)
(* or of the handler's wait for a process that ignores the SIGTERM: no     *)
(* other wait takes time while the window is being closed.                 *)
LEMMA SecondSpends ==
    ASSUME GLInv, CloseInv, Second, Closing, Alive, WithinBudget, Stubborn' = Stubborn
    PROVE  Remaining' < TimeLeft'
<1> USE CallerFacts
<1>0. /\ Remaining < TimeLeft
      /\ Requested \/ BeingHandled \/ HasBeenHandled
      /\ spawning = {} /\ ~ late
      /\ GLInv /\ PMTypeOK
  BY DEF CloseInv, InTime, Phases, WithinBudget, Second, Quiet, GLInv, IInv
<1>1. /\ host_left > 0 /\ TimeLeft' = TimeLeft - 1
      /\ host_left' = host_left - 1
  BY TimeFacts DEF Second, Quiet, Closing, TimeLeft, Countdown
<1>2. CASE Requested
  <2>1. boot > 0
    BY <1>0, <1>2, TimeFacts DEF Requested, Second, Quiet, LoopFree
  <2>2. boot' = boot - 1 /\ request' = request
    BY <2>1 DEF Second, Countdown
  <2>3. Remaining' = Remaining - 1
    <3> DEFINE W == Timeout * Cardinality(Stubborn)
    <3>1. W \in Nat
      BY StubbornFacts
    <3>2. Remaining = boot + W /\ Remaining' = boot' + W
      BY <1>2, <2>2 DEF Requested, Remaining
    <3> HIDE DEF W
    <3> QED BY <2>2, <3>1, <3>2, TimeFacts
  <2> QED BY <1>0, <1>1, <2>3, TimeFacts
<1>3. CASE BeingHandled
  <2>1. InCall(Handler) /\ closing[Handler] = "terminating"
    BY <1>3 DEF BeingHandled, Second, Quiet, GLInv, ClosingOK
  <2>2. Waiting(Handler)
    BY <2>1 DEF Second, Quiet
  <2>3. /\ loop[Handler] = "wait" /\ More(Handler) /\ Live(Current(Handler)) /\ left[Handler] > 0
        /\ Current(Handler) \in Children /\ index[Handler] \in 1 .. Len(processes)
    BY <1>0, <2>2, ListFacts DEF Waiting
  <2>4. state[Current(Handler)] = "running"
    BY <2>3 DEF Second, Quiet, Live
  <2>5. Current(Handler) \in Stubborn
    BY <1>0, <1>3, <2>3, <2>4 DEF BeingHandled, Asked, Stubborn, Current
  <2>6. /\ left'[Handler] = left[Handler] - 1 /\ UNCHANGED <<loop, index, processes, request>>
    BY <2>2 DEF Second, PMTick
  <2>7. Cost(index[Handler] + 1)' = Cost(index[Handler] + 1)
    BY <2>6 DEF Cost, FromHere
  <2>8. Remaining' = Remaining - 1
    <3>1. Remaining = left[Handler] + Cost(index[Handler] + 1)
      BY <1>3, <2>3, <2>5 DEF Remaining, BeingHandled
    <3>2. Remaining' = left'[Handler] + Cost(index[Handler] + 1)
      BY <1>3, <2>3, <2>5, <2>6, <2>7 DEF Remaining, BeingHandled, More, Current
    <3>3. index[Handler] + 1 \in Nat /\ left[Handler] \in Nat
      BY <2>3, TimeFacts
    <3>4. Cost(index[Handler] + 1) \in Nat
      BY <3>3, StubbornFacts
    <3> QED BY <2>6, <3>1, <3>2, <3>3, <3>4
  <2> QED BY <1>0, <1>1, <2>8, TimeFacts
<1>4. CASE HasBeenHandled
  <2>1. gateway = "finishing"
    BY <1>0, <1>4 DEF HasBeenHandled, Asked, Second, Quiet, LoopFree, Alive
  <2>2. InCall(Main) /\ Waiting(Main)
    BY <2>1 DEF CloseInv, MainIsIn, Second, Quiet, GLInv, ClosingOK
  <2>3. /\ loop[Main] = "wait" /\ Live(Current(Main))
        /\ Current(Main) \in Children /\ index[Main] \in 1 .. Len(processes)
    BY <1>0, <2>2, ListFacts DEF Waiting
  <2>4. state[Current(Main)] = "running"
    BY <2>3 DEF Second, Quiet, Live
  <2>5. loop[Handler] = "done" /\ index[Handler] > Len(processes)
    BY <1>0, <1>4 DEF HasBeenHandled, Asked, GLInv, ClosingOK
  <2>6. Doomed(Current(Main))
    <3>1. index[Main] < index[Handler]
      BY <1>0, <2>3, <2>5, ListFacts DEF PMTypeOK
    <3> QED BY <2>3, <2>5, <3>1 DEF GLInv, IInv, PassedAreDoomed, Current
  <2> QED BY <2>4, <2>6 DEF Doomed
<1> QED BY <1>0, <1>2, <1>3, <1>4

LEMMA RemainingInNat == GLInv => Remaining \in Nat
BY TimeFacts

LEMMA RemainingStaysInNat == (GLInv => Remaining \in Nat)'
BY RemainingInNat, PTL

(* While the window is being closed the handler's time left stays below    *)
(* the host's, whatever step is taken.                                     *)
LEMMA InTimeKept ==
    ASSUME GLInv, CloseInv, [Next]_vars PROVE InTime'
<1> USE CallerFacts
<1> SUFFICES ASSUME Closing', Alive', WithinBudget' PROVE Remaining' < TimeLeft'
  BY DEF InTime
<1>1. CASE CloseWindow
  <2>1. /\ request' = "pending" /\ boot' = boot /\ boot \in 0 .. BootTimeout
        /\ host' = "posting" /\ host_left' = PostTimeout
    BY <1>1 DEF CloseWindow, GLInv, TypeOK
  <2> DEFINE W == (Timeout * Cardinality(Stubborn))'
  <2>2. W \in Nat
    <3>1. Stubborn' = Stubborn
      BY <1>1 DEF CloseWindow, pmVars, Stubborn
    <3> QED BY <3>1, StubbornFacts
  <2>3. Remaining' = boot + W /\ TimeLeft' = PostTimeout + KillAfter
    BY <2>1 DEF Remaining, TimeLeft
  <2>4. BootTimeout + W < PostTimeout + KillAfter
    BY DEF WithinBudget
  <2> HIDE DEF W
  <2> QED BY <2>1, <2>2, <2>3, <2>4, TimeFacts
<1> SUFFICES ASSUME ~ CloseWindow PROVE Remaining' < TimeLeft'
  BY <1>1
<1>0. /\ Closing /\ token = "valid" /\ ~ late /\ ~ late' /\ TypeOK /\ PMTypeOK
      /\ Requested \/ BeingHandled \/ HasBeenHandled
      /\ Callers = {Handler, Watcher, Main}
      /\ gateway \in {"serving", "finishing", "exited"} /\ gateway # "starting"
  BY LateForGood, LifecycleAssumption
     DEF CloseInv, Phases, GLInv, TypeOK, WithinBudget, Requested, BeingHandled, HasBeenHandled
<1>2. ASSUME NEW c \in Children PROVE ~ StartWorker(c) /\ ~ BeginActivation(c)
  BY <1>0 DEF StartWorker, BeginActivation, Closing
<1>3. Stubborn' = Stubborn
  BY <1>2, StubbornKept
<1>4. WithinBudget
  BY <1>0, <1>3 DEF WithinBudget
<1>5. CASE ~ Alive
  <2>1. gateway = "exited"
    BY <1>0, <1>5 DEF Alive
  <2>2. gateway' \notin {"starting", "watching", "serving", "finishing"}
    <3>1. CASE OtherStep
      BY <1>0, <2>1, <3>1 DEF OtherStep, StartFails, StartWatch, WriteReadyFile, EndActivation,
         UnlinkReadyFile, SetShouldExit, RefuseShutdown, SeeReady, StartupFails, TokenExpires,
         CloseWindow, CloseDegraded, HostCrashes, HostStep, StopPosting, SeeGatewayGone,
         KillGateway, Alive
    <3>2. ASSUME NEW c \in Children, TrackChild(c) \/ ChildExits(c) PROVE gateway' = gateway
      BY <3>2 DEF TrackChild, ChildExits, glVars
    <3>3. ASSUME NEW t \in Callers, TerminateStep(t) PROVE gateway' = gateway
      BY <3>3 DEF TerminateStep
    <3>4. CASE AcceptShutdown \/ NoticeHostGone \/ StopServing
      BY <2>1, <3>4 DEF AcceptShutdown, NoticeHostGone, StopServing, LoopFree
    <3>5. CASE Second \/ UNCHANGED vars
      BY <2>1, <3>5 DEF Second, vars, glVars
    <3> QED BY <1>2, <2>1, <3>1, <3>2, <3>3, <3>4, <3>5, NextCases
  <2> QED BY <2>2 DEF Alive
<1>6. CASE Alive
  <2>0. /\ Remaining < TimeLeft /\ Remaining \in Nat /\ TimeLeft \in Nat
    BY <1>0, <1>4, <1>6, TimeFacts DEF CloseInv, InTime
  <2>1. ASSUME UNCHANGED <<host, host_left>>, Remaining' <= Remaining, Remaining' \in Int
        PROVE  Remaining' < TimeLeft'
    <3>1. TimeLeft' = TimeLeft
      BY <2>1 DEF TimeLeft
    <3> QED BY <2>0, <2>1, <3>1
  <2>2. ASSUME UNCHANGED <<host, host_left, request, boot>>,
               request # "pending" => UNCHANGED processes /\ UNCHANGED HandlerAt
        PROVE  Remaining' < TimeLeft'
    <3>1. Remaining' = Remaining
      BY <1>3, <2>2, RemainingSame
    <3> QED BY <2>0, <2>1, <2>2, <3>1
  <2>3. CASE UNCHANGED vars
    BY <2>2, <2>3 DEF vars, pmVars, glVars, HandlerAt
  <2>4. CASE OtherStep
    <3>0. UNCHANGED processes /\ UNCHANGED HandlerAt
      BY <2>4, OtherStepKeepsChildren DEF pmVars, HandlerAt
    <3>1. CASE StartFails \/ StartWatch \/ WriteReadyFile \/ RefuseShutdown
      BY <1>0, <2>2, <3>0, <3>1 DEF StartFails, StartWatch, WriteReadyFile, RefuseShutdown,
         Requested, BeingHandled, HasBeenHandled
    <3>2. CASE SeeReady \/ StartupFails \/ TokenExpires
      BY <1>0, <3>2 DEF SeeReady, StartupFails, TokenExpires, Closing
    <3>3. CASE CloseDegraded \/ HostCrashes \/ SeeGatewayGone \/ KillGateway
      BY <3>3 DEF CloseDegraded, HostCrashes, SeeGatewayGone, KillGateway, Closing
    <3>4. ASSUME NEW t \in Callers, UnlinkReadyFile(t) PROVE Remaining' < TimeLeft'
      BY <2>2, <3>0, <3>4 DEF UnlinkReadyFile
    <3>5. ASSUME NEW t \in Callers, SetShouldExit(t) PROVE Remaining' < TimeLeft'
      <4>1. CASE t # Handler
        BY <2>2, <3>0, <3>5, <4>1 DEF SetShouldExit
      <4>2. CASE t = Handler
        <5>1. loop[Handler] = "done" /\ loop'[Handler] = "done" /\ request' = "answered"
          BY <3>0, <3>5, <4>2 DEF SetShouldExit, GLInv, ClosingOK, HandlerAt
        <5>2. Remaining' = 0
          BY <5>1 DEF Remaining
        <5> QED BY <2>0, <2>1, <3>5, <5>2 DEF SetShouldExit
      <4> QED BY <4>1, <4>2
    <3>6. CASE EndActivation
      <4>1. CASE request = "pending"
        <5> DEFINE W == Timeout * Cardinality(Stubborn)
        <5>1. W \in Nat
          BY StubbornFacts
        <5>2. Remaining = boot + W /\ Remaining' = boot' + W /\ boot' = 0 /\ boot \in Nat
          BY <1>3, <3>6, <4>1, TimeFacts DEF EndActivation, Remaining
        <5>3. UNCHANGED <<host, host_left>>
          BY <3>6 DEF EndActivation
        <5> HIDE DEF W
        <5> QED BY <2>1, <5>1, <5>2, <5>3
      <4>2. CASE request # "pending"
        BY <1>0, <3>6, <4>2 DEF EndActivation, Requested, BeingHandled, HasBeenHandled, Asked
      <4> QED BY <4>1, <4>2
    <3>7. CASE StopPosting
      <4>1. Remaining' = Remaining
        BY <1>3, <3>0, <3>7, RemainingSame DEF StopPosting
      <4>2. TimeLeft' = KillAfter
        BY <3>7, TimeFacts DEF StopPosting, TimeLeft
      <4>3. CASE request = "answered"
        <5>1. loop[Handler] = "done"
          BY <1>0, <4>3 DEF Requested, BeingHandled, HasBeenHandled, GLInv, ClosingOK
        <5>2. Remaining = 0
          BY <4>3, <5>1 DEF Remaining
        <5> QED BY <4>1, <4>2, <5>2, TimeFacts
      <4>4. CASE host_left = 0
        <5>1. TimeLeft = KillAfter
          BY <3>7, <4>4, TimeFacts DEF StopPosting, TimeLeft
        <5> QED BY <2>0, <4>1, <4>2, <5>1
      <4> QED BY <1>6, <3>7, <4>3, <4>4 DEF StopPosting
    <3> QED BY <2>4, <3>1, <3>2, <3>3, <3>4, <3>5, <3>6, <3>7 DEF OtherStep, HostStep
  <2>5. ASSUME NEW c \in Children, TrackChild(c) PROVE Remaining' < TimeLeft'
    <3>1. request = "pending"
      BY <1>0, <2>5 DEF TrackChild, Track, BeingHandled, HasBeenHandled, Asked, Requested
    <3> QED BY <2>2, <2>5, <3>1 DEF TrackChild, glVars
  <2>6. ASSUME NEW c \in Children, ChildExits(c) PROVE Remaining' < TimeLeft'
    BY <2>2, <2>6 DEF ChildExits, Exit, glVars, callVars, HandlerAt
  <2>7. ASSUME NEW t \in Callers, TerminateStep(t) PROVE Remaining' < TimeLeft'
    <3>1. CallStep(t) /\ UNCHANGED <<host, host_left, request, boot, processes>>
      BY <1>0, <2>7, CallStepMoves DEF TerminateStep
    <3>2. CASE t # Handler
      <4>1. UNCHANGED HandlerAt
        BY <1>0, <3>1, <3>2 DEF CallStep, Terminate, StartWaiting, SeeExit, Kill, Finish, Advance,
           StartLoop, HandlerAt, PMTypeOK
      <4> QED BY <2>2, <3>1, <4>1
    <3>3. CASE t = Handler
      <4>1. request # "pending"
        BY <1>0, <2>7, <3>3 DEF TerminateStep, Requested, BeingHandled, HasBeenHandled
      <4>2. Remaining' <= Remaining
        BY <1>3, <3>1, <3>3, <4>1, HandlerStepSpends
      <4>3. Remaining' \in Int
        BY NextGLInv, RemainingStaysInNat
      <4> QED BY <2>1, <3>1, <4>2, <4>3
    <3> QED BY <3>2, <3>3
  <2>8. CASE AcceptShutdown
    <3>1. request = "pending" /\ request' = "handling" /\ boot = 0 /\ loop'[Handler] = "term"
          /\ UNCHANGED <<host, host_left>>
      BY <1>0, <2>8 DEF AcceptShutdown, LoopFree, BeginShutdown, TerminateAll, StartLoop, PMTypeOK
    <3> DEFINE W == Timeout * Cardinality(Stubborn)
    <3>2. W \in Nat
      BY StubbornFacts
    <3>3. Remaining = boot + W /\ Remaining' = W
      BY <1>3, <3>1 DEF Remaining
    <3> HIDE DEF W
    <3> QED BY <2>1, <3>1, <3>2, <3>3
  <2>9. CASE NoticeHostGone
    BY <1>0, <2>9 DEF NoticeHostGone, Closing
  <2>10. CASE StopServing
    <3>1. UNCHANGED <<host, host_left, request, boot, processes>> /\ UNCHANGED HandlerAt
      BY <1>0, <2>10 DEF StopServing, BeginShutdown, TerminateAll, StartLoop, HandlerAt, PMTypeOK
    <3> QED BY <2>2, <3>1
  <2>11. CASE Second
    BY <1>0, <1>3, <1>4, <1>6, <2>11, SecondSpends
  <2> QED BY <1>2, <2>3, <2>4, <2>5, <2>6, <2>7, <2>8, <2>9, <2>10, <2>11, NextCases
<1> QED BY <1>5, <1>6

(* The host kills the gateway only when its own time is over, and then the *)
(* gateway's is not; afterwards nothing is started that would excuse it.   *)
LEMMA CloseIsOrderlyKept ==
    ASSUME GLInv, CloseInv, [Next]_vars PROVE CloseIsOrderly'
<1> SUFFICES ASSUME WithinBudget', gateway' = "killed" PROVE FALSE
  BY DEF CloseIsOrderly
<1>1. CASE KillGateway
  <2>1. /\ Stubborn' = Stubborn /\ Closing /\ Alive /\ TimeLeft = 0
        /\ UNCHANGED <<token, late>>
    BY <1>1, TimeFacts DEF KillGateway, pmVars, Stubborn, Closing, TimeLeft
  <2>2. Remaining < TimeLeft
    BY <2>1 DEF CloseInv, InTime, WithinBudget
  <2> QED BY <2>1, <2>2, TimeFacts
<1>2. CASE gateway = "killed"
  <2>1. \A c \in Children : ~ StartWorker(c) /\ ~ BeginActivation(c)
    BY <1>2 DEF StartWorker, BeginActivation, LoopFree
  <2>2. Stubborn' = Stubborn
    BY <2>1, StubbornKept
  <2>3. WithinBudget
    BY <2>2, LateForGood DEF WithinBudget, GLInv
  <2> QED BY <1>2, <2>3 DEF CloseInv, CloseIsOrderly
<1>3. CASE ~ KillGateway /\ gateway # "killed"
  <2>1. CASE OtherStep
    BY <1>3, <2>1 DEF OtherStep, StartFails, StartWatch, WriteReadyFile, EndActivation,
       UnlinkReadyFile, SetShouldExit, RefuseShutdown, SeeReady, StartupFails, TokenExpires,
       CloseWindow, CloseDegraded, HostCrashes, HostStep, StopPosting, SeeGatewayGone
  <2>2. ASSUME NEW c \in Children, StartWorker(c) \/ BeginActivation(c) \/ TrackChild(c) \/ ChildExits(c)
        PROVE  gateway' = gateway
    <3>1. CASE BeginActivation(c)
      BY <3>1 DEF BeginActivation
    <3>2. CASE ~ BeginActivation(c)
      BY <2>2, <3>2 DEF StartWorker, TrackChild, ChildExits, glVars
    <3> QED BY <3>1, <3>2
  <2>3. ASSUME NEW t \in Callers, TerminateStep(t) PROVE gateway' = gateway
    BY <2>3 DEF TerminateStep
  <2>4. CASE AcceptShutdown \/ NoticeHostGone \/ StopServing \/ Second \/ UNCHANGED vars
    BY <1>3, <2>4 DEF AcceptShutdown, NoticeHostGone, StopServing, Second, vars, glVars
  <2> QED BY <1>3, <2>1, <2>2, <2>3, <2>4, NextCases
<1> QED BY <1>1, <1>2, <1>3

LEMMA InitCloseInv == Init => CloseInv
BY CallerFacts DEF Init, CloseInv, BeforeClosing, WatchSleeps, OpenWhenServing, MainIsIn, Phases,
   InTime, Closing, CloseIsOrderly

LEMMA NextCloseInv == GLInv /\ CloseInv /\ [Next]_vars => CloseInv'
BY BeforeClosingKept, PhasesKept, InTimeKept, CloseIsOrderlyKept DEF CloseInv

(* Closing the window ends the gateway by itself, before the host's kill,  *)
(* for any deadlines, timeouts and children: as long as the startup token  *)
(* is valid, what has to be waited for fits into the host's two deadlines, *)
(* and no plugin is activated meanwhile.                                   *)
THEOREM ClosesInTime == Spec => []CloseIsOrderly
<1>1. Init => CloseInv
  BY InitCloseInv
<1>2. GLInv /\ CloseInv /\ [Next]_vars => CloseInv'
  BY NextCloseInv
<1>3. CloseInv => CloseIsOrderly
  BY DEF CloseInv
<1> QED BY <1>1, <1>2, <1>3, GLInvariance, PTL DEF Spec
===============================================================================
