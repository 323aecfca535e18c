-------------------------- MODULE WorkerStartup_proofs --------------------------
(***************************************************************************)
(* Proofs, for any plugin directories and any machine, that a gateway that *)
(* serves has started exactly the workers that are entitled to run, that   *)
(* each runs with all its profile stands for, and that a bad manifest      *)
(* keeps every worker from being started.                                  *)
(***************************************************************************)
EXTENDS WorkerStartup, ProcessManager_proofs

(* The checks of start_worker_plugins and of spawn_worker, taken in order,  *)
(* let through what the guide describes.                                   *)
LEMMA PermissionsAllowed ==
    ASSUME NEW m
    PROVE  ~ HasBlank(m) /\ PermissionViolations(m) = {}
              <=> \A n \in DOMAIN m.permissions :
                     n \in DOMAIN AllowList /\ m.permissions[n] \subseteq AllowList[n]
<1>1. ASSUME PermissionViolations(m) = {}, NEW n \in DOMAIN m.permissions
      PROVE  n \in DOMAIN AllowList /\ m.permissions[n] \subseteq AllowList[n]
  <2>1. \A code \in PermissionCodes : ~ Wrong(code, n, m.permissions[n])
    BY <1>1 DEF PermissionViolations
  <2>2. n \in DOMAIN AllowList
    BY <2>1 DEF Wrong, PermissionCodes
  <2> QED BY <2>1, <2>2 DEF Wrong, PermissionCodes
<1>2. ASSUME \A n \in DOMAIN m.permissions :
                 n \in DOMAIN AllowList /\ m.permissions[n] \subseteq AllowList[n]
      PROVE  ~ HasBlank(m) /\ PermissionViolations(m) = {}
  <2>1. \A n \in DOMAIN m.permissions : m.permissions[n] \cap (Malformed \cup Blank) = {}
    BY <1>2, StartupAssumption
  <2>2. \A n \in DOMAIN m.permissions : \A code :
            ~ Wrong(code, n, m.permissions[n])
    BY <1>2, <2>1 DEF Wrong
  <2> QED BY <2>1, <2>2 DEF HasBlank, PermissionViolations
<1> QED BY <1>1, <1>2

LEMMA ProfileAllowed ==
    ASSUME NEW m \in Manifests, host \in Hosts
    PROVE  ProfileViolations(m) = {} /\ SandboxViolations(m) = {}
              <=> \/ m.profile = NoProfile
                  \/ m.profile = "restricted" /\ host.platform \in {"linux", "darwin"}
                     /\ host.resource
                  \/ m.profile = "strict" /\ host.platform = "linux" /\ host.resource
                     /\ host.seccomp
<1>1. host.resource \in BOOLEAN /\ host.seccomp \in BOOLEAN
  BY StartupAssumption
<1>2. CASE m.profile = NoProfile
  BY <1>2 DEF ProfileViolations, SandboxViolations, Sandboxed
<1>3. CASE m.profile \notin {"restricted", "strict", NoProfile}
  <2>1. ProfileViolations(m) # {}
    BY <1>3 DEF ProfileViolations, AllowedProfiles
  <2> QED BY <1>3, <2>1
<1>4. CASE m.profile = "restricted"
  <2>1. Missing(m) = {} <=> host.platform \in {"linux", "darwin"} /\ host.resource
    BY <1>1, <1>4 DEF Missing, Required, Supports
  <2> QED BY <1>1, <1>4, <2>1
      DEF ProfileViolations, SandboxViolations, Sandboxed, AllowedProfiles, NoProfile
<1>5. CASE m.profile = "strict"
  <2>1. Missing(m) = {} <=> host.platform = "linux" /\ host.resource /\ host.seccomp
    BY <1>1, <1>5 DEF Missing, Required, Supports
  <2> QED BY <1>1, <1>5, <2>1
      DEF ProfileViolations, SandboxViolations, Sandboxed, AllowedProfiles, NoProfile
<1> QED BY <1>2, <1>3, <1>4, <1>5

LEMMA AllowedIsEntitled ==
    ASSUME NEW m \in Manifests, host \in Hosts
    PROVE  ~ HasBlank(m) /\ Violations(m) = {} <=> Entitled(m)
<1>1. Violations(m) = {} <=> /\ PermissionViolations(m) = {}
                             /\ ProfileViolations(m) = {} /\ SandboxViolations(m) = {}
  BY DEF Violations
<1> QED BY <1>1, PermissionsAllowed, ProfileAllowed DEF Entitled

LEMMA HostFacts ==
    ASSUME host \in Hosts, NEW m
    PROVE  LimitsOf(m) \in [dumps : BOOLEAN, nofile : Int \X Int]
<1>1. host.nofile \in Int \X Int
  BY StartupAssumption
<1>2. CapOpenFiles(host.nofile) \in Int \X Int
  BY <1>1 DEF CapOpenFiles, Bounded, MaxOpen
<1> QED BY <1>1, <1>2 DEF LimitsOf, Sandboxed

(* What is known of a directory's worker from what has become of it.       *)
WorkerOK(d) ==
    /\ state[d] # "unborn" =>
          /\ Worker(d) /\ Entitled(dir[d])
          /\ limits[d] = LimitsOf(dir[d])
          /\ \A e \in Children : Admissible(dir[e])
    /\ report[d].is = "pending" => report[d] = Pending
    /\ report[d].is = "pending" /\ state[d] # "unborn" => d \in spawning
    /\ report[d].is = "rejected" => Worker(d) /\ ~ Entitled(dir[d])
    /\ report[d].is \in {"running", "ended"} => state[d] # "unborn"

PhaseOK ==
    /\ phase \in {"starting", "serving"} => \A d \in Children : Admissible(dir[d])
    /\ spawning # {} => phase = "starting"
    /\ phase = "serving" => \A d \in Children : Worker(d) => report[d] # Pending

WInv ==
    /\ IInv
    /\ TypeOK
    /\ PhaseOK
    /\ \A d \in Children : WorkerOK(d)

(* What the steps of the process manager leave of a worker's state.        *)
LEMMA PendingFacts ==
    ASSUME NEW d, NEW cs
    PROVE  /\ Pending.is = "pending"
           /\ Rejected(cs).is = "rejected"
           /\ Started(d).is \in {"running", "ended"}
           /\ Started(d) \in [is : {"running", "ended"}, codes : SUBSET Codes]
           /\ Pending \in [is : {"pending"}, codes : SUBSET Codes]
BY DEF Pending, Rejected, Started

LEMMA ViolationsAreCodes ==
    ASSUME NEW m
    PROVE  Violations(m) \in SUBSET Codes
<1>1. PermissionViolations(m) \in SUBSET Codes
  BY DEF PermissionViolations, Codes
<1>2. ProfileViolations(m) \in SUBSET Codes
  BY DEF ProfileViolations, Codes
<1>3. SandboxViolations(m) \in SUBSET Codes
  BY DEF SandboxViolations, Codes
<1> QED BY <1>1, <1>2, <1>3 DEF Violations

LEMMA InitWInv == Init => WInv
<1> SUFFICES ASSUME Init PROVE WInv
  OBVIOUS
<1>1. IInv
  BY InitIInv DEF Init
<1>2. TypeOK
  <2>1. host.nofile \in Int \X Int
    BY StartupAssumption DEF Init
  <2> QED BY <1>1, <2>1, PendingFacts DEF Init, TypeOK, IInv, NoWorker, Unlimited
<1>3. PhaseOK
  BY DEF Init, PMInit, PhaseOK
<1>4. \A d \in Children : WorkerOK(d)
  BY PendingFacts DEF Init, PMInit, WorkerOK
<1> QED BY <1>1, <1>2, <1>3, <1>4 DEF WInv

(* Every step is one of the process manager or leaves it alone.            *)
LEMMA StepIsProcessManagerStep ==
    ASSUME [Next]_vars PROVE [PMNext]_pmVars
<1>1. CASE UNCHANGED vars
  BY <1>1 DEF vars
<1>2. CASE Discover \/ DiscoveryRaises \/ Serve
  BY <1>2 DEF Discover, DiscoveryRaises, Serve
<1>3. ASSUME NEW d \in Children, Reject(d) \/ StartRaises(d) PROVE UNCHANGED pmVars
  BY <1>3 DEF Reject, StartRaises
<1>4. ASSUME NEW d \in Children, SpawnWorker(d) \/ TrackWorker(d) PROVE PMNext
  BY <1>4 DEF SpawnWorker, TrackWorker, PMNext
<1>5. CASE EndWorkers
  BY <1>5 DEF EndWorkers, PMNext
<1> QED BY <1>1, <1>2, <1>3, <1>4, <1>5 DEF Next, StartStep

(* A step that starts nothing and tracks nothing, and leaves the reports   *)
(* and limits alone, keeps what is known of the workers.                   *)
LEMMA WorkersKept ==
    ASSUME \A d \in Children : WorkerOK(d),
           UNCHANGED <<spawning, dir, host, report, limits>>,
           \A d \in Children : state'[d] = "unborn" <=> state[d] = "unborn"
    PROVE  (\A d \in Children : WorkerOK(d))'
BY DEF WorkerOK, Worker, Entitled, LimitsOf

LEMMA EndWorkersStartsNothing ==
    ASSUME IInv, EndWorkers
    PROVE  /\ spawning' = spawning
           /\ \A d \in Children : state'[d] = "unborn" <=> state[d] = "unborn"
<1> USE DEF IInv
<1>1. ASSUME NEW c \in Children, Exit(c)
      PROVE  /\ spawning' = spawning
             /\ \A d \in Children : state'[d] = "unborn" <=> state[d] = "unborn"
  BY <1>1 DEF Exit, Live, PMTypeOK
<1>2. CASE Tick
  BY <1>2 DEF Tick, PMTick
<1>3. ASSUME NEW t \in Callers, TerminateAll(t)
      PROVE  spawning' = spawning /\ state' = state
  BY <1>3 DEF TerminateAll
<1>4. ASSUME NEW t \in Callers, CallStep(t)
      PROVE  /\ spawning' = spawning
             /\ \A d \in Children : state'[d] = "unborn" <=> state[d] = "unborn"
  <2>1. spawning' = spawning
    BY <1>4 DEF CallStep, Terminate, StartWaiting, SeeExit, Kill, Finish, Advance
  <2>2. CASE Terminate(t)
    BY <2>1, <2>2 DEF Terminate, PMTypeOK
  <2>3. CASE Kill(t)
    BY <2>1, <2>3 DEF Kill, Live, PMTypeOK
  <2>4. CASE StartWaiting(t) \/ SeeExit(t) \/ Finish(t)
    BY <2>1, <2>4 DEF StartWaiting, SeeExit, Finish
  <2> QED BY <1>4, <2>2, <2>3, <2>4 DEF CallStep
<1> QED BY <1>1, <1>2, <1>3, <1>4 DEF EndWorkers

LEMMA EndWorkersKeepsWInv ==
    ASSUME WInv, EndWorkers, UNCHANGED wsVars, IInv' PROVE WInv'
<1> USE DEF WInv, wsVars
<1>1. TypeOK'
  BY DEF TypeOK, IInv
<1>2. PhaseOK'
  BY EndWorkersStartsNothing DEF PhaseOK, Worker
<1>3. (\A d \in Children : WorkerOK(d))'
  BY EndWorkersStartsNothing, WorkersKept
<1> QED BY <1>1, <1>2, <1>3

LEMMA DiscoverKeepsWInv ==
    ASSUME WInv, Discover \/ DiscoveryRaises, IInv' PROVE WInv'
<1> USE DEF WInv, Discover, DiscoveryRaises
<1>1. TypeOK'
  BY DEF TypeOK, IInv
<1>2. PhaseOK'
  BY DEF PhaseOK, pmVars
<1>3. (\A d \in Children : WorkerOK(d))'
  BY WorkersKept DEF pmVars
<1> QED BY <1>1, <1>2, <1>3

LEMMA ServeKeepsWInv ==
    ASSUME WInv, Serve, IInv' PROVE WInv'
<1> USE DEF WInv, Serve
<1>1. TypeOK'
  BY DEF TypeOK, IInv
<1>2. PhaseOK'
  BY DEF PhaseOK, pmVars, Worker
<1>3. (\A d \in Children : WorkerOK(d))'
  BY WorkersKept DEF pmVars
<1> QED BY <1>1, <1>2, <1>3

LEMMA StartRaisesKeepsWInv ==
    ASSUME WInv, NEW c \in Children, StartRaises(c), IInv' PROVE WInv'
<1> USE DEF WInv, StartRaises
<1>1. TypeOK'
  BY DEF TypeOK, IInv
<1>2. PhaseOK'
  BY DEF PhaseOK, pmVars, Due
<1>3. (\A d \in Children : WorkerOK(d))'
  BY WorkersKept DEF pmVars
<1> QED BY <1>1, <1>2, <1>3

LEMMA RejectKeepsWInv ==
    ASSUME WInv, NEW c \in Children, Reject(c), IInv' PROVE WInv'
<1> USE DEF WInv, Reject
<1> DEFINE r == Rejected(Violations(dir[c]))
<1>1. /\ r \in [is : {"rejected"}, codes : SUBSET Codes] /\ r.is = "rejected"
      /\ r # Pending
  BY ViolationsAreCodes, PendingFacts DEF Rejected
<1>2. report' = [report EXCEPT ![c] = r]
  OBVIOUS
<1> HIDE DEF r
<1>3. TypeOK'
  BY <1>1, <1>2 DEF TypeOK, IInv
<1>4. PhaseOK'
  BY <1>1, <1>2 DEF PhaseOK, pmVars, Worker, TypeOK
<1>5. (\A d \in Children : WorkerOK(d))'
  <2> SUFFICES ASSUME NEW d \in Children PROVE WorkerOK(d)'
    OBVIOUS
  <2>1. CASE d # c
    BY <1>2, <2>1 DEF WorkerOK, Worker, Entitled, LimitsOf, pmVars, TypeOK
  <2>2. CASE d = c
    <3>1. Worker(c) /\ ~ Entitled(dir[c]) /\ state[c] = "unborn"
      <4>1. Worker(c) /\ ~ Entitled(dir[c]) /\ report[c].is = "pending" /\ spawning = {}
        BY AllowedIsEntitled, PendingFacts DEF Due, TypeOK
      <4> QED BY <4>1 DEF WorkerOK
    <3>2. report'[c] = r /\ state' = state /\ dir' = dir /\ host' = host
      BY <1>2 DEF TypeOK, pmVars
    <3> QED BY <1>1, <2>2, <3>1, <3>2 DEF WorkerOK, Worker, Entitled
  <2> QED BY <2>1, <2>2
<1> QED BY <1>3, <1>4, <1>5

LEMMA SpawnWorkerKeepsWInv ==
    ASSUME WInv, NEW c \in Children, SpawnWorker(c), IInv' PROVE WInv'
<1> USE DEF WInv, SpawnWorker, Popen
<1>1. limits' = [limits EXCEPT ![c] = LimitsOf(dir[c])]
      /\ LimitsOf(dir[c]) \in [dumps : BOOLEAN, nofile : Int \X Int]
  BY HostFacts DEF TypeOK
<1>2. TypeOK'
  BY <1>1 DEF TypeOK, IInv
<1>3. /\ state' = [state EXCEPT ![c] = "running"] /\ spawning' = spawning \cup {c}
      /\ UNCHANGED <<dir, host, phase, report, workers>>
  OBVIOUS
<1>4. PhaseOK'
  BY <1>3 DEF PhaseOK, Worker, Due
<1>5. (\A d \in Children : WorkerOK(d))'
  <2> SUFFICES ASSUME NEW d \in Children PROVE WorkerOK(d)'
    OBVIOUS
  <2>1. CASE d # c
    <3>1. state'[d] = state[d] /\ limits'[d] = limits[d]
      BY <1>1, <1>3, <2>1 DEF IInv, PMTypeOK, TypeOK
    <3> QED BY <1>3, <3>1 DEF WorkerOK, Worker, Entitled, LimitsOf
  <2>2. CASE d = c
    <3>1. /\ Worker(c) /\ Entitled(dir[c]) /\ report[c] = Pending /\ report[c].is = "pending"
          /\ \A e \in Children : Admissible(dir[e])
      BY AllowedIsEntitled, PendingFacts DEF Due, TypeOK, PhaseOK
    <3>2. state'[c] # "unborn" /\ limits'[c] = LimitsOf(dir[c]) /\ c \in spawning'
      BY <1>1, <1>3 DEF IInv, PMTypeOK, TypeOK
    <3> QED BY <1>3, <2>2, <3>1, <3>2 DEF WorkerOK, Worker, Entitled, LimitsOf
  <2> QED BY <2>1, <2>2
<1> QED BY <1>2, <1>4, <1>5

LEMMA TrackWorkerKeepsWInv ==
    ASSUME WInv, NEW c \in Children, TrackWorker(c), IInv' PROVE WInv'
<1> USE DEF WInv, TrackWorker, Track
<1>1. state[c] # "unborn" /\ dir[c].name \in Names
  BY StartupAssumption DEF IInv, NothingForgotten, TypeOK
<1>2. /\ Started(c) \in [is : {"running", "ended"}, codes : SUBSET Codes]
      /\ Started(c).is \in {"running", "ended"} /\ Started(c) # Pending
  BY PendingFacts
<1>3. /\ report' = [report EXCEPT ![c] = Started(c)] /\ spawning' = spawning \ {c}
      /\ UNCHANGED <<state, dir, host, phase, limits>>
  OBVIOUS
<1>4. TypeOK'
  BY <1>1, <1>2, <1>3 DEF TypeOK, IInv
<1>5. PhaseOK'
  BY <1>2, <1>3 DEF PhaseOK, Worker, TypeOK
<1>6. (\A d \in Children : WorkerOK(d))'
  <2> SUFFICES ASSUME NEW d \in Children PROVE WorkerOK(d)'
    OBVIOUS
  <2>1. CASE d # c
    <3>1. report'[d] = report[d]
      BY <1>3, <2>1 DEF TypeOK
    <3> QED BY <1>3, <2>1, <3>1 DEF WorkerOK, Worker, Entitled, LimitsOf
  <2>2. CASE d = c
    <3>1. report'[c] = Started(c)
      BY <1>3 DEF TypeOK
    <3> QED BY <1>1, <1>2, <1>3, <2>2, <3>1 DEF WorkerOK, Worker, Entitled, LimitsOf
  <2> QED BY <2>1, <2>2
<1> QED BY <1>4, <1>5, <1>6

LEMMA NextKeepsWInv == WInv /\ [Next]_vars => WInv'
<1> SUFFICES ASSUME WInv, [Next]_vars PROVE WInv'
  OBVIOUS
<1>1. IInv'
  BY StepIsProcessManagerStep, NextKeepsIInv DEF WInv
<1>2. CASE UNCHANGED vars
  <2>1. TypeOK' /\ PhaseOK'
    BY <1>1, <1>2 DEF WInv, vars, wsVars, pmVars, TypeOK, IInv, PhaseOK, Worker
  <2>2. (\A d \in Children : WorkerOK(d))'
    BY <1>2, WorkersKept DEF WInv, vars, wsVars, pmVars
  <2> QED BY <1>1, <2>1, <2>2 DEF WInv
<1>3. CASE EndWorkers /\ UNCHANGED wsVars
  BY <1>1, <1>3, EndWorkersKeepsWInv
<1>4. CASE StartStep
  BY <1>1, <1>4, DiscoverKeepsWInv, ServeKeepsWInv, StartRaisesKeepsWInv, RejectKeepsWInv,
     SpawnWorkerKeepsWInv, TrackWorkerKeepsWInv
  DEF StartStep
<1> QED BY <1>2, <1>3, <1>4 DEF Next

LEMMA StartupInvariance == Spec => []WInv
<1>1. Init => WInv
  BY InitWInv
<1>2. WInv /\ [Next]_vars => WInv'
  BY NextKeepsWInv
<1> QED BY <1>1, <1>2, PTL DEF Spec

(* Type correctness of directories, reports, limits and processes.         *)
THEOREM StartupTypeCorrect == Spec => []TypeOK
<1>1. WInv => TypeOK
  BY DEF WInv
<1> QED BY <1>1, StartupInvariance, PTL

(* The startup is a behaviour of the process manager, so that what is      *)
(* proved of terminate_all holds of the workers.                           *)
THEOREM StartupUsesProcessManager == Spec => ImplementsProcessManager
<1>1. Init => PMInit
  BY DEF Init
<1>2. [Next]_vars => [PMNext]_pmVars
  BY StepIsProcessManagerStep
<1> QED BY <1>1, <1>2, PTL DEF Spec, PMSpec, ImplementsProcessManager

(* So it does of the workers as spawn_worker starts them: none is left out  *)
(* of the list, all that terminate_all has passed have ended or were        *)
(* killed, and it waits no more than one timeout for each.                  *)
THEOREM WorkersAreManaged == Spec => [](PassedAreDoomed /\ NothingForgotten /\ CallBounded)
BY StartupUsesProcessManager, LeavesOnlyDoomed, ForgetsNothing, CallIsBounded, PTL
   DEF ImplementsProcessManager

(* A gateway that serves has started the entitled and rejected the others. *)
THEOREM EntitledAreServed == Spec => []ServesTheEntitled
<1>1. WInv => ServesTheEntitled
  <2> SUFFICES ASSUME WInv, phase = "serving", NEW d \in Children
               PROVE  /\ state[d] # "unborn" <=> Worker(d) /\ Entitled(dir[d])
                      /\ report[d].is = "rejected" <=> Worker(d) /\ ~ Entitled(dir[d])
    BY DEF ServesTheEntitled
  <2> USE DEF WInv
  <2>1. report[d].is \in {"pending", "rejected", "running", "ended"} /\ WorkerOK(d)
    BY DEF TypeOK
  <2>2. spawning = {} /\ (Worker(d) => report[d].is # "pending")
    BY <2>1 DEF PhaseOK, WorkerOK
  <2> QED BY <2>1, <2>2 DEF WorkerOK
<1> QED BY <1>1, StartupInvariance, PTL

(* A worker has the limits of its profile, on a host that can apply them,  *)
(* and never more than the gateway has.                                    *)
THEOREM ProfileIsApplied == Spec => []HardenedAsDeclared
<1>1. ASSUME NEW n \in Int \X Int
      PROVE  LET files == CapOpenFiles(n) IN
                /\ files[1] <= files[2] /\ files[2] <= MaxOpen /\ 0 <= files[1]
                /\ Within(files[2], n[2]) /\ Within(files[1], n[1])
  BY DEF CapOpenFiles, Bounded, MaxOpen, Within
<1>2. WInv => HardenedAsDeclared
  <2> SUFFICES ASSUME WInv, NEW d \in Children, state[d] # "unborn"
               PROVE  LET files == limits[d].nofile IN
                         /\ dir[d].profile \in {"restricted", "strict"} => ~ limits[d].dumps
                         /\ dir[d].profile = "strict" =>
                               /\ files[1] <= files[2] /\ files[2] <= MaxOpen
                               /\ 0 <= files[1] /\ Within(files[2], host.nofile[2])
                               /\ Within(files[1], host.nofile[1])
                               /\ host.platform = "linux" /\ host.seccomp
    BY DEF HardenedAsDeclared
  <2>1. limits[d] = LimitsOf(dir[d]) /\ Entitled(dir[d]) /\ host.nofile \in Int \X Int
    BY StartupAssumption DEF WInv, WorkerOK, TypeOK
  <2>2. dir[d].profile \in {"restricted", "strict"} => ~ limits[d].dumps
    <3>1. dir[d].profile \in {"restricted", "strict"} => Sandboxed(dir[d])
      BY DEF Sandboxed, NoProfile
    <3>2. limits[d].dumps = ~ Sandboxed(dir[d])
      BY <2>1 DEF LimitsOf
    <3> QED BY <3>1, <3>2
  <2>3. dir[d].profile = "strict" => limits[d].nofile = CapOpenFiles(host.nofile)
    BY <2>1 DEF LimitsOf
  <2>4. dir[d].profile = "strict" => host.platform = "linux" /\ host.seccomp
    BY <2>1 DEF Entitled, NoProfile
  <2> QED BY <1>1, <2>1, <2>2, <2>3, <2>4
<1> QED BY <1>2, StartupInvariance, PTL

(* One bad manifest, and nothing is started.                               *)
THEOREM BadManifestStartsNothing == Spec => []BadDirectoryLeavesNothing
<1>1. WInv => BadDirectoryLeavesNothing
  BY DEF WInv, PhaseOK, WorkerOK, BadDirectoryLeavesNothing
<1> QED BY <1>1, StartupInvariance, PTL
===============================================================================
