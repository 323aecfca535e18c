----------------------------- MODULE WorkerStartup -----------------------------
(***************************************************************************)
(* From the plugin directories to running workers, and to the end of them: *)
(* discover_api_plugins, discover_worker_plugins, start_worker_plugins,    *)
(* the manifest and the policies, and what spawn_worker does to the child   *)
(* of a sandbox profile.  The directories are 1, 2, ... in sorted order,    *)
(* and child d is the process of directory d.                              *)
(*                                                                         *)
(* run_gateway does all this in one thread before it starts any other; then *)
(* the workers are in the hands of terminate_all.                          *)
(***************************************************************************)
EXTENDS ProcessManager, Integers, FiniteSets

CONSTANTS
    Manifests,     \* what may be found in a directory
    Hosts,         \* what the gateway may find on its machine
    Names,         \* plugin names
    TrustedNames,  \* --trusted-api-plugin
    AllowedModes,  \* --allowed-api-execution-mode, or its default
    Malformed,     \* entries that do not match _ENTRY_PATTERN
    Blank          \* entries that strip to nothing

NoProfile == "absent"
Formats   == {"absent", "good", "bad"}
Profiles  == {NoProfile, "none", "restricted", "strict", "custom", "Bad Format"}
Modes     == {"absent", "in_process", "out_of_process", "other"}

(* default_worker_permission_policy, default_worker_sandbox_profile_policy *)
AllowList       == [network |-> {"loopback"}, fs |-> {"read:/tmp"}]
AllowedProfiles == {"restricted", "strict"}

ASSUME StartupAssumption ==
    /\ Children = 1 .. Cardinality(Children) /\ IsFiniteSet(Children)
    /\ \A m \in Manifests :
          /\ m.type \in {"none", "api", "worker", "other"}
          /\ m.name \in Names
          /\ {m.shape, m.entry, m.command} \subseteq Formats
          /\ m.profile \in Profiles
          /\ m.mode \in Modes
          /\ m.outside \in BOOLEAN
    /\ \A h \in Hosts :
          /\ h.nofile \in Int \X Int
          /\ {h.resource, h.seccomp} \subseteq BOOLEAN
    /\ \A n \in DOMAIN AllowList : AllowList[n] \cap (Malformed \cup Blank) = {}

VARIABLES
    dir,      \* the manifest of each directory; type "none" if there is none
    host,     \* platform, modules and open-file limits of the machine
    phase,    \* where run_gateway is
    report,   \* the WorkerRuntimeStatus of each worker
    workers,  \* _workers: the process last started under each name
    limits    \* what each started worker may do: dump core, open files

wsVars == <<dir, host, phase, report, workers, limits>>
vars   == <<pmVars, wsVars>>

PermissionCodes == {"unknown_namespace", "invalid_entry_format", "entry_not_allowed"}
Codes           ==
    PermissionCodes \cup
    {"invalid_profile_format", "profile_not_allowed", "sandbox_profile_unknown",
     "sandbox_capability_missing", "sandbox_runtime_not_supported"}

Pending       == [is |-> "pending", codes |-> {}]
Rejected(cs)  == [is |-> "rejected", codes |-> cs]
Started(d)    == [is |-> IF Live(d) THEN "running" ELSE "ended", codes |-> {}]
NoWorker      == 0

Worker(d) == dir[d].type = "worker"

-------------------------------------------------------------------------------
(* parse_plugin_manifest; "shape" stands for JSON and the fields whose only  *)
(* rule is their type.                                                      *)
Parses(m) ==
    /\ m.shape = "good"
    /\ m.type \in {"api", "worker"}
    /\ m.entry # "bad" /\ (m.type = "api" => m.entry = "good")
    /\ m.command # "bad" /\ (m.type = "worker" => m.command = "good")
    /\ m.profile # NoProfile => m.type = "worker"
    /\ m.mode # "absent" => m.type = "api" /\ m.mode \in {"in_process", "out_of_process"}
    /\ m.type = "api" => (m.command = "good" <=> m.mode = "out_of_process")

(* evaluate_api_plugin_trust and evaluate_api_plugin_execution_mode. *)
Trusted(m)     == ~ m.outside \/ m.name \in TrustedNames
ModeAllowed(m) == (IF m.mode = "absent" THEN "in_process" ELSE m.mode) \in AllowedModes

Admissible(m) ==
    m.type # "none" => Parses(m) /\ (m.type = "api" => Trusted(m) /\ ModeAllowed(m))

(* evaluate_worker_permissions: it raises on a blank entry, otherwise it    *)
(* lists what is wrong.                                                     *)
HasBlank(m) == \E n \in DOMAIN m.permissions : m.permissions[n] \cap Blank # {}

Wrong(code, n, entries) ==
    IF n \notin DOMAIN AllowList THEN code = "unknown_namespace"
    ELSE \/ code = "invalid_entry_format" /\ entries \cap Malformed # {}
         \/ code = "entry_not_allowed" /\ ~ entries \subseteq Malformed \cup AllowList[n]

PermissionViolations(m) ==
    {code \in PermissionCodes :
        \E n \in DOMAIN m.permissions : Wrong(code, n, m.permissions[n])}

(* evaluate_worker_sandbox_profile. *)
ProfileViolations(m) ==
    IF m.profile \in AllowedProfiles \cup {NoProfile} THEN {}
    ELSE IF m.profile = "Bad Format" THEN {"invalid_profile_format"} ELSE {"profile_not_allowed"}

-------------------------------------------------------------------------------
(* detect_host_sandbox_capabilities. *)
Supports(h, capability) ==
    /\ h.platform \in {"linux", "darwin"}
    /\ capability \in {"rlimit_core", "rlimit_nofile"} => h.resource
    /\ capability = "seccomp" => h.platform = "linux" /\ h.seccomp

(* build_sandbox_spawn_plan: what a profile needs and a host lacks.         *)
Required(profile) ==
    {"posix_preexec", "rlimit_core"}
    \cup (IF profile = "strict" THEN {"rlimit_nofile", "seccomp"} ELSE {})

Sandboxed(m) == m.profile \notin {NoProfile, "none"}
Missing(m)   == {c \in Required(m.profile) : ~ Supports(host, c)}

(* Mutant: what is missing is left out of the sandbox. *)
DowngradingViolations(m) ==
    IF Sandboxed(m) /\ m.profile \notin {"restricted", "strict"}
    THEN {"sandbox_profile_unknown"} ELSE {}

(* The ValueErrors of spawn_worker, as start_worker_plugins reports them.   *)
SandboxViolations(m) ==
    IF ~ Sandboxed(m) THEN {}
    ELSE IF m.profile \notin {"restricted", "strict"} THEN {"sandbox_profile_unknown"}
    ELSE IF Missing(m) # {} THEN {"sandbox_capability_missing"}
    ELSE IF host.platform = "win32" \/ ~ host.resource \/ (m.profile = "strict" /\ ~ host.seccomp)
    THEN {"sandbox_runtime_not_supported"} ELSE {}

(* The first of the three checks that objects decides. *)
Violations(m) ==
    IF PermissionViolations(m) # {} THEN PermissionViolations(m)
    ELSE IF ProfileViolations(m) # {} THEN ProfileViolations(m) ELSE SandboxViolations(m)

(* _cap_open_files on <<soft, hard>>, where a negative limit is none.       *)
MaxOpen == 128

(* Mutant: no limit is taken for a number. *)
BoundedPlainly(n) == IF n <= MaxOpen THEN n ELSE MaxOpen

Bounded(n) == IF n < 0 \/ n > MaxOpen THEN MaxOpen ELSE n

CapOpenFiles(nofile) ==
    LET hard == Bounded(nofile[2])
        soft == Bounded(nofile[1]) IN
    <<IF soft > hard THEN hard ELSE soft, hard>>

(* _preexec: what the child of a worker may do once it runs. *)
LimitsOf(m) ==
    [dumps  |-> ~ Sandboxed(m),
     nofile |-> IF m.profile = "strict" THEN CapOpenFiles(host.nofile) ELSE host.nofile]

-------------------------------------------------------------------------------
Unlimited == [dumps |-> TRUE, nofile |-> host.nofile]

Init ==
    /\ PMInit
    /\ dir \in [Children -> Manifests]
    /\ host \in Hosts
    /\ phase = "discovering"
    /\ report = [d \in Children |-> Pending]
    /\ workers = [n \in Names |-> NoWorker]
    /\ limits = [d \in Children |-> Unlimited]

(* Both discoveries read every manifest before anything is started; the     *)
(* first that does not pass raises, and that ends the gateway.              *)
Discover ==
    /\ phase = "discovering"
    /\ \A d \in Children : Admissible(dir[d])
    /\ phase' = "starting"
    /\ UNCHANGED <<pmVars, dir, host, report, workers, limits>>

(* Mutant: a bad api plugin does not keep the workers from being started. *)
DiscoverWorkersAnyway ==
    /\ phase = "discovering"
    /\ ~ \A d \in Children : Admissible(dir[d])
    /\ phase' = IF \A d \in Children : Worker(d) => Parses(dir[d]) THEN "starting" ELSE "failed"
    /\ UNCHANGED <<pmVars, dir, host, report, workers, limits>>

DiscoveryRaises ==
    /\ phase = "discovering"
    /\ ~ \A d \in Children : Admissible(dir[d])
    /\ phase' = "failed"
    /\ UNCHANGED <<pmVars, dir, host, report, workers, limits>>

(* start_worker_plugins takes the workers in order. *)
Due(d) ==
    /\ phase = "starting" /\ spawning = {}
    /\ Worker(d) /\ report[d] = Pending
    /\ \A e \in 1 .. d - 1 : Worker(e) => report[e] # Pending

Reject(d) ==
    /\ Due(d)
    /\ ~ HasBlank(dir[d]) /\ Violations(dir[d]) # {}
    /\ report' = [report EXCEPT ![d] = Rejected(Violations(dir[d]))]
    /\ UNCHANGED <<pmVars, dir, host, phase, workers, limits>>

SpawnWorker(d) ==
    /\ Due(d)
    /\ ~ HasBlank(dir[d]) /\ Violations(dir[d]) = {}
    /\ Popen(d)
    /\ limits' = [limits EXCEPT ![d] = LimitsOf(dir[d])]
    /\ UNCHANGED <<dir, host, phase, report, workers>>

(* Popen raises, for a command that does not exist, or the permissions do   *)
(* because of a blank entry: nobody catches either.                         *)
StartRaises(d) ==
    /\ Due(d)
    /\ HasBlank(dir[d]) \/ Violations(dir[d]) = {}
    /\ phase' = "failed"
    /\ UNCHANGED <<pmVars, dir, host, report, workers, limits>>

(* Mutant: the process is put under its name only. *)
NameWorker(d) ==
    /\ d \in spawning
    /\ spawning' = spawning \ {d}
    /\ workers' = [workers EXCEPT ![dir[d].name] = d]
    /\ report' = [report EXCEPT ![d] = Started(d)]
    /\ UNCHANGED <<state, obeys, processes, callVars, dir, host, phase, limits>>

(* The process is put on the list and under its name, and polled once.      *)
TrackWorker(d) ==
    /\ Track(d)
    /\ workers' = [workers EXCEPT ![dir[d].name] = d]
    /\ report' = [report EXCEPT ![d] = Started(d)]
    /\ UNCHANGED <<dir, host, phase, limits>>

Serve ==
    /\ phase = "starting" /\ spawning = {}
    /\ \A d \in Children : Worker(d) => report[d] # Pending
    /\ phase' = "serving"
    /\ UNCHANGED <<pmVars, dir, host, report, workers, limits>>

(* From here on a worker ends by itself or by terminate_all.                *)
EndWorkers ==
    \/ \E c \in Children : Exit(c)
    \/ phase = "serving" /\ (Tick \/ \E t \in Callers : TerminateAll(t) \/ CallStep(t))

StartStep ==
    \/ Discover \/ DiscoveryRaises \/ Serve
    \/ \E d \in Children : Reject(d) \/ SpawnWorker(d) \/ StartRaises(d) \/ TrackWorker(d)

Next ==
    \/ StartStep
    \/ EndWorkers /\ UNCHANGED wsVars

Spec == Init /\ [][Next]_vars

(* The starting thread runs, and what ProcessManager assumes.               *)
FairSpec ==
    /\ Spec
    /\ WF_vars(StartStep)
    /\ \A t \in Callers : WF_vars(phase = "serving" /\ CallStep(t) /\ UNCHANGED wsVars)
    /\ WF_vars(phase = "serving" /\ Tick /\ UNCHANGED wsVars)
    /\ \A c \in Children :
          WF_vars(state[c] \in {"stopping", "killed"} /\ Exit(c) /\ UNCHANGED wsVars)

-------------------------------------------------------------------------------
TypeOK ==
    /\ PMTypeOK
    /\ dir \in [Children -> Manifests]
    /\ host \in Hosts
    /\ phase \in {"discovering", "starting", "serving", "failed"}
    /\ report \in [Children -> [is : {"pending", "rejected", "running", "ended"},
                               codes : SUBSET Codes]]
    /\ workers \in [Names -> Children \cup {NoWorker}]
    /\ limits \in [Children -> [dumps : BOOLEAN, nofile : Int \X Int]]

(* What a worker must declare to be started, in the words of                *)
(* docs/en/plugin-guide.md:66-72: nothing that is not on the allowlist, and *)
(* no profile the host cannot apply in full.                                *)
Entitled(m) ==
    /\ \A n \in DOMAIN m.permissions :
          n \in DOMAIN AllowList /\ m.permissions[n] \subseteq AllowList[n]
    /\ \/ m.profile = NoProfile
       \/ m.profile = "restricted" /\ host.platform \in {"linux", "darwin"} /\ host.resource
       \/ m.profile = "strict" /\ host.platform = "linux" /\ host.resource /\ host.seccomp

(* A gateway that serves has started every worker that is entitled to run,  *)
(* and has rejected every other before there was a process of it: neither   *)
(* a rejection nor the end of one worker touches the ones after it.         *)
ServesTheEntitled ==
    phase = "serving" =>
        \A d \in Children :
            /\ state[d] # "unborn" <=> Worker(d) /\ Entitled(dir[d])
            /\ report[d].is = "rejected" <=> Worker(d) /\ ~ Entitled(dir[d])

(* A worker runs with all that its profile stands for, or not at all, and   *)
(* never with more than the gateway itself has.                             *)
Within(n, limit) == limit < 0 \/ n <= limit

HardenedAsDeclared ==
    \A d \in Children :
        LET files == limits[d].nofile IN
        state[d] # "unborn" =>
            /\ dir[d].profile \in {"restricted", "strict"} => ~ limits[d].dumps
            /\ dir[d].profile = "strict" =>
                  /\ files[1] <= files[2] /\ files[2] <= MaxOpen
                  /\ 0 <= files[1] /\ Within(files[2], host.nofile[2])
                  /\ Within(files[1], host.nofile[1])
                  /\ host.platform = "linux" /\ host.seccomp

(* One bad manifest, of whatever plugin, keeps the gateway from serving and *)
(* every worker from being started: nothing is left behind.                 *)
BadDirectoryLeavesNothing ==
    (\E d \in Children : ~ Admissible(dir[d])) =>
        phase # "serving" /\ \A d \in Children : state[d] = "unborn"

(* The startup is one of the users of the process manager.                  *)
ImplementsProcessManager == PMSpec
===============================================================================
