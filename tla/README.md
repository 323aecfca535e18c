# A TLA+ model of Confluox

Confluox is a desktop shell (Tauri, Rust) that starts a local HTTP gateway
(FastAPI, Python), which loads API plugins lazily, runs worker plugins as child
processes, and serves a web UI (TypeScript). This directory models the parts of
it whose behaviour depends on order, concurrency, time or failure, checks them
with TLC on small instances and proves the most important facts with TLAPS.

## 1. The system

| Component | Source (under `src/`) | State it keeps | Operations | Talks to |
|---|---|---|---|---|
| Activation controller | `gateway/gateway/plugin_activation.py` | a status and a condition per plugin, one lock | `register_plugins`, `ensure_activated`, `snapshot` | called by the lazy-activation middleware; `snapshot` by `/api/system/plugin-activation` |
| Plugin loader | `gateway/gateway/plugin_loader.py` | the descriptors; the routes it adds to the app | `discover_api_plugins`, `activate_plugin_descriptors`, the middleware, `_activate_out_of_process_descriptor` | controller, process manager, policy, manifest |
| Proxy circuit | `plugin_loader.py` | `failure_count`, `circuit_open_until` per plugin | `proxy`, `_record_circuit_failure`, `_reset_circuit` | the plugin's child process over HTTP |
| Process manager | `gateway/gateway/process_manager.py` | list of children, map of workers | `spawn`, `spawn_worker`, `terminate_all`, `get_worker_statuses` | the operating system |
| Gateway main | `gateway/gateway/main.py` | ready file, `should_exit`, the listening socket | startup sequence, ready hook, `on_shutdown` | everything in the gateway |
| Host liveness watch | `gateway/gateway/host_liveness.py` | a daemon thread | poll the host pid (or a stream), call `on_shutdown` | main |
| Auth | `gateway/gateway/auth.py`, `bootstrap.py` | secret, scope and ttl, issue time | middleware decision, `issue_`/`validate_scoped_token` | host (issues tokens), UI (uses them) |
| Worker runtime | `gateway/gateway/plugin_runtime.py`, `plugin_policy.py`, `sandbox_*.py` | worker statuses | `start_worker_plugins` | process manager |
| Desktop host | `src-tauri/src/gateway.rs`, `lib.rs` | child handle, stdin, startup token, ready file path | `start_gateway`, `wait_for_ready_port`, `shutdown`, token refresh | gateway (stdin, ready file, HTTP, signals) |
| Host diagnostics | `src-tauri/src/gateway_diagnostics.rs` | event ring, summary, `healthy` | `append_*`, `snapshot`, `get`, `redact` | desktop host, UI |
| Artifact resolver | `src-tauri/src/gateway_artifact.rs` | none | `resolve_gateway_binary_from_artifacts` | desktop host |
| Stream demo | `gateway/gateway/routes/streaming.py`, `frontend/src/App.tsx` | the output shown | `/api/stream/demo`, `handleStreamDemo` | UI client |
| UI client | `frontend/src/api/client.ts`, `sse.ts` | cached config, `window.__GATEWAY__` | `request`, refresh and retry, SSE reading | desktop host, gateway |

What is hard about each, and what makes it correct:

* **Activation controller.** Threads race between reading a status and claiming
  it, and between deciding to wait and being notified. Correct: one run of
  `activate()` per plugin, one answer for everybody, nobody sleeps for ever.
* **Proxy circuit.** Handlers read the circuit before they await the upstream
  and write it afterwards, so results arrive out of order and late. Correct:
  it opens after the configured number of failures, stays open no longer than
  configured after the last failure, and an open circuit sends nothing upstream.
* **Process manager and shutdown.** Three parties call `on_shutdown` (the HTTP
  handler, the liveness thread, main's `finally`), while activation may still be
  spawning; the host kills the gateway if it takes too long. Correct: no managed
  child outlives the gateway.
* **Startup and the ready file.** The file outlives a crashed gateway, the host
  may give up before it appears, and a second host uses the same path. Correct:
  the host only ever uses the port of the child it started, and what the
  diagnostics say of the start is what became of it.
* **Tokens.** Requests in flight when a token expires refresh it concurrently.
  Correct: each request is retried at most once and with a token issued after
  the refusal, and runs twice only if its route asked for it.
* **Workers, discovery, policy.** One bad plugin among several. Correct: the
  workers that are entitled to run are started, with what their profile stands for,
  and no others; a manifest that is bad leaves nothing behind.
* **Event streams.** Chunks end anywhere, two streams share one output. Correct:
  where chunks end makes no difference, and the events are those that were sent.
* **Diagnostics.** Two caps at once. Correct: the newest lines that fit are kept.
* **Artifacts, configuration.** Decisions without state.

## 2. Plan

Done:

1. `PluginActivation` with the abstract `OneShot`: safety, liveness, refinement,
   proofs.
2. `ProxyCircuit`: handlers in flight, clock, threshold; safety, liveness, proofs.
3. `ProcessManager` and, built on it, `GatewayLifecycle`: host, gateway,
   children, `on_shutdown` from three parties, the deadlines, token expiry;
   safety, liveness, proofs.
4. `LazyActivation`: the middleware on the single event loop, the boot of an
   out-of-process plugin, the quota; safety, liveness, refinement of `OneShot`,
   proofs.
5. `TokenRefresh`: UI requests, expiry, refresh and retry; safety, liveness,
   proofs.
6. `ReadyHandshake` with `Diagnostics` and the abstract `Launch`: several apps
   around one ready file, what the diagnostics say of the start, the event ring;
   safety, liveness, refinement, proofs.
7. `WorkerStartup`, on `ProcessManager`: discovery, manifest and policy decisions,
   sandbox profiles, the start of the workers, their end; safety, liveness, proofs.
8. `SseStream`: the reading of a stream against the standard; safety, proofs.

Left: `ArtifactResolution` and the parsing of configuration were considered and left
out: they keep no state, and a model would repeat their conditions. Of what the runs
check, only liveness is without a proof (section 4).

The violation runs of one component share its module; runs of one
specification are kept in one configuration where their bounds agree, as is done
for the gateway's life, the controller and the circuit. Type correctness is proved
for every specification, so most runs do not repeat it.

## 3. Modules

### PluginActivation, OneShot

`PluginActivation` is `plugin_activation.py` under any number of threads. Its
`status` is `_statuses` (a name that was never registered is
`Unregistered`), `lock`-protected sections are single actions: `Call` enters
`ensure_activated`, `ReturnFinal`, `Claim` and `Wait` are the three ways through
the first `with`, the actions `Activate...` are the run of `activate()` outside
the lock (it returns, raises an exception or aborts with a `BaseException`, which
the code does not catch), `Publish` is the second `with` with its `notify_all`,
`Return` the end. `ExtractErrorCode` is `_extract_error_code`.
`OneShot` is the promise: a question is worked on once, decided once, and
everybody who asks hears that decision.

* `activation`: 3 threads, 2 plugins, runs that return, raise or abort. Three
  threads give an owner, a sleeper and a late caller on one plugin, two plugins show
  that one plugin's `notify_all` is not another's. `AnswersAgree`,
  `SleepersHaveAWaker` (no lost wake-up), the refinement `ImplementsOneShot`, and
  `EveryCallReturns`. Fairness: a thread that can take a step takes it, and
  `activate()` ends. After an abort the waiters of that plugin do sleep for ever,
  which is the one exception that `EveryCallReturns` makes. `ActivatedAtMostOnce`
  and `StatusNeverRegresses` are proved.

### ProxyCircuit

The closures `proxy`, `_record_circuit_failure` and `_reset_circuit` of
`_register_proxy_route`. A handler is at `idle`, `reading` (awaiting the body),
`sent` (awaiting the upstream) or holds its result; each action is the code
between two awaits. `open_for` is `circuit_open_until` minus now. The code's
count has no bound; the model's stops at `MaxFailures`, above the threshold, where
only the comparison with the threshold matters.

* `circuit`: 3 requests, threshold 2, window 2. Three requests let one late
  success and two late failures meet an open circuit. `OpenOnlyAtThreshold`;
  `OutageBounded` (failures that were on their way extend an outage by at most one
  window each); `ToldOpenWhenOpen`; `OpenCircuitRecovers` under the fairness of
  time, the event loop and the upstream timeout; `HealthyUpstreamCloses` under the
  explicit assumption `Busy` that clients keep asking.

### ProcessManager, GatewayLifecycle

`ProcessManager` is `spawn` and `terminate_all` of `process_manager.py` under
several threads: `Popen` and `Track` are the two steps of `spawn`, between which
another thread may run; `Terminate`, `StartWaiting`, `SeeExit`, `Kill`, `Finish`
are the steps of the two loops, by position in the list that nothing protects.
A process obeys SIGTERM or ignores it, and may end by itself at any time.

It is run as part of `WorkerStartup` and `GatewayLifecycle`, whose steps are made
of its steps. That they implement it (`ImplementsProcessManager`) is therefore no
question for a run; it is proved because it carries the theorems about
`terminate_all` over to its users (`WorkersAreManaged`, `ChildrenAreManaged`).

`GatewayLifecycle` extends it with `run_gateway` (`starting`, `watching`,
`serving`, `finishing`, `exited`), the liveness watch, the shutdown route, and the
host's `start_gateway` and `shutdown`. `closing[t]` is where thread `t` is in
`on_shutdown`; its steps are `TerminateStep`, `UnlinkReadyFile` and
`SetShouldExit`. `boot` is the activation that keeps the event loop. A tick is a
second and passes only when nobody can move (`Quiet`), so the deadlines of host
(2 s for the POST, 3 s for the end) and gateway (3 s per child) race as they do
in the program. The ready hook (`main.py:136-142`) runs just before uvicorn
listens; `WriteReadyFile` joins the two, since a window is not opened and closed in
between.

* `gateway_lifecycle`: two workers, one plugin, up to two of the three stubborn,
  expiring token, failing start, host crash, degraded host. Two stubborn children
  are what exceeds the host's deadlines; the plugin is what is spawned while others
  are in `terminate_all`. `ExitLeavesNoChild`, `ExitLeavesNoReadyFile`,
  `CloseIsOrderly`, and under fairness `CloseEndsBoth`:
  after the window is closed, or the host is gone in any other way, neither host nor
  gateway stays. The boot timeout is 1 here, so that one
  stubborn child and a boot fit into 5 s, the case `CloseIsOrderly` is about; with
  the default of 3 s `WithinBudget` is false as soon as one child is stubborn.
* `gateway_close_expired_token` (violation): five minutes after the start the
  gateway refuses the host's shutdown request and is killed; its workers stay.
* `gateway_partial_start` (violation): a worker that cannot be started, because of
  its command or of a blank entry in its permissions, ends `run_gateway` outside its
  `try/finally`; the workers before it stay.

Fairness: started processes go on starting (`StartWorker`, `StartWatch`,
`WriteReadyFile`), threads, the event loop and the host's main thread run
(`Urgent`), the watch polls (`NoticeHostGone`), time passes (`Second`). Nothing is
assumed about requests for plugins, the user, or children that ignore SIGTERM.

The premise `~ late` of `CloseIsOrderly` is needed: a plugin that is activated
while another thread is in the second loop of `terminate_all` has not been sent a
SIGTERM, is waited for during the whole timeout and can cost the host's patience.

### LazyActivation

`register_lazy_api_plugin_activation`, `activate_plugin_descriptors` and
`_activate_out_of_process_descriptor`. `ensure_activated` runs on the event loop:
`loop` is the request whose activation keeps it, `step` how far that is, and no
other request moves meanwhile. The plugins' processes do: `ChildBinds`,
`ChildEnds`, and a stranger that takes a port (`StrangerBinds`). `BootPolls` is how
often health is polled before the boot timeout: a poll looks at the child
(`FindExited`, `FindRunning`), and then at the answer, which is that of whoever
listens on the port, if anybody does: 200 (`FindHealthy`), 401 (`FindRefused`) or
none of the two (`PollAgain`). The controller's two critical sections are one step
each here: only the event loop's thread enters them.

* `lazy_activation`: an in-process and two out-of-process plugins, 2 requests,
  one port. With one port, a dead plugin's port is reserved for the next plugin and
  bound by a stranger or by a process that is late, in every order.
  `ProxyMeansActive`, `ImplementsOneShot`, `EveryRequestAnswered` (fairness: the activation that keeps the loop goes on, then
  the loop gets to every request). `RefusedForGood` is proved.
* `lazy_activation_port` (violation): a process other than the plugin's, also that
  of another plugin, listens on the port and answers the health request with 200.
  The plugin is active and its requests go there (`LivePluginsHavePorts`).

### TokenRefresh

`request`, `requestWithToken`, `resolveGatewayConfig` and the request of
`streamGatewaySse` in `client.ts`, `get_gateway_info` and
`refresh_gateway_auth_token` in `gateway.rs`, the auth layer in `auth.py` and the
order of the layers in `create_app`. A token is its ticks left, which is all that
tells tokens of one host apart. `window` is `window.__GATEWAY__`, `promise` is
`configPromise`, a rejected one included. Requests run interleaved at every await.

`Added` is the order in which the layers are registered and `Readable` says which
layer's answers the UI can read. The webview's CORS check is `enforced`, chosen at
the start: the shipped UI runs where it is enforced, and there no refusal can be
read, so the refresh never happens; where it is not, the run shows that the
protocol of UI, host and gateway is right once the layers are put in order.

* `token_refresh`: 2 requests (each call a stream or not), time to live 2. Two
  requests refresh concurrently with tokens of different age and overwrite the
  shared one in either order; with 2 ticks a token may be young, old or expired.
  `ExecutedAgainOnlyIfAsked`, `SurvivesExpiry`, `EveryCallSettles` (fairness: host and
  gateway answer or the connection fails, and the UI's loop gets to every answer).
* `token_refresh_origin` (violation): the documented refresh, in a webview that
  enforces CORS.

A route answers what it likes, also the 401 `auth_token_expired` of the auth layer.
The UI cannot tell the two apart and sends the call again, which then runs twice;
`ExecutedAgainOnlyIfAsked` says that this is the only way (`asked` remembers such an
answer). Streams do not refresh at all (`client.ts:173`); `SurvivesExpiry` leaves
them out.

### WorkerStartup

`discover_api_plugins`, `discover_worker_plugins`, `start_worker_plugins`, the
decisions of `plugin_manifest.py`, `plugin_policy.py`, `sandbox_capability.py` and
`sandbox_executor.py`, `spawn_worker` and what it does to a child before exec. One
thread does this, so `phase` is where `run_gateway` is (`discovering`, `starting`,
`serving`, `failed`); the workers may end meanwhile, and once it serves, two threads
may be in `terminate_all`. Directory `d` is child `d` of `ProcessManager`, whose
steps `Popen` and `Track` are parts of `SpawnWorker` and `TrackWorker`.

A manifest is abstracted to what the decisions tell apart: whether a field is
absent, good or bad, the profile, the permissions as sets of entries. `limits` is
what the child has been given before exec: whether it may dump core, and its limits
for open files, where -1 is none.

* `worker_startup`: 2 directories, every pair of 17 manifests, three machines (Linux
  with everything, macOS without seccomp, Windows). A pair is what it takes for one
  bad plugin next to a good one and for two workers of one name. The manifests have
  one of each kind that some decision tells apart. `ServesTheEntitled` states who is
  to run from the manifest alone, `HardenedAsDeclared` what a profile stands for,
  `BadDirectoryLeavesNothing` that nothing was started when discovery raises;
  `PassedAreDoomed`, `NothingForgotten`, `CallBounded` and `EveryCallReturns` are the
  promises of `terminate_all`. `Timeout` is 1 and `elapsed` is counted up to 3, above
  the bound of 2 x 1. Fairness: the start goes on, the calls of `terminate_all` go on,
  time passes, a process that was killed or obeys ends.

### ReadyHandshake, Diagnostics, Launch

`start_gateway`, `wait_for_ready_port`, `shutdown` and the readers of the child's
output in `gateway.rs` and `lib.rs`, with what `main.py` does to the ready file: it
unlinks an old one, writes a temporary file and replaces, and unlinks in each
`on_shutdown` whatever is there. All apps of a user share the path. `file` is whose
payload is there; the pid in it tells gateways apart, and a pid that is given out
again is left out. Apps and gateways start, fail, crash and end in any order.
A start may fail before its spawn (`PrepareFails`: the data directory, the clock, the
token), which reports nothing, in it (`SpawnFails`), or while the host waits: it looks
at the child (`SeeExit`, `SeeRunning`), reads the file (`ReadReady`, `ReadOther`),
sleeps, and only then looks at the time (`PollAgain`, `GiveUp`).
`Diagnostics` is the ring of `gateway_diagnostics.rs`, an event being the length of
its message. `Launch` is the promise: a start ends in the use of its own gateway,
which is up, or in failure, and this is decided once.

* `ready_handshake`: 2 apps, 2 polls, a file that may be left from former times; a
  ring of 2 lines and 5 bytes with events of 1 to 4 bytes, up to two lines of one
  gateway's output (`MaxSaid`) and the host's own messages. Two apps are what it
  takes for one's file to be in the other's way; the second poll is the one that may
  see what was not there; the lengths make the line cap bite before the byte cap and
  after it. `ImplementsLaunch`, `NeverInvalid` (nobody reads half a file),
  `CloseLeavesNothing`, `StatusTellsTheStart` (a start for which a process was
  started does not fail without a reason), `RingKeepsTheNewest`, and
  `LonelyStartSucceeds` under the only fairness that is assumed, that the main
  thread of a starting app goes on: a file that is there before the host's last
  look is found (`InTime`), while no other app and no other gateway is around
  (`Alone`).

With another gateway around, a start may fail although its own is up: the other one
unlinks the file at the path when it starts and when it ends.

### SseStream

`streaming.py` (what is sent), the loop of `streamGatewaySse` and `sse.ts` (how it
is read), `handleStreamDemo` of `App.tsx` (what is shown). A byte is a token: line
feed, carriage return, a space, other white space, the two bytes of some character,
a field's name with or without its colon, or anything else. `phase` is where a stream is
in `streamGatewaySse`; its actions are `Click`, `Open`, `Read` and `Finish` (a turn
of the loop without and with `done`) and `BreakOff`. What the loop and the parser
compute (`Decode`, `Extract`, `Parse`) are folds and recursive functions, so that
theorems can be stated about them. The names `StreamInit`, `StreamNext`,
`StreamSpec` and `StreamTypeOK` leave room for `TokenRefresh`, the other half of
`client.ts`, about which the same module proves.

* `sse_stream`: every text of up to 5 pieces (line ends of each kind, fields, a
  character, possibly cut off at the end), every block of two lines, fields with or
  without colon, whose values have white space at either end or are empty, all in
  chunks that end anywhere, or the demo with two clicks. Five pieces make two frames,
  or one with a delimiter of either kind cut at any place; two lines are what one
  field may do to another of its frame; two streams are read at once for the demo
  only. `ChunkingInvisible`, `ReadsConventionalText`, `DemoArrives`, `OutputInOrder`.
  The run has no fairness: it asks for no liveness.

`Standard` is the event stream standard, character by character: a line ends with
LF, CR LF or CR, one space is removed from a value, an empty event name is
"message", a field may have no colon. (What the end of a stream cuts off is
dispatched, as the code does.) The parser is no reader of this standard:
it removes all white space around an event name and in front of data, keeps an empty
event name, ignores a field without colon, and finds no frame where lines end with
CR. `ReadsConventionalText` says that these are all the differences: where lines end
all with LF or all with CR LF (`Uniform`) and no line read so far is one of those
(`Conventional`), what is delivered is what the standard says, at every moment.

## 4. What is proved

| Module | Theorems | Inductive invariant |
|---|---|---|
| `PluginActivation_proofs` | `TypeCorrect`, `AtMostOnce`, `Agreement`, `NoLostWakeup`, `Monotone`, `Refinement` | `IInv`: what each thread holds at each place (`ThreadOK`), one owner per plugin being activated (`OneOwner`), what a status says about its history (`PluginOK`) |
| `ProxyCircuit_proofs` | `TypeCorrect`, `OpensOnlyAtThreshold`, `OutageIsBounded`, `ToldTheTruth` | the outage so far plus what is left of it is paid for by the requests that are no longer in flight |
| `ProcessManager_proofs` | `TypeCorrect`, `LeavesOnlyDoomed`, `ForgetsNothing`, `CallIsBounded` | `IInv`: positions, what has been passed, and the time spent so far against the position in the list |
| `GatewayLifecycle_proofs` | `LifecycleTypeCorrect`, `UsesProcessManager`, `ChildrenAreManaged`, `LeavesNoChild`, `LeavesNoReadyFile`, `ClosesInTime` | `GLInv`: `IInv`, the place in `on_shutdown` against the place in `terminate_all` (`ClosingOK`), and nothing is spawned or written once main is in `on_shutdown` (`MainIsLast`); for `ClosesInTime` also `CloseInv`: while the host waits, the gateway needs less time than the host has left (`Remaining` < `TimeLeft`) |
| `LazyActivation_proofs` | `TypeCorrect`, `ProxyIffActive`, `RefusalIsFinal`, `LazyRefinement` | `LInv`: only the plugin of the request that keeps the loop is being activated (`LoopOK`), and which process serves which port (`ChildrenOK`) |
| `WorkerStartup_proofs` | `StartupTypeCorrect`, `StartupUsesProcessManager`, `WorkersAreManaged`, `EntitledAreServed`, `ProfileIsApplied`, `BadManifestStartsNothing` | `WInv`: what each report says of its directory, that nothing is started before all of discovery is over, and that the limits of a process are those of its manifest |
| `ReadyHandshake_proofs` | `HandshakeTypeCorrect`, `NeverReadsHalf`, `CloseIsClean`, `StatusIsTrue`, `LaunchRefinement`, `RingIsNewest` | `HInv`: what is at the path has been published, and a gateway that has not come up has published nothing (`FileOK`); the ring has its own (what is in it is the longest end of the events that fits) |
| `Client_proofs` (requests) | `TypeCorrect`, `NoUnaskedExecution`, `ExpiryIsSurvived` | `TInv`: a call that is sent again has not been executed unless its route asked for that, and the age of a retry's token is at most the time its call has taken |
| `Client_proofs` (streams) | `StreamTypeCorrect`, `ChunksDoNotMatter`, `ViewInOrder`, `ConventionalTextIsRead`, `DemoIsRead` | `StreamInv`: what a stream has delivered and what it keeps for later are what the parser makes of all bytes read so far, as one chunk |

Each follows the same path: the invariant holds initially, each action keeps it,
it implies the property. The strengthening is needed because the properties speak
of the end of a call and the steps that decide it are taken earlier, by others:
`ExitLeavesNoChild`, for instance, says nothing about a gateway that is still
running, while what makes it true is that main's own pass over the list comes
after the last spawn.

The proofs assume the named assumptions on the constants only
(`CircuitAssumption`: finitely many requests, a positive threshold and window as
`activate_plugin_descriptors` demands; `ProcessManagerAssumption`,
`LifecycleAssumption`: positive timeouts, three distinct callers, finitely many
children, since the deadlines are a matter of how many are stubborn;
`LazyAssumption`: the names for "nobody" and "a stranger" are nobody's names;
`TokenAssumption`: a positive time to live; `StartupAssumption`: directories are
numbered, and the allow lists contain no blank or malformed entry;
`HandshakeAssumption`: at least one poll, and names for "no file" that are no app's;
`DiagnosticsAssumption`: positive caps; `StreamAssumption`: a length of texts), which
every run of the module evaluates. The
theorem modules hold for any number of threads, plugins, children, requests,
ports, streams, lengths of texts and of the ring, and any deadlines.

The less obvious arguments:

* *The deadlines* (`ClosesInTime`). While the host waits for the gateway to close,
  the time that it still waits (`TimeLeft`) is more than the time that the gateway
  can still need (`Remaining`): the rest of the boot that keeps the loop, and then
  one timeout for each stubborn child from the handler's position in the list on,
  less what it has waited for the present one. A tick takes one from both, and no
  other step makes the second more. The premise `~ late`
  excludes the child that costs a timeout although it would obey a SIGTERM.
* *The ring* (`RingIsNewest`). The ring is what was said without the first `n`
  events, for the least `n` at which the rest fits, and its `total` is the bytes of
  that rest: what did not fit before a new event does not fit with it either, so that
  nothing that was dropped has to come back.
* *Chunks* (`ChunksDoNotMatter`). Decoding goes on from the byte that was kept
  (`DecodeInPieces`), and taking frames from a string goes on from the rest that was
  kept (`ExtractInPieces`): the first delimiter of the whole is that of the first
  piece if it has one, and no delimiter begins in a frame that was taken and ends
  in what comes later. The rest has no delimiter in it, which is what `StreamTypeOK`
  adds to the types.
* *The standard* (`ConventionalTextIsRead`) in two steps, with a reader in between
  that goes line by line but takes white space off as the code does. The parser works
  on whole frames and this reader on characters. Within a frame both collect the same
  (`ParseCollects`). One character more (`CharacterRead`) either completes a
  delimiter, and then the reader dispatches what `Parse` makes of the frame, or it
  does not, and then neither makes an event. The mode of the line ends is what keeps
  a delimiter of one kind from being one half of the other, and decoding keeps it
  (`DecodedIsTidy`). So much holds of any lines (`ReadsLineByLine`); on conventional
  ones the reader makes of each field what the standard makes of it
  (`ConventionalValues`, `ReadersAgree`).
* *The demo* (`DemoIsRead`) follows from `ReadsLineByLine`, and the value of the
  demo's 36 bytes, read by that reader nine at a time.

What recursive functions and folds compute is proved by induction over a set of
numbers (`UpTo`: a least number outside of the set would contradict the step). That
such a function exists at all is a lemma of its own (`StepsExist`), since TLA+
defines it by `CHOOSE`.

Only model-checked: the liveness properties, because fairness and ENABLED are beyond
the prover (`CloseEndsBoth`, `OpenCircuitRecovers`, `HealthyUpstreamCloses`,
`EveryRequestAnswered`, `EveryCallSettles`, `EveryCallReturns`,
`LonelyStartSucceeds`), and the disagreements of section 5. Every invariant, action
property and refinement of a passing run is also proved.

## 5. Where the code and its documentation disagree

1. `gateway_close_expired_token`: `shutdown` in `gateway.rs` uses the token of the
   start, which lives 300 s, and ignores the answer.
2. `gateway_partial_start`: `start_worker_plugins` runs before the `try/finally`.
3. `token_refresh_origin`: the auth layer is outside the CORS layer, so the UI
   cannot read the 401 that is to make it refresh (`quick-start.md:66`).
4. `lazy_activation_port`: the health check takes the answer of any process for the
   plugin's; its requests may be proxied to another (`plugin-guide.md:105-106`).

Also seen, and checked by no run of its own:

* The quota of active out-of-process plugins (`plugin-guide.md:125`) refuses nothing:
  it counts those of one call (`plugin_loader.py:139`), and the middleware calls with
  one plugin. `ActiveInCall` is this count.
* A circuit that is open closes early when a request that was let in before it opened
  succeeds; `plugin-guide.md:127` speaks of a "circuit-open duration".
* A failed plugin's process is not stopped and keeps its port, or takes it later; a
  plugin whose process has died stays active, and the next plugin may be given its
  port.
* A route that answers 401 `auth_token_expired` by itself is called a second time.
* A stream does not refresh its token. A renewed token may be overwritten in
  `window.__GATEWAY__` by an older one; the next call then refreshes once more.
* A gateway that starts, or ends late, unlinks the ready file of the next one, whose
  start then times out (`quick-start.md:81-82`).
* A start that fails before its spawn leaves no reason in the diagnostics: the error
  is only printed.
* A ready file that is written during the host's last sleep is not read.
* `healthy` stays true when the gateway ends by itself later on.
* A line of output that is not UTF-8 ends the reader of that stream.
* The profile `strict` demands seccomp of the host but installs no filter
  (`plugin-guide.md:71`).
* Two plugins may have one name, and one may be called `system`; the first directory
  then answers for the prefix.
* A stream that is cut off delivers its last, incomplete event, and the parser departs
  from the event stream standard in the ways that section 3 lists.

## 6. What is not modelled

* Signals to the gateway itself and uvicorn's treatment of open streams at
  shutdown: no code of the repository handles them.
* `start_host_liveness_watch` on a stream: the gateway uses the pid, and only tests
  call the other.
* An error of `try_wait` at the end (`gateway.rs:100`), after which the host removes
  the file without having killed the gateway: no error of `waitpid` on one's own child
  is known to occur.
* The byte order mark of a stream, and a `TextDecoder` that is given other bytes than
  those of one two-byte character.
* Bootstrap and configuration (`bootstrap.py`, `config.py`, command lines and
  environment): sequential parsing, without state. What fails there ends the gateway
  before it starts, a case that `ReadyHandshake` and `GatewayLifecycle` have.
* `gateway_artifact.rs` and the artifact contract: a search order over paths.
* The checks of single manifest fields: their one outcome is that the manifest is bad.
* The redaction of diagnostics: it is about the characters of the text.
* Plugins of one name in the loader: a name is one plugin in the models, since
  nothing in the repository says what two would mean. (Two workers of one name are
  modelled, in `WorkerStartup`.)
* UI views other than the output of the stream demo.
* Token format and signature: all tokens the host issues are well formed, with one
  secret and scope, so only their age tells them apart.
* The resource resolver and the example plugins: no state of their own.
* Build, packaging and CI scripts.

## 7. Running

    tlc -workers 2 -config MCGatewayLifecycle.cfg MCGatewayLifecycle.tla
    tlapm --cleanfp GatewayLifecycle_proofs.tla

The proofs of `Client_proofs` take about ten minutes, those of the other modules
less.

`PROJECT.json` lists every run with its module, configuration and properties, the
mutant that each property detects, the lines of `src/` behind every definition,
the hazards and the theorems.
