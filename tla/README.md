# Formal models of pyagentbrowser

pyagentbrowser drives a browser from Python: a Python SDK (`src/agentbrowser`)
sends commands to a native engine that lives inside the process
(`crates/pyagentbrowser`, a PyO3 extension around the adapted agent-browser
engine). This directory holds TLA+ models of the parts whose correctness
depends on *order*: which thread gets where first, what is cancelled, what is
held and replayed, what is remembered across an `await`. `PROJECT.json` lists
every component, run, mutant, theorem, finding and hazard, and maps each
definition to the lines it models.

Paths below are relative to the repository root.

## The system

| Part | State it keeps | Operations | Talks to |
|---|---|---|---|
| Async transport `transport/async_.py` | queue, pending list, futures, owner thread, closed flag | execute, shutdown_native, aclose, finalizer, owner loop | event loop (`call_soon_threadsafe`), sync transport |
| Sync transport `transport/sync.py`, `responses.py` | contexts per confirmation id, allowlist, native handle | execute, consume, restore and record a context | policy, native session |
| Domain policy `transport/policy.py` | patterns | prepare, finish, checks, filters | sync transport |
| Controllers `execution/controller*.py`, `state.py` | launched, generation, target, invalidation marks, close task | run a command, continue after the answer, close | transport, CDP, startup |
| Pending actions `execution/pending.py` | decoder, completion chain, error translation | confirm, deny, map, map_error | controller |
| Startup `execution/startup.py`, `launch.py`, `install.py` | installed, configuration | prepare, install, launch parameters | controller |
| CDP access `cdp/` | client, attached page session, frame tree | attach, invalidate, reset, close | controller, browser endpoint |
| Documents and evidence `features/documents`, `features/evidence`, `features/tabs` | refs of a generation, snapshots, handles | resolve, act, wait, refresh, diff | controller, native documents |
| Feature commands `features/` | none | one native action per method | bound executors |
| Native session `crates/pyagentbrowser/src` | engine behind an async mutex, token flags, maintenance task, dashboard slot | execute, interrupt, maintain, drop | adapter |
| Native adapter `crates/agent-browser-adapter/src` | one pending confirmation, approved actions, ref map | dispatch, confirm, deny, expire refs | engine, policy file |
| Dashboard `crates/pyagentbrowser/src/dashboard` | socket, sidecar files, watchdog process | start, serve, clean up | native session, other processes |
| Agent registry `agent.py`, `session_id.py` | named controllers | create, close, close_all | browsers |

A command travels from a task through the controller to the transport. The
asynchronous transport puts it in a queue and an owner thread takes it out,
since the native handle must be used from one thread. The native session runs
it under a token and a deadline. The answer goes back to the loop as a
callback. A command the policy gates is *held* by the engine and its answer is
an id that the program later confirms or denies with another command.

What is hard: two threads that exchange events without a common lock (cancel
against start, close against enqueue); a close that must end whatever the
browser does; state read before an `await` and used after it; an interruption
that drops a native dispatch half-way; three parties that each remember one
part of a held command; operations whose stages stop to ask and go on outside
the `try` they began in; handles and refs of an engine that has one active tab;
a sidecar that outlives the process that made it. The `hazards` of
PROJECT.json give the lines.

## Modules

| Module | What it is |
|---|---|
| `AsyncSession` | the asynchronous session: calls, queue, owner thread, tokens, close |
| `CommandContract` | what an ordered command session promises, without threads |
| `Confirmation` | held commands: engine, session and controller |
| `NativeSession` | calls, tokens, mutex, maintenance, refs and the destructor of one native session |
| `Dashboard` | sidecar files, bridge and watchdog of sessions that share a name |
| `Operations` | operations of several commands, any of which may have to be confirmed |
| `Commands` | the action each method of the SDK sends, and what the SDK knows about actions |
| `Documents` | pages, frames, snapshots, refs and tabs of one engine |
| `Startup` | launch configurations, installation and who launches |
| `Registry` | `agent.create`, `close` and `close_all` |
| `Policy` | the domain allowlist |
| `CdpCache` | direct CDP access: the caches of client, page session and frames |
| `*Invariant` | inductive invariants that stand in a module of their own |
| `AsyncSessionProofs`, `AsyncSessionContract`, `ConfirmationProofs`, `OperationsProofs`, `DocumentsProofs`, `CdpCacheProofs` | theorems and proofs about the module they are named after |
| `NativeProofs` | theorems and proofs about `NativeSession` and `Dashboard` |
| `SdkProofs` | theorems and proofs about `Policy`, `Registry`, `Startup` and the composition `SdkMC` |
| `AsyncSessionMC`, `ConfirmationMC`, `CdpCacheMC`, `NativeMC`, `SdkMC` | instances for TLC |

`Documents`, `Startup` and `Policy` extend `Commands`, so what a caller can send
through a page, a frame, a ref or the browser is computed from the methods there
are. `AsyncSession` implements `CommandContract`. `NativeMC` and `SdkMC` put
several modules into one run (see Runs).

### AsyncSession

`transport/async_.py` and the close path of `execution/controller_async.py`.
Two threads share the state. A step of the loop runs from one await to the
next; it is split only where the owner thread can slip in between two accesses
to shared state: a cancellation sets the event and the token and reads
`started` afterwards (`CancelMark`, `CancelDecide`), and the closing sweep does
the same for each command (`SweepMark`, `SweepDecide`). While one of them is
half done (`~LoopFree`) no other loop step can run. The owner's steps are
reading the queue, checking `cancelled`, setting `started`, the dispatch, and
the answer. `call` tasks are in `phase`; `closer` is the shared close task of
`AsyncController.close`, `waiter` the callers of it. The queue holds commands,
the shutdown command and the STOP sentinel in order; `posts` are the callbacks
handed to the loop, run in order.

Merged or left out, because nobody can observe the difference: `queue.get` and
the owner's `cancelled` check are one step (`Take`); the `cancelled` event and
the token are set together; result and exception are one answer; `Closed` is
read off the place of the close task. `native_closed` only avoids a second
native shutdown. All calls live on one event loop, which is the documented use.
A token reaches the engine only when the session is the real native one, which
is what is modelled. A call whose preparation raises never reaches the queue
and is not modelled.

### Confirmation

Three parties: the engine's one `slot` and its approvals `confirmed`
(`confirmation.rs`, and the rewritten dispatcher in `agent-browser-build`), the
session's contexts `saved` and its `allowlist` (`sync.py`, `policy.py`), and
the controller's `invalidations` (`state.py`). A call is sent (`Issue`,
`Settle`), executed by the owner thread (one action per outcome: `Fail`, `Run`,
`Hold`, `ConfirmRuns`, `ConfirmFails`, `ConfirmHolds`, `ConfirmCut`, `Deny`)
and continued by its task (`Continue`) or cancelled (`Cancel`). Executions are
atomic since one thread executes commands; what is interleaved is executions
with the bookkeeping of the tasks before and after. The order in which sent
commands execute is left open, a superset of the queue's order. The user edits
the policy file at any time.

`Fail` stands for every refusal without effect: by the domain policy, by the
action policy, a wrong id, no held command, or a deadline or token that fired
before the dispatch. `ConfirmCut` is an interruption of the dispatch after the
engine took the command out of its slot; an interruption cannot fall between
putting a command into the slot and answering, which happen in one poll. An id
is taken when its command is held or enters the browser; other commands take
ids too, but nothing refers to those. The program settles only ids it was told
of. The engine's dispatcher is not in the repository; it is modelled from how
it is used here: denials before confirmations
(`docs/concepts/safety.md:65`), the file read again before each action, and a
held command kept until it is settled or replaced. The cached CDP page is one
bit, `stale`: a command with a URL entered the browser and the page was not
dropped yet. Closing, which clears contexts and marks, is not an action here.

### NativeSession

`session.rs`, `maintenance.rs`, `cancellation.rs` and the adapter's
`engine.rs`. `line` is the fair asynchronous mutex: its users in order, the head
holds the engine. `execute` is `Arm` (the waiter of the token is enabled),
`Enqueue` (the first poll reads the flag), `AbandonWait` (interrupted in the
line), `Start`, then `Interrupt` or `Finish`. `cancel()` is two steps,
`StoreCancel` and `WakeWaiters`. An interrupted dispatch may have changed the
page (`halfDone`) and expires the refs. A close that succeeded takes the sidecar
out of its slot (`TakeSidecar`) and releases it under the mutex
(`ReleaseSidecar`). `Tick` and `Maintain` are the maintenance task, `Drop*` the
destructor, which runs when no call borrows the session. A dispatch may never
answer, except a close, a shutdown or a command on a browser that died; what the
engine does inside a dispatch is not in the repository.

### Dashboard

`dashboard/mod.rs`, `control.rs`, `watchdog.rs`. Instances in processes of
their own share one session name and so its files. `Probe`, `Bind` and `Advance`
are the steps of `start_dashboard` in order, each of which may fail
(`FailStart`); cleanup is stopping the bridge, killing the watchdog and removing
the files of the name. `Die` is a process that ends without destructors,
`Notice` its watchdog. On Unix binding makes the address file and fails when
there is one; on Windows it is written afterwards. Removing all files of a name
is one step. The requests to the bridge that change nothing are left out.

### Operations

`execution/pending.py`, the error paths of `execution/commands.py`,
`evidence/transitions.py` and the callers that chain commands (`Ref`,
`Frames.get`, `Tabs.open`, the launch before a first command). An operation is a
sequence of stages; a stage is its command, the errors its executor and ref
translate, and the `try` it stands in. When a stage asks, what remains is a
PendingAction: the number of the stage and the translations retained. The tries
around it are gone, which `outside` records. `Confirm` is `confirm()`, at any
time, by any user and any number of times; `ConfirmDone`, `ConfirmFails`,
`ConfirmAsks` (the same command gated again) and `ConfirmRefused` are the
outcomes. The engine holds one command. With one operation under way another
command that replaces the held one is a confirmation that is refused. Two waits
stand for any number of them.

### Commands

For every capability class a record from its methods to the native action each
sends, the sets of actions a browser, a page, a frame and a ref can send, and
the tables the SDK keeps about actions (`CDP_INVALIDATING_ACTIONS`,
`requires_start`, `_SKIP_AUTO_INSTALL_ACTIONS`). Parameters and decoding of
answers are left out. It has no state; what it says is checked through the
modules that extend it: a method whose action misses from a table is a violation
there.

### Documents

Handles, scopes and refs on an engine with one active tab and one ref map.
Callers send commands into one queue (`Call*`); the engine serves its head
(`Serves`): first the checks that the rewritten dispatcher makes before it
switches tabs (`RejectStale`, `RejectTarget`), then the switch (`SwitchFirst`),
the frame check and the command. Answers are taken up by their callers
(`Return*`), which record target and generation, bind a late-bound page and go
on: an action on a ref is followed by a snapshot of its document, `tabs.open`
lists, switches and navigates. A deadline (`Deadline`) or a cancellation
(`Interrupt`) cuts a command short wherever it is. In an asynchronous browser
callers interleave; in a synchronous one the program is modelled as one caller
at work at a time, as one thread has it.

A document is a number its tab or frame counts up and its refs share one id per
generation. What the engine itself does with ids after refs expired, and whether
leaving a document expires them, is left open, as its source is not here. How a
frame is matched by name, URL or selector, and frames of other processes are
left out.

### Startup

Options as sets of those some rule is about. `Configuration`, `Valid`,
`UsesLocalChrome` translate `launch.py`; `made` ranges over `Browser()`,
`launch()` and `attach()` with every combination of launch sets, targets and
session options. A task requests a command, launches if the SDK's table says so,
has Chrome installed in a thread, and executes; launches may have to be
confirmed. `close()` ends the session after the commands before it. The
installer itself, CA certificates, closing the browser by a native command and a
browser that dies are left out; `NativeSession` has the last two.

### Registry

Names are taken out of the registry under its lock (`TakeOut`) and closed after
it is released (`Closes`, `CloseRaises`, `Reports`), while other threads create,
close and close_all; a program may also close a browser it holds.

### Policy

A URL is its host or has none; a pattern is a host, a wildcard before a host, a
glob without host, or unreadable. The commands with a URL or a pattern that the
SDK has methods for (`SdkUrlActions`, `SdkPatternActions`, from `Commands`), the
cookie and state commands, exports and launches. `Permitted` says what an
allowlist means without the code's matching. Splitting a URL into its host is
left out; a glob without a host passes, as in the code, and names none, so what it
matches is outside `PassedIsAllowed`.

### CdpCache

The chain `current` (the controller's `_cdp_controller`) to `controllers` (their
`_closed`, `_client`, `_page`), `clients` and `pages` (generation, contexts
`known`, frames `tree`), with one retained frame `handle`. A native command that
changes the page is `Navigate` or `Switch`, its answer `Landed`; a launch or
close() is `Reset` and, once the socket is closed, `ResetEnd`; a call that needs a
page session walks `FetchStart` to `FetchEnable`, one action per await of
`_page_session`; `TakeFrame`, `UseFrame` (the check) and `Run` (reading the events
and evaluating) are what is done with it; `Fail` and `FailSynced` are every error
in between. The synchronous classes run the same code and are the instance
with one task.

Chrome is modelled from how the code uses it: it reports a navigation of a tab
to the sessions enabled there, before the contexts of the new document; it
reports existing contexts when `Runtime.enable` is first sent; a main frame keeps
its id; a script for a context that is gone is an error. `PageMove` is every
navigation the controller is not told of, by a link, a script or a command that
navigated and then failed. Matching a URL or label to a target is assumed to
find the right tab or to fail; contexts beyond the default one, iframes and
raw `send()` are left out, and connecting and enabling are one step each.

## Runs

| Run | Instance | States | Shows |
|---|---|---|---|
| `async_session_two_commands` | two cancellable calls, one closer | 1.3 M | safety of cancel, reject and close |
| `async_session_user_close` | a cancellable call and a user's close, one closer | 0.6 M | the refinement of `CommandContract`; closing ends every call |
| `async_session_live` | one cancellable call, one closer | 15 k | cancelling and closing end, the owner exits |
| `async_session_startup` | one call, one closer | finding | a failed start makes close() hang |
| `confirmation_two_tasks` | two tasks, a navigation with two gates, a launch, two ids | 1.0 M | approvals, at-most-once, page freshness, adoption of allowlists, `ReplayInv` |
| `confirmation_launch_only` | one task, each command with its own gate | finding | an older allowlist comes back |
| `native_lifecycle` | two calls, maintenance and destructor; two instances of one name | 0.27 M | wakeups, expiry of refs, teardown, sidecar files, crash of browser and of Python |
| `sdk_parts` | the instances of the table below | 2.0 M | the SDK around its command path |
| `dashboard_refused` | two instances of one name | finding | a refused instance removes the files of the one that runs |
| `operations_staged` | one operation, one user, two ids | finding | a wait that fails after its confirmation loses the stage |
| `cdp_selected_is_cached` | one task that selects a target | finding | a selection changes the active page's session |
| `cdp_client_after_close` | two tasks | finding | a client connects after close() |

`native_lifecycle` and `sdk_parts` each check several modules that share no
state: `part` says which one a behaviour is about, the others stay where they
began. The reachable states are the union of those of the parts, each with all of
its behaviours, and a property about one part is not affected by the rest. The
instances in `sdk_parts`:

| Part | Instance | Why it is enough |
|---|---|---|
| CdpCache | one task, two tabs, two controllers, clients and page sessions, one move | one left over from before a relaunch, an invalidation or another selection; one navigation makes a document old |
| Operations | one operation of every kind, two users, four ids | every stage of the longest operation can ask, two users confirm the same id |
| Documents | two callers, two tabs, one frame, three operations, one move of each document | a snapshot, an operation of another caller in between, and the use of the ref; async and sync |
| Startup | two tasks, every way to make a browser, eight sets of options | the race of two first commands and of a launch against close(); each rule has an option of its own and one it clashes with |
| Registry | two threads, two names, three controllers | close_all with two to close while another name is made again |
| Policy | three hosts, one below another, four allowlists | an exact entry, a wildcard and an entry for a host below |

AsyncSession: each call is made once; two calls are needed for one to be queued
behind another and for a sweep with two victims, one closer already meets its
own timeout, a cancelled close task and the collector. The second closer only
joins the same task. Confirmation: two ids and two tasks are needed for one
command to overwrite another while a third settles the old id; two gates
make a replay that is held again. Its `MCScope` keeps launches to behaviours of
one task, as the interference of two tasks is between ordinary commands.
NativeSession: two calls are one behind the other in the mutex, with maintenance
and destructor as third and fourth user; the session has a dashboard and no
browser yet, or a browser and none, since the two meet only in the destructor,
which the proof covers for every start. Dashboard: two instances of a name on
either platform.

Deadlock checking is off where the system may stop: a call made once has ended
and the owner exited, a browser is closed, operations are answered, the bound on
operations is reached. Sets of interchangeable calls, tasks and ids are symmetric;
symmetry is not used where liveness is checked.

Fairness, used for liveness only. `AsyncSession`: every step the loop or the owner
is ready to take is taken, as the event loop runs ready callbacks and the
operating system runs threads. Nobody need call, cancel, time out or collect. A
command with a token need *never* answer by itself, the case that makes
cancellation worth checking; close and shutdown, which have no token, are assumed
to answer. `NativeSession`: what is ready is polled, a dispatch ends by itself
only when it closes the browser or the browser is gone, and the `select` of the
maintenance task, which picks at random among what is ready, takes the shutdown
in the end (the one strong fairness). `Dashboard`: the watchdog polls and a
sidecar that began to clean up goes on.

Every property of a passing run has a mutant, a plausible bug in one mapped
definition (it stands in front of it in the module, marked as such), under
which TLC finds the property violated.

## Findings

- `async_session_startup`: if the owner thread fails to construct the session
  it returns, but `shutdown_native` still queues a command and waits for it
  (`async_.py:176`). `close()` never ends unless it was given a timeout.
- `confirmation_launch_only`: confirming an ordinary command restores the
  allowlist recorded when it was held (`sync.py:189`), undoing that of a launch
  that succeeded in between.
- `dashboard_refused`: an instance whose name is in use is refused after its
  sidecar was made (`dashboard/mod.rs:63`), and dropping that sidecar removes
  every file of the name, which are those of the session that is running.
- `operations_staged`: a wait or snapshot that had to be confirmed goes on
  outside its `try` (`transitions.py:35`); when it fails the caller gets a plain
  error, although the action took effect and `development_docs/evidence-and-refs.md:47`
  promises an `ActionTransitionError`.
- `cdp_selected_is_cached`: a selected target is cached as the active page
  (`controller.py:343`), so that calls about the active page act on it until the
  next native navigation.
- `cdp_client_after_close`: `_cdp_client` does not look again whether it was
  closed while it awaited the URL (`controller.py:354`), and connects a client
  nobody closes.

Limits, seen when modules are run beyond the instances above. With two tasks
`_page_session` may return `None` or the other task's session, since it returns
what is cached after an await (`controller.py:345`), and an invalidation that
arrives before the store is lost (`controller.py:343`). With a page that navigates
by itself a frame handle may evaluate in the new document, since `contexts()`
checks its generation (`page_async.py:110`) before it reads the events that raise
it; so may a handle of a session that a selection replaced in the cache, since
`invalidate()` does not reach it (`controller.py:297`). `CacheFollowsActiveTab`
and `HandlesExpire` are stated up to a selection and for navigations the
controller is told of. Two tasks of which one is in `tabs.open` of an open tab can
have the wrong tab navigated (`tabs/async_.py:117`).

## Proofs

All theorems hold for every value of the constants that satisfies the named
assumptions, which say that sentinels differ from data, that a set is finite
(`NativeAssumption`), and that being a subdomain is transitive
(`PolicyAssumption`).

*AsyncSession.* `IInv` is needed because the properties are not inductive: that
a rejected call never runs depends on its command having a cancelled token
while it is still in the queue, in the owner's hands or in a callback. Its
parts say where a command can be (`OnceInv`, `FreshInv`, `OwnerInv`), what a
future implies about the token (`RejectInv`), what a finished caller implies
(`ToldInv`), and that the sweep misses no command the owner may still run
(`SweepInv`). From it follow `TypeCorrect`, `RejectionIsFinal`,
`CancellationIsQuiet`, `NothingRunsBehindShutdown` and `ContractImplemented`:
each step of the two-thread session is a step of `CommandContract` or none.

*Confirmation.* `ReplayInv` relates the three parties: no approval outlives its
dispatch (`QuietInv`); the held command has neither run nor been denied, its
approvals were given to it and its context exists (`SlotInv`); a replayable
command with a URL is marked wherever a confirmation would read the mark, which
covers confirmations already in flight (`HeldMark`, `MarkOK`); a stale page has
a call that will drop it (`PageInv`). From it follow `ReplayKeepsItsContext`,
`PageStaysFresh`, `RunsAreApproved`, `CommandsRunOnce` and
`LaunchesAdoptTheirDomains`.

*NativeSession.* That the destructor leaves nothing depends on who may still be
in the mutex' queue. `LineInv` says that the queue holds only users whose step
waits for it or works under it and that a running call is at its head, `CallInv`
what a call's step says of its answer and its generation, `TeardownInv` that no
call is left once the destructor began, that maintenance is over once it was
joined, and that a dashboard outside its slot has a call or the destructor that
will release it. That the generations reported are all different,
and stay below the bound of the type, needs counting: the generation is the
number of calls that were told of one (`Told`). From it follow `NativeIsTyped`,
`InterruptionsTell` and `DropLeavesNothing`. With `ExpiryInv` (a generation left
behind by a dropped dispatch is below the current one) the action property
`RefsAlwaysExpire` follows.

*Dashboard.* `EndedInv` (an instance that cleans up has no bridge, then no
watchdog, then no file) and `WrittenInv` (an instance that is alone owns every
file written up to its step) give `FilesAlwaysFollow`.

*Operations.* `TurnInv` says that what a user is at is the stage after those
carried out, and `ResumeInv` the same of every pending action whose command is
held, of which there is one and nobody else at work on its operation. Stale
pending actions may say anything: the engine refuses them. With the translations
retained for each, `StagesAlwaysInOrder` and `ErrorsAlwaysTranslated` follow.
`LateFailuresAlwaysStaged` needs two facts more: what can still be carried out has
no outcome yet (`OpenInv`), and a call is outside of a `try` only because a stage
in that `try` asked to be confirmed (`OutsideInv`).

*Registry.* `MadeInv` (controllers in the registry or in a call have been made)
and `DutyInv` (what a call still has to close is part of what it took out) make
`OpenIsReachable` inductive, as `ControllersStayReachable` says, and give
`CallsEndWhenClosed`, a property of steps.

*Policy.* `PassedIsAllowed` is inductive with the types; a wildcard pattern under
a wildcard entry needs the transitivity of `Below`.

*Startup.* What a task reads before its awaits may be old when it uses it, so
`WorkInv` says per step what has not changed meanwhile, or does not matter: a
command that saw the flag finds an engine unless the browser was closed, one that
installs or launches by the local Chrome has one, a launch is all that happens while
`launch()` and `attach()` are under way. `BrowserInv` says when the flag is behind
the engine: some task's answer will set it (`TellsLaunch`), unless it was lost. From
it follow `ChromeIsInstalled`, `LaunchedAlwaysKnown`, `ContainedAlwaysStartsClean`
and the action property `NavigationsAlwaysFindBrowser`.

*Documents.* The invariant follows an operation from its call to its evidence.
`WaitInv`: an operation under way has one command or one answer of its own.
`OperationInv`, `OrderInv` and `CheckedInv`: a command in the queue carries the scope
of its call, and one whose scope was selected runs next in that tab, with the refs
expired by the selection. `ReplyInv`, through `Tells`: what an answer says of a document is so in
the generation it names. `SnapshotInv`: so it is for a snapshot, and it says where
it was taken. The heart is `RightIn`: a ref of an older generation says nothing and
one of the present generation still names its document, whatever other callers did.
`KnownInv` says which answer, if any, will bring the program's record of tab and
generation up to date. From it follow `DocumentsAreTyped`, `RefsHitTheirSnapshots`,
`AnswersAlwaysNameTheirTarget`, `EvidenceAlwaysFromOneDocument` (of steps) and
`KnownAlwaysCurrent`, for any number of callers, tabs, frames and documents.

*CdpCache.* `SoundInv` holds for any number of tasks: numbers in records refer to
what was created (`TypesInv`), and the contexts and the frames a page session holds
are of one document (`PagesInv`). It gives `CacheIsTyped`. The other properties are
false of several tasks, as `cdp_client_after_close` shows for clients and the limits
above for sessions and handles. They are proved for one task, which is the
synchronous classes and an asynchronous program that awaits each call, for any
number of tabs, controllers, clients, sessions, navigations and failures. `CallInv`
says that the call under way works with the current controller and its client, which
is the only one not closed; `LookInv`, that a call that looks for a session found
none cached or was asked for another target, and that the cached one is of the
active tab until a selection; `HandleInv`, that a handle which is still current is
of the document its session holds, and not astray also of the cached session with
no unread navigation, except between a navigation and its answer. From `OneTaskInv`
follow `ClientsAlwaysReleased`, `CacheAlwaysFollows` and `HandlesAlwaysExpire`. TLC
checked `OneTaskInv` with one task, and `TaskInv` with two as far as 25 million
states, before they were proved.

*SdkMC.* `PartsBehave` says that a behaviour of the run `sdk_parts` is one of each
part's specification, so that the theorems above hold of the composition;
`SdkIsTyped` follows from it and from the types of the parts. Every invariant and
every action property of the passing runs is stated by a theorem.

Model-checked only: liveness (`CancellationEnds`, `CloseEnds`, `OwnerExits`,
`ClosingEndsEveryCall`, `CancelledCallEnds`, `DeathIsNoticed`, `DropEnds`,
`AbruptExitIsCleaned`), as fairness and ENABLED are beyond the prover. The type
invariants of NativeSession, Dashboard and Registry and the `IInv` of AsyncSession
are proved and in no run.

## Not modelled, and what is left

- Deadlines: arithmetic on times. Every module lets a deadline fall at any step,
  which is more than the code does, and says nothing about a deadline that grows.
- Finding and running the installer, rendering of options, CA certificates.
- The parameters of commands and the decoding of answers.
- Matching of frames by name, URL or selector; frames of other processes; the
  matching of CDP contexts and targets; request ids and timeouts of the CDP client.
- The rewriting of the engine's source at build time; packaging, scripts, docs.

Left to do, in this order: what several tasks may still rely on in CdpCache;
a connection attempt of CdpCache in steps; Startup composed with Confirmation, so
that held launches compete for the slot; Deadlines.
