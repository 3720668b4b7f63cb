-------------------------------- MODULE Startup --------------------------------
(***************************************************************************)
(* How a browser comes to be: the options of Browser(), launch() and       *)
(* attach() become one configuration or are refused; the first command     *)
(* that needs it, or the constructor, launches the engine's browser with   *)
(* that configuration; Chrome is installed before a local launch.          *)
(*                                                                         *)
(* Callers of an asynchronous browser interleave wherever the code awaits: *)
(* the installation in a thread and the execution of a command.  Options   *)
(* are the sets of the ones given that some rule is about.                 *)
(***************************************************************************)
EXTENDS Commands, Naturals, FiniteSets

CONSTANTS
    Starters,          \* callers
    LaunchSets,     \* the LaunchOptions tried
    Unset

ProcessOptions == {"executable_path", "engine", "profile", "storage_state", "page_args",
                   "ca_cert", "ignore_https_errors", "provider", "ios", "webgpu", "no_xvfb"}

\* What an engine can be launched as.
Configurations == [launch : LaunchSets \union {{}}, target : SUBSET {"url", "port"},
                   auto_connect : BOOLEAN, contained : BOOLEAN]

ASSUME StartupAssumption ==
    LaunchSets \subseteq SUBSET ProcessOptions /\ Unset \notin Starters \union Configurations

VARIABLES
    made,           \* how the program asked for its browser
    standing,       \* "asked", "refused", "made", "closing", "closed"
    chrome,         \* whether a Chrome is installed
    installed,      \* Startup.installed
    launched,       \* CommandState.launched
    engine,         \* the engine's browser: Unset, or what it was launched as
    asking,         \* the task whose launch waits to be confirmed
    work,           \* task -> where it is; sees is the flag it read, tells whether its
                    \* answer names a browser
    ahead,          \* task -> those with an answer before its own, not taken up yet
    lost            \* whether the engine launched and no answer came to say so

startupVars == <<made, standing, chrome, installed, launched, engine, asking, work, ahead, lost>>

-----------------------------------------------------------------------------
(* Options.                                                                 *)

\* CDPTarget: exactly one of url and port.
CDPTarget == {{"url"}, {"port"}}

\* SessionOptions: an allowlist and saved state do not go together.
SessionOptions == {s \in SUBSET {"allowed_domains", "restore"} : Cardinality(s) < 2}

\* from_public_options: the options of launch, target and session as one record.
Configuration(launch, target, session) ==
    [launch |-> launch, target |-> target,
     auto_connect |-> target # {}, contained |-> "allowed_domains" \in session]

External(c) == c.target # {} \/ c.auto_connect \/ c.launch \intersect {"provider", "ios"} # {}

\* Mutant of Replays: a profile is not taken for saved state.
ReplaysSome(c) ==
    c.launch \intersect {"storage_state", "page_args", "ios"} # {} \/ c.target # {} \/ c.auto_connect

\* Pages that can open before containment starts.
Replays(c) ==
    \/ c.launch \intersect {"storage_state", "profile", "page_args", "ios"} # {}
    \/ c.target # {} \/ c.auto_connect

\* LaunchConfiguration.__post_init__
Valid(c) ==
    /\ c.contained => ~Replays(c)
    /\ "ca_cert" \in c.launch =>
          /\ c.launch \intersect {"profile", "ignore_https_errors", "engine"} = {}
          /\ ~External(c)
    /\ External(c) => c.launch \intersect {"webgpu", "no_xvfb"} = {}

\* _uses_local_chrome; the environment names no browser of its own.
UsesLocalChrome(c) ==
    /\ c.launch \intersect {"executable_path", "provider", "ios", "engine"} = {}
    /\ c.target = {} /\ ~c.auto_connect

\* The engine's own launch, for a command that finds no browser: the defaults,
\* under the allowlist of the session.
Defaults == Configuration({}, {}, made.session)

configuration == Configuration(made.launch, made.target, made.session)

Waiting == [pc |-> "idle", action |-> "none", sees |-> FALSE, tells |-> FALSE]

\* Where a task is whose answer has come.
AnsweredPcs == {"launched", "done", "failed"}

StartupInit ==
    /\ made \in [how : {"Browser", "launch", "attach"}, launch : LaunchSets,
                 target : CDPTarget \union {{}}, session : SessionOptions]
    /\ made.how = "Browser" => made.launch = {}
    /\ (made.how = "attach") <=> (made.target # {})
    /\ standing = "asked"
    /\ chrome \in BOOLEAN
    /\ installed = FALSE /\ launched = FALSE
    /\ engine = Unset
    /\ asking = Unset
    /\ work = [t \in Starters |-> Waiting]
    /\ ahead = [t \in Starters |-> {}]
    /\ lost = FALSE

-----------------------------------------------------------------------------
(* Making the browser.                                                      *)

\* A configuration that is not valid raises.
Decline ==
    /\ standing = "asked" /\ ~Valid(configuration)
    /\ standing' = "refused"
    /\ UNCHANGED <<made, chrome, installed, launched, engine, asking, work, ahead, lost>>

\* Browser() is at hand at once and launches later.
MakeBrowser ==
    /\ standing = "asked" /\ Valid(configuration) /\ made.how = "Browser"
    /\ standing' = "made"
    /\ UNCHANGED <<made, chrome, installed, launched, engine, asking, work, ahead, lost>>

Moves(t, pc) == work' = [work EXCEPT ![t].pc = pc]

\* launch() and attach() start it, and only then hand it out.
Construct(t) ==
    /\ standing = "asked" /\ Valid(configuration) /\ made.how # "Browser"
    /\ \A other \in Starters : work[other] = Waiting
    /\ work' = [work EXCEPT ![t] = [pc |-> "install", action |-> "launch", sees |-> FALSE,
                                        tells |-> FALSE]]
    /\ UNCHANGED <<made, standing, chrome, installed, launched, engine, asking, ahead, lost>>

-----------------------------------------------------------------------------
(* A command.                                                               *)

\* One the SDK launches for, one it launches for without a URL, one the engine
\* launches for, one that needs no browser.
Commandable == {Page.open, Page.read, Page.evaluate, SessionStatus.status}

\* _command: past _ensure_open, a launch first if one is needed.
Request(t, action) ==
    /\ standing = "made" /\ work[t] = Waiting
    /\ work' = [work EXCEPT ![t] =
          [pc |-> IF ~launched /\ RequiresStart(action, FALSE) THEN "start" ELSE "install",
           action |-> action, sees |-> launched, tells |-> FALSE]]
    /\ UNCHANGED <<made, standing, chrome, installed, launched, engine, asking, ahead, lost>>

\* Mutant of InstallsFor: only explicit launches are prepared.
InstallsForLaunch(t) ==
    ~installed /\ UsesLocalChrome(configuration) /\ work[t].pc = "start"

\* prepare_action and _prepare_launch
InstallsFor(t) ==
    /\ ~installed /\ UsesLocalChrome(configuration)
    /\ \/ work[t].pc = "start" \/ work[t].action = "launch"
       \/ ~work[t].sees /\ work[t].action \notin SkipsAutoInstall

Preparing(t) == work[t].pc \in {"start", "install"}

\* ensure_installed in a thread of its own: it returns the Chrome there is, or
\* the one it has installed.
Prepare(t) ==
    /\ Preparing(t)
    /\ IF InstallsFor(t)
       THEN chrome' = TRUE /\ installed' = TRUE
       ELSE UNCHANGED <<chrome, installed>>
    /\ Moves(t, IF work[t].pc = "start" \/ work[t].action = "launch" THEN "launching" ELSE "executing")
    /\ UNCHANGED <<made, standing, launched, engine, asking, ahead, lost>>

\* The call raises; a browser under construction is not handed out.
Leaves(t) ==
    /\ work' = [work EXCEPT ![t] = Waiting]
    /\ standing' = IF standing = "asked" THEN "refused" ELSE standing

InstallFails(t) ==
    /\ Preparing(t) /\ InstallsFor(t) /\ ~chrome
    /\ Leaves(t)
    /\ UNCHANGED <<made, chrome, installed, launched, engine, asking, ahead, lost>>

Enters(t) == work[t].pc \in {"launching", "executing"}

\* A command, or the confirmation of a launch, is on its way to the engine.
Acts(t) == Enters(t) \/ (work[t].pc = "pending" /\ asking = t)

\* What carrying out the command makes of the engine's browser.
After(t) ==
    CASE work[t].pc \in {"launching", "pending"} -> configuration
      [] work[t].pc = "executing" /\ engine = Unset /\ work[t].action \notin SkipsAutoInstall -> Defaults
      [] OTHER -> engine

\* The owner thread carries out what reaches it before the shutdown.
Accepting == standing # "closed"

\* It answers one command after the other; the loop takes the answers up in order.
EngineAnswers(t, pc, tells) ==
    /\ work' = [work EXCEPT ![t].pc = pc, ![t].tells = tells]
    /\ ahead' = [ahead EXCEPT ![t] = {other \in Starters : work[other].pc \in AnsweredPcs}]

\* The engine launches with the parameters of the configuration.
Launches(t) ==
    /\ work[t].pc = "launching" /\ Accepting
    /\ engine' = After(t)
    /\ EngineAnswers(t, "launched", TRUE)
    /\ UNCHANGED <<made, standing, chrome, installed, launched, asking, lost>>

\* Or asks first; the pending action goes on from there.
LaunchAsks(t) ==
    /\ work[t].pc = "launching" /\ Accepting
    /\ asking' = t
    /\ Moves(t, "pending")
    /\ UNCHANGED <<made, standing, chrome, installed, launched, engine, ahead, lost>>

ConfirmLaunch(t) ==
    /\ work[t].pc = "pending" /\ asking = t /\ Accepting
    /\ asking' = Unset
    /\ engine' = After(t)
    /\ EngineAnswers(t, "launched", TRUE)
    /\ UNCHANGED <<made, standing, chrome, installed, launched, lost>>

\* Denied, or given up, or another launch is asking by now.
DenyLaunch(t) ==
    /\ work[t].pc = "pending"
    /\ asking' = IF asking = t THEN Unset ELSE asking
    /\ Leaves(t)
    /\ UNCHANGED <<made, chrome, installed, launched, engine, ahead, lost>>

\* A command finds the browser, needs none, or has the engine launch one; the
\* answer names a target, or says whether there is a browser.
Executes(t) ==
    /\ work[t].pc = "executing" /\ Accepting
    /\ engine' = After(t)
    /\ EngineAnswers(t, "done", engine' # Unset)
    /\ UNCHANGED <<made, standing, chrome, installed, launched, asking, lost>>

\* The session refuses, or the command fails before it begins.
Refuses(t) ==
    /\ Enters(t)
    /\ Leaves(t)
    /\ UNCHANGED <<made, chrome, installed, launched, engine, asking, ahead, lost>>

\* The command fails, or its deadline falls, before or after the engine has
\* launched.  An answer at the deadline names no target.
Fails(t) ==
    /\ Acts(t) /\ Accepting
    /\ engine' \in {engine, After(t)}
    /\ \E tells \in {engine' # Unset, FALSE} :
          /\ EngineAnswers(t, "failed", tells)
          /\ lost' = (lost \/ (~tells /\ engine = Unset /\ engine' # Unset))
    /\ asking' = IF asking = t THEN Unset ELSE asking
    /\ UNCHANGED <<made, standing, chrome, installed, launched>>

\* The answer of the task is no longer on its way to the loop.
Delivered(t) == ahead' = [other \in Starters |-> IF other = t THEN {} ELSE ahead[other] \ {t}]

\* A cancelled await: the command may have been carried out, unrecorded.
CancelTask(t) ==
    /\ work[t].pc # "idle"
    /\ Leaves(t)
    /\ Delivered(t)
    /\ \/ UNCHANGED engine
       \/ Acts(t) /\ Accepting /\ engine' = After(t)
    /\ lost' = (lost \/ work[t].tells \/ (engine = Unset /\ engine' # Unset))
    /\ asking' = IF asking = t THEN Unset ELSE asking
    /\ UNCHANGED <<made, chrome, installed, launched>>

\* Mutant of RecordLaunch: a browser the engine launched by itself goes unnoticed.
RecordLaunchOnly(t) == launched' = (launched \/ work[t].pc = "launched")

\* record_metadata and record_success: a target or a launch is a browser, and the
\* status of the session says whether there is one.
RecordLaunch(t) ==
    IF work[t].pc = "done" /\ work[t].action = SessionStatus.status
    THEN launched' = work[t].tells
    ELSE launched' = (launched \/ work[t].tells)

\* An answer is taken up, in its turn.
TakesUp(t) ==
    /\ ahead[t] = {} /\ Delivered(t)
    /\ RecordLaunch(t)
    /\ lost' = (lost /\ ~work[t].tells)

\* The launch returns: the constructor hands the browser out, a command goes on.
ReturnsLaunched(t) ==
    /\ work[t].pc = "launched"
    /\ TakesUp(t)
    /\ IF work[t].action = "launch"
       THEN /\ standing' = IF standing = "asked" THEN "made" ELSE standing
            /\ work' = [work EXCEPT ![t] = Waiting]
       ELSE /\ UNCHANGED standing
            /\ work' = [work EXCEPT ![t] = [work[t] EXCEPT !.pc = "install", !.sees = TRUE, !.tells = FALSE]]
    /\ UNCHANGED <<made, chrome, installed, engine, asking>>

ReturnsDone(t) ==
    /\ work[t].pc = "done"
    /\ TakesUp(t)
    /\ work' = [work EXCEPT ![t] = Waiting]
    /\ UNCHANGED <<made, standing, chrome, installed, engine, asking>>

\* A failed answer is recorded too, and raises.
ReturnsFailed(t) ==
    /\ work[t].pc = "failed"
    /\ TakesUp(t)
    /\ Leaves(t)
    /\ UNCHANGED <<made, chrome, installed, engine, asking>>

-----------------------------------------------------------------------------

\* close(): no new command, then the shutdown after the answers before it.
BeginClose ==
    /\ standing = "made"
    /\ standing' = "closing"
    /\ UNCHANGED <<made, chrome, installed, launched, engine, asking, work, ahead, lost>>

\* The session ends with its browser, also when the close has no answer or one
\* that is no success; only a successful one is recorded.
EndClose ==
    /\ standing = "closing" /\ \A t \in Starters : work[t].pc \notin AnsweredPcs
    /\ standing' = "closed"
    /\ engine' = Unset /\ launched' \in {FALSE, launched}
    /\ asking' = Unset
    /\ UNCHANGED <<made, chrome, installed, work, ahead, lost>>

StartupNext ==
    \/ Decline \/ MakeBrowser \/ BeginClose \/ EndClose
    \/ \E t \in Starters :
          \/ Construct(t) \/ \E action \in Commandable : Request(t, action)
          \/ Prepare(t) \/ InstallFails(t) \/ Launches(t) \/ LaunchAsks(t) \/ ConfirmLaunch(t)
          \/ DenyLaunch(t) \/ Executes(t) \/ Refuses(t) \/ Fails(t) \/ CancelTask(t)
          \/ ReturnsLaunched(t) \/ ReturnsDone(t) \/ ReturnsFailed(t)

StartupSpec == StartupInit /\ [][StartupNext]_startupVars

-----------------------------------------------------------------------------
(* Properties *)

\* The engine launches a local Chrome only once there is one, whoever it was
\* installed by and whichever command launches, and none is installed for a
\* browser that is attached to or brought along (startup.py:43-66, 76-118).
ChromeBeforeLaunch ==
    /\ engine # Unset /\ UsesLocalChrome(engine) => chrome
    /\ installed => made.target = {} /\ made.launch \intersect {"executable_path", "provider", "engine"} = {}

\* Between commands the program knows whether a browser runs, unless the engine
\* launched for a call that was cancelled, or whose deadline fell, and no later
\* answer named the browser; launch() and attach() hand out one that runs, also
\* when the launch had to be confirmed; none comes up once close() has ended
\* (state.py:53-84, browser.py:109-141, controller_async.py:282-307, session.rs:86-100).
LaunchedIsKnown ==
    /\ standing = "made" /\ ~lost /\ (\A t \in Starters : work[t].pc \in {"idle", "pending"})
       => launched = (engine # Unset)
    /\ standing = "made" /\ made.how # "Browser" => engine # Unset /\ launched
    /\ standing = "closed" => engine = Unset

\* A browser with an allowlist starts without saved pages or cookies and is never
\* one attached to over CDP, however its options were spread over session, launch and target
\* (launch.py:141-145, 210-238).
ContainedStartsClean ==
    engine # Unset /\ "allowed_domains" \in made.session =>
        /\ engine.contained
        /\ made.target = {} /\ "restore" \notin made.session
        /\ made.launch \intersect {"storage_state", "profile", "page_args", "ios"} = {}

\* A navigation, or reading the page, never reaches an engine without a browser,
\* be it to launch one by its own defaults (startup.py:70-73, controller.py:118-142).
NavigationsFindBrowser ==
    [][\A t \in Starters :
          work[t].pc = "executing" /\ work[t].action \in {"navigate", "read"} /\ work'[t].pc \in {"done", "failed"} =>
              engine # Unset]_startupVars

=============================================================================
