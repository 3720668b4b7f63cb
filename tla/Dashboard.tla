-------------------------------- MODULE Dashboard --------------------------------
(***************************************************************************)
(* The sidecar that lets an external dashboard observe a session:          *)
(* discovery files named after the session, a control bridge that listens  *)
(* at an address one of the files holds, and a watchdog process that cleans *)
(* up when the Python process dies (pyagentbrowser/src/dashboard).  The     *)
(* instances modelled share one session name, so they share the files.     *)
(*                                                                         *)
(* Removing the files of a name is one step here.  A bridge answers its     *)
(* clients within the join timeout of its destructor.                      *)
(***************************************************************************)
EXTENDS Naturals, Sequences, FiniteSets

CONSTANTS
    Instances,  \* sessions of one name, in processes of their own
    Nobody

ASSUME DashboardAssumption == Nobody \notin Instances

VARIABLES
    platform,   \* "unix" or "windows"
    stage,      \* per instance: how far start_dashboard or cleanup is
    file,       \* per extension: the instance that wrote the file, Nobody if there is none
    probed,     \* per instance: its probe found an address file
    bridge,     \* instances whose control thread accepts connections
    watchdog,   \* per instance: "none", "watching" or "dead"
    alive,      \* instances whose process is running
    detached    \* history: a detach request removed the files of a name

dashboardVars == <<platform, stage, file, probed, bridge, watchdog, alive, detached>>

-----------------------------------------------------------------------------

Extensions == {"address", "version", "pid", "engine", "metadata", "stream"}

\* What start_dashboard does after the bridge listens, in this order; the stream
\* file is written by the engine's stream server.
Steps == <<"version", "spawn", "pid", "engine", "metadata", "stream">>

Starting == {"probe", "bind"} \union {Steps[i] : i \in DOMAIN Steps}

DashboardTypeOK ==
    /\ platform \in {"unix", "windows"}
    /\ stage \in [Instances -> Starting \union {"idle", "up", "failed", "kill", "remove", "stopped"}]
    /\ file \in [Extensions -> Instances \union {Nobody}]
    /\ probed \in [Instances -> BOOLEAN]
    /\ bridge \subseteq Instances
    /\ watchdog \in [Instances -> {"none", "watching", "dead"}]
    /\ alive \subseteq Instances
    /\ detached \in BOOLEAN

DashboardInit ==
    /\ platform \in {"unix", "windows"}
    /\ stage = [s \in Instances |-> "idle"]
    /\ file = [x \in Extensions |-> Nobody]
    /\ probed = [s \in Instances |-> FALSE]
    /\ bridge = {}
    /\ watchdog = [s \in Instances |-> "none"]
    /\ alive = Instances
    /\ detached = FALSE

Serving == file["address"] \in bridge

NoFiles == [x \in Extensions |-> Nobody]

\* The step of start_dashboard after the one an instance is at.
After(step) ==
    IF step = "stream" THEN "up" ELSE Steps[(CHOOSE i \in DOMAIN Steps : Steps[i] = step) + 1]

-----------------------------------------------------------------------------
(* start_dashboard.  Any step may fail: the sidecar is dropped and cleans up. *)

Begin(s) ==
    /\ s \in alive /\ stage[s] = "idle"
    /\ stage' = [stage EXCEPT ![s] = "probe"]
    /\ UNCHANGED <<platform, file, probed, bridge, watchdog, alive, detached>>

\* The destructor of a sidecar whose start failed: the control bridge stops, the
\* watchdog is next.
Abort(s) ==
    /\ stage' = [stage EXCEPT ![s] = "kill"]
    /\ bridge' = bridge \ {s}

\* start_control_bridge connects to the address of the name; an answer refuses.
Probe(s) ==
    /\ s \in alive /\ stage[s] = "probe"
    /\ IF Serving
       THEN Abort(s) /\ UNCHANGED probed
       ELSE /\ stage' = [stage EXCEPT ![s] = "bind"]
            /\ probed' = [probed EXCEPT ![s] = file["address"] # Nobody]
            /\ UNCHANGED bridge
    /\ UNCHANGED <<platform, file, watchdog, alive, detached>>

\* A stale address file is removed and the listener bound; on Unix binding creates
\* the file and fails if there is one, on Windows the file is written afterwards.
Bind(s) ==
    /\ s \in alive /\ stage[s] = "bind"
    /\ platform = "unix" => probed[s] \/ file["address"] = Nobody
    /\ file' = [file EXCEPT !["address"] = s]
    /\ bridge' = bridge \union {s}
    /\ stage' = [stage EXCEPT ![s] = "version"]
    /\ UNCHANGED <<platform, probed, watchdog, alive, detached>>

Advance(s) ==
    /\ s \in alive /\ stage[s] \in {Steps[i] : i \in DOMAIN Steps}
    /\ stage' = [stage EXCEPT ![s] = After(stage[s])]
    /\ IF stage[s] = "spawn"
       THEN watchdog' = [watchdog EXCEPT ![s] = "watching"] /\ UNCHANGED file
       ELSE file' = [file EXCEPT ![stage[s]] = s] /\ UNCHANGED watchdog
    /\ UNCHANGED <<platform, probed, bridge, alive, detached>>

\* Mutant: a failed start forgets its sidecar.
LeakStart(s) ==
    /\ s \in alive /\ stage[s] \in Starting \ {"probe"}
    /\ stage' = [stage EXCEPT ![s] = "stopped"]
    /\ UNCHANGED <<platform, file, probed, bridge, watchdog, alive, detached>>

\* A bind, a write, the watchdog's start or the stream fails.
FailStart(s) ==
    /\ s \in alive /\ stage[s] \in Starting \ {"probe"}
    /\ Abort(s)
    /\ UNCHANGED <<platform, file, probed, watchdog, alive, detached>>

-----------------------------------------------------------------------------
(* The bridge.  Only detaching changes anything, and it leaves the bridge and *)
(* the watchdog as they are.                                                 *)

Detach ==
    /\ Serving
    /\ file' = NoFiles
    /\ detached' = TRUE
    /\ UNCHANGED <<platform, stage, probed, bridge, watchdog, alive>>

-----------------------------------------------------------------------------
(* cleanup: the bridge is stopped and joined, the watchdog killed, the files  *)
(* removed.                                                                  *)

Stop(s) ==
    /\ s \in alive /\ stage[s] = "up"
    /\ Abort(s)
    /\ UNCHANGED <<platform, file, probed, watchdog, alive, detached>>

KillWatchdog(s) ==
    /\ s \in alive /\ stage[s] = "kill"
    /\ watchdog' = [watchdog EXCEPT ![s] = IF @ = "watching" THEN "dead" ELSE @]
    /\ stage' = [stage EXCEPT ![s] = "remove"]
    /\ UNCHANGED <<platform, file, probed, bridge, alive, detached>>

RemoveFiles(s) ==
    /\ s \in alive /\ stage[s] = "remove"
    /\ file' = NoFiles
    /\ stage' = [stage EXCEPT ![s] = "stopped"]
    /\ UNCHANGED <<platform, probed, bridge, watchdog, alive, detached>>

-----------------------------------------------------------------------------
(* The Python process dies, its threads with it; the watchdog sees another   *)
(* parent and cleans up.                                                     *)

Die(s) ==
    /\ s \in alive
    /\ stage[s] # "idle"
    /\ alive' = alive \ {s}
    /\ bridge' = bridge \ {s}
    /\ UNCHANGED <<platform, stage, file, probed, watchdog, detached>>

\* Mutant: the watchdog removes all but the address.
NoticePartly(s) ==
    /\ watchdog[s] = "watching" /\ s \notin alive
    /\ watchdog' = [watchdog EXCEPT ![s] = "dead"]
    /\ file' = [NoFiles EXCEPT !["address"] = file["address"]]
    /\ UNCHANGED <<platform, stage, probed, bridge, alive, detached>>

Notice(s) ==
    /\ watchdog[s] = "watching" /\ s \notin alive
    /\ watchdog' = [watchdog EXCEPT ![s] = "dead"]
    /\ file' = NoFiles
    /\ UNCHANGED <<platform, stage, probed, bridge, alive, detached>>

DashboardNext ==
    \/ \E s \in Instances :
          \/ Begin(s) \/ Probe(s) \/ Bind(s) \/ Advance(s) \/ FailStart(s)
          \/ Stop(s) \/ KillWatchdog(s) \/ RemoveFiles(s)
          \/ Die(s) \/ Notice(s)
    \/ Detach

DashboardSpec == DashboardInit /\ [][DashboardNext]_dashboardVars

\* The watchdog polls for ever, and a sidecar that cleans up goes on.
DashboardFairness ==
    \A s \in Instances : /\ WF_dashboardVars(Notice(s))
                         /\ WF_dashboardVars(KillWatchdog(s) \/ RemoveFiles(s))

-----------------------------------------------------------------------------
(* Properties *)

\* However far the start came and whatever another instance of the name did in
\* between, a session that stopped or failed to start leaves no file of its own, no
\* bridge and no watchdog; one that is up stays discoverable until it is asked to
\* detach, as long as no other of the name was started (mod.rs:55-110, 155-177).
FilesFollowInstances ==
    \A s \in Instances :
        /\ stage[s] = "stopped" =>
              /\ \A x \in Extensions : file[x] # s
              /\ s \notin bridge /\ watchdog[s] # "watching"
        /\ /\ stage[s] = "up" /\ s \in alive /\ ~detached
           /\ \A o \in Instances \ {s} : stage[o] = "idle"
           => \A x \in Extensions : file[x] = s

\* The files of a process that dies while its watchdog runs are removed in the end
\* (watchdog.rs:70-75).
AbruptExitIsCleaned ==
    \A s \in Instances : watchdog[s] = "watching" /\ s \notin alive
                            ~> \A x \in Extensions : file[x] # s

\* An instance that cleans up, one whose start was refused because the name is in
\* use among them, leaves the files of an instance that is up alone (control.rs:82-88).
CleanupKeepsOthers ==
    [][\A s, o \in Instances :
          RemoveFiles(s) /\ o # s /\ stage[o] = "up" /\ o \in alive
          => \A x \in Extensions : file[x] # o]_dashboardVars
=============================================================================
