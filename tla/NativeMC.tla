--------------------------------- MODULE NativeMC ---------------------------------
(***************************************************************************)
(* Small instances of NativeSession and Dashboard for TLC.  They share no   *)
(* state, so a behaviour runs one of them (part) and leaves the other at    *)
(* rest: a session that was dropped, a dashboard nobody started.  A session  *)
(* has a dashboard and no browser yet, or a browser and no dashboard.      *)
(***************************************************************************)
EXTENDS NativeSession, Dashboard, TLC

VARIABLE part

MCInit ==
    \/ /\ part = "session"
       /\ NativeInit
       /\ (browser = "up") = ~dashboard.slot
       /\ DashboardInit /\ platform = "unix"
    \/ /\ part = "dashboard"
       /\ DashboardInit
       /\ call = [c \in Calls |-> Fresh]
       /\ token = [c \in Calls |-> NoToken]
       /\ line = <<>> /\ browser = "none" /\ generation = 0 /\ snapshot = None /\ halfDone = {}
       /\ dashboard = [slot |-> FALSE, live |-> FALSE]
       /\ upkeep = [step |-> "stopped", told |-> TRUE]
       /\ teardown = "dropped"

MCNext ==
    \/ part = "session" /\ NativeNext /\ UNCHANGED <<dashboardVars, part>>
    \/ part = "dashboard" /\ DashboardNext /\ UNCHANGED <<nativeVars, part>>

MCSpec == MCInit /\ [][MCNext]_<<nativeVars, dashboardVars, part>>

MCFairSpec == MCSpec /\ NativeFairness /\ DashboardFairness
=============================================================================
