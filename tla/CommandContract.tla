--------------------------- MODULE CommandContract ---------------------------
(***************************************************************************)
(* What an ordered command session promises its callers, whatever thread   *)
(* runs the commands: a call runs at most once and one call at a time; a   *)
(* call that ended, however it ended, is not running and never runs again; *)
(* a rejected call never ran; and no call but close starts to run behind a *)
(* shut gate.                                                              *)
(***************************************************************************)
CONSTANTS Commands, CloseCommands, None

VARIABLES status,   \* [Commands -> how far the caller is with the call]
          running,  \* the command inside the browser, or None
          ran,      \* the commands that entered the browser
          gate      \* "open", or "shut" once the session is closing

vars == <<status, running, ran, gate>>

Ends == {"answered", "rejected", "cancelled"}

Init ==
    /\ status = [c \in Commands |-> "new"]
    /\ running = None /\ ran = {} /\ gate = "open"

Issue(c) ==
    /\ status[c] = "new"
    /\ status' = [status EXCEPT ![c] = "issued"]
    /\ UNCHANGED <<running, ran, gate>>

Run(c) ==
    /\ status[c] = "issued"
    /\ running = None
    /\ c \notin ran
    /\ gate = "open" \/ c \in CloseCommands
    /\ running' = c /\ ran' = ran \cup {c}
    /\ UNCHANGED <<status, gate>>

Leave ==
    /\ running # None
    /\ running' = None
    /\ UNCHANGED <<status, ran, gate>>

End(c, how) ==
    /\ status[c] = "issued"
    /\ running # c
    /\ how = "rejected" => c \notin ran
    /\ status' = [status EXCEPT ![c] = how]
    /\ UNCHANGED <<running, ran, gate>>

Shut ==
    /\ gate' = "shut"
    /\ UNCHANGED <<status, running, ran>>

Next ==
    \/ \E c \in Commands : Issue(c) \/ Run(c) \/ \E how \in Ends : End(c, how)
    \/ Leave \/ Shut

Spec == Init /\ [][Next]_vars

=============================================================================
