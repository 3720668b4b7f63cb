----------------------------- MODULE ConfirmationMC -----------------------------
(***************************************************************************)
(* Small sessions for TLC: a command that follows a URL and passes two    *)
(* gates, and a launch that asks for an allowlist and passes both too.    *)
(***************************************************************************)
EXTENDS ConfirmationInvariant, TLC

CONSTANTS url, launch, first, second, open, site

MCActionsOf == [r \in Requests |-> {first, second}]
MCOwnAction == [r \in Requests |-> IF r = launch THEN {second} ELSE {first}]
MCDomainsOf == [r \in Requests |-> IF r = launch THEN site ELSE None]

\* Two tasks interfere with a navigation under the open allowlist; a launch and
\* other allowlists meet the navigation in one task at a time.
MCScope ==
    \/ /\ allowlist = Open
       /\ \A i \in Ids : request[i] # launch
       /\ \A t \in Tasks : call[t].request # launch
    \/ \E t \in Tasks : call[t] = Idle

MCSymmetry == Permutations(Tasks) \union Permutations(Ids)
=============================================================================
