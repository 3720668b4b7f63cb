-------------------------- MODULE ConfirmationInvariant --------------------------
(***************************************************************************)
(* The inductive invariant behind the properties of Confirmation.  None of *)
(* them is inductive: each needs to know what the two other parties keep   *)
(* about the command the engine may still replay.                          *)
(***************************************************************************)
EXTENDS Confirmation

\* Ids a command has taken.
Taken == {i \in Ids : request[i] # None}

\* No approval outlives the dispatch it was given for.
QuietInv == confirmed = {}

\* The held command is one the user may still decide: it has neither run nor
\* been denied, each approval it carries was given to it, and NativeSession
\* has its context.
SlotInv ==
    slot # None =>
        /\ slot.id \in Taken \ (ran \union denied)
        /\ slot.approved \subseteq granted[slot.id]
        /\ saved[slot.id] # None
        /\ saved[slot.id].adopts = DomainsOf[request[slot.id]]

\* Only ids that were taken have a history.
HistoryInv == ran \union denied \union known \subseteq Taken

\* What a call in flight remembers of its command.
CallOK(t) ==
    /\ call[t].step = "idle" <=> call[t].verb = "none"
    /\ call[t].step = "sent" <=> call[t].verb # "none" /\ call[t].answer = "none"
    /\ call[t].verb = "run" =>
        /\ call[t].request \in Requests
        /\ call[t].compound = (call[t].request \in UrlRequests)
        /\ call[t].step = "sent" => call[t].id = None
        /\ call[t].answer = "held" =>
            /\ call[t].id \in Taken
            /\ request[call[t].id] = call[t].request
    /\ call[t].verb \in {"confirm", "deny"} => call[t].id \in Taken

\* A command with a URL that can still be replayed is marked wherever a
\* confirmation of it reads the mark, and no settled id is replayable.
HeldMark ==
    slot # None /\ request[slot.id] \in UrlRequests /\ slot.id \in known =>
        slot.id \in invalidations

MarkOK(t) ==
    /\ call[t].verb = "confirm" /\ Names(call[t].id)
         /\ request[call[t].id] \in UrlRequests => call[t].compound
    /\ call[t].verb \in {"confirm", "deny"} /\ call[t].answer \in {"done", "void"} =>
        ~Names(call[t].id)
    /\ call[t].verb = "deny" => call[t].answer # "held"

CallInv == \A t \in Tasks : CallOK(t)
MarkInv == HeldMark /\ \A t \in Tasks : MarkOK(t)

\* A stale page has a call that will drop it.
Drops(t) == call[t].step = "answered" /\ call[t].compound /\ call[t].answer # "held"
PageInv == stale => \E t \in Tasks : Drops(t)

ReplayInv ==
    /\ TypeOK
    /\ QuietInv /\ SlotInv /\ HistoryInv /\ CallInv /\ MarkInv /\ PageInv
=============================================================================
