------------------------------ MODULE Confirmation ------------------------------
(***************************************************************************)
(* How a browser command that needs an approval is held, replayed once the *)
(* user confirms it, or dropped.  Three parties keep a piece of it:        *)
(*   - the native engine (confirmation.rs): ONE pending command, which a   *)
(*     later gated command overwrites, and the actions approved so far;    *)
(*   - NativeSession (transport/sync.py): per confirmation id, the command *)
(*     and domain policy the replay is filtered with and may adopt;        *)
(*   - the controller (execution/): the ids whose replay must invalidate   *)
(*     the cached CDP page, because the replay's answer has no URL.        *)
(* They are updated at different moments: an asyncio task settles its      *)
(* bookkeeping (Continue) only after the owner thread answered, and other  *)
(* tasks' commands run in between.                                         *)
(*                                                                         *)
(* One owner thread executes commands, so an execution is one step.  The   *)
(* order in which sent commands execute and answers are continued is left  *)
(* open; the code is first-in first-out, which is one of those orders.     *)
(***************************************************************************)
EXTENDS FiniteSets

CONSTANTS
    Tasks,          \* asyncio tasks (a synchronous Browser is one task)
    Requests,       \* the commands the program can issue
    Ids,            \* command ids; each command that reaches the engine takes a new one
    Actions,        \* the policy actions a command is checked for
    ActionsOf,      \* Requests -> SUBSET Actions
    UrlRequests,    \* commands of CDP_URL_ACTIONS that carry a URL
    DomainsOf,      \* Requests -> the allowlist a launch asks for, None otherwise
    Domains,        \* the allowlists
    Open,           \* the empty allowlist, which allows everything
    None

ASSUME ConfirmationAssumption ==
    /\ ActionsOf \in [Requests -> SUBSET Actions]
    /\ DomainsOf \in [Requests -> Domains \union {None}]
    /\ UrlRequests \subseteq Requests
    /\ Open \in Domains
    /\ None \notin Domains \union Requests \union Ids

VARIABLES
    call,           \* per task: the command it runs and how it was answered
    rule,           \* the action policy file, edited by the user at any time
    slot,           \* DaemonState.pending_confirmation
    confirmed,      \* DaemonState.confirmed_policy_actions
    request,        \* the command behind each id (None: id not taken)
    saved,          \* NativeSession._pending_confirmations
    allowlist,      \* NativeSession._allowlist
    invalidations,  \* CommandState.pending_invalidations
    stale,          \* the cached CDP page may belong to a document that is gone
    known,          \* history: ids whose ConfirmationRequired reached the program
    granted,        \* history: per id, the actions the user confirmed for it
    ran,            \* history: ids whose command entered the browser
    denied          \* history: ids the user denied

native == <<slot, confirmed>>
session == <<saved, allowlist>>
history == <<granted, ran, denied>>
vars == <<call, rule, native, request, session, invalidations, stale, known, history>>

-----------------------------------------------------------------------------
(* The parts of the state *)

Idle == [step |-> "idle", verb |-> "none", request |-> None, id |-> None,
         compound |-> FALSE, answer |-> "none"]

Calls == [step: {"idle", "sent", "answered"}, verb: {"none", "run", "confirm", "deny"},
          request: Requests \union {None}, id: Ids \union {None}, compound: BOOLEAN,
          answer: {"none", "done", "held", "void", "failed"}]

\* A command the engine holds: which one, at which action, after which approvals.
Held == [id: Ids, action: Actions, approved: SUBSET Actions]

\* PendingConfirmation: the policy the command was prepared with and the
\* allowlist it adopts on success (None unless it is a launch with domains).
Context == [policy: Domains, adopts: Domains \union {None}]

ASSUME NoneAssumption == None \notin Held \union Context

TypeOK ==
    /\ call \in [Tasks -> Calls]
    /\ rule \in [Actions -> {"allow", "confirm", "deny"}]
    /\ slot \in Held \union {None}
    /\ confirmed \in SUBSET Actions
    /\ request \in [Ids -> Requests \union {None}]
    /\ saved \in [Ids -> Context \union {None}]
    /\ allowlist \in Domains
    /\ invalidations \in SUBSET Ids
    /\ stale \in BOOLEAN
    /\ known \in SUBSET Ids
    /\ granted \in [Ids -> SUBSET Actions]
    /\ ran \in SUBSET Ids
    /\ denied \in SUBSET Ids

Init ==
    /\ call = [t \in Tasks |-> Idle]
    /\ rule \in [Actions -> {"allow", "confirm", "deny"}]
    /\ slot = None
    /\ confirmed = {}
    /\ request = [i \in Ids |-> None]
    /\ saved = [i \in Ids |-> None]
    /\ allowlist \in Domains
    /\ invalidations = {}
    /\ stale = FALSE
    /\ known = {}
    /\ granted = [i \in Ids |-> {}]
    /\ ran = {}
    /\ denied = {}

-----------------------------------------------------------------------------
(* What the native engine decides about a command, given the approvals it  *)
(* runs under.  The policy file is read again before each action; denials  *)
(* come first, then confirmations.                                         *)

Refused(r) == \E a \in ActionsOf[r] : rule[a] = "deny"
Gates(r, approvals) == {a \in ActionsOf[r] \ approvals : rule[a] = "confirm"}
Free(r, approvals) == ~Refused(r) /\ Gates(r, approvals) = {}
Stops(r, approvals) == IF Refused(r) THEN {} ELSE Gates(r, approvals)

\* The command of id i enters the browser; one that follows a URL leaves the
\* cached page behind.
Enter(i, r) ==
    /\ ran' = ran \union {i}
    /\ stale' = (stale \/ r \in UrlRequests)

\* The command of id i is held at action a, in place of any command held before.
HoldAt(i, a, approvals) ==
    slot' = [id |-> i, action |-> a, approved |-> approvals]

\* The held command a confirmation or denial of id i names.
Names(i) == slot # None /\ slot.id = i

\* Mutant: without the guard the approvals stay for the next command.
KeptApprovals(approvals) == approvals

\* confirmed_policy_actions once a dispatch has ended or was dropped half-way,
\* when the approvals it ran under were these: the guard Dispatch clears them.
Leftover(approvals) == {}

-----------------------------------------------------------------------------
(* What NativeSession does around the engine *)

\* A launch may ask for the allowlist the session has, or for any if it has none.
Admitted(r) == DomainsOf[r] = None \/ allowlist \in {Open, DomainsOf[r]}
PolicyFor(r) == IF DomainsOf[r] = None THEN allowlist ELSE DomainsOf[r]
ContextOf(r) == [policy |-> PolicyFor(r), adopts |-> DomainsOf[r]]
Finish(context) == IF context.adopts = None THEN context.policy ELSE context.adopts

\* Mutant: a second hold records the confirm command's own context.
ForgottenContext(i) == [policy |-> allowlist, adopts |-> None]

\* The context a replay that is held again is recorded with: its own.
Inherited(i) ==
    IF saved[i] # None THEN saved[i] ELSE [policy |-> allowlist, adopts |-> None]

Answered(t, i, how) ==
    call' = [call EXCEPT ![t] = [@ EXCEPT !.step = "answered", !.id = i, !.answer = how]]

-----------------------------------------------------------------------------
(* The controller sends a command *)

\* A task issues a command; whether it will invalidate the page is decided now.
Issue(t, r) ==
    /\ call[t].step = "idle"
    /\ call' = [call EXCEPT ![t] = [Idle EXCEPT !.step = "sent", !.verb = "run",
                                                !.request = r, !.id = None,
                                                !.compound = (r \in UrlRequests)]]
    /\ UNCHANGED <<rule, native, request, session, invalidations, stale, known, history>>

\* A task confirms or denies an id it was told of, which may be settled by now.
Settle(t, verb, i) ==
    /\ call[t].step = "idle"
    /\ i \in known
    /\ call' = [call EXCEPT ![t] = [Idle EXCEPT !.step = "sent", !.verb = verb,
                                                !.request = None, !.id = i,
                                                !.compound = (verb = "confirm"
                                                              /\ i \in invalidations)]]
    /\ UNCHANGED <<rule, native, request, session, invalidations, stale, known, history>>

-----------------------------------------------------------------------------
(* The owner thread executes a command that was sent *)

Sent(t, verb) == call[t].step = "sent" /\ call[t].verb = verb

\* The command has no effect: the domain policy, the action policy or the
\* engine refuses it, the id names no held command, or its deadline or token
\* fired before dispatch.  A context taken out for it is put back.
Fail(t) ==
    /\ call[t].step = "sent"
    /\ Answered(t, call[t].id, "failed")
    /\ UNCHANGED <<rule, native, request, session, invalidations, stale, known, history>>

\* A free command takes a new id and runs.  If it fails, or is interrupted
\* after it entered the browser, the session keeps its allowlist.
Run(t, i, how) ==
    /\ Sent(t, "run")
    /\ request[i] = None
    /\ LET r == call[t].request IN
        /\ Admitted(r)
        /\ Free(r, confirmed)
        /\ request' = [request EXCEPT ![i] = r]
        /\ Enter(i, r)
        /\ allowlist' = IF how = "done" THEN Finish(ContextOf(r)) ELSE allowlist
    /\ confirmed' = Leftover(confirmed)
    /\ Answered(t, i, how)
    /\ UNCHANGED <<rule, slot, saved, invalidations, known, granted, denied>>

\* A gated command takes a new id, is held, and its context is recorded.
Hold(t, i) ==
    /\ Sent(t, "run")
    /\ request[i] = None
    /\ LET r == call[t].request IN
        /\ Admitted(r)
        /\ \E a \in Stops(r, confirmed) : HoldAt(i, a, confirmed)
        /\ request' = [request EXCEPT ![i] = r]
        /\ saved' = [saved EXCEPT ![i] = ContextOf(r)]
    /\ confirmed' = Leftover(confirmed)
    /\ Answered(t, i, "held")
    /\ UNCHANGED <<rule, allowlist, invalidations, stale, known, history>>

\* A confirmation the engine accepts: the id matches and the policy, read
\* again, does not deny the action the command is held at.
Accepts(t) ==
    /\ Sent(t, "confirm")
    /\ Names(call[t].id)
    /\ rule[slot.action] # "deny"
    /\ granted' = [granted EXCEPT ![call[t].id] = @ \union {slot.action}]

Approvals == slot.approved \union {slot.action}

\* The replay runs to its end; its success adopts the policy of its context,
\* unless filtering the result by the old policy raises.
ConfirmRuns(t, how) ==
    /\ Accepts(t)
    /\ Free(request[slot.id], Approvals)
    /\ Enter(slot.id, request[slot.id])
    /\ slot' = None
    /\ allowlist' = IF how = "failed" \/ saved[call[t].id] = None
                       THEN allowlist ELSE Finish(saved[call[t].id])
    /\ saved' = [saved EXCEPT ![call[t].id] = None]
    /\ confirmed' = Leftover(confirmed)
    /\ Answered(t, call[t].id, how)
    /\ UNCHANGED <<rule, request, invalidations, known, denied>>

\* The replay is refused or fails: the confirmation itself succeeded and is
\* consumed, the nested result is an error.
ConfirmFails(t) ==
    /\ Accepts(t)
    /\ slot' = None
    /\ \/ Free(request[slot.id], Approvals) /\ Enter(slot.id, request[slot.id])
       \/ Refused(request[slot.id]) /\ UNCHANGED <<ran, stale>>
    /\ saved' = [saved EXCEPT ![call[t].id] = None]
    /\ confirmed' = Leftover(confirmed)
    /\ Answered(t, call[t].id, "void")
    /\ UNCHANGED <<rule, request, allowlist, invalidations, known, denied>>

\* The replay is held again, at its next gate, under the same id.
ConfirmHolds(t) ==
    /\ Accepts(t)
    /\ \E a \in Stops(request[slot.id], Approvals) : HoldAt(slot.id, a, Approvals)
    /\ saved' = [saved EXCEPT ![call[t].id] = Inherited(call[t].id)]
    /\ confirmed' = Leftover(confirmed)
    /\ Answered(t, call[t].id, "held")
    /\ UNCHANGED <<rule, request, allowlist, invalidations, stale, known,
                   ran, denied>>

\* Mutant: an interrupted confirmation leaves the command in the slot.
RepeatableCut(t) ==
    /\ Accepts(t)
    /\ Free(request[slot.id], Approvals) /\ Enter(slot.id, request[slot.id])
    /\ confirmed' = Leftover(Approvals)
    /\ Answered(t, call[t].id, "failed")
    /\ UNCHANGED <<rule, slot, request, session, invalidations, known, denied>>

\* A deadline or a cancellation drops the dispatch of the confirmation after
\* the command was taken out of the slot, before or after it entered the
\* browser.  The session sees a failed confirmation and puts the context back.
ConfirmCut(t) ==
    /\ Accepts(t)
    /\ slot' = None
    /\ \/ Free(request[slot.id], Approvals) /\ Enter(slot.id, request[slot.id])
       \/ UNCHANGED <<ran, stale>>
    /\ confirmed' = Leftover(Approvals)
    /\ Answered(t, call[t].id, "failed")
    /\ UNCHANGED <<rule, request, session, invalidations, known, denied>>

\* A denial the engine accepts; it may be cut after the slot was emptied.
Deny(t, how) ==
    /\ Sent(t, "deny")
    /\ Names(call[t].id)
    /\ slot' = None
    /\ denied' = denied \union {call[t].id}
    /\ saved' = IF how = "done" THEN [saved EXCEPT ![call[t].id] = None] ELSE saved
    /\ confirmed' = Leftover(confirmed)
    /\ Answered(t, call[t].id, how)
    /\ UNCHANGED <<rule, request, allowlist, invalidations, stale, known,
                   granted, ran>>

-----------------------------------------------------------------------------
(* The controller goes on with the answer *)

\* A page dropped because the command may have left it is no longer stale.
Invalidate == stale' = FALSE

\* Mutant: the new mark is set before the settled id is discarded.
LateDiscard(c) ==
    (invalidations \union (IF c.answer = "held" /\ c.compound THEN {c.id} ELSE {}))
        \ (IF c.verb # "run" /\ c.answer # "failed" THEN {c.id} ELSE {})

\* continue_invalidation: a held replay keeps its mark, a consumed one loses it.
NextInvalidations(c) ==
    LET settled == c.verb # "run" /\ c.answer # "failed"
    IN  (invalidations \ (IF settled THEN {c.id} ELSE {}))
            \union (IF c.answer = "held" /\ c.compound THEN {c.id} ELSE {})

Continue(t) ==
    /\ call[t].step = "answered"
    /\ invalidations' = NextInvalidations(call[t])
    /\ known' = IF call[t].answer = "held" THEN known \union {call[t].id} ELSE known
    /\ IF call[t].compound /\ call[t].answer # "held" THEN Invalidate ELSE UNCHANGED stale
    /\ call' = [call EXCEPT ![t] = Idle]
    /\ UNCHANGED <<rule, native, request, session, history>>

\* The task is cancelled before it goes on: queued commands never execute,
\* and the wait for a running one ended with its answer (module AsyncSession).
Cancel(t) ==
    /\ call[t].step # "idle"
    /\ IF call[t].compound THEN Invalidate ELSE UNCHANGED stale
    /\ call' = [call EXCEPT ![t] = Idle]
    /\ UNCHANGED <<rule, native, request, session, invalidations, known, history>>

EditPolicy(a, value) ==
    /\ rule[a] # value
    /\ rule' = [rule EXCEPT ![a] = value]
    /\ UNCHANGED <<call, native, request, session, invalidations, stale, known, history>>

-----------------------------------------------------------------------------
Controller(t) ==
    \/ \E r \in Requests : Issue(t, r)
    \/ \E verb \in {"confirm", "deny"}, i \in Ids : Settle(t, verb, i)
    \/ Continue(t)
    \/ Cancel(t)

Owner(t) ==
    \/ Fail(t)
    \/ \E i \in Ids : \/ \E how \in {"done", "failed"} : Run(t, i, how)
                      \/ Hold(t, i)
    \/ ConfirmFails(t)
    \/ ConfirmHolds(t)
    \/ ConfirmCut(t)
    \/ \E how \in {"done", "failed"} : ConfirmRuns(t, how) \/ Deny(t, how)

User == \E a \in Actions, value \in {"allow", "confirm", "deny"} : EditPolicy(a, value)

Next == (\E t \in Tasks : Controller(t) \/ Owner(t)) \/ User

Spec == Init /\ [][Next]_vars

-----------------------------------------------------------------------------
(* Properties *)

\* The controller has taken in every answer.
Quiescent == \A t \in Tasks : call[t].step = "idle"

\* The owner thread answers the call of task t in this step.
Answers(t) == call[t].step = "sent" /\ call'[t].step = "answered"

\* A held command is replayed with the context it was issued with: as long as
\* the engine can replay it, NativeSession knows the policy its answer is
\* filtered with and the allowlist its success adopts, whatever was confirmed,
\* failed, cut or held again in between (sync.py _restore_/_record_pending).
ReplayHasItsContext ==
    slot # None =>
        /\ saved[slot.id] # None
        /\ saved[slot.id].adopts = DomainsOf[request[slot.id]]

\* Once no call is in flight the cached CDP page is not one that a command with
\* a URL left, though the confirmed answer of such a command has no URL and
\* may arrive after failures, cancellations and other tasks' settlements.
PageIsFresh == Quiescent => ~stale

\* A command enters the browser only if, at that moment, the policy denies none
\* of its actions and the user confirmed, for this very command, each one the
\* policy wants confirmed.  Approvals never leak from one command to another.
ApprovedRuns ==
    [][\A i \in ran' \ ran :
        \A a \in ActionsOf[request'[i]] :
            rule[a] = "allow" \/ (rule[a] = "confirm" /\ a \in granted'[i])]_vars

\* A command enters the browser at most once, and never once it was denied:
\* confirming again after a cut or failed confirmation cannot run it again.
RunsOnce ==
    [][\A t \in Tasks :
        LET i == call'[t].id IN
        Answers(t) /\ i \in ran \union denied =>
            /\ call[t].verb # "run"
            /\ call'[t].answer = "failed"
            /\ UNCHANGED <<slot, stale, allowlist>>]_vars

\* A launch that succeeds, at once or after any chain of confirmations, makes
\* its domains the session's allowlist; a denial, a failed or held replay and a
\* confirmation of the wrong id leave the allowlist alone.
AdoptionFollowsOutcome ==
    [][\A t \in Tasks : Answers(t) =>
        LET r == IF call[t].verb = "run" THEN call[t].request ELSE request[call[t].id]
        IN  IF call'[t].answer = "done" /\ call[t].verb # "deny"
              THEN DomainsOf[r] # None => allowlist' = DomainsOf[r]
              ELSE UNCHANGED allowlist]_vars

\* Only a launch changes the session's allowlist (development_docs/safety.md).
OnlyLaunchMovesAllowlist ==
    [][\A t \in Tasks : Answers(t) =>
        LET r == IF call[t].verb = "run" THEN call[t].request ELSE request[call[t].id]
        IN  DomainsOf[r] = None => UNCHANGED allowlist]_vars
=============================================================================
