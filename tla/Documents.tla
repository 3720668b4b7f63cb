-------------------------------- MODULE Documents --------------------------------
(***************************************************************************)
(* Pages, frames, snapshots and refs.  The engine has one active tab and   *)
(* one ref map; a handle retains a target and a frame, and each of its     *)
(* commands makes the engine select them first.  Commands wait in one      *)
(* queue and their answers are taken up in order, each by its caller, who  *)
(* records the target and the ref generation it names (CommandState).  In  *)
(* an asynchronous browser callers run between a command and its answer;   *)
(* a synchronous one has one caller at work.                               *)
(*                                                                         *)
(* A document is a number its tab or frame counts up; its refs share one   *)
(* id per generation.  Which ids the engine hands out after the refs       *)
(* expired, and whether leaving a document expires them, is up to it.      *)
(* Between two dispatches its maintenance learns of what the browser did   *)
(* by itself, which no answer tells.                                       *)
(***************************************************************************)
EXTENDS Commands, Naturals, SequencesExt, FiniteSets

CONSTANTS
    Callers,        \* asyncio tasks, or the threads of a synchronous program
    TargetIds,      \* targets of tabs
    FrameIds,       \* child frames
    FrameOf,        \* frame -> the tab it is in
    Nobody,
    MaxCalls,       \* bound on the operations of a run
    MaxMoves,       \* bound on the documents a tab goes through
    MaxSurprises    \* bound on what goes wrong, or happens by itself

\* A tab or one of its frames shows a document; a DocumentScope names one of them.
Contexts == TargetIds \union FrameIds

Scopes == [target : TargetIds \union {Nobody}, frame : FrameIds \union {Nobody}]

\* A snapshot: where it says it is from, the generation and the id of its refs, and
\* the document it is of.
Snapshots == [scope : Scopes, generation : Nat, id : Nat \ {0}, at : Contexts \X Nat]

ASSUME DocumentsAssumption ==
    /\ FrameOf \in [FrameIds -> TargetIds]
    /\ Nobody \notin Callers \union Contexts \union Scopes \union Snapshots
    /\ {MaxCalls, MaxMoves, MaxSurprises} \subseteq Nat

VARIABLES
    isAsync,        \* an AsyncBrowser, or a Browser
    tabs, top,      \* the state of each target, and the active tab
    document,       \* tab or frame -> its document
    attached,       \* the frames attached to their tab
    surprises,      \* how much went wrong, or happened by itself
    generation,     \* RefMap.generation
    named, mapped,  \* the documents named in this generation; the refs in the map
    queue, answers, \* commands waiting, answers waiting for their callers
    knownTarget, knownGeneration,       \* CommandState
    early,          \* the target of a page handle taken before the launch
    handles,        \* caller -> the document of the handle it retains
    snapshot,       \* caller -> the snapshot it retains
    call,           \* caller -> the operation it is in
    calls,          \* how many operations were begun
    hit, bound,     \* history: what the last command hit and bound
    missed          \* history: whether the active tab or the generation changed untold
                    \* since the last answer of a dispatch, or an answer was lost

engineState == <<tabs, top, document, attached, surprises, generation, named, mapped>>
wire == <<queue, answers>>
program == <<knownTarget, knownGeneration, early, handles, snapshot, call, calls>>
ghosts == <<hit, bound>>
documentVars == <<isAsync, engineState, wire, program, ghosts, missed>>

openTabs == {t \in TargetIds : tabs[t] = "open"}

FramesIn(t) == {f \in FrameIds : FrameOf[f] = t}

-----------------------------------------------------------------------------

\* What a command does to the engine's state, by its action.
Effect(action) ==
    CASE action \in Navigating -> "navigates"
      [] action = "snapshot"   -> "observes"
      [] action = "frame"      -> "frames"
      [] action = "tab_list"   -> "lists"
      [] action = "tab_new"    -> "opens"
      [] action = "tab_switch" -> "switches"
      [] action = "tab_close"  -> "closes"
      [] OTHER                 -> "runs"

Effects(actions) == {Effect(action) : action \in actions}

\* Of a Browser and of an AsyncBrowser.
PageEffects == [a \in BOOLEAN |-> Effects(PageActions(a))]
FrameEffects == [a \in BOOLEAN |-> Effects(FrameActions(a))]
BrowserEffects == [a \in BOOLEAN |-> Effects(BrowserActions(a))]

\* Of an unbound executor; DocumentScope(None) of a late-bound one.
Unbound == Nobody
Scope(target, frame) == [target |-> target, frame |-> frame]

NoCall == [does |-> "nothing", via |-> "none", scope |-> Unbound, tab |-> Nobody]

DocumentsInit ==
    /\ isAsync \in BOOLEAN
    /\ tabs = [t \in TargetIds |-> "new"] /\ top = Nobody
    /\ document = [d \in Contexts |-> 0]
    /\ attached = {} /\ surprises = 0
    /\ generation = 1 /\ named = << >> /\ mapped = 0
    /\ queue = << >> /\ answers = << >>
    /\ knownTarget = Nobody /\ knownGeneration = 0
    /\ early = Nobody
    /\ handles = [c \in Callers |-> Nobody]
    /\ snapshot = [c \in Callers |-> Nobody]
    /\ call = [c \in Callers |-> NoCall]
    /\ calls = 0
    /\ hit = Nobody /\ bound = Nobody /\ missed = FALSE

-----------------------------------------------------------------------------
(* Callers.                                                                 *)

AtWork(c) == call[c].does # "nothing"

Ready(c) == ~AtWork(c) /\ (isAsync \/ \A other \in Callers : ~AtWork(other))

\* _parameters: the target if it is known, the frame, the generation of a ref.
Send(c, effect, scope, ref, tab) ==
    queue' = Append(queue, [by |-> c, effect |-> effect, scope |-> scope, ref |-> ref,
                            tab |-> tab, checked |-> FALSE])

BeginCall(c, does, via, effect, scope, ref, tab) ==
    /\ calls' = calls + 1
    /\ call' = [call EXCEPT ![c] = [does |-> does, via |-> via, scope |-> scope, tab |-> tab]]
    /\ Send(c, effect, scope, ref, tab)
    /\ hit' = Nobody /\ bound' = Nobody
    /\ UNCHANGED <<isAsync, engineState, answers, knownTarget, knownGeneration, early, handles,
                   snapshot, missed>>

\* Page handles: one taken before the launch, and browser.page.
PageScopes == {<<"early", Scope(early, Nobody)>>, <<"fresh", Scope(knownTarget, Nobody)>>}

CallPage(c) ==
    \E page \in PageScopes, effect \in PageEffects[isAsync] :
        BeginCall(c, effect, page[1], effect, page[2], Nobody, Nobody)

CallHandle(c) ==
    /\ handles[c] # Nobody
    /\ \E effect \in IF handles[c].frame = Nobody THEN PageEffects[isAsync] ELSE FrameEffects[isAsync] :
           BeginCall(c, effect, "handle", effect, handles[c], Nobody, Nobody)

CallBrowser(c) ==
    \E effect \in BrowserEffects[isAsync] :
        \E tab \in IF effect \in {"switches", "closes"} THEN openTabs ELSE {Nobody} :
            BeginCall(c, effect, "none", effect, Unbound, Nobody, tab)

\* Ref._ensure_current; an expired ref raises StaleRefError without a command.
IsCurrent(s) == s.generation = knownGeneration

CallRef(c) ==
    /\ snapshot[c] # Nobody /\ IsCurrent(snapshot[c])
    /\ BeginCall(c, "acts", "ref", "acts", snapshot[c].scope, snapshot[c], Nobody)

\* Tabs.open with the label of an open tab: list, switch, navigate.
CallOpen(c) ==
    \E tab \in openTabs : BeginCall(c, "finds", "none", "lists", Unbound, Nobody, tab)

-----------------------------------------------------------------------------
(* The engine.                                                              *)

Respond(to, code, data, target, known) ==
    /\ queue' = Tail(queue)
    /\ answers' = Append(answers, [to |-> to, code |-> code, data |-> data,
                                   target |-> target, generation |-> known])

\* A response of the dispatch, with its metadata: it tells all there is to know.
Answer(to, code, data) ==
    /\ Respond(to, code, data, top', generation')
    /\ missed' = FALSE

\* One that returns before the dispatch has none.
Unsaid == 0
Reject(to, code) == Respond(to, code, Nobody, Nobody, Unsaid)

\* RefMap::expire_active_refs and the invalidations.
Expire ==
    /\ generation' = generation + 1
    /\ mapped' = 0
    /\ named' \in {named, << >>}

\* After a change of tabs the documents stay known; after an interrupted dispatch none is.
ExpireActive == Expire /\ named' = named
ExpireAll == Expire /\ named' = << >>

KeepRefs == UNCHANGED <<generation, named, mapped>>

\* A command cut short or half-done, a page, a frame or a tab that changes by itself.
Surprise == surprises < MaxSurprises /\ surprises' = surprises + 1

\* Target ids are not used again.
Opened(t) ==
    /\ tabs[t] = "new"
    /\ tabs' = [tabs EXCEPT ![t] = "open"] /\ top' = t
    /\ attached' = attached \union FramesIn(t)

Activated(t) == t \in openTabs /\ top' = t /\ UNCHANGED <<tabs, attached>>

\* Another tab becomes the active one, if there is one.
Closed(t) ==
    /\ t \in openTabs
    /\ tabs' = [tabs EXCEPT ![t] = "closed"]
    /\ top' \in IF t # top THEN {top} ELSE IF openTabs = {t} THEN {Nobody} ELSE openTabs \ {t}
    /\ attached' = attached \ FramesIn(t)

SameTabs == UNCHANGED <<tabs, top, attached>>

\* A tab_close of the only tab is refused.
Closable(t) == openTabs # {t}

\* A dispatch that is cut short, or fails, may have changed the tabs.
PartlyDone(command) ==
    \/ SameTabs
    \/ command.effect \in {"opens", "acts"} /\ \E t \in TargetIds : Opened(t)
    \/ command.effect = "switches" /\ Activated(command.tab)
    \/ command.effect = "closes" /\ Closable(command.tab) /\ Closed(command.tab)

\* Mutant of Forget: the command of a cancelled await stays in the queue.
ForgetCaller(c) ==
    /\ call' = [call EXCEPT ![c] = NoCall]
    /\ UNCHANGED <<isAsync, document, knownTarget, knownGeneration, early,
                   handles, snapshot, calls, hit, bound, queue, answers>>

\* The caller waits for one command or for one answer (DocumentsTypeOK).
Forget(c) ==
    /\ call' = [call EXCEPT ![c] = NoCall]
    /\ \/ \E n \in DOMAIN queue : queue[n].by = c /\ queue' = RemoveAt(queue, n)
          /\ UNCHANGED answers
       \/ \E n \in DOMAIN answers : answers[n].to = c /\ answers' = RemoveAt(answers, n)
          /\ UNCHANGED queue
    /\ UNCHANGED <<isAsync, document, knownTarget, knownGeneration, early,
                   handles, snapshot, calls, hit, bound>>

\* A cancelled await whose command has not been started, or has been answered:
\* the answer is not recorded.
Cancel(c) ==
    /\ isAsync /\ AtWork(c)
    /\ missed' = (missed \/ \E n \in DOMAIN answers : answers[n].to = c)
    /\ ~\E n \in DOMAIN queue : queue[n].by = c /\ queue[n].checked
    /\ KeepRefs /\ SameTabs /\ UNCHANGED surprises
    /\ Forget(c)

\* Or is being carried out: the dispatch is interrupted and expires the refs.
Interrupt(c) ==
    /\ isAsync /\ queue # << >> /\ Head(queue).by = c
    /\ Surprise
    /\ missed' = TRUE
    /\ PartlyDone(Head(queue))
    /\ ExpireAll
    /\ Forget(c)

\* The deadline of a command in its dispatch: the answer names the new generation only.
Deadline ==
    /\ Surprise
    /\ PartlyDone(Head(queue))
    /\ missed' = (missed \/ Head(queue).checked \/ top' # top)
    /\ ExpireAll
    /\ Respond(Head(queue).by, "execution_timeout", Nobody, Nobody, generation')
    /\ UNCHANGED <<isAsync, document, program, ghosts>>

\* Or while it waits for the engine.
DeadlineFirst ==
    /\ ~Head(queue).checked /\ Surprise
    /\ Reject(Head(queue).by, "execution_timeout")
    /\ UNCHANGED <<isAsync, tabs, top, document, attached, generation, named, mapped, program, ghosts, missed>>

\* The browser is launched with one tab by the first command that needs it.
LaunchBrowser ==
    /\ openTabs = {} /\ queue # << >>
    /\ \E t \in TargetIds : Opened(t)
    /\ KeepRefs
    /\ UNCHANGED <<isAsync, document, surprises, wire, program, ghosts, missed>>

Command == Head(queue)
HasTarget(command) == command.scope # Unbound /\ command.scope.target # Nobody
SwitchesScope(command) == HasTarget(command) /\ command.scope.target # top

\* The first check of a dispatch, before any tab is switched.
StaleRef(command) ==
    ~command.checked /\ command.ref # Nobody /\ command.ref.generation # generation

RejectStale ==
    /\ StaleRef(Command)
    /\ UNCHANGED <<isAsync, engineState, program, ghosts, missed>>
    /\ Reject(Command.by, "stale_ref")

RejectTarget ==
    /\ ~StaleRef(Command)
    /\ HasTarget(Command) /\ Command.scope.target \notin openTabs
    /\ UNCHANGED <<isAsync, engineState, program, ghosts, missed>>
    /\ Reject(Command.by, "frame_scope")

\* handle_tab_switch before the command, as a step of its own: nothing else
\* reaches the engine in between.
SwitchFirst ==
    /\ ~StaleRef(Command)
    /\ SwitchesScope(Command)
    /\ Activated(Command.scope.target)
    /\ ExpireActive
    /\ queue' = <<[Command EXCEPT !.checked = TRUE]>> \o Tail(queue)
    /\ UNCHANGED <<isAsync, document, surprises, answers, program, ghosts, missed>>

\* It may fail, before or after it has switched: the answer has no metadata.
SwitchFails ==
    /\ Surprise
    /\ ~StaleRef(Command)
    /\ SwitchesScope(Command) /\ Command.scope.target \in openTabs
    /\ SameTabs \/ Activated(Command.scope.target)
    /\ ExpireActive \/ KeepRefs
    /\ missed' = (missed \/ top' # top \/ generation' # generation)
    /\ UNCHANGED <<isAsync, document, program, ghosts>>
    /\ Reject(Command.by, "other")

Selected(command) == ~StaleRef(command) /\ ~SwitchesScope(command)

\* The browsing context a command runs in, once its scope is selected.  An unbound
\* one finds the frame selected last, but none of those (BrowserEffects) looks at it.
Context(command) ==
    IF command.scope # Unbound /\ command.scope.frame # Nobody THEN command.scope.frame ELSE top

Detached(command) == Context(command) \in FrameIds \ attached

RejectDetached ==
    /\ Selected(Command) /\ Detached(Command)
    /\ UNCHANGED <<isAsync, engineState, program, ghosts>>
    /\ Answer(Command.by, "frame_detached", Nobody)

Runs(effect) ==
    /\ Selected(Command) /\ ~Detached(Command)
    /\ Command.effect = effect

\* Commands that leave tabs, documents and refs alone.
RunPlain ==
    /\ \E effect \in {"runs", "lists", "frames"} : Runs(effect)
    /\ UNCHANGED <<isAsync, engineState, program, ghosts>>
    /\ Answer(Command.by, "ok",
              IF Command.effect = "frames" THEN attached ELSE openTabs)

\* Mutant of NamedWith: a snapshot gives out the ids of the one before again.
NamedAlone(here) == <<here>>

NamedWith(here) == IF here \in ToSet(named) THEN named ELSE Append(named, here)

\* begin_snapshot: the map is refilled, known documents keep their ids.
ObserveDocument ==
    /\ Runs("observes")
    /\ UNCHANGED <<isAsync, document, surprises, program, ghosts>> /\ SameTabs
    /\ LET here == <<Context(Command), document[Context(Command)]>>
       IN  /\ named' = NamedWith(here)
           /\ mapped' = CHOOSE n \in DOMAIN named' : named'[n] = here
           /\ generation' = generation
           /\ Answer(Command.by, "ok",
                     [id |-> mapped', at |-> here])

\* Strict refs: the ref must be in the map, its node in the document.
\* A click may open a tab.
ActOnRef ==
    /\ Runs("acts")
    /\ UNCHANGED <<isAsync, document, surprises, program, bound>>
    /\ LET found == mapped # 0 /\ Command.ref.id = mapped
           node == named[mapped]
       IN  IF ~found \/ document[node[1]] # node[2] \/ node[1] \in FrameIds \ attached
           THEN /\ SameTabs /\ KeepRefs
                /\ Answer(Command.by, "stale_ref", Nobody)
                /\ UNCHANGED hit
           ELSE /\ \/ SameTabs /\ KeepRefs
                   \/ ExpireActive /\ \E t \in TargetIds : Opened(t)
                /\ Answer(Command.by, "ok", Nobody)
                /\ hit' = [wanted |-> Command.ref.at, got |-> node]

\* The tab's frames go with its document.
NavigateTop ==
    /\ Runs("navigates") /\ document[top] < MaxMoves
    /\ document' = [document EXCEPT ![top] = @ + 1]
    /\ attached' = attached \ FramesIn(top)
    /\ Expire \/ KeepRefs
    /\ UNCHANGED <<isAsync, tabs, top, surprises, program, ghosts>>
    /\ Answer(Command.by, "ok", Nobody)

OpenTab ==
    /\ Runs("opens")
    /\ \E t \in TargetIds : Opened(t)
    /\ ExpireActive
    /\ UNCHANGED <<isAsync, document, surprises, program, ghosts>>
    /\ Answer(Command.by, "ok", Nobody)

SwitchTab ==
    /\ Runs("switches") /\ Activated(Command.tab)
    /\ ExpireActive
    /\ UNCHANGED <<isAsync, document, surprises, program, ghosts>>
    /\ Answer(Command.by, "ok", Nobody)

CloseTab ==
    /\ Runs("closes") /\ Closable(Command.tab) /\ Closed(Command.tab)
    /\ ExpireActive
    /\ UNCHANGED <<isAsync, document, surprises, program, ghosts>>
    /\ Answer(Command.by, "ok", Nobody)

\* The command fails in the engine for a reason of its own, before or after a part of it.
Refuse ==
    /\ Selected(Command)
    /\ \/ SameTabs /\ KeepRefs /\ UNCHANGED surprises
       \/ PartlyDone(Command) /\ (ExpireActive \/ KeepRefs) /\ Surprise
    /\ UNCHANGED <<isAsync, document, program, ghosts>>
    /\ Answer(Command.by, "other", Nobody)

\* The engine is locked from the selection of a scope to the end of its command.
Unlocked == \A n \in DOMAIN queue : ~queue[n].checked

\* A page or a frame moves to another document by itself.  The maintenance of the
\* engine may handle the event, when no command holds the engine, and expire the refs.
DocumentMoves(d) ==
    /\ d \in openTabs \union attached /\ document[d] < MaxMoves
    /\ document' = [document EXCEPT ![d] = @ + 1]
    /\ attached' = attached \ FramesIn(d)
    /\ KeepRefs \/ Expire
    /\ Unlocked \/ KeepRefs
    /\ Surprise
    /\ missed' = (missed \/ generation' # generation)
    /\ UNCHANGED <<isAsync, tabs, top, wire, program, ghosts>>

\* It finds that a tab is gone.  The loss of the last one, the end of the browser, is left out.
LosesTab ==
    /\ Unlocked /\ Surprise
    /\ \E t \in TargetIds : Closable(t) /\ Closed(t)
    /\ Expire \/ KeepRefs
    /\ missed' = (missed \/ top' # top \/ generation' # generation)
    /\ UNCHANGED <<isAsync, document, wire, program, ghosts>>

-----------------------------------------------------------------------------
(* A caller takes up its answer.                                            *)

\* Mutant of Recorded: only answers to commands that succeeded are recorded.
RecordedWhenOk(answer) ==
    IF answer.code = "ok"
    THEN knownGeneration' = answer.generation /\ knownTarget' = answer.target
    ELSE UNCHANGED <<knownGeneration, knownTarget>>

\* CommandState.record_metadata.
Recorded(answer) ==
    /\ knownGeneration' = IF answer.generation = Unsaid THEN knownGeneration ELSE answer.generation
    /\ knownTarget' = IF answer.target = Nobody THEN knownTarget ELSE answer.target

\* _bind_target, or _map_error on a failure: a late-bound handle gets its target.
BindTarget(c, answer) ==
    IF call[c].via = "early" /\ early = Nobody /\ answer.target # Nobody
    THEN early' = knownTarget' /\ bound' = [to |-> knownTarget', ran |-> answer.target]
    ELSE UNCHANGED <<early, bound>>

\* Mutant of ResultScope: a result is of the target the handle was made with.
HandleScope(c, answer) == call[c].scope

\* result_scope: the target of the answer, the frame of the handle.
ResultScope(c, answer) == Scope(answer.target, call[c].scope.frame)

Captured(c, answer) ==
    [scope |-> ResultScope(c, answer), generation |-> answer.generation,
     id |-> answer.data.id, at |-> answer.data.at]

Taken(c) == answers # << >> /\ Head(answers).to = c /\ answers' = Tail(answers)

Accepts(c, answer) == Recorded(answer) /\ BindTarget(c, answer)

Done(c) == call' = [call EXCEPT ![c] = NoCall]

Goes(c, does, effect, scope, tab) ==
    /\ call' = [call EXCEPT ![c].does = does, ![c].scope = scope]
    /\ Send(c, effect, scope, Nobody, tab)

\* Commands without a result of their own, and failures.
ReturnPlain(c) ==
    /\ Taken(c)
    /\ LET answer == Head(answers)
       IN  /\ answer.code # "ok" \/ call[c].does \in {"runs", "navigates", "opens", "switches", "closes"}
           /\ Accepts(c, answer)
    /\ Done(c)
    /\ UNCHANGED <<isAsync, engineState, queue, handles, snapshot, calls, hit, missed>>

\* observe, and the refresh that ends an action.
ReturnSnapshot(c) ==
    /\ Taken(c) /\ Head(answers).code = "ok" /\ call[c].does \in {"observes", "refreshes"}
    /\ Accepts(c, Head(answers))
    /\ snapshot' = [snapshot EXCEPT ![c] = Captured(c, Head(answers))]
    /\ Done(c)
    /\ UNCHANGED <<isAsync, engineState, queue, handles, calls, hit, missed>>

\* frames.get: a frame of the document asked; tabs.get: an open tab.
ReturnHandle(c) ==
    /\ Taken(c) /\ Head(answers).code = "ok" /\ call[c].does \in {"frames", "lists"}
    /\ Accepts(c, Head(answers))
    /\ LET answer == Head(answers)
           found == IF call[c].does = "lists"
                    THEN {Scope(t, Nobody) : t \in answer.data}
                    ELSE {Scope(answer.target, f) : f \in {g \in answer.data :
                              call[c].scope.frame = Nobody /\ FrameOf[g] = answer.target}}
       IN  handles' \in IF found = {} THEN {handles} ELSE {[handles EXCEPT ![c] = h] : h \in found}
    /\ Done(c)
    /\ UNCHANGED <<isAsync, engineState, queue, snapshot, calls, hit, missed>>

\* Mutant of RefreshScope: the active tab is observed again.
RefreshActive(c) == Scope(Nobody, Nobody)

\* Ref.refresh sends through the executor of the ref's document.
RefreshScope(c) == snapshot[c].scope

\* Ref._act: the document of the ref is observed again.
ReturnAct(c) ==
    /\ Taken(c) /\ Head(answers).code = "ok" /\ call[c].does = "acts"
    /\ Accepts(c, Head(answers))
    /\ Goes(c, "refreshes", "observes", RefreshScope(c), Nobody)
    /\ UNCHANGED <<isAsync, engineState, handles, snapshot, calls, hit, missed>>

\* switch(), before the navigation.
Reuse(c) == Goes(c, "reuses", "switches", Unbound, call[c].tab)

\* _open_from_tabs: the labelled tab is switched to, or a new one opened.
ReturnFound(c) ==
    /\ Taken(c) /\ Head(answers).code = "ok" /\ call[c].does = "finds"
    /\ Accepts(c, Head(answers))
    /\ IF call[c].tab \in Head(answers).data
       THEN Reuse(c)
       ELSE Goes(c, "opens", "opens", Unbound, Nobody)
    /\ UNCHANGED <<isAsync, engineState, handles, snapshot, calls, hit, missed>>

\* _navigate_reused: the tab that is active then is navigated.
ReturnSwitched(c) ==
    /\ Taken(c) /\ Head(answers).code = "ok" /\ call[c].does = "reuses"
    /\ Accepts(c, Head(answers))
    /\ Goes(c, "renavigates", "navigates", Unbound, Nobody)
    /\ UNCHANGED <<isAsync, engineState, handles, snapshot, calls, hit, missed>>

ReturnReused(c) ==
    /\ Taken(c) /\ Head(answers).code = "ok" /\ call[c].does = "renavigates"
    /\ Accepts(c, Head(answers))
    /\ Done(c)
    /\ UNCHANGED <<isAsync, engineState, queue, handles, snapshot, calls, hit, missed>>

Calls(c) ==
    /\ Ready(c) /\ calls < MaxCalls
    /\ CallPage(c) \/ CallHandle(c) \/ CallBrowser(c) \/ CallRef(c) \/ CallOpen(c)

\* One command at a time, with a browser.
Serves ==
    /\ queue # << >> /\ openTabs # {}
    /\ \/ RejectStale \/ RejectTarget \/ SwitchFirst \/ SwitchFails \/ RejectDetached \/ Refuse
       \/ RunPlain \/ ObserveDocument \/ ActOnRef \/ NavigateTop \/ OpenTab \/ SwitchTab \/ CloseTab

DocumentsNext ==
    \/ \E c \in Callers :
           \/ Calls(c) \/ Cancel(c) \/ Interrupt(c)
           \/ ReturnPlain(c) \/ ReturnSnapshot(c) \/ ReturnHandle(c) \/ ReturnAct(c)
           \/ ReturnFound(c) \/ ReturnSwitched(c) \/ ReturnReused(c)
    \/ LaunchBrowser \/ Serves \/ LosesTab
    \/ queue # << >> /\ (Deadline \/ DeadlineFirst)
    \/ \E d \in Contexts : DocumentMoves(d)

DocumentsSpec == DocumentsInit /\ [][DocumentsNext]_documentVars

-----------------------------------------------------------------------------
(* Properties *)

DocumentsTypeOK ==
    /\ tabs \in [TargetIds -> {"new", "open", "closed"}]
    /\ top \in openTabs \union {Nobody} /\ (top = Nobody <=> openTabs = {})
    /\ attached \subseteq {f \in FrameIds : FrameOf[f] \in openTabs}
    /\ mapped \in 0 .. Len(named)
    /\ knownTarget \in TargetIds \union {Nobody} /\ early \in TargetIds \union {Nobody}
    /\ \A c \in Callers : handles[c] \in Scopes \union {Nobody}
    \* Every operation under way waits for exactly one answer.
    /\ \A c \in Callers :
          Cardinality({n \in DOMAIN queue : queue[n].by = c})
        + Cardinality({n \in DOMAIN answers : answers[n].to = c}) = IF AtWork(c) THEN 1 ELSE 0

\* A ref acts on the document its snapshot was taken of, whatever tabs, frames
\* and documents other callers and the page went through (docs/concepts/evidence.md).
RefHitsItsSnapshot == hit # Nobody => hit.got = hit.wanted

\* A snapshot names the tab and the frame it was taken of, and a page handle taken
\* before the launch is bound to the tab its first answered command ran on
\* (commands.py:92-102, 128-162).
AnswersNameTheirTarget ==
    /\ \A c \in Callers :
          snapshot[c] # Nobody =>
              LET scope == snapshot[c].scope
              IN  IF scope.frame = Nobody
                  THEN snapshot[c].at[1] = scope.target
                  ELSE snapshot[c].at[1] = scope.frame /\ FrameOf[scope.frame] = scope.target
    /\ bound # Nobody => bound.to = bound.ran

\* The snapshots before and after an action are of one tab and one frame
\* (evidence/transitions.py:46-64).
EvidenceFromOneDocument ==
    [][\A c \in Callers :
          call[c].does = "refreshes" /\ snapshot'[c] # snapshot[c] =>
              /\ snapshot'[c].scope = snapshot[c].scope
              /\ snapshot'[c].at[1] = snapshot[c].at[1]]_documentVars

\* Between operations the program knows the engine's active tab and generation, once
\* it knows any: each answer of a dispatch, a failure's as well, makes up for all that
\* no answer told before it, and those without metadata spoil nothing.  Only what is
\* untold since the last of them is out of its sight: a tab selected by a command that
\* then failed or met its deadline, what the browser did by itself, and an answer lost
\* to a cancellation (state.py:53-61, session.rs:86-98, scope.rs:30-57, engine.rs:54-75).
KnownIsCurrent ==
    knownTarget # Nobody /\ ~missed /\ (\A c \in Callers : ~AtWork(c)) =>
        knownTarget = top /\ knownGeneration = generation

=============================================================================
