------------------------------- MODULE Operations -------------------------------
(***************************************************************************)
(* Operations made of several commands, any of which may need to be        *)
(* confirmed.  The engine then holds the command under an id, the call     *)
(* raises ConfirmationRequired, and every caller on the way up adds what   *)
(* it still had to do to the error's PendingAction: its result by map, its *)
(* error handling by map_error.  Confirming the pending action carries the *)
(* command out and goes on from there.                                     *)
(*                                                                         *)
(* An operation is its stages in order.  What is left of it when a stage   *)
(* asks is that stage's number and the translations its pending action     *)
(* retains; the try statements around the stage are gone by then.  Sync    *)
(* and async operations have the same stages.  The document operated on is *)
(* a frame, the case in which errors are translated.                       *)
(***************************************************************************)
EXTENDS Naturals, Sequences, FiniteSets

CONSTANTS
    Instances,      \* operations the program starts
    Users,          \* threads or tasks that run operations and confirm them
    Ids,            \* confirmation ids
    Nil

Codes == {"timeout", "frame_gone", "stale_ref", "parse"}

Translations == {"scope", "stale"}

\* What an operation ends with.
Result == [is |-> "result", code |-> "ok"]

Denied == [is |-> "denied", code |-> "ok"]

Errors == [is : {"BrowserError", "NativeParseError", "FrameLookupError", "StaleRefError",
                 "ActionTransitionError"}, code : Codes]

\* Where a user is in an operation: the stage, the translations retained for it,
\* the try it is outside of, and the confirmation being carried out.
Places == [of : Instances \union {Nil}, at : Nat, retained : SUBSET Translations,
           outside : {Nil, "wait", "snapshot"}, id : Ids \union {Nil}]

PendingActions == [of : Instances, at : Nat \ {0}, retained : SUBSET Translations]

ASSUME OperationsAssumption ==
    /\ Nil \notin Instances \union Users \union Ids
    /\ Nil \notin Errors \union {Result, Denied}
    /\ Nil \notin PendingActions
    /\ Nil \notin {"wait", "snapshot"}

VARIABLES
    op,             \* instance -> the operation it is
    run,            \* user -> where in an instance it is
    pending,        \* id -> the PendingAction the program was handed
    held,           \* the id of the command the engine holds, if it holds one
    ran,            \* instance -> the stages carried out, in order
    asked,          \* instance -> the stages that asked to be confirmed
    outcome         \* instance -> what its caller got in the end

operationVars == <<op, run, pending, held, ran, asked, outcome>>

-----------------------------------------------------------------------------
(* The operations.  A bound executor translates the errors of the frame's   *)
(* scope, a ref those of its staleness; the evidence stages of a transition *)
(* report their failures as ActionTransitionError, each from one try.       *)

Unscoped(command) == [does |-> command, named |-> {}, try |-> Nil]

OnDocument(command) == [does |-> command, named |-> {"scope"}, try |-> Nil]

OnRef(command) == [does |-> command, named |-> {"scope", "stale"}, try |-> Nil]

Evidence(command, stage) == [does |-> command, named |-> {"scope"}, try |-> stage]

\* Mutant of Act: the snapshot after the action is outside the try.
ActUntried == << OnRef("act"), Evidence("wait", "wait"), Evidence("wait", "wait"),
                 OnDocument("snapshot") >>

\* Ref.click, fill, type, ...: transition, _result, _capture_result.
Act == << OnRef("act"), Evidence("wait", "wait"), Evidence("wait", "wait"),
          Evidence("snapshot", "snapshot") >>

\* Ref.text, attribute, is_visible, ...
ReadRef == << OnRef("gettext") >>

\* Ref.content_frame: the frame tree, then the frame of the owner element.
ContentFrame == << OnRef("frame"), OnRef("frame") >>

\* Ref.refresh, Snapshot.diff, Document.observe, screenshot, evaluate, ...
Observe == << OnDocument("snapshot") >>

\* Frames.get with a selector: the tree, the number of matches, the element.
GetFrame == << OnDocument("frame"), OnDocument("evaluate"), OnDocument("frame") >>

\* Tabs.open with the label of an open tab.
ReuseTab == << Unscoped("tab_list"), Unscoped("tab_switch"), Unscoped("navigate") >>

\* A command that needs the browser, in a session that has not launched one.
FirstCommand == << OnDocument("launch"), OnDocument("navigate") >>

Operations == [click |-> Act, text |-> ReadRef, contentFrame |-> ContentFrame,
               observe |-> Observe, getFrame |-> GetFrame, openTab |-> ReuseTab,
               first |-> FirstCommand]

Stages(i) == Operations[op[i]]

-----------------------------------------------------------------------------

\* _scope_error and stale_error.
Translated(error, named) ==
    CASE error.is = "BrowserError" /\ error.code = "frame_gone" /\ "scope" \in named
            -> [error EXCEPT !.is = "FrameLookupError"]
      [] error.is = "BrowserError" /\ error.code = "stale_ref" /\ "stale" \in named
            -> [error EXCEPT !.is = "StaleRefError"]
      [] OTHER -> error

Raised(code) == [is |-> IF code = "parse" THEN "NativeParseError" ELSE "BrowserError",
                 code |-> code]

\* The error of the stage, raised to the caller that began or resumed the
\* operation: translated by the executor, reported by the stage's try unless the
\* operation was resumed inside it, translated by the pending action resumed.
Reported(r, code) ==
    LET stage == Stages(r.of)[r.at]
        named == Translated(Raised(code), stage.named)
    IN  IF stage.try = Nil \/ stage.try = r.outside
        THEN Translated(named, r.retained)
        ELSE [is |-> "ActionTransitionError", code |-> code]

AtRest == [of |-> Nil, at |-> 0, retained |-> {}, outside |-> Nil, id |-> Nil]

OperationsInit ==
    /\ op \in [Instances -> DOMAIN Operations]
    /\ run = [u \in Users |-> AtRest]
    /\ pending = [c \in Ids |-> Nil]
    /\ held = {}
    /\ ran = [i \in Instances |-> << >>]
    /\ asked = [i \in Instances |-> {}]
    /\ outcome = [i \in Instances |-> Nil]

Started(i) == asked[i] # {} \/ ran[i] # << >> \/ outcome[i] # Nil \/ \E u \in Users : run[u].of = i

Begin(u, i) ==
    /\ run[u] = AtRest
    /\ ~Started(i)
    /\ run' = [run EXCEPT ![u] = [AtRest EXCEPT !.of = i, !.at = 1]]
    /\ UNCHANGED <<op, pending, held, ran, asked, outcome>>

Finish(u, i, answer) ==
    /\ run' = [run EXCEPT ![u] = AtRest]
    /\ outcome' = [outcome EXCEPT ![i] = answer]

\* A stage was carried out: on with the next one, or the result.
GoOn(u, i) ==
    /\ ran' = [ran EXCEPT ![i] = Append(@, run[u].at)]
    /\ IF run[u].at = Len(Stages(i))
       THEN Finish(u, i, Result)
       ELSE /\ run' = [run EXCEPT ![u].at = @ + 1, ![u].id = Nil]
            /\ UNCHANGED outcome

\* A stage was carried out but its answer cannot be decoded.
GoWrong(u, i, error) ==
    /\ ran' = [ran EXCEPT ![i] = Append(@, run[u].at)]
    /\ Finish(u, i, error)

\* Mutant of Pause: the pending action is not given the error translation.
PauseUnmapped(u, i, c, retained) ==
    /\ pending[c] = Nil
    /\ pending' = [pending EXCEPT ![c] = [of |-> i, at |-> run[u].at, retained |-> {}]]
    /\ asked' = [asked EXCEPT ![i] = @ \union {run[u].at}]
    /\ run' = [run EXCEPT ![u] = AtRest]

\* ConfirmationRequired leaves the operation to a pending action under a new id.
Pause(u, i, c, retained) ==
    /\ pending[c] = Nil
    /\ pending' = [pending EXCEPT ![c] = [of |-> i, at |-> run[u].at, retained |-> retained]]
    /\ asked' = [asked EXCEPT ![i] = @ \union {run[u].at}]
    /\ run' = [run EXCEPT ![u] = AtRest]

-----------------------------------------------------------------------------
(* A command sent by the operation itself.                                  *)

Commanding(u) == run[u].of # Nil /\ run[u].id = Nil

CommandDone(u) ==
    /\ Commanding(u)
    /\ GoOn(u, run[u].of)
    /\ UNCHANGED <<op, pending, held, asked>>

CommandFails(u, code) ==
    /\ Commanding(u)
    /\ IF code = "parse"
       THEN GoWrong(u, run[u].of, Reported(run[u], code))
       ELSE Finish(u, run[u].of, Reported(run[u], code)) /\ UNCHANGED ran
    /\ UNCHANGED <<op, pending, held, asked>>

\* map_error by the executor and the ref, then by the pending action resumed.
RetainedBy(u) == Stages(run[u].of)[run[u].at].named \union run[u].retained

CommandAsks(u, c) ==
    /\ Commanding(u)
    /\ Pause(u, run[u].of, c, RetainedBy(u))
    /\ held' = {c}
    /\ UNCHANGED <<op, ran, outcome>>

-----------------------------------------------------------------------------
(* PendingAction *)

\* confirm(), at any time and any number of times.
Confirm(u, c) ==
    /\ run[u] = AtRest /\ pending[c] # Nil
    /\ run' = [run EXCEPT ![u] = [of |-> pending[c].of, at |-> pending[c].at,
                                  retained |-> pending[c].retained,
                                  outside |-> Stages(pending[c].of)[pending[c].at].try, id |-> c]]
    /\ UNCHANGED <<op, pending, held, ran, asked, outcome>>

Confirming(u) == run[u].of # Nil /\ run[u].id # Nil

\* Mutant of Consumed: a confirmation can be replayed.
Kept(c) == held

\* The engine takes the command it holds when it is confirmed or denied.
Consumed(c) == held \ {c}

ConfirmDone(u) ==
    /\ Confirming(u) /\ run[u].id \in held
    /\ GoOn(u, run[u].of)
    /\ held' = Consumed(run[u].id)
    /\ UNCHANGED <<op, pending, asked>>

\* Outside every try of the operation, its error is translated only by confirm().
ConfirmFails(u, code) ==
    /\ Confirming(u) /\ run[u].id \in held
    /\ LET error == Translated(Raised(code), run[u].retained)
       IN  IF code = "parse"
           THEN GoWrong(u, run[u].of, error)
           ELSE Finish(u, run[u].of, error) /\ UNCHANGED ran
    /\ held' = Consumed(run[u].id)
    /\ UNCHANGED <<op, pending, asked>>

\* The command passes one gate and is held at the next under its own id; the new
\* pending action gets the decoder, the completion and the translations of the old.
ConfirmAsks(u) ==
    /\ Confirming(u) /\ run[u].id \in held
    /\ asked' = [asked EXCEPT ![run[u].of] = @ \union {run[u].at}]
    /\ run' = [run EXCEPT ![u] = AtRest]
    /\ UNCHANGED <<op, pending, held, ran, outcome>>

\* The id was confirmed, denied or replaced before, or the policy has changed and
\* the command stays held: the engine refuses.
ConfirmRefused(u) ==
    /\ Confirming(u)
    /\ run' = [run EXCEPT ![u] = AtRest]
    /\ UNCHANGED <<op, pending, held, ran, asked, outcome>>

Deny(u, c) ==
    /\ run[u] = AtRest /\ c \in held
    /\ held' = Consumed(c)
    /\ outcome' = [outcome EXCEPT ![pending[c].of] = Denied]
    /\ UNCHANGED <<op, run, pending, ran, asked>>

OperationsNext ==
    \E u \in Users :
        \/ \E i \in Instances : Begin(u, i)
        \/ CommandDone(u) \/ ConfirmDone(u) \/ ConfirmAsks(u) \/ ConfirmRefused(u)
        \/ \E code \in Codes : CommandFails(u, code) \/ ConfirmFails(u, code)
        \/ \E c \in Ids : CommandAsks(u, c) \/ Confirm(u, c) \/ Deny(u, c)

OperationsSpec == OperationsInit /\ [][OperationsNext]_operationVars

-----------------------------------------------------------------------------
(* Properties *)

\* What is run, held and handed out, and what each operation has come to.
OperationsTypeOK ==
    /\ op \in [Instances -> DOMAIN Operations]
    /\ run \in [Users -> Places]
    /\ pending \in [Ids -> PendingActions \union {Nil}]
    /\ held \subseteq {c \in Ids : pending[c] # Nil}
    /\ ran \in [Instances -> Seq(Nat)]
    /\ asked \in [Instances -> SUBSET Nat]
    /\ outcome \in [Instances -> Errors \union {Nil, Result, Denied}]

\* However often the pending actions of an operation are confirmed, and by
\* whom, each stage is carried out at most once and after the ones before it,
\* and a result means that all were: the wait, the next snapshot and the
\* difference too (pending.py:33-52, evidence/transitions.py:20-74,
\* development_docs/safety.md:43).
StagesRunInOrder ==
    \A i \in Instances :
        /\ \A n \in DOMAIN ran[i] : ran[i][n] = n
        /\ outcome[i] = Result => Len(ran[i]) = Len(Stages(i))

\* No caller sees the engine's own code for a frame that is gone or a ref that
\* is stale where the executor or the ref has an error for it, be it after any
\* number of confirmations (commands.py:128-155, ref.py:299-313, pending.py:54-72).
ErrorsAreTranslated ==
    \A i \in Instances :
        outcome[i] \in Errors /\ outcome[i].is = "BrowserError" =>
            /\ outcome[i].code = "frame_gone" => op[i] = "openTab"
            /\ outcome[i].code = "stale_ref" => op[i] \notin {"text", "contentFrame"}

\* What failed after the action took effect, when at most the action itself had
\* to be confirmed, says so (evidence/transitions.py:32-74).
LateFailuresAreStaged ==
    \A i \in Instances :
        /\ op[i] = "click" /\ outcome[i] \in Errors
        /\ Len(ran[i]) >= 1 /\ asked[i] \subseteq {1}
        => \/ outcome[i].is = "ActionTransitionError"
           \/ ran[i] = <<1>> /\ outcome[i].code = "parse"

\* The same whatever was confirmed, as docs/concepts/evidence.md:60 has it.
EveryLateFailureIsStaged ==
    \A i \in Instances :
        op[i] = "click" /\ outcome[i] \in Errors /\ Len(ran[i]) >= 1 /\ outcome[i].code # "parse"
        => outcome[i].is = "ActionTransitionError"

=============================================================================
