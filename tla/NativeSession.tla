------------------------------ MODULE NativeSession ------------------------------
(***************************************************************************)
(* The native session behind one NativeBrowser: calls from several Python  *)
(* threads, a maintenance task and the destructor share one engine behind  *)
(* a fair asynchronous mutex (session.rs, maintenance.rs, engine.rs).  A   *)
(* call waits for its token (cancellation.rs) and its deadline while it    *)
(* waits for the mutex and while the engine works; an interruption drops   *)
(* the dispatch half-way and expires the snapshot refs.                    *)
(*                                                                         *)
(* Engine::execute is agent-browser's own code.  Here a dispatch may stay  *)
(* without an answer for ever, a command on a browser that is gone ends,   *)
(* and close and shutdown end.                                             *)
(***************************************************************************)
EXTENDS Naturals, Sequences, FiniteSets, SequencesExt

CONSTANTS
    Calls,          \* calls of execute_json
    Maintenance,    \* the maintenance task, as a user of the engine
    Dropper,        \* the destructor, as a user of the engine
    None

ASSUME NativeAssumption ==
    /\ IsFiniteSet(Calls)
    /\ Maintenance \notin Calls /\ Dropper \notin Calls /\ Maintenance # Dropper
    /\ None \notin Nat

VARIABLES
    call,        \* per call: its step, command, answer and ref
    token,       \* per call: CancellationState and how far cancel() is
    line,        \* users of the engine in the mutex' order; the head holds it
    browser,     \* the browser process: "none", "up" or "gone" (it died)
    generation,  \* RefMap.generation
    snapshot,    \* the generation of the refs the program holds
    dashboard,   \* Session.dashboard, and whether its stream and helpers live
    upkeep,      \* the maintenance task
    teardown,    \* Drop
    halfDone     \* history: generations whose page a dropped dispatch may have changed

nativeVars == <<call, token, line, browser, generation, snapshot, dashboard,
                upkeep, teardown, halfDone>>

-----------------------------------------------------------------------------
(* The parts of the state *)

\* Each call is interrupted at most once, so no behaviour uses more generations.
Generations == 0..Cardinality(Calls)

Kinds == {"snapshot", "act", "close"}

Fresh == [step |-> "new", kind |-> "act", late |-> FALSE,
          answer |-> "none", reported |-> None, ref |-> None, touched |-> FALSE]

CallRecord == [step: {"new", "armed", "waiting", "running", "release", "settle", "answered"},
               kind: Kinds, late: BOOLEAN,
               answer: {"none", "done", "failed", "stale", "interrupted"},
               reported: Generations \union {None}, ref: Generations \union {None},
               touched: BOOLEAN]

Token == [cancelled: BOOLEAN, enabled: BOOLEAN, woken: BOOLEAN, cancel: {"no", "stored", "done"}]

NoToken == [cancelled |-> FALSE, enabled |-> FALSE, woken |-> FALSE, cancel |-> "no"]

Users == Calls \union {Maintenance, Dropper}

NativeTypeOK ==
    /\ call \in [Calls -> CallRecord]
    /\ token \in [Calls -> Token]
    /\ line \in Seq(Users) /\ IsInjective(line)
    /\ browser \in {"none", "up", "gone"}
    /\ generation \in Generations
    /\ snapshot \in Generations \union {None}
    /\ dashboard \in [slot: BOOLEAN, live: BOOLEAN]
    /\ upkeep \in [step: {"idle", "wants", "stopped"}, told: BOOLEAN]
    /\ teardown \in {"no", "join", "disable", "shutdown", "dropped"}
    /\ halfDone \in SUBSET Generations

\* Session::new: the engine, its mutex and the maintenance task; the dashboard
\* is there if it was asked for.  The session may be in use, with a snapshot taken.
NativeInit ==
    /\ call \in [Calls -> {[Fresh EXCEPT !.kind = k] : k \in Kinds}]
    /\ token = [c \in Calls |-> NoToken]
    /\ line = <<>>
    /\ generation = 0
    /\ \/ browser = "none" /\ snapshot = None
       \/ browser = "up" /\ snapshot = generation
    /\ \E on \in BOOLEAN : dashboard = [slot |-> on, live |-> on]
    /\ upkeep = [step |-> "idle", told |-> FALSE]
    /\ teardown = "no"
    /\ halfDone = {}

Holds(u) == line # <<>> /\ Head(line) = u

\* An interruption the call would see when it is polled: its token's waiter was
\* woken, or its sleep is over.
Interrupted(c) == token[c].woken \/ call[c].late

-----------------------------------------------------------------------------
(* The token: cancelled() enables its waiter before it loads the flag, and  *)
(* cancel() stores the flag before it wakes the waiters.                    *)

Arm(c) ==
    /\ call[c].step = "new"
    /\ teardown = "no"
    /\ token' = [token EXCEPT ![c].enabled = TRUE]
    /\ call' = [call EXCEPT ![c].step = "armed", ![c].ref = snapshot]
    /\ UNCHANGED <<line, browser, generation, snapshot, dashboard, upkeep, teardown, halfDone>>

\* Mutant: the first poll does not look at the flag.
EnqueueBlind(c) ==
    /\ call[c].step = "armed"
    /\ call' = [call EXCEPT ![c].step = "waiting"]
    /\ line' = Append(line, c)
    /\ UNCHANGED <<token, browser, generation, snapshot, dashboard, upkeep, teardown, halfDone>>

\* The first poll: a flag that is set answers at once, else the call queues up.
Enqueue(c) ==
    /\ call[c].step = "armed"
    /\ IF token[c].cancelled
       THEN /\ call' = [call EXCEPT ![c].step = "answered", ![c].answer = "interrupted"]
            /\ UNCHANGED line
       ELSE /\ call' = [call EXCEPT ![c].step = "waiting"]
            /\ line' = Append(line, c)
    /\ UNCHANGED <<token, browser, generation, snapshot, dashboard, upkeep, teardown, halfDone>>

StoreCancel(c) ==
    /\ token[c].cancel = "no"
    /\ token' = [token EXCEPT ![c].cancelled = TRUE, ![c].cancel = "stored"]
    /\ UNCHANGED <<call, line, browser, generation, snapshot, dashboard, upkeep, teardown, halfDone>>

WakeWaiters(c) ==
    /\ token[c].cancel = "stored"
    /\ token' = [token EXCEPT ![c].cancel = "done", ![c].woken = token[c].enabled]
    /\ UNCHANGED <<call, line, browser, generation, snapshot, dashboard, upkeep, teardown, halfDone>>

\* `_timeoutMs` runs out.
DeadlineEnds(c) ==
    /\ ~call[c].late
    /\ call[c].step \in {"waiting", "running"}
    /\ call' = [call EXCEPT ![c].late = TRUE]
    /\ UNCHANGED <<token, line, browser, generation, snapshot, dashboard, upkeep, teardown, halfDone>>

-----------------------------------------------------------------------------
(* Session::execute *)

\* Interrupted before it got the engine: the call leaves the line without effect.
AbandonWait(c) ==
    /\ call[c].step = "waiting"
    /\ Interrupted(c)
    /\ call' = [call EXCEPT ![c].step = "answered", ![c].answer = "interrupted"]
    /\ \E i \in DOMAIN line : line[i] = c /\ line' = RemoveAt(line, i)
    /\ UNCHANGED <<token, browser, generation, snapshot, dashboard, upkeep, teardown, halfDone>>

\* The engine's turn has come.  A select polls the interruption first.
Start(c) ==
    /\ call[c].step = "waiting"
    /\ Holds(c)
    /\ ~Interrupted(c)
    /\ call' = [call EXCEPT ![c].step = "running", ![c].touched = TRUE]
    /\ UNCHANGED <<token, line, browser, generation, snapshot, dashboard, upkeep, teardown, halfDone>>

\* invalidate_refs
NextGeneration == generation + 1

\* Mutant: the refs stay valid.
InterruptQuietly(c) ==
    /\ call[c].step = "running"
    /\ Interrupted(c)
    /\ halfDone' = halfDone \union {generation}
    /\ call' = [call EXCEPT ![c].step = "answered", ![c].answer = "interrupted"]
    /\ line' = Tail(line)
    /\ UNCHANGED <<token, browser, generation, snapshot, dashboard, upkeep, teardown>>

\* The dispatch is dropped; what it sent to the page may have taken effect.
Interrupt(c) ==
    /\ call[c].step = "running"
    /\ Interrupted(c)
    /\ halfDone' = halfDone \union {generation}
    /\ generation' = NextGeneration
    /\ call' = [call EXCEPT ![c].step = "answered", ![c].answer = "interrupted",
                            ![c].reported = NextGeneration]
    /\ line' = Tail(line)
    /\ UNCHANGED <<token, browser, snapshot, dashboard, upkeep, teardown>>

\* What a dispatch that ends may answer.  A command that needs a browser starts
\* one if there is none and fails if it has died; a ref of another generation is
\* stale; a close may report that saving failed.
Answers(c) ==
    CASE call[c].kind = "close" -> {"done", "failed"}
      [] call[c].kind # "close" /\ browser = "gone" -> {"failed"}
      [] call[c].kind = "act" /\ browser # "gone" /\ call[c].ref \notin {None, generation} -> {"stale"}
      [] OTHER -> {"done"}

Finish(c) ==
    /\ call[c].step = "running"
    /\ ~Interrupted(c)
    /\ \E a \in Answers(c) :
          /\ call' = [call EXCEPT ![c].answer = a,
                 ![c].step = IF call[c].kind = "close" /\ a = "done" THEN "settle" ELSE "answered"]
          /\ snapshot' = IF call[c].kind = "snapshot" /\ a = "done" THEN generation ELSE snapshot
    /\ line' = Tail(line)
    /\ browser' = IF call[c].kind = "close" THEN "none" ELSE IF browser = "none" THEN "up" ELSE browser
    /\ UNCHANGED <<token, generation, dashboard, upkeep, teardown, halfDone>>

-----------------------------------------------------------------------------
(* shutdown_dashboard, for a close that succeeded: it takes the sidecar out *)
(* of its slot, stops the stream under the engine's mutex and cleans up.    *)

TakeSidecar(c) ==
    /\ call[c].step = "settle"
    /\ dashboard' = [dashboard EXCEPT !.slot = FALSE]
    /\ IF dashboard.slot
       THEN call' = [call EXCEPT ![c].step = "release"] /\ line' = Append(line, c)
       ELSE call' = [call EXCEPT ![c].step = "answered"] /\ UNCHANGED line
    /\ UNCHANGED <<token, browser, generation, snapshot, upkeep, teardown, halfDone>>

ReleaseSidecar(c) ==
    /\ call[c].step = "release"
    /\ Holds(c)
    /\ dashboard' = [dashboard EXCEPT !.live = FALSE]
    /\ line' = Tail(line)
    /\ call' = [call EXCEPT ![c].step = "answered"]
    /\ UNCHANGED <<token, browser, generation, snapshot, upkeep, teardown, halfDone>>

-----------------------------------------------------------------------------
(* The maintenance task *)

Tick ==
    /\ upkeep.step = "idle"
    /\ upkeep' = [upkeep EXCEPT !.step = "wants"]
    /\ line' = Append(line, Maintenance)
    /\ UNCHANGED <<call, token, browser, generation, snapshot, dashboard, teardown, halfDone>>

\* Mutant: a tick does not look at the browser's process.
MaintainBlind ==
    /\ Holds(Maintenance)
    /\ line' = Tail(line)
    /\ upkeep' = [upkeep EXCEPT !.step = "idle"]
    /\ UNCHANGED <<call, token, browser, generation, snapshot, dashboard, teardown, halfDone>>

\* Engine::maintain closes a browser whose process has exited; otherwise it only
\* drains events and saves.
Maintain ==
    /\ Holds(Maintenance)
    /\ browser' = IF browser = "gone" THEN "none" ELSE browser
    /\ line' = Tail(line)
    /\ upkeep' = [upkeep EXCEPT !.step = "idle"]
    /\ UNCHANGED <<call, token, generation, snapshot, dashboard, teardown, halfDone>>

Break ==
    /\ upkeep = [step |-> "idle", told |-> TRUE]
    /\ upkeep' = [upkeep EXCEPT !.step = "stopped"]
    /\ UNCHANGED <<call, token, line, browser, generation, snapshot, dashboard, teardown, halfDone>>

BrowserDies ==
    /\ browser = "up"
    /\ browser' = "gone"
    /\ UNCHANGED <<call, token, line, generation, snapshot, dashboard, upkeep, teardown, halfDone>>

-----------------------------------------------------------------------------
(* Drop: no call can be running, since each of them borrows the session.    *)

\* Mutant: the maintenance task is not told to stop.
DropUntold ==
    /\ teardown = "no"
    /\ \A c \in Calls : call[c].step \in {"new", "answered"}
    /\ teardown' = "join"
    /\ UNCHANGED <<call, token, line, browser, generation, snapshot, dashboard, upkeep, halfDone>>

DropBegin ==
    /\ teardown = "no"
    /\ \A c \in Calls : call[c].step \in {"new", "answered"}
    /\ teardown' = "join"
    /\ upkeep' = [upkeep EXCEPT !.told = TRUE]
    /\ UNCHANGED <<call, token, line, browser, generation, snapshot, dashboard, halfDone>>

\* Mutant: the destructor does not wait for the maintenance task.
DropUnjoined ==
    /\ teardown = "join"
    /\ teardown' = IF dashboard.slot THEN "disable" ELSE "shutdown"
    /\ dashboard' = [dashboard EXCEPT !.slot = FALSE]
    /\ line' = Append(line, Dropper)
    /\ UNCHANGED <<call, token, browser, generation, snapshot, upkeep, halfDone>>

\* The maintenance task was joined: take the sidecar, or go on to the engine.
DropJoined ==
    /\ teardown = "join"
    /\ upkeep.step = "stopped"
    /\ teardown' = IF dashboard.slot THEN "disable" ELSE "shutdown"
    /\ dashboard' = [dashboard EXCEPT !.slot = FALSE]
    /\ line' = Append(line, Dropper)
    /\ UNCHANGED <<call, token, browser, generation, snapshot, upkeep, halfDone>>

DropDisable ==
    /\ teardown = "disable"
    /\ Holds(Dropper)
    /\ teardown' = "shutdown"
    /\ dashboard' = [dashboard EXCEPT !.live = FALSE]
    /\ line' = Append(Tail(line), Dropper)
    /\ UNCHANGED <<call, token, browser, generation, snapshot, upkeep, halfDone>>

DropShutdown ==
    /\ teardown = "shutdown"
    /\ Holds(Dropper)
    /\ teardown' = "dropped"
    /\ browser' = "none"
    /\ line' = Tail(line)
    /\ UNCHANGED <<call, token, generation, snapshot, dashboard, upkeep, halfDone>>

NativeNext ==
    \/ \E c \in Calls :
          \/ Arm(c) \/ Enqueue(c) \/ AbandonWait(c) \/ Start(c) \/ Interrupt(c) \/ Finish(c)
          \/ StoreCancel(c) \/ WakeWaiters(c) \/ DeadlineEnds(c)
          \/ TakeSidecar(c) \/ ReleaseSidecar(c)
    \/ Tick \/ Maintain \/ Break \/ BrowserDies
    \/ DropBegin \/ DropJoined \/ DropDisable \/ DropShutdown

NativeSpec == NativeInit /\ [][NativeNext]_nativeVars

\* A woken or started step is taken, as the runtime polls what is ready; a dispatch
\* ends by itself only when it closes the browser or the browser is gone; the
\* maintenance task's select is random, so a shutdown it was told of is seen in the
\* end.  Nobody need call, cancel or drop.
NativeFairness ==
    /\ \A c \in Calls :
          /\ WF_nativeVars(Enqueue(c) \/ AbandonWait(c) \/ Start(c) \/ Interrupt(c))
          /\ WF_nativeVars(WakeWaiters(c))
          /\ WF_nativeVars(Finish(c) /\ (call[c].kind = "close" \/ browser = "gone"))
          /\ WF_nativeVars(TakeSidecar(c) \/ ReleaseSidecar(c))
    /\ WF_nativeVars(Tick) /\ WF_nativeVars(Maintain) /\ SF_nativeVars(Break)
    /\ WF_nativeVars(DropJoined \/ DropDisable \/ DropShutdown)

NativeFairSpec == NativeSpec /\ NativeFairness

-----------------------------------------------------------------------------
(* Properties *)

\* A ref the program took before a dispatch was dropped half-way never resolves
\* after it, whatever calls were queued in between (session.rs:92-97).
RefsExpireWithTheirPage ==
    [][\A c \in Calls :
          /\ call[c].kind = "act" /\ call[c].answer = "none" /\ call'[c].answer = "done"
          => call[c].ref \notin halfDone]_nativeVars

\* The answer to an interrupted call tells whether it reached the engine: it
\* carries a new generation exactly when it did (session.rs:86-97), on which the
\* controller's own expiry of refs relies.
InterruptionTells ==
    \A c \in Calls : call[c].answer = "interrupted" =>
        /\ call[c].touched <=> call[c].reported # None
        /\ call[c].touched => \A d \in Calls \ {c} : call[d].reported # call[c].reported

\* Once dropped, nothing uses the engine, and browser, stream and the dashboard's
\* helpers are gone, though they are released by different calls (session.rs:143-149).
DroppedLeavesNothing ==
    teardown = "dropped" =>
        /\ line = <<>> /\ upkeep.step = "stopped"
        /\ browser = "none" /\ ~dashboard.live

\* A call that is cancelled ends, wherever cancel() falls between enabling the
\* waiter, reading the flag and waiting, and even if the browser never answers.
CancelledCallEnds ==
    \A c \in Calls : token[c].cancel = "done" /\ call[c].step \in {"armed", "waiting", "running"}
                        ~> call[c].step \in {"release", "answered"}

\* A browser whose process has died is closed by a maintenance tick between
\* commands, or by the close of the session (engine.rs:54-61).
DeathIsNoticed == browser = "gone" ~> browser # "gone"

\* The destructor ends although maintenance may be waiting for the mutex.
DropEnds == teardown = "join" ~> teardown = "dropped"
=============================================================================
