---------------------------- MODULE AsyncSession ----------------------------
(***************************************************************************)
(* The asynchronous native session: transport/async_.py together with the  *)
(* close path of execution/controller_async.py.                            *)
(*                                                                         *)
(* Two threads share the state.  The event loop runs one task per native   *)
(* command, the tasks awaiting close(), the shared close task, and the     *)
(* callbacks the owner hands it (call_soon_threadsafe).  The owner thread  *)
(* holds the synchronous native session.  A loop step runs from one await  *)
(* to the next; it is split only where the owner can slip in between: a    *)
(* cancellation sets the command's event and token, and reads its          *)
(* `started` event afterwards.                                             *)
(***************************************************************************)
EXTENDS Naturals, Sequences, Functions

CONSTANTS
    Commands,      \* one element per call of AsyncNativeSession.execute
    CloseCommands, \* the calls whose action is "close": they carry no token
    Closers,       \* tasks that call AsyncController.close
    Shutdown,      \* the INTERNAL_SHUTDOWN_ACTION command of shutdown_native
    Stop,          \* the _STOP sentinel
    None           \* no command

ASSUME ConstantsAssumption ==
    /\ CloseCommands \subseteq Commands
    /\ Shutdown \notin Commands /\ Stop \notin Commands /\ None \notin Commands
    /\ Shutdown # Stop /\ Shutdown # None /\ Stop # None

Items == Commands \cup {Shutdown}

VARIABLES
    phase,      \* [Commands -> where the task of the call is]
    pending,    \* _pending_commands
    future,     \* [Items -> the state of the command's future]
    settled,    \* the items whose settled future is done
    marked,     \* the command just cancelled whose `started` is still to be read
    closer,     \* where the shared close task is
    sweep,      \* rest of the snapshot _cancel_pending_commands iterates over
    closeError, \* the close task ends with an exception
    waiter,     \* [Closers -> the caller's progress in close()]
    collected,  \* the session object was garbage collected
    posts,      \* the callbacks handed to the loop and not yet run
    queue,      \* _queue
    cancelled,  \* the commands whose `cancelled` event and token are set
    started,    \* the items whose `started` event is set
    owner,      \* the control state of the owner thread
    current,    \* the item the owner holds
    dispatched  \* history: the calls that entered native dispatch

callVars  == <<phase, pending, future, settled>>
closeVars == <<closer, sweep, closeError, waiter, collected>>
loopVars  == <<callVars, marked, closeVars, cancelled>>
ownerVars == <<started, owner, current, dispatched>>
vars      == <<loopVars, posts, queue, ownerVars>>

Finished == {"answered", "rejected", "cancelled"}
Sweeping == {"sweep", "resweep", "lastsweep"}

CarriesToken(c) == c \in Commands \ CloseCommands
Closed          == closer \notin {"unset", "created", "abandoned"}
CloseDone       == closer \in {"ended", "abandoned"}
LoopFree        == marked = None /\ closer \notin Sweeping
OwnerAlive      == owner \notin {"none", "exited", "failed"}
FutureDone(c)   == future[c] # "pending"
Callback        == [item : Items, value : {"answered", "rejected", "settled"}]
Post(c, value)  == [item |-> c, value |-> value]

TypeOK ==
    /\ phase \in [Commands -> {"idle", "preparing", "starting", "awaiting", "settling"}
                              \cup Finished]
    /\ pending \subseteq Commands
    /\ future \in [Items -> {"pending"} \cup Finished]
    /\ settled \subseteq Items
    /\ marked \in Commands \cup {None}
    /\ closer \in {"unset", "created", "shutdown", "join", "ended", "abandoned"}
               \cup Sweeping
    /\ sweep \subseteq Commands
    /\ closeError \in BOOLEAN
    /\ waiter \in [Closers -> {"idle", "waiting", "closed", "failed"}]
    /\ collected \in BOOLEAN
    /\ posts \in Seq(Callback)
    /\ queue \in Seq(Items \cup {Stop})
    /\ cancelled \subseteq Commands
    /\ started \subseteq Items
    /\ owner \in {"none", "constructing", "failed", "getting", "checked", "started",
                  "native", "exited"}
    /\ current \in Items \cup {None}
    /\ dispatched \subseteq Commands

Init ==
    /\ phase = [c \in Commands |-> "idle"]
    /\ future = [c \in Items |-> "pending"]
    /\ pending = {} /\ settled = {} /\ marked = None
    /\ closer = "unset" /\ sweep = {} /\ closeError = FALSE
    /\ waiter = [k \in Closers |-> "idle"]
    /\ collected = FALSE
    /\ posts = <<>> /\ queue = <<>> /\ cancelled = {} /\ started = {}
    /\ owner = "none" /\ current = None /\ dispatched = {}

-----------------------------------------------------------------------------
(* One native command: AsyncController._native_data, execute                *)

MoveTo(c, where) == phase' = [phase EXCEPT ![c] = where]

\* _native_data up to prepare_action_async: the open check, then an await.
Prepare(c) ==
    /\ LoopFree /\ ~collected
    /\ phase[c] = "idle" /\ closer = "unset"
    /\ MoveTo(c, "preparing")
    /\ UNCHANGED <<pending, future, settled, marked, closeVars, cancelled, posts,
                   queue, ownerVars>>

\* execute up to the await in _ensure_started: the first call starts the owner.
EnsureStarted(c) ==
    /\ LoopFree
    /\ phase[c] = "preparing"
    /\ MoveTo(c, IF Closed THEN "rejected" ELSE "starting")
    /\ owner' = IF owner = "none" /\ ~Closed THEN "constructing" ELSE owner
    /\ UNCHANGED <<pending, future, settled, marked, closeVars, cancelled, posts,
                   queue, started, current, dispatched>>

\* The closed check made again under _pending_lock, after the await.
OpenForEnqueue == ~Closed

\* execute from the end of _ensure_started to the await of the future.
Enqueue(c) ==
    /\ LoopFree
    /\ phase[c] = "starting"
    /\ owner \notin {"none", "constructing"}
    /\ IF owner # "failed" /\ OpenForEnqueue
       THEN /\ MoveTo(c, "awaiting")
            /\ pending' = pending \cup {c}
            /\ queue' = Append(queue, c)
       ELSE /\ MoveTo(c, "rejected")
            /\ UNCHANGED <<pending, queue>>
    /\ UNCHANGED <<future, settled, marked, closeVars, cancelled, posts, ownerVars>>

\* Cancellation delivered at an await before the command is queued.
CancelEarly(c) ==
    /\ LoopFree
    /\ phase[c] \in {"preparing", "starting"}
    /\ MoveTo(c, "cancelled")
    /\ UNCHANGED <<pending, future, settled, marked, closeVars, cancelled, posts,
                   queue, ownerVars>>

\* CancelledError in execute: the event and the token, then the future.
CancelMark(c) ==
    /\ LoopFree
    /\ phase[c] = "awaiting"
    /\ marked' = c
    /\ IF CarriesToken(c)
       THEN /\ cancelled' = cancelled \cup {c}
            /\ future' = IF FutureDone(c) THEN future
                                          ELSE [future EXCEPT ![c] = "cancelled"]
       ELSE UNCHANGED <<cancelled, future>>
    /\ UNCHANGED <<phase, pending, settled, closeVars, posts, queue, ownerVars>>

\* Mutant: a cancelled call never waits for a command the owner has started.
MustSettleNever(c) == ~CarriesToken(c)

\* ... then `started` decides whether the settled future is awaited.
MustSettle(c) == c \in started \/ ~CarriesToken(c)

CancelDecide ==
    /\ marked # None /\ closer \notin Sweeping
    /\ MoveTo(marked, IF MustSettle(marked) THEN "settling" ELSE "cancelled")
    /\ marked' = None
    /\ UNCHANGED <<pending, future, settled, closeVars, cancelled, posts, queue,
                   ownerVars>>

\* The wait for settlement ends; further cancellations are swallowed by it.
CancelSettled(c) ==
    /\ LoopFree
    /\ phase[c] = "settling" /\ c \in settled
    /\ MoveTo(c, "cancelled")
    /\ UNCHANGED <<pending, future, settled, marked, closeVars, cancelled, posts,
                   queue, ownerVars>>

\* The done callback of the future.  A future is only cancelled by CancelMark,
\* which has set the event and the token already.
FinishCommand(c) ==
    /\ LoopFree
    /\ c \in pending /\ FutureDone(c)
    /\ pending' = pending \ {c}
    /\ UNCHANGED <<phase, future, settled, marked, closeVars, cancelled, posts,
                   queue, ownerVars>>

\* The await of the future ends, after the callback registered before it.
Return(c) ==
    /\ LoopFree
    /\ phase[c] = "awaiting" /\ FutureDone(c) /\ c \notin pending
    /\ MoveTo(c, future[c])
    /\ UNCHANGED <<pending, future, settled, marked, closeVars, cancelled, posts,
                   queue, ownerVars>>

\* The loop runs one callback: _set_future_result or _set_future_exception.
RunCallback ==
    /\ LoopFree
    /\ posts # <<>>
    /\ LET p == Head(posts)
       IN  IF p.value = "settled"
           THEN /\ settled' = settled \cup {p.item}
                /\ UNCHANGED future
           ELSE /\ future' = IF FutureDone(p.item) THEN future
                             ELSE [future EXCEPT ![p.item] = p.value]
                /\ UNCHANGED settled
    /\ posts' = Tail(posts)
    /\ UNCHANGED <<phase, pending, marked, closeVars, cancelled, queue, ownerVars>>

-----------------------------------------------------------------------------
(* Close: AsyncController.close, _close_once, shutdown_native, aclose       *)

\* close(): the first caller creates the shared task, every caller awaits it.
CloseCall(k) ==
    /\ LoopFree /\ ~collected
    /\ waiter[k] = "idle"
    /\ waiter' = [waiter EXCEPT ![k] = "waiting"]
    /\ closer' = IF closer = "unset" THEN "created" ELSE closer
    /\ UNCHANGED <<callVars, marked, sweep, closeError, collected, cancelled, posts,
                   queue, ownerVars>>

\* wait_for gives up: the shielded close task goes on, the caller may call again.
CloseTimeout(k) ==
    /\ LoopFree
    /\ waiter[k] = "waiting" /\ ~CloseDone
    /\ waiter' = [waiter EXCEPT ![k] = "idle"]
    /\ UNCHANGED <<callVars, marked, closer, sweep, closeError, collected, cancelled,
                   posts, queue, ownerVars>>

CloseReturn(k) ==
    /\ LoopFree
    /\ waiter[k] = "waiting" /\ CloseDone
    /\ waiter' = [waiter EXCEPT ![k] = IF closeError THEN "failed" ELSE "closed"]
    /\ UNCHANGED <<callVars, marked, closer, sweep, closeError, collected, cancelled,
                   posts, queue, ownerVars>>

\* _begin_close up to the snapshot of the pending commands.  Without an owner
\* thread nothing is pending, and neither the shutdown nor the join happens.
BeginClose(next) ==
    /\ closer' = IF owner = "none" THEN "ended" ELSE next
    /\ sweep' = pending
    /\ UNCHANGED <<phase, pending, settled, marked, waiter, collected, cancelled,
                   posts, queue, ownerVars>>

\* shutdown_native, once the CDP client is closed.
ShutdownNative ==
    /\ LoopFree
    /\ closer = "created"
    /\ BeginClose("sweep")
    /\ UNCHANGED <<future, closeError>>

\* The shutdown answered, well or badly: aclose.
AcloseAfterShutdown ==
    /\ LoopFree
    /\ closer = "shutdown" /\ FutureDone(Shutdown)
    /\ closeError' \in BOOLEAN
    /\ BeginClose("resweep")
    /\ UNCHANGED future

\* The teardown of the loop cancels the close task at an await of _close_browser:
\* its finally clause still runs aclose.
CancelCloseTask ==
    /\ LoopFree
    /\ closer \in {"created", "shutdown"}
    /\ closeError' = TRUE
    /\ future' = IF closer = "shutdown" /\ ~FutureDone(Shutdown)
                 THEN [future EXCEPT ![Shutdown] = "cancelled"] ELSE future
    /\ BeginClose(IF closer = "created" THEN "lastsweep" ELSE "resweep")

\* The teardown comes before the first step of the task: nothing of it runs.
AbandonCloseTask ==
    /\ LoopFree
    /\ closer = "created"
    /\ closer' = "abandoned" /\ closeError' = TRUE
    /\ UNCHANGED <<callVars, marked, sweep, waiter, collected, cancelled, posts,
                   queue, ownerVars>>

\* Mutant: the sweep passes over the commands the owner has started.
SweepMarkUnstarted(c) ==
    /\ closer \in Sweeping /\ marked = None
    /\ c \in sweep
    /\ sweep' = sweep \ {c}
    /\ IF CarriesToken(c) /\ c \notin started
       THEN cancelled' = cancelled \cup {c} /\ marked' = c
       ELSE UNCHANGED <<cancelled, marked>>
    /\ UNCHANGED <<callVars, closer, closeError, waiter, collected, posts, queue,
                   ownerVars>>

\* One command of _cancel_pending_commands: cancel it ...
SweepMark(c) ==
    /\ closer \in Sweeping /\ marked = None
    /\ c \in sweep
    /\ sweep' = sweep \ {c}
    /\ IF CarriesToken(c)
       THEN cancelled' = cancelled \cup {c} /\ marked' = c
       ELSE UNCHANGED <<cancelled, marked>>
    /\ UNCHANGED <<callVars, closer, closeError, waiter, collected, posts, queue,
                   ownerVars>>

\* Mutant: every command of the sweep is rejected, started or not.
SweepDecideAll ==
    /\ closer \in Sweeping /\ marked # None
    /\ posts' = Append(posts, Post(marked, "rejected"))
    /\ marked' = None
    /\ UNCHANGED <<callVars, closeVars, cancelled, queue, ownerVars>>

\* Mutant: the sweep cancels without rejecting.
SweepDecideSilent ==
    /\ closer \in Sweeping /\ marked # None
    /\ marked' = None
    /\ UNCHANGED <<callVars, closeVars, cancelled, posts, queue, ownerVars>>

\* ... and reject it unless the owner has started it.
SweepDecide ==
    /\ closer \in Sweeping /\ marked # None
    /\ posts' = IF marked \in started THEN posts
                                      ELSE Append(posts, Post(marked, "rejected"))
    /\ marked' = None
    /\ UNCHANGED <<callVars, closeVars, cancelled, queue, ownerVars>>

\* The sweep is over: queue the shutdown command, or the sentinel.
SweepEnd ==
    /\ closer \in Sweeping /\ marked = None /\ sweep = {}
    /\ closer' = IF closer = "sweep" THEN "shutdown" ELSE "join"
    /\ queue' = Append(queue, IF closer = "sweep" THEN Shutdown ELSE Stop)
    /\ UNCHANGED <<callVars, marked, sweep, closeError, waiter, collected, cancelled,
                   posts, ownerVars>>

\* thread.join returns.
Joined ==
    /\ LoopFree
    /\ closer = "join" /\ ~OwnerAlive
    /\ closer' = "ended"
    /\ UNCHANGED <<callVars, marked, sweep, closeError, waiter, collected, cancelled,
                   posts, queue, ownerVars>>

\* thread.join times out with the owner alive (RuntimeError), or the teardown
\* cancels the wait for it.
JoinFails ==
    /\ LoopFree
    /\ closer = "join"
    /\ closer' = "ended" /\ closeError' = TRUE
    /\ UNCHANGED <<callVars, marked, sweep, waiter, collected, cancelled, posts,
                   queue, ownerVars>>

\* weakref.finalize: the session is unreachable, so no call of it is in progress.
Finalize ==
    /\ LoopFree /\ ~collected /\ OwnerAlive
    /\ \A c \in Commands : phase[c] \in {"idle"} \cup Finished
    /\ closer = "unset" \/ CloseDone
    /\ \A k \in Closers : waiter[k] # "waiting"
    /\ collected' = TRUE
    /\ queue' = Append(queue, Stop)
    /\ UNCHANGED <<callVars, marked, closer, sweep, closeError, waiter, cancelled,
                   posts, ownerVars>>

-----------------------------------------------------------------------------
(* The owner thread: _run_async_native_session                              *)

Construct ==
    /\ owner = "constructing"
    /\ owner' \in {"getting", "failed"}
    /\ UNCHANGED <<loopVars, posts, queue, started, current, dispatched>>

\* Mutant: the owner goes back to the queue after the sentinel.
GetStopGoesOn ==
    /\ owner = "getting"
    /\ queue # <<>> /\ Head(queue) = Stop
    /\ queue' = Tail(queue)
    /\ UNCHANGED <<loopVars, posts, ownerVars>>

\* The sentinel: a last shutdown of the native session, and return.
GetStop ==
    /\ owner = "getting"
    /\ queue # <<>> /\ Head(queue) = Stop
    /\ queue' = Tail(queue)
    /\ owner' = "exited"
    /\ UNCHANGED <<loopVars, posts, started, current, dispatched>>

\* Mutant: the sentinel is not recognised.
HeadIsAnything == queue # <<>>

HeadIsCommand == queue # <<>> /\ Head(queue) # Stop

\* A command cancelled in the queue is settled without being started.
SkipCancelled ==
    /\ owner = "getting"
    /\ HeadIsCommand
    /\ Head(queue) \in cancelled
    /\ posts' = Append(posts, Post(Head(queue), "settled"))
    /\ queue' = Tail(queue)
    /\ UNCHANGED <<loopVars, ownerVars>>

\* The loop can still cancel the command between this check and `started`.
Take ==
    /\ owner = "getting"
    /\ HeadIsCommand
    /\ Head(queue) \notin cancelled
    /\ owner' = "checked" /\ current' = Head(queue)
    /\ queue' = Tail(queue)
    /\ UNCHANGED <<loopVars, posts, started, dispatched>>

SetStarted ==
    /\ owner = "checked"
    /\ owner' = "started"
    /\ started' = started \cup {current}
    /\ UNCHANGED <<loopVars, posts, queue, current, dispatched>>

\* Mutant: the settled future is forgotten.
AnswerUnsettled ==
    /\ posts' = Append(posts, Post(current, "answered"))
    /\ owner' = IF current = Shutdown THEN "exited" ELSE "getting"
    /\ current' = None
    /\ UNCHANGED <<loopVars, queue, started, dispatched>>

\* The end of one iteration: a value or an exception for the future, then the
\* settled future, and return after the shutdown command.
Answer ==
    /\ posts' = posts \o <<Post(current, "answered"), Post(current, "settled")>>
    /\ owner' = IF current = Shutdown THEN "exited" ELSE "getting"
    /\ current' = None
    /\ UNCHANGED <<loopVars, queue, started, dispatched>>

\* session.execute ends short of the browser: a policy denial, an expired
\* deadline, an engine that cannot be constructed, or a cancelled token.
AnswerUndispatched ==
    /\ owner = "started"
    /\ Answer

\* Mutant: the token does not reach the native session.
InterruptedNever(c) == FALSE

\* The biased select of Session::execute sees a cancelled token first.
Interrupted(c) == c \in cancelled

Dispatch ==
    /\ owner = "started"
    /\ ~Interrupted(current)
    /\ owner' = "native"
    /\ dispatched' = dispatched \cup ({current} \ {Shutdown})
    /\ UNCHANGED <<loopVars, posts, queue, started, current>>

\* The browser answers.
NativeReply ==
    /\ owner = "native"
    /\ Answer

\* A token cancelled during dispatch ends it.
NativeInterrupt ==
    /\ owner = "native"
    /\ Interrupted(current)
    /\ Answer

-----------------------------------------------------------------------------
CallStep(c) ==
    \/ EnsureStarted(c) \/ Enqueue(c) \/ CancelSettled(c) \/ FinishCommand(c)
    \/ Return(c)

CallerStep(c) == Prepare(c) \/ CancelEarly(c) \/ CancelMark(c)

CloserStep(k) == CloseCall(k) \/ CloseTimeout(k) \/ CloseReturn(k)

CloseStep ==
    \/ ShutdownNative \/ AcloseAfterShutdown \/ Joined
    \/ SweepDecide \/ SweepEnd \/ \E c \in Commands : SweepMark(c)

OwnerStep ==
    \/ Construct \/ GetStop \/ SkipCancelled \/ Take \/ SetStarted
    \/ AnswerUndispatched \/ Dispatch \/ NativeInterrupt

Next ==
    \/ \E c \in Commands : CallStep(c) \/ CallerStep(c)
    \/ \E k \in Closers : CloserStep(k)
    \/ CancelDecide \/ RunCallback
    \/ CloseStep \/ CancelCloseTask \/ AbandonCloseTask \/ JoinFails \/ Finalize
    \/ OwnerStep \/ NativeReply

Spec == Init /\ [][Next]_vars

(***************************************************************************)
(* Fairness.  The loop runs every ready callback and task, and the owner   *)
(* thread is scheduled.  Nobody is obliged to call, to cancel, to time out *)
(* or to collect.  A native command that carries a token need never answer *)
(* by itself; close and shutdown, which carry none, eventually do.         *)
(***************************************************************************)
Fairness ==
    /\ \A c \in Commands : WF_vars(CallStep(c))
    /\ \A k \in Closers : WF_vars(CloseReturn(k))
    /\ WF_vars(CancelDecide) /\ WF_vars(RunCallback) /\ WF_vars(CloseStep)
    /\ WF_vars(OwnerStep)
    /\ WF_vars(~CarriesToken(current) /\ NativeReply)

FairSpec == Spec /\ Fairness

-----------------------------------------------------------------------------
(* Safety                                                                   *)

\* A call that raised CancelledError has no native work left running for it:
\* either the owner settled it first, or the cancelled token keeps a command
\* the owner was about to start out of the browser (execute L143-154).
CancelledIsQuiet ==
    \A c \in Commands : phase[c] = "cancelled" => ~(owner = "native" /\ current = c)

\* A call told that the session is closed never entered the browser, although
\* the sweep reads `started` while the owner moves (_cancel_pending_commands).
RejectedNeverRan ==
    \A c \in Commands : phase[c] = "rejected" => c \notin dispatched

\* shutdown_native "without allowing queued user work to run": once the
\* shutdown or the sentinel is queued, only close commands enter the browser.
ShutdownQueued == closer \in {"shutdown", "resweep", "join", "ended"}

NothingRunsAfterClosing ==
    [][\A c \in Commands : c \in dispatched' \ dispatched /\ ShutdownQueued
                               => c \in CloseCommands]_vars

\* When close() reports success the owner thread is gone and every call still
\* awaiting has its answer on the way to the loop (aclose joins the thread).
Answered(c) == FutureDone(c) \/ \E p \in Range(posts) : p.item = c /\ p.value # "settled"

\* Seen by its callers, the session is an ordered command session: the gate is
\* shut when the item that ends the owner is queued.
Status(c) ==
    IF phase[c] = "idle" THEN "new" ELSE IF phase[c] \in Finished THEN phase[c] ELSE "issued"

Statuses == [c \in Commands |-> Status(c)]
Running  == IF owner = "native" /\ current \in Commands THEN current ELSE None
Gate     == IF ShutdownQueued THEN "shut" ELSE "open"

Contract == INSTANCE CommandContract WITH
    status <- Statuses, running <- Running, ran <- dispatched, gate <- Gate

ImplementsContract == Contract!Spec

-----------------------------------------------------------------------------
(* Liveness, under FairSpec                                                 *)

\* A cancelled call whose command was started always gets its CancelledError,
\* even if the browser would never answer: the token ends the native dispatch.
CancellationEnds ==
    \A c \in Commands :
        CarriesToken(c) /\ phase[c] = "settling" ~> phase[c] = "cancelled"

\* Closing ends every call in progress, even if the browser never answers one.
ClosingEndsEveryCall ==
    \A c \in Commands : Closed /\ phase[c] # "idle" ~> phase[c] \in Finished

\* close() ends, whatever a running command does, if the owner was started.
CloseEnds == closer # "unset" ~> CloseDone \/ owner = "failed"

\* The same without the exception for an owner that failed to start.
CloseAlwaysEnds == closer # "unset" ~> CloseDone

\* The owner thread outlives neither close() nor the session object.
OwnerExits == collected \/ closer = "ended" ~> ~OwnerAlive

=============================================================================
