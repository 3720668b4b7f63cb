------------------------ MODULE AsyncSessionContract ------------------------
(***************************************************************************)
(* AsyncSession implements CommandContract, for every set of calls and of  *)
(* callers of close: each of its steps is, for the callers, one step of    *)
(* the contract or none.                                                   *)
(***************************************************************************)
EXTENDS AsyncSessionProofs

\* Only Dispatch lets a command into the browser.
LEMMA OnlyDispatchRuns ==
    ASSUME Next, dispatched' # dispatched
    PROVE  Dispatch
BY DEF Next, CallStep, CallerStep, CloserStep, CloseStep, OwnerStep, Prepare,
       EnsureStarted, Enqueue, CancelEarly, CancelMark, CancelSettled, FinishCommand,
       Return, CancelDecide, RunCallback, CloseCall, CloseTimeout, CloseReturn,
       ShutdownNative, AcloseAfterShutdown, CancelCloseTask, BeginClose, SweepMark,
       SweepDecide, SweepEnd, Joined, AbandonCloseTask, JoinFails, Finalize, Construct, GetStop,
       SkipCancelled, Take, SetStarted, AnswerUndispatched, NativeReply,
       NativeInterrupt, Answer, ownerVars

\* The command Dispatch lets in has run never before, was not told that it ended,
\* and is a close once the last item is queued.
LEMMA DispatchIsAllowed ==
    ASSUME IInv, Dispatch, current \in Commands
    PROVE  /\ current \notin dispatched
           /\ phase[current] \in {"awaiting", "settling"}
           /\ ShutdownQueued => current \in CloseCommands
<1> USE DEF IInv, CommandInv, Dispatch, Interrupted
<1>1. current \in Upcoming /\ current \in Unanswered /\ current \notin cancelled
    BY DEF Upcoming, Unanswered
<1>2. current \notin dispatched
    BY <1>1 DEF OnceInv
<1>3. phase[current] \in {"awaiting", "settling"}
    BY <1>1 DEF TypeOK, FreshInv, Fresh, ToldInv, Finished
<1>4. ShutdownQueued => current \in CloseCommands
    BY <1>1 DEF SweepInv, ShutdownQueued, Closed
<1> QED  BY <1>2, <1>3, <1>4

\* For any number of calls and closers, no call but close starts to run once the
\* item that ends the owner is queued (shutdown_native, aclose).
THEOREM NothingRunsBehindShutdown == Spec => NothingRunsAfterClosing
<1>1. ASSUME IInv, Next, NEW c \in Commands, c \in dispatched' \ dispatched, ShutdownQueued
      PROVE  c \in CloseCommands
    <2>1. Dispatch
        BY <1>1, OnlyDispatchRuns
    <2>2. c = current
        BY <1>1, <2>1 DEF Dispatch
    <2> QED  BY <1>1, <2>1, <2>2, DispatchIsAllowed
<1>2. IInv /\ [Next]_vars
        => [\A c \in Commands : c \in dispatched' \ dispatched /\ ShutdownQueued
                                    => c \in CloseCommands]_vars
    BY <1>1
<1> QED  BY <1>2, Invariance, PTL DEF Spec, NothingRunsAfterClosing

-----------------------------------------------------------------------------
(* The refinement                                                           *)

\* The initial states are those of the contract.
LEMMA ContractInit == Init => Contract!Init
<1> SUFFICES ASSUME Init PROVE Contract!Init
    OBVIOUS
<1>1. Statuses = [c \in Commands |-> "new"]
    BY DEF Init, Statuses, Status
<1>2. Running = None /\ Gate = "open" /\ dispatched = {}
    BY DEF Init, Running, Gate, ShutdownQueued
<1> QED  BY <1>1, <1>2 DEF Contract!Init

Same == UNCHANGED <<Running, dispatched, Gate>>

\* The status of a call changes with the place of its task.
LEMMA StatusMoves ==
    ASSUME TypeOK, NEW c \in Commands, NEW where, MoveTo(c, where)
    PROVE  Statuses' = [Statuses EXCEPT ![c] =
                IF where = "idle" THEN "new" ELSE IF where \in Finished THEN where
                                                  ELSE "issued"]
BY DEF TypeOK, MoveTo, Statuses, Status

\* A call that moves between two awaits is issued before and after.
LEMMA IssuedStays ==
    ASSUME TypeOK, NEW c \in Commands, NEW where, MoveTo(c, where), Same,
           phase[c] \in {"preparing", "starting", "awaiting", "settling"},
           where \in {"preparing", "starting", "awaiting", "settling"}
    PROVE  UNCHANGED Contract!vars
<1>1. Statuses[c] = "issued"
    BY DEF Statuses, Status, Finished
<1>2. Statuses' = [Statuses EXCEPT ![c] = "issued"]
    BY StatusMoves DEF Finished
<1>3. Statuses' = Statuses
    BY <1>1, <1>2 DEF Statuses
<1> QED  BY <1>3 DEF Same, Contract!vars

\* A call that ends, not running, and not rejected if it ran.
LEMMA CallEnds ==
    ASSUME TypeOK, NEW c \in Commands, NEW how \in Finished, MoveTo(c, how), Same,
           phase[c] \in {"preparing", "starting", "awaiting", "settling"},
           Running # c, how = "rejected" => c \notin dispatched
    PROVE  Contract!Next
<1>1. Statuses[c] = "issued"
    BY DEF Statuses, Status, Finished
<1>2. Statuses' = [Statuses EXCEPT ![c] = how]
    BY StatusMoves DEF Finished
<1>3. Contract!End(c, how)
    BY <1>1, <1>2 DEF Same, Contract!End
<1> QED  BY <1>3 DEF Finished, Contract!Next, Contract!Ends

\* A step that moves no call and leaves the browser alone at most shuts the gate.
LEMMA OnlyShuts ==
    ASSUME UNCHANGED <<phase, Running, dispatched>>, Gate' = Gate \/ Gate' = "shut"
    PROVE  Contract!Next \/ UNCHANGED Contract!vars
<1>1. Statuses' = Statuses
    BY DEF Statuses, Status
<1>2. CASE Gate' = Gate
    BY <1>1, <1>2 DEF Contract!vars
<1>3. CASE Gate' = "shut"
    BY <1>1, <1>3 DEF Contract!Next, Contract!Shut
<1> QED  BY <1>2, <1>3

ContractStep == Contract!Next \/ UNCHANGED Contract!vars

LEMMA ContractCalls ==
    ASSUME IInv, NEW c \in Commands, CallStep(c) \/ CallerStep(c)
    PROVE  ContractStep
<1> USE DEF ContractStep
<1>1. TypeOK /\ FreshInv /\ OwnerInv /\ RejectInv /\ OnceInv
    BY DEF IInv, CommandInv
<1>2. phase[c] \in Fresh => Running # c /\ c \notin dispatched
    BY <1>1, ConstantsAssumption DEF FreshInv, Unanswered, Running
<1>3. CASE Prepare(c)
    <2>1. Statuses[c] = "new" /\ Same
        BY <1>3 DEF Prepare, Statuses, Status, Same, Running, Gate, ShutdownQueued,
                    ownerVars, closeVars
    <2>2. Statuses' = [Statuses EXCEPT ![c] = "issued"]
        BY <1>1, <1>3, StatusMoves DEF Prepare, Finished
    <2> QED  BY <2>1, <2>2 DEF Contract!Next, Contract!Issue, Same
<1>4. CASE EnsureStarted(c)
    <2>1. Same
        BY <1>4 DEF EnsureStarted, Same, Running, Gate, ShutdownQueued, closeVars
    <2>2. CASE Closed
        BY <1>1, <1>2, <1>4, <2>1, <2>2, CallEnds DEF EnsureStarted, Finished, Fresh
    <2>3. CASE ~Closed
        BY <1>1, <1>4, <2>1, <2>3, IssuedStays DEF EnsureStarted
    <2> QED  BY <2>2, <2>3
<1>5. CASE Enqueue(c)
    <2>1. Same
        BY <1>5 DEF Enqueue, Same, Running, Gate, ShutdownQueued, ownerVars, closeVars
    <2>2. CASE owner # "failed" /\ OpenForEnqueue
        BY <1>1, <1>5, <2>1, <2>2, IssuedStays DEF Enqueue
    <2>3. CASE ~(owner # "failed" /\ OpenForEnqueue)
        BY <1>1, <1>2, <1>5, <2>1, <2>3, CallEnds DEF Enqueue, Finished, Fresh
    <2> QED  BY <2>2, <2>3
<1>6. CASE CancelEarly(c)
    <2>1. Same
        BY <1>6 DEF CancelEarly, Same, Running, Gate, ShutdownQueued, ownerVars, closeVars
    <2> QED  BY <1>1, <1>2, <1>6, <2>1, CallEnds DEF CancelEarly, Finished, Fresh
<1>7. CASE CancelMark(c) \/ FinishCommand(c)
    BY <1>7, OnlyShuts
       DEF CancelMark, FinishCommand, Running, Gate, ShutdownQueued, ownerVars, closeVars
<1>8. ASSUME Running = c PROVE c \in Unanswered
    BY <1>8, ConstantsAssumption DEF Running, Unanswered
<1>9. CASE CancelSettled(c)
    <2>1. Same
        BY <1>9 DEF CancelSettled, Same, Running, Gate, ShutdownQueued, ownerVars, closeVars
    <2>2. Running # c
        BY <1>1, <1>8, <1>9 DEF CancelSettled, OnceInv
    <2> QED  BY <1>1, <1>9, <2>1, <2>2, CallEnds DEF CancelSettled, Finished
<1>10. CASE Return(c)
    <2>1. Same
        BY <1>10 DEF Return, Same, Running, Gate, ShutdownQueued, ownerVars, closeVars
    <2>2. future[c] \in {"answered", "rejected"}
        BY <1>1, <1>10, ConstantsAssumption
           DEF Return, FutureDone, TypeOK, RejectInv, LoopFree, Items, Finished
    <2>3. Running # c
        BY <1>1, <1>8, <1>10, <2>2, ConstantsAssumption
           DEF OnceInv, RejectInv, OwnerInv, Running
    <2>4. future[c] = "rejected" => c \notin dispatched
        BY <1>1 DEF RejectInv
    <2> QED  BY <1>1, <1>10, <2>1, <2>2, <2>3, <2>4, CallEnds DEF Return, Finished
<1> QED  BY <1>3, <1>4, <1>5, <1>6, <1>7, <1>9, <1>10 DEF CallStep, CallerStep

LEMMA ContractLoop ==
    ASSUME IInv, CancelDecide \/ RunCallback
    PROVE  ContractStep
<1> USE DEF ContractStep
<1>1. CASE RunCallback
    BY <1>1, OnlyShuts DEF RunCallback, Running, Gate, ShutdownQueued, ownerVars, closeVars
<1>2. CASE CancelDecide
    <2>1. TypeOK /\ marked \in Commands /\ phase[marked] = "awaiting"
        BY <1>2 DEF CancelDecide, IInv, TypeOK, CommandInv, RejectInv
    <2>2. Same
        BY <1>2 DEF CancelDecide, Same, Running, Gate, ShutdownQueued, ownerVars, closeVars
    <2>3. CASE MustSettle(marked)
        BY <1>2, <2>1, <2>2, <2>3, IssuedStays DEF CancelDecide
    <2>4. CASE ~MustSettle(marked)
        <3>1. Running # marked
            BY <2>1, <2>4, ConstantsAssumption
               DEF IInv, CommandInv, OwnerInv, Running, MustSettle
        <3> QED  BY <1>2, <2>1, <2>2, <2>4, <3>1, CallEnds DEF CancelDecide, Finished
    <2> QED  BY <2>3, <2>4
<1> QED  BY <1>1, <1>2

LEMMA ContractClose ==
    ASSUME \/ CloseStep \/ CancelCloseTask \/ AbandonCloseTask \/ JoinFails \/ Finalize
           \/ \E k \in Closers : CloserStep(k),
           TypeOK
    PROVE  ContractStep
<1>1. UNCHANGED <<phase, Running, dispatched>>
    BY DEF CloserStep, CloseStep, CloseCall, CloseTimeout, CloseReturn, ShutdownNative,
           AcloseAfterShutdown, CancelCloseTask, BeginClose, SweepMark, SweepDecide,
           SweepEnd, Joined, AbandonCloseTask, JoinFails, Finalize, Running, callVars, ownerVars
<1>2. Gate' = Gate \/ Gate' = "shut"
    BY DEF CloserStep, CloseStep, CloseCall, CloseTimeout, CloseReturn, ShutdownNative,
           AcloseAfterShutdown, CancelCloseTask, BeginClose, SweepMark, SweepDecide,
           SweepEnd, Joined, AbandonCloseTask, JoinFails, Finalize, Gate, ShutdownQueued, closeVars
<1> QED  BY <1>1, <1>2, OnlyShuts DEF ContractStep

LEMMA ContractOwner ==
    ASSUME IInv, OwnerStep \/ NativeReply
    PROVE  ContractStep
<1> USE DEF ContractStep, loopVars, callVars, closeVars
<1>1. UNCHANGED phase /\ Gate' = Gate
    BY DEF OwnerStep, Construct, GetStop, SkipCancelled, Take, SetStarted, Answer,
           AnswerUndispatched, Dispatch, NativeReply, NativeInterrupt, Gate,
           ShutdownQueued
<1>2. Statuses' = Statuses
    BY <1>1 DEF Statuses, Status
<1>3. CASE Construct \/ GetStop \/ SkipCancelled \/ Take \/ SetStarted \/ AnswerUndispatched
    <2>1. UNCHANGED <<Running, dispatched>>
        BY <1>3 DEF Construct, GetStop, SkipCancelled, Take, SetStarted,
                    AnswerUndispatched, Answer, Running, ownerVars
    <2> QED  BY <1>1, <2>1, OnlyShuts
<1>4. CASE NativeReply \/ NativeInterrupt
    <2>1. Running' = None /\ UNCHANGED dispatched
        BY <1>4 DEF NativeReply, NativeInterrupt, Answer, Running
    <2>2. CASE Running = None
        BY <1>1, <2>1, <2>2, OnlyShuts
    <2>3. CASE Running # None
        BY <1>1, <1>2, <2>1, <2>3 DEF Contract!Next, Contract!Leave
    <2> QED  BY <2>2, <2>3
<1>5. CASE Dispatch
    <2>1. CASE current \notin Commands
        <3>1. current = Shutdown
            BY <1>5, <2>1 DEF Dispatch, IInv, TypeOK, CommandInv, OwnerInv, Items
        <3>2. UNCHANGED <<Running, dispatched>>
            BY <1>5, <2>1, <3>1 DEF Dispatch, Running
        <3> QED  BY <1>1, <3>2, OnlyShuts
    <2>2. CASE current \in Commands
        <3>1. /\ Running = None /\ Running' = current
              /\ dispatched' = dispatched \cup {current}
            BY <1>5, <2>2, ConstantsAssumption DEF Dispatch, Running
        <3>2. current \notin dispatched /\ Statuses[current] = "issued"
            BY <1>5, <2>2, DispatchIsAllowed DEF Statuses, Status, Finished
        <3>3. Gate = "open" \/ current \in CloseCommands
            BY <1>5, <2>2, DispatchIsAllowed DEF Gate
        <3>4. Contract!Run(current)
            BY <1>1, <1>2, <3>1, <3>2, <3>3 DEF Contract!Run
        <3> QED  BY <2>2, <3>4 DEF Contract!Next
    <2> QED  BY <2>1, <2>2
<1> QED  BY <1>3, <1>4, <1>5 DEF OwnerStep

\* For any number of calls and closers, the session is an ordered command session
\* to its callers: a call runs at most once and alone, a call that ended neither
\* runs nor will run, a rejected call never ran, and only close runs once it shuts.
THEOREM ContractImplemented == Spec => ImplementsContract
<1>1. IInv /\ [Next]_vars => [Contract!Next]_(Contract!vars)
    <2>1. ASSUME IInv, Next PROVE ContractStep
        BY <2>1, ContractCalls, ContractLoop, ContractClose, ContractOwner DEF Next, IInv
    <2>2. ASSUME UNCHANGED vars PROVE UNCHANGED Contract!vars
        BY <2>2 DEF vars, loopVars, callVars, closeVars, ownerVars, Contract!vars,
                    Statuses, Status, Running, Gate, ShutdownQueued
    <2> QED  BY <2>1, <2>2 DEF ContractStep
<1> QED  BY <1>1, ContractInit, Invariance, PTL DEF Spec, ImplementsContract, Contract!Spec

=============================================================================
