------------------------- MODULE AsyncSessionProofs -------------------------
(***************************************************************************)
(* Proofs about AsyncSession for every set of calls and of callers of      *)
(* close: type correctness, the inductive invariant, and the safety        *)
(* properties that follow from it.                                         *)
(***************************************************************************)
EXTENDS AsyncSessionInvariant, TLAPS

-----------------------------------------------------------------------------
(* The elements of a queue                                                  *)

\* Appending to a queue adds one element.
LEMMA RangeAppend ==
    ASSUME NEW S, NEW q \in Seq(S), NEW x \in S
    PROVE  Append(q, x) \in Seq(S) /\ Range(Append(q, x)) = Range(q) \cup {x}
<1>1. ASSUME NEW y \in Range(Append(q, x)) PROVE y \in Range(q) \cup {x}
    <2>1. PICK i \in 1..Len(Append(q, x)) : y = Append(q, x)[i]
        BY DEF Range
    <2>2. CASE i = Len(q) + 1
        BY <2>1, <2>2
    <2>3. CASE i # Len(q) + 1
        BY <2>1, <2>3 DEF Range
    <2> QED  BY <2>2, <2>3
<1>2. ASSUME NEW y \in Range(q) \cup {x} PROVE y \in Range(Append(q, x))
    <2>1. CASE y = x
        <3>1. Append(q, x)[Len(q) + 1] = x /\ Len(q) + 1 \in 1..Len(Append(q, x))
            OBVIOUS
        <3> QED  BY <2>1, <3>1 DEF Range
    <2>2. CASE y \in Range(q)
        <3>1. PICK i \in 1..Len(q) : y = q[i]
            BY <2>2 DEF Range
        <3>2. Append(q, x)[i] = y /\ i \in 1..Len(Append(q, x))
            BY <3>1
        <3> QED  BY <3>2 DEF Range
    <2> QED  BY <2>1, <2>2
<1> QED  BY <1>1, <1>2

\* The head and the elements of the tail are the elements of the queue.
LEMMA RangeTail ==
    ASSUME NEW S, NEW q \in Seq(S), q # <<>>
    PROVE  /\ Head(q) \in S /\ Tail(q) \in Seq(S)
           /\ Range(q) = {Head(q)} \cup Range(Tail(q))
<1>1. Head(q) \in S /\ Tail(q) \in Seq(S) /\ Len(q) # 0 /\ Head(q) = q[1]
    OBVIOUS
<1>2. Len(Tail(q)) = Len(q) - 1 /\ \A i \in 1..Len(Tail(q)) : Tail(q)[i] = q[i + 1]
    OBVIOUS
<1>3. ASSUME NEW y \in Range(q) PROVE y \in {Head(q)} \cup Range(Tail(q))
    <2>1. PICK i \in 1..Len(q) : y = q[i]
        BY DEF Range
    <2>2. CASE i = 1
        BY <1>1, <2>1, <2>2
    <2>3. CASE i # 1
        <3>1. i - 1 \in 1..Len(Tail(q)) /\ Tail(q)[i - 1] = y
            BY <1>2, <2>1, <2>3
        <3>2. DOMAIN Tail(q) = 1..Len(Tail(q))
            BY <1>1
        <3> QED  BY <3>1, <3>2 DEF Range
    <2> QED  BY <2>2, <2>3
<1>4. ASSUME NEW y \in {Head(q)} \cup Range(Tail(q)) PROVE y \in Range(q)
    <2>1. CASE y = Head(q)
        <3>1. 1 \in 1..Len(q)
            BY <1>1
        <3> QED  BY <1>1, <2>1, <3>1 DEF Range
    <2>2. CASE y \in Range(Tail(q))
        <3>1. PICK i \in 1..Len(Tail(q)) : y = Tail(q)[i]
            BY <2>2 DEF Range
        <3>2. i + 1 \in 1..Len(q) /\ q[i + 1] = y
            BY <1>2, <3>1
        <3> QED  BY <1>1, <3>2 DEF Range
    <2> QED  BY <2>1, <2>2
<1> QED  BY <1>1, <1>3, <1>4

\* Two callbacks handed to the loop at once.
LEMMA RangeTwo ==
    ASSUME NEW S, NEW q \in Seq(S), NEW x \in S, NEW y \in S
    PROVE  /\ q \o <<x, y>> \in Seq(S)
           /\ Range(q \o <<x, y>>) = Range(q) \cup {x, y}
<1>1. q \o <<x, y>> = Append(Append(q, x), y)
    OBVIOUS
<1>2. Append(q, x) \in Seq(S) /\ Append(Append(q, x), y) \in Seq(S)
    OBVIOUS
<1>3. Range(Append(q, x)) = Range(q) \cup {x}
    BY RangeAppend
<1>4. \A r \in Seq(S) : Range(Append(r, y)) = Range(r) \cup {y}
    BY RangeAppend
<1> QED  BY <1>1, <1>2, <1>3, <1>4

\* Taking the head keeps a queue without repetition, and frees its head.
LEMMA DistinctTail ==
    ASSUME NEW S, NEW T, NEW q \in Seq(S), q # <<>>, Distinct(q, T)
    PROVE  /\ Distinct(Tail(q), T)
           /\ Head(q) \in T => Head(q) \notin Range(Tail(q))
<1>1. Len(q) # 0 /\ Head(q) = q[1] /\ Len(Tail(q)) = Len(q) - 1
    OBVIOUS
<1>2. \A i \in 1..Len(Tail(q)) : Tail(q)[i] = q[i + 1] /\ i + 1 \in 1..Len(q)
    BY <1>1
<1>3. Distinct(Tail(q), T)
    <2> SUFFICES ASSUME NEW i \in 1..Len(Tail(q)), NEW j \in 1..Len(Tail(q)),
                        i # j, Tail(q)[i] = Tail(q)[j]
                 PROVE  Tail(q)[i] \notin T
        BY DEF Distinct
    <2>1. i + 1 # j + 1 /\ q[i + 1] = q[j + 1] /\ i + 1 \in 1..Len(q) /\ j + 1 \in 1..Len(q)
        BY <1>2
    <2> QED  BY <1>2, <2>1 DEF Distinct
<1>4. ASSUME Head(q) \in Range(Tail(q)) PROVE Head(q) \notin T
    <2>1. PICK i \in 1..Len(Tail(q)) : Head(q) = Tail(q)[i]
        BY <1>4 DEF Range
    <2>2. i + 1 # 1 /\ i + 1 \in 1..Len(q) /\ 1 \in 1..Len(q) /\ q[i + 1] = q[1]
        BY <1>1, <1>2, <2>1
    <2> QED  BY <1>1, <2>2 DEF Distinct
<1> QED  BY <1>3, <1>4

\* Appending an item that is not queued keeps a queue without repetition.
LEMMA DistinctAppend ==
    ASSUME NEW S, NEW T, NEW q \in Seq(S), NEW x \in S, Distinct(q, T),
           x \in T => x \notin Range(q)
    PROVE  Distinct(Append(q, x), T)
<1> SUFFICES ASSUME NEW i \in 1..Len(Append(q, x)), NEW j \in 1..Len(Append(q, x)),
                    i # j, Append(q, x)[i] = Append(q, x)[j]
             PROVE  Append(q, x)[i] \notin T
    BY DEF Distinct
<1>1. \A k \in 1..Len(q) : Append(q, x)[k] = q[k] /\ q[k] \in Range(q)
    BY DEF Range
<1>2. Append(q, x)[Len(q) + 1] = x /\ 1..Len(Append(q, x)) = 1..(Len(q) + 1)
    OBVIOUS
<1>3. CASE i \in 1..Len(q) /\ j \in 1..Len(q)
    BY <1>1, <1>3 DEF Distinct
<1>4. CASE i = Len(q) + 1 \/ j = Len(q) + 1
    <2>1. Append(q, x)[i] = x /\ x \in Range(q)
        BY <1>1, <1>2, <1>4
    <2> QED  BY <2>1
<1> QED  BY <1>2, <1>3, <1>4

-----------------------------------------------------------------------------
(* Type correctness                                                         *)

\* The owner holds an item exactly while it works on one.
Holding == current # None <=> owner \in {"checked", "started", "native"}

TypeInv == TypeOK /\ Holding

LEMMA TypeInit == Init => TypeInv
<1> SUFFICES ASSUME Init PROVE TypeInv
    OBVIOUS
<1> USE DEF Init, TypeInv, TypeOK, Holding, Items, Finished, Sweeping
<1>1. phase \in [Commands -> {"idle"}] /\ future \in [Items -> {"pending"}]
    OBVIOUS
<1>2. waiter \in [Closers -> {"idle"}]
    OBVIOUS
<1>3. <<>> \in Seq(Items \cup {Stop})
    OBVIOUS
<1>4. <<>> \in Seq(Callback)
    OBVIOUS
<1> QED  BY <1>1, <1>2, <1>3, <1>4

\* A step of a call keeps the types.
LEMMA TypeCalls ==
    ASSUME TypeInv, NEW c \in Commands, CallStep(c) \/ CallerStep(c)
    PROVE  TypeInv'
<1> USE DEF TypeInv, TypeOK, Holding, MoveTo, ownerVars, closeVars, Items, Finished
<1>1. CASE Prepare(c)
    BY <1>1 DEF Prepare
<1>2. CASE EnsureStarted(c)
    BY <1>2 DEF EnsureStarted
<1>3. CASE Enqueue(c)
    <2>1. queue' \in Seq(Items \cup {Stop})
        <3>1. queue' = queue \/ queue' = Append(queue, c)
            BY <1>3 DEF Enqueue
        <3>2. queue \in Seq(Items \cup {Stop}) /\ c \in Items \cup {Stop}
            OBVIOUS
        <3>3. Append(queue, c) \in Seq(Items \cup {Stop})
            BY <3>2, RangeAppend
        <3> HIDE DEF TypeInv
        <3> QED  BY <3>1, <3>2, <3>3
    <2>2. /\ pending' \subseteq Commands
          /\ phase' \in [Commands -> {"idle", "preparing", "starting", "awaiting",
                                      "settling"} \cup Finished]
        BY <1>3 DEF Enqueue
    <2>3. UNCHANGED <<future, settled, marked, closeVars, cancelled, posts, ownerVars>>
        BY <1>3 DEF Enqueue
    <2> QED  BY <2>1, <2>2, <2>3
<1>4. CASE CancelEarly(c)
    BY <1>4 DEF CancelEarly
<1>5. CASE CancelMark(c)
    BY <1>5 DEF CancelMark
<1>6. CASE CancelSettled(c)
    BY <1>6 DEF CancelSettled
<1>7. CASE FinishCommand(c)
    BY <1>7 DEF FinishCommand
<1>8. CASE Return(c)
    BY <1>8 DEF Return, FutureDone
<1> QED  BY <1>1, <1>2, <1>3, <1>4, <1>5, <1>6, <1>7, <1>8 DEF CallStep, CallerStep

\* A step of the loop on behalf of no call keeps the types.
LEMMA TypeLoop ==
    ASSUME TypeInv, CancelDecide \/ RunCallback
    PROVE  TypeInv'
<1> USE DEF TypeInv, TypeOK, Holding, MoveTo, ownerVars, closeVars, Items, Finished
<1>1. CASE CancelDecide
    BY <1>1 DEF CancelDecide
<1>2. CASE RunCallback
    <2>1. /\ Head(posts) \in Callback
          /\ posts' \in Seq(Callback)
        BY <1>2, RangeTail DEF RunCallback
    <2>2. CASE Head(posts).value = "settled"
        BY <1>2, <2>1, <2>2 DEF RunCallback, Callback
    <2>3. CASE Head(posts).value # "settled"
        <3>1. future' \in [Items -> {"pending"} \cup Finished]
            BY <1>2, <2>1, <2>3 DEF RunCallback, Callback
        <3> QED  BY <1>2, <2>1, <2>3, <3>1 DEF RunCallback
    <2> QED  BY <2>2, <2>3
<1> QED  BY <1>1, <1>2

\* A step of close() or of the shared close task keeps the types.
LEMMA TypeClose ==
    ASSUME TypeInv,
           \/ CloseStep \/ CancelCloseTask \/ AbandonCloseTask \/ JoinFails
           \/ Finalize
           \/ \E k \in Closers : CloserStep(k)
    PROVE  TypeInv'
<1> USE ConstantsAssumption
    DEF TypeInv, TypeOK, Holding, ownerVars, callVars, Items, Finished, Sweeping
<1>1. ASSUME NEW k \in Closers, CloserStep(k) PROVE TypeInv'
    BY <1>1 DEF CloserStep, CloseCall, CloseTimeout, CloseReturn
<1>2. CASE ShutdownNative
    BY <1>2 DEF ShutdownNative, BeginClose
<1>3. CASE AcloseAfterShutdown
    BY <1>3 DEF AcloseAfterShutdown, BeginClose
<1>4. CASE CancelCloseTask
    <2>1. future' \in [Items -> {"pending"} \cup Finished]
        BY <1>4 DEF CancelCloseTask
    <2>2. closer' \in {"ended"} \cup Sweeping /\ closeError'
        BY <1>4 DEF CancelCloseTask, BeginClose
    <2>3. /\ sweep' = pending
          /\ UNCHANGED <<phase, pending, settled, marked, waiter, collected, cancelled,
                         posts, queue, ownerVars>>
        BY <1>4 DEF CancelCloseTask, BeginClose
    <2> QED  BY <2>1, <2>2, <2>3
<1>5. ASSUME NEW c \in Commands, SweepMark(c) PROVE TypeInv'
    BY <1>5 DEF SweepMark
<1>6. CASE SweepDecide
    <2>1. posts' \in Seq(Callback)
        <3>1. Post(marked, "rejected") \in Callback
            BY <1>6 DEF SweepDecide, Post, Callback
        <3>2. posts' = posts \/ posts' = Append(posts, Post(marked, "rejected"))
            BY <1>6 DEF SweepDecide
        <3>3. posts \in Seq(Callback)
            OBVIOUS
        <3>4. Append(posts, Post(marked, "rejected")) \in Seq(Callback)
            BY <3>1, <3>3, RangeAppend
        <3> HIDE DEF TypeInv
        <3> QED  BY <3>2, <3>3, <3>4
    <2> QED  BY <1>6, <2>1 DEF SweepDecide, closeVars
<1>7. CASE SweepEnd
    BY <1>7 DEF SweepEnd
<1>8. CASE Joined
    BY <1>8 DEF Joined
<1>9. CASE JoinFails
    BY <1>9 DEF JoinFails
<1>10. CASE Finalize
    BY <1>10 DEF Finalize
<1>11. CASE AbandonCloseTask
    BY <1>11 DEF AbandonCloseTask
<1> QED  BY <1>1, <1>2, <1>3, <1>4, <1>5, <1>6, <1>7, <1>8, <1>9, <1>10, <1>11
         DEF CloseStep

\* A step of the owner thread keeps the types.
LEMMA TypeOwner ==
    ASSUME TypeInv, OwnerStep \/ NativeReply
    PROVE  TypeInv'
<1> USE ConstantsAssumption
    DEF TypeInv, TypeOK, Holding, loopVars, callVars, closeVars, Items
<1>1. CASE Construct
    BY <1>1 DEF Construct
<1>2. CASE GetStop
    BY <1>2, RangeTail DEF GetStop
<1>3. CASE SkipCancelled
    <2>1. Head(queue) \in Items /\ queue' \in Seq(Items \cup {Stop})
        BY <1>3, RangeTail DEF SkipCancelled, HeadIsCommand
    <2>2. Post(Head(queue), "settled") \in Callback
        BY <2>1 DEF Post, Callback
    <2>3. posts' \in Seq(Callback)
        BY <1>3, <2>2, RangeAppend DEF SkipCancelled
    <2> QED  BY <1>3, <2>1, <2>3 DEF SkipCancelled, ownerVars
<1>4. CASE Take
    <2>1. Head(queue) \in Items /\ queue' \in Seq(Items \cup {Stop})
        BY <1>4, RangeTail DEF Take, HeadIsCommand
    <2> QED  BY <1>4, <2>1 DEF Take
<1>5. CASE SetStarted
    BY <1>5 DEF SetStarted
<1>6. CASE owner \in {"started", "native"} /\ Answer
    <2>1. current \in Items
        BY <1>6
    <2>2. posts' \in Seq(Callback)
        BY <1>6, <2>1, RangeTwo DEF Answer, Post, Callback
    <2> QED  BY <1>6, <2>2 DEF Answer
<1>7. CASE Dispatch
    BY <1>7 DEF Dispatch
<1> QED  BY <1>1, <1>2, <1>3, <1>4, <1>5, <1>6, <1>7
         DEF OwnerStep, AnswerUndispatched, NativeReply, NativeInterrupt

LEMMA TypeStep == TypeInv /\ [Next]_vars => TypeInv'
<1>1. ASSUME TypeInv, Next PROVE TypeInv'
    BY <1>1, TypeCalls, TypeLoop, TypeClose, TypeOwner DEF Next
<1>2. ASSUME TypeInv, UNCHANGED vars PROVE TypeInv'
    BY <1>2 DEF TypeInv, TypeOK, Holding, vars, loopVars, callVars, closeVars, ownerVars
<1> QED  BY <1>1, <1>2

\* The variables keep their types: in particular the owner never works on the
\* sentinel, and no callback or queue entry is left without a command.
THEOREM TypeCorrect == Spec => []TypeOK
<1>1. TypeInv => TypeOK
    BY DEF TypeInv
<1> QED  BY <1>1, TypeInit, TypeStep, PTL DEF Spec

-----------------------------------------------------------------------------
(* The inductive invariant                                                  *)

\* A step that touches neither queue leaves their elements.
LEMMA SameQueues ==
    ASSUME UNCHANGED <<queue, posts>>
    PROVE  /\ Range(queue)' = Range(queue) /\ Range(posts)' = Range(posts)
           /\ Distinct(queue, Commands)' = Distinct(queue, Commands)
BY DEF Range, Distinct

LEMMA InvInit == Init => IInv
<1> SUFFICES ASSUME Init PROVE CommandInv
    BY TypeInit DEF IInv, TypeInv
<1>1. Range(queue) = {} /\ Range(posts) = {} /\ Distinct(queue, Commands)
    BY DEF Init, Range, Distinct
<1> QED  BY <1>1, ConstantsAssumption
         DEF Init, CommandInv, OwnerInv, FreshInv, OnceInv, RejectInv, ToldInv, SweepInv,
             Fresh, Upcoming, Unanswered, CancelledIsQuiet, RejectedNeverRan,
             CarriesToken, Closed, Items, Finished, Sweeping

\* A step of a call.  Only Enqueue touches a queue, with a command not seen
\* before; a call that ends has its token cancelled or its command settled.
LEMMA InvCalls ==
    ASSUME TypeOK, TypeOK', CommandInv, NEW c \in Commands, CallStep(c) \/ CallerStep(c)
    PROVE  CommandInv'
<1> USE ConstantsAssumption
    DEF CommandInv, TypeOK, OwnerInv, FreshInv, OnceInv, RejectInv, ToldInv, SweepInv,
        Fresh, Upcoming, Unanswered, CancelledIsQuiet, RejectedNeverRan,
        CarriesToken, Closed, Items, Finished, Sweeping, MoveTo, ownerVars, closeVars
<1>1. CASE Prepare(c)
    BY <1>1, SameQueues DEF Prepare
<1>2. CASE EnsureStarted(c)
    BY <1>2, SameQueues DEF EnsureStarted
<1>3. CASE Enqueue(c)
    <2>1. CASE owner # "failed" /\ OpenForEnqueue
        <3>1. Range(queue)' = Range(queue) \cup {c} /\ Distinct(queue, Commands)'
            <4>1. queue' = Append(queue, c) /\ c \notin Range(queue)
                BY <1>3, <2>1 DEF Enqueue
            <4>2. queue \in Seq(Items \cup {Stop}) /\ c \in Items \cup {Stop}
                OBVIOUS
            <4>3. Distinct(queue, Commands)
                OBVIOUS
            <4> QED  BY <4>1, <4>2, <4>3, RangeAppend, DistinctAppend
        <3>2. Range(posts)' = Range(posts)
            BY <1>3 DEF Enqueue
        <3>3. OwnerInv' /\ FreshInv'
            BY <1>3, <2>1, <3>1, <3>2 DEF Enqueue
        <3>4. OnceInv'
            BY <1>3, <2>1, <3>1, <3>2 DEF Enqueue
        <3>5. RejectInv'
            BY <1>3, <2>1, <3>1, <3>2 DEF Enqueue, LoopFree
        <3>6. ToldInv'
            BY <1>3, <2>1, <3>1, <3>2 DEF Enqueue
        <3>7. SweepInv'
            BY <1>3, <2>1, <3>1, <3>2 DEF Enqueue, OpenForEnqueue
        <3> QED  BY <3>3, <3>4, <3>5, <3>6, <3>7
    <2>2. CASE ~(owner # "failed" /\ OpenForEnqueue)
        BY <1>3, <2>2, SameQueues DEF Enqueue
    <2> QED  BY <2>1, <2>2
<1>4. CASE CancelEarly(c)
    BY <1>4, SameQueues DEF CancelEarly
<1>5. CASE CancelMark(c)
    BY <1>5, SameQueues DEF CancelMark, LoopFree
<1>6. CASE CancelSettled(c)
    BY <1>6, SameQueues DEF CancelSettled, LoopFree
<1>7. CASE FinishCommand(c)
    BY <1>7, SameQueues DEF FinishCommand, FutureDone
<1>8. CASE Return(c)
    BY <1>8, SameQueues DEF Return, FutureDone, LoopFree
<1> QED  BY <1>1, <1>2, <1>3, <1>4, <1>5, <1>6, <1>7, <1>8 DEF CallStep, CallerStep

\* A step of the loop on behalf of no call.
LEMMA InvLoop ==
    ASSUME TypeOK, TypeOK', CommandInv, CancelDecide \/ RunCallback
    PROVE  CommandInv'
<1> USE ConstantsAssumption
    DEF CommandInv, TypeOK, OwnerInv, FreshInv, OnceInv, RejectInv, ToldInv, SweepInv,
        Fresh, Upcoming, Unanswered, CancelledIsQuiet, RejectedNeverRan,
        CarriesToken, Closed, Items, Finished, Sweeping, MoveTo, ownerVars, closeVars
<1>1. CASE CancelDecide
    BY <1>1, SameQueues DEF CancelDecide, MustSettle
<1>2. CASE RunCallback
    <2>1. Head(posts) \in Callback /\ Range(posts) = {Head(posts)} \cup Range(posts)'
        BY <1>2, RangeTail DEF RunCallback
    <2>2. Range(queue)' = Range(queue) /\ Distinct(queue, Commands)'
        BY <1>2 DEF RunCallback
    <2> QED  BY <1>2, <2>1, <2>2 DEF RunCallback, Callback, FutureDone, LoopFree, Post
<1> QED  BY <1>1, <1>2

\* A step of close().  The sweep cancels before it reads `started`, and queues
\* the last item only when everything it had to cancel is cancelled.
LEMMA InvClose ==
    ASSUME TypeOK, TypeOK', CommandInv,
           \/ CloseStep \/ CancelCloseTask \/ AbandonCloseTask \/ JoinFails
           \/ Finalize
           \/ \E k \in Closers : CloserStep(k)
    PROVE  CommandInv'
<1> USE ConstantsAssumption
    DEF CommandInv, TypeOK, OwnerInv, FreshInv, OnceInv, RejectInv, ToldInv, SweepInv,
        Fresh, Upcoming, Unanswered, CancelledIsQuiet, RejectedNeverRan,
        CarriesToken, Closed, Items, Finished, Sweeping, ownerVars, callVars
<1>1. ASSUME NEW k \in Closers, CloserStep(k) PROVE CommandInv'
    BY <1>1, SameQueues DEF CloserStep, CloseCall, CloseTimeout, CloseReturn, LoopFree
<1>2. CASE ShutdownNative
    BY <1>2, SameQueues DEF ShutdownNative, BeginClose, LoopFree
<1>3. CASE AcloseAfterShutdown
    BY <1>3, SameQueues DEF AcloseAfterShutdown, BeginClose, LoopFree
<1>4. CASE CancelCloseTask
    BY <1>4, SameQueues DEF CancelCloseTask, BeginClose, LoopFree
<1>5. ASSUME NEW c \in Commands, SweepMark(c) PROVE CommandInv'
    BY <1>5, SameQueues DEF SweepMark
<1>6. CASE SweepDecide
    <2>1. CASE marked \in started
        <3>1. UNCHANGED <<posts, queue>>
            BY <1>6, <2>1 DEF SweepDecide
        <3> QED  BY <1>6, <3>1, SameQueues DEF SweepDecide, closeVars
    <2>2. CASE marked \notin started
        <3>1. Post(marked, "rejected") \in Callback
            BY <1>6 DEF SweepDecide, Post, Callback
        <3>2. Range(posts)' = Range(posts) \cup {Post(marked, "rejected")}
            BY <1>6, <2>2, <3>1, RangeAppend DEF SweepDecide
        <3>3. Range(queue)' = Range(queue) /\ Distinct(queue, Commands)'
            BY <1>6 DEF SweepDecide
        <3>4. RejectInv'
            <4>1. marked \in cancelled \ dispatched
                BY <1>6, <2>2 DEF SweepDecide
            <4> QED  BY <1>6, <3>2, <4>1 DEF SweepDecide, closeVars, Post
        <3>5. OwnerInv' /\ FreshInv' /\ OnceInv'
            BY <1>6, <3>2, <3>3 DEF SweepDecide, closeVars, Post
        <3>6. ToldInv' /\ SweepInv'
            BY <1>6, <3>3 DEF SweepDecide, closeVars
        <3> QED  BY <3>4, <3>5, <3>6
    <2> QED  BY <2>1, <2>2
<1>7. CASE SweepEnd
    <2>1. PICK x \in {Shutdown, Stop} : queue' = Append(queue, x)
        BY <1>7 DEF SweepEnd
    <2>2. Range(queue)' = Range(queue) \cup {x} /\ Distinct(queue, Commands)'
        BY <2>1, RangeAppend, DistinctAppend
    <2>3. Range(posts)' = Range(posts)
        BY <1>7 DEF SweepEnd
    <2> QED  BY <1>7, <2>2, <2>3 DEF SweepEnd
<1>8. CASE Joined
    BY <1>8, SameQueues DEF Joined, LoopFree
<1>9. CASE JoinFails
    BY <1>9, SameQueues DEF JoinFails, LoopFree
<1>10. CASE Finalize
    <2>1. Range(queue)' = Range(queue) \cup {Stop} /\ Distinct(queue, Commands)'
        BY <1>10, RangeAppend, DistinctAppend DEF Finalize
    <2>2. Range(posts)' = Range(posts)
        BY <1>10 DEF Finalize
    <2> QED  BY <1>10, <2>1, <2>2 DEF Finalize, LoopFree
<1>11. CASE AbandonCloseTask
    BY <1>11, SameQueues DEF AbandonCloseTask, LoopFree
<1> QED  BY <1>1, <1>2, <1>3, <1>4, <1>5, <1>6, <1>7, <1>8, <1>9, <1>10, <1>11
         DEF CloseStep

\* A step of the owner.  It takes a command out of the queue for good, and it
\* never lets a cancelled one into the browser.
LEMMA InvOwner ==
    ASSUME TypeOK, TypeOK', CommandInv, OwnerStep \/ NativeReply
    PROVE  CommandInv'
<1> USE ConstantsAssumption
    DEF CommandInv, TypeOK, OwnerInv, FreshInv, OnceInv, RejectInv, ToldInv, SweepInv,
        Fresh, Upcoming, Unanswered, CancelledIsQuiet, RejectedNeverRan,
        CarriesToken, Closed, Items, Finished, Sweeping, loopVars, callVars, closeVars
<1>1. CASE Construct
    BY <1>1, SameQueues DEF Construct
<1>2. ASSUME queue # <<>>, queue' = Tail(queue)
      PROVE  /\ Range(queue) = {Head(queue)} \cup Range(queue)'
             /\ Distinct(queue, Commands)'
             /\ Head(queue) \in Commands => Head(queue) \notin Range(queue)'
    BY <1>2, RangeTail, DistinctTail
<1>3. CASE GetStop
    <2>1. Range(posts)' = Range(posts)
        BY <1>3 DEF GetStop
    <2> QED  BY <1>2, <1>3, <2>1 DEF GetStop
<1>4. CASE SkipCancelled
    <2>1. Post(Head(queue), "settled") \in Callback
        BY <1>4, RangeTail DEF SkipCancelled, HeadIsCommand, Post, Callback
    <2>2. Range(posts)' = Range(posts) \cup {Post(Head(queue), "settled")}
        BY <1>4, <2>1, RangeAppend DEF SkipCancelled
    <2> QED  BY <1>2, <1>4, <2>2 DEF SkipCancelled, HeadIsCommand, ownerVars, Post
<1>5. CASE Take
    <2>1. Range(posts)' = Range(posts)
        BY <1>5 DEF Take
    <2> QED  BY <1>2, <1>5, <2>1 DEF Take, HeadIsCommand
<1>6. CASE SetStarted
    BY <1>6, SameQueues DEF SetStarted
<1>7. CASE owner \in {"started", "native"} /\ Answer
    <2>1. Post(current, "answered") \in Callback /\ Post(current, "settled") \in Callback
        BY <1>7 DEF Post, Callback
    <2>2. Range(posts)' = Range(posts) \cup {Post(current, "answered"), Post(current, "settled")}
        BY <1>7, <2>1, RangeTwo DEF Answer
    <2>3. Range(queue)' = Range(queue) /\ Distinct(queue, Commands)'
        BY <1>7 DEF Answer
    <2>4. OwnerInv' /\ ToldInv' /\ SweepInv'
        BY <1>7, <2>3 DEF Answer
    <2>5. FreshInv'
        <3>1. \A c \in Commands : phase'[c] \in Fresh => c # current
            BY <1>7 DEF Answer
        <3>2. ASSUME NEW c \in Commands, c # current, NEW v
              PROVE  Post(c, v) \in Range(posts)' => Post(c, v) \in Range(posts)
            BY <2>2, <3>2 DEF Post
        <3>3. ASSUME NEW c \in Commands, phase'[c] \in Fresh
              PROVE  /\ c \notin (Unanswered \cup dispatched \cup pending \cup sweep
                                 \cup settled)'
                     /\ c # marked' /\ future'[c] = "pending"
            BY <1>7, <2>3, <3>1, <3>3 DEF Answer
        <3>4. ASSUME NEW c \in Commands, phase'[c] \in Fresh
              PROVE  \A v \in {"answered", "rejected", "settled"} :
                        Post(c, v) \notin Range(posts)'
            BY <1>7, <3>1, <3>2, <3>4 DEF Answer
        <3> QED  BY <3>3, <3>4
    <2>6. OnceInv'
        <3>1. ASSUME NEW c \in Commands, c \in Unanswered'
              PROVE  c \in Range(queue) /\ c # current
            BY <1>7, <2>3, <3>1 DEF Answer
        <3>2. ASSUME NEW c \in Commands, c # current, NEW v
              PROVE  Post(c, v) \in Range(posts)' => Post(c, v) \in Range(posts)
            BY <2>2, <3>2 DEF Post
        <3>3. ASSUME NEW c \in Commands, c \in Unanswered'
              PROVE  /\ c \notin settled' /\ future'[c] # "answered"
                     /\ Post(c, "settled") \notin Range(posts)'
                     /\ Post(c, "answered") \notin Range(posts)'
            <4>1. c \in Unanswered /\ c # current
                BY <3>1, <3>3
            <4>2. /\ Post(c, "settled") \notin Range(posts)
                  /\ Post(c, "answered") \notin Range(posts)
                BY <4>1
            <4> QED  BY <1>7, <3>2, <4>1, <4>2 DEF Answer
        <3>4. ASSUME NEW c \in Commands
              PROVE  /\ c \in Range(queue)' => c # current'
                     /\ c \in Upcoming' => c \notin dispatched'
            BY <1>7, <2>3 DEF Answer
        <3> QED  BY <2>3, <3>3, <3>4
    <2>7. RejectInv'
        BY <1>7, <2>2, <2>3 DEF Answer, Post
    <2> QED  BY <2>4, <2>5, <2>6, <2>7
<1>8. CASE Dispatch
    BY <1>8, SameQueues DEF Dispatch, Interrupted
<1> QED  BY <1>1, <1>3, <1>4, <1>5, <1>6, <1>7, <1>8
         DEF OwnerStep, AnswerUndispatched, NativeReply, NativeInterrupt

LEMMA InvStep == IInv /\ [Next]_vars => IInv'
<1>1. IInv => TypeInv
    BY DEF IInv, TypeInv, Holding, CommandInv, OwnerInv
<1>2. TypeInv' => TypeOK'
    BY DEF TypeInv
<1>3. ASSUME IInv, Next PROVE CommandInv'
    <2>1. TypeOK /\ CommandInv /\ TypeOK'
        BY <1>1, <1>2, <1>3, TypeStep DEF IInv
    <2> QED  BY <1>3, <2>1, InvCalls, InvLoop, InvClose, InvOwner DEF Next
<1>4. ASSUME IInv, UNCHANGED vars PROVE CommandInv'
    BY <1>4, SameQueues
       DEF IInv, vars, loopVars, callVars, closeVars, ownerVars, CommandInv, OwnerInv,
           FreshInv, OnceInv, RejectInv, ToldInv, SweepInv, Fresh, Upcoming, Unanswered,
           CancelledIsQuiet, RejectedNeverRan, Closed
<1> QED  BY <1>1, <1>2, <1>3, <1>4, TypeStep DEF IInv

LEMMA Invariance == Spec => []IInv
BY InvInit, InvStep, PTL DEF Spec

\* For any number of calls and closers, a call rejected by a closing session
\* never entered the browser.
THEOREM RejectionIsFinal == Spec => []RejectedNeverRan
<1>1. IInv => RejectedNeverRan
    BY DEF IInv, CommandInv, ToldInv
<1> QED  BY <1>1, Invariance, PTL

\* For any number of calls and closers, a call that raised CancelledError leaves
\* no native work running.
THEOREM CancellationIsQuiet == Spec => []CancelledIsQuiet
<1>1. IInv => CancelledIsQuiet
    BY DEF IInv, CommandInv, ToldInv
<1> QED  BY <1>1, Invariance, PTL

=============================================================================
