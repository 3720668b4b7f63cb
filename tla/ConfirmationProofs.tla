--------------------------- MODULE ConfirmationProofs ---------------------------
(***************************************************************************)
(* Proofs about Confirmation, for every set of tasks, ids, requests and    *)
(* actions.                                                                *)
(***************************************************************************)
EXTENDS ConfirmationInvariant, TLAPS

USE ConfirmationAssumption, NoneAssumption

Outcomes == {"done", "held", "void", "failed"}

-----------------------------------------------------------------------------
(* What a step does to the calls *)

LEMMA IdleIsCall == Idle \in Calls
  BY DEF Idle, Calls

\* Answering a call keeps everything but its step, id and answer.
LEMMA AnsweredCall ==
  ASSUME call \in [Tasks -> Calls], NEW t \in Tasks, NEW i \in Ids \union {None},
         NEW how \in Outcomes, Answered(t, i, how)
  PROVE  /\ call' \in [Tasks -> Calls]
         /\ \A u \in Tasks \ {t} : call'[u] = call[u]
         /\ call'[t].step = "answered" /\ call'[t].id = i /\ call'[t].answer = how
         /\ call'[t].verb = call[t].verb /\ call'[t].request = call[t].request
         /\ call'[t].compound = call[t].compound
  <1> DEFINE c == [call[t] EXCEPT !.step = "answered", !.id = i, !.answer = how]
  <1>1. call[t] \in Calls  OBVIOUS
  <1>2. call' = [call EXCEPT ![t] = c]  BY DEF Answered
  <1>3. c \in Calls  BY <1>1 DEF Calls, Outcomes
  <1>4. /\ c.step = "answered" /\ c.id = i /\ c.answer = how
        /\ c.verb = call[t].verb /\ c.request = call[t].request
    BY <1>1 DEF Calls
  <1>5. c.compound = call[t].compound  BY <1>1 DEF Calls
  <1> HIDE DEF c
  <1> QED  BY <1>2, <1>3, <1>4, <1>5

\* Issuing a command.
LEMMA IssuedCall ==
  ASSUME call \in [Tasks -> Calls], NEW t \in Tasks, NEW r \in Requests, Issue(t, r)
  PROVE  /\ call' \in [Tasks -> Calls]
         /\ \A u \in Tasks \ {t} : call'[u] = call[u]
         /\ call'[t].step = "sent" /\ call'[t].verb = "run" /\ call'[t].request = r
         /\ call'[t].id = None /\ call'[t].answer = "none"
         /\ call'[t].compound = (r \in UrlRequests)
  <1> DEFINE mark == r \in UrlRequests
             c == [Idle EXCEPT !.step = "sent", !.verb = "run", !.request = r,
                               !.id = None, !.compound = mark]
  <1>1. mark \in BOOLEAN  OBVIOUS
  <1>2. call' = [call EXCEPT ![t] = c]  BY DEF Issue
  <1> HIDE DEF mark
  <1>3. c \in Calls  BY <1>1, IdleIsCall DEF Calls
  <1>4. /\ c.step = "sent" /\ c.verb = "run" /\ c.request = r
        /\ c.id = None /\ c.answer = "none"
    BY DEF Idle
  <1>5. c.compound = mark  BY DEF Idle
  <1> HIDE DEF c
  <1>6. call'[t] = c /\ call' \in [Tasks -> Calls] /\ \A u \in Tasks \ {t} : call'[u] = call[u]
    BY <1>2, <1>3
  <1> QED  BY <1>4, <1>5, <1>6, Zenon DEF mark

\* Confirming or denying an id.
LEMMA SettledCall ==
  ASSUME call \in [Tasks -> Calls], NEW t \in Tasks, NEW verb \in {"confirm", "deny"},
         NEW i \in Ids, Settle(t, verb, i)
  PROVE  /\ call' \in [Tasks -> Calls]
         /\ \A u \in Tasks \ {t} : call'[u] = call[u]
         /\ call'[t].step = "sent" /\ call'[t].verb = verb /\ call'[t].request = None
         /\ call'[t].id = i /\ call'[t].answer = "none"
         /\ call'[t].compound = (verb = "confirm" /\ i \in invalidations)
  <1> DEFINE mark == verb = "confirm" /\ i \in invalidations
             c == [Idle EXCEPT !.step = "sent", !.verb = verb, !.request = None,
                               !.id = i, !.compound = mark]
  <1>1. mark \in BOOLEAN  OBVIOUS
  <1>2. call' = [call EXCEPT ![t] = c]  BY DEF Settle
  <1> HIDE DEF mark
  <1>3. c \in Calls  BY <1>1, IdleIsCall DEF Calls
  <1>4. /\ c.step = "sent" /\ c.verb = verb /\ c.request = None
        /\ c.id = i /\ c.answer = "none"
    BY DEF Idle
  <1>5. c.compound = mark  BY DEF Idle
  <1> HIDE DEF c
  <1>6. call'[t] = c /\ call' \in [Tasks -> Calls] /\ \A u \in Tasks \ {t} : call'[u] = call[u]
    BY <1>2, <1>3
  <1> QED  BY <1>4, <1>5, <1>6, Zenon DEF mark

\* Going on with an answer, or being cancelled, makes the task idle.
LEMMA IdledCall ==
  ASSUME call \in [Tasks -> Calls], NEW t \in Tasks, call' = [call EXCEPT ![t] = Idle]
  PROVE  /\ call' \in [Tasks -> Calls]
         /\ \A u \in Tasks \ {t} : call'[u] = call[u]
         /\ call'[t] = Idle
  BY IdleIsCall

-----------------------------------------------------------------------------
(* Type correctness *)

LEMMA TypeController ==
  ASSUME TypeOK, CallInv, NEW t \in Tasks, Controller(t)
  PROVE  TypeOK'
  <1>1. ASSUME NEW r \in Requests, Issue(t, r)  PROVE TypeOK'
    <2>1. call' \in [Tasks -> Calls]  BY <1>1, IssuedCall DEF TypeOK
    <2> QED  BY <1>1, <2>1 DEF TypeOK, Issue, native, session, history
  <1>2. ASSUME NEW verb \in {"confirm", "deny"}, NEW i \in Ids, Settle(t, verb, i)  PROVE TypeOK'
    <2>1. call' \in [Tasks -> Calls]  BY <1>2, SettledCall DEF TypeOK
    <2> QED  BY <1>2, <2>1 DEF TypeOK, Settle, native, session, history
  <1>3. CASE Cancel(t)
    <2>1. call' \in [Tasks -> Calls]  BY <1>3, IdledCall DEF TypeOK, Cancel
    <2> QED  BY <1>3, <2>1 DEF TypeOK, Cancel, Invalidate, native, session, history
  <1>4. CASE Continue(t)
    <2>1. call' \in [Tasks -> Calls]  BY <1>4, IdledCall DEF TypeOK, Continue
    <2>2. call[t].answer = "held" => call[t].id \in Ids
      BY <1>4 DEF TypeOK, Calls, CallInv, CallOK, Continue, Taken
    <2>3. invalidations' \in SUBSET Ids /\ known' \in SUBSET Ids
      BY <1>4, <2>2 DEF TypeOK, Continue, NextInvalidations
    <2> QED  BY <1>4, <2>1, <2>3 DEF TypeOK, Continue, Invalidate, native, session, history
  <1> QED  BY <1>1, <1>2, <1>3, <1>4 DEF Controller

LEMMA TypeOwner ==
  ASSUME TypeOK, CallInv, NEW t \in Tasks, Owner(t)
  PROVE  TypeOK'
  <1> USE DEF TypeOK
  <1>0. call[t] \in Calls  OBVIOUS
  <1>1. CASE Fail(t)
    <2>1. call' \in [Tasks -> Calls]
      BY <1>0, <1>1, AnsweredCall DEF Fail, Calls, Outcomes
    <2> QED  BY <1>1, <2>1 DEF Fail, native, session, history
  <1>2. ASSUME NEW i \in Ids, NEW how \in {"done", "failed"}, Run(t, i, how)  PROVE TypeOK'
    <2>1. call' \in [Tasks -> Calls]  BY <1>2, AnsweredCall DEF Run, Outcomes
    <2>2. call[t].request \in Requests  BY <1>2 DEF Run, Sent, CallInv, CallOK
    <2> QED
      BY <1>2, <2>1, <2>2
      DEF Run, Enter, Leftover, Finish, ContextOf, PolicyFor, native, session, history
  <1>3. ASSUME NEW i \in Ids, Hold(t, i)  PROVE TypeOK'
    <2>1. call' \in [Tasks -> Calls]  BY <1>3, AnsweredCall DEF Hold, Outcomes
    <2>2. call[t].request \in Requests  BY <1>3 DEF Hold, Sent, CallInv, CallOK
    <2>3. slot' \in Held
      BY <1>3, <2>2 DEF Hold, HoldAt, Held, Stops, Gates
    <2>4. ContextOf(call[t].request) \in Context  BY <2>2 DEF ContextOf, PolicyFor, Context
    <2> QED
      BY <1>3, <2>1, <2>2, <2>3, <2>4 DEF Hold, Leftover, native, session, history
  <1>4. ASSUME Accepts(t)  
        PROVE  /\ call[t].id \in Ids /\ slot \in Held /\ slot.id = call[t].id
               /\ Approvals \in SUBSET Actions
               /\ granted' \in [Ids -> SUBSET Actions]
    <2>1. call[t].id \in Ids  BY <1>4 DEF Accepts, Sent, CallInv, CallOK, Taken
    <2>2. slot \in Held  BY <1>4 DEF Accepts, Names
    <2> QED  BY <1>4, <2>1, <2>2 DEF Accepts, Names, Held, Approvals
  <1>5. ASSUME NEW how \in {"done", "failed"}, ConfirmRuns(t, how)  PROVE TypeOK'
    <2>1. call' \in [Tasks -> Calls]
      BY <1>4, <1>5, AnsweredCall DEF ConfirmRuns, Outcomes
    <2>2. saved[call[t].id] = None \/ Finish(saved[call[t].id]) \in Domains
      BY <1>4, <1>5 DEF ConfirmRuns, Finish, Context
    <2> QED
      BY <1>4, <1>5, <2>1, <2>2 DEF ConfirmRuns, Enter, Leftover
  <1>6. CASE ConfirmFails(t)
    <2>1. call' \in [Tasks -> Calls]
      BY <1>4, <1>6, AnsweredCall DEF ConfirmFails, Outcomes
    <2> QED  BY <1>4, <1>6, <2>1 DEF ConfirmFails, Enter, Leftover
  <1>7. CASE ConfirmHolds(t)
    <2>1. call' \in [Tasks -> Calls]
      BY <1>4, <1>7, AnsweredCall DEF ConfirmHolds, Outcomes
    <2>2. Inherited(call[t].id) \in Context
      BY <1>4, <1>7 DEF ConfirmHolds, Inherited, Context
    <2>3. slot' \in Held
      <3>1. request[slot.id] \in Requests \union {None}  BY <1>4, <1>7 DEF ConfirmHolds
      <3>2. CallInv /\ request[slot.id] # None
        BY <1>4, <1>7 DEF ConfirmHolds, Accepts, Sent, CallInv, CallOK, Taken
      <3> QED  BY <1>4, <1>7, <3>1, <3>2 DEF ConfirmHolds, HoldAt, Held, Stops, Gates
    <2> QED  BY <1>4, <1>7, <2>1, <2>2, <2>3 DEF ConfirmHolds, Leftover
  <1>8. CASE ConfirmCut(t)
    <2>1. call' \in [Tasks -> Calls]
      BY <1>4, <1>8, AnsweredCall DEF ConfirmCut, Outcomes
    <2> QED  BY <1>4, <1>8, <2>1 DEF ConfirmCut, Enter, Leftover, session
  <1>9. ASSUME NEW how \in {"done", "failed"}, Deny(t, how)  PROVE TypeOK'
    <2>1. call[t].id \in Ids  BY <1>9 DEF Deny, Sent, CallInv, CallOK, Taken
    <2>2. call' \in [Tasks -> Calls]
      BY <1>9, <2>1, AnsweredCall DEF Deny, Outcomes
    <2> QED  BY <1>9, <2>1, <2>2 DEF Deny, Leftover
  <1> QED
    BY <1>1, <1>2, <1>3, <1>5, <1>6, <1>7, <1>8, <1>9 DEF Owner

LEMMA TypeUser ==
  ASSUME TypeOK, User
  PROVE  TypeOK'
  BY DEF TypeOK, User, EditPolicy, native, session, history
-----------------------------------------------------------------------------
(* The inductive invariant, one lemma per kind of step *)

\* Initially nothing is held, marked or in flight.
LEMMA InvInit == Init => ReplayInv
  <1> SUFFICES ASSUME Init PROVE ReplayInv  OBVIOUS
  <1>1. \A t \in Tasks : call[t] = Idle  BY DEF Init
  <1>2. TypeOK  BY IdleIsCall DEF Init, TypeOK
  <1>3. QuietInv /\ SlotInv /\ HistoryInv /\ PageInv
    BY DEF Init, QuietInv, SlotInv, HistoryInv, PageInv
  <1>4. CallInv /\ MarkInv
    BY <1>1 DEF Init, CallInv, CallOK, MarkInv, HeldMark, MarkOK, Idle, Names
  <1> QED  BY <1>2, <1>3, <1>4 DEF ReplayInv

\* Everything but the calls.
StateInv == QuietInv /\ SlotInv /\ HistoryInv /\ HeldMark

\* A step of one task leaves the others' calls consistent, if it takes no id
\* away and makes no taken id replayable that was not.
LEMMA OtherCalls ==
  ASSUME CallInv, MarkInv, NEW t \in Tasks,
         \A u \in Tasks \ {t} : call'[u] = call[u],
         \A i \in Taken : i \in Taken' /\ request'[i] = request[i],
         \A i \in Taken : Names(i)' => Names(i)
  PROVE  \A u \in Tasks \ {t} : CallOK(u)' /\ MarkOK(u)'
  <1> SUFFICES ASSUME NEW u \in Tasks \ {t} PROVE CallOK(u)' /\ MarkOK(u)'  OBVIOUS
  <1>1. CallOK(u) /\ MarkOK(u) /\ call'[u] = call[u]  BY DEF CallInv, MarkInv
  <1>2. CallOK(u)'  BY <1>1 DEF CallOK
  <1>3. call[u].verb \in {"confirm", "deny"} => call[u].id \in Taken  BY <1>1 DEF CallOK
  <1>4. MarkOK(u)'  BY <1>1, <1>3 DEF MarkOK
  <1> QED  BY <1>2, <1>4

\* A page that is not made stale keeps the call that will drop it, unless that
\* call is the one that moves.
LEMMA PageKept ==
  ASSUME PageInv, NEW t \in Tasks, call[t].step # "answered",
         \A u \in Tasks \ {t} : call'[u] = call[u], stale' => stale
  PROVE  PageInv'
  <1>1. CASE stale
    <2>1. PICK u \in Tasks : Drops(u)  BY <1>1 DEF PageInv
    <2>2. u # t /\ call'[u] = call[u]  BY <2>1 DEF Drops
    <2>3. Drops(u)'  BY <2>1, <2>2 DEF Drops
    <2> QED  BY <2>3 DEF PageInv
  <1>2. CASE ~stale  BY <1>2 DEF PageInv
  <1> QED  BY <1>1, <1>2

\* A call that enters the browser and is bound to drop the page covers it.
LEMMA PageCovered ==
  ASSUME PageInv, NEW t \in Tasks, call[t].step = "sent", call'[t].step = "answered",
         call'[t].answer # "held", \A u \in Tasks \ {t} : call'[u] = call[u],
         stale' => stale \/ call'[t].compound
  PROVE  PageInv'
  <1>1. CASE call'[t].compound
    <2>1. Drops(t)'  BY <1>1 DEF Drops
    <2> QED  BY <2>1 DEF PageInv
  <1>2. CASE ~call'[t].compound  BY <1>2, PageKept
  <1> QED  BY <1>1, <1>2

-----------------------------------------------------------------------------
\* Issuing and settling only add a call.
LEMMA InvIssue ==
  ASSUME ReplayInv, NEW t \in Tasks, NEW r \in Requests, Issue(t, r)
  PROVE  StateInv' /\ CallInv' /\ MarkInv' /\ PageInv'
  <1> USE DEF ReplayInv, TypeOK
  <1>1. UNCHANGED <<slot, confirmed, request, saved, invalidations, stale, known,
                    granted, ran, denied>>
    BY DEF Issue, native, session, history
  <1>2. StateInv'
    BY <1>1 DEF MarkInv, StateInv, QuietInv, SlotInv, HistoryInv, HeldMark, Taken
  <1>3. CallOK(t)' /\ MarkOK(t)'  BY <1>1, IssuedCall DEF CallOK, MarkOK, Names
  <1>4. \A u \in Tasks \ {t} : CallOK(u)' /\ MarkOK(u)'
    BY <1>1, IssuedCall, OtherCalls DEF Taken, Names
  <1>5. PageInv'
    <2>1. call[t].step # "answered"  BY DEF Issue
    <2>2. \A u \in Tasks \ {t} : call'[u] = call[u]  BY IssuedCall
    <2> QED  BY <1>1, <2>1, <2>2, PageKept
  <1> QED  BY <1>2, <1>3, <1>4, <1>5 DEF CallInv, MarkInv, StateInv

LEMMA InvSettle ==
  ASSUME ReplayInv, NEW t \in Tasks, NEW verb \in {"confirm", "deny"}, NEW i \in Ids,
         Settle(t, verb, i)
  PROVE  StateInv' /\ CallInv' /\ MarkInv' /\ PageInv'
  <1> USE DEF ReplayInv, TypeOK
  <1>1. UNCHANGED <<slot, confirmed, request, saved, invalidations, stale, known,
                    granted, ran, denied>>
    BY DEF Settle, native, session, history
  <1>2. StateInv'
    BY <1>1 DEF MarkInv, StateInv, QuietInv, SlotInv, HistoryInv, HeldMark, Taken
  <1>3. CallOK(t)'
    <2>1. /\ call'[t].step = "sent" /\ call'[t].verb = verb /\ call'[t].id = i
          /\ call'[t].answer = "none"
      BY SettledCall
    <2>2. i \in Taken  BY DEF Settle, HistoryInv
    <2> QED  BY <1>1, <2>1, <2>2 DEF CallOK, Taken
  <1>4. MarkOK(t)'
    <2>1. call'[t].verb = verb /\ call'[t].id = i /\ call'[t].answer = "none"
      BY SettledCall
    <2>2. call'[t].compound = (verb = "confirm" /\ i \in invalidations)  BY SettledCall
    <2>3. Names(i) /\ request[i] \in UrlRequests => i \in invalidations
      BY DEF Settle, MarkInv, HeldMark, Names
    <2> QED  BY <1>1, <2>1, <2>2, <2>3 DEF MarkOK, Names
  <1>5. \A u \in Tasks \ {t} : CallOK(u)' /\ MarkOK(u)'
    BY <1>1, SettledCall, OtherCalls DEF Taken, Names
  <1>6. PageInv'
    <2>1. call[t].step # "answered"  BY DEF Settle
    <2>2. \A u \in Tasks \ {t} : call'[u] = call[u]  BY SettledCall
    <2> QED  BY <1>1, <2>1, <2>2, PageKept
  <1> QED  BY <1>2, <1>3, <1>4, <1>5, <1>6 DEF CallInv, MarkInv, StateInv

\* Going on with an answer settles the marks; being cancelled drops the page.
LEMMA InvContinue ==
  ASSUME ReplayInv, NEW t \in Tasks, Continue(t)
  PROVE  StateInv' /\ CallInv' /\ MarkInv' /\ PageInv'
  <1> USE DEF ReplayInv, TypeOK
  <1>1. UNCHANGED <<slot, confirmed, request, saved, granted, ran, denied>>
    BY DEF Continue, native, session, history
  <1>2. call'[t] = Idle /\ \A u \in Tasks \ {t} : call'[u] = call[u]
    BY IdledCall DEF Continue
  <1>3. CallOK(t) /\ MarkOK(t)  BY DEF CallInv, MarkInv
  <1>4. QuietInv' /\ SlotInv'  BY <1>1 DEF QuietInv, SlotInv, Taken
  <1>5. HistoryInv'
    <2>1. call[t].answer = "held" => call[t].id \in Taken
      BY <1>3 DEF CallOK, Continue, Calls
    <2> QED  BY <1>1, <2>1 DEF HistoryInv, Continue, Taken
  <1>6. HeldMark'
    <2> SUFFICES ASSUME slot # None, request[slot.id] \in UrlRequests, slot.id \in known'
                 PROVE  slot.id \in invalidations'
      BY <1>1 DEF HeldMark
    <2>0. invalidations' = NextInvalidations(call[t]) /\ call[t].step = "answered"
          /\ (call[t].answer = "held" => call[t].verb \in {"run", "confirm"})
      BY <1>3 DEF Continue, CallOK, MarkOK, Calls
    <2>1. CASE slot.id = call[t].id /\ call[t].answer = "held"
      <3>1. call[t].compound
        BY <1>3, <2>0, <2>1 DEF CallOK, MarkOK, Names
      <3> QED  BY <2>0, <2>1, <3>1 DEF NextInvalidations
    <2>2. CASE slot.id # call[t].id \/ call[t].answer # "held"
      <3>1. slot.id \in known  BY <2>2 DEF Continue
      <3>2. slot.id \in invalidations  BY <3>1 DEF MarkInv, HeldMark
      <3>3. slot.id = call[t].id => call[t].verb = "run" \/ call[t].answer = "failed"
        BY <1>3, <2>0, <2>2 DEF CallOK, MarkOK, Names, Calls
      <3> QED  BY <2>0, <3>2, <3>3 DEF NextInvalidations
    <2> QED  BY <2>1, <2>2
  <1>7. CallOK(t)' /\ MarkOK(t)'  BY <1>2 DEF CallOK, MarkOK, Idle
  <1>8. \A u \in Tasks \ {t} : CallOK(u)' /\ MarkOK(u)'
    BY <1>1, <1>2, OtherCalls DEF Taken, Names
  <1>9. PageInv'
    <2>1. CASE call[t].compound /\ call[t].answer # "held"
      BY <2>1 DEF Continue, Invalidate, PageInv
    <2>2. CASE ~(call[t].compound /\ call[t].answer # "held")
      <3>1. stale' = stale  BY <2>2 DEF Continue
      <3>2. ASSUME NEW u \in Tasks, Drops(u)  PROVE Drops(u)'
        BY <1>2, <2>2, <3>2 DEF Drops
      <3> QED  BY <3>1, <3>2 DEF PageInv
    <2> QED  BY <2>1, <2>2
  <1> QED  BY <1>4, <1>5, <1>6, <1>7, <1>8, <1>9 DEF CallInv, MarkInv, StateInv

LEMMA InvCancel ==
  ASSUME ReplayInv, NEW t \in Tasks, Cancel(t)
  PROVE  StateInv' /\ CallInv' /\ MarkInv' /\ PageInv'
  <1> USE DEF ReplayInv, TypeOK
  <1>1. UNCHANGED <<slot, confirmed, request, saved, invalidations, known, granted, ran, denied>>
    BY DEF Cancel, native, session, history
  <1>2. call'[t] = Idle /\ \A u \in Tasks \ {t} : call'[u] = call[u]
    BY IdledCall DEF Cancel
  <1>3. StateInv'
    BY <1>1 DEF MarkInv, StateInv, QuietInv, SlotInv, HistoryInv, HeldMark, Taken
  <1>4. CallOK(t)' /\ MarkOK(t)'  BY <1>2 DEF CallOK, MarkOK, Idle
  <1>5. \A u \in Tasks \ {t} : CallOK(u)' /\ MarkOK(u)'
    BY <1>1, <1>2, OtherCalls DEF Taken, Names
  <1>6. PageInv'
    <2>1. CASE call[t].compound  BY <2>1 DEF Cancel, Invalidate, PageInv
    <2>2. CASE ~call[t].compound
      <3>1. stale' = stale  BY <2>2 DEF Cancel
      <3>2. ASSUME NEW u \in Tasks, Drops(u)  PROVE Drops(u)'
        BY <1>2, <2>2, <3>2 DEF Drops
      <3> QED  BY <3>1, <3>2 DEF PageInv
    <2> QED  BY <2>1, <2>2
  <1> QED  BY <1>3, <1>4, <1>5, <1>6 DEF CallInv, MarkInv, StateInv

-----------------------------------------------------------------------------
(* The owner thread *)

\* A command that has no effect only answers its call.
LEMMA InvFail ==
  ASSUME ReplayInv, NEW t \in Tasks, Fail(t)
  PROVE  StateInv' /\ CallInv' /\ MarkInv' /\ PageInv'
  <1> USE DEF ReplayInv, TypeOK
  <1>1. UNCHANGED <<slot, confirmed, request, saved, invalidations, stale, known,
                    granted, ran, denied>>
    BY DEF Fail, native, session, history
  <1>2. CallOK(t) /\ MarkOK(t)  BY DEF CallInv, MarkInv
  <1>3. call[t].id \in Ids \union {None}  BY DEF Calls
  <1>4. /\ \A u \in Tasks \ {t} : call'[u] = call[u]
        /\ call'[t].step = "answered" /\ call'[t].id = call[t].id
        /\ call'[t].answer = "failed" /\ call'[t].verb = call[t].verb
        /\ call'[t].request = call[t].request
    BY <1>3, AnsweredCall DEF Fail, Outcomes
  <1>5. call'[t].compound = call[t].compound  BY <1>3, AnsweredCall DEF Fail, Outcomes
  <1>6. StateInv'
    BY <1>1 DEF MarkInv, StateInv, QuietInv, SlotInv, HistoryInv, HeldMark, Taken
  <1>7. CallOK(t)'  BY <1>1, <1>2, <1>4, <1>5 DEF CallOK, Fail, Taken
  <1>8. MarkOK(t)'  BY <1>1, <1>2, <1>4, <1>5 DEF MarkOK, Names
  <1>9. \A u \in Tasks \ {t} : CallOK(u)' /\ MarkOK(u)'
    BY <1>1, <1>4, OtherCalls DEF Taken, Names
  <1>10. PageInv'
    <2>1. call[t].step # "answered"  BY DEF Fail
    <2> QED  BY <1>1, <1>4, <2>1, PageKept
  <1> QED  BY <1>6, <1>7, <1>8, <1>9, <1>10 DEF CallInv, MarkInv, StateInv

\* A free command takes an id nobody knows and covers the page it leaves.
LEMMA InvRun ==
  ASSUME ReplayInv, NEW t \in Tasks, NEW i \in Ids, NEW how \in {"done", "failed"},
         Run(t, i, how)
  PROVE  StateInv' /\ CallInv' /\ MarkInv' /\ PageInv'
  <1> USE DEF ReplayInv, TypeOK
  <1>1. UNCHANGED <<slot, saved, invalidations, known, granted, denied>>  BY DEF Run
  <1>2. CallOK(t) /\ MarkOK(t) /\ call[t].step = "sent" /\ call[t].verb = "run"
    BY DEF CallInv, MarkInv, Run, Sent
  <1>3. /\ \A u \in Tasks \ {t} : call'[u] = call[u]
        /\ call'[t].step = "answered" /\ call'[t].id = i
        /\ call'[t].answer = how /\ call'[t].verb = "run"
        /\ call'[t].request = call[t].request
    BY <1>2, AnsweredCall DEF Run, Outcomes
  <1>4. call'[t].compound = call[t].compound  BY AnsweredCall DEF Run, Outcomes
  <1>5. i \notin Taken /\ request' = [request EXCEPT ![i] = call[t].request]
        /\ call[t].request \in Requests /\ ran' = ran \union {i}
    BY <1>2 DEF Run, Taken, Enter, CallOK
  <1>6. Taken' = Taken \union {i} /\ \A j \in Taken : request'[j] = request[j]
    BY <1>5 DEF Taken
  <1>7. StateInv'
    <2>1. QuietInv'  BY DEF Run, Leftover, QuietInv
    <2>2. SlotInv'
      BY <1>1, <1>5, <1>6 DEF SlotInv
    <2>3. HistoryInv'  BY <1>1, <1>5, <1>6 DEF HistoryInv
    <2>4. HeldMark'  BY <1>1, <1>5, <1>6 DEF MarkInv, HeldMark, SlotInv
    <2> QED  BY <2>1, <2>2, <2>3, <2>4 DEF StateInv
  <1>8. CallOK(t)' /\ MarkOK(t)'  BY <1>2, <1>3, <1>4 DEF CallOK, MarkOK
  <1>9. \A u \in Tasks \ {t} : CallOK(u)' /\ MarkOK(u)'
    BY <1>1, <1>3, <1>6, OtherCalls DEF Names
  <1>10. PageInv'
    <2>1. stale' => stale \/ call'[t].compound
      <3>1. stale' => stale \/ call[t].request \in UrlRequests  BY DEF Run, Enter
      <3>2. call[t].compound = (call[t].request \in UrlRequests)  BY <1>2 DEF CallOK
      <3> QED  BY <1>4, <3>1, <3>2
    <2> QED  BY <1>2, <1>3, <2>1, PageCovered
  <1> QED  BY <1>7, <1>8, <1>9, <1>10 DEF CallInv, MarkInv, StateInv

\* A gated command takes an id nobody knows and replaces the held command.
LEMMA InvHold ==
  ASSUME ReplayInv, NEW t \in Tasks, NEW i \in Ids, Hold(t, i)
  PROVE  StateInv' /\ CallInv' /\ MarkInv' /\ PageInv'
  <1> USE DEF ReplayInv, TypeOK
  <1>1. UNCHANGED <<invalidations, stale, known, granted, ran, denied>>
    BY DEF Hold, history
  <1>2. CallOK(t) /\ MarkOK(t) /\ call[t].step = "sent" /\ call[t].verb = "run"
    BY DEF CallInv, MarkInv, Hold, Sent
  <1>3. /\ \A u \in Tasks \ {t} : call'[u] = call[u]
        /\ call'[t].step = "answered" /\ call'[t].id = i
        /\ call'[t].answer = "held" /\ call'[t].verb = "run"
        /\ call'[t].request = call[t].request
    BY <1>2, AnsweredCall DEF Hold, Outcomes
  <1>4. call'[t].compound = call[t].compound  BY AnsweredCall DEF Hold, Outcomes
  <1>5. i \notin Taken /\ request' = [request EXCEPT ![i] = call[t].request]
        /\ call[t].request \in Requests
        /\ saved' = [saved EXCEPT ![i] = ContextOf(call[t].request)]
    BY <1>2 DEF Hold, Taken, CallOK
  <1>6. Taken' = Taken \union {i} /\ request'[i] = call[t].request
        /\ \A j \in Taken : request'[j] = request[j]
    BY <1>5 DEF Taken
  <1>7. slot' # None /\ slot'.id = i /\ slot'.approved = {}
    <2>1. PICK a \in Actions : HoldAt(i, a, {})
      BY <1>5 DEF Hold, QuietInv, Stops, Gates
    <2>2. slot' \in Held  BY <2>1 DEF HoldAt, Held
    <2> QED  BY <2>1, <2>2 DEF HoldAt
  <1>8. StateInv'
    <2>1. QuietInv'  BY DEF Hold, Leftover, QuietInv
    <2>2. SlotInv'
      <3>1. i \notin ran \union denied  BY <1>5 DEF HistoryInv
      <3>2. saved'[i] # None /\ saved'[i].adopts = DomainsOf[request'[i]]
        <4>1. ContextOf(call[t].request) \in Context
          BY <1>5 DEF ContextOf, PolicyFor, Context
        <4> QED  BY <1>5, <1>6, <4>1 DEF ContextOf
      <3> QED  BY <1>1, <1>6, <1>7, <3>1, <3>2 DEF SlotInv
    <2>3. HistoryInv'  BY <1>1, <1>6 DEF HistoryInv
    <2>4. HeldMark'  BY <1>1, <1>5, <1>7 DEF HeldMark, HistoryInv
    <2> QED  BY <2>1, <2>2, <2>3, <2>4 DEF StateInv
  <1>9. CallOK(t)' /\ MarkOK(t)'
    BY <1>2, <1>3, <1>4, <1>6 DEF CallOK, MarkOK
  <1>10. \A u \in Tasks \ {t} : CallOK(u)' /\ MarkOK(u)'
    BY <1>3, <1>5, <1>6, <1>7, OtherCalls DEF Names
  <1>11. PageInv'
    BY <1>1, <1>2, <1>3, PageKept
  <1> QED  BY <1>8, <1>9, <1>10, <1>11 DEF CallInv, MarkInv, StateInv

-----------------------------------------------------------------------------
(* Confirmations and denials *)

\* What an accepted confirmation knows of the held command.
LEMMA Accepted ==
  ASSUME ReplayInv, NEW t \in Tasks, Accepts(t)
  PROVE  /\ call[t].step = "sent" /\ call[t].verb = "confirm"
         /\ slot \in Held /\ slot # None /\ slot.id = call[t].id
         /\ call[t].id \in Taken \ (ran \union denied)
         /\ request[call[t].id] \in Requests
         /\ saved[call[t].id] # None
         /\ saved[call[t].id].adopts = DomainsOf[request[call[t].id]]
         /\ request[call[t].id] \in UrlRequests => call[t].compound
         /\ Approvals \in SUBSET Actions
         /\ Approvals \subseteq granted'[call[t].id]
  <1> USE DEF ReplayInv, TypeOK
  <1>1. /\ call[t].step = "sent" /\ call[t].verb = "confirm"
        /\ slot \in Held /\ slot # None /\ slot.id = call[t].id
    BY DEF Accepts, Sent, Names
  <1>2. /\ call[t].id \in Taken \ (ran \union denied)
        /\ saved[call[t].id] # None
        /\ saved[call[t].id].adopts = DomainsOf[request[call[t].id]]
        /\ slot.approved \subseteq granted[call[t].id]
    BY <1>1 DEF SlotInv
  <1>3. request[call[t].id] \in Requests  BY <1>2 DEF Taken
  <1>4. request[call[t].id] \in UrlRequests => call[t].compound
    BY <1>1 DEF MarkInv, MarkOK, Names
  <1>5. Approvals \in SUBSET Actions  BY <1>1 DEF Approvals, Held
  <1>6. granted'[call[t].id] = granted[call[t].id] \union {slot.action}
    BY <1>2 DEF Accepts, Taken
  <1>7. Approvals \subseteq granted'[call[t].id]  BY <1>2, <1>6 DEF Approvals
  <1> QED  BY <1>1, <1>2, <1>3, <1>4, <1>5, <1>7

\* A confirmation or denial that empties the slot leaves nothing to replay.
LEMMA InvEmptied ==
  ASSUME ReplayInv, NEW t \in Tasks, NEW how \in {"done", "void", "failed"},
         call[t].step = "sent", call[t].verb \in {"confirm", "deny"},
         Answered(t, call[t].id, how),
         slot' = None, confirmed' = {},
         UNCHANGED <<request, invalidations, known>>,
         ran' \subseteq ran \union {call[t].id}, denied' \subseteq denied \union {call[t].id},
         stale' => stale \/ call[t].compound
  PROVE  StateInv' /\ CallInv' /\ MarkInv' /\ PageInv'
  <1> USE DEF ReplayInv, TypeOK
  <1>1. CallOK(t) /\ call[t].id \in Taken  BY DEF CallInv, CallOK
  <1>2. call[t].id \in Ids  BY <1>1 DEF Taken
  <1>3. /\ \A u \in Tasks \ {t} : call'[u] = call[u]
        /\ call'[t].step = "answered" /\ call'[t].id = call[t].id
        /\ call'[t].answer = how /\ call'[t].verb = call[t].verb
    BY <1>2, AnsweredCall DEF Outcomes
  <1>4. call'[t].compound = call[t].compound  BY <1>2, AnsweredCall DEF Outcomes
  <1>5. StateInv'
    BY <1>1 DEF StateInv, QuietInv, SlotInv, HistoryInv, HeldMark, Taken
  <1>6. CallOK(t)' /\ MarkOK(t)'  BY <1>1, <1>3 DEF CallOK, MarkOK, Names, Taken
  <1>7. \A u \in Tasks \ {t} : CallOK(u)' /\ MarkOK(u)'
    BY <1>3, OtherCalls DEF Taken, Names
  <1>8. PageInv'
    <2>1. stale' => stale \/ call'[t].compound  BY <1>4
    <2> QED  BY <1>3, <2>1, PageCovered
  <1> QED  BY <1>5, <1>6, <1>7, <1>8 DEF CallInv, MarkInv, StateInv

LEMMA InvConfirmRuns ==
  ASSUME ReplayInv, NEW t \in Tasks, NEW how \in {"done", "failed"}, ConfirmRuns(t, how)
  PROVE  StateInv' /\ CallInv' /\ MarkInv' /\ PageInv'
  <1>1. Accepts(t)  BY DEF ConfirmRuns
  <1>2. stale' => stale \/ call[t].compound
    BY <1>1, Accepted DEF ConfirmRuns, Enter
  <1>3. ran' \subseteq ran \union {call[t].id}
    BY <1>1, Accepted DEF ConfirmRuns, Enter
  <1>4. call[t].step = "sent" /\ call[t].verb \in {"confirm", "deny"}
    BY <1>1, Accepted
  <1> QED  BY <1>2, <1>3, <1>4, InvEmptied DEF ConfirmRuns, Leftover

LEMMA InvConfirmFails ==
  ASSUME ReplayInv, NEW t \in Tasks, ConfirmFails(t)
  PROVE  StateInv' /\ CallInv' /\ MarkInv' /\ PageInv'
  <1>1. Accepts(t)  BY DEF ConfirmFails
  <1>2. stale' => stale \/ call[t].compound
    BY <1>1, Accepted DEF ConfirmFails, Enter
  <1>3. ran' \subseteq ran \union {call[t].id}
    BY <1>1, Accepted DEF ConfirmFails, Enter
  <1>4. call[t].step = "sent" /\ call[t].verb \in {"confirm", "deny"}
    BY <1>1, Accepted
  <1> QED  BY <1>2, <1>3, <1>4, InvEmptied DEF ConfirmFails, Leftover

LEMMA InvConfirmCut ==
  ASSUME ReplayInv, NEW t \in Tasks, ConfirmCut(t)
  PROVE  StateInv' /\ CallInv' /\ MarkInv' /\ PageInv'
  <1>1. Accepts(t)  BY DEF ConfirmCut
  <1>2. stale' => stale \/ call[t].compound
    BY <1>1, Accepted DEF ConfirmCut, Enter
  <1>3. ran' \subseteq ran \union {call[t].id}
    BY <1>1, Accepted DEF ConfirmCut, Enter
  <1>4. call[t].step = "sent" /\ call[t].verb \in {"confirm", "deny"}
    BY <1>1, Accepted
  <1> QED  BY <1>2, <1>3, <1>4, InvEmptied DEF ConfirmCut, Leftover

LEMMA InvDeny ==
  ASSUME ReplayInv, NEW t \in Tasks, NEW how \in {"done", "failed"}, Deny(t, how)
  PROVE  StateInv' /\ CallInv' /\ MarkInv' /\ PageInv'
  BY InvEmptied DEF Deny, Sent, Leftover

\* A replay that is held again keeps its id, its context and its mark.
LEMMA InvConfirmHolds ==
  ASSUME ReplayInv, NEW t \in Tasks, ConfirmHolds(t)
  PROVE  StateInv' /\ CallInv' /\ MarkInv' /\ PageInv'
  <1> USE DEF ReplayInv, TypeOK
  <1> DEFINE i == call[t].id
  <1>0. Accepts(t) /\ UNCHANGED <<request, invalidations, stale, known, ran, denied>>
    BY DEF ConfirmHolds
  <1>1. /\ call[t].step = "sent" /\ call[t].verb = "confirm"
        /\ slot \in Held /\ slot # None /\ slot.id = i
        /\ i \in Taken \ (ran \union denied) /\ request[i] \in Requests
        /\ saved[i] # None /\ saved[i].adopts = DomainsOf[request[i]]
        /\ Approvals \in SUBSET Actions /\ Approvals \subseteq granted'[i]
    BY <1>0, Accepted
  <1>2. request[i] \in UrlRequests => call[t].compound  BY <1>0, Accepted
  <1>3. CallOK(t) /\ MarkOK(t) /\ i \in Ids  BY <1>1 DEF CallInv, MarkInv, Taken
  <1>4. /\ \A u \in Tasks \ {t} : call'[u] = call[u]
        /\ call'[t].step = "answered" /\ call'[t].id = i
        /\ call'[t].answer = "held" /\ call'[t].verb = "confirm"
    BY <1>1, <1>3, AnsweredCall DEF ConfirmHolds, Outcomes
  <1>5. call'[t].compound = call[t].compound
    BY <1>3, AnsweredCall DEF ConfirmHolds, Outcomes
  <1>6. slot' # None /\ slot'.id = i /\ slot'.approved = Approvals
    <2>1. PICK a \in Actions : HoldAt(i, a, Approvals)
      BY <1>1 DEF ConfirmHolds, Stops, Gates
    <2>2. slot' \in Held  BY <1>1, <1>3, <2>1 DEF HoldAt, Held
    <2> QED  BY <2>1, <2>2 DEF HoldAt
  <1>7. StateInv'
    <2>1. QuietInv'  BY DEF ConfirmHolds, Leftover, QuietInv
    <2>2. SlotInv'
      <3>1. saved'[i] = saved[i]  BY <1>1, <1>3 DEF ConfirmHolds, Inherited
      <3> QED  BY <1>0, <1>1, <1>6, <3>1 DEF SlotInv, Taken
    <2>3. HistoryInv'  BY <1>0 DEF HistoryInv, Taken
    <2>4. HeldMark'  BY <1>0, <1>1, <1>6 DEF MarkInv, HeldMark
    <2> QED  BY <2>1, <2>2, <2>3, <2>4 DEF StateInv
  <1>8. CallOK(t)'  BY <1>0, <1>1, <1>4 DEF CallOK, Taken
  <1>9. MarkOK(t)'
    BY <1>0, <1>2, <1>4, <1>5 DEF MarkOK, Names
  <1>10. \A u \in Tasks \ {t} : CallOK(u)' /\ MarkOK(u)'
    BY <1>0, <1>1, <1>4, <1>6, OtherCalls DEF Names, Taken
  <1>11. PageInv'  BY <1>0, <1>1, <1>4, PageKept
  <1> QED  BY <1>7, <1>8, <1>9, <1>10, <1>11 DEF CallInv, MarkInv, StateInv

\* Editing the policy file changes nothing the invariant reads.
LEMMA InvUser ==
  ASSUME ReplayInv, UNCHANGED <<call, native, request, session, invalidations, stale,
                                known, history>>
  PROVE  StateInv' /\ CallInv' /\ MarkInv' /\ PageInv'
  <1>1. UNCHANGED <<call, slot, confirmed, request, saved, invalidations, stale, known,
                    granted, ran, denied>>
    BY DEF native, session, history
  <1>2. StateInv'
    BY <1>1 DEF ReplayInv, MarkInv, StateInv, QuietInv, SlotInv, HistoryInv, HeldMark, Taken
  <1>3. CallInv' /\ MarkInv'
    <2>1. Taken' = Taken  BY <1>1 DEF Taken
    <2>2. \A t \in Tasks : CallOK(t)'  BY <1>1, <2>1 DEF ReplayInv, CallInv, CallOK
    <2>3. \A t \in Tasks : MarkOK(t)'  BY <1>1 DEF ReplayInv, MarkInv, MarkOK, Names
    <2> QED  BY <1>2, <2>2, <2>3 DEF CallInv, MarkInv, StateInv
  <1>4. PageInv'  BY <1>1 DEF ReplayInv, PageInv, Drops
  <1> QED  BY <1>2, <1>3, <1>4

LEMMA InvNext == ReplayInv /\ [Next]_vars => ReplayInv'
  <1> SUFFICES ASSUME ReplayInv, [Next]_vars PROVE ReplayInv'  OBVIOUS
  <1> DEFINE Rest == StateInv' /\ CallInv' /\ MarkInv' /\ PageInv'
  <1>1. ASSUME NEW t \in Tasks, Controller(t)  PROVE TypeOK' /\ Rest
    BY <1>1, TypeController, InvIssue, InvSettle, InvContinue, InvCancel
    DEF Controller, ReplayInv
  <1>2. ASSUME NEW t \in Tasks, Owner(t)  PROVE TypeOK' /\ Rest
    <2>1. TypeOK'  BY <1>2, TypeOwner DEF ReplayInv
    <2>2. Rest
      BY <1>2, InvFail, InvRun, InvHold, InvConfirmRuns, InvConfirmFails, InvConfirmHolds,
         InvConfirmCut, InvDeny
      DEF Owner
    <2> QED  BY <2>1, <2>2
  <1>3. ASSUME User  PROVE TypeOK' /\ Rest
    <2>1. TypeOK'  BY <1>3, TypeUser DEF ReplayInv
    <2>2. UNCHANGED <<call, native, request, session, invalidations, stale, known, history>>
      BY <1>3 DEF User, EditPolicy
    <2> QED  BY <2>1, <2>2, InvUser
  <1>4. ASSUME UNCHANGED vars  PROVE TypeOK' /\ Rest
    <2>1. TypeOK'  BY <1>4 DEF ReplayInv, TypeOK, vars, native, session, history
    <2>2. UNCHANGED <<call, native, request, session, invalidations, stale, known, history>>
      BY <1>4 DEF vars
    <2> QED  BY <2>1, <2>2, InvUser
  <1> QED  BY <1>1, <1>2, <1>3, <1>4 DEF Next, ReplayInv, StateInv

-----------------------------------------------------------------------------
(* Theorems *)

\* The approvals, the held command, its saved context and its page mark fit
\* together in every reachable state.
THEOREM ReplayInvariance == Spec => []ReplayInv
  BY InvInit, InvNext, PTL DEF Spec

\* Every variable keeps its type; in particular a mark is always a real id.
THEOREM TypeCorrect == Spec => []TypeOK
  <1>1. ReplayInv => TypeOK  BY DEF ReplayInv
  <1> QED  BY <1>1, ReplayInvariance, PTL

\* A held command can only be replayed with the context it was issued with.
THEOREM ReplayKeepsItsContext == Spec => []ReplayHasItsContext
  <1>1. ReplayInv => ReplayHasItsContext  BY DEF ReplayInv, SlotInv, ReplayHasItsContext
  <1> QED  BY <1>1, ReplayInvariance, PTL

\* Once no call is in flight the cached page is not one a command left.
THEOREM PageStaysFresh == Spec => []PageIsFresh
  <1>1. ReplayInv => PageIsFresh
    BY DEF ReplayInv, PageInv, Drops, PageIsFresh, Quiescent
  <1> QED  BY <1>1, ReplayInvariance, PTL

-----------------------------------------------------------------------------
(* Action properties *)

\* Only the owner thread's step for task t answers the call of t.
LEMMA AnsweredByOwner ==
  ASSUME ReplayInv, Next, NEW t \in Tasks, Answers(t)
  PROVE  Owner(t)
  <1> USE DEF ReplayInv, TypeOK
  <1>1. call[t].step = "sent" /\ call'[t].step = "answered"  BY DEF Answers
  <1>2. ASSUME NEW u \in Tasks, Controller(u)  PROVE FALSE
    <2>1. ASSUME NEW r \in Requests, Issue(u, r)  PROVE FALSE
      BY <1>1, <2>1, IssuedCall
    <2>2. ASSUME NEW verb \in {"confirm", "deny"}, NEW i \in Ids, Settle(u, verb, i)
          PROVE FALSE
      BY <1>1, <2>2, SettledCall
    <2>3. CASE Continue(u) \/ Cancel(u)
      <3>1. call'[u] = Idle /\ \A v \in Tasks \ {u} : call'[v] = call[v]
        BY <2>3, IdledCall DEF Continue, Cancel
      <3> QED  BY <1>1, <3>1 DEF Idle
    <2> QED  BY <1>2, <2>1, <2>2, <2>3 DEF Controller
  <1>3. ASSUME NEW u \in Tasks, Owner(u)  PROVE u = t
    <2>1. \E i \in Ids \union {None}, how \in Outcomes : Answered(u, i, how)
      <3>1. call[u].id \in Ids \union {None}  BY DEF Calls
      <3> QED
        BY <1>3, <3>1
        DEF Owner, Fail, Run, Hold, ConfirmRuns, ConfirmFails, ConfirmHolds, ConfirmCut, Deny,
            Outcomes
    <2>2. u # t => call'[t] = call[t]  BY <2>1, AnsweredCall
    <2> QED  BY <1>1, <2>2
  <1>4. ~User  BY <1>1 DEF User, EditPolicy
  <1> QED  BY <1>2, <1>3, <1>4 DEF Next

\* A command enters the browser only with the approvals it was given itself.
THEOREM RunsAreApproved == Spec => ApprovedRuns
  <1> DEFINE A == \A i \in ran' \ ran :
                    \A a \in ActionsOf[request'[i]] :
                       rule[a] = "allow" \/ (rule[a] = "confirm" /\ a \in granted'[i])
  <1>1. ASSUME ReplayInv, [Next]_vars  PROVE [A]_vars
    <2> SUFFICES ASSUME Next, NEW i \in ran' \ ran, NEW a \in ActionsOf[request'[i]]
                 PROVE  rule[a] = "allow" \/ (rule[a] = "confirm" /\ a \in granted'[i])
      BY <1>1
    <2> USE <1>1 DEF ReplayInv, TypeOK
    <2>1. PICK t \in Tasks : Owner(t)
      BY DEF Next, Controller, Issue, Settle, Continue, Cancel, User, EditPolicy, history
    <2>2. ASSUME NEW j \in Ids, NEW how \in {"done", "failed"}, Run(t, j, how)
          PROVE  rule[a] = "allow"
      <3>1. i = j  BY <2>2 DEF Run, Enter
      <3>2. call[t].request \in Requests  BY <2>2 DEF Run, Sent, CallInv, CallOK
      <3>3. request'[i] = call[t].request  BY <2>2, <3>1 DEF Run
      <3>4. Free(call[t].request, {})  BY <2>2 DEF Run, QuietInv
      <3> QED  BY <3>2, <3>3, <3>4 DEF Free, Refused, Gates
    <2>3. ASSUME Accepts(t), Free(request[slot.id], Approvals), UNCHANGED request,
                 i = slot.id
          PROVE  rule[a] = "allow" \/ (rule[a] = "confirm" /\ a \in granted'[i])
      <3>1. /\ slot.id = call[t].id /\ request[i] \in Requests
            /\ Approvals \subseteq granted'[i]
        BY <2>3, Accepted
      <3> QED  BY <2>3, <3>1 DEF Free, Refused, Gates
    <2>4. ASSUME NEW how \in {"done", "failed"}, ConfirmRuns(t, how)
          PROVE  rule[a] = "allow" \/ (rule[a] = "confirm" /\ a \in granted'[i])
      BY <2>3, <2>4 DEF ConfirmRuns, Enter
    <2>5. CASE ConfirmFails(t)  BY <2>3, <2>5 DEF ConfirmFails, Enter
    <2>6. CASE ConfirmCut(t)  BY <2>3, <2>6 DEF ConfirmCut, Enter
    <2>7. /\ ~Fail(t) /\ ~ConfirmHolds(t)
          /\ \A j \in Ids : ~Hold(t, j)
          /\ \A how \in {"done", "failed"} : ~Deny(t, how)
      BY DEF Fail, Hold, ConfirmHolds, Deny, history
    <2> QED  BY <2>1, <2>2, <2>4, <2>5, <2>6, <2>7 DEF Owner
  <1> QED  BY <1>1, ReplayInvariance, PTL DEF Spec, ApprovedRuns

\* A command enters the browser at most once, and never once it was denied.
THEOREM CommandsRunOnce == Spec => RunsOnce
  <1> DEFINE A(t) == Answers(t) /\ call'[t].id \in ran \union denied =>
                       /\ call[t].verb # "run"
                       /\ call'[t].answer = "failed"
                       /\ UNCHANGED <<slot, stale, allowlist>>
  <1>1. ASSUME ReplayInv, [Next]_vars  PROVE [\A t \in Tasks : A(t)]_vars
    <2> SUFFICES ASSUME Next, NEW t \in Tasks, Answers(t), call'[t].id \in ran \union denied
                 PROVE  /\ call[t].verb # "run"
                        /\ call'[t].answer = "failed"
                        /\ UNCHANGED <<slot, stale, allowlist>>
      BY <1>1
    <2> USE <1>1 DEF ReplayInv, TypeOK
    <2>1. Owner(t)  BY AnsweredByOwner
    <2>2. call'[t].id \in Taken  BY DEF HistoryInv
    <2>3. ASSUME NEW i \in Ids, NEW how \in {"done", "held", "failed"}, Answered(t, i, how)
          PROVE  call'[t].id = i
      BY <2>3, AnsweredCall DEF Outcomes
    <2>4. ASSUME NEW i \in Ids, NEW how \in {"done", "failed"}, Run(t, i, how)  PROVE FALSE
      BY <2>2, <2>3, <2>4 DEF Run, Taken
    <2>5. ASSUME NEW i \in Ids, Hold(t, i)  PROVE FALSE
      BY <2>2, <2>3, <2>5 DEF Hold, Taken
    <2>6. ASSUME NEW how \in Outcomes, Answered(t, call[t].id, how)
          PROVE  call'[t].id = call[t].id /\ call'[t].answer = how
      <3>1. call[t].id \in Ids \union {None}  BY DEF Calls
      <3> QED  BY <2>6, <3>1, AnsweredCall
    <2>7. ASSUME Accepts(t), NEW how \in Outcomes, Answered(t, call[t].id, how)  PROVE FALSE
      BY <2>6, <2>7, Accepted
    <2>8. ~ConfirmFails(t) /\ ~ConfirmHolds(t) /\ ~ConfirmCut(t)
      BY <2>7 DEF ConfirmFails, ConfirmHolds, ConfirmCut, Outcomes
    <2>9. ASSUME NEW how \in {"done", "failed"}  PROVE ~ConfirmRuns(t, how) /\ ~Deny(t, how)
      <3>1. ~ConfirmRuns(t, how)  BY <2>7 DEF ConfirmRuns, Outcomes
      <3>2. ~Deny(t, how)  BY <2>6 DEF Deny, Names, SlotInv, Outcomes
      <3> QED  BY <3>1, <3>2
    <2>10. Fail(t)  BY <2>1, <2>4, <2>5, <2>8, <2>9 DEF Owner
    <2>11. call[t].verb # "run" /\ call'[t].answer = "failed"
      BY <2>2, <2>6, <2>10 DEF Fail, CallInv, CallOK, Outcomes, Taken
    <2> QED  BY <2>10, <2>11 DEF Fail, native, session
  <1> QED  BY <1>1, ReplayInvariance, PTL DEF Spec, RunsOnce

\* A launch that succeeds adopts its own domains, at once or after any chain of
\* confirmations, and nothing else that is answered moves the allowlist but the
\* success of a command.
THEOREM LaunchesAdoptTheirDomains == Spec => AdoptionFollowsOutcome
  <1> DEFINE R(t) == IF call[t].verb = "run" THEN call[t].request ELSE request[call[t].id]
             A(t) == Answers(t) =>
                       IF call'[t].answer = "done" /\ call[t].verb # "deny"
                         THEN DomainsOf[R(t)] # None => allowlist' = DomainsOf[R(t)]
                         ELSE UNCHANGED allowlist
  <1>1. ASSUME ReplayInv, [Next]_vars  PROVE [\A t \in Tasks : A(t)]_vars
    <2> SUFFICES ASSUME Next, NEW t \in Tasks, Answers(t)
                 PROVE  A(t)
      BY <1>1
    <2> USE <1>1 DEF ReplayInv, TypeOK
    <2>1. Owner(t)  BY AnsweredByOwner
    <2>2. call[t].id \in Ids \union {None}  BY DEF Calls
    <2>3. ASSUME NEW i \in Ids, NEW how \in {"done", "failed"}, Run(t, i, how)  PROVE A(t)
      <3>1. call[t].verb = "run" /\ call'[t].answer = how
        BY <2>3, AnsweredCall DEF Run, Sent, Outcomes
      <3> QED  BY <2>3, <3>1 DEF Run, Finish, ContextOf
    <2>4. ASSUME NEW how \in {"done", "failed"}, ConfirmRuns(t, how)  PROVE A(t)
      <3>1. call[t].verb = "confirm" /\ call'[t].answer = how
        BY <2>2, <2>4, AnsweredCall DEF ConfirmRuns, Accepts, Sent, Outcomes
      <3>2. /\ saved[call[t].id] # None
            /\ saved[call[t].id].adopts = DomainsOf[request[call[t].id]]
        BY <2>4, Accepted DEF ConfirmRuns
      <3> QED  BY <2>4, <3>1, <3>2 DEF ConfirmRuns, Finish
    <2>5. ASSUME NEW how \in {"done", "failed"}, Deny(t, how)  PROVE A(t)
      BY <2>5 DEF Deny, Sent
    <2>6. ASSUME UNCHANGED allowlist, NEW i \in Ids \union {None},
                 NEW how \in {"held", "void", "failed"}, Answered(t, i, how)
          PROVE  A(t)
      BY <2>6, AnsweredCall DEF Outcomes
    <2>7. ASSUME \/ Fail(t) \/ ConfirmFails(t) \/ ConfirmHolds(t) \/ ConfirmCut(t)
                 \/ \E i \in Ids : Hold(t, i)
          PROVE  A(t)
      BY <2>2, <2>6, <2>7 DEF Fail, ConfirmFails, ConfirmHolds, ConfirmCut, Hold, session
    <2> QED  BY <2>1, <2>3, <2>4, <2>5, <2>7 DEF Owner
  <1> QED  BY <1>1, ReplayInvariance, PTL DEF Spec, AdoptionFollowsOutcome
=============================================================================
