----------------------------- MODULE OperationsProofs -----------------------------
(***************************************************************************)
(* A stage of an operation is carried out once and in its turn, and its    *)
(* errors are translated, for any number of operations, users and ids.     *)
(* StagesRunInOrder is not inductive: it says nothing of the calls and     *)
(* pending actions that are still to come.  TurnInv says that what a        *)
(* commanding call or the held confirmation is about to carry out is the   *)
(* first stage not yet carried out, and that only one of them has the turn. *)
(***************************************************************************)
EXTENDS Operations, TLAPS

\* Stage n is what instance i has to carry out next.
Due(i, n) == n = Len(ran[i]) + 1 /\ n <= Len(Stages(i)) /\ outcome[i] # Result

TurnInv ==
    /\ \A u \in Users : Commanding(u) => Due(run[u].of, run[u].at)
    /\ \A c \in held : Due(pending[c].of, pending[c].at)
    /\ \A u, v \in Users : Commanding(u) /\ Commanding(v) /\ run[u].of = run[v].of => u = v
    /\ \A u \in Users, c \in held : Commanding(u) => run[u].of # pending[c].of
    /\ \A c, d \in held : c = d

\* A pending action has its stage and the translations retained for it, and a call
\* that confirms it goes on from there.
ResumeInv ==
    /\ \A c \in Ids : pending[c] # Nil =>
          /\ pending[c].at \in asked[pending[c].of]
          /\ pending[c].at <= Len(Stages(pending[c].of))
          /\ Stages(pending[c].of)[pending[c].at].named \subseteq pending[c].retained
    /\ \A u \in Users : Confirming(u) =>
          /\ pending[run[u].id] # Nil
          /\ run[u].of = pending[run[u].id].of
          /\ run[u].at = pending[run[u].id].at
          /\ run[u].retained = pending[run[u].id].retained

OperationsInv == OperationsTypeOK /\ StagesRunInOrder /\ TurnInv /\ ResumeInv

-----------------------------------------------------------------------------

\* Every operation has stages, and all but the reuse of a tab name the frame's
\* scope in each; those that read through a ref name its staleness in each.
LEMMA OperationStages ==
    ASSUME NEW name \in DOMAIN Operations
    PROVE  /\ Len(Operations[name]) \in Nat \ {0}
           /\ \A n \in 1..Len(Operations[name]) :
                 LET stage == Operations[name][n]
                 IN  /\ stage.named \subseteq Translations
                     /\ stage.try \in {Nil, "wait", "snapshot"}
                     /\ name # "openTab" => "scope" \in stage.named
                     /\ name \in {"text", "contentFrame"} => "stale" \in stage.named
<1> USE DEF Unscoped, OnDocument, OnRef, Evidence, Translations
<1>1. name \in {"click", "text", "contentFrame", "observe", "getFrame", "openTab", "first"}
  BY DEF Operations
<1>2. CASE name = "click"
  <2>1. Operations[name] = Act /\ Len(Act) = 4
    BY <1>2 DEF Operations, Act
  <2>2. 1..Len(Operations[name]) = {1, 2, 3, 4}
    BY <2>1
  <2> QED BY <1>2, <2>1, <2>2 DEF Act
<1>3. CASE name = "text"
  <2>1. Operations[name] = ReadRef /\ Len(ReadRef) = 1
    BY <1>3 DEF Operations, ReadRef
  <2>2. 1..Len(Operations[name]) = {1}
    BY <2>1
  <2> QED BY <1>3, <2>1, <2>2 DEF ReadRef
<1>4. CASE name = "contentFrame"
  <2>1. Operations[name] = ContentFrame /\ Len(ContentFrame) = 2
    BY <1>4 DEF Operations, ContentFrame
  <2>2. 1..Len(Operations[name]) = {1, 2}
    BY <2>1
  <2> QED BY <1>4, <2>1, <2>2 DEF ContentFrame
<1>5. CASE name = "observe"
  <2>1. Operations[name] = Observe /\ Len(Observe) = 1
    BY <1>5 DEF Operations, Observe
  <2>2. 1..Len(Operations[name]) = {1}
    BY <2>1
  <2> QED BY <1>5, <2>1, <2>2 DEF Observe
<1>6. CASE name = "getFrame"
  <2>1. Operations[name] = GetFrame /\ Len(GetFrame) = 3
    BY <1>6 DEF Operations, GetFrame
  <2>2. 1..Len(Operations[name]) = {1, 2, 3}
    BY <2>1
  <2> QED BY <1>6, <2>1, <2>2 DEF GetFrame
<1>7. CASE name = "openTab"
  <2>1. Operations[name] = ReuseTab /\ Len(ReuseTab) = 3
    BY <1>7 DEF Operations, ReuseTab
  <2>2. 1..Len(Operations[name]) = {1, 2, 3}
    BY <2>1
  <2> QED BY <1>7, <2>1, <2>2 DEF ReuseTab
<1>8. CASE name = "first"
  <2>1. Operations[name] = FirstCommand /\ Len(FirstCommand) = 2
    BY <1>8 DEF Operations, FirstCommand
  <2>2. 1..Len(Operations[name]) = {1, 2}
    BY <2>1
  <2> QED BY <1>8, <2>1, <2>2 DEF FirstCommand
<1> QED BY <1>1, <1>2, <1>3, <1>4, <1>5, <1>6, <1>7, <1>8

\* What a stage names and how its failure is reported.
LEMMA StageTypes ==
    ASSUME OperationsTypeOK, NEW i \in Instances, NEW n \in 1..Len(Stages(i))
    PROVE  /\ Stages(i)[n].named \subseteq Translations
           /\ Stages(i)[n].try \in {Nil, "wait", "snapshot"}
           /\ op[i] # "openTab" => "scope" \in Stages(i)[n].named
           /\ op[i] \in {"text", "contentFrame"} => "stale" \in Stages(i)[n].named
<1>1. op[i] \in DOMAIN Operations
  BY DEF OperationsTypeOK
<1> QED BY <1>1, OperationStages DEF Stages

LEMMA StageCount ==
    ASSUME OperationsTypeOK, NEW i \in Instances
    PROVE  Len(Stages(i)) \in Nat \ {0}
<1>1. op[i] \in DOMAIN Operations
  BY DEF OperationsTypeOK
<1> QED BY <1>1, OperationStages DEF Stages

\* A translation of an engine's error is an error, and it is the engine's own only
\* if no translation applies to it.
LEMMA TranslatedErrors ==
    ASSUME NEW code \in Codes, NEW named, NEW again
    PROVE  LET error == Translated(Translated(Raised(code), named), again)
           IN  /\ Translated(Raised(code), named) \in Errors
               /\ error \in Errors
               /\ error.code = code
               /\ error.is = "BrowserError" =>
                     /\ code = "frame_gone" => "scope" \notin named \union again
                     /\ code = "stale_ref" => "stale" \notin named \union again
<1>1. Raised(code) \in Errors /\ Raised(code).code = code
  BY DEF Raised, Errors
<1>2. ASSUME NEW error \in Errors, NEW names
      PROVE  /\ Translated(error, names) \in Errors
             /\ Translated(error, names).code = error.code
             /\ Translated(error, names).is = "BrowserError" =>
                   /\ error.is = "BrowserError"
                   /\ error.code = "frame_gone" => "scope" \notin names
                   /\ error.code = "stale_ref" => "stale" \notin names
  BY DEF Translated, Errors
<1> QED BY <1>1, <1>2

LEMMA ReportedErrors ==
    ASSUME OperationsTypeOK, NEW code \in Codes, NEW u \in Users, run[u].of \in Instances,
           run[u].at \in 1..Len(Stages(run[u].of))
    PROVE  LET error == Reported(run[u], code)
           IN  /\ error \in Errors
               /\ error.is = "BrowserError" =>
                     /\ error.code = "frame_gone" => op[run[u].of] = "openTab"
                     /\ error.code = "stale_ref" => op[run[u].of] \notin {"text", "contentFrame"}
<1>1. [is |-> "ActionTransitionError", code |-> code] \in Errors
  BY DEF Errors
<1> QED BY <1>1, StageTypes, TranslatedErrors DEF Reported

-----------------------------------------------------------------------------

\* An operation that ends, or goes on, is of its type.
LEMMA FinishTypes ==
    ASSUME OperationsTypeOK, NEW u \in Users, NEW i \in Instances,
           NEW answer \in Errors \union {Result, Denied}, Finish(u, i, answer)
    PROVE  (run \in [Users -> Places]
            /\ outcome \in [Instances -> Errors \union {Nil, Result, Denied}])'
<1>1. AtRest \in Places
  BY DEF AtRest, Places
<1> QED BY <1>1 DEF Finish, OperationsTypeOK

LEMMA RanTypes ==
    ASSUME ran \in [Instances -> Seq(Nat)], NEW i \in Instances, NEW n \in Nat,
           ran' = ran \/ ran' = [ran EXCEPT ![i] = Append(@, n)]
    PROVE  ran' \in [Instances -> Seq(Nat)]
<1>1. ran[i] \in Seq(Nat)
  OBVIOUS
<1>2. Append(ran[i], n) \in Seq(Nat)
  BY <1>1
<1> QED BY <1>2

LEMMA GoOnTypes ==
    ASSUME OperationsTypeOK, NEW u \in Users, NEW i \in Instances, GoOn(u, i)
    PROVE  (run \in [Users -> Places]
            /\ ran \in [Instances -> Seq(Nat)]
            /\ outcome \in [Instances -> Errors \union {Nil, Result, Denied}])'
<1>1. (ran \in [Instances -> Seq(Nat)])'
  <2>1. run[u].at \in Nat
    BY DEF OperationsTypeOK, Places
  <2> QED BY <2>1 DEF GoOn, OperationsTypeOK
<1>2. CASE run[u].at = Len(Stages(i))
  BY <1>1, <1>2, FinishTypes DEF GoOn
<1>3. CASE run[u].at # Len(Stages(i))
  <2>1. run[u] \in Places
    BY DEF OperationsTypeOK
  <2>2. ASSUME NEW place \in Places PROVE [place EXCEPT !.at = @ + 1, !.id = Nil] \in Places
    <3>1. [place EXCEPT !.at = @ + 1] \in Places
      BY DEF Places
    <3>2. ASSUME NEW other \in Places PROVE [other EXCEPT !.id = Nil] \in Places
      BY DEF Places
    <3> QED BY <3>1, <3>2
  <2>3. run' = [run EXCEPT ![u] = [run[u] EXCEPT !.at = @ + 1, !.id = Nil]]
    BY <1>3 DEF GoOn
  <2> QED BY <1>1, <1>3, <2>1, <2>2, <2>3 DEF GoOn, OperationsTypeOK
<1> QED BY <1>2, <1>3

\* ResumeInv gives the place of a call that confirms.
LEMMA Placed ==
    ASSUME OperationsTypeOK, TurnInv, ResumeInv, NEW u \in Users, run[u].of # Nil
    PROVE  /\ run[u].of \in Instances
           /\ run[u].at \in Nat /\ run[u].at \in 1..Len(Stages(run[u].of))
           /\ run[u].retained \subseteq Translations
<1>1. run[u].of \in Instances /\ run[u].at \in Nat /\ run[u].retained \subseteq Translations
      /\ run[u].id \in Ids \union {Nil}
  BY DEF OperationsTypeOK, Places
<1>2. Len(ran[run[u].of]) \in Nat /\ Len(Stages(run[u].of)) \in Nat
  BY <1>1, StageCount DEF OperationsTypeOK
<1>3. CASE run[u].id = Nil
  BY <1>1, <1>2, <1>3 DEF TurnInv, Due, Commanding
<1>4. CASE run[u].id # Nil
  <2>1. pending[run[u].id] \in PendingActions
    BY <1>1, <1>4 DEF ResumeInv, Confirming, OperationsTypeOK
  <2> QED BY <1>1, <1>2, <1>4, <2>1 DEF ResumeInv, Confirming, PendingActions
<1> QED BY <1>3, <1>4

LEMMA TypesKept ==
    ASSUME OperationsTypeOK, TurnInv, ResumeInv, OperationsNext
    PROVE  OperationsTypeOK'
<1>0. Result \in Errors \union {Result, Denied} /\ Denied \in Errors \union {Result, Denied}
  OBVIOUS
<1>a. AtRest \in Places
  BY DEF AtRest, Places
<1>1. ASSUME NEW u \in Users, NEW i \in Instances, Begin(u, i) PROVE OperationsTypeOK'
  <2>1. [AtRest EXCEPT !.of = i, !.at = 1] \in Places
    BY DEF AtRest, Places
  <2> QED BY <1>1, <2>1 DEF Begin, OperationsTypeOK
<1>2. ASSUME NEW u \in Users, CommandDone(u) PROVE OperationsTypeOK'
  <2>1. run[u].of \in Instances
    BY <1>2, Placed DEF CommandDone, Commanding
  <2> QED BY <1>2, <2>1, GoOnTypes DEF CommandDone, OperationsTypeOK
<1>3. ASSUME NEW u \in Users, NEW code \in Codes, CommandFails(u, code) PROVE OperationsTypeOK'
  <2>1. /\ run[u].of \in Instances
        /\ run[u].at \in Nat /\ run[u].at \in 1..Len(Stages(run[u].of))
    BY <1>3, Placed DEF CommandFails, Commanding
  <2>2. Reported(run[u], code) \in Errors
    BY <2>1, ReportedErrors
  <2>3. Finish(u, run[u].of, Reported(run[u], code))
    BY <1>3 DEF CommandFails, GoWrong
  <2>4. ran' \in [Instances -> Seq(Nat)]
    <3>1. ran' = ran \/ ran' = [ran EXCEPT ![run[u].of] = Append(@, run[u].at)]
      BY <1>3 DEF CommandFails, GoWrong
    <3> QED BY <2>1, <3>1, RanTypes DEF OperationsTypeOK
  <2> QED BY <1>3, <2>1, <2>2, <2>3, <2>4, FinishTypes DEF CommandFails, OperationsTypeOK
<1>4. ASSUME NEW u \in Users, NEW c \in Ids, CommandAsks(u, c) PROVE OperationsTypeOK'
  <2>1. run[u].of \in Instances /\ run[u].at \in 1..Len(Stages(run[u].of))
        /\ run[u].retained \subseteq Translations
    BY <1>4, Placed DEF CommandAsks, Commanding
  <2>2. RetainedBy(u) \subseteq Translations
    BY <2>1, StageTypes DEF RetainedBy
  <2>3. [of |-> run[u].of, at |-> run[u].at, retained |-> RetainedBy(u)] \in PendingActions
    BY <2>1, <2>2, StageCount DEF PendingActions
  <2> QED BY <1>4, <1>a, <2>1, <2>3, OperationsAssumption DEF CommandAsks, Pause, OperationsTypeOK
<1>5. ASSUME NEW u \in Users, NEW c \in Ids, Confirm(u, c) PROVE OperationsTypeOK'
  <2>1. pending[c] \in PendingActions
    BY <1>5 DEF Confirm, OperationsTypeOK
  <2>2. pending[c].at \in 1..Len(Stages(pending[c].of)) /\ pending[c].of \in Instances
    BY <1>5, <2>1, StageCount DEF Confirm, ResumeInv, PendingActions
  <2>3. [of |-> pending[c].of, at |-> pending[c].at, retained |-> pending[c].retained,
         outside |-> Stages(pending[c].of)[pending[c].at].try, id |-> c] \in Places
    BY <2>1, <2>2, StageTypes DEF Places, PendingActions
  <2> QED BY <1>5, <2>3 DEF Confirm, OperationsTypeOK
<1>6. ASSUME NEW u \in Users, ConfirmDone(u) PROVE OperationsTypeOK'
  <2>1. run[u].of \in Instances
    BY <1>6, Placed DEF ConfirmDone, Confirming
  <2> QED BY <1>6, <2>1, GoOnTypes DEF ConfirmDone, Consumed, OperationsTypeOK
<1>7. ASSUME NEW u \in Users, NEW code \in Codes, ConfirmFails(u, code) PROVE OperationsTypeOK'
  <2>1. run[u].of \in Instances
    BY <1>7, Placed DEF ConfirmFails, Confirming
  <2> DEFINE error == Translated(Raised(code), run[u].retained)
  <2>2. error \in Errors
    BY TranslatedErrors
  <2>3. Finish(u, run[u].of, error)
    BY <1>7 DEF ConfirmFails, GoWrong
  <2>4. ran' \in [Instances -> Seq(Nat)]
    <3>1. ran' = ran \/ ran' = [ran EXCEPT ![run[u].of] = Append(@, run[u].at)]
      BY <1>7 DEF ConfirmFails, GoWrong
    <3>2. run[u].at \in Nat
      BY DEF OperationsTypeOK, Places
    <3> QED BY <2>1, <3>1, <3>2, RanTypes DEF OperationsTypeOK
  <2> HIDE DEF error
  <2> QED BY <1>7, <2>1, <2>2, <2>3, <2>4, FinishTypes DEF ConfirmFails, Consumed, OperationsTypeOK
<1>8. ASSUME NEW u \in Users, ConfirmAsks(u) PROVE OperationsTypeOK'
  <2>1. run[u].of \in Instances /\ run[u].at \in 1..Len(Stages(run[u].of))
    BY <1>8, Placed DEF ConfirmAsks, Confirming
  <2> QED BY <1>8, <1>a, <2>1, StageCount DEF ConfirmAsks, OperationsTypeOK
<1>9. ASSUME NEW u \in Users, ConfirmRefused(u) PROVE OperationsTypeOK'
  BY <1>9, <1>a DEF ConfirmRefused, OperationsTypeOK
<1>10. ASSUME NEW u \in Users, NEW c \in Ids, Deny(u, c) PROVE OperationsTypeOK'
  BY <1>10 DEF Deny, Consumed, OperationsTypeOK
<1> QED BY <1>1, <1>2, <1>3, <1>4, <1>5, <1>6, <1>7, <1>8, <1>9, <1>10 DEF OperationsNext

-----------------------------------------------------------------------------
(* Resuming *)

\* Steps that hand out no pending action and confirm none.
LEMMA ResumeUntouched ==
    ASSUME OperationsTypeOK, ResumeInv, UNCHANGED <<op, pending>>,
           \A i \in Instances : asked[i] \subseteq asked'[i],
           \A v \in Users : run'[v] = run[v] \/ run'[v].of = Nil \/ run'[v].id = Nil
    PROVE  ResumeInv'
<1>1. \A c \in Ids : pending[c] # Nil => pending[c].of \in Instances
  BY DEF OperationsTypeOK, PendingActions
<1> QED BY <1>1 DEF ResumeInv, Confirming, Stages

LEMMA ResumeKept ==
    ASSUME OperationsTypeOK, TurnInv, ResumeInv, OperationsNext
    PROVE  ResumeInv'
<1>a. AtRest.of = Nil /\ AtRest.id = Nil
  BY DEF AtRest
<1>b. \A u \in Users, i \in Instances : \A answer :
         Finish(u, i, answer) => \A v \in Users : run'[v] = run[v] \/ run'[v].of = Nil
  BY <1>a DEF Finish, OperationsTypeOK
<1>c. \A u \in Users, i \in Instances :
         GoOn(u, i) => \A v \in Users : run'[v] = run[v] \/ run'[v].of = Nil \/ run'[v].id = Nil
  <2> SUFFICES ASSUME NEW u \in Users, NEW i \in Instances, GoOn(u, i), NEW v \in Users
               PROVE  run'[v] = run[v] \/ run'[v].of = Nil \/ run'[v].id = Nil
    OBVIOUS
  <2>1. CASE Finish(u, i, Result)
    BY <2>1, <1>b
  <2>2. CASE run' = [run EXCEPT ![u].at = @ + 1, ![u].id = Nil]
    BY <2>2 DEF OperationsTypeOK, Places
  <2> QED BY <2>1, <2>2 DEF GoOn
<1>1. ASSUME NEW u \in Users, NEW i \in Instances, Begin(u, i) PROVE ResumeInv'
  <2>1. run'[u].id = Nil /\ \A v \in Users \ {u} : run'[v] = run[v]
    BY <1>1, <1>a DEF Begin, OperationsTypeOK, AtRest
  <2> QED BY <1>1, <2>1, ResumeUntouched DEF Begin
<1>2. ASSUME NEW u \in Users, CommandDone(u) PROVE ResumeInv'
  BY <1>2, <1>c, Placed, ResumeUntouched DEF CommandDone, Commanding
<1>3. ASSUME NEW u \in Users, NEW code \in Codes, CommandFails(u, code) PROVE ResumeInv'
  BY <1>3, <1>b, Placed, ResumeUntouched DEF CommandFails, Commanding, GoWrong
<1>4. ASSUME NEW u \in Users, NEW c \in Ids, CommandAsks(u, c) PROVE ResumeInv'
  <2> DEFINE i == run[u].of
             handed == [of |-> i, at |-> run[u].at, retained |-> RetainedBy(u)]
  <2>1. i \in Instances /\ run[u].at \in Nat /\ run[u].at \in 1..Len(Stages(i))
    BY <1>4, Placed DEF CommandAsks, Commanding
  <2>2. /\ pending[c] = Nil
        /\ pending' = [pending EXCEPT ![c] = handed]
        /\ asked' = [asked EXCEPT ![i] = @ \union {run[u].at}]
        /\ run' = [run EXCEPT ![u] = AtRest]
        /\ op' = op
    BY <1>4 DEF CommandAsks, Pause
  <2>3. \A d \in Ids \ {c} : pending'[d] = pending[d]
    BY <2>2 DEF OperationsTypeOK
  <2>4. pending'[c] = handed
    BY <2>2 DEF OperationsTypeOK
  <2>5. \A k \in Instances : asked[k] \subseteq asked'[k]
    BY <2>1, <2>2 DEF OperationsTypeOK
  <2>6. run[u].at \in asked'[i]
    BY <2>1, <2>2 DEF OperationsTypeOK
  <2>7. \A d \in Ids : pending[d] # Nil => pending[d].of \in Instances
    BY DEF OperationsTypeOK, PendingActions
  <2>8. Stages(i)[run[u].at].named \subseteq RetainedBy(u)
    BY DEF RetainedBy
  <2>9. op' = op
    BY <2>2
  <2>10. ASSUME NEW d \in Ids, pending'[d] # Nil
         PROVE  /\ pending'[d].at \in asked'[pending'[d].of]
                /\ pending'[d].at <= Len(Stages(pending'[d].of))
                /\ Stages(pending'[d].of)[pending'[d].at].named \subseteq pending'[d].retained
    <3>1. CASE d = c
      BY <2>1, <2>4, <2>6, <2>8, <3>1
    <3>2. CASE d # c
      BY <2>3, <2>5, <2>7, <2>10, <3>2 DEF ResumeInv
    <3> QED BY <3>1, <3>2
  <2>11. ASSUME NEW v \in Users, Confirming(v)'
         PROVE  /\ pending'[run'[v].id] # Nil
                /\ run'[v].of = pending'[run'[v].id].of
                /\ run'[v].at = pending'[run'[v].id].at
                /\ run'[v].retained = pending'[run'[v].id].retained
    <3>1. run'[v] = run[v] /\ Confirming(v)
      BY <1>a, <2>2, <2>11 DEF OperationsTypeOK, Confirming
    <3>2. pending[run[v].id] # Nil /\ run[v].id \in Ids
      BY <3>1 DEF ResumeInv, Confirming, OperationsTypeOK, Places
    <3>3. pending'[run[v].id] = pending[run[v].id]
      BY <2>2, <2>3, <3>2
    <3> QED BY <3>1, <3>2, <3>3 DEF ResumeInv
  <2> QED BY <2>9, <2>10, <2>11 DEF ResumeInv, Stages
<1>5. ASSUME NEW u \in Users, NEW c \in Ids, Confirm(u, c) PROVE ResumeInv'
  <2>1. run'[u].of = pending[c].of /\ run'[u].at = pending[c].at
        /\ run'[u].retained = pending[c].retained /\ run'[u].id = c
        /\ \A v \in Users \ {u} : run'[v] = run[v]
    BY <1>5 DEF Confirm, OperationsTypeOK
  <2>2. pending[c] # Nil /\ UNCHANGED <<op, pending, asked>>
    BY <1>5 DEF Confirm
  <2> QED BY <2>1, <2>2 DEF ResumeInv, Confirming, Stages
<1>6. ASSUME NEW u \in Users, ConfirmDone(u) PROVE ResumeInv'
  BY <1>6, <1>c, Placed, ResumeUntouched DEF ConfirmDone, Confirming
<1>7. ASSUME NEW u \in Users, NEW code \in Codes, ConfirmFails(u, code) PROVE ResumeInv'
  BY <1>7, <1>b, Placed, ResumeUntouched DEF ConfirmFails, Confirming, GoWrong
<1>8. ASSUME NEW u \in Users, ConfirmAsks(u) PROVE ResumeInv'
  <2>1. \A i \in Instances : asked[i] \subseteq asked'[i]
    BY <1>8 DEF ConfirmAsks, OperationsTypeOK
  <2>2. \A v \in Users : run'[v] = run[v] \/ run'[v].of = Nil
    BY <1>8, <1>a DEF ConfirmAsks, OperationsTypeOK
  <2> QED BY <1>8, <2>1, <2>2, ResumeUntouched DEF ConfirmAsks
<1>9. ASSUME NEW u \in Users, ConfirmRefused(u) PROVE ResumeInv'
  <2>1. \A v \in Users : run'[v] = run[v] \/ run'[v].of = Nil
    BY <1>9, <1>a DEF ConfirmRefused, OperationsTypeOK
  <2> QED BY <1>9, <2>1, ResumeUntouched DEF ConfirmRefused
<1>10. ASSUME NEW u \in Users, NEW c \in Ids, Deny(u, c) PROVE ResumeInv'
  BY <1>10, ResumeUntouched DEF Deny
<1> QED BY <1>1, <1>2, <1>3, <1>4, <1>5, <1>6, <1>7, <1>8, <1>9, <1>10 DEF OperationsNext

-----------------------------------------------------------------------------
(* Turns *)

\* A user carries out a stage: its own command, or the held one, which is consumed.
Takes(u) ==
    \/ Commanding(u) /\ held' = held
    \/ Confirming(u) /\ run[u].id \in held /\ held' = Consumed(run[u].id)

\* The next number at the end of a sequence of numbers in order.
LEMMA AppendInOrder ==
    ASSUME NEW s \in Seq(Nat), \A m \in DOMAIN s : s[m] = m
    PROVE  /\ Append(s, Len(s) + 1) \in Seq(Nat)
           /\ Len(Append(s, Len(s) + 1)) = Len(s) + 1
           /\ \A m \in DOMAIN Append(s, Len(s) + 1) : Append(s, Len(s) + 1)[m] = m
<1>1. DOMAIN Append(s, Len(s) + 1) = 1..(Len(s) + 1)
  OBVIOUS
<1>2. \A m \in 1..(Len(s) + 1) : Append(s, Len(s) + 1)[m] = IF m <= Len(s) THEN s[m] ELSE Len(s) + 1
  OBVIOUS
<1> QED BY <1>1, <1>2

LEMMA TurnTaken ==
    ASSUME OperationsInv, NEW u \in Users, Takes(u)
    PROVE  /\ run[u].of \in Instances
           /\ run[u].at \in Nat
           /\ Due(run[u].of, run[u].at)
           /\ \A v \in Users \ {u} : Commanding(v) => run[v].of # run[u].of
           /\ held' \subseteq held
           /\ \A c \in held' : pending[c].of # run[u].of
  BY Placed DEF Takes, OperationsInv, TurnInv, ResumeInv, Commanding, Confirming, Consumed

\* It was the last stage, or it failed: the operation ends with its answer.
LEMMA TurnEnds ==
    ASSUME OperationsInv, NEW u \in Users, Takes(u), UNCHANGED <<op, pending>>,
           NEW answer \in Errors \union {Result}, Finish(u, run[u].of, answer),
           ran' = ran \/ ran' = [ran EXCEPT ![run[u].of] = Append(@, run[u].at)],
           answer = Result => /\ run[u].at = Len(Stages(run[u].of))
                              /\ ran' = [ran EXCEPT ![run[u].of] = Append(@, run[u].at)]
    PROVE  StagesRunInOrder' /\ TurnInv'
<1> DEFINE i == run[u].of
           n == run[u].at
<1>1. /\ i \in Instances /\ n \in Nat /\ Due(i, n)
      /\ \A v \in Users \ {u} : Commanding(v) => run[v].of # i
      /\ held' \subseteq held
      /\ \A c \in held' : pending[c].of # i
  BY TurnTaken
<1>2. ran[i] \in Seq(Nat) /\ n = Len(ran[i]) + 1
  BY <1>1 DEF OperationsInv, OperationsTypeOK, Due
<1>3. /\ \A k \in Instances \ {i} : ran'[k] = ran[k] /\ outcome'[k] = outcome[k]
      /\ outcome'[i] = answer
      /\ ran'[i] = ran[i] \/ ran'[i] = Append(ran[i], n)
      /\ answer = Result => ran'[i] = Append(ran[i], n)
  BY <1>1 DEF Finish, OperationsInv, OperationsTypeOK
<1>4. /\ run'[u].of = Nil
      /\ \A v \in Users \ {u} : run'[v] = run[v]
  BY DEF Finish, AtRest, OperationsInv, OperationsTypeOK
<1>5. \A m \in DOMAIN ran'[i] : ran'[i][m] = m
  <2>1. \A m \in DOMAIN ran[i] : ran[i][m] = m
    BY <1>1 DEF OperationsInv, StagesRunInOrder
  <2> QED BY <1>2, <1>3, <2>1, AppendInOrder
<1>6. answer = Result => Len(ran'[i]) = Len(Stages(i))
  BY <1>2, <1>3
<1> HIDE DEF i, n
<1>7. StagesRunInOrder'
  BY <1>1, <1>3, <1>5, <1>6 DEF StagesRunInOrder, OperationsInv, Stages
<1>8. \A v \in Users : Commanding(v)' => v # u /\ Commanding(v) /\ run[v].of # i
                                         /\ run'[v] = run[v] /\ run[v].of \in Instances
  BY <1>1, <1>4, Placed DEF Commanding, OperationsInv
<1>9. \A k \in Instances \ {i}, m \in Nat : Due(k, m) => Due(k, m)'
  BY <1>3 DEF Due, Stages
<1>10. \A c \in held' : /\ c \in held /\ pending'[c] = pending[c] /\ pending[c].of # i
                        /\ pending[c].of \in Instances /\ pending[c].at \in Nat
  BY <1>1 DEF OperationsInv, OperationsTypeOK, PendingActions
<1>11. \A v \in Users : run[v].at \in Nat
  BY DEF OperationsInv, OperationsTypeOK, Places
<1>12. TurnInv'
  <2>1. \A v \in Users : Commanding(v)' => Due(run[v].of, run[v].at)' /\ run'[v] = run[v]
    BY <1>8, <1>9, <1>11, <1>4 DEF OperationsInv, TurnInv, Due
  <2> QED BY <1>8, <1>9, <1>10, <1>11 DEF OperationsInv, TurnInv
<1> QED BY <1>7, <1>12

\* It was not the last stage: the next one is the user's to command.
Onward(u) ==
    /\ run[u].at # Len(Stages(run[u].of))
    /\ ran' = [ran EXCEPT ![run[u].of] = Append(@, run[u].at)]
    /\ run' = [run EXCEPT ![u].at = @ + 1, ![u].id = Nil]
    /\ UNCHANGED <<op, pending, outcome>>

LEMMA TurnPasses ==
    ASSUME OperationsInv, NEW u \in Users, Takes(u), Onward(u)
    PROVE  StagesRunInOrder' /\ TurnInv'
<1>. PICK i \in Instances, n \in Nat : run[u].of = i /\ run[u].at = n
  BY TurnTaken
<1>1. /\ i \in Instances /\ n \in Nat /\ Due(i, n)
      /\ \A v \in Users \ {u} : Commanding(v) => run[v].of # i
      /\ held' \subseteq held
      /\ \A c \in held' : pending[c].of # i
  BY TurnTaken
<1>2. ran[i] \in Seq(Nat) /\ n = Len(ran[i]) + 1
  BY <1>1 DEF OperationsInv, OperationsTypeOK, Due
<1>3. /\ \A k \in Instances \ {i} : ran'[k] = ran[k]
      /\ ran'[i] = Append(ran[i], n)
  BY <1>1 DEF OperationsInv, OperationsTypeOK, Onward
<1>4. /\ run'[u].of = i /\ run'[u].at = n + 1
      /\ \A v \in Users \ {u} : run'[v] = run[v]
  BY DEF OperationsInv, OperationsTypeOK, Places, Onward
<1>5. (\A m \in DOMAIN ran'[i] : ran'[i][m] = m) /\ Len(ran'[i]) = n
  <2>1. \A m \in DOMAIN ran[i] : ran[i][m] = m
    BY <1>1 DEF OperationsInv, StagesRunInOrder
  <2> QED BY <1>2, <1>3, <2>1, AppendInOrder
<1>6. n <= Len(Stages(i)) /\ n # Len(Stages(i)) /\ Len(Stages(i)) \in Nat /\ outcome[i] # Result
  BY <1>1, StageCount DEF Due, OperationsInv, Onward
<1>0. UNCHANGED <<op, pending, outcome>>
  BY DEF Onward
<1>7. StagesRunInOrder'
  BY <1>0, <1>1, <1>3, <1>5, <1>6 DEF StagesRunInOrder, OperationsInv, Stages
<1>8. \A v \in Users \ {u} : Commanding(v)' => Commanding(v) /\ run[v].of # i
                                               /\ run'[v] = run[v] /\ run[v].of \in Instances
  BY <1>1, <1>4, Placed DEF Commanding, OperationsInv
<1>10. \A c \in held' : /\ c \in held /\ pending'[c] = pending[c] /\ pending[c].of # i
                        /\ pending[c].of \in Instances /\ pending[c].at \in Nat
  BY <1>0, <1>1 DEF OperationsInv, OperationsTypeOK, PendingActions
<1>11. \A v \in Users : run[v].at \in Nat
  BY DEF OperationsInv, OperationsTypeOK, Places
<1>12. Due(i, n + 1)'
  BY <1>0, <1>1, <1>5, <1>6 DEF Due, Stages
<1>13. TurnInv'
  <2>1. \A v \in Users \ {u} : Commanding(v)' => (Due(run[v].of, run[v].at))'
    <3>1. ASSUME NEW v \in Users \ {u}, Commanding(v)'
          PROVE  (Due(run[v].of, run[v].at))'
      <4>1. /\ Due(run[v].of, run[v].at) /\ run'[v] = run[v]
            /\ run[v].of \in Instances \ {i}
        BY <1>8, <3>1 DEF OperationsInv, TurnInv
      <4>2. ran'[run[v].of] = ran[run[v].of]
        BY <1>3, <4>1
      <4> QED BY <1>0, <4>1, <4>2 DEF Due, Stages
    <3> QED BY <3>1
  <2>2. (Due(run[u].of, run[u].at))'
    BY <1>0, <1>4, <1>12 DEF Due, Stages
  <2>3. \A c \in held' : (Due(pending[c].of, pending[c].at))'
    BY <1>0, <1>3, <1>10 DEF OperationsInv, TurnInv, Due, Stages
  <2>4. \A v, w \in Users : Commanding(v)' /\ Commanding(w)' /\ run'[v].of = run'[w].of => v = w
    BY <1>4, <1>8 DEF OperationsInv, TurnInv
  <2>5. \A v \in Users, c \in held' : Commanding(v)' => run'[v].of # pending'[c].of
    BY <1>0, <1>4, <1>8, <1>10 DEF OperationsInv, TurnInv
  <2>6. \A c, d \in held' : c = d
    BY <1>10 DEF OperationsInv, TurnInv
  <2> QED BY <2>1, <2>2, <2>3, <2>4, <2>5, <2>6 DEF TurnInv
<1> QED BY <1>7, <1>13

\* Steps that carry nothing out: who has the turn, and for what, is as it was.
LEMMA TurnStays ==
    ASSUME OperationsInv, UNCHANGED <<op, ran, pending>>,
           \A i \in Instances : outcome'[i] = Result => outcome[i] = Result,
           held' \subseteq held,
           \A v \in Users : Commanding(v)' => run'[v] = run[v]
    PROVE  StagesRunInOrder' /\ TurnInv'
<1>1. StagesRunInOrder'
  BY DEF StagesRunInOrder, OperationsInv, Stages
<1>2. \A v \in Users : Commanding(v)' => Commanding(v) /\ run[v].of \in Instances
  BY Placed DEF Commanding, OperationsInv
<1>3. \A c \in held' : c \in held /\ pending[c].of \in Instances
  BY DEF OperationsInv, OperationsTypeOK, PendingActions
<1>4. TurnInv'
  BY <1>2, <1>3 DEF OperationsInv, TurnInv, Due, Stages
<1> QED BY <1>1, <1>4

\* An error of a stage is not a result.
LEMMA ErrorIsNoResult == \A error \in Errors : error # Result
  BY DEF Errors, Result

\* GoOn, by either kind of turn.
LEMMA GoOnTurns ==
    ASSUME OperationsInv, NEW u \in Users, Takes(u), GoOn(u, run[u].of), UNCHANGED <<op, pending>>
    PROVE  StagesRunInOrder' /\ TurnInv'
<1>1. CASE run[u].at = Len(Stages(run[u].of))
  <2>1. Finish(u, run[u].of, Result) /\ ran' = [ran EXCEPT ![run[u].of] = Append(@, run[u].at)]
    BY <1>1 DEF GoOn
  <2> QED BY <1>1, <2>1, TurnEnds
<1>2. CASE run[u].at # Len(Stages(run[u].of))
  <2>1. Onward(u)
    BY <1>2 DEF GoOn, Onward
  <2> QED BY <2>1, TurnPasses
<1> QED BY <1>1, <1>2

LEMMA TurnsKept ==
    ASSUME OperationsInv, OperationsNext
    PROVE  StagesRunInOrder' /\ TurnInv'
<1>a. AtRest.of = Nil
  BY DEF AtRest
<1>b. OperationsTypeOK /\ TurnInv /\ ResumeInv
  BY DEF OperationsInv
<1>1. ASSUME NEW u \in Users, NEW i \in Instances, Begin(u, i)
      PROVE  StagesRunInOrder' /\ TurnInv'
  <2>1. /\ ran[i] = << >> /\ outcome[i] = Nil /\ asked[i] = {}
        /\ \A v \in Users : run[v].of # i
    BY <1>1 DEF Begin, Started
  <2>2. UNCHANGED <<op, pending, held, ran, outcome>>
    BY <1>1 DEF Begin
  <2>3. /\ run'[u].of = i /\ run'[u].at = 1
        /\ \A v \in Users \ {u} : run'[v] = run[v]
    BY <1>1, <1>b DEF Begin, OperationsTypeOK, AtRest
  <2>4. \A c \in held : pending[c].of \in Instances /\ pending[c].of # i
    BY <1>b, <2>1 DEF OperationsTypeOK, ResumeInv, PendingActions
  <2>5. Len(Stages(i)) \in Nat \ {0} /\ Len(ran[i]) = 0
    BY <1>b, <2>1, StageCount
  <2>6. Nil # Result
    BY OperationsAssumption
  <2>7. (Due(run[u].of, run[u].at))'
    BY <2>1, <2>2, <2>3, <2>5, <2>6 DEF Due, Stages
  <2>8. StagesRunInOrder'
    BY <2>2 DEF OperationsInv, StagesRunInOrder, Stages
  <2>9. \A v \in Users \ {u} : Commanding(v)' => Commanding(v) /\ run[v].of # i
    BY <2>1, <2>3 DEF Commanding
  <2>10. \A v \in Users \ {u} : Commanding(v) => (Due(run[v].of, run[v].at))'
    BY <1>b, <2>2, <2>3 DEF TurnInv, Due, Stages
  <2>11. \A c \in held' : (Due(pending[c].of, pending[c].at))'
    BY <1>b, <2>2 DEF TurnInv, Due, Stages
  <2>12. \A v, w \in Users : Commanding(v)' /\ Commanding(w)' /\ run'[v].of = run'[w].of => v = w
    BY <1>b, <2>3, <2>9 DEF TurnInv
  <2>13. \A v \in Users, c \in held' : Commanding(v)' => run'[v].of # pending'[c].of
    BY <1>b, <2>2, <2>3, <2>4, <2>9 DEF TurnInv
  <2>14. \A c, d \in held' : c = d
    BY <1>b, <2>2 DEF TurnInv
  <2> QED BY <2>7, <2>8, <2>9, <2>10, <2>11, <2>12, <2>13, <2>14 DEF TurnInv
<1>2. ASSUME NEW u \in Users, CommandDone(u)
      PROVE  StagesRunInOrder' /\ TurnInv'
  BY <1>2, GoOnTurns DEF CommandDone, Takes
<1>3. ASSUME NEW u \in Users, NEW code \in Codes, CommandFails(u, code)
      PROVE  StagesRunInOrder' /\ TurnInv'
  <2>1. run[u].of \in Instances /\ run[u].at \in 1..Len(Stages(run[u].of))
    BY <1>3, <1>b, Placed DEF CommandFails, Commanding
  <2>2. Reported(run[u], code) \in Errors
    BY <1>b, <2>1, ReportedErrors
  <2>3. Takes(u) /\ Finish(u, run[u].of, Reported(run[u], code)) /\ UNCHANGED <<op, pending>>
    BY <1>3 DEF CommandFails, GoWrong, Takes
  <2>4. ran' = ran \/ ran' = [ran EXCEPT ![run[u].of] = Append(@, run[u].at)]
    BY <1>3 DEF CommandFails, GoWrong
  <2> QED BY <2>2, <2>3, <2>4, ErrorIsNoResult, TurnEnds
<1>4. ASSUME NEW u \in Users, NEW c \in Ids, CommandAsks(u, c)
      PROVE  StagesRunInOrder' /\ TurnInv'
  <2> DEFINE handed == [of |-> run[u].of, at |-> run[u].at, retained |-> RetainedBy(u)]
  <2>1. /\ pending' = [pending EXCEPT ![c] = handed] /\ held' = {c}
        /\ run' = [run EXCEPT ![u] = AtRest]
        /\ UNCHANGED <<op, ran, outcome>> /\ Commanding(u)
    BY <1>4 DEF CommandAsks, Pause
  <2>2. pending'[c] = handed
    BY <1>b, <2>1 DEF OperationsTypeOK
  <2>3. run'[u].of = Nil /\ \A v \in Users \ {u} : run'[v] = run[v]
    BY <1>a, <1>b, <2>1 DEF OperationsTypeOK
  <2>4. StagesRunInOrder'
    BY <2>1 DEF OperationsInv, StagesRunInOrder, Stages
  <2>5. \A v \in Users : Commanding(v)' => v # u /\ Commanding(v) /\ run'[v] = run[v]
    BY <2>3 DEF Commanding
  <2>6. Due(run[u].of, run[u].at)
    BY <1>b, <2>1 DEF TurnInv
  <2>7. \A d \in held' : (Due(pending[d].of, pending[d].at))'
    BY <2>1, <2>2, <2>6 DEF Due, Stages
  <2>8. \A v \in Users : Commanding(v)' => (Due(run[v].of, run[v].at))'
    BY <1>b, <2>1, <2>5 DEF TurnInv, Due, Stages
  <2>9. \A v \in Users, d \in held' : Commanding(v)' => run'[v].of # pending'[d].of
    BY <1>b, <2>1, <2>2, <2>5 DEF TurnInv
  <2>10. \A v, w \in Users : Commanding(v)' /\ Commanding(w)' /\ run'[v].of = run'[w].of => v = w
    BY <1>b, <2>5 DEF TurnInv
  <2> QED BY <2>1, <2>4, <2>7, <2>8, <2>9, <2>10 DEF TurnInv
<1>5. ASSUME NEW u \in Users, NEW c \in Ids, Confirm(u, c)
      PROVE  StagesRunInOrder' /\ TurnInv'
  <2>1. \A v \in Users : Commanding(v)' => run'[v] = run[v]
    BY <1>5, <1>b, OperationsAssumption DEF Confirm, Commanding, OperationsTypeOK
  <2> QED BY <1>5, <2>1, TurnStays DEF Confirm
<1>6. ASSUME NEW u \in Users, ConfirmDone(u)
      PROVE  StagesRunInOrder' /\ TurnInv'
  BY <1>6, GoOnTurns DEF ConfirmDone, Takes
<1>7. ASSUME NEW u \in Users, NEW code \in Codes, ConfirmFails(u, code)
      PROVE  StagesRunInOrder' /\ TurnInv'
  <2> DEFINE error == Translated(Raised(code), run[u].retained)
  <2>1. error \in Errors
    BY TranslatedErrors
  <2>2. Takes(u) /\ Finish(u, run[u].of, error) /\ UNCHANGED <<op, pending>>
    BY <1>7 DEF ConfirmFails, GoWrong, Takes
  <2>3. ran' = ran \/ ran' = [ran EXCEPT ![run[u].of] = Append(@, run[u].at)]
    BY <1>7 DEF ConfirmFails, GoWrong
  <2> HIDE DEF error
  <2> QED BY <2>1, <2>2, <2>3, ErrorIsNoResult, TurnEnds
<1>8. ASSUME NEW u \in Users, ConfirmAsks(u) \/ ConfirmRefused(u)
      PROVE  StagesRunInOrder' /\ TurnInv'
  <2>1. run' = [run EXCEPT ![u] = AtRest] /\ UNCHANGED <<op, ran, pending, held, outcome>>
    BY <1>8 DEF ConfirmAsks, ConfirmRefused
  <2>2. \A v \in Users : Commanding(v)' => run'[v] = run[v]
    BY <1>a, <1>b, <2>1 DEF Commanding, OperationsTypeOK
  <2> QED BY <2>1, <2>2, TurnStays
<1>9. ASSUME NEW u \in Users, NEW c \in Ids, Deny(u, c)
      PROVE  StagesRunInOrder' /\ TurnInv'
  <2>1. \A i \in Instances : outcome'[i] = Result => outcome[i] = Result
    BY <1>9, <1>b DEF Deny, Denied, Result, OperationsTypeOK
  <2> QED BY <1>9, <2>1, TurnStays DEF Deny, Consumed
<1> QED BY <1>1, <1>2, <1>3, <1>4, <1>5, <1>6, <1>7, <1>8, <1>9 DEF OperationsNext

-----------------------------------------------------------------------------
(* Translation *)

\* What the caller of operation i may get.
MayGet(i, answer) ==
    answer \in Errors /\ answer.is = "BrowserError" =>
        /\ answer.code = "frame_gone" => op[i] = "openTab"
        /\ answer.code = "stale_ref" => op[i] \notin {"text", "contentFrame"}

LEMMA FinishTranslated ==
    ASSUME OperationsTypeOK, ErrorsAreTranslated, NEW u \in Users, NEW i \in Instances, op' = op,
           NEW answer, MayGet(i, answer), outcome' = [outcome EXCEPT ![i] = answer]
    PROVE  ErrorsAreTranslated'
<1>1. /\ outcome'[i] = answer
      /\ \A k \in Instances \ {i} : outcome'[k] = outcome[k]
  BY DEF OperationsTypeOK
<1> QED BY <1>1 DEF ErrorsAreTranslated, MayGet

LEMMA TranslationKept ==
    ASSUME OperationsInv, ErrorsAreTranslated, OperationsNext
    PROVE  ErrorsAreTranslated'
<1>a. OperationsTypeOK /\ TurnInv /\ ResumeInv
  BY DEF OperationsInv
<1>b. Result \notin Errors /\ Denied \notin Errors
  BY DEF Result, Denied, Errors
<1>1. CASE UNCHANGED <<op, outcome>>
  BY <1>1 DEF ErrorsAreTranslated
<1>2. ASSUME NEW u \in Users, NEW i \in Instances, GoOn(u, i), op' = op
      PROVE  ErrorsAreTranslated'
  BY <1>a, <1>b, <1>1, <1>2, FinishTranslated DEF GoOn, Finish, MayGet
<1>3. ASSUME NEW u \in Users, NEW code \in Codes, CommandFails(u, code)
      PROVE  ErrorsAreTranslated'
  <2>1. run[u].of \in Instances /\ run[u].at \in 1..Len(Stages(run[u].of))
    BY <1>3, <1>a, Placed DEF CommandFails, Commanding
  <2>2. MayGet(run[u].of, Reported(run[u], code))
    BY <1>a, <2>1, ReportedErrors DEF MayGet
  <2>3. op' = op /\ Finish(u, run[u].of, Reported(run[u], code))
    BY <1>3 DEF CommandFails, GoWrong
  <2> QED BY <1>a, <2>1, <2>2, <2>3, FinishTranslated DEF Finish
<1>4. ASSUME NEW u \in Users, NEW code \in Codes, ConfirmFails(u, code)
      PROVE  ErrorsAreTranslated'
  <2> DEFINE error == Translated(Raised(code), run[u].retained)
  <2>1. run[u].of \in Instances /\ run[u].at \in 1..Len(Stages(run[u].of)) /\ run[u].id \in Ids
    BY <1>4, <1>a, Placed DEF ConfirmFails, Confirming, OperationsTypeOK
  <2>2. Stages(run[u].of)[run[u].at].named \subseteq run[u].retained
    BY <1>4, <1>a, <2>1 DEF ConfirmFails, ResumeInv
  <2>3. /\ error \in Errors
        /\ error.is = "BrowserError" =>
              /\ error.code = "frame_gone" => "scope" \notin run[u].retained
              /\ error.code = "stale_ref" => "stale" \notin run[u].retained
    BY DEF Translated, Raised, Errors, Codes
  <2>4. op' = op /\ Finish(u, run[u].of, error)
    BY <1>4 DEF ConfirmFails, GoWrong
  <2> HIDE DEF error
  <2>5. MayGet(run[u].of, error)
    BY <1>a, <2>1, <2>2, <2>3, StageTypes DEF MayGet
  <2> QED BY <1>a, <2>1, <2>4, <2>5, FinishTranslated DEF Finish
<1>5. ASSUME NEW u \in Users, NEW c \in Ids, Deny(u, c)
      PROVE  ErrorsAreTranslated'
  <2>1. pending[c].of \in Instances
    BY <1>5, <1>a DEF Deny, OperationsTypeOK, PendingActions
  <2> QED BY <1>5, <1>a, <1>b, <2>1, FinishTranslated DEF Deny, MayGet
<1>6. ASSUME NEW u \in Users, CommandDone(u) \/ ConfirmDone(u)
      PROVE  ErrorsAreTranslated'
  BY <1>6, <1>a, <1>2, Placed DEF CommandDone, ConfirmDone, Commanding, Confirming
<1>7. ASSUME NEW u \in Users, ConfirmAsks(u) \/ ConfirmRefused(u)
      PROVE  ErrorsAreTranslated'
  BY <1>1, <1>7 DEF ConfirmAsks, ConfirmRefused
<1>8. ASSUME NEW u \in Users, NEW i \in Instances, Begin(u, i)
      PROVE  ErrorsAreTranslated'
  BY <1>1, <1>8 DEF Begin
<1>9. ASSUME NEW u \in Users, NEW c \in Ids, CommandAsks(u, c) \/ Confirm(u, c)
      PROVE  ErrorsAreTranslated'
  BY <1>1, <1>9 DEF CommandAsks, Confirm
<1> QED BY <1>3, <1>4, <1>5, <1>6, <1>7, <1>8, <1>9 DEF OperationsNext

-----------------------------------------------------------------------------
(* Late failures *)

\* An operation with something left to carry out has not ended.
OpenInv ==
    /\ \A u \in Users : Commanding(u) => outcome[run[u].of] = Nil
    /\ \A c \in held : outcome[pending[c].of] = Nil

\* A call is outside of a try only because a stage in it asked.
OutsideInv ==
    \A u \in Users : run[u].of # Nil /\ run[u].outside # Nil =>
        \E n \in asked[run[u].of] : Stages(run[u].of)[n].try = run[u].outside

StagedInv == OpenInv /\ OutsideInv /\ LateFailuresAreStaged

\* What LateFailuresAreStaged asks of an answer.
Staged(i, answer, done) ==
    op[i] = "click" /\ answer \in Errors /\ Len(done) >= 1 /\ asked[i] \subseteq {1}
        => answer.is = "ActionTransitionError" \/ (done = <<1>> /\ answer.code = "parse")

\* The action of a transition is in no try; its waits and its snapshot are in one each.
LEMMA ActTries ==
    ASSUME NEW i \in Instances, op[i] = "click"
    PROVE  /\ Len(Stages(i)) = 4
           /\ Stages(i)[1].try = Nil
           /\ \A n \in 2..4 : Stages(i)[n].try # Nil
<1>1. Stages(i) = Act /\ Len(Act) = 4 /\ 2..4 = {2, 3, 4}
  BY DEF Stages, Operations, Act
<1>2. /\ Act[1].try = Nil /\ Act[2].try = "wait" /\ Act[3].try = "wait"
      /\ Act[4].try = "snapshot"
  BY DEF Act, OnRef, Evidence
<1> QED BY <1>1, <1>2, OperationsAssumption

LEMMA StagedEnds ==
    ASSUME OperationsInv, StagedInv, NEW u \in Users, Takes(u), UNCHANGED <<op, pending, asked>>,
           NEW answer, Finish(u, run[u].of, answer),
           ran' = ran \/ ran' = [ran EXCEPT ![run[u].of] = Append(@, run[u].at)],
           Staged(run[u].of, answer, ran'[run[u].of])
    PROVE  StagedInv'
<1> DEFINE i == run[u].of
<1>1. /\ i \in Instances
      /\ \A v \in Users \ {u} : Commanding(v) => run[v].of # i
      /\ held' \subseteq held
      /\ \A c \in held' : pending[c].of # i
  BY TurnTaken
<1>2. /\ run'[u].of = Nil
      /\ \A v \in Users \ {u} : run'[v] = run[v]
  BY DEF Finish, AtRest, OperationsInv, OperationsTypeOK
<1>3. /\ \A k \in Instances \ {i} : ran'[k] = ran[k] /\ outcome'[k] = outcome[k]
      /\ outcome'[i] = answer
  BY <1>1 DEF Finish, OperationsInv, OperationsTypeOK
<1>4. Staged(i, answer, ran'[i])
  OBVIOUS
<1> HIDE DEF i
<1>5. OpenInv'
  <2>1. \A v \in Users : Commanding(v)' => v # u /\ Commanding(v) /\ run'[v] = run[v]
                                           /\ run[v].of \in Instances \ {i}
    BY <1>1, <1>2, Placed DEF Commanding, OperationsInv
  <2>2. \A c \in held' : c \in held /\ pending'[c] = pending[c] /\ pending[c].of \in Instances \ {i}
    BY <1>1 DEF OperationsInv, OperationsTypeOK, PendingActions
  <2> QED BY <1>3, <2>1, <2>2 DEF StagedInv, OpenInv
<1>6. OutsideInv'
  BY <1>2 DEF StagedInv, OutsideInv, Stages
<1>7. LateFailuresAreStaged'
  BY <1>1, <1>3, <1>4 DEF StagedInv, LateFailuresAreStaged, Staged
<1> QED BY <1>5, <1>6, <1>7 DEF StagedInv

LEMMA StagedPasses ==
    ASSUME OperationsInv, StagedInv, NEW u \in Users, Takes(u), Onward(u), UNCHANGED asked
    PROVE  StagedInv'
<1> DEFINE i == run[u].of
<1>1. /\ i \in Instances
      /\ held' \subseteq held
      /\ UNCHANGED <<op, pending, outcome>>
  BY TurnTaken DEF Onward
<1>2. outcome[i] = Nil
  BY <1>1 DEF StagedInv, OpenInv, Takes, OperationsInv, ResumeInv
<1>3. /\ run'[u].of = i /\ run'[u].outside = run[u].outside
      /\ \A v \in Users \ {u} : run'[v] = run[v]
  BY DEF OperationsInv, OperationsTypeOK, Places, Onward
<1>4. \A k \in Instances \ {i} : ran'[k] = ran[k]
  BY <1>1 DEF OperationsInv, OperationsTypeOK, Onward
<1> HIDE DEF i
<1>5. OpenInv'
  BY <1>1, <1>2, <1>3 DEF StagedInv, OpenInv, Commanding
<1>6. run[u].of = i
  BY DEF i
<1>7. OutsideInv'
  BY <1>1, <1>3, <1>6 DEF StagedInv, OutsideInv, Stages
<1>8. LateFailuresAreStaged'
  BY <1>1, <1>2, <1>4, OperationsAssumption DEF StagedInv, LateFailuresAreStaged
<1> QED BY <1>5, <1>7, <1>8 DEF StagedInv

\* Steps that end nothing: at most a stage is found to have asked.
LEMMA StagedStays ==
    ASSUME OperationsInv, StagedInv, UNCHANGED <<op, ran, outcome, pending>>,
           \A i \in Instances : asked[i] \subseteq asked'[i],
           held' \subseteq held,
           \A v \in Users : run'[v] = run[v] \/ run'[v].of = Nil
    PROVE  StagedInv'
<1>1. OpenInv'
  BY DEF StagedInv, OpenInv, Commanding
<1>2. \A v \in Users : run[v].of # Nil => run[v].of \in Instances
  BY DEF OperationsInv, OperationsTypeOK, Places
<1>3. OutsideInv'
  BY <1>2 DEF StagedInv, OutsideInv, Stages
<1>4. LateFailuresAreStaged'
  BY DEF StagedInv, LateFailuresAreStaged
<1> QED BY <1>1, <1>3, <1>4 DEF StagedInv

LEMMA StagedKept ==
    ASSUME OperationsInv, StagedInv, OperationsNext
    PROVE  StagedInv'
<1>a. OperationsTypeOK /\ TurnInv /\ ResumeInv
  BY DEF OperationsInv
<1>b. AtRest.of = Nil /\ AtRest.outside = Nil
  BY DEF AtRest
<1>c. Result \notin Errors /\ Denied \notin Errors
  BY DEF Result, Denied, Errors
<1>1. ASSUME NEW u \in Users, NEW i \in Instances, Begin(u, i) PROVE StagedInv'
  <2>1. outcome[i] = Nil /\ UNCHANGED <<op, pending, held, ran, asked, outcome>>
    BY <1>1 DEF Begin, Started
  <2>2. /\ run'[u].of = i /\ run'[u].outside = Nil
        /\ \A v \in Users \ {u} : run'[v] = run[v]
    BY <1>1, <1>a, <1>b DEF Begin, OperationsTypeOK, AtRest
  <2>3. OpenInv'
    BY <2>1, <2>2 DEF StagedInv, OpenInv, Commanding
  <2>4. OutsideInv'
    BY <2>1, <2>2 DEF StagedInv, OutsideInv, Stages
  <2> QED BY <2>1, <2>3, <2>4 DEF StagedInv, LateFailuresAreStaged
<1>2. ASSUME NEW u \in Users, CommandDone(u) \/ ConfirmDone(u) PROVE StagedInv'
  <2>1. Takes(u) /\ GoOn(u, run[u].of) /\ UNCHANGED <<op, pending, asked>>
    BY <1>2 DEF CommandDone, ConfirmDone, Takes
  <2>2. CASE run[u].at = Len(Stages(run[u].of))
    <3>1. /\ Finish(u, run[u].of, Result)
          /\ ran' = [ran EXCEPT ![run[u].of] = Append(@, run[u].at)]
      BY <2>1, <2>2 DEF GoOn
    <3>2. Staged(run[u].of, Result, ran'[run[u].of])
      BY <1>c DEF Staged
    <3> QED BY <2>1, <3>1, <3>2, StagedEnds
  <2>3. CASE run[u].at # Len(Stages(run[u].of))
    <3>1. Onward(u)
      BY <2>1, <2>3 DEF GoOn, Onward
    <3> QED BY <2>1, <3>1, StagedPasses
  <2> QED BY <2>2, <2>3
<1>3. ASSUME NEW u \in Users, NEW code \in Codes, CommandFails(u, code) PROVE StagedInv'
  <2> DEFINE i == run[u].of
             n == run[u].at
             answer == Reported(run[u], code)
  <2>1. /\ Takes(u) /\ Commanding(u) /\ Finish(u, i, answer)
        /\ UNCHANGED <<op, pending, asked>>
        /\ ran' = IF code = "parse" THEN [ran EXCEPT ![i] = Append(@, n)] ELSE ran
    BY <1>3 DEF CommandFails, GoWrong, Takes
  <2>2. /\ i \in Instances /\ n \in Nat /\ n = Len(ran[i]) + 1 /\ n <= Len(Stages(i))
        /\ ran[i] \in Seq(Nat)
    BY <1>a, <2>1, TurnTaken DEF Due, OperationsTypeOK
  <2>3. ASSUME op[i] = "click", asked[i] \subseteq {1}, Len(ran'[i]) >= 1
        PROVE  answer.is = "ActionTransitionError" \/ (ran'[i] = <<1>> /\ answer.code = "parse")
    <3>1. run[u].outside = Nil
      BY <2>1, <2>2, <2>3, ActTries, OperationsAssumption DEF StagedInv, OutsideInv, Commanding
    <3>2. CASE n = 1
      <4>1. ran[i] = << >>
        BY <2>2, <3>2
      <4>2. code = "parse" /\ ran'[i] = <<1>>
        BY <1>a, <2>1, <2>2, <2>3, <3>2, <4>1 DEF OperationsTypeOK
      <4>3. answer.code = "parse"
        BY <4>2, TranslatedErrors DEF Reported
      <4> QED BY <4>2, <4>3
    <3>3. CASE n # 1
      <4>0. /\ Len(Stages(i)) = 4
            /\ \A m \in 2..4 : Stages(i)[m].try # Nil
        BY <2>2, <2>3, ActTries
      <4>1. n \in Nat /\ n # 1 /\ n >= 1 /\ n <= 4
        <5>1. Len(ran[i]) \in Nat
          BY <2>2
        <5> HIDE DEF n, i
        <5> QED BY <2>2, <3>3, <4>0, <5>1
      <4>2. Stages(i)[n].try # Nil
        <5> HIDE DEF n, i
        <5> QED BY <4>0, <4>1
      <4> QED BY <3>1, <4>2 DEF Reported
    <3> QED BY <3>2, <3>3
  <2>4. Staged(i, answer, ran'[i])
    BY <2>3 DEF Staged
  <2> QED BY <2>1, <2>4, StagedEnds
<1>4. ASSUME NEW u \in Users, NEW code \in Codes, ConfirmFails(u, code) PROVE StagedInv'
  <2> DEFINE i == run[u].of
             n == run[u].at
             answer == Translated(Raised(code), run[u].retained)
  <2>1. /\ Takes(u) /\ Confirming(u) /\ Finish(u, i, answer)
        /\ UNCHANGED <<op, pending, asked>>
        /\ ran' = IF code = "parse" THEN [ran EXCEPT ![i] = Append(@, n)] ELSE ran
    BY <1>4 DEF ConfirmFails, GoWrong, Takes
  <2>2. /\ i \in Instances /\ n \in Nat /\ n = Len(ran[i]) + 1 /\ ran[i] \in Seq(Nat)
    BY <1>a, <2>1, TurnTaken DEF Due, OperationsTypeOK
  <2>3. n \in asked[i]
    BY <1>a, <2>1 DEF ResumeInv, Confirming, OperationsTypeOK, Places
  <2>4. ASSUME asked[i] \subseteq {1}, Len(ran'[i]) >= 1
        PROVE  ran'[i] = <<1>> /\ answer.code = "parse"
    <3>1. n = 1 /\ ran[i] = << >>
      BY <2>2, <2>3, <2>4
    <3>2. code = "parse" /\ ran'[i] = <<1>>
      BY <1>a, <2>1, <2>2, <2>4, <3>1 DEF OperationsTypeOK
    <3> QED BY <3>2 DEF Translated, Raised
  <2>5. Staged(i, answer, ran'[i])
    BY <2>4 DEF Staged
  <2> HIDE DEF answer
  <2> QED BY <2>1, <2>5, StagedEnds
<1>5. ASSUME NEW u \in Users, NEW c \in Ids, CommandAsks(u, c) PROVE StagedInv'
  <2> DEFINE i == run[u].of
  <2>1. /\ Commanding(u) /\ i \in Instances /\ outcome[i] = Nil
    BY <1>5, <1>a, Placed DEF CommandAsks, Commanding, StagedInv, OpenInv
  <2>2. /\ UNCHANGED <<op, ran, outcome>> /\ held' = {c} /\ pending'[c].of = i
        /\ asked' = [asked EXCEPT ![i] = @ \union {run[u].at}]
        /\ run' = [run EXCEPT ![u] = AtRest]
    BY <1>5, <1>a DEF CommandAsks, Pause, OperationsTypeOK
  <2>3. /\ run'[u].of = Nil /\ \A v \in Users \ {u} : run'[v] = run[v]
        /\ \A k \in Instances : asked[k] \subseteq asked'[k]
    BY <1>a, <1>b, <2>1, <2>2 DEF OperationsTypeOK
  <2>4. OpenInv'
    BY <2>1, <2>2, <2>3 DEF StagedInv, OpenInv, Commanding
  <2>5. \A v \in Users : run[v].of # Nil => run[v].of \in Instances
    BY <1>a DEF OperationsTypeOK, Places
  <2>6. OutsideInv'
    BY <2>2, <2>3, <2>5 DEF StagedInv, OutsideInv, Stages
  <2>7. LateFailuresAreStaged'
    BY <2>2, <2>3 DEF StagedInv, LateFailuresAreStaged
  <2> QED BY <2>4, <2>6, <2>7 DEF StagedInv
<1>6. ASSUME NEW u \in Users, NEW c \in Ids, Confirm(u, c) PROVE StagedInv'
  <2>1. /\ UNCHANGED <<op, pending, held, ran, asked, outcome>> /\ pending[c] # Nil
        /\ run'[u].of = pending[c].of /\ run'[u].id = c
        /\ run'[u].outside = Stages(pending[c].of)[pending[c].at].try
        /\ \A v \in Users \ {u} : run'[v] = run[v]
    BY <1>6, <1>a DEF Confirm, OperationsTypeOK
  <2>2. pending[c].at \in asked[pending[c].of] /\ c # Nil
    BY <1>a, <2>1, OperationsAssumption DEF ResumeInv
  <2>3. OpenInv'
    BY <2>1, <2>2 DEF StagedInv, OpenInv, Commanding
  <2>4. OutsideInv'
    BY <2>1, <2>2 DEF StagedInv, OutsideInv, Stages
  <2> QED BY <2>1, <2>3, <2>4 DEF StagedInv, LateFailuresAreStaged
<1>7. ASSUME NEW u \in Users, ConfirmAsks(u) \/ ConfirmRefused(u) PROVE StagedInv'
  <2>1. /\ UNCHANGED <<op, ran, outcome, pending, held>>
        /\ run' = [run EXCEPT ![u] = AtRest]
        /\ \A i \in Instances : asked[i] \subseteq asked'[i]
    <3>1. CASE ConfirmAsks(u)
      BY <3>1, <1>a DEF ConfirmAsks, OperationsTypeOK
    <3>2. CASE ConfirmRefused(u)
      BY <3>2 DEF ConfirmRefused
    <3> QED BY <1>7, <3>1, <3>2
  <2>2. \A v \in Users : run'[v] = run[v] \/ run'[v].of = Nil
    BY <1>a, <1>b, <2>1 DEF OperationsTypeOK
  <2> QED BY <2>1, <2>2, StagedStays
<1>8. ASSUME NEW u \in Users, NEW c \in Ids, Deny(u, c) PROVE StagedInv'
  <2> DEFINE i == pending[c].of
  <2>1. /\ c \in held /\ UNCHANGED <<op, run, pending, ran, asked>> /\ held' = held \ {c}
        /\ outcome' = [outcome EXCEPT ![i] = Denied]
    BY <1>8 DEF Deny, Consumed
  <2>2. \A k \in Instances : outcome'[k] = outcome[k] \/ (k = i /\ outcome'[k] = Denied)
    BY <1>a, <2>1 DEF OperationsTypeOK
  <2>3. /\ \A v \in Users : Commanding(v) => run[v].of \in Instances /\ run[v].of # i
        /\ held' = {}
    BY <1>a, <2>1, Placed DEF TurnInv, Commanding
  <2>4. OpenInv'
    BY <2>1, <2>2, <2>3 DEF StagedInv, OpenInv, Commanding
  <2>5. OutsideInv'
    BY <2>1 DEF StagedInv, OutsideInv, Stages
  <2>6. LateFailuresAreStaged'
    BY <1>c, <2>1, <2>2 DEF StagedInv, LateFailuresAreStaged
  <2> QED BY <2>4, <2>5, <2>6 DEF StagedInv
<1> QED BY <1>1, <1>2, <1>3, <1>4, <1>5, <1>6, <1>7, <1>8 DEF OperationsNext

-----------------------------------------------------------------------------

LEMMA OperationsInitially == OperationsInit => OperationsInv /\ ErrorsAreTranslated
<1> SUFFICES ASSUME OperationsInit PROVE OperationsInv /\ ErrorsAreTranslated
  OBVIOUS
<1>1. AtRest \in Places /\ AtRest.of = Nil
  BY DEF AtRest, Places
<1>2. Nil \notin Errors /\ Nil # Result
  BY OperationsAssumption
<1>3. OperationsTypeOK
  BY <1>1 DEF OperationsInit, OperationsTypeOK
<1>4. StagesRunInOrder /\ ErrorsAreTranslated
  BY <1>2 DEF OperationsInit, StagesRunInOrder, ErrorsAreTranslated
<1>5. TurnInv /\ ResumeInv
  BY <1>1 DEF OperationsInit, TurnInv, ResumeInv, Commanding, Confirming
<1> QED BY <1>3, <1>4, <1>5 DEF OperationsInv

LEMMA OperationsStep ==
    OperationsInv /\ ErrorsAreTranslated /\ [OperationsNext]_operationVars
        => (OperationsInv /\ ErrorsAreTranslated)'
<1> SUFFICES ASSUME OperationsInv, ErrorsAreTranslated, [OperationsNext]_operationVars
             PROVE  (OperationsInv /\ ErrorsAreTranslated)'
  OBVIOUS
<1>1. CASE OperationsNext
  BY <1>1, TypesKept, ResumeKept, TurnsKept, TranslationKept DEF OperationsInv
<1>2. CASE UNCHANGED operationVars
  <2>1. OperationsTypeOK' /\ StagesRunInOrder' /\ ErrorsAreTranslated'
    BY <1>2 DEF operationVars, OperationsInv, OperationsTypeOK, StagesRunInOrder,
                ErrorsAreTranslated, Stages
  <2>2. TurnInv' /\ ResumeInv'
    BY <1>2 DEF operationVars, OperationsInv, TurnInv, ResumeInv, Due, Commanding, Confirming, Stages
  <2> QED BY <2>1, <2>2 DEF OperationsInv
<1> QED BY <1>1, <1>2

\* Operations, pending actions and their answers are of their types
\* (execution/pending.py:20-52).
THEOREM OperationsAreTyped == OperationsSpec => []OperationsTypeOK
<1>1. OperationsInv => OperationsTypeOK
  BY DEF OperationsInv
<1> QED BY OperationsInitially, OperationsStep, <1>1, PTL DEF OperationsSpec

\* However often, in which order and by whom pending actions are confirmed or
\* denied, each stage of an operation runs at most once and in its turn, and a
\* result means that all of them did (pending.py:33-52, evidence/transitions.py:20-74).
THEOREM StagesAlwaysInOrder == OperationsSpec => []StagesRunInOrder
<1>1. OperationsInv => StagesRunInOrder
  BY DEF OperationsInv
<1> QED BY OperationsInitially, OperationsStep, <1>1, PTL DEF OperationsSpec

\* Every pending action is given the translations of all its callers, so no error
\* of the engine passes untranslated (commands.py:128-155, pending.py:54-72).
THEOREM ErrorsAlwaysTranslated == OperationsSpec => []ErrorsAreTranslated
BY OperationsInitially, OperationsStep, PTL DEF OperationsSpec

\* What fails after the action of a transition took effect is reported with its stage,
\* as long as no later stage had to be confirmed, whichever users confirm the action
\* and however often (evidence/transitions.py:32-74).
THEOREM LateFailuresAlwaysStaged == OperationsSpec => []LateFailuresAreStaged
<1>1. OperationsInit => StagedInv
  <2> SUFFICES ASSUME OperationsInit PROVE StagedInv
    OBVIOUS
  <2>1. AtRest.of = Nil /\ \A u \in Users : run[u].of = Nil
    BY DEF OperationsInit, AtRest
  <2> QED BY <2>1, OperationsAssumption
          DEF OperationsInit, StagedInv, OpenInv, OutsideInv, Commanding, LateFailuresAreStaged
<1>2. OperationsInv /\ StagedInv /\ [OperationsNext]_operationVars => StagedInv'
  <2>1. CASE OperationsNext
    BY <2>1, StagedKept
  <2>2. CASE UNCHANGED operationVars
    BY <2>2 DEF operationVars, StagedInv, OpenInv, OutsideInv, Commanding, Stages,
                LateFailuresAreStaged
  <2> QED BY <2>1, <2>2
<1>3. StagedInv => LateFailuresAreStaged
  BY DEF StagedInv
<1> QED BY <1>1, <1>2, <1>3, OperationsInitially, OperationsStep, PTL DEF OperationsSpec
=============================================================================
