------------------------------- MODULE NativeProofs -------------------------------
(***************************************************************************)
(* What is proved of a native session, and of the dashboard sidecars that the *)
(* sessions of one name start and stop.  Neither section uses the other.   *)
(***************************************************************************)
EXTENDS NativeSession, Dashboard, FiniteSetTheorems, TLAPS

-----------------------------------------------------------------------------
(***************************************************************************)
(* The session.                                                            *)
(*                                                                         *)
(* What an interrupted call says of itself, and what is left of a session  *)
(* once dropped, for any number of calls.  Neither is inductive: LineInv   *)
(* says who can be in the mutex' line, CallInv what a call knows at each   *)
(* step, and TeardownInv what the destructor has waited for.               *)
(***************************************************************************)

\* Who waits for the engine, and that a call that runs is the one that holds it.
LineInv ==
    /\ \A u \in ToSet(line) :
          /\ u \in Calls => call[u].step \in {"waiting", "running", "release"}
          /\ u = Maintenance => upkeep.step = "wants"
          /\ u = Dropper => teardown \in {"disable", "shutdown"}
    /\ \A c \in Calls : call[c].step = "running" => Holds(c)

\* What a call knows: it was touched when it came to run, and told of a generation
\* only if it was interrupted then.
Sound(r) ==
    /\ r.step \in {"new", "armed", "waiting"} => r.answer = "none" /\ ~r.touched /\ r.reported = None
    /\ r.step = "running" => r.answer = "none" /\ r.touched /\ r.reported = None
    /\ r.answer = "interrupted" => (r.touched <=> r.reported # None)

\* The calls told of a generation, each of one of its own: that many there were.
Told == {c \in Calls : call[c].reported # None}

CallInv ==
    /\ \A c \in Calls : Sound(call[c])
    /\ \A c \in Told : call[c].reported \in 1..generation
    /\ \A c, d \in Told : call[c].reported = call[d].reported => c = d
    /\ generation = Cardinality(Told)

\* What the destructor has waited for, and who is left to release the dashboard.
TeardownInv ==
    /\ teardown # "no" => \A c \in Calls : call[c].step \in {"new", "answered"}
    /\ teardown \in {"disable", "shutdown", "dropped"} => upkeep.step = "stopped" /\ ~dashboard.slot
    /\ dashboard.live => \/ dashboard.slot \/ teardown = "disable"
                         \/ \E c \in Calls : call[c].step = "release"
    /\ teardown = "dropped" => browser = "none"

NativeInv == NativeTypeOK /\ LineInv /\ CallInv /\ TeardownInv

-----------------------------------------------------------------------------
(* Lines of users, each in it once.                                         *)

LEMMA LineAppend ==
    ASSUME NEW S, NEW s \in Seq(S), IsInjective(s), NEW x \in S, x \notin ToSet(s)
    PROVE  /\ Append(s, x) \in Seq(S) /\ IsInjective(Append(s, x))
           /\ ToSet(Append(s, x)) = ToSet(s) \union {x}
           /\ s # << >> => Append(s, x) # << >> /\ Head(Append(s, x)) = Head(s)
<1>1. /\ DOMAIN Append(s, x) = 1..(Len(s) + 1) /\ Append(s, x)[Len(s) + 1] = x
      /\ \A i \in 1..Len(s) : Append(s, x)[i] = s[i]
  OBVIOUS
<1>2. DOMAIN s = 1..Len(s) /\ Len(s) \in Nat
  OBVIOUS
<1>3. \A i \in 1..Len(s) : s[i] # x
  BY <1>2 DEF ToSet
<1>4. IsInjective(Append(s, x))
  BY <1>1, <1>2, <1>3 DEF IsInjective
<1>5. ToSet(Append(s, x)) = ToSet(s) \union {x}
  BY <1>1, <1>2 DEF ToSet
<1> QED BY <1>4, <1>5

LEMMA LineTail ==
    ASSUME NEW S, NEW s \in Seq(S), IsInjective(s), s # << >>
    PROVE  /\ Tail(s) \in Seq(S) /\ IsInjective(Tail(s))
           /\ ToSet(Tail(s)) = ToSet(s) \ {Head(s)}
           /\ Head(s) \in ToSet(s)
<1>1. /\ DOMAIN Tail(s) = 1..(Len(s) - 1) /\ Len(s) \in Nat \ {0} /\ DOMAIN s = 1..Len(s)
      /\ \A i \in 1..(Len(s) - 1) : Tail(s)[i] = s[i + 1]
      /\ Head(s) = s[1]
  OBVIOUS
<1>2. IsInjective(Tail(s))
  BY <1>1 DEF IsInjective
<1>3. \A i \in 1..(Len(s) - 1) : s[i + 1] # s[1]
  BY <1>1 DEF IsInjective
<1>4. \A j \in 1..Len(s) : s[j] # s[1] => \E i \in 1..(Len(s) - 1) : Tail(s)[i] = s[j]
  <2> SUFFICES ASSUME NEW j \in 1..Len(s), s[j] # s[1]
               PROVE  \E i \in 1..(Len(s) - 1) : Tail(s)[i] = s[j]
    OBVIOUS
  <2>1. j - 1 \in 1..(Len(s) - 1) /\ Tail(s)[j - 1] = s[j]
    BY <1>1
  <2> QED BY <2>1
<1>5. ToSet(Tail(s)) \subseteq ToSet(s) \ {Head(s)}
  <2> SUFFICES ASSUME NEW i \in 1..(Len(s) - 1)
               PROVE  Tail(s)[i] \in ToSet(s) /\ Tail(s)[i] # Head(s)
    BY <1>1 DEF ToSet
  <2>1. i + 1 \in DOMAIN s /\ Tail(s)[i] = s[i + 1] /\ s[i + 1] # s[1]
    BY <1>1, <1>3
  <2> QED BY <1>1, <2>1 DEF ToSet
<1>6. ToSet(s) \ {Head(s)} \subseteq ToSet(Tail(s))
  <2> SUFFICES ASSUME NEW j \in 1..Len(s), s[j] # s[1] PROVE s[j] \in ToSet(Tail(s))
    BY <1>1 DEF ToSet
  <2>1. PICK i \in 1..(Len(s) - 1) : Tail(s)[i] = s[j]
    BY <1>4
  <2> QED BY <1>1, <2>1 DEF ToSet
<1>7. Head(s) \in ToSet(s)
  BY <1>1 DEF ToSet
<1>8. Tail(s) \in Seq(S)
  OBVIOUS
<1> QED BY <1>2, <1>5, <1>6, <1>7, <1>8

LEMMA LineRemove ==
    ASSUME NEW S, NEW s \in Seq(S), IsInjective(s), NEW i \in DOMAIN s
    PROVE  /\ RemoveAt(s, i) \in Seq(S) /\ IsInjective(RemoveAt(s, i))
           /\ ToSet(RemoveAt(s, i)) = ToSet(s) \ {s[i]}
           /\ Head(s) # s[i] => RemoveAt(s, i) # << >> /\ Head(RemoveAt(s, i)) = Head(s)
<1> DEFINE r == RemoveAt(s, i)
<1>1. Len(s) \in Nat /\ DOMAIN s = 1..Len(s) /\ i \in 1..Len(s)
  OBVIOUS
<1>2. /\ SubSeq(s, 1, i - 1) \in Seq(S) /\ Len(SubSeq(s, 1, i - 1)) = i - 1
      /\ \A k \in 1..(i - 1) : SubSeq(s, 1, i - 1)[k] = s[k]
  BY <1>1
<1>3. /\ SubSeq(s, i + 1, Len(s)) \in Seq(S) /\ Len(SubSeq(s, i + 1, Len(s))) = Len(s) - i
      /\ \A k \in 1..(Len(s) - i) : SubSeq(s, i + 1, Len(s))[k] = s[i + k]
  BY <1>1
<1>4. /\ r \in Seq(S) /\ Len(r) = Len(s) - 1
      /\ \A k \in 1..(Len(s) - 1) : r[k] = IF k < i THEN s[k] ELSE s[k + 1]
  <2>1. ASSUME NEW a \in Seq(S), NEW b \in Seq(S)
        PROVE  /\ a \o b \in Seq(S) /\ Len(a \o b) = Len(a) + Len(b)
               /\ \A k \in 1..(Len(a) + Len(b)) :
                     (a \o b)[k] = IF k <= Len(a) THEN a[k] ELSE b[k - Len(a)]
    OBVIOUS
  <2> DEFINE a == SubSeq(s, 1, i - 1)
             b == SubSeq(s, i + 1, Len(s))
  <2>2. r = a \o b
    BY DEF RemoveAt
  <2>3. /\ a \in Seq(S) /\ Len(a) = i - 1 /\ \A k \in 1..(i - 1) : a[k] = s[k]
        /\ b \in Seq(S) /\ Len(b) = Len(s) - i /\ \A k \in 1..(Len(s) - i) : b[k] = s[i + k]
    BY <1>2, <1>3
  <2> HIDE DEF a, b, r
  <2>4. r \in Seq(S) /\ Len(r) = Len(s) - 1
    <3>1. r \in Seq(S) /\ Len(r) = Len(a) + Len(b)
      BY <2>1, <2>2, <2>3
    <3> QED BY <1>1, <2>3, <3>1
  <2>5. ASSUME NEW k \in 1..(Len(s) - 1) PROVE r[k] = IF k < i THEN s[k] ELSE s[k + 1]
    <3>1. CASE k < i
      BY <1>1, <2>1, <2>2, <2>3, <3>1
    <3>2. CASE k >= i
      <4>1. r[k] = b[k - (i - 1)] /\ k - (i - 1) \in 1..(Len(s) - i)
        BY <1>1, <2>1, <2>2, <2>3, <3>2
      <4>2. i + (k - (i - 1)) = k + 1
        BY <1>1
      <4> QED BY <1>1, <2>3, <3>2, <4>1, <4>2
    <3> QED BY <1>1, <3>1, <3>2
  <2> QED BY <2>4, <2>5
<1>5. DOMAIN r = 1..(Len(s) - 1)
  BY <1>4
<1> HIDE DEF r
<1>6. IsInjective(r)
  <2> SUFFICES ASSUME NEW j \in 1..(Len(s) - 1), NEW k \in 1..(Len(s) - 1), r[j] = r[k]
               PROVE  j = k
    BY <1>5 DEF IsInjective
  <2> DEFINE Old(m) == IF m < i THEN m ELSE m + 1
  <2>1. r[j] = s[Old(j)] /\ r[k] = s[Old(k)] /\ Old(j) \in DOMAIN s /\ Old(k) \in DOMAIN s
    BY <1>1, <1>4
  <2>2. Old(j) = Old(k)
    BY <2>1 DEF IsInjective
  <2> QED BY <1>1, <2>2
<1>7. ToSet(r) \subseteq ToSet(s) \ {s[i]}
  BY <1>1, <1>4, <1>5 DEF IsInjective, ToSet
<1>8. ToSet(s) \ {s[i]} \subseteq ToSet(r)
  <2> SUFFICES ASSUME NEW j \in 1..Len(s), j # i PROVE \E k \in 1..(Len(s) - 1) : r[k] = s[j]
    BY <1>1, <1>5 DEF ToSet
  <2>1. CASE j < i
    BY <1>1, <1>4, <2>1
  <2>2. CASE j > i
    <3>1. j - 1 \in 1..(Len(s) - 1) /\ r[j - 1] = s[j]
      BY <1>1, <1>4, <2>2
    <3> QED BY <3>1
  <2> QED BY <1>1, <2>1, <2>2
<1>9. ASSUME Head(s) # s[i] PROVE r # << >> /\ Head(r) = Head(s)
  <2>1. i > 1 /\ Len(s) - 1 > 0
    BY <1>1, <1>9
  <2> QED BY <1>1, <1>4, <2>1
<1> QED BY <1>4, <1>6, <1>7, <1>8, <1>9 DEF r

-----------------------------------------------------------------------------
(* Types *)

LEMMA GenerationTypes == Generations \subseteq Nat /\ None \notin Generations
  BY FS_CardinalityType, NativeAssumption DEF Generations

\* Records of calls with some of their fields set.
LEMMA CallTypes ==
    ASSUME NEW r \in CallRecord
    PROVE  /\ \A s \in {"new", "armed", "waiting", "running", "release", "settle", "answered"} :
                 [r EXCEPT !.step = s] \in CallRecord
           /\ \A a \in {"none", "done", "failed", "stale", "interrupted"} :
                 [r EXCEPT !.answer = a] \in CallRecord
           /\ \A g \in Generations \union {None} :
                 [r EXCEPT !.reported = g] \in CallRecord /\ [r EXCEPT !.ref = g] \in CallRecord
           /\ [r EXCEPT !.late = TRUE] \in CallRecord
           /\ [r EXCEPT !.touched = TRUE] \in CallRecord
  BY DEF CallRecord

-----------------------------------------------------------------------------
(* The line *)

LEMMA Joins ==
    ASSUME NativeTypeOK, NEW u \in Users, u \notin ToSet(line), line' = Append(line, u)
    PROVE  /\ line' \in Seq(Users) /\ IsInjective(line')
           /\ ToSet(line') = ToSet(line) \union {u}
           /\ \A v : Holds(v) => Holds(v)'
  BY LineAppend DEF NativeTypeOK, Holds

LEMMA Leaves ==
    ASSUME NativeTypeOK, NEW u, Holds(u), line' = Tail(line)
    PROVE  /\ line' \in Seq(Users) /\ IsInjective(line')
           /\ ToSet(line') = ToSet(line) \ {u}
           /\ u \in ToSet(line)
  BY LineTail DEF NativeTypeOK, Holds

LEMMA Withdraws ==
    ASSUME NativeTypeOK, NEW i \in DOMAIN line, line' = RemoveAt(line, i)
    PROVE  /\ line' \in Seq(Users) /\ IsInjective(line')
           /\ ToSet(line') = ToSet(line) \ {line[i]}
           /\ \A v : v # line[i] /\ Holds(v) => Holds(v)'
  BY LineRemove DEF NativeTypeOK, Holds

-----------------------------------------------------------------------------
(* Calls *)

\* A step of a call that is told of no generation.
LEMMA CallStep ==
    ASSUME NativeTypeOK, CallInv, NEW c \in Calls, NEW r \in CallRecord,
           call' = [call EXCEPT ![c] = r], generation' = generation,
           r.reported = call[c].reported, Sound(r)
    PROVE  /\ CallInv' /\ call' \in [Calls -> CallRecord]
           /\ call'[c] = r /\ \A d \in Calls \ {c} : call'[d] = call[d]
<1>1. call'[c] = r /\ \A d \in Calls \ {c} : call'[d] = call[d]
  BY DEF NativeTypeOK
<1>2. \A d \in Calls : call'[d].reported = call[d].reported
  BY <1>1
<1>3. Told' = Told
  BY <1>2 DEF Told
<1>4. CallInv'
  BY <1>1, <1>2, <1>3 DEF CallInv, Told
<1> QED BY <1>1, <1>4 DEF NativeTypeOK

\* An interruption tells the call of the next generation.
LEMMA CallTold ==
    ASSUME NativeTypeOK, CallInv, NEW c \in Calls, NEW r,
           call' = [call EXCEPT ![c] = r], generation' = generation + 1,
           call[c].reported = None, r.reported = generation + 1, Sound(r)
    PROVE  /\ CallInv' /\ generation' \in Generations
           /\ call'[c] = r /\ \A d \in Calls \ {c} : call'[d] = call[d]
<1>1. call'[c] = r /\ \A d \in Calls \ {c} : call'[d] = call[d]
  BY DEF NativeTypeOK
<1>2. generation \in Nat /\ generation + 1 # None
  BY GenerationTypes, NativeAssumption DEF NativeTypeOK
<1>3. Told' = Told \union {c} /\ c \notin Told
  BY <1>1, <1>2 DEF Told
<1>4. IsFiniteSet(Calls) /\ Told \subseteq Calls /\ Told' \subseteq Calls
  BY <1>3, NativeAssumption DEF Told
<1>5. Cardinality(Told') = generation + 1 /\ Cardinality(Told') <= Cardinality(Calls)
      /\ Cardinality(Calls) \in Nat
  <2>1. IsFiniteSet(Told) /\ IsFiniteSet(Told')
    BY <1>4, FS_Subset
  <2>2. Cardinality(Told') = Cardinality(Told) + 1
    BY <1>3, <2>1, FS_AddElement
  <2>3. Cardinality(Told') <= Cardinality(Calls) /\ Cardinality(Calls) \in Nat
    BY <1>4, FS_Subset, FS_CardinalityType
  <2> QED BY <2>2, <2>3 DEF CallInv
<1>6. generation' \in Generations
  BY <1>2, <1>5 DEF Generations
<1>7. \A d \in Told : d # c /\ call'[d].reported = call[d].reported /\ call[d].reported \in 1..generation
  BY <1>1, <1>3 DEF CallInv
<1>8. \A d \in Told' : call'[d].reported \in 1..generation'
  BY <1>1, <1>2, <1>3, <1>7
<1>9. \A d, e \in Told' : call'[d].reported = call'[e].reported => d = e
  BY <1>1, <1>2, <1>3, <1>7 DEF CallInv
<1>10. \A d \in Calls : Sound(call'[d])
  BY <1>1 DEF CallInv
<1>11. CallInv'
  BY <1>5, <1>8, <1>9, <1>10 DEF CallInv, Sound
<1> QED BY <1>1, <1>6, <1>11

LEMMA CallsUntouched ==
    ASSUME CallInv, UNCHANGED <<call, generation>>
    PROVE  CallInv'
  BY DEF CallInv, Told, Sound

-----------------------------------------------------------------------------
(* Steps of a call *)

LEMMA ArmKeeps ==
    ASSUME NativeInv, NEW c \in Calls, Arm(c)
    PROVE  NativeInv'
<1> DEFINE r == [[call[c] EXCEPT !.step = "armed"] EXCEPT !.ref = snapshot]
<1>0. /\ NativeTypeOK /\ LineInv /\ CallInv /\ TeardownInv
      /\ call[c] \in CallRecord /\ call[c].step = "new" /\ teardown = "no"
      /\ UNCHANGED <<line, browser, generation, snapshot, dashboard, upkeep, teardown, halfDone>>
  BY DEF NativeInv, NativeTypeOK, Arm
<1>1. call' = [call EXCEPT ![c] = r] /\ r \in CallRecord
  <2>1. snapshot \in Generations \union {None}
    BY <1>0 DEF NativeTypeOK
  <2>2. r \in CallRecord
    BY <1>0, <2>1, CallTypes
  <2> QED BY <1>0, <2>2 DEF Arm, NativeTypeOK, CallRecord
<1>2. r.step = "armed" /\ r.reported = call[c].reported /\ Sound(r)
  BY <1>0 DEF CallRecord, CallInv, Sound
<1> HIDE DEF r
<1>3. /\ CallInv' /\ call' \in [Calls -> CallRecord]
      /\ call'[c] = r /\ \A d \in Calls \ {c} : call'[d] = call[d]
  BY <1>0, <1>1, <1>2, CallStep
<1>4. NativeTypeOK'
  <2>1. token' \in [Calls -> Token]
    BY <1>0 DEF Arm, NativeTypeOK, Token
  <2> QED BY <1>0, <1>3, <2>1 DEF NativeTypeOK
<1>5. LineInv' /\ TeardownInv'
  BY <1>0, <1>2, <1>3 DEF LineInv, Holds, TeardownInv
<1> QED BY <1>3, <1>4, <1>5 DEF NativeInv

LEMMA EnqueueKeeps ==
    ASSUME NativeInv, NEW c \in Calls, Enqueue(c)
    PROVE  NativeInv'
<1> DEFINE ended == [[call[c] EXCEPT !.step = "answered"] EXCEPT !.answer = "interrupted"]
           queued == [call[c] EXCEPT !.step = "waiting"]
<1>0. /\ NativeTypeOK /\ LineInv /\ CallInv /\ TeardownInv
      /\ call[c] \in CallRecord /\ call[c].step = "armed"
      /\ UNCHANGED <<token, browser, generation, snapshot, dashboard, upkeep, teardown, halfDone>>
  BY DEF NativeInv, NativeTypeOK, Enqueue
<1>1. ended \in CallRecord /\ queued \in CallRecord
  BY <1>0, CallTypes
<1>2. /\ ended.step = "answered" /\ ended.reported = call[c].reported /\ Sound(ended)
      /\ queued.step = "waiting" /\ queued.reported = call[c].reported /\ Sound(queued)
  BY <1>0 DEF CallRecord, CallInv, Sound
<1>a. teardown = "no" /\ c \notin ToSet(line)
  BY <1>0 DEF TeardownInv, LineInv, NativeTypeOK
<1>3. CASE call' = [call EXCEPT ![c] = ended] /\ line' = line
  <2>1. /\ CallInv' /\ call' \in [Calls -> CallRecord]
        /\ call'[c] = ended /\ \A d \in Calls \ {c} : call'[d] = call[d]
    BY <1>0, <1>1, <1>2, <1>3, CallStep
  <2> HIDE DEF ended
  <2>2. NativeTypeOK'
    BY <1>0, <1>3, <2>1 DEF NativeTypeOK
  <2>3. LineInv' /\ TeardownInv'
    BY <1>0, <1>2, <1>a, <1>3, <2>1 DEF LineInv, Holds, TeardownInv
  <2> QED BY <2>1, <2>2, <2>3 DEF NativeInv
<1>4. CASE call' = [call EXCEPT ![c] = queued] /\ line' = Append(line, c)
  <2>1. /\ CallInv' /\ call' \in [Calls -> CallRecord]
        /\ call'[c] = queued /\ \A d \in Calls \ {c} : call'[d] = call[d]
    BY <1>0, <1>1, <1>2, <1>4, CallStep
  <2> HIDE DEF queued
  <2>2. /\ line' \in Seq(Users) /\ IsInjective(line')
        /\ ToSet(line') = ToSet(line) \union {c}
        /\ \A v : Holds(v) => Holds(v)'
    BY <1>0, <1>a, <1>4, Joins DEF Users
  <2>3. NativeTypeOK'
    BY <1>0, <2>1, <2>2 DEF NativeTypeOK
  <2>4. LineInv'
    BY <1>0, <1>2, <2>1, <2>2, NativeAssumption DEF LineInv
  <2>5. TeardownInv'
    BY <1>0, <1>2, <1>a, <2>1 DEF TeardownInv
  <2> QED BY <2>1, <2>3, <2>4, <2>5 DEF NativeInv
<1>5. \/ call' = [call EXCEPT ![c] = ended] /\ line' = line
      \/ call' = [call EXCEPT ![c] = queued] /\ line' = Append(line, c)
  BY <1>0 DEF Enqueue, NativeTypeOK, CallRecord
<1> QED BY <1>3, <1>4, <1>5

LEMMA AbandonWaitKeeps ==
    ASSUME NativeInv, NEW c \in Calls, AbandonWait(c)
    PROVE  NativeInv'
<1> DEFINE r == [[call[c] EXCEPT !.step = "answered"] EXCEPT !.answer = "interrupted"]
<1>0. /\ NativeTypeOK /\ LineInv /\ CallInv /\ TeardownInv
      /\ call[c] \in CallRecord /\ call[c].step = "waiting"
      /\ UNCHANGED <<token, browser, generation, snapshot, dashboard, upkeep, teardown, halfDone>>
  BY DEF NativeInv, NativeTypeOK, AbandonWait
<1>1. call' = [call EXCEPT ![c] = r] /\ r \in CallRecord
  <2>1. r \in CallRecord
    BY <1>0, CallTypes
  <2> QED BY <1>0, <2>1 DEF AbandonWait, NativeTypeOK, CallRecord
<1>2. r.step = "answered" /\ r.reported = call[c].reported /\ Sound(r)
  BY <1>0 DEF CallRecord, CallInv, Sound
<1> HIDE DEF r
<1>3. /\ CallInv' /\ call' \in [Calls -> CallRecord]
      /\ call'[c] = r /\ \A d \in Calls \ {c} : call'[d] = call[d]
  BY <1>0, <1>1, <1>2, CallStep
<1>4. PICK i \in DOMAIN line : line[i] = c /\ line' = RemoveAt(line, i)
  BY DEF AbandonWait
<1>5. /\ line' \in Seq(Users) /\ IsInjective(line')
      /\ ToSet(line') = ToSet(line) \ {c}
      /\ \A v : v # c /\ Holds(v) => Holds(v)'
  BY <1>0, <1>4, Withdraws
<1>6. NativeTypeOK'
  BY <1>0, <1>3, <1>5 DEF NativeTypeOK
<1>7. LineInv'
  BY <1>0, <1>2, <1>3, <1>5 DEF LineInv
<1>8. TeardownInv'
  BY <1>0, <1>2, <1>3 DEF TeardownInv
<1> QED BY <1>3, <1>6, <1>7, <1>8 DEF NativeInv

LEMMA StartKeeps ==
    ASSUME NativeInv, NEW c \in Calls, Start(c)
    PROVE  NativeInv'
<1> DEFINE r == [[call[c] EXCEPT !.step = "running"] EXCEPT !.touched = TRUE]
<1>0. /\ NativeTypeOK /\ LineInv /\ CallInv /\ TeardownInv
      /\ call[c] \in CallRecord /\ call[c].step = "waiting" /\ Holds(c)
      /\ UNCHANGED <<token, line, browser, generation, snapshot, dashboard, upkeep, teardown, halfDone>>
  BY DEF NativeInv, NativeTypeOK, Start
<1>1. call' = [call EXCEPT ![c] = r] /\ r \in CallRecord
  <2>1. r \in CallRecord
    BY <1>0, CallTypes
  <2> QED BY <1>0, <2>1 DEF Start, NativeTypeOK, CallRecord
<1>2. r.step = "running" /\ r.reported = call[c].reported /\ Sound(r)
  BY <1>0 DEF CallRecord, CallInv, Sound
<1> HIDE DEF r
<1>3. /\ CallInv' /\ call' \in [Calls -> CallRecord]
      /\ call'[c] = r /\ \A d \in Calls \ {c} : call'[d] = call[d]
  BY <1>0, <1>1, <1>2, CallStep
<1>4. NativeTypeOK'
  BY <1>0, <1>3 DEF NativeTypeOK
<1>5. LineInv' /\ TeardownInv'
  BY <1>0, <1>2, <1>3 DEF LineInv, Holds, TeardownInv
<1> QED BY <1>3, <1>4, <1>5 DEF NativeInv

\* Of two calls that run, both hold the engine: they are one.
LEMMA RunsAlone ==
    ASSUME NativeInv, NEW c \in Calls, Holds(c), NEW d \in Calls \ {c}
    PROVE  call[d].step # "running"
  BY DEF NativeInv, LineInv, Holds

LEMMA InterruptKeeps ==
    ASSUME NativeInv, NEW c \in Calls, Interrupt(c)
    PROVE  NativeInv'
<1> DEFINE r == [[[call[c] EXCEPT !.step = "answered"] EXCEPT !.answer = "interrupted"]
                    EXCEPT !.reported = generation + 1]
<1>0. /\ NativeTypeOK /\ LineInv /\ CallInv /\ TeardownInv
      /\ call[c] \in CallRecord /\ call[c].step = "running" /\ Holds(c)
      /\ line' = Tail(line) /\ generation' = generation + 1
      /\ halfDone' = halfDone \union {generation}
      /\ UNCHANGED <<token, browser, snapshot, dashboard, upkeep, teardown>>
  BY DEF NativeInv, NativeTypeOK, Interrupt, LineInv, NextGeneration
<1>1. call' = [call EXCEPT ![c] = r]
  BY <1>0 DEF Interrupt, NativeTypeOK, CallRecord, NextGeneration
<1>2. /\ r.step = "answered" /\ r.reported = generation + 1
      /\ r.answer = "interrupted" /\ r.touched
  BY <1>0 DEF CallRecord, CallInv, Sound
<1>3. call[c].reported = None /\ generation + 1 # None
  BY <1>0, GenerationTypes, NativeAssumption DEF CallInv, Sound, NativeTypeOK
<1>4. Sound(r)
  BY <1>2, <1>3 DEF Sound
<1>5. /\ CallInv' /\ generation' \in Generations
      /\ call'[c] = r /\ \A d \in Calls \ {c} : call'[d] = call[d]
  <2> HIDE DEF r
  <2> QED BY <1>0, <1>1, <1>2, <1>3, <1>4, CallTold
<1>6. r \in CallRecord
  BY <1>0, <1>5, CallTypes
<1> HIDE DEF r
<1>7. /\ line' \in Seq(Users) /\ IsInjective(line')
      /\ ToSet(line') = ToSet(line) \ {c}
  BY <1>0, Leaves
<1>8. NativeTypeOK'
  BY <1>0, <1>1, <1>5, <1>6, <1>7 DEF NativeTypeOK
<1>9. LineInv'
  BY <1>0, <1>2, <1>5, <1>7, RunsAlone DEF LineInv
<1>10. TeardownInv'
  BY <1>0, <1>2, <1>5 DEF TeardownInv
<1> QED BY <1>5, <1>8, <1>9, <1>10 DEF NativeInv

LEMMA DeadlineKeeps ==
    ASSUME NativeInv, NEW c \in Calls, DeadlineEnds(c)
    PROVE  NativeInv'
<1> DEFINE r == [call[c] EXCEPT !.late = TRUE]
<1>0. /\ NativeTypeOK /\ LineInv /\ CallInv /\ TeardownInv
      /\ call[c] \in CallRecord
      /\ UNCHANGED <<token, line, browser, generation, snapshot, dashboard, upkeep, teardown, halfDone>>
  BY DEF NativeInv, NativeTypeOK, DeadlineEnds
<1>1. call' = [call EXCEPT ![c] = r] /\ r \in CallRecord
  BY <1>0, CallTypes DEF DeadlineEnds, NativeTypeOK
<1>2. r.step = call[c].step /\ r.reported = call[c].reported /\ Sound(r)
  BY <1>0 DEF CallRecord, CallInv, Sound
<1> HIDE DEF r
<1>3. /\ CallInv' /\ call' \in [Calls -> CallRecord]
      /\ call'[c] = r /\ \A d \in Calls \ {c} : call'[d] = call[d]
  BY <1>0, <1>1, <1>2, CallStep
<1>4. NativeTypeOK'
  BY <1>0, <1>3 DEF NativeTypeOK
<1>5. \A d \in Calls : call'[d].step = call[d].step
  BY <1>2, <1>3
<1>6. LineInv' /\ TeardownInv'
  BY <1>0, <1>5 DEF LineInv, Holds, TeardownInv
<1> QED BY <1>3, <1>4, <1>6 DEF NativeInv

LEMMA CancelKeeps ==
    ASSUME NativeInv, NEW c \in Calls, StoreCancel(c) \/ WakeWaiters(c)
    PROVE  NativeInv'
<1>0. /\ NativeTypeOK /\ LineInv /\ CallInv /\ TeardownInv
      /\ UNCHANGED <<call, line, browser, generation, snapshot, dashboard, upkeep, teardown, halfDone>>
  BY DEF NativeInv, StoreCancel, WakeWaiters
<1>1. token' \in [Calls -> Token]
  <2>1. token[c] \in Token
    BY <1>0 DEF NativeTypeOK
  <2>2. CASE StoreCancel(c)
    <3>1. [[token[c] EXCEPT !.cancelled = TRUE] EXCEPT !.cancel = "stored"] \in Token
      BY <2>1 DEF Token
    <3>2. token' = [token EXCEPT ![c] = [[token[c] EXCEPT !.cancelled = TRUE] EXCEPT !.cancel = "stored"]]
      BY <1>0, <2>1, <2>2 DEF StoreCancel, NativeTypeOK, Token
    <3> QED BY <1>0, <3>1, <3>2 DEF NativeTypeOK
  <2>3. CASE WakeWaiters(c)
    <3>1. [[token[c] EXCEPT !.cancel = "done"] EXCEPT !.woken = token[c].enabled] \in Token
      BY <2>1 DEF Token
    <3>2. token' = [token EXCEPT ![c] = [[token[c] EXCEPT !.cancel = "done"] EXCEPT !.woken = token[c].enabled]]
      BY <1>0, <2>1, <2>3 DEF WakeWaiters, NativeTypeOK, Token
    <3> QED BY <1>0, <3>1, <3>2 DEF NativeTypeOK
  <2> QED BY <2>2, <2>3
<1>2. NativeTypeOK'
  BY <1>0, <1>1 DEF NativeTypeOK
<1>3. LineInv' /\ TeardownInv' /\ CallInv'
  BY <1>0, CallsUntouched DEF LineInv, Holds, TeardownInv
<1> QED BY <1>2, <1>3 DEF NativeInv

LEMMA FinishKeeps ==
    ASSUME NativeInv, NEW c \in Calls, Finish(c)
    PROVE  NativeInv'
<1> DEFINE step(a) == IF call[c].kind = "close" /\ a = "done" THEN "settle" ELSE "answered"
           r(a) == [[call[c] EXCEPT !.answer = a] EXCEPT !.step = step(a)]
<1>0. /\ NativeTypeOK /\ LineInv /\ CallInv /\ TeardownInv
      /\ call[c] \in CallRecord /\ call[c].step = "running" /\ Holds(c)
      /\ line' = Tail(line)
      /\ browser' = IF call[c].kind = "close" THEN "none" ELSE IF browser = "none" THEN "up" ELSE browser
      /\ UNCHANGED <<token, generation, dashboard, upkeep, teardown, halfDone>>
  BY DEF NativeInv, NativeTypeOK, Finish, LineInv
<1>1. PICK a \in Answers(c) :
        /\ call' = [call EXCEPT ![c].answer = a, ![c].step = step(a)]
        /\ snapshot' = IF call[c].kind = "snapshot" /\ a = "done" THEN generation ELSE snapshot
  BY DEF Finish
<1>2. a \in {"done", "failed", "stale"}
  BY <1>1 DEF Answers
<1>3. r(a) \in CallRecord /\ call' = [call EXCEPT ![c] = r(a)]
  <2>1. r(a) \in CallRecord
    BY <1>0, <1>2, CallTypes
  <2> QED BY <1>0, <1>1, <2>1 DEF NativeTypeOK, CallRecord
<1>4. r(a).step \in {"settle", "answered"} /\ r(a).reported = call[c].reported /\ Sound(r(a))
  BY <1>0, <1>2 DEF CallRecord, CallInv, Sound
<1> HIDE DEF r, step
<1>5. /\ CallInv' /\ call' \in [Calls -> CallRecord]
      /\ call'[c] = r(a) /\ \A d \in Calls \ {c} : call'[d] = call[d]
  BY <1>0, <1>3, <1>4, CallStep
<1>6. /\ line' \in Seq(Users) /\ IsInjective(line')
      /\ ToSet(line') = ToSet(line) \ {c}
  BY <1>0, Leaves
<1>7. NativeTypeOK'
  BY <1>0, <1>1, <1>5, <1>6 DEF NativeTypeOK
<1>8. LineInv'
  BY <1>0, <1>4, <1>5, <1>6, RunsAlone DEF LineInv
<1>9. teardown = "no"
  BY <1>0 DEF TeardownInv
<1>10. TeardownInv'
  BY <1>0, <1>4, <1>5, <1>9 DEF TeardownInv
<1> QED BY <1>5, <1>7, <1>8, <1>10 DEF NativeInv

LEMMA SidecarTypes ==
    ASSUME NativeTypeOK
    PROVE  /\ [dashboard EXCEPT !.slot = FALSE] \in [slot : BOOLEAN, live : BOOLEAN]
           /\ [dashboard EXCEPT !.live = FALSE] \in [slot : BOOLEAN, live : BOOLEAN]
           /\ [dashboard EXCEPT !.slot = FALSE].slot = FALSE
           /\ [dashboard EXCEPT !.slot = FALSE].live = dashboard.live
           /\ [dashboard EXCEPT !.live = FALSE].live = FALSE
           /\ [dashboard EXCEPT !.live = FALSE].slot = dashboard.slot
  BY DEF NativeTypeOK

LEMMA TakeSidecarKeeps ==
    ASSUME NativeInv, NEW c \in Calls, TakeSidecar(c)
    PROVE  NativeInv'
<1> DEFINE r(s) == [call[c] EXCEPT !.step = s]
<1>0. /\ NativeTypeOK /\ LineInv /\ CallInv /\ TeardownInv
      /\ call[c] \in CallRecord /\ call[c].step = "settle"
      /\ dashboard' = [dashboard EXCEPT !.slot = FALSE]
      /\ UNCHANGED <<token, browser, generation, snapshot, upkeep, teardown, halfDone>>
  BY DEF NativeInv, NativeTypeOK, TakeSidecar
<1>1. /\ dashboard' \in [slot : BOOLEAN, live : BOOLEAN]
      /\ ~dashboard'.slot /\ dashboard'.live = dashboard.live
  BY <1>0, SidecarTypes
<1>2. PICK s \in {"release", "answered"} :
        /\ call' = [call EXCEPT ![c] = r(s)]
        /\ s = "release" => line' = Append(line, c)
        /\ s = "answered" => line' = line /\ ~dashboard.slot
  BY <1>0 DEF TakeSidecar
<1>3. r(s) \in CallRecord /\ r(s).step = s /\ r(s).reported = call[c].reported /\ Sound(r(s))
  <2>1. r(s) \in CallRecord
    BY <1>0, CallTypes
  <2> QED BY <1>0, <2>1 DEF CallRecord, CallInv, Sound
<1> HIDE DEF r
<1>4. /\ CallInv' /\ call' \in [Calls -> CallRecord]
      /\ call'[c] = r(s) /\ \A d \in Calls \ {c} : call'[d] = call[d]
  BY <1>0, <1>2, <1>3, CallStep
<1>a. teardown = "no" /\ c \notin ToSet(line)
  BY <1>0 DEF TeardownInv, LineInv, NativeTypeOK
<1>5. /\ line' \in Seq(Users) /\ IsInjective(line')
      /\ ToSet(line') = ToSet(line) \union (IF s = "release" THEN {c} ELSE {})
      /\ \A v : Holds(v) => Holds(v)'
  <2>1. CASE s = "release"
    BY <1>0, <1>2, <1>a, <2>1, Joins DEF Users
  <2>2. CASE s = "answered"
    BY <1>0, <1>2, <2>2 DEF NativeTypeOK, Holds
  <2> QED BY <2>1, <2>2
<1>6. NativeTypeOK'
  BY <1>0, <1>1, <1>4, <1>5 DEF NativeTypeOK
<1>7. LineInv'
  BY <1>0, <1>3, <1>4, <1>5, <1>a, NativeAssumption DEF LineInv
<1>8. TeardownInv'
  BY <1>0, <1>1, <1>2, <1>3, <1>4, <1>a DEF TeardownInv
<1> QED BY <1>4, <1>6, <1>7, <1>8 DEF NativeInv

LEMMA ReleaseSidecarKeeps ==
    ASSUME NativeInv, NEW c \in Calls, ReleaseSidecar(c)
    PROVE  NativeInv'
<1> DEFINE r == [call[c] EXCEPT !.step = "answered"]
<1>0. /\ NativeTypeOK /\ LineInv /\ CallInv /\ TeardownInv
      /\ call[c] \in CallRecord /\ call[c].step = "release" /\ Holds(c)
      /\ dashboard' = [dashboard EXCEPT !.live = FALSE]
      /\ line' = Tail(line)
      /\ call' = [call EXCEPT ![c] = r]
      /\ UNCHANGED <<token, browser, generation, snapshot, upkeep, teardown, halfDone>>
  BY DEF NativeInv, NativeTypeOK, ReleaseSidecar
<1>1. /\ dashboard' \in [slot : BOOLEAN, live : BOOLEAN]
      /\ ~dashboard'.live /\ dashboard'.slot = dashboard.slot
  BY <1>0, SidecarTypes
<1>2. r \in CallRecord /\ r.step = "answered" /\ r.reported = call[c].reported /\ Sound(r)
  <2>1. r \in CallRecord
    BY <1>0, CallTypes
  <2> QED BY <1>0, <2>1 DEF CallRecord, CallInv, Sound
<1> HIDE DEF r
<1>3. /\ CallInv' /\ call' \in [Calls -> CallRecord]
      /\ call'[c] = r /\ \A d \in Calls \ {c} : call'[d] = call[d]
  BY <1>0, <1>2, CallStep
<1>4. /\ line' \in Seq(Users) /\ IsInjective(line')
      /\ ToSet(line') = ToSet(line) \ {c}
  BY <1>0, Leaves
<1>5. NativeTypeOK'
  BY <1>0, <1>1, <1>3, <1>4 DEF NativeTypeOK
<1>6. LineInv'
  BY <1>0, <1>2, <1>3, <1>4, RunsAlone DEF LineInv
<1>7. TeardownInv'
  BY <1>0, <1>1, <1>2, <1>3 DEF TeardownInv
<1> QED BY <1>3, <1>5, <1>6, <1>7 DEF NativeInv

-----------------------------------------------------------------------------
(* Steps of the maintenance task and of the destructor *)

LEMMA MaintenanceKeeps ==
    ASSUME NativeInv, Tick \/ Maintain \/ Break \/ BrowserDies
    PROVE  NativeInv'
<1>0. /\ NativeTypeOK /\ LineInv /\ CallInv /\ TeardownInv
      /\ UNCHANGED <<call, token, generation, snapshot, dashboard, teardown, halfDone>>
  BY DEF NativeInv, Tick, Maintain, Break, BrowserDies
<1>1. CallInv'
  BY <1>0, CallsUntouched
<1>2. CASE Tick
  <2>1. upkeep.step = "idle" /\ upkeep' = [upkeep EXCEPT !.step = "wants"]
        /\ line' = Append(line, Maintenance) /\ browser' = browser
    BY <1>2 DEF Tick
  <2>2. Maintenance \notin ToSet(line) /\ Maintenance \in Users
    BY <1>0, <2>1 DEF LineInv, Users
  <2>3. /\ line' \in Seq(Users) /\ IsInjective(line')
        /\ ToSet(line') = ToSet(line) \union {Maintenance}
        /\ \A v : Holds(v) => Holds(v)'
    BY <1>0, <2>1, <2>2, Joins
  <2>4. NativeTypeOK'
    BY <1>0, <2>1, <2>3 DEF NativeTypeOK
  <2>5. LineInv'
    BY <1>0, <2>1, <2>3, NativeAssumption DEF LineInv, NativeTypeOK
  <2>6. TeardownInv'
    BY <1>0, <2>1 DEF TeardownInv
  <2> QED BY <1>1, <2>4, <2>5, <2>6 DEF NativeInv
<1>3. CASE Maintain
  <2>1. Holds(Maintenance) /\ line' = Tail(line) /\ upkeep' = [upkeep EXCEPT !.step = "idle"]
        /\ browser' = IF browser = "gone" THEN "none" ELSE browser
    BY <1>3 DEF Maintain
  <2>2. /\ line' \in Seq(Users) /\ IsInjective(line')
        /\ ToSet(line') = ToSet(line) \ {Maintenance} /\ Maintenance \in ToSet(line)
    BY <1>0, <2>1, Leaves
  <2>3. \A c \in Calls : call[c].step # "running"
    BY <1>0, <2>1, NativeAssumption DEF LineInv, Holds
  <2>4. upkeep.step = "wants"
    BY <1>0, <2>2 DEF LineInv
  <2>5. NativeTypeOK'
    BY <1>0, <2>1, <2>2 DEF NativeTypeOK
  <2>6. LineInv'
    BY <1>0, <2>2, <2>3 DEF LineInv
  <2>7. TeardownInv'
    BY <1>0, <2>1, <2>4 DEF TeardownInv
  <2> QED BY <1>1, <2>5, <2>6, <2>7 DEF NativeInv
<1>4. CASE Break \/ BrowserDies
  <2>1. line' = line /\ upkeep'.step = IF Break THEN "stopped" ELSE upkeep.step
    BY <1>0, <1>4 DEF Break, BrowserDies, NativeTypeOK
  <2>2. NativeTypeOK'
    BY <1>0, <1>4 DEF Break, BrowserDies, NativeTypeOK
  <2>3. LineInv' /\ TeardownInv'
    BY <1>0, <1>4, <2>1 DEF Break, BrowserDies, LineInv, Holds, TeardownInv
  <2> QED BY <1>1, <2>2, <2>3 DEF NativeInv
<1> QED BY <1>2, <1>3, <1>4

LEMMA DropKeeps ==
    ASSUME NativeInv, DropBegin \/ DropJoined \/ DropDisable \/ DropShutdown
    PROVE  NativeInv'
<1>0. /\ NativeTypeOK /\ LineInv /\ CallInv /\ TeardownInv
      /\ UNCHANGED <<call, token, generation, snapshot, halfDone>>
  BY DEF NativeInv, DropBegin, DropJoined, DropDisable, DropShutdown
<1>1. CallInv'
  BY <1>0, CallsUntouched
<1>2. CASE DropBegin
  <2>1. NativeTypeOK' /\ upkeep'.step = upkeep.step
    BY <1>0, <1>2 DEF DropBegin, NativeTypeOK
  <2>2. LineInv'
    BY <1>0, <1>2, <2>1 DEF DropBegin, LineInv, Holds
  <2>3. TeardownInv'
    BY <1>0, <1>2 DEF DropBegin, TeardownInv
  <2> QED BY <1>1, <2>1, <2>2, <2>3 DEF NativeInv
<1>3. CASE DropJoined
  <2>1. /\ teardown = "join" /\ upkeep.step = "stopped"
        /\ teardown' = (IF dashboard.slot THEN "disable" ELSE "shutdown")
        /\ dashboard' = [dashboard EXCEPT !.slot = FALSE]
        /\ line' = Append(line, Dropper) /\ UNCHANGED <<browser, upkeep>>
    BY <1>3 DEF DropJoined
  <2>2. Dropper \notin ToSet(line) /\ Dropper \in Users
    BY <1>0, <2>1 DEF LineInv, Users
  <2>3. /\ line' \in Seq(Users) /\ IsInjective(line')
        /\ ToSet(line') = ToSet(line) \union {Dropper}
        /\ \A v : Holds(v) => Holds(v)'
    BY <1>0, <2>1, <2>2, Joins
  <2>4. /\ dashboard' \in [slot : BOOLEAN, live : BOOLEAN]
        /\ ~dashboard'.slot /\ dashboard'.live = dashboard.live
    BY <1>0, <2>1, SidecarTypes
  <2>5. NativeTypeOK'
    BY <1>0, <2>1, <2>3, <2>4 DEF NativeTypeOK
  <2>6. LineInv'
    BY <1>0, <2>1, <2>3, NativeAssumption DEF LineInv
  <2>7. TeardownInv'
    BY <1>0, <2>1, <2>4 DEF TeardownInv
  <2> QED BY <1>1, <2>5, <2>6, <2>7 DEF NativeInv
<1>4. CASE DropDisable
  <2>1. /\ teardown = "disable" /\ Holds(Dropper) /\ teardown' = "shutdown"
        /\ dashboard' = [dashboard EXCEPT !.live = FALSE]
        /\ line' = Append(Tail(line), Dropper) /\ UNCHANGED <<browser, upkeep>>
    BY <1>4 DEF DropDisable
  <2>2. /\ Tail(line) \in Seq(Users) /\ IsInjective(Tail(line))
        /\ ToSet(Tail(line)) = ToSet(line) \ {Dropper} /\ Dropper \in ToSet(line)
    BY <1>0, <2>1, LineTail DEF NativeTypeOK, Holds
  <2>3. /\ line' \in Seq(Users) /\ IsInjective(line')
        /\ ToSet(line') = ToSet(line)
    <3> DEFINE rest == Tail(line)
    <3>1. rest \in Seq(Users) /\ IsInjective(rest) /\ Dropper \in Users /\ Dropper \notin ToSet(rest)
      BY <2>2 DEF Users
    <3> HIDE DEF rest
    <3>2. /\ Append(rest, Dropper) \in Seq(Users) /\ IsInjective(Append(rest, Dropper))
          /\ ToSet(Append(rest, Dropper)) = ToSet(rest) \union {Dropper}
      BY <3>1, LineAppend
    <3>3. line' = Append(rest, Dropper) /\ ToSet(rest) = ToSet(line) \ {Dropper}
      BY <2>1, <2>2 DEF rest
    <3> QED BY <2>2, <3>2, <3>3
  <2>4. /\ dashboard' \in [slot : BOOLEAN, live : BOOLEAN]
        /\ ~dashboard'.live /\ dashboard'.slot = dashboard.slot
    BY <1>0, <2>1, SidecarTypes
  <2>5. NativeTypeOK'
    BY <1>0, <2>1, <2>3, <2>4 DEF NativeTypeOK
  <2>6. \A c \in Calls : call[c].step # "running"
    BY <1>0, <2>1 DEF TeardownInv
  <2>7. LineInv'
    BY <1>0, <2>1, <2>3, <2>6 DEF LineInv
  <2>8. TeardownInv'
    BY <1>0, <2>1, <2>4 DEF TeardownInv
  <2> QED BY <1>1, <2>5, <2>7, <2>8 DEF NativeInv
<1>5. CASE DropShutdown
  <2>1. /\ teardown = "shutdown" /\ Holds(Dropper) /\ teardown' = "dropped" /\ browser' = "none"
        /\ line' = Tail(line) /\ UNCHANGED <<dashboard, upkeep>>
    BY <1>5 DEF DropShutdown
  <2>2. /\ line' \in Seq(Users) /\ IsInjective(line')
        /\ ToSet(line') = ToSet(line) \ {Dropper}
    BY <1>0, <2>1, Leaves
  <2>3. NativeTypeOK'
    BY <1>0, <2>1, <2>2 DEF NativeTypeOK
  <2>4. \A c \in Calls : call[c].step # "running"
    BY <1>0, <2>1 DEF TeardownInv
  <2>5. LineInv'
    BY <1>0, <2>1, <2>2, <2>4 DEF LineInv
  <2>6. TeardownInv'
    BY <1>0, <2>1 DEF TeardownInv
  <2> QED BY <1>1, <2>3, <2>5, <2>6 DEF NativeInv
<1> QED BY <1>2, <1>3, <1>4, <1>5

-----------------------------------------------------------------------------

LEMMA NativeInitially == NativeInit => NativeInv
<1> SUFFICES ASSUME NativeInit PROVE NativeInv
  OBVIOUS
<1>1. \A c \in Calls : /\ call[c] \in CallRecord /\ call[c].step = "new" /\ call[c].answer = "none"
                       /\ call[c].reported = None /\ ~call[c].touched
  <2>1. ASSUME NEW k \in Kinds
        PROVE  /\ [Fresh EXCEPT !.kind = k] \in CallRecord /\ [Fresh EXCEPT !.kind = k].step = "new"
               /\ [Fresh EXCEPT !.kind = k].answer = "none"
               /\ [Fresh EXCEPT !.kind = k].reported = None /\ ~[Fresh EXCEPT !.kind = k].touched
    BY DEF Fresh, CallRecord
  <2>2. \A c \in Calls : \E k \in Kinds : call[c] = [Fresh EXCEPT !.kind = k]
    BY DEF NativeInit
  <2> SUFFICES ASSUME NEW c \in Calls
               PROVE  /\ call[c] \in CallRecord /\ call[c].step = "new" /\ call[c].answer = "none"
                      /\ call[c].reported = None /\ ~call[c].touched
    OBVIOUS
  <2>3. PICK k \in Kinds : call[c] = [Fresh EXCEPT !.kind = k]
    BY <2>2
  <2> DEFINE r == [Fresh EXCEPT !.kind = k]
  <2>4. /\ r \in CallRecord /\ r.step = "new" /\ r.answer = "none"
        /\ r.reported = None /\ ~r.touched /\ call[c] = r
    BY <2>1, <2>3
  <2> HIDE DEF r
  <2> QED BY <2>4
<1>2. 0 \in Generations
  BY FS_CardinalityType, NativeAssumption DEF Generations
<1>3. ToSet(line) = {} /\ line \in Seq(Users) /\ IsInjective(line)
  BY DEF NativeInit, ToSet, IsInjective
<1>4. NativeTypeOK
  <2>1. call \in [Calls -> CallRecord]
    BY <1>1 DEF NativeInit
  <2>2. token \in [Calls -> Token]
    BY DEF NativeInit, NoToken, Token
  <2> QED BY <1>2, <1>3, <2>1, <2>2 DEF NativeInit, NativeTypeOK
<1>5. Told = {} /\ generation = 0
  BY <1>1 DEF Told, NativeInit
<1>6. CallInv
  BY <1>1, <1>5, FS_EmptySet DEF CallInv, Sound
<1>7. LineInv /\ TeardownInv
  BY <1>1, <1>3 DEF NativeInit, LineInv, TeardownInv
<1> QED BY <1>4, <1>6, <1>7 DEF NativeInv

LEMMA NativeStep == NativeInv /\ [NativeNext]_nativeVars => NativeInv'
<1> SUFFICES ASSUME NativeInv, [NativeNext]_nativeVars PROVE NativeInv'
  OBVIOUS
<1>1. CASE UNCHANGED nativeVars
  BY <1>1 DEF nativeVars, NativeInv, NativeTypeOK, LineInv, Holds, CallInv, Told, Sound, TeardownInv
<1>2. ASSUME NEW c \in Calls,
             \/ Arm(c) \/ Enqueue(c) \/ AbandonWait(c) \/ Start(c) \/ Interrupt(c) \/ Finish(c)
             \/ StoreCancel(c) \/ WakeWaiters(c) \/ DeadlineEnds(c)
             \/ TakeSidecar(c) \/ ReleaseSidecar(c)
      PROVE  NativeInv'
  BY <1>2, ArmKeeps, EnqueueKeeps, AbandonWaitKeeps, StartKeeps, InterruptKeeps, FinishKeeps,
     CancelKeeps, DeadlineKeeps, TakeSidecarKeeps, ReleaseSidecarKeeps
<1> QED BY <1>1, <1>2, MaintenanceKeeps, DropKeeps DEF NativeNext

\* The types, for any number of calls (session.rs, maintenance.rs, cancellation.rs).
THEOREM NativeIsTyped == NativeSpec => []NativeTypeOK
<1>1. NativeInv => NativeTypeOK
  BY DEF NativeInv
<1> QED BY NativeInitially, NativeStep, <1>1, PTL DEF NativeSpec

\* An interrupted call is told of a generation exactly when the engine had begun with
\* it, and of one no other call was told of (session.rs:86-97).
THEOREM InterruptionsTell == NativeSpec => []InterruptionTells
<1>1. NativeInv => InterruptionTells
  <2> SUFFICES ASSUME NativeInv, NEW c \in Calls, call[c].answer = "interrupted"
               PROVE  /\ call[c].touched <=> call[c].reported # None
                      /\ call[c].touched => \A d \in Calls \ {c} : call[d].reported # call[c].reported
    BY DEF InterruptionTells
  <2>1. call[c].touched <=> call[c].reported # None
    BY DEF NativeInv, CallInv, Sound, NativeTypeOK, CallRecord
  <2>2. ASSUME call[c].reported # None, NEW d \in Calls \ {c} PROVE call[d].reported # call[c].reported
    BY <2>2 DEF NativeInv, CallInv, Told
  <2> QED BY <2>1, <2>2 DEF NativeInv, NativeTypeOK, CallRecord
<1> QED BY NativeInitially, NativeStep, <1>1, PTL DEF NativeSpec

\* However calls, ticks and the destructor took turns, nothing waits for the engine
\* of a session that was dropped, and its browser and dashboard are gone
\* (session.rs:143-149).
THEOREM DropLeavesNothing == NativeSpec => []DroppedLeavesNothing
<1>1. NativeInv => DroppedLeavesNothing
  <2> SUFFICES ASSUME NativeInv, teardown = "dropped"
               PROVE  /\ line = << >> /\ upkeep.step = "stopped"
                      /\ browser = "none" /\ ~dashboard.live
    BY DEF DroppedLeavesNothing
  <2>1. /\ \A c \in Calls : call[c].step \in {"new", "answered"}
        /\ upkeep.step = "stopped" /\ browser = "none" /\ ~dashboard.live
    BY DEF NativeInv, TeardownInv
  <2>2. \A u \in ToSet(line) : u \in Users
    BY DEF NativeInv, NativeTypeOK, ToSet
  <2>3. ToSet(line) = {}
    BY <2>1, <2>2 DEF NativeInv, LineInv, Users
  <2>4. line = << >>
    <3>1. line \in Seq(Users) /\ DOMAIN line = 1..Len(line) /\ Len(line) \in Nat
      BY DEF NativeInv, NativeTypeOK
    <3>2. \A i \in 1..Len(line) : line[i] \in ToSet(line)
      BY <3>1 DEF ToSet
    <3>3. Len(line) = 0
      BY <2>3, <3>1, <3>2
    <3> QED BY <3>1, <3>3
  <2> QED BY <2>1, <2>4
<1> QED BY NativeInitially, NativeStep, <1>1, PTL DEF NativeSpec
-----------------------------------------------------------------------------
(* Refs and the pages they were taken from *)

\* A generation that a dropped dispatch left behind is never the current one again.
ExpiryInv == \A g \in halfDone : g \in Nat /\ g < generation

LEMMA ExpiryKept ==
    ASSUME NativeTypeOK, ExpiryInv, NativeNext
    PROVE  ExpiryInv'
<1>1. generation \in Nat
  BY GenerationTypes DEF NativeTypeOK
<1>2. ASSUME NEW c \in Calls, Interrupt(c) PROVE ExpiryInv'
  <2>1. halfDone' = halfDone \union {generation} /\ generation' = generation + 1
    BY <1>2 DEF Interrupt, NextGeneration
  <2> QED BY <1>1, <2>1 DEF ExpiryInv
<1>3. ASSUME UNCHANGED <<halfDone, generation>> PROVE ExpiryInv'
  BY <1>3 DEF ExpiryInv
<1>4. ASSUME NEW c \in Calls,
             \/ Arm(c) \/ Enqueue(c) \/ AbandonWait(c) \/ Start(c) \/ Finish(c)
             \/ StoreCancel(c) \/ WakeWaiters(c) \/ DeadlineEnds(c)
             \/ TakeSidecar(c) \/ ReleaseSidecar(c)
      PROVE  UNCHANGED <<halfDone, generation>>
  BY <1>4 DEF Arm, Enqueue, AbandonWait, Start, Finish, StoreCancel, WakeWaiters, DeadlineEnds,
              TakeSidecar, ReleaseSidecar
<1>5. ASSUME \/ Tick \/ Maintain \/ Break \/ BrowserDies
             \/ DropBegin \/ DropJoined \/ DropDisable \/ DropShutdown
      PROVE  UNCHANGED <<halfDone, generation>>
  BY <1>5 DEF Tick, Maintain, Break, BrowserDies, DropBegin, DropJoined, DropDisable, DropShutdown
<1> QED BY <1>2, <1>3, <1>4, <1>5 DEF NativeNext

\* Only a dispatch that ends by itself answers that it is done.
LEMMA DoneByFinish ==
    ASSUME NativeTypeOK, NativeNext, NEW c \in Calls,
           call[c].answer = "none", call'[c].answer = "done"
    PROVE  Finish(c)
<1>1. \A d \in Calls : call[d] \in CallRecord
  BY DEF NativeTypeOK
<1>2. ASSUME NEW d \in Calls,
             \/ Arm(d) \/ Enqueue(d) \/ AbandonWait(d) \/ Start(d) \/ Interrupt(d) \/ Finish(d)
             \/ DeadlineEnds(d) \/ TakeSidecar(d) \/ ReleaseSidecar(d)
      PROVE  d = c
  BY <1>2 DEF Arm, Enqueue, AbandonWait, Start, Interrupt, Finish, DeadlineEnds,
              TakeSidecar, ReleaseSidecar, NativeTypeOK
<1>3. ~(\/ Arm(c) \/ DeadlineEnds(c) \/ Start(c) \/ TakeSidecar(c) \/ ReleaseSidecar(c))
  BY <1>1 DEF Arm, DeadlineEnds, Start, TakeSidecar, ReleaseSidecar, NativeTypeOK, CallRecord
<1>4. ~(Enqueue(c) \/ AbandonWait(c) \/ Interrupt(c))
  BY <1>1 DEF Enqueue, AbandonWait, Interrupt, NativeTypeOK, CallRecord
<1>5. ~(\E d \in Calls : StoreCancel(d) \/ WakeWaiters(d))
  BY DEF StoreCancel, WakeWaiters
<1>6. ~(\/ Tick \/ Maintain \/ Break \/ BrowserDies
        \/ DropBegin \/ DropJoined \/ DropDisable \/ DropShutdown)
  BY DEF Tick, Maintain, Break, BrowserDies, DropBegin, DropJoined, DropDisable, DropShutdown
<1> QED BY <1>2, <1>3, <1>4, <1>5, <1>6 DEF NativeNext

\* A ref taken before a dispatch was dropped half-way never resolves after it, however
\* many calls were queued, interrupted or answered in between (session.rs:92-97).
THEOREM RefsAlwaysExpire == NativeSpec => RefsExpireWithTheirPage
<1>1. NativeInit => ExpiryInv
  BY DEF NativeInit, ExpiryInv
<1>2. NativeInv /\ ExpiryInv /\ [NativeNext]_nativeVars => ExpiryInv'
  <2>1. CASE NativeNext
    BY <2>1, ExpiryKept DEF NativeInv
  <2>2. CASE UNCHANGED nativeVars
    BY <2>2 DEF nativeVars, ExpiryInv
  <2> QED BY <2>1, <2>2
<1>3. NativeInv /\ ExpiryInv /\ [NativeNext]_nativeVars
        => [\A c \in Calls :
              /\ call[c].kind = "act" /\ call[c].answer = "none" /\ call'[c].answer = "done"
              => call[c].ref \notin halfDone]_nativeVars
  <2> SUFFICES ASSUME NativeInv, ExpiryInv, NativeNext, NEW c \in Calls,
                      call[c].kind = "act", call[c].answer = "none", call'[c].answer = "done",
                      call[c].ref \in halfDone
               PROVE  FALSE
    OBVIOUS
  <2>1. NativeTypeOK /\ call[c] \in CallRecord
    BY DEF NativeInv, NativeTypeOK
  <2>2. Finish(c)
    BY <2>1, DoneByFinish
  <2>3. call[c].ref \notin {None, generation} /\ generation \in Nat
    <3>1. generation \in Generations
      BY <2>1 DEF NativeTypeOK
    <3>2. generation \in Nat /\ call[c].ref \in Nat /\ call[c].ref < generation
      BY <3>1, GenerationTypes DEF ExpiryInv
    <3>3. call[c].ref # generation
      BY <3>2
    <3> QED BY <3>2, <3>3, NativeAssumption
  <2>4. "done" \notin Answers(c)
    <3>1. CASE browser = "gone"
      <4>1. Answers(c) = {"failed"}
        BY <3>1 DEF Answers
      <4> QED BY <4>1
    <3>2. CASE browser # "gone"
      <4>1. Answers(c) = {"stale"}
        BY <2>3, <3>2 DEF Answers
      <4> QED BY <4>1
    <3> QED BY <3>1, <3>2
  <2>5. call'[c].answer \in Answers(c)
    BY <2>1, <2>2 DEF Finish, NativeTypeOK, CallRecord
  <2> QED BY <2>4, <2>5
<1> QED BY NativeInitially, NativeStep, <1>1, <1>2, <1>3, PTL DEF NativeSpec, RefsExpireWithTheirPage

-----------------------------------------------------------------------------
(***************************************************************************)
(* The sidecars.                                                           *)
(*                                                                         *)
(* What instances of one name leave in the files they share, for any       *)
(* number of instances.  Neither half of FilesFollowInstances is inductive: *)
(* EndedInv says what is already undone on the way to "stopped", WrittenInv *)
(* what is already written on the way to "up".                             *)
(***************************************************************************)

\* What an instance that cleans up has undone.
EndedInv ==
    \A s \in Instances :
        /\ stage[s] \in {"kill", "remove", "stopped"} => s \notin bridge
        /\ stage[s] \in {"remove", "stopped"} => watchdog[s] # "watching"
        /\ stage[s] = "stopped" => \A x \in Extensions : file[x] # s
        /\ stage[s] = "idle" => watchdog[s] = "none"

\* The stages at which the file of an extension has been written.
Since(x) ==
    CASE x = "address"  -> {"version", "spawn", "pid", "engine", "metadata", "stream", "up"}
      [] x = "version"  -> {"spawn", "pid", "engine", "metadata", "stream", "up"}
      [] x = "pid"      -> {"engine", "metadata", "stream", "up"}
      [] x = "engine"   -> {"metadata", "stream", "up"}
      [] x = "metadata" -> {"stream", "up"}
      [] x = "stream"   -> {"up"}

\* What the only instance that was started has written.
WrittenInv ==
    \A s \in Instances :
        /\ s \in alive /\ ~detached
        /\ \A o \in Instances \ {s} : stage[o] = "idle"
        => \A x \in Extensions : stage[s] \in Since(x) => file[x] = s

DashboardInv == DashboardTypeOK /\ EndedInv /\ WrittenInv

-----------------------------------------------------------------------------

LEMMA StartingStages ==
    Starting = {"probe", "bind", "version", "spawn", "pid", "engine", "metadata", "stream"}
<1>1. DOMAIN Steps = {1, 2, 3, 4, 5, 6}
  BY DEF Steps
<1>2. {Steps[i] : i \in DOMAIN Steps} = {"version", "spawn", "pid", "engine", "metadata", "stream"}
  BY <1>1 DEF Steps
<1> QED BY <1>2 DEF Starting

\* The steps follow each other in the order of start_dashboard.
LEMMA AfterSteps ==
    /\ After("version") = "spawn" /\ After("spawn") = "pid" /\ After("pid") = "engine"
    /\ After("engine") = "metadata" /\ After("metadata") = "stream" /\ After("stream") = "up"
<1>1. DOMAIN Steps = {1, 2, 3, 4, 5, 6}
  BY DEF Steps
<1>2. \A n \in DOMAIN Steps : (CHOOSE i \in DOMAIN Steps : Steps[i] = Steps[n]) = n
  BY <1>1 DEF Steps
<1>3. \A n \in 1..5 : After(Steps[n]) = Steps[n + 1]
  <2>1. \A n \in 1..5 : n \in DOMAIN Steps /\ Steps[n] # "stream"
    BY <1>1 DEF Steps
  <2> QED BY <1>2, <2>1 DEF After
<1>4. After("stream") = "up"
  BY DEF After
<1> QED BY <1>3, <1>4 DEF Steps

-----------------------------------------------------------------------------
(* Steps *)

LEMMA StageSteps == {Steps[i] : i \in DOMAIN Steps} = {"version", "spawn", "pid", "engine", "metadata", "stream"}
<1>1. DOMAIN Steps = {1, 2, 3, 4, 5, 6}
  BY DEF Steps
<1> QED BY <1>1 DEF Steps

\* A start that fails, and one that stops, begins to clean up.
LEMMA AbortKeeps ==
    ASSUME DashboardInv, NEW s \in Instances, stage[s] \notin {"idle", "stopped"}, Abort(s),
           UNCHANGED <<platform, file, probed, watchdog, alive, detached>>
    PROVE  DashboardInv'
<1>1. /\ stage'[s] = "kill" /\ \A o \in Instances \ {s} : stage'[o] = stage[o]
      /\ bridge' = bridge \ {s}
  BY DEF Abort, DashboardInv, DashboardTypeOK
<1>2. DashboardTypeOK'
  BY DEF Abort, DashboardInv, DashboardTypeOK
<1>3. EndedInv'
  BY <1>1 DEF DashboardInv, EndedInv
<1>4. WrittenInv'
  <2>1. \A x \in Extensions : "kill" \notin Since(x)
    BY DEF Extensions, Since
  <2> QED BY <1>1, <2>1 DEF DashboardInv, WrittenInv
<1> QED BY <1>2, <1>3, <1>4 DEF DashboardInv

LEMMA BeginKeeps ==
    ASSUME DashboardInv, NEW s \in Instances, Begin(s)
    PROVE  DashboardInv'
<1>1. /\ stage'[s] = "probe" /\ \A o \in Instances \ {s} : stage'[o] = stage[o]
      /\ UNCHANGED <<platform, file, probed, bridge, watchdog, alive, detached>>
  BY DEF Begin, DashboardInv, DashboardTypeOK
<1>2. DashboardTypeOK'
  BY <1>1, StartingStages DEF Begin, DashboardInv, DashboardTypeOK
<1>3. EndedInv'
  BY <1>1 DEF DashboardInv, EndedInv
<1>4. WrittenInv'
  <2>1. \A x \in Extensions : "probe" \notin Since(x)
    BY DEF Extensions, Since
  <2> QED BY <1>1, <2>1 DEF DashboardInv, WrittenInv
<1> QED BY <1>2, <1>3, <1>4 DEF DashboardInv

LEMMA ProbeKeeps ==
    ASSUME DashboardInv, NEW s \in Instances, Probe(s)
    PROVE  DashboardInv'
<1>1. CASE Abort(s) /\ UNCHANGED probed
  BY <1>1, AbortKeeps DEF Probe
<1>2. CASE stage' = [stage EXCEPT ![s] = "bind"] /\ UNCHANGED bridge
           /\ probed' = [probed EXCEPT ![s] = file["address"] # Nobody]
  <2>1. /\ stage'[s] = "bind" /\ \A o \in Instances \ {s} : stage'[o] = stage[o]
        /\ UNCHANGED <<platform, file, bridge, watchdog, alive, detached>>
        /\ stage[s] = "probe"
    BY <1>2 DEF Probe, DashboardInv, DashboardTypeOK
  <2>2. DashboardTypeOK'
    BY <1>2, <2>1, StartingStages DEF DashboardInv, DashboardTypeOK
  <2>3. EndedInv'
    BY <2>1 DEF DashboardInv, EndedInv
  <2>4. \A x \in Extensions : "bind" \notin Since(x)
    BY DEF Extensions, Since
  <2>5. WrittenInv'
    BY <2>1, <2>4 DEF DashboardInv, WrittenInv
  <2> QED BY <2>2, <2>3, <2>5 DEF DashboardInv
<1> QED BY <1>1, <1>2 DEF Probe

LEMMA BindKeeps ==
    ASSUME DashboardInv, NEW s \in Instances, Bind(s)
    PROVE  DashboardInv'
<1>1. /\ stage[s] = "bind" /\ stage'[s] = "version"
      /\ \A o \in Instances \ {s} : stage'[o] = stage[o]
      /\ bridge' = bridge \union {s}
      /\ file'["address"] = s /\ \A x \in Extensions \ {"address"} : file'[x] = file[x]
      /\ UNCHANGED <<platform, probed, watchdog, alive, detached>>
  BY DEF Bind, DashboardInv, DashboardTypeOK, Extensions
<1>2. DashboardTypeOK'
  BY <1>1, StartingStages DEF Bind, DashboardInv, DashboardTypeOK
<1>3. EndedInv'
  BY <1>1 DEF DashboardInv, EndedInv
<1>4. WrittenInv'
  <2>1. \A x \in Extensions : "version" \in Since(x) => x = "address"
    BY DEF Extensions, Since
  <2>2. \A x \in Extensions : "idle" \notin Since(x)
    BY DEF Extensions, Since
  <2> QED BY <1>1, <2>1, <2>2 DEF DashboardInv, WrittenInv
<1> QED BY <1>2, <1>3, <1>4 DEF DashboardInv

LEMMA AdvanceKeeps ==
    ASSUME DashboardInv, NEW s \in Instances, Advance(s)
    PROVE  DashboardInv'
<1>1. /\ stage[s] \in {"version", "spawn", "pid", "engine", "metadata", "stream"}
      /\ stage'[s] = After(stage[s])
      /\ \A o \in Instances \ {s} : stage'[o] = stage[o]
      /\ UNCHANGED <<platform, probed, bridge, alive, detached>>
  BY StageSteps DEF Advance, DashboardInv, DashboardTypeOK
<1>2. After(stage[s]) \in {"spawn", "pid", "engine", "metadata", "stream", "up"}
  BY <1>1, AfterSteps
<1>3. /\ stage[s] # "spawn" => /\ stage[s] \in Extensions /\ file'[stage[s]] = s
                               /\ \A x \in Extensions \ {stage[s]} : file'[x] = file[x]
                               /\ watchdog' = watchdog
      /\ stage[s] = "spawn" => file' = file /\ watchdog' = [watchdog EXCEPT ![s] = "watching"]
  BY <1>1 DEF Advance, DashboardInv, DashboardTypeOK, Extensions
<1>4. DashboardTypeOK'
  <2>1. stage' \in [Instances -> Starting \union {"idle", "up", "failed", "kill", "remove", "stopped"}]
    BY <1>2, StartingStages DEF Advance, DashboardInv, DashboardTypeOK
  <2> QED BY <1>1, <1>3, <2>1 DEF Advance, DashboardInv, DashboardTypeOK
<1>5. EndedInv'
  <2>1. \A o \in Instances \ {s} : watchdog'[o] = watchdog[o]
    BY <1>3 DEF DashboardInv, DashboardTypeOK
  <2> QED BY <1>1, <1>2, <1>3, <2>1 DEF DashboardInv, EndedInv
<1>6. WrittenInv'
  <2>1. \A x \in Extensions : After(stage[s]) \in Since(x) => stage[s] \in Since(x) \/ x = stage[s]
    BY <1>1, AfterSteps DEF Extensions, Since
  <2>2. \A x \in Extensions : "idle" \notin Since(x)
    BY DEF Extensions, Since
  <2>3. stage'[s] # "idle"
    BY <1>1, <1>2
  <2> SUFFICES ASSUME NEW o \in Instances, o \in alive', ~detached',
                      \A i \in Instances \ {o} : stage'[i] = "idle",
                      NEW x \in Extensions, stage'[o] \in Since(x)
               PROVE  file'[x] = o
    BY DEF WrittenInv
  <2>4. o = s
    BY <2>3
  <2>5. \A i \in Instances \ {s} : stage[i] = "idle"
    BY <1>1, <2>4
  <2>6. stage[s] \in Since(x) => file[x] = s
    BY <1>1, <2>4, <2>5 DEF DashboardInv, WrittenInv
  <2>7. stage[s] \in Since(x) \/ x = stage[s]
    BY <1>1, <2>1, <2>4
  <2>8. x # "spawn"
    BY DEF Extensions
  <2> QED BY <1>3, <2>4, <2>6, <2>7, <2>8
<1> QED BY <1>4, <1>5, <1>6 DEF DashboardInv

LEMMA DetachKeeps ==
    ASSUME DashboardInv, Detach
    PROVE  DashboardInv'
<1>1. /\ file' \in [Extensions -> Instances \union {Nobody}] /\ \A x \in Extensions : file'[x] = Nobody
      /\ detached' = TRUE /\ UNCHANGED <<platform, stage, probed, bridge, watchdog, alive>>
  BY DEF Detach, NoFiles
<1>2. DashboardTypeOK'
  BY <1>1 DEF DashboardInv, DashboardTypeOK
<1>3. EndedInv' /\ WrittenInv'
  BY <1>1, DashboardAssumption DEF DashboardInv, EndedInv, WrittenInv
<1> QED BY <1>2, <1>3 DEF DashboardInv

LEMMA KillWatchdogKeeps ==
    ASSUME DashboardInv, NEW s \in Instances, KillWatchdog(s)
    PROVE  DashboardInv'
<1>1. /\ stage[s] = "kill" /\ stage'[s] = "remove"
      /\ \A o \in Instances \ {s} : stage'[o] = stage[o] /\ watchdog'[o] = watchdog[o]
      /\ watchdog'[s] # "watching"
      /\ UNCHANGED <<platform, file, probed, bridge, alive, detached>>
  BY DEF KillWatchdog, DashboardInv, DashboardTypeOK
<1>2. DashboardTypeOK'
  BY DEF KillWatchdog, DashboardInv, DashboardTypeOK
<1>3. EndedInv'
  BY <1>1 DEF DashboardInv, EndedInv
<1>4. WrittenInv'
  <2>1. \A x \in Extensions : "remove" \notin Since(x)
    BY DEF Extensions, Since
  <2> QED BY <1>1, <2>1 DEF DashboardInv, WrittenInv
<1> QED BY <1>2, <1>3, <1>4 DEF DashboardInv

LEMMA RemoveFilesKeeps ==
    ASSUME DashboardInv, NEW s \in Instances, RemoveFiles(s)
    PROVE  DashboardInv'
<1>1. /\ stage[s] = "remove" /\ stage'[s] = "stopped"
      /\ \A o \in Instances \ {s} : stage'[o] = stage[o]
      /\ file' \in [Extensions -> Instances \union {Nobody}] /\ \A x \in Extensions : file'[x] = Nobody
      /\ UNCHANGED <<platform, probed, bridge, watchdog, alive, detached>>
  BY DEF RemoveFiles, NoFiles, DashboardInv, DashboardTypeOK
<1>2. DashboardTypeOK'
  BY <1>1 DEF RemoveFiles, DashboardInv, DashboardTypeOK
<1>3. EndedInv'
  BY <1>1, DashboardAssumption DEF DashboardInv, EndedInv
<1>4. WrittenInv'
  <2>1. \A x \in Extensions : "stopped" \notin Since(x) /\ "idle" \notin Since(x)
    BY DEF Extensions, Since
  <2> QED BY <1>1, <2>1 DEF DashboardInv, WrittenInv
<1> QED BY <1>2, <1>3, <1>4 DEF DashboardInv

LEMMA DieKeeps ==
    ASSUME DashboardInv, NEW s \in Instances, Die(s)
    PROVE  DashboardInv'
  BY DEF Die, DashboardInv, DashboardTypeOK, EndedInv, WrittenInv

LEMMA NoticeKeeps ==
    ASSUME DashboardInv, NEW s \in Instances, Notice(s)
    PROVE  DashboardInv'
<1>1. /\ watchdog[s] = "watching" /\ s \notin alive /\ stage[s] # "idle"
      /\ watchdog'[s] = "dead" /\ \A o \in Instances \ {s} : watchdog'[o] = watchdog[o]
      /\ file' \in [Extensions -> Instances \union {Nobody}] /\ \A x \in Extensions : file'[x] = Nobody
      /\ UNCHANGED <<platform, stage, probed, bridge, alive, detached>>
  BY DEF Notice, NoFiles, DashboardInv, DashboardTypeOK, EndedInv
<1>2. DashboardTypeOK'
  BY <1>1 DEF Notice, DashboardInv, DashboardTypeOK
<1>3. EndedInv'
  BY <1>1, DashboardAssumption DEF DashboardInv, EndedInv
<1>4. WrittenInv'
  BY <1>1 DEF DashboardInv, WrittenInv
<1> QED BY <1>2, <1>3, <1>4 DEF DashboardInv

-----------------------------------------------------------------------------

LEMMA DashboardInitially == DashboardInit => DashboardInv
<1>1. \A x \in Extensions : "idle" \notin Since(x)
  BY DEF Extensions, Since
<1> QED BY <1>1 DEF DashboardInit, DashboardInv, DashboardTypeOK, EndedInv, WrittenInv

LEMMA DashboardStep == DashboardInv /\ [DashboardNext]_dashboardVars => DashboardInv'
<1> SUFFICES ASSUME DashboardInv, [DashboardNext]_dashboardVars PROVE DashboardInv'
  OBVIOUS
<1>1. CASE UNCHANGED dashboardVars
  BY <1>1 DEF dashboardVars, DashboardInv, DashboardTypeOK, EndedInv, WrittenInv
<1>2. ASSUME NEW s \in Instances, FailStart(s) \/ Stop(s) PROVE DashboardInv'
  <2>1. stage[s] \notin {"idle", "stopped"}
    BY <1>2, StartingStages DEF FailStart, Stop
  <2> QED BY <1>2, <2>1, AbortKeeps DEF FailStart, Stop
<1>3. ASSUME NEW s \in Instances,
             \/ Begin(s) \/ Probe(s) \/ Bind(s) \/ Advance(s)
             \/ KillWatchdog(s) \/ RemoveFiles(s) \/ Die(s) \/ Notice(s)
      PROVE  DashboardInv'
  BY <1>3, BeginKeeps, ProbeKeeps, BindKeeps, AdvanceKeeps, KillWatchdogKeeps, RemoveFilesKeeps,
     DieKeeps, NoticeKeeps
<1> QED BY <1>1, <1>2, <1>3, DetachKeeps DEF DashboardNext

\* Whatever the instances of a name do to the files they share, one that stopped or
\* failed to start leaves nothing, and one that is up and alone is discoverable
\* (dashboard/mod.rs:55-110, 155-177).
THEOREM FilesAlwaysFollow == DashboardSpec => []FilesFollowInstances
<1>1. DashboardInv => FilesFollowInstances
  <2>1. \A x \in Extensions : "up" \in Since(x)
    BY DEF Extensions, Since
  <2> QED BY <2>1 DEF DashboardInv, EndedInv, WrittenInv, FilesFollowInstances
<1> QED BY DashboardInitially, DashboardStep, <1>1, PTL DEF DashboardSpec

\* The types, for any number of instances (dashboard/mod.rs, control.rs).
THEOREM DashboardIsTyped == DashboardSpec => []DashboardTypeOK
<1>1. DashboardInv => DashboardTypeOK
  BY DEF DashboardInv
<1> QED BY DashboardInitially, DashboardStep, <1>1, PTL DEF DashboardSpec

===================================================================================
