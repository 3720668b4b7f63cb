------------------------------ MODULE DocumentsProofs ------------------------------
(***************************************************************************)
(* What the program may rely on in its refs, snapshots and in what it      *)
(* knows of the engine, for any number of callers, tabs, frames, commands  *)
(* and documents.  The invariant follows an operation from its call        *)
(* (OperationInv) to its command in the queue (OrderInv), through the      *)
(* selection of its scope (CheckedInv), to its answer (ReplyInv) and to    *)
(* the snapshot it leaves (SnapshotInv); KnownInv says which answer not    *)
(* yet taken up, if any, will make the program know the engine's tab and   *)
(* generation.                                                             *)
(***************************************************************************)
EXTENDS Documents, FiniteSetTheorems, TLAPS

EffectNames == {"navigates", "observes", "frames", "lists", "opens", "switches", "closes",
                "runs", "acts"}

Doings == EffectNames \union {"nothing", "finds", "reuses", "renavigates", "refreshes"}

AnyTarget == TargetIds \union {Nobody}

OperationRecord == [does : Doings, via : {"none", "early", "fresh", "handle", "ref"},
               scope : Scopes \union {Nobody}, tab : AnyTarget]

Orders == [by : Callers, effect : EffectNames, scope : Scopes \union {Nobody},
           ref : Snapshots \union {Nobody}, tab : AnyTarget, checked : BOOLEAN]

Seen == [id : Nat \ {0}, at : Contexts \X Nat]

Replies == [to : Callers,
            code : {"ok", "other", "stale_ref", "frame_scope", "frame_detached", "execution_timeout"},
            data : (SUBSET Contexts) \union Seen \union {Nobody},
            target : AnyTarget, generation : Nat]

EngineInv ==
    /\ tabs \in [TargetIds -> {"new", "open", "closed"}]
    /\ top \in openTabs \union {Nobody}
    /\ top = Nobody <=> openTabs = {}
    /\ attached \subseteq {f \in FrameIds : FrameOf[f] \in openTabs}
    /\ document \in [Contexts -> Nat]
    /\ generation \in Nat \ {0}
    /\ named \in Seq(Contexts \X Nat)
    /\ mapped \in 0 .. Len(named)

RecordsInv ==
    /\ isAsync \in BOOLEAN
    /\ knownTarget \in AnyTarget /\ knownGeneration \in Nat
    /\ early \in AnyTarget
    /\ handles \in [Callers -> Scopes \union {Nobody}]
    /\ snapshot \in [Callers -> Snapshots \union {Nobody}]
    /\ call \in [Callers -> OperationRecord]
    /\ queue \in Seq(Orders) /\ answers \in Seq(Replies)
    /\ missed \in BOOLEAN

Asking == {queue[n].by : n \in DOMAIN queue}

Answered == {answers[n].to : n \in DOMAIN answers}

\* An operation under way waits for one command or one answer, and nobody else does.
WaitInv ==
    /\ \A m, n \in DOMAIN queue : queue[m].by = queue[n].by => m = n
    /\ \A m, n \in DOMAIN answers : answers[m].to = answers[n].to => m = n
    /\ Asking \intersect Answered = {}
    /\ \A c \in Callers : AtWork(c) <=> c \in Asking \union Answered

\* A frame is named together with its tab.
WellScoped(s) == s # Nobody /\ s.frame # Nobody => FrameOf[s.frame] = s.target

\* In generation g, with the documents named so far, the ref id means what it meant.
RightIn(r, g, names) ==
    /\ r.generation <= g
    /\ r.generation = g => r.id \in DOMAIN names /\ names[r.id] = r.at

\* A snapshot was taken where it says.
Located(s) ==
    /\ s.scope.target \in TargetIds
    /\ s.at[1] = IF s.scope.frame = Nobody THEN s.scope.target ELSE s.scope.frame
    /\ WellScoped(s.scope)

SnapshotInv ==
    \A c \in Callers : snapshot[c] # Nobody =>
        Located(snapshot[c]) /\ RightIn(snapshot[c], generation, named)

OperationInv ==
    /\ \A c \in Callers : WellScoped(handles[c]) /\ WellScoped(call[c].scope)
    /\ \A c \in Callers : handles[c] # Nobody => handles[c].target # Nobody
    /\ \A c \in Callers : call[c].does \in {"observes", "refreshes", "frames"} =>
            call[c].scope # Nobody
    /\ \A c \in Callers : call[c].does \in {"acts", "refreshes"} => snapshot[c] # Nobody
    /\ \A c \in Callers : call[c].does = "refreshes" => call[c].scope = snapshot[c].scope

\* The command that carries out what an operation is at.
Commanded(does) ==
    CASE does = "finds" -> "lists"
      [] does = "reuses" -> "switches"
      [] does = "renavigates" -> "navigates"
      [] does = "refreshes" -> "observes"
      [] OTHER -> does

OrderInv ==
    \A n \in DOMAIN queue :
        LET k == call[queue[n].by]
        IN  /\ queue[n].effect = Commanded(k.does) /\ queue[n].scope = k.scope
            /\ queue[n].effect = "acts" => queue[n].ref # Nobody
            /\ queue[n].ref # Nobody => RightIn(queue[n].ref, generation, named)

\* A command whose scope is selected is at the head, and its refs have expired.
CheckedInv ==
    \A n \in DOMAIN queue : queue[n].checked =>
        /\ n = 1 /\ HasTarget(queue[n]) /\ queue[n].scope.target = top /\ top \in openTabs
        /\ mapped = 0

\* What an answer tells the operation k, in generation g with those names.
Tells(r, k, g, names) ==
    /\ r.code = "ok" => r.target # Nobody
    /\ r.target # Nobody => r.generation # Unsaid
    /\ r.code = "ok" /\ k.does = "lists" => r.data \subseteq TargetIds
    /\ r.code = "ok" /\ k.does = "frames" => r.data \subseteq FrameIds
    /\ r.code = "ok" /\ k.does \in {"observes", "refreshes"} =>
          /\ r.data \in Seen
          /\ k.scope.target # Nobody => r.target = k.scope.target
          /\ r.data.at[1] = IF k.scope.frame = Nobody THEN r.target ELSE k.scope.frame
          /\ RightIn([generation |-> r.generation, id |-> r.data.id, at |-> r.data.at], g, names)

ReplyInv == \A n \in DOMAIN answers : Tells(answers[n], call[answers[n].to], generation, named)

\* Until a tab switch is answered for, the last answer that says so tells the active
\* tab, or the program knows it; the same of the generation.
KnownInv ==
    /\ knownTarget # Nobody => knownGeneration # 0
    /\ ~missed /\ (\A n \in DOMAIN queue : ~queue[n].checked) =>
        /\ \/ \E n \in DOMAIN answers :
                 /\ top # Nobody /\ answers[n].target = top
                 /\ \A m \in DOMAIN answers : m > n => answers[m].target = Nobody
           \/ /\ \A m \in DOMAIN answers : answers[m].target = Nobody
              /\ knownTarget \in {top, Nobody}
        /\ \/ \E n \in DOMAIN answers :
                 /\ answers[n].generation = generation
                 /\ \A m \in DOMAIN answers : m > n => answers[m].generation = Unsaid
           \/ /\ \A m \in DOMAIN answers : answers[m].generation = Unsaid
              /\ knownGeneration \in {generation, 0}

HitInv == (hit # Nobody => hit.got = hit.wanted) /\ (bound # Nobody => bound.to = bound.ran)

WireInv == WaitInv /\ OperationInv /\ OrderInv /\ CheckedInv /\ ReplyInv

DocumentsInv ==
    EngineInv /\ RecordsInv /\ WireInv /\ SnapshotInv /\ KnownInv /\ HitInv

-----------------------------------------------------------------------------
(* Queues                                                                   *)

\* t is s without its item at gone.
Thins(t, s, gone) ==
    /\ DOMAIN t = 1 .. (Len(s) - 1)
    /\ \A n \in DOMAIN t : t[n] = s[IF n < gone THEN n ELSE n + 1]

\* t is s with x after it.
Extends(t, s, x) ==
    /\ DOMAIN t = 1 .. (Len(s) + 1)
    /\ \A n \in 1 .. Len(s) : t[n] = s[n]
    /\ t[Len(s) + 1] = x

LEMMA TailThins ==
    ASSUME NEW S, NEW s \in Seq(S), s # << >>
    PROVE  /\ Thins(Tail(s), s, 1) /\ Tail(s) \in Seq(S)
           /\ Head(s) = s[1] /\ s[1] \in S /\ 1 \in DOMAIN s /\ DOMAIN s = 1 .. Len(s)
           /\ Len(s) \in Nat \ {0}
  BY DEF Thins

LEMMA AppendExtends ==
    ASSUME NEW S, NEW s \in Seq(S), NEW x \in S
    PROVE  /\ Extends(Append(s, x), s, x) /\ Append(s, x) \in Seq(S)
           /\ DOMAIN s = 1 .. Len(s) /\ Len(s) \in Nat /\ Len(s) + 1 \in DOMAIN Append(s, x)
  BY DEF Extends

LEMMA RemoveThins ==
    ASSUME NEW S, NEW s \in Seq(S), NEW i \in DOMAIN s
    PROVE  /\ Thins(RemoveAt(s, i), s, i) /\ RemoveAt(s, i) \in Seq(S)
           /\ DOMAIN s = 1 .. Len(s) /\ Len(s) \in Nat
<1> DEFINE a == SubSeq(s, 1, i - 1)
           b == SubSeq(s, i + 1, Len(s))
           r == RemoveAt(s, i)
<1>1. Len(s) \in Nat /\ DOMAIN s = 1 .. Len(s) /\ i \in 1 .. Len(s)
  OBVIOUS
<1>2. a \in Seq(S) /\ Len(a) = i - 1 /\ \A n \in 1 .. (i - 1) : a[n] = s[n]
  BY <1>1
<1>3. /\ b \in Seq(S) /\ Len(b) = Len(s) - i
      /\ \A n \in 1 .. (Len(s) - i) : b[n] = s[i + n]
  BY <1>1
<1>4. r = a \o b
  BY DEF RemoveAt
<1>5. ASSUME NEW c \in Seq(S), NEW d \in Seq(S)
      PROVE  /\ c \o d \in Seq(S) /\ DOMAIN (c \o d) = 1 .. (Len(c) + Len(d))
             /\ \A n \in 1 .. (Len(c) + Len(d)) :
                   (c \o d)[n] = IF n <= Len(c) THEN c[n] ELSE d[n - Len(c)]
  OBVIOUS
<1> HIDE DEF a, b, r
<1>6. /\ r \in Seq(S) /\ DOMAIN r = 1 .. (Len(a) + Len(b))
      /\ \A n \in 1 .. (Len(a) + Len(b)) : r[n] = IF n <= Len(a) THEN a[n] ELSE b[n - Len(a)]
  BY <1>2, <1>3, <1>4, <1>5
<1>7. DOMAIN r = 1 .. (Len(s) - 1)
  <2>1. Len(a) + Len(b) = Len(s) - 1
    BY <1>1, <1>2, <1>3
  <2> QED BY <1>6, <2>1
<1>8. ASSUME NEW n \in DOMAIN r PROVE r[n] = s[IF n < i THEN n ELSE n + 1]
  <2>1. n \in 1 .. (Len(s) - 1) /\ n \in 1 .. (Len(a) + Len(b))
    BY <1>6, <1>7
  <2>2. CASE n < i
    <3>1. n <= Len(a) /\ n \in 1 .. (i - 1)
      BY <1>1, <1>2, <2>1, <2>2
    <3> QED BY <1>2, <1>6, <2>1, <2>2, <3>1
  <2>3. CASE ~(n < i)
    <3>1. ~(n <= Len(a)) /\ n - Len(a) \in 1 .. (Len(s) - i) /\ i + (n - Len(a)) = n + 1
      BY <1>1, <1>2, <2>1, <2>3
    <3> QED BY <1>3, <1>6, <2>1, <2>3, <3>1
  <2> QED BY <2>2, <2>3
<1>9. Thins(r, s, i)
  BY <1>7, <1>8 DEF Thins
<1> QED BY <1>1, <1>6, <1>9 DEF r

LEMMA HeadReplaced ==
    ASSUME NEW S, NEW s \in Seq(S), NEW x \in S, s # << >>
    PROVE  /\ <<x>> \o Tail(s) \in Seq(S) /\ DOMAIN (<<x>> \o Tail(s)) = DOMAIN s
           /\ (<<x>> \o Tail(s))[1] = x
           /\ \A n \in DOMAIN s : n # 1 => (<<x>> \o Tail(s))[n] = s[n]
<1> DEFINE t == Tail(s)
           u == <<x>> \o t
<1>1. /\ t \in Seq(S) /\ Len(t) = Len(s) - 1 /\ Len(s) \in Nat \ {0} /\ DOMAIN s = 1 .. Len(s)
      /\ \A n \in 1 .. (Len(s) - 1) : t[n] = s[n + 1]
  OBVIOUS
<1> HIDE DEF t
<1>2. /\ u \in Seq(S) /\ DOMAIN u = 1 .. (1 + Len(t)) /\ u[1] = x
      /\ \A n \in 1 .. Len(t) : u[n + 1] = t[n]
  BY <1>1
<1> HIDE DEF u
<1>3. ASSUME NEW n \in DOMAIN s, n # 1 PROVE u[n] = s[n]
  <2>1. n - 1 \in 1 .. Len(t) /\ n - 1 \in 1 .. (Len(s) - 1) /\ (n - 1) + 1 = n
    BY <1>1, <1>3
  <2>2. u[(n - 1) + 1] = t[n - 1] /\ t[n - 1] = s[(n - 1) + 1]
    BY <1>1, <1>2, <2>1
  <2> QED BY <2>1, <2>2
<1>4. DOMAIN u = DOMAIN s
  BY <1>1, <1>2
<1> QED BY <1>2, <1>3, <1>4 DEF t, u

\* Where the items of a thinned queue were.
LEMMA Thinned ==
    ASSUME NEW S, NEW s \in Seq(S), NEW t \in Seq(S), NEW g \in DOMAIN s, Thins(t, s, g)
    PROVE  /\ \A n \in DOMAIN t : \E m \in DOMAIN s : m # g /\ t[n] = s[m]
           /\ \A m \in DOMAIN s : m # g => \E n \in DOMAIN t : t[n] = s[m]
<1>1. Len(s) \in Nat /\ DOMAIN s = 1 .. Len(s) /\ g \in 1 .. Len(s)
  OBVIOUS
<1> DEFINE Old(n) == IF n < g THEN n ELSE n + 1
<1>2. DOMAIN t = 1 .. (Len(s) - 1) /\ \A n \in DOMAIN t : t[n] = s[Old(n)]
  BY DEF Thins
<1>3. \A n \in 1 .. (Len(s) - 1) : Old(n) \in DOMAIN s /\ Old(n) # g
  BY <1>1
<1>4. ASSUME NEW m \in DOMAIN s, m # g PROVE \E n \in DOMAIN t : t[n] = s[m]
  <2>1. CASE m < g
    BY <1>1, <1>2, <2>1
  <2>2. CASE m > g
    <3>1. m - 1 \in 1 .. (Len(s) - 1) /\ Old(m - 1) = m
      BY <1>1, <2>2
    <3> HIDE DEF Old
    <3> QED BY <1>2, <3>1
  <2> QED BY <1>1, <1>4, <2>1, <2>2
<1> HIDE DEF Old
<1> QED BY <1>2, <1>3, <1>4

LEMMA ThinBy ==
    ASSUME NEW s \in Seq(Orders), NEW t \in Seq(Orders), NEW g \in DOMAIN s, Thins(t, s, g),
           \A m, n \in DOMAIN s : s[m].by = s[n].by => m = n
    PROVE  /\ \A m, n \in DOMAIN t : t[m].by = t[n].by => m = n
           /\ {t[n].by : n \in DOMAIN t} = {s[n].by : n \in DOMAIN s} \ {s[g].by}
<1> DEFINE Old(n) == IF n < g THEN n ELSE n + 1
<1>1. Len(s) \in Nat /\ DOMAIN s = 1 .. Len(s) /\ g \in 1 .. Len(s)
  OBVIOUS
<1>2. \A m, n \in DOMAIN t : t[m].by = t[n].by => m = n
  <2> SUFFICES ASSUME NEW m \in DOMAIN t, NEW n \in DOMAIN t, t[m].by = t[n].by PROVE m = n
    OBVIOUS
  <2>1. /\ t[m] = s[Old(m)] /\ t[n] = s[Old(n)] /\ Old(m) \in DOMAIN s /\ Old(n) \in DOMAIN s
        /\ (Old(m) = Old(n) => m = n)
    BY <1>1 DEF Thins
  <2> HIDE DEF Old
  <2> QED BY <2>1
<1>3. /\ \A n \in DOMAIN t : \E m \in DOMAIN s : m # g /\ t[n] = s[m]
      /\ \A m \in DOMAIN s : m # g => \E n \in DOMAIN t : t[n] = s[m]
  BY Thinned
<1>4. {t[n].by : n \in DOMAIN t} = {s[n].by : n \in DOMAIN s} \ {s[g].by}
  BY <1>3
<1> QED BY <1>2, <1>4

LEMMA ThinTo ==
    ASSUME NEW s \in Seq(Replies), NEW t \in Seq(Replies), NEW g \in DOMAIN s, Thins(t, s, g),
           \A m, n \in DOMAIN s : s[m].to = s[n].to => m = n
    PROVE  /\ \A m, n \in DOMAIN t : t[m].to = t[n].to => m = n
           /\ {t[n].to : n \in DOMAIN t} = {s[n].to : n \in DOMAIN s} \ {s[g].to}
<1> DEFINE Old(n) == IF n < g THEN n ELSE n + 1
<1>1. Len(s) \in Nat /\ DOMAIN s = 1 .. Len(s) /\ g \in 1 .. Len(s)
  OBVIOUS
<1>2. \A m, n \in DOMAIN t : t[m].to = t[n].to => m = n
  <2> SUFFICES ASSUME NEW m \in DOMAIN t, NEW n \in DOMAIN t, t[m].to = t[n].to PROVE m = n
    OBVIOUS
  <2>1. /\ t[m] = s[Old(m)] /\ t[n] = s[Old(n)] /\ Old(m) \in DOMAIN s /\ Old(n) \in DOMAIN s
        /\ (Old(m) = Old(n) => m = n)
    BY <1>1 DEF Thins
  <2> HIDE DEF Old
  <2> QED BY <2>1
<1>3. /\ \A n \in DOMAIN t : \E m \in DOMAIN s : m # g /\ t[n] = s[m]
      /\ \A m \in DOMAIN s : m # g => \E n \in DOMAIN t : t[n] = s[m]
  BY Thinned
<1>4. {t[n].to : n \in DOMAIN t} = {s[n].to : n \in DOMAIN s} \ {s[g].to}
  BY <1>3, SMTT(30)
<1> QED BY <1>2, <1>4

LEMMA ExtendBy ==
    ASSUME NEW s \in Seq(Orders), NEW x \in Orders, NEW t, Extends(t, s, x),
           \A m, n \in DOMAIN s : s[m].by = s[n].by => m = n,
           x.by \notin {s[n].by : n \in DOMAIN s}
    PROVE  /\ \A m, n \in DOMAIN t : t[m].by = t[n].by => m = n
           /\ {t[n].by : n \in DOMAIN t} = {s[n].by : n \in DOMAIN s} \union {x.by}
<1>1. DOMAIN s = 1 .. Len(s) /\ Len(s) \in Nat
  OBVIOUS
<1>2. /\ DOMAIN t = DOMAIN s \union {Len(s) + 1} /\ t[Len(s) + 1] = x
      /\ \A n \in DOMAIN s : t[n] = s[n]
  BY <1>1 DEF Extends
<1> QED BY <1>2

LEMMA ExtendTo ==
    ASSUME NEW s \in Seq(Replies), NEW x \in Replies, NEW t, Extends(t, s, x),
           \A m, n \in DOMAIN s : s[m].to = s[n].to => m = n,
           x.to \notin {s[n].to : n \in DOMAIN s}
    PROVE  /\ \A m, n \in DOMAIN t : t[m].to = t[n].to => m = n
           /\ {t[n].to : n \in DOMAIN t} = {s[n].to : n \in DOMAIN s} \union {x.to}
<1>1. DOMAIN s = 1 .. Len(s) /\ Len(s) \in Nat
  OBVIOUS
<1>2. /\ DOMAIN t = DOMAIN s \union {Len(s) + 1} /\ t[Len(s) + 1] = x
      /\ \A n \in DOMAIN s : t[n] = s[n]
  BY <1>1 DEF Extends
<1> QED BY <1>2

-----------------------------------------------------------------------------
(* Generations and names                                                    *)

\* What a step may do to the refs: name more documents, or expire them all.
NamesMove ==
    \/ /\ generation' = generation
       /\ \A n \in DOMAIN named : n \in DOMAIN named' /\ named'[n] = named[n]
    \/ generation' = generation + 1

LEMMA RightStays ==
    ASSUME EngineInv, NamesMove
    PROVE  \A r : r.generation \in Nat /\ RightIn(r, generation, named)
                    => RightIn(r, generation', named')
<1>1. generation \in Nat
  BY DEF EngineInv
<1>2. CASE generation' = generation + 1
  <2> SUFFICES ASSUME NEW r, r.generation \in Nat, r.generation <= generation
               PROVE  r.generation <= generation' /\ r.generation # generation'
    BY DEF RightIn
  <2> QED BY <1>1, <1>2
<1>3. CASE generation' = generation
  BY <1>3 DEF NamesMove, RightIn
<1> QED BY <1>2, <1>3 DEF NamesMove

LEMMA NamesStay == ASSUME KeepRefs PROVE NamesMove
BY DEF KeepRefs, NamesMove

LEMMA NamesExpire == ASSUME Expire PROVE NamesMove
BY DEF Expire, NamesMove

\* The commands of a step are old ones of operations that go on, or right.
LEMMA OrdersKept ==
    ASSUME EngineInv, RecordsInv, OrderInv, NamesMove, queue' \in Seq(Orders),
           \A n \in DOMAIN queue' :
              \/ \E m \in DOMAIN queue :
                    /\ queue'[n].by = queue[m].by /\ queue'[n].effect = queue[m].effect
                    /\ queue'[n].scope = queue[m].scope /\ queue'[n].ref = queue[m].ref
                    /\ call'[queue[m].by] = call[queue[m].by]
              \/ LET k == call'[queue'[n].by]
                 IN  /\ queue'[n].effect = Commanded(k.does) /\ queue'[n].scope = k.scope
                     /\ queue'[n].effect = "acts" => queue'[n].ref # Nobody
                     /\ queue'[n].ref # Nobody => RightIn(queue'[n].ref, generation', named')
    PROVE  OrderInv'
<1> SUFFICES ASSUME NEW n \in DOMAIN queue'
             PROVE  /\ queue'[n].effect = Commanded(call'[queue'[n].by].does)
                    /\ queue'[n].scope = call'[queue'[n].by].scope
                    /\ queue'[n].effect = "acts" => queue'[n].ref # Nobody
                    /\ queue'[n].ref # Nobody => RightIn(queue'[n].ref, generation', named')
  BY DEF OrderInv, Commanded, RightIn
<1>1. CASE \E m \in DOMAIN queue :
              /\ queue'[n].by = queue[m].by /\ queue'[n].effect = queue[m].effect
              /\ queue'[n].scope = queue[m].scope /\ queue'[n].ref = queue[m].ref
              /\ call'[queue[m].by] = call[queue[m].by]
  <2>1. PICK m \in DOMAIN queue :
              /\ queue'[n].by = queue[m].by /\ queue'[n].effect = queue[m].effect
              /\ queue'[n].scope = queue[m].scope /\ queue'[n].ref = queue[m].ref
              /\ call'[queue[m].by] = call[queue[m].by]
    BY <1>1
  <2>2. queue[m] \in Orders
    BY DEF RecordsInv
  <2>3. queue[m].ref # Nobody => queue[m].ref.generation \in Nat
    BY <2>2 DEF Orders, Snapshots
  <2>4. queue[m].ref # Nobody => RightIn(queue[m].ref, generation', named')
    BY <2>3, RightStays DEF OrderInv
  <2> QED BY <2>1, <2>4 DEF OrderInv
<1> QED BY <1>1

\* So are the answers.
LEMMA RepliesKept ==
    ASSUME EngineInv, RecordsInv, ReplyInv, NamesMove,
           \A n \in DOMAIN answers' :
              \/ \E m \in DOMAIN answers :
                    /\ answers'[n] = answers[m] /\ call'[answers[m].to] = call[answers[m].to]
              \/ Tells(answers'[n], call'[answers'[n].to], generation', named')
    PROVE  ReplyInv'
<1> SUFFICES ASSUME NEW n \in DOMAIN answers',
                    ~Tells(answers'[n], call'[answers'[n].to], generation', named')
             PROVE  FALSE
  BY DEF ReplyInv, Tells, RightIn
<1>1. PICK m \in DOMAIN answers :
              answers'[n] = answers[m] /\ call'[answers[m].to] = call[answers[m].to]
  OBVIOUS
<1> DEFINE r == answers[m]
           k == call[r.to]
           seen == [generation |-> r.generation, id |-> r.data.id, at |-> r.data.at]
<1>2. r \in Replies /\ r.generation \in Nat
  <2>1. r \in Replies
    BY DEF RecordsInv
  <2> QED BY <2>1 DEF Replies
<1>3. Tells(r, k, generation, named)
  BY DEF ReplyInv
<1>4. RightIn(seen, generation, named) => RightIn(seen, generation', named')
  BY <1>2, RightStays
<1> HIDE DEF r, k
<1>5. Tells(r, k, generation', named')
  BY <1>3, <1>4 DEF Tells
<1>6. answers'[n] = r /\ call'[answers'[n].to] = k
  BY <1>1 DEF r, k
<1> QED BY <1>5, <1>6

LEMMA SnapshotsKept ==
    ASSUME EngineInv, RecordsInv, SnapshotInv, NamesMove,
           \A c \in Callers :
              \/ snapshot'[c] = snapshot[c]
              \/ Located(snapshot'[c]) /\ RightIn(snapshot'[c], generation', named')
    PROVE  SnapshotInv'
<1> SUFFICES ASSUME NEW c \in Callers, snapshot'[c] # Nobody
             PROVE  Located(snapshot'[c]) /\ RightIn(snapshot'[c], generation', named')
  BY DEF SnapshotInv, Located, RightIn, WellScoped
<1>1. CASE snapshot'[c] = snapshot[c]
  <2>1. snapshot[c].generation \in Nat
    BY <1>1 DEF RecordsInv, Snapshots
  <2> QED BY <1>1, <2>1, RightStays DEF SnapshotInv
<1> QED BY <1>1

-----------------------------------------------------------------------------
(* Commands are sent                                                        *)

LEMMA EffectTypes == \A action : Effect(action) \in EffectNames \ {"acts"}
<1> SUFFICES ASSUME NEW action PROVE Effect(action) \in EffectNames \ {"acts"}
  OBVIOUS
<1> QED BY DEF Effect, EffectNames

\* What a page or a frame does, and what a browser does without a document.
LEMMA DocumentEffects ==
    ASSUME NEW a \in BOOLEAN
    PROVE  /\ PageEffects[a] \subseteq EffectNames \ {"acts"}
           /\ FrameEffects[a] \subseteq EffectNames \ {"acts"}
  BY EffectTypes DEF PageEffects, FrameEffects, Effects

LEMMA BrowserEffectTypes ==
    ASSUME NEW a \in BOOLEAN
    PROVE  BrowserEffects[a] \subseteq EffectNames \ {"acts", "observes", "frames"}
<1>1. BrowserActions(a) = Actions(Browser)
  BY DEF BrowserActions, Browser, AsyncBrowser, AsyncKeyboard, AsyncMouse, AsyncClipboard,
         AsyncDialogs, AsyncCookies, AsyncStorage, AsyncState, AsyncEmulation, AsyncNetwork,
         AsyncDiagnostics, AsyncScripts, AsyncWebMCP, AsyncDownloads, AsyncDashboard, AsyncDiff,
         AsyncSessionStatus, AsyncTabCommands
<1>2. ASSUME NEW class \in Browser, NEW method \in DOMAIN class
      PROVE  class[method] \notin {"snapshot", "frame"}
  BY <1>2 DEF Browser, Keyboard, Mouse, Clipboard, Dialogs, Cookies, Storage, State, Emulation,
              Network, Diagnostics, Scripts, WebMCP, Downloads, Dashboard, Diff, SessionStatus,
              TabCommands, Activate
<1>3. "snapshot" \notin BrowserActions(a) /\ "frame" \notin BrowserActions(a)
  BY <1>1, <1>2 DEF Actions
<1>4. \A action : /\ Effect(action) = "observes" => action = "snapshot"
                  /\ Effect(action) = "frames" => action = "frame"
  BY DEF Effect
<1> QED BY <1>3, <1>4, EffectTypes DEF BrowserEffects, Effects

\* The caller is at k from now on, and has sent o for it.
Sent(c, k, o) ==
    /\ k \in OperationRecord /\ o \in Orders
    /\ call' = [call EXCEPT ![c] = k] /\ queue' = Append(queue, o)
    /\ k.does # "nothing" /\ WellScoped(k.scope)
    /\ k.does \in {"observes", "refreshes", "frames"} => k.scope # Nobody
    /\ k.does \in {"acts", "refreshes"} => snapshot[c] # Nobody
    /\ k.does = "refreshes" => k.scope = snapshot[c].scope
    /\ o.by = c /\ o.effect = Commanded(k.does) /\ o.scope = k.scope /\ ~o.checked
    /\ o.effect = "acts" => o.ref # Nobody
    /\ o.ref # Nobody => RightIn(o.ref, generation, named)

LEMMA NobodyIsApart ==
    /\ Nobody \notin TargetIds /\ Nobody \notin FrameIds /\ Nobody \notin Scopes
    /\ Nobody \notin Snapshots /\ Nobody \notin Contexts
  BY DocumentsAssumption DEF Contexts

LEMMA CommandedTypes ==
    /\ \A does \in EffectNames : Commanded(does) = does
    /\ Commanded("finds") = "lists" /\ Commanded("reuses") = "switches"
    /\ Commanded("renavigates") = "navigates" /\ Commanded("refreshes") = "observes"
  BY DEF Commanded, EffectNames

LEMMA Begins ==
    ASSUME NEW c \in Callers, NEW does \in (EffectNames \union {"finds"}),
           NEW via \in {"none", "early", "fresh", "handle", "ref"},
           NEW scope \in Scopes \union {Nobody}, NEW ref \in Snapshots \union {Nobody},
           NEW tab \in AnyTarget, NEW effect, effect = Commanded(does), effect \in EffectNames,
           BeginCall(c, does, via, effect, scope, ref, tab),
           WellScoped(scope), does \in {"observes", "frames"} => scope # Nobody,
           does = "acts" => snapshot[c] # Nobody /\ ref # Nobody,
           ref # Nobody => RightIn(ref, generation, named)
    PROVE  \E k, o : Sent(c, k, o)
<1> DEFINE k == [does |-> does, via |-> via, scope |-> scope, tab |-> tab]
           o == [by |-> c, effect |-> effect, scope |-> scope, ref |-> ref, tab |-> tab,
                 checked |-> FALSE]
<1>1. k \in OperationRecord /\ o \in Orders
  BY DEF OperationRecord, Doings, Orders
<1>2. does # "nothing" /\ does # "refreshes" /\ (effect = "acts" => does = "acts")
  BY CommandedTypes DEF EffectNames
<1>3. call' = [call EXCEPT ![c] = k] /\ queue' = Append(queue, o)
  BY DEF BeginCall, Send
<1>4. /\ k.does = does /\ k.scope = scope
      /\ o.by = c /\ o.effect = effect /\ o.scope = scope /\ o.ref = ref /\ o.checked = FALSE
  OBVIOUS
<1> HIDE DEF k, o
<1>5. Sent(c, k, o)
  BY <1>1, <1>2, <1>3, <1>4 DEF Sent
<1> QED BY <1>5

LEMMA CallsBegin ==
    ASSUME EngineInv, RecordsInv, SnapshotInv, OperationInv, NEW c \in Callers, Calls(c)
    PROVE  \E k, o : Sent(c, k, o)
<1>1. call[c].does = "nothing" /\ isAsync \in BOOLEAN
  BY DEF Calls, Ready, AtWork, RecordsInv
<1>2. CASE CallPage(c)
  <2>1. PICK page \in PageScopes, effect \in PageEffects[isAsync] :
            BeginCall(c, effect, page[1], effect, page[2], Nobody, Nobody)
    BY <1>2 DEF CallPage
  <2>2. /\ page[1] \in {"none", "early", "fresh", "handle", "ref"} /\ page[2] \in Scopes
        /\ page[2].frame = Nobody
    BY DEF PageScopes, Scope, Scopes, RecordsInv, AnyTarget
  <2>3. effect \in EffectNames \ {"acts"} /\ effect = Commanded(effect)
    BY <1>1, DocumentEffects, CommandedTypes
  <2>4. page[2] # Nobody /\ WellScoped(page[2])
    BY <2>2, NobodyIsApart DEF WellScoped
  <2> QED BY <1>1, <2>1, <2>2, <2>3, <2>4, Begins DEF AnyTarget
<1>3. CASE CallHandle(c)
  <2>1. PICK effect \in EffectNames \ {"acts"} :
            BeginCall(c, effect, "handle", effect, handles[c], Nobody, Nobody)
    BY <1>1, <1>3, DocumentEffects DEF CallHandle
  <2>2. handles[c] \in Scopes /\ handles[c] # Nobody /\ WellScoped(handles[c])
    BY <1>3 DEF CallHandle, RecordsInv, OperationInv
  <2>3. effect = Commanded(effect)
    BY CommandedTypes
  <2> QED BY <1>1, <2>1, <2>2, <2>3, Begins DEF AnyTarget
<1>4. CASE CallBrowser(c)
  <2>1. PICK effect \in BrowserEffects[isAsync], tab \in openTabs \union {Nobody} :
            BeginCall(c, effect, "none", effect, Nobody, Nobody, tab)
    BY <1>4 DEF CallBrowser, Unbound
  <2>2. effect \in EffectNames \ {"acts", "observes", "frames"} /\ effect = Commanded(effect)
    BY <1>1, BrowserEffectTypes, CommandedTypes
  <2>3. tab \in AnyTarget /\ WellScoped(Nobody)
    BY DEF openTabs, AnyTarget, WellScoped
  <2> QED BY <1>1, <2>1, <2>2, <2>3, Begins
<1>5. CASE CallRef(c)
  <2>1. /\ snapshot[c] # Nobody /\ snapshot[c] \in Snapshots
        /\ BeginCall(c, "acts", "ref", "acts", snapshot[c].scope, snapshot[c], Nobody)
    BY <1>5 DEF CallRef, RecordsInv
  <2>2. /\ snapshot[c].scope \in Scopes /\ WellScoped(snapshot[c].scope)
        /\ RightIn(snapshot[c], generation, named)
    BY <2>1 DEF SnapshotInv, Located, Snapshots
  <2>3. "acts" = Commanded("acts") /\ "acts" \in EffectNames
    BY CommandedTypes DEF EffectNames
  <2> QED BY <1>1, <2>1, <2>2, <2>3, Begins DEF AnyTarget
<1>6. CASE CallOpen(c)
  <2>1. PICK tab \in openTabs : BeginCall(c, "finds", "none", "lists", Nobody, Nobody, tab)
    BY <1>6 DEF CallOpen, Unbound
  <2>2. tab \in AnyTarget /\ WellScoped(Nobody)
    BY DEF openTabs, AnyTarget, WellScoped
  <2>3. "lists" = Commanded("finds") /\ "lists" \in EffectNames
    BY CommandedTypes DEF EffectNames
  <2> QED BY <1>1, <2>1, <2>2, <2>3, Begins
<1> QED BY <1>2, <1>3, <1>4, <1>5, <1>6 DEF Calls

LEMMA WireTypes ==
    ASSUME RecordsInv
    PROVE  /\ \A n \in DOMAIN queue : queue[n] \in Orders /\ queue[n].by \in Callers
           /\ \A n \in DOMAIN answers :
                 /\ answers[n] \in Replies /\ answers[n].to \in Callers
                 /\ answers[n].target \in AnyTarget /\ answers[n].generation \in Nat
<1>1. /\ \A n \in DOMAIN queue : queue[n] \in Orders
      /\ \A n \in DOMAIN answers : answers[n] \in Replies
  BY DEF RecordsInv
<1>2. \A o \in Orders : o.by \in Callers
  BY DEF Orders
<1>3. \A r \in Replies : r.to \in Callers /\ r.target \in AnyTarget /\ r.generation \in Nat
  BY DEF Replies
<1> QED BY <1>1, <1>2, <1>3

\* What a command sent keeps, whatever becomes of the answers.
LEMMA SentKeeps ==
    ASSUME EngineInv, RecordsInv, WireInv, NEW c \in Callers, NEW k, NEW o, Sent(c, k, o),
           c \notin Asking, UNCHANGED <<engineState, handles, snapshot>>
    PROVE  /\ queue' \in Seq(Orders) /\ call' \in [Callers -> OperationRecord]
           /\ \A m, n \in DOMAIN queue' : queue'[m].by = queue'[n].by => m = n
           /\ Asking' = Asking \union {c} /\ OperationInv' /\ OrderInv' /\ CheckedInv'
           /\ (\A n \in DOMAIN queue' : ~queue'[n].checked) => \A n \in DOMAIN queue : ~queue[n].checked
<1>1. k \in OperationRecord /\ o \in Orders /\ queue \in Seq(Orders) /\ call \in [Callers -> OperationRecord]
  BY DEF RecordsInv, Sent
<1>2. call' \in [Callers -> OperationRecord] /\ call'[c] = k /\ \A d \in Callers \ {c} : call'[d] = call[d]
  BY <1>1 DEF Sent
<1>3. /\ queue' \in Seq(Orders) /\ Extends(queue', queue, o)
      /\ DOMAIN queue = 1 .. Len(queue) /\ Len(queue) \in Nat
  BY <1>1, AppendExtends DEF Sent
<1>4. /\ DOMAIN queue' = DOMAIN queue \union {Len(queue) + 1} /\ queue'[Len(queue) + 1] = o
      /\ \A n \in DOMAIN queue : queue'[n] = queue[n]
  BY <1>3 DEF Extends
<1>5. /\ \A m, n \in DOMAIN queue' : queue'[m].by = queue'[n].by => m = n
      /\ {queue'[n].by : n \in DOMAIN queue'} = {queue[n].by : n \in DOMAIN queue} \union {c}
  <2>1. o.by = c /\ \A m, n \in DOMAIN queue : queue[m].by = queue[n].by => m = n
    BY DEF Sent, WireInv, WaitInv
  <2>2. o.by \notin {queue[n].by : n \in DOMAIN queue}
    BY <2>1 DEF Asking
  <2>3. /\ \A m, n \in DOMAIN queue' : queue'[m].by = queue'[n].by => m = n
        /\ {queue'[n].by : n \in DOMAIN queue'} = {queue[n].by : n \in DOMAIN queue} \union {o.by}
    BY <1>1, <1>3, <2>1, <2>2, ExtendBy
  <2> QED BY <2>1, <2>3
<1>6. OperationInv'
  BY <1>2 DEF Sent, WireInv, OperationInv
<1>7. OrderInv'
  <2>1. NamesMove
    BY NamesStay DEF engineState, KeepRefs
  <2>2. \A n \in DOMAIN queue : queue[n].by \in Callers \ {c}
    BY WireTypes DEF Asking
  <2>3. ASSUME NEW n \in DOMAIN queue'
        PROVE  \/ \E m \in DOMAIN queue :
                    /\ queue'[n].by = queue[m].by /\ queue'[n].effect = queue[m].effect
                    /\ queue'[n].scope = queue[m].scope /\ queue'[n].ref = queue[m].ref
                    /\ call'[queue[m].by] = call[queue[m].by]
               \/ /\ queue'[n].effect = Commanded(call'[queue'[n].by].does)
                  /\ queue'[n].scope = call'[queue'[n].by].scope
                  /\ queue'[n].effect = "acts" => queue'[n].ref # Nobody
                  /\ queue'[n].ref # Nobody => RightIn(queue'[n].ref, generation', named')
    <3>1. CASE n \in DOMAIN queue
      BY <1>2, <1>4, <2>2, <3>1
    <3>2. CASE n = Len(queue) + 1
      BY <1>2, <1>4, <3>2 DEF Sent, engineState
    <3> QED BY <1>4, <3>1, <3>2
  <2> QED BY <1>3, <2>1, <2>3, OrdersKept DEF WireInv
<1>8. CheckedInv'
  <2>1. top' = top /\ mapped' = mapped /\ openTabs' = openTabs
    BY DEF engineState, openTabs
  <2>2. ~o.checked
    BY DEF Sent
  <2> QED BY <1>4, <2>1, <2>2 DEF WireInv, CheckedInv, HasTarget, Unbound
<1> QED BY <1>2, <1>3, <1>4, <1>5, <1>6, <1>7, <1>8 DEF Asking

LEMMA CallsKeep == ASSUME DocumentsInv, NEW c \in Callers, Calls(c) PROVE DocumentsInv'
<1>1. EngineInv /\ RecordsInv /\ WireInv /\ SnapshotInv /\ KnownInv /\ HitInv /\ OperationInv /\ WaitInv
  BY DEF DocumentsInv, WireInv
<1>2. /\ hit' = Nobody /\ bound' = Nobody
      /\ UNCHANGED <<isAsync, engineState, answers, knownTarget, knownGeneration, early, handles,
                     snapshot, missed>>
  BY DEF Calls, CallPage, CallHandle, CallBrowser, CallRef, CallOpen, BeginCall
<1>3. PICK k, o : Sent(c, k, o)
  BY <1>1, CallsBegin
<1>4. c \notin Asking /\ c \notin Answered
  BY <1>1 DEF WaitInv, Calls, Ready
<1>5. /\ queue' \in Seq(Orders) /\ call' \in [Callers -> OperationRecord]
      /\ \A m, n \in DOMAIN queue' : queue'[m].by = queue'[n].by => m = n
      /\ Asking' = Asking \union {c} /\ OperationInv' /\ OrderInv' /\ CheckedInv'
      /\ (\A n \in DOMAIN queue' : ~queue'[n].checked) => \A n \in DOMAIN queue : ~queue[n].checked
  BY <1>1, <1>2, <1>3, <1>4, SentKeeps
<1>6. call'[c] = k /\ k.does # "nothing" /\ \A d \in Callers \ {c} : call'[d] = call[d]
  BY <1>1, <1>3 DEF Sent, RecordsInv
<1>7. Answered' = Answered
  BY <1>2 DEF Answered
<1>8. EngineInv'
  BY <1>1, <1>2 DEF EngineInv, engineState, openTabs
<1>9. RecordsInv'
  BY <1>1, <1>2, <1>5 DEF RecordsInv
<1>10. WaitInv'
  BY <1>1, <1>2, <1>4, <1>5, <1>6, <1>7 DEF WaitInv, AtWork
<1>11. ReplyInv'
  <2>1. NamesMove
    BY <1>2, NamesStay DEF engineState, KeepRefs
  <2>2. \A n \in DOMAIN answers : answers[n].to \in Callers \ {c}
    BY <1>1, <1>4, WireTypes DEF Answered
  <2>3. \A n \in DOMAIN answers' : \E m \in DOMAIN answers :
            answers'[n] = answers[m] /\ call'[answers[m].to] = call[answers[m].to]
    BY <1>2, <1>6, <2>2
  <2> QED BY <1>1, <2>1, <2>3, RepliesKept DEF WireInv
<1>12. SnapshotInv' /\ HitInv'
  BY <1>1, <1>2 DEF SnapshotInv, HitInv, engineState, RightIn, Located, WellScoped
<1>13. KnownInv'
  BY <1>1, <1>2, <1>5 DEF KnownInv, engineState
<1> QED BY <1>5, <1>8, <1>9, <1>10, <1>11, <1>12, <1>13 DEF DocumentsInv, WireInv

-----------------------------------------------------------------------------
(* Answers are taken up                                                     *)

\* A queue of one kind of thing, after it gave up its first item.
LEMMA TakenTypes ==
    ASSUME RecordsInv, WaitInv, NEW c \in Callers, Taken(c)
    PROVE  /\ answers' \in Seq(Replies) /\ 1 \in DOMAIN answers
           /\ Head(answers) = answers[1] /\ answers[1] \in Replies /\ answers[1].to = c
           /\ DOMAIN answers = 1 .. Len(answers) /\ Len(answers) \in Nat \ {0}
           /\ DOMAIN answers' = 1 .. (Len(answers) - 1)
           /\ \A n \in DOMAIN answers' : answers'[n] = answers[n + 1] /\ n + 1 \in DOMAIN answers
           /\ \A m, n \in DOMAIN answers' : answers'[m].to = answers'[n].to => m = n
           /\ Answered' = Answered \ {c} /\ c \in Answered /\ c \notin Asking
<1>1. answers \in Seq(Replies) /\ answers # << >> /\ Head(answers).to = c /\ answers' = Tail(answers)
  BY DEF RecordsInv, Taken
<1>2. /\ Thins(answers', answers, 1) /\ answers' \in Seq(Replies)
      /\ Head(answers) = answers[1] /\ answers[1] \in Replies /\ 1 \in DOMAIN answers
      /\ DOMAIN answers = 1 .. Len(answers) /\ Len(answers) \in Nat \ {0}
  BY <1>1, TailThins
<1>3. /\ DOMAIN answers' = 1 .. (Len(answers) - 1)
      /\ \A n \in DOMAIN answers' : answers'[n] = answers[n + 1] /\ n + 1 \in DOMAIN answers
  BY <1>2 DEF Thins
<1>4. \A m, n \in DOMAIN answers : answers[m].to = answers[n].to => m = n
  BY DEF WaitInv
<1>5. /\ \A m, n \in DOMAIN answers' : answers'[m].to = answers'[n].to => m = n
      /\ {answers'[n].to : n \in DOMAIN answers'}
            = {answers[n].to : n \in DOMAIN answers} \ {answers[1].to}
  <2> DEFINE s == answers
             t == answers'
  <2>1. s \in Seq(Replies) /\ t \in Seq(Replies) /\ 1 \in DOMAIN s /\ Thins(t, s, 1)
    BY <1>1, <1>2
  <2>2. \A m, n \in DOMAIN s : s[m].to = s[n].to => m = n
    BY <1>4
  <2> HIDE DEF s, t
  <2>3. /\ \A m, n \in DOMAIN t : t[m].to = t[n].to => m = n
        /\ {t[n].to : n \in DOMAIN t} = {s[n].to : n \in DOMAIN s} \ {s[1].to}
    BY <2>1, <2>2, ThinTo
  <2> QED BY <2>3 DEF s, t
<1>6. c \in Answered
  BY <1>1, <1>2 DEF Answered
<1>7. c \notin Asking
  BY <1>6 DEF WaitInv
<1> QED BY <1>1, <1>2, <1>3, <1>5, <1>6, <1>7 DEF Answered

LEMMA TakeKeeps ==
    ASSUME EngineInv, RecordsInv, WireInv, KnownInv, HitInv, NEW c \in Callers,
           Taken(c), Accepts(c, Head(answers)), UNCHANGED <<isAsync, engineState, hit, missed>>,
           \A d \in Callers \ {c} : call'[d] = call[d],
           (\A n \in DOMAIN queue' : ~queue'[n].checked) => \A n \in DOMAIN queue : ~queue[n].checked
    PROVE  /\ ReplyInv' /\ KnownInv' /\ HitInv'
           /\ knownTarget' \in AnyTarget /\ knownGeneration' \in Nat /\ early' \in AnyTarget
           /\ Head(answers) \in Replies
           /\ Tells(Head(answers), call[c], generation, named)
<1> DEFINE r == Head(answers)
<1>1. /\ r = answers[1] /\ r \in Replies /\ r.to = c /\ 1 \in DOMAIN answers
      /\ DOMAIN answers = 1 .. Len(answers) /\ Len(answers) \in Nat \ {0}
      /\ DOMAIN answers' = 1 .. (Len(answers) - 1)
      /\ \A n \in DOMAIN answers' : answers'[n] = answers[n + 1] /\ n + 1 \in DOMAIN answers
  BY TakenTypes DEF WireInv
<1>2. r.target \in AnyTarget /\ r.generation \in Nat
  BY <1>1, WireTypes
<1>3. Tells(r, call[c], generation, named)
  BY <1>1 DEF WireInv, ReplyInv
<1>4. /\ knownGeneration' = IF r.generation = 0 THEN knownGeneration ELSE r.generation
      /\ knownTarget' = IF r.target = Nobody THEN knownTarget ELSE r.target
  BY DEF Accepts, Recorded, Unsaid
<1>5. knownTarget' \in AnyTarget /\ knownGeneration' \in Nat
  BY <1>2, <1>4 DEF RecordsInv
<1>6. early' \in AnyTarget /\ (bound' # Nobody => bound'.to = bound'.ran)
  <2>1. BindTarget(c, r)
    BY DEF Accepts
  <2>2. CASE early' = knownTarget' /\ r.target # Nobody /\ bound' = [to |-> knownTarget', ran |-> r.target]
    BY <1>4, <1>5, <2>2
  <2>3. CASE UNCHANGED <<early, bound>>
    BY <2>3 DEF RecordsInv, HitInv
  <2> QED BY <2>1, <2>2, <2>3 DEF BindTarget
<1>7. HitInv'
  BY <1>6 DEF HitInv
<1>8. ReplyInv'
  <2>1. NamesMove
    BY NamesStay DEF engineState, KeepRefs
  <2>2. \A n \in DOMAIN answers : answers[n].to \in Callers /\ (n # 1 => answers[n].to # c)
    BY <1>1, WireTypes DEF WireInv, WaitInv
  <2>3. ASSUME NEW n \in DOMAIN answers'
        PROVE  \E m \in DOMAIN answers :
                  answers'[n] = answers[m] /\ call'[answers[m].to] = call[answers[m].to]
    <3>1. n + 1 \in DOMAIN answers /\ n + 1 # 1 /\ answers'[n] = answers[n + 1]
      BY <1>1
    <3> QED BY <2>2, <3>1
  <2> QED BY <2>1, <2>3, RepliesKept DEF WireInv
<1>9. KnownInv'
  <2>1. knownTarget' # Nobody => knownGeneration' # 0
    BY <1>2, <1>3, <1>4 DEF KnownInv, Tells, Unsaid
  <2>2. top' = top /\ generation' = generation /\ missed' = missed
    BY DEF engineState
  <2> SUFFICES ASSUME ~missed, \A n \in DOMAIN queue : ~queue[n].checked
      PROVE  /\ \/ \E n \in DOMAIN answers' :
                     /\ top # Nobody /\ answers'[n].target = top
                     /\ \A m \in DOMAIN answers' : m > n => answers'[m].target = Nobody
                \/ /\ \A m \in DOMAIN answers' : answers'[m].target = Nobody
                   /\ knownTarget' \in {top, Nobody}
             /\ \/ \E n \in DOMAIN answers' :
                     /\ answers'[n].generation = generation
                     /\ \A m \in DOMAIN answers' : m > n => answers'[m].generation = Unsaid
                \/ /\ \A m \in DOMAIN answers' : answers'[m].generation = Unsaid
                   /\ knownGeneration' \in {generation, 0}
    BY <2>1, <2>2 DEF KnownInv
  <2>3. \A n \in DOMAIN answers : n = 1 \/ (n - 1 \in DOMAIN answers' /\ answers'[n - 1] = answers[n])
    BY <1>1
  <2>4. \/ \E n \in DOMAIN answers' :
             /\ top # Nobody /\ answers'[n].target = top
             /\ \A m \in DOMAIN answers' : m > n => answers'[m].target = Nobody
        \/ /\ \A m \in DOMAIN answers' : answers'[m].target = Nobody
           /\ knownTarget' \in {top, Nobody}
    <3>1. CASE \E n \in DOMAIN answers :
                 /\ top # Nobody /\ answers[n].target = top
                 /\ \A m \in DOMAIN answers : m > n => answers[m].target = Nobody
      <4>1. PICK n \in DOMAIN answers :
                 /\ top # Nobody /\ answers[n].target = top
                 /\ \A m \in DOMAIN answers : m > n => answers[m].target = Nobody
        BY <3>1
      <4>2. CASE n = 1
        <5>1. \A m \in DOMAIN answers' : answers'[m].target = Nobody
          BY <1>1, <4>1, <4>2
        <5> QED BY <1>1, <1>4, <4>1, <4>2, <5>1
      <4>3. CASE n # 1
        <5>1. n - 1 \in DOMAIN answers' /\ answers'[n - 1].target = top /\ top # Nobody
          BY <2>3, <4>1, <4>3
        <5>2. \A m \in DOMAIN answers' : m > n - 1 => answers'[m].target = Nobody
          BY <1>1, <4>1
        <5> QED BY <5>1, <5>2
      <4> QED BY <4>2, <4>3
    <3>2. CASE /\ \A m \in DOMAIN answers : answers[m].target = Nobody
               /\ knownTarget \in {top, Nobody}
      BY <1>1, <1>4, <3>2
    <3> QED BY <3>1, <3>2 DEF KnownInv
  <2>5. \/ \E n \in DOMAIN answers' :
             /\ answers'[n].generation = generation
             /\ \A m \in DOMAIN answers' : m > n => answers'[m].generation = Unsaid
        \/ /\ \A m \in DOMAIN answers' : answers'[m].generation = Unsaid
           /\ knownGeneration' \in {generation, 0}
    <3>1. CASE \E n \in DOMAIN answers :
                 /\ answers[n].generation = generation
                 /\ \A m \in DOMAIN answers : m > n => answers[m].generation = Unsaid
      <4>1. PICK n \in DOMAIN answers :
                 /\ answers[n].generation = generation
                 /\ \A m \in DOMAIN answers : m > n => answers[m].generation = Unsaid
        BY <3>1
      <4>2. CASE n = 1
        <5>1. \A m \in DOMAIN answers' : answers'[m].generation = Unsaid
          BY <1>1, <4>1, <4>2
        <5>2. generation # 0
          BY DEF EngineInv
        <5> QED BY <1>1, <1>4, <4>1, <4>2, <5>1, <5>2
      <4>3. CASE n # 1
        <5>1. n - 1 \in DOMAIN answers' /\ answers'[n - 1].generation = generation
          BY <2>3, <4>1, <4>3
        <5>2. \A m \in DOMAIN answers' : m > n - 1 => answers'[m].generation = Unsaid
          BY <1>1, <4>1
        <5> QED BY <5>1, <5>2
      <4> QED BY <4>2, <4>3
    <3>2. CASE /\ \A m \in DOMAIN answers : answers[m].generation = Unsaid
               /\ knownGeneration \in {generation, 0}
      BY <1>1, <1>4, <3>2 DEF Unsaid
    <3> QED BY <3>1, <3>2 DEF KnownInv
  <2> QED BY <2>4, <2>5
<1> QED BY <1>1, <1>3, <1>5, <1>6, <1>7, <1>8, <1>9

\* The operation ends.
LEMMA DoneKeeps ==
    ASSUME EngineInv, RecordsInv, WireInv, NEW c \in Callers, Done(c),
           UNCHANGED <<engineState, queue>>, c \notin Asking,
           \A d \in Callers : WellScoped(handles'[d]) /\ (handles'[d] # Nobody => handles'[d].target # Nobody),
           \A d \in Callers \ {c} : snapshot'[d] = snapshot[d]
    PROVE  /\ call' \in [Callers -> OperationRecord] /\ call'[c] = NoCall
           /\ \A d \in Callers \ {c} : call'[d] = call[d]
           /\ Asking' = Asking /\ OperationInv' /\ OrderInv' /\ CheckedInv'
<1>1. NoCall \in OperationRecord /\ NoCall.does = "nothing" /\ NoCall.scope = Nobody
  BY DEF NoCall, OperationRecord, Doings, AnyTarget, Unbound
<1>2. /\ call' \in [Callers -> OperationRecord] /\ call'[c] = NoCall
      /\ \A d \in Callers \ {c} : call'[d] = call[d]
  BY <1>1 DEF Done, RecordsInv
<1>3. OperationInv'
  BY <1>1, <1>2 DEF WireInv, OperationInv, WellScoped
<1>4. OrderInv'
  <2>1. NamesMove
    BY NamesStay DEF engineState, KeepRefs
  <2>2. \A n \in DOMAIN queue : queue[n].by \in Callers \ {c}
    BY WireTypes DEF Asking
  <2>3. queue' \in Seq(Orders)
    BY DEF RecordsInv
  <2>4. \A n \in DOMAIN queue' : \E m \in DOMAIN queue :
           /\ queue'[n].by = queue[m].by /\ queue'[n].effect = queue[m].effect
           /\ queue'[n].scope = queue[m].scope /\ queue'[n].ref = queue[m].ref
           /\ call'[queue[m].by] = call[queue[m].by]
    BY <1>2, <2>2
  <2> QED BY <2>1, <2>3, <2>4, OrdersKept DEF WireInv
<1>5. CheckedInv'
  BY DEF WireInv, CheckedInv, engineState, openTabs, HasTarget, Unbound
<1> QED BY <1>2, <1>3, <1>4, <1>5 DEF Asking

LEMMA EndsKeep ==
    ASSUME DocumentsInv, NEW c \in Callers, Taken(c), Accepts(c, Head(answers)), Done(c),
           UNCHANGED <<isAsync, engineState, queue, hit, missed>>,
           handles' \in [Callers -> Scopes \union {Nobody}],
           snapshot' \in [Callers -> Snapshots \union {Nobody}],
           \A d \in Callers : WellScoped(handles'[d]) /\ (handles'[d] # Nobody => handles'[d].target # Nobody),
           \A d \in Callers \ {c} : snapshot'[d] = snapshot[d],
           \/ snapshot'[c] = snapshot[c]
           \/ Located(snapshot'[c]) /\ RightIn(snapshot'[c], generation, named)
    PROVE  DocumentsInv'
<1>1. EngineInv /\ RecordsInv /\ WireInv /\ SnapshotInv /\ KnownInv /\ HitInv /\ OperationInv /\ WaitInv
  BY DEF DocumentsInv, WireInv
<1>2. /\ answers' \in Seq(Replies) /\ \A m, n \in DOMAIN answers' : answers'[m].to = answers'[n].to => m = n
      /\ Answered' = Answered \ {c} /\ c \in Answered /\ c \notin Asking
  BY <1>1, TakenTypes
<1>3. /\ call' \in [Callers -> OperationRecord] /\ call'[c] = NoCall
      /\ \A d \in Callers \ {c} : call'[d] = call[d]
      /\ Asking' = Asking /\ OperationInv' /\ OrderInv' /\ CheckedInv'
  BY <1>1, <1>2, DoneKeeps
<1>4. /\ ReplyInv' /\ KnownInv' /\ HitInv'
      /\ knownTarget' \in AnyTarget /\ knownGeneration' \in Nat /\ early' \in AnyTarget
  BY <1>1, <1>3, TakeKeeps
<1>5. EngineInv'
  BY <1>1 DEF EngineInv, engineState, openTabs
<1>6. RecordsInv'
  BY <1>1, <1>2, <1>3, <1>4 DEF RecordsInv
<1>7. WaitInv'
  BY <1>1, <1>2, <1>3 DEF WaitInv, AtWork, NoCall
<1>8. SnapshotInv'
  <2>1. NamesMove
    BY NamesStay DEF engineState, KeepRefs
  <2>2. generation' = generation /\ named' = named
    BY DEF engineState
  <2> QED BY <1>1, <2>1, <2>2, SnapshotsKept
<1> QED BY <1>3, <1>4, <1>5, <1>6, <1>7, <1>8 DEF DocumentsInv, WireInv

\* The operation goes on with another command.
LEMMA GoesKeep ==
    ASSUME DocumentsInv, NEW c \in Callers, NEW k, NEW o, Sent(c, k, o), Taken(c),
           Accepts(c, Head(answers)),
           UNCHANGED <<isAsync, engineState, handles, snapshot, hit, missed>>
    PROVE  DocumentsInv'
<1>1. EngineInv /\ RecordsInv /\ WireInv /\ SnapshotInv /\ KnownInv /\ HitInv /\ OperationInv /\ WaitInv
  BY DEF DocumentsInv, WireInv
<1>2. /\ answers' \in Seq(Replies) /\ \A m, n \in DOMAIN answers' : answers'[m].to = answers'[n].to => m = n
      /\ Answered' = Answered \ {c} /\ c \in Answered /\ c \notin Asking
  BY <1>1, TakenTypes
<1>3. /\ queue' \in Seq(Orders) /\ call' \in [Callers -> OperationRecord]
      /\ \A m, n \in DOMAIN queue' : queue'[m].by = queue'[n].by => m = n
      /\ Asking' = Asking \union {c} /\ OperationInv' /\ OrderInv' /\ CheckedInv'
      /\ (\A n \in DOMAIN queue' : ~queue'[n].checked) => \A n \in DOMAIN queue : ~queue[n].checked
  BY <1>1, <1>2, SentKeeps
<1>4. call'[c] = k /\ k.does # "nothing" /\ \A d \in Callers \ {c} : call'[d] = call[d]
  BY <1>1 DEF Sent, RecordsInv
<1>5. /\ ReplyInv' /\ KnownInv' /\ HitInv'
      /\ knownTarget' \in AnyTarget /\ knownGeneration' \in Nat /\ early' \in AnyTarget
  BY <1>1, <1>3, <1>4, TakeKeeps
<1>6. EngineInv'
  BY <1>1 DEF EngineInv, engineState, openTabs
<1>7. RecordsInv'
  BY <1>1, <1>2, <1>3, <1>5 DEF RecordsInv
<1>8. WaitInv'
  BY <1>1, <1>2, <1>3, <1>4 DEF WaitInv, AtWork
<1>9. SnapshotInv'
  BY <1>1 DEF SnapshotInv, engineState, RightIn, Located, WellScoped
<1> QED BY <1>3, <1>5, <1>6, <1>7, <1>8, <1>9 DEF DocumentsInv, WireInv

LEMMA GoesSends ==
    ASSUME RecordsInv, NEW c \in Callers, NEW does \in {"refreshes", "opens", "reuses", "renavigates"},
           NEW effect, effect = Commanded(does), effect \in EffectNames,
           NEW scope \in Scopes \union {Nobody}, NEW tab \in AnyTarget,
           Goes(c, does, effect, scope, tab), WellScoped(scope),
           does = "refreshes" => scope # Nobody /\ snapshot[c] # Nobody /\ scope = snapshot[c].scope
    PROVE  \E k, o : Sent(c, k, o)
<1> DEFINE k == [call[c] EXCEPT !.does = does, !.scope = scope]
           o == [by |-> c, effect |-> effect, scope |-> scope, ref |-> Nobody, tab |-> tab,
                 checked |-> FALSE]
<1>1. call[c] \in OperationRecord /\ call \in [Callers -> OperationRecord]
  BY DEF RecordsInv
<1>2. does \in Doings
  BY DEF Doings, EffectNames
<1>3. k \in OperationRecord /\ k.does = does /\ k.scope = scope
  BY <1>1, <1>2 DEF OperationRecord
<1>4. o \in Orders
  BY DEF Orders
<1>5. /\ o.by = c /\ o.effect = effect /\ o.scope = scope /\ o.ref = Nobody /\ o.checked = FALSE
      /\ queue' = Append(queue, o)
  BY DEF Goes, Send
<1>6. call' = [call EXCEPT ![c] = k]
  BY <1>1 DEF Goes
<1>7. does # "nothing" /\ does # "acts" /\ does \notin {"observes", "frames"} /\ effect # "acts"
  BY CommandedTypes DEF EffectNames, Commanded
<1> HIDE DEF k, o
<1>8. Sent(c, k, o)
  BY <1>3, <1>4, <1>5, <1>6, <1>7 DEF Sent
<1> QED BY <1>8

LEMMA SnapshotsKeep ==
    ASSUME DocumentsInv, NEW c \in Callers, ReturnSnapshot(c) PROVE DocumentsInv'
<1> DEFINE r == Head(answers)
           k == call[c]
           s == Captured(c, r)
<1>1. EngineInv /\ RecordsInv /\ WireInv /\ SnapshotInv /\ KnownInv /\ HitInv /\ OperationInv
  BY DEF DocumentsInv, WireInv
<1>2. /\ Taken(c) /\ Accepts(c, r) /\ Done(c) /\ r.code = "ok" /\ k.does \in {"observes", "refreshes"}
      /\ snapshot' = [snapshot EXCEPT ![c] = s]
      /\ UNCHANGED <<isAsync, engineState, queue, handles, hit, missed>>
  BY DEF ReturnSnapshot
<1>3. r \in Replies /\ Tells(r, k, generation, named)
  <2>1. \A d \in Callers \ {c} : call'[d] = call[d]
    BY <1>1, <1>2 DEF Done, RecordsInv
  <2> QED BY <1>1, <1>2, <2>1, TakeKeeps
<1>4. k.scope \in Scopes /\ WellScoped(k.scope)
  <2>1. k \in OperationRecord /\ k.scope # Nobody /\ WellScoped(k.scope)
    BY <1>1, <1>2 DEF RecordsInv, OperationInv
  <2> QED BY <2>1 DEF OperationRecord
<1>5. /\ r.target \in TargetIds /\ r.generation \in Nat /\ r.data \in Seen
      /\ k.scope.target # Nobody => r.target = k.scope.target
      /\ r.data.at[1] = IF k.scope.frame = Nobody THEN r.target ELSE k.scope.frame
      /\ RightIn([generation |-> r.generation, id |-> r.data.id, at |-> r.data.at], generation, named)
  BY <1>2, <1>3 DEF Tells, Replies, AnyTarget
<1>6. /\ s.scope = [target |-> r.target, frame |-> k.scope.frame] /\ s.generation = r.generation
      /\ s.id = r.data.id /\ s.at = r.data.at
  BY DEF Captured, ResultScope, Scope
<1>7. s \in Snapshots
  BY <1>4, <1>5 DEF Captured, ResultScope, Scope, Snapshots, Seen, Scopes
<1>8. RightIn(s, generation, named)
  BY <1>5, <1>6 DEF RightIn
<1>9. Located(s)
  <2>1. k.scope.frame # Nobody => FrameOf[k.scope.frame] = r.target
    <3> SUFFICES ASSUME k.scope.frame # Nobody PROVE FrameOf[k.scope.frame] = r.target
      OBVIOUS
    <3>1. k.scope.frame \in FrameIds /\ FrameOf[k.scope.frame] = k.scope.target
      BY <1>4, NobodyIsApart DEF WellScoped, Scopes
    <3>2. k.scope.target # Nobody
      BY <3>1, DocumentsAssumption, NobodyIsApart
    <3> QED BY <1>5, <3>1, <3>2
  <2> QED BY <1>5, <1>6, <2>1 DEF Located, WellScoped
<1> HIDE DEF s
<1>10. /\ snapshot' \in [Callers -> Snapshots \union {Nobody}] /\ snapshot'[c] = s
       /\ \A d \in Callers \ {c} : snapshot'[d] = snapshot[d]
  BY <1>1, <1>2, <1>7 DEF RecordsInv
<1>11. /\ handles' \in [Callers -> Scopes \union {Nobody}]
       /\ \A d \in Callers : WellScoped(handles'[d]) /\ (handles'[d] # Nobody => handles'[d].target # Nobody)
  BY <1>1, <1>2 DEF RecordsInv, OperationInv
<1> QED BY <1>2, <1>8, <1>9, <1>10, <1>11, EndsKeep

LEMMA HandlesKeep ==
    ASSUME DocumentsInv, NEW c \in Callers, ReturnHandle(c) PROVE DocumentsInv'
<1> DEFINE r == Head(answers)
           k == call[c]
           found == IF k.does = "lists"
                    THEN {Scope(t, Nobody) : t \in r.data}
                    ELSE {Scope(r.target, f) : f \in {g \in r.data :
                              k.scope.frame = Nobody /\ FrameOf[g] = r.target}}
<1>1. EngineInv /\ RecordsInv /\ WireInv /\ SnapshotInv /\ KnownInv /\ HitInv /\ OperationInv
  BY DEF DocumentsInv, WireInv
<1>2. /\ Taken(c) /\ Accepts(c, r) /\ Done(c) /\ r.code = "ok" /\ k.does \in {"frames", "lists"}
      /\ handles' \in IF found = {} THEN {handles} ELSE {[handles EXCEPT ![c] = h] : h \in found}
      /\ UNCHANGED <<isAsync, engineState, queue, snapshot, hit, missed>>
  BY DEF ReturnHandle
<1>3. r \in Replies /\ Tells(r, k, generation, named)
  <2>1. \A d \in Callers \ {c} : call'[d] = call[d]
    BY <1>1, <1>2 DEF Done, RecordsInv
  <2> QED BY <1>1, <1>2, <2>1, TakeKeeps
<1>4. /\ r.target \in TargetIds
      /\ k.does = "lists" => r.data \subseteq TargetIds
      /\ k.does = "frames" => r.data \subseteq FrameIds
  BY <1>2, <1>3 DEF Tells, Replies, AnyTarget
<1>5. \A h \in found : h \in Scopes /\ WellScoped(h) /\ h.target # Nobody
  <2>1. CASE k.does = "lists"
    BY <1>4, <2>1, NobodyIsApart DEF Scope, Scopes, WellScoped
  <2>2. CASE k.does = "frames"
    BY <1>4, <2>2, NobodyIsApart DEF Scope, Scopes, WellScoped
  <2> QED BY <1>2, <2>1, <2>2
<1> HIDE DEF found
<1>6. /\ handles' \in [Callers -> Scopes \union {Nobody}]
      /\ \A d \in Callers : WellScoped(handles'[d]) /\ (handles'[d] # Nobody => handles'[d].target # Nobody)
  <2>1. CASE handles' = handles
    BY <1>1, <2>1 DEF RecordsInv, OperationInv
  <2>2. CASE \E h \in found : handles' = [handles EXCEPT ![c] = h]
    <3>1. PICK h \in found : handles' = [handles EXCEPT ![c] = h]
      BY <2>2
    <3> QED BY <1>1, <1>5, <3>1 DEF RecordsInv, OperationInv
  <2> QED BY <1>2, <2>1, <2>2
<1>7. snapshot' \in [Callers -> Snapshots \union {Nobody}]
  BY <1>1, <1>2 DEF RecordsInv
<1> QED BY <1>2, <1>6, <1>7, EndsKeep

LEMMA ReturnsKeep ==
    ASSUME DocumentsInv, NEW c \in Callers,
           \/ ReturnPlain(c) \/ ReturnReused(c) \/ ReturnAct(c) \/ ReturnFound(c) \/ ReturnSwitched(c)
    PROVE  DocumentsInv'
<1>1. RecordsInv /\ OperationInv /\ SnapshotInv
  BY DEF DocumentsInv, WireInv
<1>2. CASE ReturnPlain(c) \/ ReturnReused(c)
  <2>1. /\ Taken(c) /\ Accepts(c, Head(answers)) /\ Done(c)
        /\ UNCHANGED <<isAsync, engineState, queue, handles, snapshot, hit, missed>>
    BY <1>2 DEF ReturnPlain, ReturnReused
  <2>2. /\ handles' \in [Callers -> Scopes \union {Nobody}]
        /\ snapshot' \in [Callers -> Snapshots \union {Nobody}]
        /\ \A d \in Callers : WellScoped(handles'[d]) /\ (handles'[d] # Nobody => handles'[d].target # Nobody)
    BY <1>1, <2>1 DEF RecordsInv, OperationInv
  <2> QED BY <2>1, <2>2, EndsKeep
<1>3. CASE ReturnAct(c) \/ ReturnFound(c) \/ ReturnSwitched(c)
  <2>1. /\ Taken(c) /\ Accepts(c, Head(answers))
        /\ UNCHANGED <<isAsync, engineState, handles, snapshot, hit, missed>>
    BY <1>3 DEF ReturnAct, ReturnFound, ReturnSwitched
  <2>2. /\ WellScoped(Nobody) /\ Nobody \in AnyTarget /\ call[c].tab \in AnyTarget
        /\ {"lists", "switches", "navigates", "observes", "opens"} \subseteq EffectNames
    BY <1>1 DEF WellScoped, AnyTarget, RecordsInv, OperationRecord, EffectNames
  <2>3. CASE ReturnAct(c)
    <3>1. Goes(c, "refreshes", "observes", snapshot[c].scope, Nobody) /\ call[c].does = "acts"
      BY <2>3 DEF ReturnAct, RefreshScope
    <3>2. snapshot[c] \in Snapshots /\ snapshot[c] # Nobody /\ WellScoped(snapshot[c].scope)
      BY <1>1, <3>1 DEF OperationInv, RecordsInv, SnapshotInv, Located
    <3>3. snapshot[c].scope \in Scopes /\ snapshot[c].scope # Nobody
      BY <3>2, NobodyIsApart DEF Snapshots
    <3>4. \E k, o : Sent(c, k, o)
      BY <1>1, <2>2, <3>1, <3>2, <3>3, CommandedTypes, GoesSends
    <3> QED BY <2>1, <3>4, GoesKeep
  <2>4. CASE ReturnFound(c)
    <3>1. \/ Goes(c, "reuses", "switches", Nobody, call[c].tab)
          \/ Goes(c, "opens", "opens", Nobody, Nobody)
      BY <2>4 DEF ReturnFound, Reuse, Unbound
    <3>2. Commanded("opens") = "opens"
      BY CommandedTypes DEF EffectNames
    <3>3. \E k, o : Sent(c, k, o)
      BY <1>1, <2>2, <3>1, <3>2, CommandedTypes, GoesSends
    <3> QED BY <2>1, <3>3, GoesKeep
  <2>5. CASE ReturnSwitched(c)
    <3>1. Goes(c, "renavigates", "navigates", Nobody, Nobody)
      BY <2>5 DEF ReturnSwitched, Unbound
    <3>2. \E k, o : Sent(c, k, o)
      BY <1>1, <2>2, <3>1, CommandedTypes, GoesSends
    <3> QED BY <2>1, <3>2, GoesKeep
  <2> QED BY <1>3, <2>3, <2>4, <2>5
<1> QED BY <1>2, <1>3

-----------------------------------------------------------------------------
(* The engine answers                                                       *)

\* The operation that the command at the head of the queue carries out.
Asked == call[Command.by]

LEMMA CommandFacts ==
    ASSUME DocumentsInv, queue # << >>
    PROVE  /\ Command = queue[1] /\ 1 \in DOMAIN queue /\ Command \in Orders
           /\ Command.by \in Callers /\ Command.scope \in Scopes \union {Nobody}
           /\ Command.ref \in Snapshots \union {Nobody} /\ Command.tab \in AnyTarget
           /\ Command.checked \in BOOLEAN /\ Asked \in OperationRecord
           /\ Command.effect = Commanded(Asked.does) /\ Command.scope = Asked.scope
           /\ WellScoped(Command.scope)
           /\ Command.effect = "acts" => Command.ref # Nobody
           /\ Command.ref # Nobody => RightIn(Command.ref, generation, named)
           /\ Asked.does \in {"observes", "refreshes", "frames"} => Command.scope # Nobody
           /\ Command.checked => /\ HasTarget(Command) /\ Command.scope.target = top
                                 /\ top \in openTabs /\ mapped = 0
<1>1. RecordsInv /\ OrderInv /\ OperationInv /\ CheckedInv
  BY DEF DocumentsInv, WireInv
<1>2. queue \in Seq(Orders) /\ call \in [Callers -> OperationRecord]
  BY <1>1 DEF RecordsInv
<1>3. Command = queue[1] /\ 1 \in DOMAIN queue /\ Command \in Orders
  BY <1>2, TailThins DEF Command
<1>4. /\ Command.by \in Callers /\ Command.scope \in Scopes \union {Nobody}
      /\ Command.ref \in Snapshots \union {Nobody} /\ Command.tab \in AnyTarget
      /\ Command.checked \in BOOLEAN
  BY <1>3 DEF Orders
<1>5. /\ Command.effect = Commanded(Asked.does) /\ Command.scope = Asked.scope
      /\ Command.effect = "acts" => Command.ref # Nobody
      /\ Command.ref # Nobody => RightIn(Command.ref, generation, named)
  BY <1>1, <1>3 DEF OrderInv, Asked
<1>6. Asked \in OperationRecord
  BY <1>2, <1>4 DEF Asked
<1>7. /\ WellScoped(Command.scope)
      /\ Asked.does \in {"observes", "refreshes", "frames"} => Command.scope # Nobody
  BY <1>1, <1>4, <1>5 DEF OperationInv, Asked
<1>8. Command.checked => /\ HasTarget(Command) /\ Command.scope.target = top
                         /\ top \in openTabs /\ mapped = 0
  BY <1>1, <1>3 DEF CheckedInv
<1> QED BY <1>3, <1>4, <1>5, <1>6, <1>7, <1>8

\* r answers the command at the head of the queue.
Served(r) ==
    /\ queue # << >> /\ r \in Replies /\ r.to = Command.by
    /\ queue' = Tail(queue) /\ answers' = Append(answers, r)
    /\ UNCHANGED <<isAsync, program>>

\* It tells the active tab and the generation, or says that neither changed.
Informs(r) ==
    \/ r.target = top' /\ top' # Nobody /\ r.generation = generation'
    \/ /\ r.target = Nobody /\ top' = top /\ ~Command.checked
       /\ r.generation = generation' \/ (r.generation = Unsaid /\ generation' = generation)

LEMMA ServedKeeps ==
    ASSUME DocumentsInv, NEW r, Served(r), NamesMove, EngineInv', HitInv', missed' \in BOOLEAN,
           Tells(r, Asked, generation', named'),
           ~missed' => Informs(r) /\ (r.target = Nobody => ~missed)
    PROVE  DocumentsInv'
<1>1. /\ EngineInv /\ RecordsInv /\ WireInv /\ SnapshotInv /\ KnownInv /\ HitInv
      /\ OperationInv /\ WaitInv /\ OrderInv /\ CheckedInv /\ ReplyInv
  BY DEF DocumentsInv, WireInv
<1>2. queue # << >> /\ r \in Replies /\ r.to = Command.by
  BY DEF Served
<1>3. Command = queue[1] /\ 1 \in DOMAIN queue /\ Command.by \in Callers
  BY <1>2, CommandFacts
<1>4. /\ UNCHANGED <<isAsync, knownTarget, knownGeneration, early, handles, snapshot, call>>
      /\ queue' = Tail(queue) /\ answers' = Append(answers, r)
  BY DEF Served, program
<1>5. /\ queue' \in Seq(Orders) /\ Thins(queue', queue, 1)
      /\ DOMAIN queue = 1 .. Len(queue) /\ Len(queue) \in Nat \ {0}
  BY <1>1, <1>2, <1>4, TailThins DEF RecordsInv
<1>6. /\ DOMAIN queue' = 1 .. (Len(queue) - 1)
      /\ \A n \in DOMAIN queue' : queue'[n] = queue[n + 1] /\ n + 1 \in DOMAIN queue /\ n + 1 # 1
  BY <1>5 DEF Thins
<1>7. /\ answers' \in Seq(Replies) /\ Extends(answers', answers, r)
      /\ DOMAIN answers = 1 .. Len(answers) /\ Len(answers) \in Nat
  BY <1>1, <1>2, <1>4, AppendExtends DEF RecordsInv
<1>8. /\ DOMAIN answers' = DOMAIN answers \union {Len(answers) + 1} /\ answers'[Len(answers) + 1] = r
      /\ \A n \in DOMAIN answers : answers'[n] = answers[n]
  BY <1>7 DEF Extends
<1>9. Command.by \in Asking /\ Command.by \notin Answered
  BY <1>1, <1>3 DEF Asking, WaitInv
<1>10. /\ \A m, n \in DOMAIN queue' : queue'[m].by = queue'[n].by => m = n
       /\ Asking' = Asking \ {Command.by}
  <2> DEFINE s == queue
             t == queue'
  <2>1. s \in Seq(Orders) /\ t \in Seq(Orders) /\ 1 \in DOMAIN s /\ Thins(t, s, 1)
    BY <1>1, <1>3, <1>5 DEF RecordsInv
  <2>2. \A m, n \in DOMAIN s : s[m].by = s[n].by => m = n
    BY <1>1 DEF WaitInv
  <2> HIDE DEF s, t
  <2>3. /\ \A m, n \in DOMAIN t : t[m].by = t[n].by => m = n
        /\ {t[n].by : n \in DOMAIN t} = {s[n].by : n \in DOMAIN s} \ {s[1].by}
    BY <2>1, <2>2, ThinBy
  <2> QED BY <1>3, <2>3 DEF s, t, Asking
<1>11. /\ \A m, n \in DOMAIN answers' : answers'[m].to = answers'[n].to => m = n
       /\ Answered' = Answered \union {Command.by}
  <2> DEFINE s == answers
             t == answers'
  <2>1. r.to \notin {s[n].to : n \in DOMAIN s}
    BY <1>2, <1>9 DEF Answered
  <2>2. s \in Seq(Replies) /\ Extends(t, s, r) /\ r \in Replies
    BY <1>1, <1>2, <1>7 DEF RecordsInv
  <2>3. \A m, n \in DOMAIN s : s[m].to = s[n].to => m = n
    BY <1>1 DEF WaitInv
  <2> HIDE DEF s, t
  <2>4. /\ \A m, n \in DOMAIN t : t[m].to = t[n].to => m = n
        /\ {t[n].to : n \in DOMAIN t} = {s[n].to : n \in DOMAIN s} \union {r.to}
    BY <2>1, <2>2, <2>3, ExtendTo, SMTT(30)
  <2> QED BY <1>2, <2>4 DEF s, t, Answered
<1>12. WaitInv'
  BY <1>1, <1>4, <1>9, <1>10, <1>11 DEF WaitInv, AtWork
<1>13. RecordsInv'
  BY <1>1, <1>4, <1>5, <1>7 DEF RecordsInv
<1>14. OperationInv'
  BY <1>1, <1>4 DEF OperationInv, WellScoped
<1>15. OrderInv'
  <2>1. \A n \in DOMAIN queue' : \E m \in DOMAIN queue :
           /\ queue'[n].by = queue[m].by /\ queue'[n].effect = queue[m].effect
           /\ queue'[n].scope = queue[m].scope /\ queue'[n].ref = queue[m].ref
           /\ call'[queue[m].by] = call[queue[m].by]
    BY <1>4, <1>6
  <2> QED BY <1>1, <1>5, <2>1, OrdersKept
<1>16. \A n \in DOMAIN queue' : ~queue'[n].checked
  BY <1>1, <1>6 DEF CheckedInv
<1>17. CheckedInv'
  BY <1>16 DEF CheckedInv, HasTarget, Unbound, openTabs
<1>18. ReplyInv'
  <2>1. ASSUME NEW n \in DOMAIN answers'
        PROVE  \/ \E m \in DOMAIN answers :
                    /\ answers'[n] = answers[m] /\ call'[answers[m].to] = call[answers[m].to]
               \/ Tells(answers'[n], call'[answers'[n].to], generation', named')
    <3>1. CASE n \in DOMAIN answers
      BY <1>4, <1>8, <3>1
    <3>2. CASE n = Len(answers) + 1
      <4>1. answers'[n] = r /\ call'[answers'[n].to] = Asked
        BY <1>2, <1>4, <1>8, <3>2 DEF Asked
      <4> QED BY <4>1
    <3> QED BY <1>8, <3>1, <3>2
  <2> QED BY <1>1, <2>1, RepliesKept
<1>19. SnapshotInv'
  BY <1>1, <1>4, SnapshotsKept
<1>20. KnownInv'
  <2>1. knownTarget' # Nobody => knownGeneration' # 0
    BY <1>1, <1>4 DEF KnownInv
  <2> SUFFICES ASSUME Informs(r), r.target = Nobody => ~missed
      PROVE  /\ \/ \E n \in DOMAIN answers' :
                     /\ top' # Nobody /\ answers'[n].target = top'
                     /\ \A m \in DOMAIN answers' : m > n => answers'[m].target = Nobody
                \/ /\ \A m \in DOMAIN answers' : answers'[m].target = Nobody
                   /\ knownTarget \in {top', Nobody}
             /\ \/ \E n \in DOMAIN answers' :
                     /\ answers'[n].generation = generation'
                     /\ \A m \in DOMAIN answers' : m > n => answers'[m].generation = Unsaid
                \/ /\ \A m \in DOMAIN answers' : answers'[m].generation = Unsaid
                   /\ knownGeneration \in {generation', 0}
    BY <1>4, <2>1 DEF KnownInv
  <2>2. Len(answers) + 1 \in DOMAIN answers' /\ \A m \in DOMAIN answers' : ~(m > Len(answers) + 1)
    BY <1>7, <1>8
  <2>3. CASE r.target = top' /\ top' # Nobody /\ r.generation = generation'
    BY <1>8, <2>2, <2>3
  <2>4. CASE /\ r.target = Nobody /\ top' = top /\ ~Command.checked
             /\ r.generation = generation' \/ (r.generation = Unsaid /\ generation' = generation)
    <3>1. ~missed /\ \A n \in DOMAIN queue : ~queue[n].checked
      BY <1>1, <1>3, <2>4 DEF CheckedInv
    <3>2. /\ \/ \E n \in DOMAIN answers :
                  /\ top # Nobody /\ answers[n].target = top
                  /\ \A m \in DOMAIN answers : m > n => answers[m].target = Nobody
             \/ /\ \A m \in DOMAIN answers : answers[m].target = Nobody
                /\ knownTarget \in {top, Nobody}
          /\ \/ \E n \in DOMAIN answers :
                  /\ answers[n].generation = generation
                  /\ \A m \in DOMAIN answers : m > n => answers[m].generation = Unsaid
             \/ /\ \A m \in DOMAIN answers : answers[m].generation = Unsaid
                /\ knownGeneration \in {generation, 0}
      BY <1>1, <3>1 DEF KnownInv
    <3>3. \/ \E n \in DOMAIN answers' :
               /\ top' # Nobody /\ answers'[n].target = top'
               /\ \A m \in DOMAIN answers' : m > n => answers'[m].target = Nobody
          \/ /\ \A m \in DOMAIN answers' : answers'[m].target = Nobody
             /\ knownTarget \in {top', Nobody}
      BY <1>8, <2>4, <3>2
    <3>4. \/ \E n \in DOMAIN answers' :
               /\ answers'[n].generation = generation'
               /\ \A m \in DOMAIN answers' : m > n => answers'[m].generation = Unsaid
          \/ /\ \A m \in DOMAIN answers' : answers'[m].generation = Unsaid
             /\ knownGeneration \in {generation', 0}
      <4>1. CASE r.generation = generation'
        BY <1>8, <2>2, <4>1
      <4>2. CASE r.generation = Unsaid /\ generation' = generation
        BY <1>8, <3>2, <4>2
      <4> QED BY <2>4, <4>1, <4>2
    <3> QED BY <3>3, <3>4
  <2> QED BY <2>3, <2>4 DEF Informs
<1> QED BY <1>12, <1>13, <1>14, <1>15, <1>17, <1>18, <1>19, <1>20 DEF DocumentsInv, WireInv

-----------------------------------------------------------------------------
(* What the engine does                                                     *)

\* The tabs of the engine.
TabsInv ==
    /\ tabs \in [TargetIds -> {"new", "open", "closed"}]
    /\ top \in openTabs \union {Nobody}
    /\ top = Nobody <=> openTabs = {}
    /\ attached \subseteq {f \in FrameIds : FrameOf[f] \in openTabs}

\* The refs it has given out.
RefsInv ==
    /\ generation \in Nat \ {0}
    /\ named \in Seq(Contexts \X Nat)
    /\ mapped \in 0 .. Len(named)

LEMMA EngineParts ==
    /\ EngineInv <=> TabsInv /\ RefsInv /\ document \in [Contexts -> Nat]
    /\ EngineInv' <=> TabsInv' /\ RefsInv' /\ document' \in [Contexts -> Nat]
<1>1. EngineInv <=> TabsInv /\ RefsInv /\ document \in [Contexts -> Nat]
  BY DEF EngineInv, TabsInv, RefsInv
<1>2. EngineInv' <=> TabsInv' /\ RefsInv' /\ document' \in [Contexts -> Nat]
  BY DEF EngineInv, TabsInv, RefsInv
<1> QED BY <1>1, <1>2

LEMMA NoneOpen == EngineInv => (top # Nobody <=> openTabs # {}) /\ (top # Nobody => top \in openTabs)
BY DEF EngineInv

LEMMA ExpireKeeps == ASSUME EngineInv, Expire PROVE RefsInv' /\ NamesMove
<1>1. named' \in Seq(Contexts \X Nat)
  <2>1. named \in Seq(Contexts \X Nat) /\ named' \in {named, << >>}
    BY DEF EngineInv, Expire
  <2>2. << >> \in Seq(Contexts \X Nat)
    OBVIOUS
  <2> QED BY <2>1, <2>2
<1>2. Len(named') \in Nat
  BY <1>1
<1> QED BY <1>1, <1>2, NamesExpire DEF EngineInv, RefsInv, Expire

LEMMA SomeExpire == ExpireActive \/ ExpireAll => Expire
BY DEF ExpireActive, ExpireAll

LEMMA KeepKeeps == ASSUME EngineInv, KeepRefs PROVE RefsInv' /\ NamesMove
  BY NamesStay DEF EngineInv, RefsInv, KeepRefs

LEMMA OpenedKeeps ==
    ASSUME TabsInv, NEW t \in TargetIds, Opened(t)
    PROVE  TabsInv' /\ top' # Nobody
<1>1. tabs' \in [TargetIds -> {"new", "open", "closed"}] /\ openTabs' = openTabs \union {t}
  BY DEF TabsInv, Opened, openTabs
<1>2. top' = t /\ t # Nobody
  BY NobodyIsApart DEF Opened
<1>3. attached' \subseteq {f \in FrameIds : FrameOf[f] \in openTabs'}
  BY <1>1 DEF TabsInv, Opened, FramesIn
<1> QED BY <1>1, <1>2, <1>3 DEF TabsInv

LEMMA SwitchedKeeps ==
    ASSUME TabsInv, top' \in openTabs, UNCHANGED <<tabs, attached>>
    PROVE  TabsInv' /\ top' # Nobody
<1>1. openTabs' = openTabs /\ openTabs \subseteq TargetIds
  BY DEF openTabs
<1> QED BY <1>1, NobodyIsApart DEF TabsInv

\* Losing a tab.
LEMMA ClosedKeeps ==
    ASSUME TabsInv, NEW t, Closed(t)
    PROVE  TabsInv' /\ (Closable(t) => top' # Nobody)
<1>1. /\ t \in openTabs /\ t \in TargetIds /\ tabs' = [tabs EXCEPT ![t] = "closed"]
      /\ top' \in IF t # top THEN {top} ELSE IF openTabs = {t} THEN {Nobody} ELSE openTabs \ {t}
      /\ attached' = attached \ FramesIn(t)
  BY DEF Closed, openTabs
<1>2. tabs' \in [TargetIds -> {"new", "open", "closed"}] /\ openTabs' = openTabs \ {t}
  BY <1>1 DEF TabsInv, openTabs
<1>3. attached' \subseteq {f \in FrameIds : FrameOf[f] \in openTabs'}
  BY <1>1, <1>2 DEF TabsInv, FramesIn
<1>4. Nobody \notin openTabs /\ top \in openTabs /\ top # Nobody
  BY <1>1, NobodyIsApart DEF TabsInv, openTabs
<1>5. IF openTabs = {t} THEN top' = Nobody /\ openTabs' = {} ELSE top' \in openTabs'
  BY <1>1, <1>2, <1>4 DEF TabsInv
<1>6. (top' \in openTabs' \union {Nobody}) /\ (top' = Nobody <=> openTabs' = {})
  BY <1>2, <1>4, <1>5
<1> QED BY <1>2, <1>3, <1>4, <1>5, <1>6 DEF TabsInv, Closable

LEMMA PartlyKeeps ==
    ASSUME TabsInv, NEW command, PartlyDone(command)
    PROVE  TabsInv' /\ (top # Nobody => top' # Nobody)
<1>1. CASE UNCHANGED <<tabs, top, attached>>
  BY <1>1 DEF TabsInv, openTabs
<1>2. CASE \E t \in TargetIds : Opened(t)
  BY <1>2, OpenedKeeps
<1>3. CASE top' \in openTabs /\ UNCHANGED <<tabs, attached>>
  BY <1>3, SwitchedKeeps
<1>4. CASE Closable(command.tab) /\ Closed(command.tab)
  BY <1>4, ClosedKeeps
<1> QED BY <1>1, <1>2, <1>3, <1>4 DEF PartlyDone, SameTabs, Activated

\* A response of the dispatch.
LEMMA AnswersKeep ==
    ASSUME DocumentsInv, queue # << >>, EngineInv', top' # Nobody, NamesMove, HitInv',
           UNCHANGED <<isAsync, program>>,
           NEW code \in {"ok", "other", "stale_ref", "frame_detached"},
           NEW data \in ((SUBSET Contexts) \union Seen \union {Nobody}),
           Answer(Command.by, code, data),
           code = "ok" /\ Asked.does = "lists" => data \subseteq TargetIds,
           code = "ok" /\ Asked.does = "frames" => data \subseteq FrameIds,
           code = "ok" /\ Asked.does \in {"observes", "refreshes"} =>
              /\ data \in Seen
              /\ Asked.scope.target # Nobody => top' = Asked.scope.target
              /\ data.at[1] = IF Asked.scope.frame = Nobody THEN top' ELSE Asked.scope.frame
              /\ RightIn([generation |-> generation', id |-> data.id, at |-> data.at],
                         generation', named')
    PROVE  DocumentsInv'
<1> DEFINE r == [to |-> Command.by, code |-> code, data |-> data, target |-> top',
                 generation |-> generation']
<1>1. Command.by \in Callers
  BY CommandFacts
<1>2. top' \in TargetIds
  BY DEF EngineInv, openTabs
<1>3. generation' \in Nat \ {0}
  BY DEF EngineInv
<1>4. r \in Replies
  BY <1>1, <1>2, <1>3 DEF Replies, AnyTarget
<1>5. /\ r.to = Command.by /\ r.code = code /\ r.data = data /\ r.target = top'
      /\ r.generation = generation'
      /\ queue' = Tail(queue) /\ answers' = Append(answers, r)
  BY DEF Answer, Respond
<1> HIDE DEF r
<1>6. Served(r)
  BY <1>4, <1>5 DEF Served
<1>7. Tells(r, Asked, generation', named')
  BY <1>3, <1>5 DEF Tells, Unsaid
<1>8. Informs(r)
  BY <1>5 DEF Informs
<1>9. missed' \in BOOLEAN /\ r.target # Nobody
  BY <1>5 DEF Answer
<1> QED BY <1>6, <1>7, <1>8, <1>9, ServedKeeps

\* One that returns before it, and the deadline's.
LEMMA RejectsKeep ==
    ASSUME DocumentsInv, queue # << >>, EngineInv', NamesMove, HitInv', UNCHANGED <<isAsync, program>>,
           NEW code \in {"stale_ref", "frame_scope", "execution_timeout", "other"}, NEW known \in {Unsaid, generation'},
           Respond(Command.by, code, Nobody, Nobody, known), missed' \in BOOLEAN,
           ~missed' => /\ ~missed /\ ~Command.checked /\ top' = top
                       /\ known = Unsaid => generation' = generation
    PROVE  DocumentsInv'
<1> DEFINE r == [to |-> Command.by, code |-> code, data |-> Nobody, target |-> Nobody,
                 generation |-> known]
<1>1. Command.by \in Callers
  BY CommandFacts
<1>2. known \in Nat
  BY DEF EngineInv, Unsaid
<1>3. r \in Replies
  BY <1>1, <1>2 DEF Replies, AnyTarget
<1>4. /\ r.to = Command.by /\ r.code = code /\ r.target = Nobody /\ r.generation = known
      /\ queue' = Tail(queue) /\ answers' = Append(answers, r)
  BY DEF Respond
<1> HIDE DEF r
<1>5. Served(r)
  BY <1>3, <1>4 DEF Served
<1>6. Tells(r, Asked, generation', named')
  BY <1>4 DEF Tells
<1>7. ~missed' => Informs(r) /\ ~missed
  BY <1>4 DEF Informs
<1> QED BY <1>5, <1>6, <1>7, ServedKeeps

-----------------------------------------------------------------------------
(* One step of the engine                                                   *)

\* A step that leaves the engine's state and what the last command hit alone.
LEMMA EngineStays ==
    ASSUME DocumentsInv,
           UNCHANGED <<tabs, top, document, attached, generation, named, mapped, hit, bound>>
    PROVE  EngineInv' /\ (openTabs # {} => top' # Nobody) /\ NamesMove /\ HitInv'
<1>1. EngineInv /\ HitInv
  BY DEF DocumentsInv
<1>2. EngineInv'
  BY <1>1 DEF EngineInv, openTabs
<1>3. openTabs # {} => top' # Nobody
  BY <1>1, NoneOpen
<1>4. NamesMove
  BY NamesStay DEF KeepRefs
<1> QED BY <1>1, <1>2, <1>3, <1>4 DEF HitInv

LEMMA RejectKeeps ==
    ASSUME DocumentsInv, queue # << >>, RejectStale \/ RejectTarget \/ DeadlineFirst
    PROVE  DocumentsInv'
<1>1. UNCHANGED <<isAsync, tabs, top, document, attached, generation, named, mapped, program, hit,
                  bound, missed>>
  BY DEF RejectStale, RejectTarget, DeadlineFirst, ghosts, engineState
<1>2. EngineInv' /\ NamesMove /\ HitInv' /\ top' = top /\ generation' = generation
  BY <1>1, EngineStays
<1>3. missed' \in BOOLEAN /\ missed' = missed
  BY <1>1 DEF DocumentsInv, RecordsInv
<1>4. ~Command.checked
  BY CommandFacts DEF RejectStale, RejectTarget, DeadlineFirst, StaleRef, Command
<1>5. \E code \in {"stale_ref", "frame_scope", "execution_timeout"} :
          Respond(Command.by, code, Nobody, Nobody, Unsaid)
  BY DEF RejectStale, RejectTarget, DeadlineFirst, Reject, Command
<1> QED BY <1>1, <1>2, <1>3, <1>4, <1>5, RejectsKeep

LEMMA DeadlineKeeps ==
    ASSUME DocumentsInv, queue # << >>, Deadline PROVE DocumentsInv'
<1>1. EngineInv /\ HitInv /\ TabsInv /\ missed \in BOOLEAN /\ document \in [Contexts -> Nat]
  BY EngineParts DEF DocumentsInv, RecordsInv
<1>2. /\ TabsInv' /\ RefsInv' /\ NamesMove /\ document' \in [Contexts -> Nat]
  BY <1>1, PartlyKeeps, SomeExpire, ExpireKeeps DEF Deadline
<1>3. EngineInv'
  BY <1>2, EngineParts
<1>4. HitInv'
  BY <1>1 DEF HitInv, Deadline, ghosts
<1>5. /\ missed' = (missed \/ Command.checked \/ top' # top)
      /\ Respond(Command.by, "execution_timeout", Nobody, Nobody, generation')
      /\ UNCHANGED <<isAsync, program>>
  BY DEF Deadline, Command
<1>6. missed' \in BOOLEAN /\ (~missed' => ~missed /\ ~Command.checked /\ top' = top)
  BY <1>1, <1>5, CommandFacts
<1>7. generation' # Unsaid
  BY <1>2 DEF RefsInv, Unsaid
<1> QED BY <1>2, <1>3, <1>4, <1>5, <1>6, <1>7, RejectsKeep

\* The selection of a scope that fails.
LEMMA SwitchFailsKeeps ==
    ASSUME DocumentsInv, queue # << >>, SwitchFails PROVE DocumentsInv'
<1>1. EngineInv /\ HitInv /\ TabsInv /\ missed \in BOOLEAN /\ document \in [Contexts -> Nat]
  BY EngineParts DEF DocumentsInv, RecordsInv
<1>2. /\ UNCHANGED <<isAsync, document, program, hit, bound>>
      /\ SameTabs \/ Activated(Command.scope.target)
      /\ Expire \/ KeepRefs
      /\ missed' = (missed \/ top' # top \/ generation' # generation)
      /\ Respond(Command.by, "other", Nobody, Nobody, Unsaid)
      /\ SwitchesScope(Command)
  BY SomeExpire DEF SwitchFails, Reject, ghosts
<1>3. RefsInv' /\ NamesMove
  BY <1>1, <1>2, ExpireKeeps, KeepKeeps
<1>4. TabsInv'
  <2>1. CASE SameTabs
    BY <1>1, <2>1 DEF SameTabs, TabsInv, openTabs
  <2>2. CASE Activated(Command.scope.target)
    BY <1>1, <2>2, SwitchedKeeps DEF Activated
  <2> QED BY <1>2, <2>1, <2>2
<1>5. EngineInv' /\ HitInv'
  BY <1>1, <1>2, <1>3, <1>4, EngineParts DEF HitInv
<1>6. ~Command.checked
  BY <1>2, CommandFacts DEF SwitchesScope
<1>7. missed' \in BOOLEAN /\ (~missed' => ~missed /\ top' = top /\ generation' = generation)
  BY <1>1, <1>2
<1> QED BY <1>2, <1>3, <1>5, <1>6, <1>7, RejectsKeep

\* Commands the engine refuses, or carries out without a change to its state.
LEMMA PlainKeeps ==
    ASSUME DocumentsInv, queue # << >>, openTabs # {}, RejectDetached \/ RunPlain
    PROVE  DocumentsInv'
<1>1. UNCHANGED <<isAsync, engineState, program, hit, bound>>
  BY DEF RejectDetached, RunPlain, ghosts
<1>2. EngineInv' /\ NamesMove /\ HitInv' /\ top' # Nobody
  BY <1>1, EngineStays DEF engineState
<1>3. CASE RejectDetached
  <2>1. Answer(Command.by, "frame_detached", Nobody)
    BY <1>3 DEF RejectDetached
  <2> QED BY <1>1, <1>2, <2>1, AnswersKeep
<1>4. CASE RunPlain
  <2> DEFINE data == IF Command.effect = "frames" THEN attached ELSE openTabs
  <2>1. Answer(Command.by, "ok", data) /\ Command.effect \in {"runs", "lists", "frames"}
    BY <1>4 DEF RunPlain, Runs
  <2>2. attached \subseteq FrameIds /\ openTabs \subseteq TargetIds
    BY DEF DocumentsInv, EngineInv, openTabs
  <2>3. data \in SUBSET Contexts
    BY <2>2 DEF Contexts
  <2>4. /\ Asked.does = "lists" => Command.effect = "lists"
        /\ Asked.does = "frames" => Command.effect = "frames"
        /\ Asked.does \in {"observes", "refreshes"} => Command.effect = "observes"
    BY CommandFacts, CommandedTypes DEF EffectNames
  <2>5. /\ Asked.does = "lists" => data \subseteq TargetIds
        /\ Asked.does = "frames" => data \subseteq FrameIds
        /\ Asked.does \notin {"observes", "refreshes"}
    BY <2>1, <2>2, <2>4
  <2> HIDE DEF data
  <2> QED BY <1>1, <1>2, <2>1, <2>3, <2>5, AnswersKeep
<1> QED BY <1>3, <1>4

\* Commands that fail, some of them half-way.
LEMMA RefuseKeeps ==
    ASSUME DocumentsInv, queue # << >>, openTabs # {}, Refuse PROVE DocumentsInv'
<1>1. EngineInv /\ HitInv /\ TabsInv /\ document \in [Contexts -> Nat] /\ top # Nobody
  BY EngineParts, NoneOpen DEF DocumentsInv
<1>2. /\ UNCHANGED <<isAsync, document, program, hit, bound>>
      /\ PartlyDone(Command)
      /\ Expire \/ KeepRefs
      /\ Answer(Command.by, "other", Nobody)
  BY SomeExpire DEF Refuse, ghosts, PartlyDone
<1>3. RefsInv' /\ NamesMove /\ TabsInv' /\ top' # Nobody
  <2>1. RefsInv' /\ NamesMove
    BY <1>1, <1>2, ExpireKeeps, KeepKeeps
  <2>2. TabsInv' /\ (top # Nobody => top' # Nobody)
    BY <1>1, <1>2, PartlyKeeps
  <2> QED BY <1>1, <2>1, <2>2
<1>4. EngineInv' /\ HitInv'
  BY <1>1, <1>2, <1>3, EngineParts DEF HitInv
<1> QED BY <1>2, <1>3, <1>4, AnswersKeep

\* Commands that change tabs or documents, and say so.
LEMMA ChangesKeep ==
    ASSUME DocumentsInv, queue # << >>, openTabs # {},
           NavigateTop \/ OpenTab \/ SwitchTab \/ CloseTab
    PROVE  DocumentsInv'
<1>1. EngineInv /\ HitInv /\ TabsInv /\ document \in [Contexts -> Nat] /\ top # Nobody /\ top \in openTabs
  BY EngineParts, NoneOpen DEF DocumentsInv
<1>2. /\ UNCHANGED <<isAsync, program, hit, bound>>
      /\ Expire \/ KeepRefs
      /\ Answer(Command.by, "ok", Nobody)
      /\ Command.effect \in {"navigates", "opens", "switches", "closes"}
  BY SomeExpire DEF NavigateTop, OpenTab, SwitchTab, CloseTab, Runs, ghosts
<1>3. RefsInv' /\ NamesMove
  BY <1>1, <1>2, ExpireKeeps, KeepKeeps
<1>4. document' \in [Contexts -> Nat]
  BY <1>1 DEF NavigateTop, OpenTab, SwitchTab, CloseTab
<1>5. TabsInv' /\ top' # Nobody
  <2>1. CASE NavigateTop
    BY <1>1, <2>1 DEF NavigateTop, TabsInv, openTabs
  <2>2. CASE OpenTab
    BY <1>1, <2>2, OpenedKeeps DEF OpenTab
  <2>3. CASE SwitchTab
    BY <1>1, <2>3, SwitchedKeeps DEF SwitchTab, Activated
  <2>4. CASE CloseTab
    BY <1>1, <2>4, ClosedKeeps DEF CloseTab
  <2> QED BY <2>1, <2>2, <2>3, <2>4
<1>6. EngineInv'
  BY <1>3, <1>4, <1>5, EngineParts
<1>7. HitInv'
  BY <1>1, <1>2 DEF HitInv
<1>8. Asked.does \notin {"lists", "frames", "observes", "refreshes"}
  BY <1>2, CommandFacts, CommandedTypes DEF EffectNames
<1> QED BY <1>2, <1>3, <1>5, <1>6, <1>7, <1>8, AnswersKeep

\* Where the command runs, once its scope is selected.
LEMMA ContextFacts ==
    ASSUME DocumentsInv, queue # << >>, top \in openTabs, Selected(Command)
    PROVE  /\ Context(Command) \in Contexts
           /\ Command.scope # Nobody =>
                /\ Command.scope.target # Nobody => top = Command.scope.target
                /\ Context(Command) = IF Command.scope.frame = Nobody THEN top ELSE Command.scope.frame
<1>1. Command.scope \in Scopes \union {Nobody}
  BY CommandFacts
<1>2. Command.scope # Nobody => Command.scope.frame \in FrameIds \union {Nobody}
  BY <1>1 DEF Scopes
<1>3. top \in TargetIds
  BY DEF openTabs
<1> QED BY <1>2, <1>3 DEF Selected, SwitchesScope, HasTarget, Context, Contexts, Unbound

LEMMA ObserveKeeps ==
    ASSUME DocumentsInv, queue # << >>, openTabs # {}, ObserveDocument PROVE DocumentsInv'
<1> DEFINE here == <<Context(Command), document[Context(Command)]>>
           data == [id |-> mapped', at |-> here]
<1>1. EngineInv /\ HitInv /\ TabsInv /\ document \in [Contexts -> Nat] /\ top # Nobody /\ top \in openTabs
  BY EngineParts, NoneOpen DEF DocumentsInv
<1>2. /\ UNCHANGED <<isAsync, tabs, top, document, attached, program, hit, bound>>
      /\ Selected(Command) /\ Command.effect = "observes"
      /\ named' = NamedWith(here) /\ generation' = generation
      /\ mapped' = CHOOSE n \in DOMAIN named' : named'[n] = here
      /\ Answer(Command.by, "ok", data)
  BY DEF ObserveDocument, Runs, ghosts, SameTabs
<1>3. /\ Context(Command) \in Contexts
      /\ Command.scope # Nobody =>
            /\ Command.scope.target # Nobody => top = Command.scope.target
            /\ Context(Command) = IF Command.scope.frame = Nobody THEN top ELSE Command.scope.frame
  BY <1>1, <1>2, ContextFacts
<1>4. here \in Contexts \X Nat /\ here[1] = Context(Command)
  BY <1>1, <1>3
<1> HIDE DEF here
<1>5. /\ named' \in Seq(Contexts \X Nat) /\ \E n \in DOMAIN named' : named'[n] = here
      /\ \A n \in DOMAIN named : n \in DOMAIN named' /\ named'[n] = named[n]
  <2>1. named \in Seq(Contexts \X Nat)
    BY <1>1 DEF EngineInv
  <2>2. CASE here \in ToSet(named)
    BY <1>2, <2>1, <2>2 DEF NamedWith, ToSet
  <2>3. CASE here \notin ToSet(named)
    <3>1. named' = Append(named, here)
      BY <1>2, <2>3 DEF NamedWith
    <3> QED BY <1>4, <2>1, <3>1
  <2> QED BY <2>2, <2>3
<1>6. mapped' \in DOMAIN named' /\ named'[mapped'] = here
  BY <1>2, <1>5
<1>7. mapped' \in Nat \ {0} /\ mapped' \in 0 .. Len(named')
  BY <1>5, <1>6
<1>8. NamesMove
  BY <1>2, <1>5 DEF NamesMove
<1>9. RefsInv'
  BY <1>1, <1>2, <1>5, <1>7 DEF RefsInv, EngineInv
<1>10. TabsInv'
  BY <1>1, <1>2 DEF TabsInv, openTabs
<1>11. EngineInv' /\ HitInv' /\ top' # Nobody
  BY <1>1, <1>2, <1>9, <1>10, EngineParts DEF HitInv
<1>12. data \in Seen /\ data.at = here /\ data.id = mapped'
  BY <1>4, <1>7 DEF Seen
<1>13. RightIn([generation |-> generation', id |-> data.id, at |-> data.at], generation', named')
  BY <1>6, <1>9, <1>12 DEF RightIn, RefsInv
<1>14. Asked.does \in {"observes", "refreshes"} =>
         /\ Asked.scope.target # Nobody => top' = Asked.scope.target
         /\ data.at[1] = IF Asked.scope.frame = Nobody THEN top' ELSE Asked.scope.frame
  <2> SUFFICES ASSUME Asked.does \in {"observes", "refreshes"}
               PROVE  /\ Asked.scope.target # Nobody => top' = Asked.scope.target
                      /\ data.at[1] = IF Asked.scope.frame = Nobody THEN top' ELSE Asked.scope.frame
    OBVIOUS
  <2>1. Command.scope = Asked.scope /\ Command.scope # Nobody
    BY CommandFacts
  <2> QED BY <1>2, <1>3, <1>4, <1>12, <2>1
<1>15. Asked.does \notin {"lists", "frames"}
  BY <1>2, CommandFacts, CommandedTypes DEF EffectNames
<1> HIDE DEF data
<1> QED BY <1>2, <1>8, <1>11, <1>12, <1>13, <1>14, <1>15, AnswersKeep

\* A ref that is found in the map and is not stale is of the generation of the map.
LEMMA ActKeeps ==
    ASSUME DocumentsInv, queue # << >>, openTabs # {}, ActOnRef PROVE DocumentsInv'
<1>1. EngineInv /\ HitInv /\ TabsInv /\ document \in [Contexts -> Nat] /\ top # Nobody
  BY EngineParts, NoneOpen DEF DocumentsInv
<1>2. /\ UNCHANGED <<isAsync, document, program, bound>>
      /\ Selected(Command) /\ Command.effect = "acts"
      /\ \/ /\ Answer(Command.by, "stale_ref", Nobody) /\ hit' = hit
            /\ SameTabs /\ KeepRefs
         \/ /\ mapped # 0 /\ Command.ref.id = mapped
            /\ Answer(Command.by, "ok", Nobody)
            /\ hit' = [wanted |-> Command.ref.at, got |-> named[mapped]]
            /\ \/ SameTabs /\ KeepRefs
               \/ Expire /\ \E t \in TargetIds : Opened(t)
  BY SomeExpire DEF ActOnRef, Runs
<1>3. EngineInv' /\ top' # Nobody /\ NamesMove
  <2>1. CASE SameTabs /\ KeepRefs
    <3>1. TabsInv' /\ top' = top
      BY <1>1, <2>1 DEF SameTabs, TabsInv, openTabs
    <3> QED BY <1>1, <1>2, <2>1, <3>1, KeepKeeps, EngineParts
  <2>2. CASE Expire /\ \E t \in TargetIds : Opened(t)
    <3>1. TabsInv' /\ top' # Nobody
      BY <1>1, <2>2, OpenedKeeps
    <3> QED BY <1>1, <1>2, <2>2, <3>1, ExpireKeeps, EngineParts
  <2> QED BY <1>2, <2>1, <2>2
<1>4. HitInv'
  <2>1. ASSUME mapped # 0, Command.ref.id = mapped PROVE named[mapped] = Command.ref.at
    <3>1. ~Command.checked /\ Command.ref # Nobody /\ RightIn(Command.ref, generation, named)
      BY <1>2, <2>1, CommandFacts
    <3>2. Command.ref.generation = generation
      BY <1>2, <3>1 DEF Selected, StaleRef
    <3> QED BY <2>1, <3>1, <3>2 DEF RightIn
  <2>2. CASE hit' = hit
    BY <1>1, <1>2, <2>2 DEF HitInv
  <2>3. CASE /\ mapped # 0 /\ Command.ref.id = mapped
             /\ hit' = [wanted |-> Command.ref.at, got |-> named[mapped]]
    <3>1. hit'.got = hit'.wanted
      BY <2>1, <2>3
    <3> QED BY <1>1, <1>2, <3>1 DEF HitInv
  <2> QED BY <1>2, <2>2, <2>3
<1>5. Asked.does \notin {"lists", "frames", "observes", "refreshes"}
  BY <1>2, CommandFacts, CommandedTypes DEF EffectNames
<1>6. \E code \in {"ok", "stale_ref"} : Answer(Command.by, code, Nobody)
  BY <1>2
<1> QED BY <1>2, <1>3, <1>4, <1>5, <1>6, AnswersKeep

\* A step of the engine that no command of the queue is answered by.
LEMMA WireStays ==
    ASSUME DocumentsInv, EngineInv', NamesMove, CheckedInv', KnownInv', missed' \in BOOLEAN,
           UNCHANGED <<isAsync, wire, program, ghosts>>
    PROVE  DocumentsInv'
<1>1. /\ EngineInv /\ RecordsInv /\ WireInv /\ SnapshotInv /\ HitInv
      /\ OperationInv /\ WaitInv /\ OrderInv /\ ReplyInv
  BY DEF DocumentsInv, WireInv
<1>2. UNCHANGED <<isAsync, queue, answers, knownTarget, knownGeneration, early, handles, snapshot,
                  call, hit, bound>>
  BY DEF wire, program, ghosts
<1>3. RecordsInv' /\ OperationInv' /\ HitInv'
  BY <1>1, <1>2 DEF RecordsInv, OperationInv, HitInv, WellScoped
<1>4. WaitInv'
  BY <1>1, <1>2 DEF WaitInv, Asking, Answered, AtWork
<1>5. OrderInv'
  <2>1. queue' \in Seq(Orders)
    BY <1>1, <1>2 DEF RecordsInv
  <2>2. \A n \in DOMAIN queue' : \E m \in DOMAIN queue :
           /\ queue'[n].by = queue[m].by /\ queue'[n].effect = queue[m].effect
           /\ queue'[n].scope = queue[m].scope /\ queue'[n].ref = queue[m].ref
           /\ call'[queue[m].by] = call[queue[m].by]
    BY <1>2
  <2> QED BY <1>1, <2>1, <2>2, OrdersKept
<1>6. ReplyInv'
  BY <1>1, <1>2, RepliesKept
<1>7. SnapshotInv'
  BY <1>1, <1>2, SnapshotsKept
<1> QED BY <1>3, <1>4, <1>5, <1>6, <1>7 DEF DocumentsInv, WireInv

LEMMA LaunchKeeps == ASSUME DocumentsInv, LaunchBrowser PROVE DocumentsInv'
<1>1. EngineInv /\ TabsInv /\ document \in [Contexts -> Nat] /\ CheckedInv /\ KnownInv
  BY EngineParts DEF DocumentsInv, WireInv
<1>2. /\ openTabs = {} /\ KeepRefs /\ UNCHANGED <<isAsync, document, wire, program, ghosts, missed>>
      /\ TabsInv' /\ top' # Nobody
  BY <1>1, OpenedKeeps DEF LaunchBrowser
<1>3. RefsInv' /\ NamesMove
  BY <1>1, <1>2, KeepKeeps
<1>4. EngineInv'
  BY <1>1, <1>2, <1>3, EngineParts
<1>5. \A n \in DOMAIN queue : ~queue[n].checked
  BY <1>1, <1>2 DEF CheckedInv
<1>6. CheckedInv'
  BY <1>2, <1>5 DEF CheckedInv, wire
<1>7. top = Nobody
  BY <1>1, <1>2 DEF EngineInv
<1>8. KnownInv'
  BY <1>1, <1>2, <1>5, <1>7 DEF KnownInv, wire, program, ghosts, KeepRefs
<1>9. missed' \in BOOLEAN
  BY <1>2 DEF DocumentsInv, RecordsInv
<1> QED BY <1>2, <1>3, <1>4, <1>6, <1>8, <1>9, WireStays

\* What the browser does by itself is missed, if it changes the active tab or the generation.
LEMMA UntoldKeeps ==
    ASSUME DocumentsInv, TabsInv', document' \in [Contexts -> Nat], Expire \/ KeepRefs, CheckedInv',
           missed' = (missed \/ top' # top \/ generation' # generation),
           UNCHANGED <<isAsync, wire, program, ghosts>>
    PROVE  DocumentsInv'
<1>1. EngineInv /\ KnownInv /\ missed \in BOOLEAN
  BY DEF DocumentsInv, RecordsInv
<1>2. RefsInv' /\ NamesMove
  BY <1>1, ExpireKeeps, KeepKeeps
<1>3. EngineInv'
  BY <1>2, EngineParts
<1>4. queue' = queue /\ answers' = answers /\ knownTarget' = knownTarget /\ knownGeneration' = knownGeneration
  BY DEF wire, program
<1>5. missed' \in BOOLEAN /\ (~missed' => ~missed /\ top' = top /\ generation' = generation)
  BY <1>1
<1>6. KnownInv'
  BY <1>1, <1>4, <1>5 DEF KnownInv
<1> QED BY <1>2, <1>3, <1>5, <1>6, WireStays

LEMMA MovesKeep ==
    ASSUME DocumentsInv, NEW d \in Contexts, DocumentMoves(d) PROVE DocumentsInv'
<1>1. CheckedInv /\ TabsInv /\ document \in [Contexts -> Nat]
  BY EngineParts DEF DocumentsInv, WireInv
<1>2. /\ UNCHANGED <<isAsync, tabs, top, wire, program, ghosts>>
      /\ attached' \subseteq attached /\ document' = [document EXCEPT ![d] = @ + 1]
      /\ Unlocked \/ KeepRefs
      /\ missed' = (missed \/ generation' # generation)
  BY DEF DocumentMoves
<1>3. Expire \/ KeepRefs
  BY DEF DocumentMoves
<1>4. TabsInv' /\ document' \in [Contexts -> Nat]
  BY <1>1, <1>2 DEF TabsInv, openTabs
<1>5. CheckedInv'
  <2>1. CASE Unlocked
    BY <1>2, <2>1 DEF CheckedInv, Unlocked, wire
  <2>2. CASE KeepRefs
    BY <1>1, <1>2, <2>2 DEF CheckedInv, KeepRefs, HasTarget, Unbound, openTabs, wire
  <2> QED BY <1>2, <2>1, <2>2
<1>6. missed' = (missed \/ top' # top \/ generation' # generation)
  BY <1>2
<1> QED BY <1>2, <1>3, <1>4, <1>5, <1>6, UntoldKeeps

LEMMA LossKeeps == ASSUME DocumentsInv, LosesTab PROVE DocumentsInv'
<1>1. TabsInv /\ document \in [Contexts -> Nat]
  BY EngineParts DEF DocumentsInv
<1>2. /\ UNCHANGED <<isAsync, document, wire, program, ghosts>> /\ Unlocked
      /\ missed' = (missed \/ top' # top \/ generation' # generation)
  BY DEF LosesTab
<1>3. Expire \/ KeepRefs
  BY DEF LosesTab
<1>4. TabsInv'
  BY <1>1, ClosedKeeps DEF LosesTab
<1>5. CheckedInv'
  BY <1>2 DEF CheckedInv, Unlocked, wire
<1> QED BY <1>1, <1>2, <1>3, <1>4, <1>5, UntoldKeeps

\* The scope of the command at the head is selected first.
LEMMA SelectKeeps ==
    ASSUME DocumentsInv, queue # << >>, openTabs # {}, SwitchFirst PROVE DocumentsInv'
<1> DEFINE o == [Command EXCEPT !.checked = TRUE]
<1>1. /\ EngineInv /\ RecordsInv /\ WireInv /\ SnapshotInv /\ KnownInv /\ HitInv
      /\ OperationInv /\ WaitInv /\ OrderInv /\ CheckedInv /\ ReplyInv
      /\ TabsInv /\ document \in [Contexts -> Nat]
  BY EngineParts DEF DocumentsInv, WireInv
<1>2. /\ HasTarget(Command) /\ Command.scope.target \in openTabs
      /\ top' = Command.scope.target /\ Expire
      /\ queue' = <<o>> \o Tail(queue)
      /\ UNCHANGED <<isAsync, tabs, document, attached, answers, program, ghosts, missed>>
  BY SomeExpire DEF SwitchFirst, SwitchesScope, Activated
<1>3. UNCHANGED <<knownTarget, knownGeneration, early, handles, snapshot, call, hit, bound, missed>>
  BY <1>2 DEF program, ghosts
<1>4. RefsInv' /\ NamesMove /\ TabsInv'
  BY <1>1, <1>2, ExpireKeeps, SwitchedKeeps
<1>5. EngineInv' /\ openTabs' = openTabs /\ mapped' = 0
  BY <1>1, <1>2, <1>4, EngineParts DEF Expire, openTabs
<1>6. Command = queue[1] /\ 1 \in DOMAIN queue /\ Command \in Orders
  BY CommandFacts
<1>7. /\ o \in Orders /\ o.by = Command.by /\ o.effect = Command.effect
      /\ o.scope = Command.scope /\ o.ref = Command.ref /\ o.checked
  BY <1>6 DEF Orders
<1> HIDE DEF o
<1>8. /\ queue' \in Seq(Orders) /\ DOMAIN queue' = DOMAIN queue /\ queue'[1] = o
      /\ \A n \in DOMAIN queue : n # 1 => queue'[n] = queue[n]
  <2>1. queue \in Seq(Orders)
    BY <1>1 DEF RecordsInv
  <2> QED BY <1>2, <1>7, <2>1, HeadReplaced
<1>9. \A n \in DOMAIN queue : /\ queue'[n].by = queue[n].by /\ queue'[n].effect = queue[n].effect
                              /\ queue'[n].scope = queue[n].scope /\ queue'[n].ref = queue[n].ref
  BY <1>6, <1>7, <1>8
<1>10. RecordsInv' /\ OperationInv' /\ HitInv'
  BY <1>1, <1>2, <1>3, <1>8 DEF RecordsInv, OperationInv, HitInv, WellScoped
<1>11. WaitInv'
  <2>1. Asking' = Asking
    BY <1>8, <1>9 DEF Asking
  <2>2. \A m, n \in DOMAIN queue' : queue'[m].by = queue'[n].by => m = n
    BY <1>1, <1>8, <1>9 DEF WaitInv
  <2>3. answers' = answers /\ call' = call /\ Answered' = Answered
    BY <1>2, <1>3 DEF Answered
  <2> QED BY <1>1, <2>1, <2>2, <2>3 DEF WaitInv, AtWork
<1>12. OrderInv'
  <2>1. \A n \in DOMAIN queue' : \E m \in DOMAIN queue :
           /\ queue'[n].by = queue[m].by /\ queue'[n].effect = queue[m].effect
           /\ queue'[n].scope = queue[m].scope /\ queue'[n].ref = queue[m].ref
           /\ call'[queue[m].by] = call[queue[m].by]
    BY <1>3, <1>8, <1>9
  <2> QED BY <1>1, <1>4, <1>8, <2>1, OrdersKept
<1>13. CheckedInv'
  BY <1>1, <1>2, <1>5, <1>6, <1>7, <1>8 DEF CheckedInv, HasTarget, Unbound
<1>14. ReplyInv'
  BY <1>1, <1>2, <1>3, <1>4, RepliesKept
<1>15. SnapshotInv'
  BY <1>1, <1>3, <1>4, SnapshotsKept
<1>16. KnownInv'
  BY <1>1, <1>3, <1>6, <1>7, <1>8 DEF KnownInv
<1> QED BY <1>5, <1>10, <1>11, <1>12, <1>13, <1>14, <1>15, <1>16 DEF DocumentsInv, WireInv

LEMMA ServesKeep == ASSUME DocumentsInv, Serves PROVE DocumentsInv'
BY RejectKeeps, SwitchFailsKeeps, PlainKeeps, RefuseKeeps, ChangesKeep, ObserveKeeps, ActKeeps, SelectKeeps
   DEF Serves

-----------------------------------------------------------------------------
(* A caller is cancelled                                                    *)

\* Its command or its answer is gone.
Dismissed(c) ==
    \/ \E g \in DOMAIN queue : queue[g].by = c /\ queue' = RemoveAt(queue, g) /\ answers' = answers
    \/ \E g \in DOMAIN answers : answers[g].to = c /\ answers' = RemoveAt(answers, g) /\ queue' = queue

LEMMA DismissedTypes ==
    ASSUME RecordsInv, WaitInv, NEW c \in Callers, Dismissed(c)
    PROVE  /\ queue' \in Seq(Orders) /\ answers' \in Seq(Replies)
           /\ \A m, n \in DOMAIN queue' : queue'[m].by = queue'[n].by => m = n
           /\ \A m, n \in DOMAIN answers' : answers'[m].to = answers'[n].to => m = n
           /\ Asking' = Asking \ {c} /\ Answered' = Answered \ {c}
           /\ \A n \in DOMAIN queue' : \E m \in DOMAIN queue : queue'[n] = queue[m] /\ queue[m].by # c
           /\ \A n \in DOMAIN answers' : \E m \in DOMAIN answers :
                 answers'[n] = answers[m] /\ answers[m].to # c
<1>1. /\ queue \in Seq(Orders) /\ answers \in Seq(Replies)
      /\ \A m, n \in DOMAIN queue : queue[m].by = queue[n].by => m = n
      /\ \A m, n \in DOMAIN answers : answers[m].to = answers[n].to => m = n
      /\ Asking \intersect Answered = {}
  BY DEF RecordsInv, WaitInv
<1>2. CASE \E g \in DOMAIN queue :
              queue[g].by = c /\ queue' = RemoveAt(queue, g) /\ answers' = answers
  <2>1. PICK g \in DOMAIN queue :
              queue[g].by = c /\ queue' = RemoveAt(queue, g) /\ answers' = answers
    BY <1>2
  <2>2. queue' \in Seq(Orders) /\ Thins(queue', queue, g)
    BY <1>1, <2>1, RemoveThins
  <2> DEFINE s == queue
             t == queue'
  <2>3. s \in Seq(Orders) /\ t \in Seq(Orders) /\ g \in DOMAIN s /\ Thins(t, s, g)
    BY <1>1, <2>1, <2>2
  <2>4. \A m, n \in DOMAIN s : s[m].by = s[n].by => m = n
    BY <1>1
  <2> HIDE DEF s, t
  <2>5. /\ \A m, n \in DOMAIN t : t[m].by = t[n].by => m = n
        /\ {t[n].by : n \in DOMAIN t} = {s[n].by : n \in DOMAIN s} \ {s[g].by}
    BY <2>3, <2>4, ThinBy
  <2>6. \A n \in DOMAIN t : \E m \in DOMAIN s : m # g /\ t[n] = s[m]
    BY <2>3, Thinned
  <2> USE DEF s, t
  <2>7. Asking' = Asking \ {c}
    BY <2>1, <2>5 DEF Asking
  <2>8. c \in Asking /\ c \notin Answered /\ Answered' = Answered
    BY <1>1, <2>1 DEF Asking, Answered
  <2>9. \A n \in DOMAIN queue' : \E m \in DOMAIN queue : queue'[n] = queue[m] /\ queue[m].by # c
    BY <1>1, <2>1, <2>6
  <2>10. \A n \in DOMAIN answers' : answers'[n] = answers[n] /\ answers[n].to # c
    BY <2>1, <2>8 DEF Answered
  <2> QED BY <1>1, <2>1, <2>2, <2>5, <2>7, <2>8, <2>9, <2>10
<1>3. CASE \E g \in DOMAIN answers :
              answers[g].to = c /\ answers' = RemoveAt(answers, g) /\ queue' = queue
  <2>1. PICK g \in DOMAIN answers :
              answers[g].to = c /\ answers' = RemoveAt(answers, g) /\ queue' = queue
    BY <1>3
  <2>2. answers' \in Seq(Replies) /\ Thins(answers', answers, g)
    BY <1>1, <2>1, RemoveThins
  <2> DEFINE s == answers
             t == answers'
  <2>3. s \in Seq(Replies) /\ t \in Seq(Replies) /\ g \in DOMAIN s /\ Thins(t, s, g)
    BY <1>1, <2>1, <2>2
  <2>4. \A m, n \in DOMAIN s : s[m].to = s[n].to => m = n
    BY <1>1
  <2> HIDE DEF s, t
  <2>5. /\ \A m, n \in DOMAIN t : t[m].to = t[n].to => m = n
        /\ {t[n].to : n \in DOMAIN t} = {s[n].to : n \in DOMAIN s} \ {s[g].to}
    BY <2>3, <2>4, ThinTo
  <2>6. \A n \in DOMAIN t : \E m \in DOMAIN s : m # g /\ t[n] = s[m]
    BY <2>3, Thinned
  <2> USE DEF s, t
  <2>7. Answered' = Answered \ {c}
    BY <2>1, <2>5 DEF Answered
  <2>8. c \in Answered /\ c \notin Asking /\ Asking' = Asking
    <3>1. c \in Answered
      BY <2>1 DEF Answered
    <3>2. Asking' = Asking
      BY <2>1 DEF Asking
    <3> QED BY <1>1, <3>1, <3>2
  <2>9. \A n \in DOMAIN answers' : \E m \in DOMAIN answers : answers'[n] = answers[m] /\ answers[m].to # c
    BY <1>1, <2>1, <2>6
  <2>10. \A n \in DOMAIN queue' : queue'[n] = queue[n] /\ queue[n].by # c
    BY <2>1, <2>8 DEF Asking
  <2> QED BY <1>1, <2>1, <2>2, <2>5, <2>7, <2>8, <2>9, <2>10
<1> QED BY <1>2, <1>3 DEF Dismissed

LEMMA ForgetKeeps ==
    ASSUME DocumentsInv, NEW c \in Callers, AtWork(c), Forget(c), EngineInv', NamesMove,
           missed' \in BOOLEAN, CheckedInv', KnownInv'
    PROVE  DocumentsInv'
<1>1. /\ EngineInv /\ RecordsInv /\ WireInv /\ SnapshotInv /\ HitInv
      /\ OperationInv /\ WaitInv /\ OrderInv /\ ReplyInv
  BY DEF DocumentsInv, WireInv
<1>2. /\ Dismissed(c) /\ call' = [call EXCEPT ![c] = NoCall]
      /\ UNCHANGED <<isAsync, knownTarget, knownGeneration, early, handles, snapshot, hit, bound>>
  BY DEF Forget, Dismissed
<1>3. /\ queue' \in Seq(Orders) /\ answers' \in Seq(Replies)
      /\ \A m, n \in DOMAIN queue' : queue'[m].by = queue'[n].by => m = n
      /\ \A m, n \in DOMAIN answers' : answers'[m].to = answers'[n].to => m = n
      /\ Asking' = Asking \ {c} /\ Answered' = Answered \ {c}
      /\ \A n \in DOMAIN queue' : \E m \in DOMAIN queue : queue'[n] = queue[m] /\ queue[m].by # c
      /\ \A n \in DOMAIN answers' : \E m \in DOMAIN answers :
            answers'[n] = answers[m] /\ answers[m].to # c
  BY <1>1, <1>2, DismissedTypes
<1>4. NoCall \in OperationRecord /\ NoCall.does = "nothing" /\ NoCall.scope = Nobody
  BY DEF NoCall, OperationRecord, Doings, AnyTarget, Unbound
<1>5. /\ call' \in [Callers -> OperationRecord] /\ call'[c] = NoCall
      /\ \A d \in Callers \ {c} : call'[d] = call[d]
  BY <1>1, <1>2, <1>4 DEF RecordsInv
<1>6. RecordsInv' /\ HitInv'
  BY <1>1, <1>2, <1>3, <1>5 DEF RecordsInv, HitInv
<1>7. OperationInv'
  BY <1>1, <1>2, <1>4, <1>5 DEF OperationInv, WellScoped
<1>8. WaitInv'
  BY <1>1, <1>3, <1>4, <1>5 DEF WaitInv, AtWork
<1>9. OrderInv'
  <2>1. \A n \in DOMAIN queue' : \E m \in DOMAIN queue :
           /\ queue'[n].by = queue[m].by /\ queue'[n].effect = queue[m].effect
           /\ queue'[n].scope = queue[m].scope /\ queue'[n].ref = queue[m].ref
           /\ call'[queue[m].by] = call[queue[m].by]
    <3>1. \A n \in DOMAIN queue : queue[n].by \in Callers
      BY <1>1, WireTypes
    <3> QED BY <1>3, <1>5, <3>1
  <2> QED BY <1>1, <1>3, <2>1, OrdersKept
<1>10. ReplyInv'
  <2>1. \A n \in DOMAIN answers : answers[n].to \in Callers
    BY <1>1, WireTypes
  <2>2. \A n \in DOMAIN answers' : \E m \in DOMAIN answers :
           answers'[n] = answers[m] /\ call'[answers[m].to] = call[answers[m].to]
    BY <1>3, <1>5, <2>1
  <2> QED BY <1>1, <2>2, RepliesKept
<1>11. SnapshotInv'
  BY <1>1, <1>2, SnapshotsKept
<1> QED BY <1>6, <1>7, <1>8, <1>9, <1>10, <1>11 DEF DocumentsInv, WireInv

LEMMA CancelKeeps ==
    ASSUME DocumentsInv, NEW c \in Callers, Cancel(c) PROVE DocumentsInv'
<1>1. EngineInv /\ RecordsInv /\ WaitInv /\ CheckedInv /\ KnownInv /\ missed \in BOOLEAN
  BY DEF DocumentsInv, WireInv, RecordsInv
<1>2. /\ AtWork(c) /\ Forget(c) /\ KeepRefs /\ UNCHANGED <<tabs, top, attached, document>>
      /\ missed' = (missed \/ \E n \in DOMAIN answers : answers[n].to = c)
      /\ \A n \in DOMAIN queue : queue[n].by = c => ~queue[n].checked
      /\ UNCHANGED <<knownTarget, knownGeneration>>
  BY DEF Cancel, Forget, SameTabs
<1>3. EngineInv' /\ NamesMove /\ openTabs' = openTabs
  BY <1>1, <1>2, NamesStay DEF EngineInv, openTabs, KeepRefs
<1>4. queue \in Seq(Orders)
  BY <1>1 DEF RecordsInv
<1>5. CASE \E g \in DOMAIN queue :
              queue[g].by = c /\ queue' = RemoveAt(queue, g) /\ answers' = answers
  <2>1. PICK g \in DOMAIN queue :
              queue[g].by = c /\ queue' = RemoveAt(queue, g) /\ answers' = answers
    BY <1>5
  <2>2. /\ Thins(queue', queue, g) /\ queue' \in Seq(Orders)
        /\ DOMAIN queue = 1 .. Len(queue) /\ Len(queue) \in Nat
    BY <1>4, <2>1, RemoveThins
  <2>3. ~queue[g].checked
    BY <1>2, <2>1
  <2>4. (\A n \in DOMAIN queue' : ~queue'[n].checked) => \A n \in DOMAIN queue : ~queue[n].checked
    <3>1. \A m \in DOMAIN queue : m # g => \E n \in DOMAIN queue' : queue'[n] = queue[m]
      <4>1. queue \in Seq(Orders) /\ queue' \in Seq(Orders) /\ g \in DOMAIN queue /\ Thins(queue', queue, g)
        BY <1>4, <2>1, <2>2
      <4> QED BY ONLY <4>1, Thinned
    <3> QED BY <2>3, <3>1
  <2>5. CheckedInv'
    <3> SUFFICES ASSUME NEW n \in DOMAIN queue', queue'[n].checked
                 PROVE  /\ n = 1 /\ HasTarget(queue'[n]) /\ queue'[n].scope.target = top
                        /\ top \in openTabs /\ mapped = 0
      BY <1>2, <1>3 DEF CheckedInv, HasTarget, KeepRefs
    <3>1. /\ queue'[n] = queue[IF n < g THEN n ELSE n + 1]
          /\ n \in 1 .. (Len(queue) - 1) /\ (IF n < g THEN n ELSE n + 1) \in DOMAIN queue
      BY <2>2 DEF Thins
    <3>2. (IF n < g THEN n ELSE n + 1) = 1 /\ HasTarget(queue[1]) /\ queue[1].scope.target = top
          /\ top \in openTabs /\ mapped = 0
      BY <1>1, <3>1 DEF CheckedInv
    <3>3. n = 1
      BY <3>1, <3>2
    <3> QED BY <3>1, <3>2, <3>3
  <2>6. KnownInv'
    BY <1>1, <1>2, <2>1, <2>4 DEF KnownInv, KeepRefs
  <2>7. missed' \in BOOLEAN
    BY <1>1, <1>2
  <2> QED BY <1>2, <1>3, <2>5, <2>6, <2>7, ForgetKeeps
<1>6. CASE \E g \in DOMAIN answers : answers[g].to = c /\ queue' = queue
  <2>1. missed'
    BY <1>2, <1>6
  <2>2. CheckedInv'
    BY <1>1, <1>2, <1>3, <1>6 DEF CheckedInv, HasTarget, Unbound, KeepRefs
  <2>3. KnownInv'
    BY <1>1, <1>2, <2>1 DEF KnownInv
  <2> QED BY <1>1, <1>2, <1>3, <2>2, <2>3, ForgetKeeps
<1> QED BY <1>5, <1>6 DEF Cancel, Forget

LEMMA InterruptKeeps ==
    ASSUME DocumentsInv, NEW c \in Callers, Interrupt(c) PROVE DocumentsInv'
<1>1. /\ EngineInv /\ TabsInv /\ document \in [Contexts -> Nat]
      /\ RecordsInv /\ WaitInv /\ CheckedInv /\ KnownInv
  BY EngineParts DEF DocumentsInv, WireInv
<1>2. /\ queue # << >> /\ Command.by = c /\ missed' = TRUE /\ PartlyDone(Command) /\ Expire /\ Forget(c)
      /\ UNCHANGED <<document, knownTarget, knownGeneration>>
  BY SomeExpire DEF Interrupt, Forget, Command
<1>3. Command = queue[1] /\ 1 \in DOMAIN queue
  BY <1>2, CommandFacts
<1>4. EngineInv' /\ NamesMove
  BY <1>1, <1>2, PartlyKeeps, ExpireKeeps, EngineParts
<1>5. c \in Asking /\ c \notin Answered
  BY <1>1, <1>2, <1>3 DEF Asking, WaitInv
<1>6. AtWork(c)
  BY <1>1, <1>5 DEF WaitInv
<1>7. queue' = RemoveAt(queue, 1)
  <2>1. \A g \in DOMAIN answers : answers[g].to # c
    BY <1>5 DEF Answered
  <2>2. \A g \in DOMAIN queue : queue[g].by = c => g = 1
    BY <1>1, <1>2, <1>3 DEF WaitInv
  <2> QED BY <1>2, <2>1, <2>2 DEF Forget
<1>8. \A n \in DOMAIN queue' : ~queue'[n].checked
  <2>1. queue \in Seq(Orders)
    BY <1>1 DEF RecordsInv
  <2>2. Thins(queue', queue, 1) /\ queue' \in Seq(Orders)
    BY <1>3, <1>7, <2>1, RemoveThins
  <2>3. \A n \in DOMAIN queue' : \E m \in DOMAIN queue : m # 1 /\ queue'[n] = queue[m]
    BY <1>3, <2>1, <2>2, Thinned
  <2> QED BY <1>1, <2>3 DEF CheckedInv
<1>9. CheckedInv'
  BY <1>8 DEF CheckedInv, HasTarget, openTabs
<1>10. KnownInv'
  BY <1>1, <1>2 DEF KnownInv
<1> QED BY <1>2, <1>4, <1>6, <1>9, <1>10, ForgetKeeps

-----------------------------------------------------------------------------
(* The theorems                                                             *)

LEMMA DocumentsInitially == DocumentsInit => DocumentsInv
<1> SUFFICES ASSUME DocumentsInit PROVE DocumentsInv
  OBVIOUS
<1> USE DEF DocumentsInit
<1>1. NoCall \in OperationRecord /\ NoCall.does = "nothing" /\ NoCall.scope = Nobody
  BY DEF NoCall, OperationRecord, Doings, AnyTarget, Unbound
<1>2. EngineInv
  <2>1. named \in Seq(Contexts \X Nat) /\ mapped \in 0 .. Len(named)
    OBVIOUS
  <2>2. openTabs = {} /\ document \in [Contexts -> Nat]
    BY DEF openTabs
  <2> QED BY <2>1, <2>2 DEF EngineInv
<1>3. RecordsInv
  <2>1. queue \in Seq(Orders) /\ answers \in Seq(Replies)
    OBVIOUS
  <2>2. call \in [Callers -> OperationRecord]
    BY <1>1
  <2> QED BY <2>1, <2>2 DEF RecordsInv, AnyTarget
<1>4. DOMAIN queue = {} /\ DOMAIN answers = {}
  OBVIOUS
<1>5. WaitInv
  BY <1>1, <1>4 DEF WaitInv, Asking, Answered, AtWork
<1>6. OperationInv
  BY <1>1 DEF OperationInv, WellScoped
<1>7. OrderInv /\ CheckedInv /\ ReplyInv
  BY <1>4 DEF OrderInv, CheckedInv, ReplyInv
<1>8. SnapshotInv /\ HitInv
  BY DEF SnapshotInv, HitInv
<1>9. KnownInv
  BY <1>4 DEF KnownInv
<1> QED BY <1>2, <1>3, <1>5, <1>6, <1>7, <1>8, <1>9 DEF DocumentsInv, WireInv

LEMMA DocumentsStep == DocumentsInv /\ [DocumentsNext]_documentVars => DocumentsInv'
<1> SUFFICES ASSUME DocumentsInv, [DocumentsNext]_documentVars PROVE DocumentsInv'
  OBVIOUS
<1>1. ASSUME NEW c \in Callers,
             \/ Calls(c) \/ Cancel(c) \/ Interrupt(c)
             \/ ReturnPlain(c) \/ ReturnSnapshot(c) \/ ReturnHandle(c) \/ ReturnAct(c)
             \/ ReturnFound(c) \/ ReturnSwitched(c) \/ ReturnReused(c)
      PROVE  DocumentsInv'
  BY <1>1, CallsKeep, CancelKeeps, InterruptKeeps, SnapshotsKeep, HandlesKeep, ReturnsKeep
<1>2. CASE LaunchBrowser
  BY <1>2, LaunchKeeps
<1>3. CASE Serves
  <2>1. queue # << >> /\ openTabs # {}
    BY <1>3 DEF Serves
  <2> QED BY <1>3, <2>1, ServesKeep
<1>4. CASE \E d \in Contexts : DocumentMoves(d)
  BY <1>4, MovesKeep
<1>5. CASE LosesTab
  BY <1>5, LossKeeps
<1>6. CASE queue # << >> /\ (Deadline \/ DeadlineFirst)
  BY <1>6, DeadlineKeeps, RejectKeeps
<1>7. CASE UNCHANGED documentVars
  <2>1. UNCHANGED <<isAsync, tabs, top, document, attached, generation, named, mapped, wire, program,
                    ghosts, missed>>
    BY <1>7 DEF documentVars, engineState
  <2>2. EngineInv' /\ CheckedInv' /\ KnownInv' /\ NamesMove
    BY <2>1 DEF DocumentsInv, WireInv, EngineInv, CheckedInv, KnownInv, NamesMove, HasTarget, Unbound,
                openTabs, wire, program, ghosts
  <2>3. missed' \in BOOLEAN
    BY <2>1 DEF DocumentsInv, RecordsInv
  <2> QED BY <2>1, <2>2, <2>3, WireStays
<1> QED BY <1>1, <1>2, <1>3, <1>4, <1>5, <1>6, <1>7 DEF DocumentsNext

LEMMA DocumentsAlways == DocumentsSpec => []DocumentsInv
<1> QED BY DocumentsInitially, DocumentsStep, PTL DEF DocumentsSpec

LEMMA OneOrNone ==
    ASSUME NEW W, \A m, n \in W : m = n
    PROVE  Cardinality(W) = IF W = {} THEN 0 ELSE 1
<1>1. CASE W = {}
  BY <1>1, FS_EmptySet
<1>2. CASE W # {}
  <2>1. PICK n : n \in W
    BY <1>2
  <2>2. W = {n}
    BY <2>1
  <2> QED BY <1>2, <2>2, FS_Singleton
<1> QED BY <1>1, <1>2

\* Every operation under way waits for exactly one answer, and the program's and the
\* engine's records have their types.
THEOREM DocumentsAreTyped == DocumentsSpec => []DocumentsTypeOK
<1>1. DocumentsInv => DocumentsTypeOK
  <2> SUFFICES ASSUME DocumentsInv PROVE DocumentsTypeOK
    OBVIOUS
  <2>1. EngineInv /\ RecordsInv /\ WaitInv
    BY DEF DocumentsInv, WireInv
  <2>2. ASSUME NEW c \in Callers
        PROVE    Cardinality({n \in DOMAIN queue : queue[n].by = c})
               + Cardinality({n \in DOMAIN answers : answers[n].to = c}) = IF AtWork(c) THEN 1 ELSE 0
    <3> DEFINE Q == {n \in DOMAIN queue : queue[n].by = c}
               A == {n \in DOMAIN answers : answers[n].to = c}
    <3>1. (Q # {} <=> c \in Asking) /\ (A # {} <=> c \in Answered)
      BY DEF Asking, Answered
    <3>2. (\A m, n \in Q : m = n) /\ (\A m, n \in A : m = n)
      BY <2>1 DEF WaitInv
    <3>3. AtWork(c) <=> Q # {} \/ A # {}
      BY <2>1, <3>1 DEF WaitInv
    <3>4. ~(Q # {} /\ A # {})
      BY <2>1, <3>1 DEF WaitInv
    <3>5. Cardinality(Q) = (IF Q = {} THEN 0 ELSE 1) /\ Cardinality(A) = (IF A = {} THEN 0 ELSE 1)
      BY <3>2, OneOrNone
    <3> HIDE DEF Q, A
    <3>6. Cardinality(Q) + Cardinality(A) = IF AtWork(c) THEN 1 ELSE 0
      BY <3>3, <3>4, <3>5
    <3> QED BY <3>6 DEF Q, A
  <2>3. \A c \in Callers : handles[c] \in Scopes \union {Nobody}
    BY <2>1 DEF RecordsInv
  <2> QED BY <2>1, <2>2, <2>3 DEF DocumentsTypeOK, EngineInv, RecordsInv, AnyTarget
<1> QED BY <1>1, DocumentsAlways, PTL

\* A ref acts on the document its snapshot was taken of, whatever tabs, frames and
\* documents other callers and the page went through.
THEOREM RefsHitTheirSnapshots == DocumentsSpec => []RefHitsItsSnapshot
<1>1. DocumentsInv => RefHitsItsSnapshot
  BY DEF DocumentsInv, HitInv, RefHitsItsSnapshot
<1> QED BY <1>1, DocumentsAlways, PTL

\* A snapshot names the tab and the frame it was taken of; a page handle from before the
\* launch is bound to the tab its first answered command ran on.
THEOREM AnswersAlwaysNameTheirTarget == DocumentsSpec => []AnswersNameTheirTarget
<1>1. DocumentsInv => AnswersNameTheirTarget
  <2> SUFFICES ASSUME DocumentsInv PROVE AnswersNameTheirTarget
    OBVIOUS
  <2>1. ASSUME NEW c \in Callers, snapshot[c] # Nobody
        PROVE  LET scope == snapshot[c].scope
               IN  IF scope.frame = Nobody
                   THEN snapshot[c].at[1] = scope.target
                   ELSE snapshot[c].at[1] = scope.frame /\ FrameOf[scope.frame] = scope.target
    <3>1. Located(snapshot[c]) /\ snapshot[c] \in Snapshots
      BY <2>1 DEF DocumentsInv, SnapshotInv, RecordsInv
    <3>2. snapshot[c].scope # Nobody
      BY <3>1, NobodyIsApart DEF Snapshots
    <3> QED BY <3>1, <3>2 DEF Located, WellScoped
  <2> QED BY <2>1 DEF AnswersNameTheirTarget, DocumentsInv, HitInv
<1> QED BY <1>1, DocumentsAlways, PTL

\* The snapshots before and after an action are of one tab and one frame.
THEOREM EvidenceAlwaysFromOneDocument == DocumentsSpec => EvidenceFromOneDocument
<1> DEFINE Kept == \A c \in Callers :
                      call[c].does = "refreshes" /\ snapshot'[c] # snapshot[c] =>
                          /\ snapshot'[c].scope = snapshot[c].scope
                          /\ snapshot'[c].at[1] = snapshot[c].at[1]
<1>1. ASSUME DocumentsInv, [DocumentsNext]_documentVars PROVE [Kept]_documentVars
  <2> SUFFICES ASSUME NEW c \in Callers, call[c].does = "refreshes", snapshot'[c] # snapshot[c]
               PROVE  /\ snapshot'[c].scope = snapshot[c].scope
                      /\ snapshot'[c].at[1] = snapshot[c].at[1]
    OBVIOUS
  <2>1. /\ EngineInv /\ RecordsInv /\ WireInv /\ SnapshotInv /\ KnownInv /\ HitInv /\ OperationInv
    BY <1>1 DEF DocumentsInv, WireInv
  <2>2. PICK d \in Callers : ReturnSnapshot(d)
    <3>1. snapshot' # snapshot
      OBVIOUS
    <3>2. UNCHANGED program => snapshot' = snapshot
      BY DEF program
    <3>3. ~(UNCHANGED program)
      BY <3>1, <3>2
    <3>4. DocumentsNext
      BY <1>1, <3>3 DEF documentVars
    <3>5. /\ ~LaunchBrowser /\ ~Serves /\ ~(\E d \in Contexts : DocumentMoves(d))
          /\ ~LosesTab /\ ~Deadline /\ ~DeadlineFirst
      BY <3>3 DEF LaunchBrowser, Serves, DocumentMoves, LosesTab, DeadlineFirst,
                  RejectStale, RejectTarget, SwitchFirst, SwitchFails, RejectDetached, Refuse, Deadline, RunPlain, ObserveDocument, ActOnRef, NavigateTop,
                  OpenTab, SwitchTab, CloseTab
    <3>6. \A d \in Callers : ~Calls(d) /\ ~Cancel(d) /\ ~Interrupt(d)
      BY <3>1 DEF Calls, CallPage, CallHandle, CallBrowser, CallRef, CallOpen, BeginCall, Cancel,
                  Interrupt, Forget
    <3>7. \A d \in Callers : ~ReturnPlain(d) /\ ~ReturnHandle(d) /\ ~ReturnAct(d) /\ ~ReturnFound(d)
                             /\ ~ReturnSwitched(d) /\ ~ReturnReused(d)
      BY <3>1 DEF ReturnPlain, ReturnHandle, ReturnAct, ReturnFound, ReturnSwitched, ReturnReused
    <3> QED BY <3>4, <3>5, <3>6, <3>7 DEF DocumentsNext
  <2> DEFINE r == Head(answers)
  <2>3. /\ Taken(d) /\ Accepts(d, r) /\ Done(d) /\ r.code = "ok"
        /\ snapshot' = [snapshot EXCEPT ![d] = Captured(d, r)]
        /\ UNCHANGED <<isAsync, engineState, queue, handles, hit, missed>>
    BY <2>2 DEF ReturnSnapshot
  <2>4. d = c /\ snapshot'[c] = Captured(c, r)
    BY <2>1, <2>3 DEF RecordsInv
  <2>5. r \in Replies /\ Tells(r, call[c], generation, named)
    <3>1. \A e \in Callers \ {c} : call'[e] = call[e]
      BY <2>1, <2>3, <2>4 DEF Done, RecordsInv
    <3> QED BY <2>1, <2>3, <2>4, <3>1, TakeKeeps
  <2>6. /\ snapshot[c] # Nobody /\ call[c].scope = snapshot[c].scope
        /\ snapshot[c] \in Snapshots /\ Located(snapshot[c])
    BY <2>1 DEF OperationInv, RecordsInv, SnapshotInv
  <2>7. snapshot[c].scope.target # Nobody /\ snapshot[c].scope \in Scopes
    BY <2>6, NobodyIsApart DEF Located, Snapshots
  <2>8. /\ r.target = snapshot[c].scope.target
        /\ r.data.at[1] = IF snapshot[c].scope.frame = Nobody THEN r.target ELSE snapshot[c].scope.frame
    BY <2>3, <2>5, <2>6, <2>7 DEF Tells
  <2>9. /\ snapshot'[c].at = r.data.at
        /\ snapshot'[c].scope = [target |-> r.target, frame |-> snapshot[c].scope.frame]
    BY <2>4, <2>6 DEF Captured, ResultScope, Scope
  <2>10. snapshot'[c].scope = snapshot[c].scope
    BY <2>7, <2>8, <2>9 DEF Scopes
  <2> QED BY <2>6, <2>8, <2>9, <2>10 DEF Located
<1>2. DocumentsInv /\ [DocumentsNext]_documentVars => [Kept]_documentVars
  BY <1>1
<1> QED BY <1>2, DocumentsAlways, PTL DEF DocumentsSpec, EvidenceFromOneDocument

\* Between operations the program knows the engine's active tab and generation, once it
\* knows any, except for what changed untold since the last answer of a dispatch.
THEOREM KnownAlwaysCurrent == DocumentsSpec => []KnownIsCurrent
<1>1. DocumentsInv => KnownIsCurrent
  <2> SUFFICES ASSUME DocumentsInv, knownTarget # Nobody, ~missed, \A c \in Callers : ~AtWork(c)
               PROVE  knownTarget = top /\ knownGeneration = generation
    BY DEF KnownIsCurrent
  <2>1. EngineInv /\ RecordsInv /\ WaitInv /\ KnownInv
    BY DEF DocumentsInv, WireInv
  <2>2. Asking = {} /\ Answered = {}
    <3>1. Asking \subseteq Callers /\ Answered \subseteq Callers
      BY <2>1, WireTypes DEF Asking, Answered
    <3> QED BY <2>1, <3>1 DEF WaitInv
  <2>3. DOMAIN queue = {} /\ DOMAIN answers = {}
    BY <2>2 DEF Asking, Answered
  <2> QED BY <2>1, <2>3 DEF KnownInv
<1> QED BY <1>1, DocumentsAlways, PTL

=============================================================================
