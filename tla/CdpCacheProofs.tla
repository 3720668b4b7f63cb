------------------------------ MODULE CdpCacheProofs ------------------------------
(***************************************************************************)
(* What is proved of CdpCache.                                             *)
(*                                                                         *)
(* SoundInv holds for any number of tasks.  What the cache promises does   *)
(* not: two tasks can each create a client, or a call can be between its   *)
(* check and its evaluation while another one navigates.  The code runs    *)
(* the same steps for a synchronous browser, which is one task, and for    *)
(* that OneTaskInv is inductive: the call under way knows where it is in   *)
(* _page_session, only the current controller's client is open, and a      *)
(* handle that still passes _check_frame is of the cached page session and *)
(* of the document whose frames it holds.                                  *)
(***************************************************************************)
EXTENDS CdpCache, TLAPS

Steps == {"idle", "answered", "resetting", "connect", "list", "resolve", "attach",
          "enable", "have", "checked"}

MaybeTab == Tabs \union {None}

MaybeDoc == Docs \union {None}

TaskRecord == [at : Steps, asked : Targets \union {None}, tab : MaybeTab,
               ctl : Nat, client : Nat, page : Nat, taken : MaybeDoc]

ControllerRecord == [closed : BOOLEAN, client : Nat, page : Nat]

PageRecord == [client : Nat, tab : Tabs, gen : Nat, on : BOOLEAN,
               known : MaybeDoc, tree : MaybeDoc, unread : BOOLEAN]

\* What a task holds, it can use.
TaskInv(k) ==
    LET w == task[k]
    IN  /\ w.ctl <= Len(controllers) /\ w.client <= Len(clients) /\ w.page <= Len(pages)
        /\ w.at \in {"resetting", "connect", "list", "resolve", "attach", "enable"} => w.ctl > 0
        /\ w.at \in {"list", "resolve", "attach"} => w.client > 0
        /\ w.at = "attach" => w.tab \in Tabs
        /\ w.at \in {"enable", "checked"} => w.page > 0
        /\ w.at = "checked" => w.taken \in Docs

BrowserTypes ==
    /\ active \in Tabs /\ doc \in [Tabs -> Docs] /\ shut \in BOOLEAN
    /\ evaluated \in [taken : Docs, ran : Docs, astray : BOOLEAN] \union {None}
    /\ selected \in BOOLEAN /\ astray \in BOOLEAN

CacheTypes ==
    /\ current \in Nat /\ current <= Len(controllers)
    /\ controllers \in Seq(ControllerRecord)
    /\ \A c \in 1 .. Len(controllers) :
          controllers[c].client <= Len(clients) /\ controllers[c].page <= Len(pages)
    /\ clients \in Seq({"new", "open", "closed"})
    /\ pages \in Seq(PageRecord)
    /\ \A p \in 1 .. Len(pages) : pages[p].client \in 1 .. Len(clients)
    /\ handle \in [page : Nat, gen : Nat, taken : Docs] \union {None}
    /\ handle # None => handle.page \in 1 .. Len(pages)

TypesInv ==
    /\ BrowserTypes /\ CacheTypes
    /\ task \in [Tasks -> TaskRecord]
    /\ \A k \in Tasks : TaskInv(k)

-----------------------------------------------------------------------------

\* Page sessions: the frames and the contexts are of one document.
PagesInv ==
    \A p \in 1 .. Len(pages) :
        /\ pages[p].known # None => pages[p].tree = pages[p].known
        /\ ~pages[p].on => pages[p].known = None /\ pages[p].tree = None
        /\ pages[p].unread => pages[p].on

\* What holds for any number of tasks.
SoundInv == TypesInv /\ PagesInv

Cached == controllers[current].page

\* The one task k, and the controller and the client it works with.
CallInv(k) ==
    LET w == task[k]
    IN  /\ current # 0 /\ w.at # "resetting" => ~controllers[current].closed
        /\ w.at \in {"connect", "list", "resolve", "attach", "enable", "have", "resetting"} => current # 0
        /\ w.at \in {"connect", "list", "resolve", "attach", "enable", "resetting"} => w.ctl = current
        /\ w.at = "connect" => controllers[current].client = 0
        /\ w.at = "list" => w.client = controllers[current].client
        /\ w.at = "resetting" => Cached = 0 /\ \A n \in 1 .. Len(clients) : clients[n] = "closed"
        /\ \A n \in 1 .. Len(clients) :
              clients[n] # "closed" => current # 0 /\ controllers[current].client = n

\* The page session it looks for, or has.
LookInv(k) ==
    LET w == task[k]
    IN  /\ w.at \in {"connect", "list", "resolve", "attach"} =>
              /\ w.asked = None => Cached = 0
              /\ w.asked # None => selected /\ astray
        /\ w.at = "attach" => w.tab = Resolved(w.asked)
        /\ w.at \in {"enable", "have"} => w.page = Cached
        /\ w.at = "enable" => (handle = None \/ handle.page # w.page)
        /\ ~selected /\ w.at # "answered" /\ current # 0 =>
              Cached = 0 \/ pages[Cached].tab = active

\* The handle, and the check of it that was made.
HandleInv(k) ==
    LET w == task[k]
    IN  /\ handle # None =>
              /\ handle.gen <= pages[handle.page].gen
              /\ Current(handle) =>
                    /\ pages[handle.page].tree = handle.taken
                    /\ ~astray => /\ current # 0 /\ Cached = handle.page
                                  /\ w.at # "answered" => ~pages[handle.page].unread
        /\ w.at = "checked" /\ ~astray =>
              handle # None /\ Current(handle) /\ w.page = handle.page /\ w.taken = handle.taken

OneTaskInv(k) == SoundInv /\ CallInv(k) /\ LookInv(k) /\ HandleInv(k) /\ HandlesExpire

-----------------------------------------------------------------------------
(* Sequences with one element replaced, and page sessions read or dropped.  *)

LEMMA ReplacedInSeq ==
    ASSUME NEW S, NEW s \in Seq(S), NEW i \in 1 .. Len(s), NEW e \in S
    PROVE  /\ [s EXCEPT ![i] = e] \in Seq(S)
           /\ Len([s EXCEPT ![i] = e]) = Len(s)
           /\ [s EXCEPT ![i] = e][i] = e
           /\ \A j \in 1 .. Len(s) : j # i => [s EXCEPT ![i] = e][j] = s[j]
OBVIOUS

LEMMA ListedInSeq ==
    ASSUME NEW S, NEW n \in Nat, NEW f, f \in [1 .. n -> S]
    PROVE  f \in Seq(S) /\ Len(f) = n
OBVIOUS

LEMMA InvalidatedTypes ==
    ASSUME NEW p \in PageRecord
    PROVE  /\ Invalidated(p) \in PageRecord
           /\ Invalidated(p).client = p.client /\ Invalidated(p).tab = p.tab
           /\ Invalidated(p).gen = p.gen + 1 /\ Invalidated(p).on = p.on
           /\ Invalidated(p).known = None /\ Invalidated(p).tree = None
           /\ Invalidated(p).unread = p.unread
<1>1. None \in MaybeDoc /\ p.gen + 1 \in Nat
  BY DEF PageRecord, MaybeDoc
<1>2. Invalidated(p) = [p EXCEPT !.gen = p.gen + 1, !.known = None, !.tree = None]
  BY DEF Invalidated
<1> QED BY <1>1, <1>2 DEF PageRecord

\* A tab's navigation only leaves an event.
LEMMA ToldPages ==
    ASSUME pages \in Seq(PageRecord), NEW t \in Tabs
    PROVE  /\ Told(t) \in Seq(PageRecord) /\ Len(Told(t)) = Len(pages)
           /\ \A q \in 1 .. Len(pages) :
                 /\ Told(t)[q].client = pages[q].client /\ Told(t)[q].tab = pages[q].tab
                 /\ Told(t)[q].gen = pages[q].gen /\ Told(t)[q].on = pages[q].on
                 /\ Told(t)[q].known = pages[q].known /\ Told(t)[q].tree = pages[q].tree
                 /\ Told(t)[q].unread => pages[q].unread \/ pages[q].on
<1> DEFINE U(q) == pages[q].unread \/ (pages[q].tab = t /\ pages[q].on /\ clients[pages[q].client] = "open")
           R(q) == [pages[q] EXCEPT !.unread = U(q)]
<1>1. Told(t) = [q \in 1 .. Len(pages) |-> R(q)]
  BY DEF Told
<1>2. \A q \in 1 .. Len(pages) : pages[q] \in PageRecord /\ U(q) \in BOOLEAN
  <2>1. \A q \in 1 .. Len(pages) : pages[q] \in PageRecord
    OBVIOUS
  <2>2. \A r \in PageRecord : r.unread \in BOOLEAN /\ r.on \in BOOLEAN
    BY DEF PageRecord
  <2> QED BY <2>1, <2>2
<1>3. \A q \in 1 .. Len(pages) :
         /\ R(q) \in PageRecord
         /\ R(q).client = pages[q].client /\ R(q).tab = pages[q].tab /\ R(q).gen = pages[q].gen
         /\ R(q).on = pages[q].on /\ R(q).known = pages[q].known /\ R(q).tree = pages[q].tree
         /\ R(q).unread = U(q)
  <2> SUFFICES ASSUME NEW q \in 1 .. Len(pages)
               PROVE  /\ R(q) \in PageRecord
                      /\ R(q).client = pages[q].client /\ R(q).tab = pages[q].tab
                      /\ R(q).gen = pages[q].gen /\ R(q).on = pages[q].on
                      /\ R(q).known = pages[q].known /\ R(q).tree = pages[q].tree
                      /\ R(q).unread = U(q)
    OBVIOUS
  <2> DEFINE r == pages[q]
             u == U(q)
  <2>1. r \in PageRecord /\ u \in BOOLEAN
    BY <1>2
  <2>2. R(q) = [r EXCEPT !.unread = u]
    OBVIOUS
  <2> HIDE DEF R, U, r, u
  <2>3. /\ R(q) \in PageRecord
        /\ R(q).client = r.client /\ R(q).tab = r.tab /\ R(q).gen = r.gen
        /\ R(q).on = r.on /\ R(q).known = r.known /\ R(q).tree = r.tree
        /\ R(q).unread = u
    BY <2>1, <2>2 DEF PageRecord
  <2> QED BY <2>3 DEF r, u
<1> HIDE DEF R
<1>4. Told(t) \in [1 .. Len(pages) -> PageRecord] /\ Len(pages) \in Nat
  BY <1>1, <1>3
<1>5. Told(t) \in Seq(PageRecord) /\ Len(Told(t)) = Len(pages)
  BY <1>4, ListedInSeq
<1>6. \A q \in 1 .. Len(pages) : Told(t)[q] = R(q)
  BY <1>1
<1> QED BY <1>3, <1>5, <1>6

\* Reading the events: a session that has some starts over, the others of its
\* client lose theirs.
LEMMA SyncedPages ==
    ASSUME pages \in Seq(PageRecord), doc \in [Tabs -> Docs], PagesInv, NEW p \in 1 .. Len(pages)
    PROVE  /\ Synced(p) \in Seq(PageRecord) /\ Len(Synced(p)) = Len(pages)
           /\ \A q \in 1 .. Len(pages) :
                 /\ Synced(p)[q].client = pages[q].client /\ Synced(p)[q].tab = pages[q].tab
                 /\ Synced(p)[q].gen >= pages[q].gen
                 /\ Synced(p)[q].unread => pages[q].unread
                 /\ q # p => /\ Synced(p)[q].gen = pages[q].gen /\ Synced(p)[q].on = pages[q].on
                             /\ Synced(p)[q].known = pages[q].known /\ Synced(p)[q].tree = pages[q].tree
           /\ Synced(p)[p].on /\ ~Synced(p)[p].unread /\ Synced(p)[p].tree \in Docs
           /\ Synced(p)[p].known # None => Synced(p)[p].tree = Synced(p)[p].known
           /\ pages[p].unread => Synced(p)[p].gen > pages[p].gen
           /\ ~pages[p].unread /\ pages[p].tree # None => Synced(p)[p].tree = pages[p].tree
<1> DEFINE read == IF pages[p].unread
                   THEN [Invalidated(pages[p]) EXCEPT !.known = doc[pages[p].tab]]
                   ELSE pages[p]
           told == IF read.known = None /\ ~read.on
                   THEN [read EXCEPT !.known = doc[read.tab], !.on = TRUE]
                   ELSE read
           last == [told EXCEPT !.unread = FALSE, !.tree = IF @ = None THEN doc[told.tab] ELSE @]
           R(q) == IF q = p THEN last
                   ELSE IF pages[q].client = pages[p].client
                        THEN [pages[q] EXCEPT !.unread = FALSE] ELSE pages[q]
<1>1. Synced(p) = [q \in 1 .. Len(pages) |-> R(q)]
  BY DEF Synced
<1>2. \A q \in 1 .. Len(pages) : pages[q] \in PageRecord
  OBVIOUS
<1>3. /\ pages[p].tab \in Tabs /\ doc[pages[p].tab] \in Docs /\ None \notin Docs
      /\ pages[p].gen \in Nat
      /\ doc[pages[p].tab] \in MaybeDoc
  BY <1>2, CdpAssumption DEF PageRecord, Docs, MaybeDoc
<1>4. /\ pages[p].known # None => pages[p].tree = pages[p].known
      /\ ~pages[p].on => pages[p].known = None /\ pages[p].tree = None
      /\ pages[p].unread => pages[p].on
  BY DEF PagesInv
<1>5. /\ read \in PageRecord /\ read.client = pages[p].client /\ read.tab = pages[p].tab
      /\ read.on = pages[p].on
      /\ pages[p].unread => /\ read.gen = pages[p].gen + 1
                            /\ read.known = doc[pages[p].tab] /\ read.tree = None
      /\ ~pages[p].unread => read = pages[p]
  <2>1. CASE pages[p].unread
    <3>1. Invalidated(pages[p]) \in PageRecord
      BY <1>2, InvalidatedTypes
    <3>2. read = [Invalidated(pages[p]) EXCEPT !.known = doc[pages[p].tab]]
      BY <2>1
    <3>3. /\ read \in PageRecord
          /\ read.client = Invalidated(pages[p]).client /\ read.tab = Invalidated(pages[p]).tab
          /\ read.gen = Invalidated(pages[p]).gen /\ read.on = Invalidated(pages[p]).on
          /\ read.tree = Invalidated(pages[p]).tree /\ read.known = doc[pages[p].tab]
      BY <1>3, <3>1, <3>2 DEF PageRecord
    <3> HIDE DEF read
    <3> QED BY <1>2, <2>1, <3>3, InvalidatedTypes
  <2>2. CASE ~pages[p].unread
    BY <1>2, <2>2
  <2> QED BY <2>1, <2>2
<1> HIDE DEF read
<1>6. /\ told \in PageRecord /\ told.client = pages[p].client /\ told.tab = pages[p].tab
      /\ told.on /\ told.gen = read.gen /\ told.tree = read.tree
      /\ read.on => told.known = read.known
      /\ ~read.on => told.known = doc[pages[p].tab]
  <2>1. CASE read.known = None /\ ~read.on
    <3>1. told = [read EXCEPT !.known = doc[read.tab], !.on = TRUE]
      BY <2>1
    <3> HIDE DEF told
    <3> QED BY <1>3, <1>5, <2>1, <3>1 DEF PageRecord
  <2>2. CASE ~(read.known = None /\ ~read.on)
    <3>1. told = read
      BY <2>2
    <3>2. read.on
      BY <1>4, <1>5, <2>2
    <3> HIDE DEF told
    <3> QED BY <1>5, <3>1, <3>2
  <2> QED BY <2>1, <2>2
<1> HIDE DEF told
<1>7. /\ last \in PageRecord /\ last.client = pages[p].client /\ last.tab = pages[p].tab
      /\ last.on /\ last.unread = FALSE /\ last.gen = read.gen /\ last.known = told.known
      /\ told.tree = None => last.tree = doc[pages[p].tab]
      /\ told.tree # None => last.tree = told.tree
  BY <1>3, <1>6 DEF PageRecord
<1>8. \A q \in 1 .. Len(pages) :
         /\ R(q) \in PageRecord
         /\ R(q).client = pages[q].client /\ R(q).tab = pages[q].tab
         /\ R(q).unread => pages[q].unread
         /\ q # p => /\ R(q).gen = pages[q].gen /\ R(q).on = pages[q].on
                     /\ R(q).known = pages[q].known /\ R(q).tree = pages[q].tree
         /\ q = p => R(q) = last
  <2> HIDE DEF last
  <2> QED BY <1>2, <1>7 DEF PageRecord
<1>9. /\ last.tree \in Docs
      /\ last.known # None => last.tree = last.known
      /\ pages[p].unread => last.gen > pages[p].gen
      /\ ~pages[p].unread => last.gen = pages[p].gen
      /\ ~pages[p].unread /\ pages[p].tree # None => last.tree = pages[p].tree
  <2>1. last.tree \in Docs
    BY <1>3, <1>6, <1>7 DEF PageRecord, MaybeDoc
  <2>2. (pages[p].unread => last.gen > pages[p].gen) /\ (~pages[p].unread => last.gen = pages[p].gen)
    BY <1>3, <1>5, <1>7
  <2>3. ~pages[p].unread /\ pages[p].tree # None => last.tree = pages[p].tree
    BY <1>5, <1>6, <1>7
  <2>4. last.known # None => last.tree = last.known
    BY <1>3, <1>4, <1>5, <1>6, <1>7
  <2> QED BY <2>1, <2>2, <2>3, <2>4
<1> HIDE DEF R, last
<1>10. Synced(p) \in [1 .. Len(pages) -> PageRecord] /\ Len(pages) \in Nat
  BY <1>1, <1>8
<1>11. Synced(p) \in Seq(PageRecord) /\ Len(Synced(p)) = Len(pages)
  BY <1>10, ListedInSeq
<1>12. \A q \in 1 .. Len(pages) : Synced(p)[q] = R(q)
  BY <1>1
<1>13. \A q \in 1 .. Len(pages) : pages[q].gen \in Nat
  BY <1>2 DEF PageRecord
<1>14. Synced(p)[p] = last
  BY <1>8, <1>12
<1>15. \A q \in 1 .. Len(pages) :
         /\ Synced(p)[q].client = pages[q].client /\ Synced(p)[q].tab = pages[q].tab
         /\ Synced(p)[q].unread => pages[q].unread
         /\ q # p => /\ Synced(p)[q].gen = pages[q].gen /\ Synced(p)[q].on = pages[q].on
                     /\ Synced(p)[q].known = pages[q].known /\ Synced(p)[q].tree = pages[q].tree
  BY <1>8, <1>12
<1>16. last.gen >= pages[p].gen
  <2>1. last.gen \in Nat /\ pages[p].gen \in Nat
    BY <1>7, <1>13 DEF PageRecord
  <2> QED BY <1>9, <2>1
<1>17. \A q \in 1 .. Len(pages) : Synced(p)[q].gen >= pages[q].gen
  BY <1>13, <1>14, <1>15, <1>16
<1> QED BY <1>7, <1>9, <1>11, <1>14, <1>15, <1>17

\* Dropping the cached session of a controller.
LEMMA WithoutPages ==
    ASSUME pages \in Seq(PageRecord), NEW c, controllers[c].page \in 0 .. Len(pages)
    PROVE  /\ PagesWithout(c) \in Seq(PageRecord) /\ Len(PagesWithout(c)) = Len(pages)
           /\ \A q \in 1 .. Len(pages) :
                 PagesWithout(c)[q] = IF q = controllers[c].page THEN Invalidated(pages[q]) ELSE pages[q]
<1>1. CASE controllers[c].page = 0
  BY <1>1 DEF PagesWithout
<1>2. CASE controllers[c].page # 0
  <2> DEFINE p == controllers[c].page
  <2>1. p \in 1 .. Len(pages) /\ PagesWithout(c) = [pages EXCEPT ![p] = Invalidated(pages[p])]
    BY <1>2 DEF PagesWithout
  <2>2. Invalidated(pages[p]) \in PageRecord
    BY <2>1, InvalidatedTypes
  <2> HIDE DEF p
  <2>3. \A q \in 1 .. Len(pages) :
           PagesWithout(c)[q] = IF q = p THEN Invalidated(pages[q]) ELSE pages[q]
    BY <2>1, <2>2, ReplacedInSeq
  <2>4. PagesWithout(c) \in Seq(PageRecord) /\ Len(PagesWithout(c)) = Len(pages)
    BY <2>1, <2>2, ReplacedInSeq
  <2> QED BY <2>3, <2>4 DEF p
<1> QED BY <1>1, <1>2

-----------------------------------------------------------------------------
(* Any number of tasks.                                                     *)

LEMMA IdleTypes ==
    /\ Idle \in TaskRecord /\ Idle.at = "idle" /\ Idle.asked = None
    /\ Idle.ctl = 0 /\ Idle.client = 0 /\ Idle.page = 0
BY DEF Idle, TaskRecord, Steps, MaybeTab, MaybeDoc

LEMMA MovedTask ==
    ASSUME TypesInv, NEW k \in Tasks, NEW at \in Steps, MoveTo(k, at)
    PROVE  \E w \in TaskRecord :
              /\ task' = [task EXCEPT ![k] = w] /\ w.at = at
              /\ w.asked = task[k].asked /\ w.tab = task[k].tab /\ w.ctl = task[k].ctl
              /\ w.client = task[k].client /\ w.page = task[k].page /\ w.taken = task[k].taken
<1> DEFINE w == [task[k] EXCEPT !.at = at]
<1>1. task[k] \in TaskRecord
  BY DEF TypesInv
<1>2. /\ w \in TaskRecord /\ w.at = at
      /\ w.asked = task[k].asked /\ w.tab = task[k].tab /\ w.ctl = task[k].ctl
      /\ w.client = task[k].client /\ w.page = task[k].page /\ w.taken = task[k].taken
  BY <1>1 DEF TaskRecord
<1>3. task' = [task EXCEPT ![k] = w]
  BY DEF MoveTo
<1> QED BY <1>2, <1>3

\* A step of one task; what is created stays.
LEMMA SoundStep ==
    ASSUME SoundInv, NEW k \in Tasks, NEW w \in TaskRecord, task' = [task EXCEPT ![k] = w],
           Len(controllers') >= Len(controllers), Len(clients') >= Len(clients),
           Len(pages') >= Len(pages),
           BrowserTypes', CacheTypes', PagesInv', task'[k] = w => TaskInv(k)'
    PROVE  SoundInv'
<1>1. /\ task \in [Tasks -> TaskRecord] /\ \A j \in Tasks : TaskInv(j) /\ task[j] \in TaskRecord
      /\ Len(controllers) \in Nat /\ Len(clients) \in Nat /\ Len(pages) \in Nat
      /\ Len(controllers') \in Nat /\ Len(clients') \in Nat /\ Len(pages') \in Nat
  BY DEF SoundInv, TypesInv, CacheTypes
<1>2. task' \in [Tasks -> TaskRecord] /\ task'[k] = w /\ \A j \in Tasks \ {k} : task'[j] = task[j]
  BY <1>1
<1>3. ASSUME NEW j \in Tasks \ {k} PROVE TaskInv(j)'
  <2>1. task[j].ctl \in Nat /\ task[j].client \in Nat /\ task[j].page \in Nat
    BY <1>1 DEF TaskRecord
  <2> QED BY <1>1, <1>2, <1>3, <2>1 DEF TaskInv
<1> QED BY <1>2, <1>3 DEF SoundInv, TypesInv

\* What the invariant says of the task that moves.
LEMMA SoundOf ==
    ASSUME SoundInv, NEW k \in Tasks
    PROVE  /\ BrowserTypes /\ CacheTypes /\ PagesInv /\ TaskInv(k)
           /\ task[k] \in TaskRecord /\ task[k].at \in Steps
           /\ task[k].asked \in Targets \union {None} /\ task[k].tab \in MaybeTab
           /\ task[k].ctl \in 0 .. Len(controllers) /\ task[k].client \in 0 .. Len(clients)
           /\ task[k].page \in 0 .. Len(pages) /\ task[k].taken \in MaybeDoc
           /\ Len(controllers) \in Nat /\ Len(clients) \in Nat /\ Len(pages) \in Nat
<1>1. BrowserTypes /\ CacheTypes /\ PagesInv /\ TaskInv(k) /\ task[k] \in TaskRecord
  BY DEF SoundInv, TypesInv
<1>2. Len(controllers) \in Nat /\ Len(clients) \in Nat /\ Len(pages) \in Nat
  BY <1>1 DEF CacheTypes
<1>3. /\ task[k].at \in Steps
      /\ task[k].asked \in Targets \union {None} /\ task[k].tab \in MaybeTab
      /\ task[k].ctl \in Nat /\ task[k].client \in Nat
      /\ task[k].page \in Nat /\ task[k].taken \in MaybeDoc
  BY <1>1 DEF TaskRecord
<1>4. task[k].ctl <= Len(controllers) /\ task[k].client <= Len(clients) /\ task[k].page <= Len(pages)
  BY <1>1 DEF TaskInv
<1> QED BY <1>1, <1>2, <1>3, <1>4

LEMMA SamePages ==
    ASSUME PagesInv, UNCHANGED pages PROVE PagesInv'
BY DEF PagesInv

LEMMA NewDocumentTypes ==
    ASSUME SoundInv, NEW t \in Tabs, NewDocument(t)
    PROVE  /\ doc' \in [Tabs -> Docs] /\ pages' = Told(t)
           /\ pages' \in Seq(PageRecord) /\ Len(pages') = Len(pages) /\ PagesInv'
           /\ \A p \in 1 .. Len(pages) : pages'[p].client = pages[p].client
<1>1. doc \in [Tabs -> Docs] /\ pages \in Seq(PageRecord) /\ PagesInv
  BY DEF SoundInv, TypesInv, BrowserTypes, CacheTypes
<1>2. MaxDoc \in Nat
  BY CdpAssumption
<1>3. doc' = [doc EXCEPT ![t] = doc[t] + 1] /\ doc[t] < MaxDoc /\ pages' = Told(t)
  BY DEF NewDocument
<1>4. doc[t] \in Nat /\ doc[t] + 1 \in Docs
  BY <1>1, <1>2, <1>3 DEF Docs
<1>5. doc' \in [Tabs -> Docs]
  BY <1>1, <1>3, <1>4
<1>6. /\ pages' \in Seq(PageRecord) /\ Len(pages') = Len(pages)
      /\ \A p \in 1 .. Len(pages) :
            /\ pages'[p].client = pages[p].client
            /\ pages'[p].on = pages[p].on
            /\ pages'[p].known = pages[p].known /\ pages'[p].tree = pages[p].tree
            /\ pages'[p].unread => pages[p].unread \/ pages[p].on
  BY <1>1, <1>3, ToldPages
<1>7. PagesInv'
  BY <1>1, <1>6 DEF PagesInv
<1> QED BY <1>3, <1>5, <1>6, <1>7

\* The pages once the events of one were read.
LEMMA SyncedTypes ==
    ASSUME SoundInv, NEW p \in 1 .. Len(pages), pages' = Synced(p)
    PROVE  /\ pages' \in Seq(PageRecord) /\ Len(pages') = Len(pages) /\ PagesInv'
           /\ \A q \in 1 .. Len(pages) : pages'[q].client = pages[q].client /\ pages'[q].tab = pages[q].tab
           /\ pages'[p].tree \in Docs
<1>1. doc \in [Tabs -> Docs] /\ pages \in Seq(PageRecord) /\ PagesInv
  BY DEF SoundInv, TypesInv, BrowserTypes, CacheTypes
<1>2. /\ pages' \in Seq(PageRecord) /\ Len(pages') = Len(pages)
      /\ \A q \in 1 .. Len(pages) :
            /\ pages'[q].client = pages[q].client /\ pages'[q].tab = pages[q].tab
            /\ pages'[q].unread => pages[q].unread
            /\ q # p => /\ pages'[q].on = pages[q].on
                        /\ pages'[q].known = pages[q].known /\ pages'[q].tree = pages[q].tree
      /\ pages'[p].on /\ ~pages'[p].unread /\ pages'[p].tree \in Docs
      /\ pages'[p].known # None => pages'[p].tree = pages'[p].known
  BY <1>1, SyncedPages
<1>3. PagesInv'
  BY <1>1, <1>2 DEF PagesInv
<1> QED BY <1>2, <1>3

\* A cached session is dropped.
LEMMA WithoutTypes ==
    ASSUME SoundInv, current # 0, pages' = PagesWithout(current)
    PROVE  /\ pages' \in Seq(PageRecord) /\ Len(pages') = Len(pages) /\ PagesInv'
           /\ \A q \in 1 .. Len(pages) :
                 /\ pages'[q].client = pages[q].client /\ pages'[q].tab = pages[q].tab
                 /\ pages'[q] = IF q = Cached THEN Invalidated(pages[q]) ELSE pages[q]
<1>1. /\ pages \in Seq(PageRecord) /\ PagesInv /\ current \in 1 .. Len(controllers)
      /\ controllers \in Seq(ControllerRecord)
      /\ controllers[current].page <= Len(pages)
  BY DEF SoundInv, TypesInv, CacheTypes
<1>2. controllers[current].page \in 0 .. Len(pages)
  <2>1. controllers[current] \in ControllerRecord /\ Len(pages) \in Nat
    BY <1>1
  <2>2. controllers[current].page \in Nat
    BY <2>1 DEF ControllerRecord
  <2> QED BY <1>1, <2>1, <2>2
<1>3. /\ pages' \in Seq(PageRecord) /\ Len(pages') = Len(pages)
      /\ \A q \in 1 .. Len(pages) :
            pages'[q] = IF q = Cached THEN Invalidated(pages[q]) ELSE pages[q]
  BY <1>1, <1>2, WithoutPages DEF Cached
<1>4. \A q \in 1 .. Len(pages) : pages[q] \in PageRecord
  BY <1>1
<1>5. \A q \in 1 .. Len(pages) :
         /\ pages'[q].client = pages[q].client /\ pages'[q].tab = pages[q].tab
         /\ pages'[q].unread = pages[q].unread /\ pages'[q].on = pages[q].on
         /\ \/ pages'[q].known = None /\ pages'[q].tree = None
            \/ pages'[q].known = pages[q].known /\ pages'[q].tree = pages[q].tree
  BY <1>3, <1>4, InvalidatedTypes
<1>6. PagesInv'
  BY <1>1, <1>3, <1>5 DEF PagesInv
<1> QED BY <1>3, <1>5, <1>6

\* A page moves, with or without the program's doing.
LEMMA NavigationsSound ==
    ASSUME SoundInv, PageMove \/ \E k \in Tasks : Navigate(k)
    PROVE  SoundInv'
<1>1. PICK t \in Tabs : NewDocument(t) /\ UNCHANGED <<active, shut, current, controllers, clients, handle>>
                        /\ UNCHANGED <<evaluated, selected>> /\ astray' \in BOOLEAN
  <2>1. active \in Tabs /\ astray \in BOOLEAN
    BY DEF SoundInv, TypesInv, BrowserTypes
  <2> QED BY <2>1 DEF PageMove, Navigate, history
<1>2. /\ doc' \in [Tabs -> Docs]
      /\ pages' \in Seq(PageRecord) /\ Len(pages') = Len(pages) /\ PagesInv'
      /\ \A p \in 1 .. Len(pages) : pages'[p].client = pages[p].client
  BY <1>1, NewDocumentTypes
<1>3. BrowserTypes' /\ CacheTypes'
  BY <1>1, <1>2 DEF SoundInv, TypesInv, BrowserTypes, CacheTypes
<1>4. CASE PageMove
  <2>1. task' = task
    BY <1>4 DEF PageMove
  <2> QED BY <1>1, <1>2, <1>3, <2>1 DEF SoundInv, TypesInv, TaskInv
<1>5. CASE \E k \in Tasks : Navigate(k)
  <2>1. PICK k \in Tasks : Navigate(k)
    BY <1>5
  <2>2. PICK w \in TaskRecord :
              /\ task' = [task EXCEPT ![k] = w] /\ w.at = "answered"
              /\ w.ctl = task[k].ctl /\ w.client = task[k].client /\ w.page = task[k].page
    <3>1. MoveTo(k, "answered") /\ "answered" \in Steps
      BY <2>1 DEF Navigate, Steps
    <3> QED BY <3>1, MovedTask DEF SoundInv
  <2>3. task'[k] = w => TaskInv(k)'
    BY <1>1, <1>2, <2>2 DEF SoundInv, TypesInv, TaskInv
  <2>4. Len(controllers) \in Nat /\ Len(clients) \in Nat /\ Len(pages) \in Nat
    BY SoundOf, <2>1
  <2>5. /\ Len(controllers') >= Len(controllers) /\ Len(clients') >= Len(clients)
        /\ Len(pages') >= Len(pages)
    BY <1>1, <1>2, <2>4
  <2> QED BY <1>2, <1>3, <2>2, <2>3, <2>5, SoundStep
<1> QED BY <1>4, <1>5

\* Steps that create and change nothing but the task, or the active tab.
LEMMA TaskStepsSound ==
    ASSUME SoundInv, NEW k \in Tasks,
           Switch(k) \/ FetchTarget(k) \/ UseFrame(k) \/ Fail(k)
    PROVE  SoundInv'
<1>1. /\ BrowserTypes /\ CacheTypes /\ PagesInv /\ TaskInv(k)
      /\ task[k] \in TaskRecord /\ task[k].at \in Steps
      /\ task[k].asked \in Targets \union {None} /\ task[k].tab \in MaybeTab
      /\ task[k].ctl \in 0 .. Len(controllers) /\ task[k].client \in 0 .. Len(clients)
      /\ task[k].page \in 0 .. Len(pages) /\ task[k].taken \in MaybeDoc
      /\ Len(controllers) \in Nat /\ Len(clients) \in Nat /\ Len(pages) \in Nat
  BY SoundOf
<1>2. /\ UNCHANGED <<cache, handle, history, doc, shut>> /\ active' \in Tabs
  BY <1>1 DEF Switch, FetchTarget, UseFrame, Fail, browser, BrowserTypes
<1>3. BrowserTypes' /\ CacheTypes' /\ PagesInv'
      /\ UNCHANGED <<controllers, clients, pages>>
  BY <1>1, <1>2 DEF BrowserTypes, CacheTypes, PagesInv, cache, history
<1>4. \E w \in TaskRecord : task' = [task EXCEPT ![k] = w] /\ (task'[k] = w => TaskInv(k)')
  <2>1. CASE Switch(k)
    <3>1. MoveTo(k, "answered") /\ "answered" \in Steps
      BY <2>1 DEF Switch, Steps
    <3>2. PICK w \in TaskRecord :
              /\ task' = [task EXCEPT ![k] = w] /\ w.at = "answered"
              /\ w.ctl = task[k].ctl /\ w.client = task[k].client /\ w.page = task[k].page
      BY <3>1, MovedTask DEF SoundInv
    <3> QED BY <1>1, <1>3, <3>2 DEF TaskInv
  <2>2. CASE FetchTarget(k)
    <3> DEFINE tab == Resolved(task[k].asked)
               p == controllers[task[k].ctl].page
               have == [task[k] EXCEPT !.at = "have", !.tab = tab, !.page = p]
               attach == [task[k] EXCEPT !.at = "attach", !.tab = tab]
    <3>1. /\ task[k].at = "resolve"
          /\ task' = [task EXCEPT ![k] = IF p # 0 /\ pages[p].tab = tab THEN have ELSE attach]
      BY <2>2 DEF FetchTarget
    <3>2. tab \in Tabs /\ tab \in MaybeTab /\ task[k].ctl > 0 /\ task[k].client > 0
      BY <1>1, <3>1, CdpAssumption DEF Resolved, TaskInv, BrowserTypes, MaybeTab
    <3>3. p \in 0 .. Len(pages)
      <4>1. task[k].ctl \in 1 .. Len(controllers)
        BY <1>1, <3>2
      <4>2. controllers[task[k].ctl] \in ControllerRecord /\ p <= Len(pages)
        BY <1>1, <4>1 DEF CacheTypes
      <4> QED BY <1>1, <4>2 DEF ControllerRecord
    <3> HIDE DEF tab, p
    <3>9. "have" \in Steps /\ "attach" \in Steps
      BY DEF Steps
    <3>10. p \in Nat /\ task[k] \in TaskRecord
      BY <1>1, <3>3
    <3>4. /\ have \in TaskRecord /\ have.at = "have" /\ have.page = p
          /\ have.ctl = task[k].ctl /\ have.client = task[k].client
      BY <3>2, <3>9, <3>10 DEF TaskRecord
    <3>5. /\ attach \in TaskRecord /\ attach.at = "attach" /\ attach.page = task[k].page
          /\ attach.ctl = task[k].ctl /\ attach.client = task[k].client /\ attach.tab = tab
      BY <1>1, <3>2, <3>9 DEF TaskRecord
    <3> HIDE DEF have, attach
    <3>6. CASE task' = [task EXCEPT ![k] = have]
      <4>1. task'[k] = have => TaskInv(k)'
        BY <1>1, <1>3, <3>2, <3>3, <3>4 DEF TaskInv
      <4> QED BY <3>4, <3>6, <4>1
    <3>7. CASE task' = [task EXCEPT ![k] = attach]
      <4>1. task'[k] = attach => TaskInv(k)'
        BY <1>1, <1>3, <3>2, <3>5 DEF TaskInv
      <4> QED BY <3>5, <3>7, <4>1
    <3> QED BY <3>1, <3>6, <3>7
  <2>3. CASE UseFrame(k)
    <3> DEFINE w == [task[k] EXCEPT !.at = "checked", !.page = handle.page, !.taken = handle.taken]
    <3>1. /\ handle.page \in 1 .. Len(pages) /\ handle.taken \in Docs /\ handle.taken \in MaybeDoc
          /\ handle.page \in Nat /\ "checked" \in Steps
      BY <1>1, <2>3 DEF UseFrame, CacheTypes, Steps, MaybeDoc
    <3>2. /\ w \in TaskRecord /\ w.at = "checked" /\ w.page = handle.page /\ w.taken = handle.taken
          /\ w.ctl = task[k].ctl /\ w.client = task[k].client
      BY <1>1, <3>1 DEF TaskRecord
    <3>3. task' = [task EXCEPT ![k] = w]
      BY <2>3 DEF UseFrame
    <3> HIDE DEF w
    <3>4. task'[k] = w => TaskInv(k)'
      BY <1>1, <1>3, <3>1, <3>2 DEF TaskInv
    <3> QED BY <3>2, <3>3, <3>4
  <2>4. CASE Fail(k)
    <3>1. task' = [task EXCEPT ![k] = Idle]
      BY <2>4 DEF Fail, Return
    <3>2. task'[k] = Idle => TaskInv(k)'
      BY <1>1, <1>3, IdleTypes DEF TaskInv
    <3> QED BY <3>1, <3>2, IdleTypes
  <2> QED BY <2>1, <2>2, <2>3, <2>4
<1>5. /\ Len(controllers') >= Len(controllers) /\ Len(clients') >= Len(clients)
      /\ Len(pages') >= Len(pages)
  BY <1>1, <1>3
<1> QED BY <1>3, <1>4, <1>5, SoundStep

LEMMA ControllerAt ==
    ASSUME CacheTypes, NEW c \in 1 .. Len(controllers)
    PROVE  /\ controllers[c] \in ControllerRecord /\ controllers[c].closed \in BOOLEAN
           /\ controllers[c].client \in 0 .. Len(clients) /\ controllers[c].page \in 0 .. Len(pages)
<1>1. controllers[c] \in ControllerRecord /\ Len(clients) \in Nat /\ Len(pages) \in Nat
  BY DEF CacheTypes
<1>2. controllers[c].closed \in BOOLEAN /\ controllers[c].client \in Nat /\ controllers[c].page \in Nat
  BY <1>1 DEF ControllerRecord
<1> QED BY <1>1, <1>2 DEF CacheTypes

LEMMA OneController ==
    ASSUME CacheTypes, NEW c \in 1 .. Len(controllers), NEW r \in ControllerRecord,
           controllers' = [controllers EXCEPT ![c] = r]
    PROVE  /\ controllers' \in Seq(ControllerRecord) /\ Len(controllers') = Len(controllers)
           /\ controllers'[c] = r
           /\ \A j \in 1 .. Len(controllers) : j # c =>
                 /\ controllers'[j] = controllers[j]
                 /\ controllers'[j].client \in 0 .. Len(clients)
                 /\ controllers'[j].page \in 0 .. Len(pages)
<1>1. controllers \in Seq(ControllerRecord)
  BY DEF CacheTypes
<1>2. /\ controllers' \in Seq(ControllerRecord) /\ Len(controllers') = Len(controllers)
      /\ controllers'[c] = r
      /\ \A j \in 1 .. Len(controllers) : j # c => controllers'[j] = controllers[j]
  BY <1>1, ReplacedInSeq
<1>3. \A j \in 1 .. Len(controllers) :
         controllers[j].client \in 0 .. Len(clients) /\ controllers[j].page \in 0 .. Len(pages)
  BY ControllerAt
<1> QED BY <1>2, <1>3

LEMMA ForgottenTypes ==
    ASSUME NEW c \in ControllerRecord
    PROVE  /\ Forgotten(c) \in ControllerRecord /\ Forgotten(c).page = 0
           /\ Forgotten(c).client = c.client /\ Forgotten(c).closed = c.closed
BY DEF Forgotten, ControllerRecord

\* The answer of a native command.
LEMMA LandedSound ==
    ASSUME SoundInv, NEW k \in Tasks, Landed(k)
    PROVE  SoundInv'
<1>1. /\ BrowserTypes /\ CacheTypes /\ PagesInv /\ TaskInv(k)
      /\ Len(controllers) \in Nat /\ Len(clients) \in Nat /\ Len(pages) \in Nat
  BY SoundOf
<1>2. /\ UNCHANGED <<active, doc, shut, current, clients, handle, evaluated, astray>>
      /\ selected' = FALSE
      /\ task' = [task EXCEPT ![k] = Idle]
  BY DEF Landed, Return, browser
<1>3. BrowserTypes'
  BY <1>1, <1>2 DEF BrowserTypes
<1>4. CASE UNCHANGED <<controllers, pages>>
  <2>1. CacheTypes' /\ PagesInv' /\ (task'[k] = Idle => TaskInv(k)')
    BY <1>1, <1>2, <1>4, IdleTypes DEF CacheTypes, PagesInv, TaskInv
  <2>2. /\ Len(controllers') >= Len(controllers) /\ Len(clients') >= Len(clients)
        /\ Len(pages') >= Len(pages)
    BY <1>1, <1>2, <1>4
  <2> QED BY <1>2, <1>3, <2>1, <2>2, IdleTypes, SoundStep
<1>5. CASE /\ current # 0 /\ pages' = PagesWithout(current)
           /\ controllers' = [controllers EXCEPT ![current] = Forgotten(controllers[current])]
  <2>1. /\ pages' \in Seq(PageRecord) /\ Len(pages') = Len(pages) /\ PagesInv'
        /\ \A q \in 1 .. Len(pages) : pages'[q].client = pages[q].client
    BY <1>5, WithoutTypes
  <2>2. current \in 1 .. Len(controllers)
    BY <1>1, <1>5 DEF CacheTypes
  <2>3. /\ Forgotten(controllers[current]) \in ControllerRecord
        /\ Forgotten(controllers[current]).client <= Len(clients)
        /\ Forgotten(controllers[current]).page <= Len(pages)
    BY <1>1, <2>2, ControllerAt, ForgottenTypes
  <2>4. /\ controllers' \in Seq(ControllerRecord) /\ Len(controllers') = Len(controllers)
        /\ \A j \in 1 .. Len(controllers) :
              controllers'[j].client <= Len(clients) /\ controllers'[j].page <= Len(pages)
    <3>1. /\ controllers' \in Seq(ControllerRecord) /\ Len(controllers') = Len(controllers)
          /\ controllers'[current] = Forgotten(controllers[current])
          /\ \A j \in 1 .. Len(controllers) : j # current =>
                /\ controllers'[j].client \in 0 .. Len(clients)
                /\ controllers'[j].page \in 0 .. Len(pages)
      BY <1>1, <1>5, <2>2, <2>3, OneController
    <3> QED BY <1>1, <2>3, <3>1
  <2>5. CacheTypes'
    BY <1>1, <1>2, <2>1, <2>4 DEF CacheTypes
  <2>6. /\ Len(controllers') >= Len(controllers) /\ Len(clients') >= Len(clients)
        /\ Len(pages') >= Len(pages)
    BY <1>1, <1>2, <2>1, <2>4
  <2>7. task'[k] = Idle => TaskInv(k)'
    BY <1>1, <1>2, <2>1, <2>4, IdleTypes DEF TaskInv
  <2> QED BY <1>2, <1>3, <2>1, <2>5, <2>6, <2>7, IdleTypes, SoundStep
<1> QED BY <1>4, <1>5 DEF Landed

\* A launch, or a close.
LEMMA ResetsSound ==
    ASSUME SoundInv, NEW k \in Tasks, Reset(k) \/ ResetEnd(k)
    PROVE  SoundInv'
<1>1. /\ BrowserTypes /\ CacheTypes /\ PagesInv /\ TaskInv(k)
      /\ Len(controllers) \in Nat /\ Len(clients) \in Nat /\ Len(pages) \in Nat
  BY SoundOf
<1>2. CASE ResetEnd(k)
  <2> DEFINE c == task[k].ctl
             r == [controllers[c] EXCEPT !.client = 0]
  <2>1. /\ UNCHANGED <<active, doc, shut, clients, pages, handle, evaluated, selected, astray>>
        /\ current' = 0
        /\ controllers' = [controllers EXCEPT ![c] = r]
        /\ task' = [task EXCEPT ![k] = Idle] /\ task[k].at = "resetting"
    BY <1>2 DEF ResetEnd, Return, browser, history
  <2>2. c \in 1 .. Len(controllers)
    <3>1. task[k].ctl \in 0 .. Len(controllers)
      BY SoundOf
    <3> QED BY <1>1, <2>1, <3>1 DEF TaskInv
  <2>3. r \in ControllerRecord /\ r.client <= Len(clients) /\ r.page <= Len(pages)
    <3>1. controllers[c] \in ControllerRecord /\ controllers[c].page \in 0 .. Len(pages)
      BY <1>1, <2>2, ControllerAt
    <3>2. r \in ControllerRecord /\ r.client = 0 /\ r.page = controllers[c].page
      BY <3>1 DEF ControllerRecord
    <3> QED BY <1>1, <3>1, <3>2
  <2> HIDE DEF c, r
  <2>4. /\ controllers' \in Seq(ControllerRecord) /\ Len(controllers') = Len(controllers)
        /\ \A j \in 1 .. Len(controllers) :
              controllers'[j].client <= Len(clients) /\ controllers'[j].page <= Len(pages)
    <3>1. /\ controllers' \in Seq(ControllerRecord) /\ Len(controllers') = Len(controllers)
          /\ controllers'[c] = r
          /\ \A j \in 1 .. Len(controllers) : j # c =>
                /\ controllers'[j].client \in 0 .. Len(clients)
                /\ controllers'[j].page \in 0 .. Len(pages)
      BY <1>1, <2>1, <2>2, <2>3, OneController
    <3> QED BY <1>1, <2>3, <3>1
  <2>5. BrowserTypes' /\ CacheTypes' /\ PagesInv'
    BY <1>1, <2>1, <2>4 DEF BrowserTypes, CacheTypes, PagesInv
  <2>6. /\ Len(controllers') >= Len(controllers) /\ Len(clients') >= Len(clients)
        /\ Len(pages') >= Len(pages)
    BY <1>1, <2>1, <2>4
  <2>7. task'[k] = Idle => TaskInv(k)'
    BY <1>1, <2>1, <2>4, IdleTypes DEF TaskInv
  <2> QED BY <2>1, <2>5, <2>6, <2>7, IdleTypes, SoundStep
<1>3. CASE Reset(k)
  <2>1. /\ UNCHANGED <<active, doc, handle, evaluated, astray>>
        /\ shut' \in BOOLEAN /\ selected' = FALSE
    BY <1>3 DEF Reset
  <2>2. BrowserTypes'
    BY <1>1, <2>1 DEF BrowserTypes
  <2>3. CASE current = 0
    <3>1. UNCHANGED <<current, controllers, clients, pages, task>>
      BY <1>3, <2>3 DEF Reset, cache
    <3> QED BY <1>1, <2>1, <2>2, <3>1 DEF SoundInv, TypesInv, CacheTypes, PagesInv, TaskInv
  <2>4. CASE current # 0
    <3> DEFINE own == controllers[current]
               keeps == IF Waits(current) THEN own.client ELSE 0
               r == [Forgotten(own) EXCEPT !.closed = TRUE, !.client = keeps]
    <3>1. /\ pages' = PagesWithout(current) /\ clients' = ClientsWithout(current)
          /\ controllers' = [controllers EXCEPT ![current] = r]
          /\ Waits(current) \/ (current' = 0 /\ task' = task)
          /\ ~Waits(current) \/ /\ current' = current
                                /\ task' = [task EXCEPT ![k].at = "resetting", ![k].ctl = current]
      BY <1>3, <2>4 DEF Reset
    <3>2. current \in 1 .. Len(controllers)
      BY <1>1, <2>4 DEF CacheTypes
    <3>3. /\ pages' \in Seq(PageRecord) /\ Len(pages') = Len(pages) /\ PagesInv'
          /\ \A q \in 1 .. Len(pages) : pages'[q].client = pages[q].client
      BY <2>4, <3>1, WithoutTypes
    <3>4. own \in ControllerRecord /\ own.client \in 0 .. Len(clients)
      BY <1>1, <3>2, ControllerAt
    <3>5. clients' \in Seq({"new", "open", "closed"}) /\ Len(clients') = Len(clients)
      <4>1. clients \in Seq({"new", "open", "closed"})
        BY <1>1 DEF CacheTypes
      <4>2. CASE own.client = 0
        BY <3>1, <4>1, <4>2 DEF ClientsWithout
      <4>3. CASE own.client # 0
        <5>1. clients' = [clients EXCEPT ![own.client] = "closed"] /\ own.client \in 1 .. Len(clients)
          BY <1>1, <3>1, <3>4, <4>3 DEF ClientsWithout
        <5> QED BY <4>1, <5>1, ReplacedInSeq
      <4> QED BY <4>2, <4>3
    <3>6. r \in ControllerRecord /\ r.client <= Len(clients) /\ r.page <= Len(pages)
      <4>1. keeps \in Nat /\ keeps <= Len(clients)
        BY <1>1, <3>4
      <4>2. Forgotten(own) \in ControllerRecord /\ Forgotten(own).page = 0
        BY <3>4, ForgottenTypes
      <4> HIDE DEF keeps, own
      <4>3. r \in ControllerRecord /\ r.client = keeps /\ r.page = 0
        BY <4>1, <4>2 DEF ControllerRecord
      <4> QED BY <1>1, <4>1, <4>3
    <3> HIDE DEF r, keeps, own
    <3>7. /\ controllers' \in Seq(ControllerRecord) /\ Len(controllers') = Len(controllers)
          /\ \A j \in 1 .. Len(controllers) :
                controllers'[j].client <= Len(clients) /\ controllers'[j].page <= Len(pages)
      <4>1. /\ controllers' \in Seq(ControllerRecord) /\ Len(controllers') = Len(controllers)
            /\ controllers'[current] = r
            /\ \A j \in 1 .. Len(controllers) : j # current =>
                  /\ controllers'[j].client \in 0 .. Len(clients)
                  /\ controllers'[j].page \in 0 .. Len(pages)
        BY <1>1, <3>1, <3>2, <3>6, OneController
      <4> QED BY <1>1, <3>6, <4>1
    <3>8. CacheTypes'
      BY <1>1, <2>1, <3>1, <3>3, <3>5, <3>7 DEF CacheTypes
    <3>9. /\ Len(controllers') >= Len(controllers) /\ Len(clients') >= Len(clients)
          /\ Len(pages') >= Len(pages)
      BY <1>1, <3>3, <3>5, <3>7
    <3>10. CASE task' = task
      BY <2>2, <3>3, <3>5, <3>7, <3>8, <3>10 DEF SoundInv, TypesInv, TaskInv
    <3>11. CASE task' = [task EXCEPT ![k].at = "resetting", ![k].ctl = current]
      <4> DEFINE w == [task[k] EXCEPT !.at = "resetting", !.ctl = current]
      <4>1. task[k] \in TaskRecord /\ current \in Nat /\ "resetting" \in Steps
        BY <1>1, SoundOf DEF CacheTypes, Steps
      <4>2. /\ w \in TaskRecord /\ w.at = "resetting" /\ w.ctl = current
            /\ w.client = task[k].client /\ w.page = task[k].page
        BY <4>1 DEF TaskRecord
      <4>3. task' = [task EXCEPT ![k] = w]
        BY <3>11
      <4> HIDE DEF w
      <4>4. task'[k] = w => TaskInv(k)'
        BY <1>1, <3>2, <3>3, <3>5, <3>7, <4>2 DEF TaskInv
      <4> QED BY <2>2, <3>3, <3>8, <3>9, <4>2, <4>3, <4>4, SoundStep
    <3> QED BY <3>1, <3>10, <3>11
  <2> QED BY <2>3, <2>4
<1> QED BY <1>2, <1>3

\* Looking for a page session; a controller, a client, a session is created.
LEMMA FetchStartSound ==
    ASSUME SoundInv, NEW k \in Tasks, NEW asked \in Targets \union {None}, FetchStart(k, asked)
    PROVE  SoundInv'
<1>1. /\ BrowserTypes /\ CacheTypes /\ PagesInv /\ TaskInv(k)
      /\ Len(controllers) \in Nat /\ Len(clients) \in Nat /\ Len(pages) \in Nat
  BY SoundOf
<1> DEFINE c == CurrentOr(Len(controllers) + 1)
           all == IF current = 0 THEN Append(controllers, Empty) ELSE controllers
           own == all[c]
<1>2. /\ UNCHANGED <<active, doc, shut, clients, pages, handle, evaluated>>
      /\ current' = c /\ controllers' = all
      /\ selected' = (selected \/ asked # None) /\ astray' = (astray \/ asked # None)
      /\ task' = [task EXCEPT ![k] =
             IF FromCache(own, asked)
             THEN [Idle EXCEPT !.at = "have", !.asked = asked, !.page = own.page]
             ELSE IF own.client # 0
             THEN [Idle EXCEPT !.at = "list", !.asked = asked, !.ctl = c, !.client = own.client]
             ELSE IF shut THEN Idle
             ELSE [Idle EXCEPT !.at = "connect", !.asked = asked, !.ctl = c]]
  BY DEF FetchStart, browser
<1>3. /\ controllers' \in Seq(ControllerRecord) /\ c \in 1 .. Len(controllers')
      /\ Len(controllers') >= Len(controllers)
      /\ \A j \in 1 .. Len(controllers') :
            controllers'[j].client <= Len(clients) /\ controllers'[j].page <= Len(pages)
  <2>1. CASE current = 0
    <3>1. controllers' = Append(controllers, Empty) /\ c = Len(controllers) + 1
      BY <1>2, <2>1 DEF CurrentOr
    <3>2. Empty \in ControllerRecord /\ Empty.client = 0 /\ Empty.page = 0
      BY DEF Empty, ControllerRecord
    <3>3. controllers \in Seq(ControllerRecord)
      BY <1>1 DEF CacheTypes
    <3>4. /\ controllers' \in Seq(ControllerRecord) /\ Len(controllers') = Len(controllers) + 1
          /\ controllers'[Len(controllers) + 1] = Empty
          /\ \A j \in 1 .. Len(controllers) : controllers'[j] = controllers[j]
      BY <3>1, <3>2, <3>3
    <3>5. \A j \in 1 .. Len(controllers) :
             controllers[j].client <= Len(clients) /\ controllers[j].page <= Len(pages)
      BY <1>1 DEF CacheTypes
    <3> QED BY <1>1, <3>1, <3>2, <3>4, <3>5
  <2>2. CASE current # 0
    BY <1>1, <1>2, <2>2 DEF CacheTypes, CurrentOr
  <2> QED BY <2>1, <2>2
<1> HIDE DEF all, c
<1>4. /\ own \in ControllerRecord /\ own.client \in Nat /\ own.client <= Len(clients)
      /\ own.page \in Nat /\ own.page <= Len(pages)
  <2>1. own \in ControllerRecord /\ own.client <= Len(clients) /\ own.page <= Len(pages)
    BY <1>2, <1>3
  <2> QED BY <2>1 DEF ControllerRecord
<1> HIDE DEF own
<1>5. BrowserTypes' /\ CacheTypes' /\ PagesInv'
  BY <1>1, <1>2, <1>3 DEF BrowserTypes, CacheTypes, PagesInv
<1>6. c \in Nat /\ {"have", "list", "connect"} \subseteq Steps
  BY <1>3 DEF Steps
<1> DEFINE have == [Idle EXCEPT !.at = "have", !.asked = asked, !.page = own.page]
           list == [Idle EXCEPT !.at = "list", !.asked = asked, !.ctl = c, !.client = own.client]
           connect == [Idle EXCEPT !.at = "connect", !.asked = asked, !.ctl = c]
<1>7. have \in TaskRecord /\ have.at = "have" /\ have.ctl = 0 /\ have.client = 0 /\ have.page = own.page
  BY <1>4, <1>6, IdleTypes DEF TaskRecord
<1>8. list \in TaskRecord /\ list.at = "list" /\ list.ctl = c /\ list.client = own.client /\ list.page = 0
  BY <1>4, <1>6, IdleTypes DEF TaskRecord
<1>9. connect \in TaskRecord /\ connect.at = "connect" /\ connect.ctl = c /\ connect.client = 0
      /\ connect.page = 0
  BY <1>6, IdleTypes DEF TaskRecord
<1>10. \/ task' = [task EXCEPT ![k] = have]
       \/ task' = [task EXCEPT ![k] = list] /\ own.client # 0
       \/ task' = [task EXCEPT ![k] = Idle]
       \/ task' = [task EXCEPT ![k] = connect]
  BY <1>2
<1> HIDE DEF have, list, connect
<1>11. /\ Len(clients') >= Len(clients) /\ Len(pages') >= Len(pages)
       /\ Len(controllers') >= Len(controllers) /\ Len(controllers') \in Nat
       /\ clients' = clients /\ pages' = pages /\ c <= Len(controllers') /\ c > 0
  BY <1>1, <1>2, <1>3
<1>12. CASE task' = [task EXCEPT ![k] = have]
  <2>1. task'[k] = have => TaskInv(k)'
    BY <1>1, <1>4, <1>7, <1>11 DEF TaskInv
  <2> QED BY <1>5, <1>7, <1>11, <1>12, <2>1, SoundStep
<1>13. CASE task' = [task EXCEPT ![k] = list] /\ own.client # 0
  <2>1. task'[k] = list => TaskInv(k)'
    BY <1>1, <1>4, <1>6, <1>8, <1>11, <1>13 DEF TaskInv
  <2> QED BY <1>5, <1>8, <1>11, <1>13, <2>1, SoundStep
<1>14. CASE task' = [task EXCEPT ![k] = Idle]
  <2>1. task'[k] = Idle => TaskInv(k)'
    BY <1>1, <1>11, IdleTypes DEF TaskInv
  <2> QED BY <1>5, <1>11, <1>14, <2>1, IdleTypes, SoundStep
<1>15. CASE task' = [task EXCEPT ![k] = connect]
  <2>1. task'[k] = connect => TaskInv(k)'
    BY <1>1, <1>6, <1>9, <1>11 DEF TaskInv
  <2> QED BY <1>5, <1>9, <1>11, <1>15, <2>1, SoundStep
<1> QED BY <1>10, <1>12, <1>13, <1>14, <1>15

LEMMA ClientsSound ==
    ASSUME SoundInv, NEW k \in Tasks, FetchClient(k) \/ FetchTargets(k)
    PROVE  SoundInv'
<1>1. /\ BrowserTypes /\ CacheTypes /\ PagesInv /\ TaskInv(k) /\ task[k] \in TaskRecord
      /\ task[k].ctl \in 0 .. Len(controllers) /\ task[k].client \in 0 .. Len(clients)
      /\ task[k].page \in 0 .. Len(pages)
      /\ Len(controllers) \in Nat /\ Len(clients) \in Nat /\ Len(pages) \in Nat
  BY SoundOf
<1>2. /\ clients \in Seq({"new", "open", "closed"})
  BY <1>1 DEF CacheTypes
<1>3. CASE FetchClient(k)
  <2> DEFINE c == task[k].ctl
             n == Len(clients) + 1
             r == [controllers[c] EXCEPT !.client = n]
             w == [task[k] EXCEPT !.at = "list", !.client = n]
  <2>1. /\ UNCHANGED <<active, doc, shut, current, pages, handle, evaluated, selected, astray>>
        /\ task[k].at = "connect"
        /\ clients' = Append(clients, "new")
        /\ controllers' = [controllers EXCEPT ![c] = r]
        /\ task' = [task EXCEPT ![k] = w]
    BY <1>3 DEF FetchClient, browser, history
  <2>2. c \in 1 .. Len(controllers) /\ n \in Nat
    BY <1>1, <2>1 DEF TaskInv
  <2>3. clients' \in Seq({"new", "open", "closed"}) /\ Len(clients') = n
    BY <1>2, <2>1
  <2>4. r \in ControllerRecord /\ r.client = n /\ r.page <= Len(pages)
    <3>1. controllers[c] \in ControllerRecord /\ controllers[c].page \in 0 .. Len(pages)
      BY <1>1, <2>2, ControllerAt
    <3> HIDE DEF n
    <3>2. r \in ControllerRecord /\ r.client = n /\ r.page = controllers[c].page
      BY <2>2, <3>1 DEF ControllerRecord
    <3> QED BY <1>1, <3>1, <3>2
  <2>5. /\ w \in TaskRecord /\ w.at = "list" /\ w.client = n
        /\ w.ctl = task[k].ctl /\ w.page = task[k].page
    <3>1. "list" \in Steps
      BY DEF Steps
    <3> HIDE DEF n
    <3> QED BY <1>1, <2>2, <3>1 DEF TaskRecord
  <2> HIDE DEF r, w, c
  <2>6. /\ controllers' \in Seq(ControllerRecord) /\ Len(controllers') = Len(controllers)
        /\ controllers'[c] = r
        /\ \A j \in 1 .. Len(controllers) : j # c =>
              /\ controllers'[j].client \in 0 .. Len(clients)
              /\ controllers'[j].page \in 0 .. Len(pages)
    BY <1>1, <2>1, <2>2, <2>4, OneController
  <2>7. \A j \in 1 .. Len(controllers) : controllers'[j].client <= n /\ controllers'[j].page <= Len(pages)
    BY <1>1, <2>4, <2>6
  <2>8. \A p \in 1 .. Len(pages) : pages[p].client \in 1 .. n
    BY <1>1 DEF CacheTypes
  <2>9. /\ Len(controllers') >= Len(controllers) /\ Len(clients') >= Len(clients)
        /\ Len(pages') >= Len(pages)
    BY <1>1, <2>1, <2>3, <2>6
  <2>10. task'[k] = w => TaskInv(k)'
    BY <1>1, <2>1, <2>2, <2>3, <2>5, <2>6, <2>9 DEF TaskInv, c
  <2> HIDE DEF n
  <2>11. BrowserTypes' /\ CacheTypes' /\ PagesInv'
    BY <1>1, <2>1, <2>3, <2>6, <2>7, <2>8 DEF BrowserTypes, CacheTypes, PagesInv
  <2> QED BY <2>1, <2>5, <2>9, <2>10, <2>11, SoundStep
<1>4. CASE FetchTargets(k)
  <2> DEFINE n == task[k].client
  <2>1. /\ UNCHANGED <<active, doc, shut, current, controllers, pages, handle, evaluated, selected, astray>>
        /\ task[k].at = "list"
        /\ clients' = [clients EXCEPT ![n] = "open"]
        /\ task' = [task EXCEPT ![k] = Idle] \/ MoveTo(k, "resolve")
    BY <1>4 DEF FetchTargets, browser, history, Return
  <2>2. n \in 1 .. Len(clients)
    BY <1>1, <2>1 DEF TaskInv
  <2>3. clients' \in Seq({"new", "open", "closed"}) /\ Len(clients') = Len(clients)
    BY <1>2, <2>1, <2>2, ReplacedInSeq
  <2>4. BrowserTypes' /\ CacheTypes' /\ PagesInv'
    BY <1>1, <2>1, <2>3 DEF BrowserTypes, CacheTypes, PagesInv
  <2>5. /\ Len(controllers') >= Len(controllers) /\ Len(clients') >= Len(clients)
        /\ Len(pages') >= Len(pages)
    BY <1>1, <2>1, <2>3
  <2>6. CASE task' = [task EXCEPT ![k] = Idle]
    <3>1. task'[k] = Idle => TaskInv(k)'
      BY <1>1, <2>5, IdleTypes DEF TaskInv
    <3> QED BY <2>4, <2>5, <2>6, <3>1, IdleTypes, SoundStep
  <2>7. CASE MoveTo(k, "resolve")
    <3>1. "resolve" \in Steps
      BY DEF Steps
    <3>2. PICK w \in TaskRecord :
              /\ task' = [task EXCEPT ![k] = w] /\ w.at = "resolve"
              /\ w.ctl = task[k].ctl /\ w.client = task[k].client /\ w.page = task[k].page
      BY <2>7, <3>1, MovedTask DEF SoundInv
    <3>3. task'[k] = w => TaskInv(k)'
      BY <1>1, <2>1, <2>3, <3>2 DEF TaskInv
    <3> QED BY <2>4, <2>5, <3>2, <3>3, SoundStep
  <2> QED BY <2>1, <2>6, <2>7
<1> QED BY <1>3, <1>4

LEMMA AttachSound ==
    ASSUME SoundInv, NEW k \in Tasks, FetchAttach(k)
    PROVE  SoundInv'
<1>1. /\ BrowserTypes /\ CacheTypes /\ PagesInv /\ TaskInv(k) /\ task[k] \in TaskRecord
      /\ task[k].ctl \in 0 .. Len(controllers) /\ task[k].client \in 0 .. Len(clients)
      /\ task[k].page \in 0 .. Len(pages)
      /\ Len(controllers) \in Nat /\ Len(clients) \in Nat /\ Len(pages) \in Nat
  BY SoundOf
<1> DEFINE c == task[k].ctl
           p == Len(pages) + 1
           new == Attached(task[k].client, task[k].tab)
           r == [controllers[c] EXCEPT !.page = p]
           w == [task[k] EXCEPT !.at = "enable", !.page = p]
<1>2. /\ UNCHANGED <<active, doc, shut, current, clients, handle, evaluated, selected, astray>>
      /\ task[k].at = "attach"
      /\ pages' = Append(pages, new)
      /\ controllers' = [controllers EXCEPT ![c] = r]
      /\ task' = [task EXCEPT ![k] = w]
  BY DEF FetchAttach, browser, history
<1>3. /\ c \in 1 .. Len(controllers) /\ p \in Nat
      /\ task[k].client \in 1 .. Len(clients) /\ task[k].tab \in Tabs
  BY <1>1, <1>2 DEF TaskInv
<1>4. /\ new \in PageRecord /\ new.client = task[k].client /\ new.tab = task[k].tab
      /\ new.known = None /\ new.tree = None /\ ~new.on /\ ~new.unread
  <2>1. None \in MaybeDoc /\ task[k].client \in Nat
    BY <1>3 DEF MaybeDoc
  <2> QED BY <1>3, <2>1 DEF Attached, PageRecord
<1>5. r \in ControllerRecord /\ r.page = p /\ r.client \in 0 .. Len(clients)
  <2>1. controllers[c] \in ControllerRecord /\ controllers[c].client \in 0 .. Len(clients)
    BY <1>1, <1>3, ControllerAt
  <2> HIDE DEF p
  <2>2. r \in ControllerRecord /\ r.page = p /\ r.client = controllers[c].client
    BY <1>3, <2>1 DEF ControllerRecord
  <2> QED BY <1>1, <2>1, <2>2
<1>6. /\ w \in TaskRecord /\ w.at = "enable" /\ w.page = p
      /\ w.ctl = task[k].ctl /\ w.client = task[k].client
  <2>1. "enable" \in Steps
    BY DEF Steps
  <2> HIDE DEF p
  <2> QED BY <1>1, <1>3, <2>1 DEF TaskRecord
<1> HIDE DEF r, w, c, new
<1>7. /\ pages' \in Seq(PageRecord) /\ Len(pages') = p /\ pages'[p] = new
      /\ \A q \in 1 .. Len(pages) : pages'[q] = pages[q]
  <2>1. pages \in Seq(PageRecord)
    BY <1>1 DEF CacheTypes
  <2> QED BY <1>2, <1>4, <2>1
<1>8. /\ controllers' \in Seq(ControllerRecord) /\ Len(controllers') = Len(controllers)
      /\ controllers'[c] = r
      /\ \A j \in 1 .. Len(controllers) : j # c =>
            /\ controllers'[j].client \in 0 .. Len(clients)
            /\ controllers'[j].page \in 0 .. Len(pages)
  BY <1>1, <1>2, <1>3, <1>5, OneController
<1>9. \A j \in 1 .. Len(controllers) : controllers'[j].client <= Len(clients) /\ controllers'[j].page <= p
  BY <1>1, <1>5, <1>8
<1>10. PagesInv'
  <2> SUFFICES ASSUME NEW q \in 1 .. Len(pages')
               PROVE  /\ pages'[q].known # None => pages'[q].tree = pages'[q].known
                      /\ ~pages'[q].on => pages'[q].known = None /\ pages'[q].tree = None
                      /\ pages'[q].unread => pages'[q].on
    BY DEF PagesInv
  <2>1. q \in 1 .. Len(pages) \/ q = p
    BY <1>1, <1>7
  <2> QED BY <1>1, <1>4, <1>7, <2>1 DEF PagesInv
<1>11. \A q \in 1 .. p : pages'[q].client \in 1 .. Len(clients)
  <2>1. \A q \in 1 .. Len(pages) : pages[q].client \in 1 .. Len(clients)
    BY <1>1 DEF CacheTypes
  <2> QED BY <1>1, <1>3, <1>4, <1>7, <2>1
<1>12. handle # None => handle.page \in 1 .. p
  BY <1>1 DEF CacheTypes
<1>13. /\ Len(controllers') >= Len(controllers) /\ Len(clients') >= Len(clients)
       /\ Len(pages') >= Len(pages)
  BY <1>1, <1>2, <1>7, <1>8
<1>14. task'[k] = w => TaskInv(k)'
  BY <1>1, <1>2, <1>3, <1>6, <1>7, <1>8 DEF TaskInv, c
<1> HIDE DEF p
<1>15. BrowserTypes' /\ CacheTypes'
  BY <1>1, <1>2, <1>7, <1>8, <1>9, <1>11, <1>12 DEF BrowserTypes, CacheTypes
<1> QED BY <1>2, <1>6, <1>10, <1>13, <1>14, <1>15, SoundStep

\* A session is enabled: it holds the frames and contexts of the tab's document.
LEMMA EnabledPages ==
    ASSUME SoundInv, NEW p \in 1 .. Len(pages), NEW d \in Docs,
           pages' = [Synced(p) EXCEPT ![p].on = TRUE, ![p].known = d, ![p].tree = d]
    PROVE  /\ pages' \in Seq(PageRecord) /\ Len(pages') = Len(pages) /\ PagesInv'
           /\ \A q \in 1 .. Len(pages) :
                 /\ pages'[q].client = pages[q].client /\ pages'[q].tab = pages[q].tab
                 /\ pages'[q].unread => pages[q].unread
                 /\ q # p => pages'[q].gen = pages[q].gen /\ pages'[q].tree = pages[q].tree
<1> DEFINE S == Synced(p)
           e == [S[p] EXCEPT !.on = TRUE, !.known = d, !.tree = d]
<1>1. doc \in [Tabs -> Docs] /\ pages \in Seq(PageRecord) /\ PagesInv /\ Len(pages) \in Nat
  BY DEF SoundInv, TypesInv, BrowserTypes, CacheTypes
<1>2. /\ S \in Seq(PageRecord) /\ Len(S) = Len(pages)
      /\ \A q \in 1 .. Len(pages) :
            /\ S[q].client = pages[q].client /\ S[q].tab = pages[q].tab
            /\ S[q].unread => pages[q].unread
            /\ q # p => /\ S[q].gen = pages[q].gen /\ S[q].on = pages[q].on
                        /\ S[q].known = pages[q].known /\ S[q].tree = pages[q].tree
      /\ ~S[p].unread
  BY <1>1, SyncedPages
<1> HIDE DEF S
<1>3. S[p] \in PageRecord /\ d \in MaybeDoc /\ p \in 1 .. Len(S)
  BY <1>2 DEF MaybeDoc
<1>4. /\ e \in PageRecord /\ e.client = S[p].client /\ e.tab = S[p].tab
      /\ e.on /\ e.known = d /\ e.tree = d /\ e.unread = S[p].unread
  BY <1>3 DEF PageRecord
<1>5. pages' = [S EXCEPT ![p] = e]
  BY <1>2, <1>3 DEF S
<1> HIDE DEF e
<1>6. /\ pages' \in Seq(PageRecord) /\ Len(pages') = Len(S) /\ pages'[p] = e
      /\ \A q \in 1 .. Len(S) : q # p => pages'[q] = S[q]
  <2>1. /\ [S EXCEPT ![p] = e] \in Seq(PageRecord) /\ Len([S EXCEPT ![p] = e]) = Len(S)
        /\ [S EXCEPT ![p] = e][p] = e
        /\ \A q \in 1 .. Len(S) : q # p => [S EXCEPT ![p] = e][q] = S[q]
    BY <1>2, <1>3, <1>4, ReplacedInSeq
  <2> QED BY <1>5, <2>1
<1>7. \A q \in 1 .. Len(pages) :
         /\ pages'[q].client = pages[q].client /\ pages'[q].tab = pages[q].tab
         /\ pages'[q].unread => pages[q].unread
         /\ q # p => /\ pages'[q].gen = pages[q].gen /\ pages'[q].on = pages[q].on
                     /\ pages'[q].known = pages[q].known /\ pages'[q].tree = pages[q].tree
  <2>1. \A q \in 1 .. Len(pages) : q # p => pages'[q] = S[q]
    BY <1>2, <1>6
  <2>2. /\ pages'[p].client = pages[p].client /\ pages'[p].tab = pages[p].tab
        /\ pages'[p].unread => pages[p].unread
    BY <1>2, <1>4, <1>6
  <2>3. \A q \in 1 .. Len(pages) : q # p =>
           /\ pages'[q].client = pages[q].client /\ pages'[q].tab = pages[q].tab
           /\ pages'[q].unread => pages[q].unread
           /\ pages'[q].gen = pages[q].gen /\ pages'[q].on = pages[q].on
           /\ pages'[q].known = pages[q].known /\ pages'[q].tree = pages[q].tree
    <3> SUFFICES ASSUME NEW q \in 1 .. Len(pages), q # p
                 PROVE  /\ pages'[q].client = pages[q].client /\ pages'[q].tab = pages[q].tab
                        /\ pages'[q].unread => pages[q].unread
                        /\ pages'[q].gen = pages[q].gen /\ pages'[q].on = pages[q].on
                        /\ pages'[q].known = pages[q].known /\ pages'[q].tree = pages[q].tree
      OBVIOUS
    <3>1. pages'[q] = S[q]
      BY <2>1
    <3>2. /\ S[q].client = pages[q].client /\ S[q].tab = pages[q].tab
          /\ S[q].unread => pages[q].unread
          /\ S[q].gen = pages[q].gen /\ S[q].on = pages[q].on
          /\ S[q].known = pages[q].known /\ S[q].tree = pages[q].tree
      BY <1>2
    <3> QED BY <3>1, <3>2
  <2> QED BY <2>2, <2>3
<1>8. PagesInv'
  BY <1>1, <1>2, <1>4, <1>6, <1>7 DEF PagesInv
<1> QED BY <1>2, <1>6, <1>7, <1>8

\* What is done with a page session reads its events first.
LEMMA UsesSound ==
    ASSUME SoundInv, NEW k \in Tasks, FetchEnable(k) \/ TakeFrame(k) \/ Run(k) \/ FailSynced(k)
    PROVE  SoundInv'
<1>1. /\ BrowserTypes /\ CacheTypes /\ PagesInv /\ TaskInv(k) /\ task[k] \in TaskRecord
      /\ task[k].ctl \in 0 .. Len(controllers) /\ task[k].client \in 0 .. Len(clients)
      /\ task[k].page \in 0 .. Len(pages)
      /\ Len(controllers) \in Nat /\ Len(clients) \in Nat /\ Len(pages) \in Nat
  BY SoundOf
<1> DEFINE p == task[k].page
<1>2. /\ UNCHANGED <<active, doc, shut, current, controllers, clients, selected>>
      /\ p \in 1 .. Len(pages)
      /\ pages' = Synced(p) \/ FetchEnable(k)
  <2>1. UNCHANGED <<active, doc, shut, current, controllers, clients, selected>>
    BY DEF FetchEnable, TakeFrame, Run, FailSynced, browser, history
  <2>2. p # 0
    <3>1. CASE task[k].at \in {"enable", "checked"}
      BY <1>1, <3>1 DEF TaskInv
    <3>2. CASE TakeFrame(k) \/ FailSynced(k)
      BY <3>2 DEF TakeFrame, FailSynced
    <3> QED BY <3>1, <3>2 DEF FetchEnable, Run
  <2>3. pages' = Synced(p) \/ FetchEnable(k)
    BY DEF TakeFrame, Run, FailSynced
  <2> QED BY <1>1, <2>1, <2>2, <2>3
<1>3. pages[p].tab \in Tabs /\ doc[pages[p].tab] \in Docs
  <2>1. pages[p] \in PageRecord
    BY <1>1, <1>2 DEF CacheTypes
  <2>2. pages[p].tab \in Tabs
    BY <2>1 DEF PageRecord
  <2> QED BY <1>1, <2>2 DEF BrowserTypes
<1>4. /\ pages' \in Seq(PageRecord) /\ Len(pages') = Len(pages) /\ PagesInv'
      /\ \A q \in 1 .. Len(pages) : pages'[q].client = pages[q].client
      /\ pages' = Synced(p) => pages'[p].tree \in Docs
  <2>1. CASE pages' = Synced(p)
    BY <1>2, <2>1, SyncedTypes
  <2>2. CASE pages' # Synced(p)
    <3>1. pages' = [Synced(p) EXCEPT ![p].on = TRUE, ![p].known = doc[pages[p].tab],
                                     ![p].tree = doc[pages[p].tab]]
      BY <1>2, <2>2 DEF FetchEnable
    <3> QED BY <1>2, <1>3, <2>2, <3>1, EnabledPages
  <2> QED BY <2>1, <2>2
<1>5. \A q \in 1 .. Len(pages) : pages'[q].gen \in Nat
  <2>1. \A q \in 1 .. Len(pages) : pages'[q] \in PageRecord
    BY <1>4
  <2> QED BY <2>1 DEF PageRecord
<1>6. /\ handle' \in [page : Nat, gen : Nat, taken : Docs] \union {None}
      /\ handle' # None => handle'.page \in 1 .. Len(pages)
  <2>1. CASE handle' = handle
    BY <1>1, <2>1 DEF CacheTypes
  <2>2. CASE TakeFrame(k)
    <3>1. handle' = [page |-> p, gen |-> pages'[p].gen, taken |-> pages'[p].tree] /\ pages' = Synced(p)
      BY <2>2 DEF TakeFrame
    <3>2. pages'[p].gen \in Nat /\ pages'[p].tree \in Docs /\ p \in Nat
      BY <1>1, <1>2, <1>4, <1>5, <3>1
    <3> QED BY <1>2, <3>1, <3>2
  <2> QED BY <2>1, <2>2 DEF FetchEnable, Run, FailSynced, history
<1>7. BrowserTypes'
  <2>1. CASE UNCHANGED evaluated
    BY <1>1, <1>2, <2>1 DEF BrowserTypes, FetchEnable, TakeFrame, Run, FailSynced, history
  <2>2. CASE Run(k)
    <3>1. task[k].taken \in Docs /\ astray \in BOOLEAN
      BY <1>1, <2>2 DEF Run, TaskInv, BrowserTypes
    <3>2. evaluated' = [taken |-> task[k].taken, ran |-> doc[pages[p].tab], astray |-> astray]
          /\ astray' = astray
      BY <2>2 DEF Run
    <3>3. evaluated' \in [taken : Docs, ran : Docs, astray : BOOLEAN]
      BY <1>3, <3>1, <3>2
    <3> QED BY <1>1, <1>2, <3>2, <3>3 DEF BrowserTypes
  <2> QED BY <2>1, <2>2 DEF FetchEnable, TakeFrame, FailSynced, history
<1>8. CacheTypes'
  BY <1>1, <1>2, <1>4, <1>6 DEF CacheTypes
<1>9. /\ Len(controllers') >= Len(controllers) /\ Len(clients') >= Len(clients)
      /\ Len(pages') >= Len(pages)
      /\ clients' = clients /\ controllers' = controllers
  BY <1>1, <1>2, <1>4
<1>10. CASE task' = [task EXCEPT ![k] = Idle]
  <2>1. task'[k] = Idle => TaskInv(k)'
    BY <1>1, <1>9, <1>4, IdleTypes DEF TaskInv
  <2> QED BY <1>4, <1>7, <1>8, <1>9, <1>10, <2>1, IdleTypes, SoundStep
<1>11. CASE FetchEnable(k)
  <2> DEFINE q == controllers[task[k].ctl].page
             w == [task[k] EXCEPT !.at = "have", !.page = q]
  <2>1. q \in 0 .. Len(pages)
    <3>1. task[k].ctl \in 1 .. Len(controllers)
      BY <1>1, <1>11 DEF FetchEnable, TaskInv
    <3> QED BY <1>1, <3>1, ControllerAt
  <2>2. task' = [task EXCEPT ![k] = w]
    BY <1>11 DEF FetchEnable
  <2>3. q \in Nat /\ q <= Len(pages) /\ "have" \in Steps
    BY <1>1, <2>1 DEF Steps
  <2> HIDE DEF q
  <2>4. w \in TaskRecord /\ w.at = "have" /\ w.page = q /\ w.ctl = task[k].ctl /\ w.client = task[k].client
    BY <1>1, <2>3 DEF TaskRecord
  <2> HIDE DEF w
  <2>5. task'[k] = w => TaskInv(k)'
    BY <1>1, <1>4, <1>9, <2>3, <2>4 DEF TaskInv
  <2> QED BY <1>4, <1>7, <1>8, <1>9, <2>2, <2>4, <2>5, SoundStep
<1> QED BY <1>10, <1>11 DEF TakeFrame, Run, FailSynced, Return

LEMMA SoundInitially == Init => SoundInv
<1> SUFFICES ASSUME Init PROVE SoundInv
  OBVIOUS
<1>1. BrowserTypes
  <2>1. 0 \in Docs
    BY CdpAssumption DEF Docs
  <2> QED BY <2>1, CdpAssumption DEF Init, BrowserTypes
<1>2. CacheTypes /\ PagesInv
  BY DEF Init, CacheTypes, PagesInv
<1>3. task \in [Tasks -> TaskRecord] /\ \A k \in Tasks : task[k] = Idle
  BY IdleTypes DEF Init
<1>4. \A k \in Tasks : TaskInv(k)
  <2>1. Len(controllers) = 0 /\ Len(clients) = 0 /\ Len(pages) = 0
    BY DEF Init
  <2>2. SUFFICES ASSUME NEW k \in Tasks PROVE TaskInv(k)
    OBVIOUS
  <2>3. /\ task[k].at = "idle" /\ task[k].ctl = 0 /\ task[k].client = 0 /\ task[k].page = 0
    BY <1>3, IdleTypes
  <2> QED BY <2>1, <2>3 DEF TaskInv
<1> QED BY <1>1, <1>2, <1>3, <1>4 DEF SoundInv, TypesInv

LEMMA SoundNext == SoundInv /\ [Next]_vars => SoundInv'
<1> SUFFICES ASSUME SoundInv, [Next]_vars PROVE SoundInv'
  OBVIOUS
<1>1. CASE UNCHANGED vars
  <2>1. UNCHANGED <<active, doc, shut, current, controllers, clients, pages, handle, task>>
        /\ UNCHANGED <<evaluated, selected, astray>>
    BY <1>1 DEF vars, browser, cache, history
  <2> QED BY <2>1 DEF SoundInv, TypesInv, BrowserTypes, CacheTypes, PagesInv, TaskInv
<1>2. CASE PageMove \/ \E k \in Tasks : Navigate(k)
  BY <1>2, NavigationsSound
<1>3. ASSUME NEW k \in Tasks, Switch(k) \/ FetchTarget(k) \/ UseFrame(k) \/ Fail(k) PROVE SoundInv'
  BY <1>3, TaskStepsSound
<1>4. ASSUME NEW k \in Tasks, Landed(k) PROVE SoundInv'
  BY <1>4, LandedSound
<1>5. ASSUME NEW k \in Tasks, Reset(k) \/ ResetEnd(k) PROVE SoundInv'
  BY <1>5, ResetsSound
<1>6. ASSUME NEW k \in Tasks, NEW asked \in Targets \union {None}, FetchStart(k, asked) PROVE SoundInv'
  BY <1>6, FetchStartSound
<1>7. ASSUME NEW k \in Tasks, FetchClient(k) \/ FetchTargets(k) PROVE SoundInv'
  BY <1>7, ClientsSound
<1>8. ASSUME NEW k \in Tasks, FetchAttach(k) PROVE SoundInv'
  BY <1>8, AttachSound
<1>9. ASSUME NEW k \in Tasks, FetchEnable(k) \/ TakeFrame(k) \/ Run(k) \/ FailSynced(k) PROVE SoundInv'
  BY <1>9, UsesSound
<1> QED BY <1>1, <1>2, <1>3, <1>4, <1>5, <1>6, <1>7, <1>8, <1>9 DEF Next

-----------------------------------------------------------------------------
(* One task.                                                                *)

LEMMA OneOf ==
    ASSUME SoundInv, NEW k \in Tasks
    PROVE  /\ Len(controllers) \in Nat /\ Len(clients) \in Nat /\ Len(pages) \in Nat
           /\ current # 0 => /\ current \in 1 .. Len(controllers)
                             /\ controllers[current] \in ControllerRecord
                             /\ controllers[current].client \in 0 .. Len(clients)
                             /\ Cached \in 0 .. Len(pages)
           /\ handle # None => /\ handle.page \in 1 .. Len(pages)
                               /\ handle.gen \in Nat /\ handle.taken \in Docs
           /\ \A p \in 1 .. Len(pages) : pages[p] \in PageRecord /\ pages[p].gen \in Nat
           /\ None \notin Docs
<1>1. CacheTypes /\ Len(controllers) \in Nat /\ Len(clients) \in Nat /\ Len(pages) \in Nat
  BY SoundOf
<1>2. current # 0 => current \in 1 .. Len(controllers)
  BY <1>1 DEF CacheTypes
<1>3. current # 0 => /\ controllers[current] \in ControllerRecord
                     /\ controllers[current].client \in 0 .. Len(clients)
                     /\ Cached \in 0 .. Len(pages)
  BY <1>1, <1>2, ControllerAt DEF Cached
<1>4. handle # None => /\ handle.page \in 1 .. Len(pages)
                       /\ handle.gen \in Nat /\ handle.taken \in Docs
  BY <1>1 DEF CacheTypes
<1>5. \A p \in 1 .. Len(pages) : pages[p] \in PageRecord
  BY <1>1 DEF CacheTypes
<1>6. \A p \in 1 .. Len(pages) : pages[p].gen \in Nat
  BY <1>5 DEF PageRecord
<1>7. None \notin Docs
  BY CdpAssumption DEF Docs
<1> QED BY <1>1, <1>2, <1>3, <1>4, <1>5, <1>6, <1>7

\* Where the task does not look for a page session, and nothing was created or closed.
LEMMA CallKept ==
    ASSUME NEW k \in Tasks, CallInv(k), UNCHANGED <<current, controllers, clients>>,
           task[k].at # "resetting", task'[k].at \in {"idle", "answered", "checked"}
    PROVE  CallInv(k)'
BY DEF CallInv, Cached

\* The handle stays, or it expires.
LEMMA HandleKept ==
    ASSUME NEW k \in Tasks, HandleInv(k), SoundInv, SoundInv', handle' = handle,
           task'[k].at = "checked" => astray',
           handle # None =>
              /\ pages'[handle.page].gen >= pages[handle.page].gen
              /\ Current(handle) /\ pages'[handle.page].gen = pages[handle.page].gen =>
                    /\ pages'[handle.page].tree = pages[handle.page].tree
                    /\ ~astray' => /\ current' # 0 /\ controllers'[current'].page = handle.page
                                   /\ task'[k].at # "answered" => ~pages'[handle.page].unread
    PROVE  HandleInv(k)'
<1>1. handle # None => /\ handle.page \in 1 .. Len(pages) /\ handle.page \in 1 .. Len(pages')
                       /\ handle.gen \in Nat
                       /\ pages[handle.page].gen \in Nat /\ pages'[handle.page].gen \in Nat
  <2>1. handle # None => handle.page \in 1 .. Len(pages) /\ handle.gen \in Nat
    BY OneOf
  <2>2. handle # None => pages[handle.page].gen \in Nat
    BY <2>1, OneOf
  <2>3. \A p \in 1 .. Len(pages') : pages'[p].gen \in Nat
    <3>1. pages' \in Seq(PageRecord)
      BY DEF SoundInv, TypesInv, CacheTypes
    <3>2. \A p \in 1 .. Len(pages') : pages'[p] \in PageRecord
      BY <3>1
    <3> QED BY <3>2 DEF PageRecord
  <2>4. handle' # None => handle'.page \in 1 .. Len(pages')
    BY DEF SoundInv, TypesInv, CacheTypes
  <2> QED BY <2>1, <2>2, <2>3, <2>4
<1>2. handle # None =>
         /\ handle.gen <= pages'[handle.page].gen
         /\ handle.gen = pages'[handle.page].gen =>
               handle.gen = pages[handle.page].gen /\ pages'[handle.page].gen = pages[handle.page].gen
  BY <1>1 DEF HandleInv
<1> QED BY <1>2 DEF HandleInv, Current, Cached

\* A page moves, with or without the program's doing.
LEMMA NavigationsOne ==
    ASSUME NEW k \in Tasks, OneTaskInv(k), SoundInv', PageMove \/ Navigate(k)
    PROVE  OneTaskInv(k)'
<1>1. /\ SoundInv /\ CallInv(k) /\ LookInv(k) /\ HandleInv(k) /\ HandlesExpire
  BY DEF OneTaskInv
<1>2. PICK t \in Tabs : NewDocument(t) /\ UNCHANGED <<active, current, controllers, clients, handle>>
                        /\ UNCHANGED <<evaluated, selected>>
  <2>1. active \in Tabs
    BY <1>1 DEF SoundInv, TypesInv, BrowserTypes
  <2> QED BY <2>1 DEF PageMove, Navigate, history
<1>3. \A p \in 1 .. Len(pages) :
         /\ pages'[p].tab = pages[p].tab /\ pages'[p].gen = pages[p].gen
         /\ pages'[p].tree = pages[p].tree
  <2>1. pages \in Seq(PageRecord) /\ pages' = Told(t)
    BY <1>1, <1>2 DEF SoundInv, TypesInv, CacheTypes, NewDocument
  <2> QED BY <2>1, ToldPages
<1>4. \/ PageMove /\ task' = task /\ astray'
      \/ Navigate(k) /\ task'[k].at = "answered" /\ task[k].at = "idle" /\ astray' = astray
  <2>1. CASE PageMove
    BY <2>1 DEF PageMove
  <2>2. CASE Navigate(k)
    <3>1. MoveTo(k, "answered") /\ "answered" \in Steps
      BY <2>2 DEF Navigate, Steps
    <3>2. PICK w \in TaskRecord : task' = [task EXCEPT ![k] = w] /\ w.at = "answered"
      BY <1>1, <3>1, MovedTask DEF SoundInv
    <3>3. task'[k] = w
      BY <1>1, <3>2 DEF SoundInv, TypesInv
    <3> QED BY <2>2, <3>2, <3>3 DEF Navigate, history
  <2> QED BY <2>1, <2>2
<1>5. /\ current # 0 => Cached \in 0 .. Len(pages)
      /\ handle # None => handle.page \in 1 .. Len(pages)
      /\ \A p \in 1 .. Len(pages) : pages[p].gen \in Nat
  BY <1>1, OneOf
<1>6. CallInv(k)'
  BY <1>1, <1>2, <1>4, CallKept DEF CallInv, Cached
<1>7. LookInv(k)'
  BY <1>1, <1>2, <1>3, <1>4, <1>5 DEF LookInv, Cached, Resolved
<1>8. HandleInv(k)'
  <2>1. handle # None => pages'[handle.page].gen >= pages[handle.page].gen
    BY <1>3, <1>5
  <2>2. handle # None /\ Current(handle) =>
           /\ pages'[handle.page].tree = pages[handle.page].tree
           /\ ~astray' => /\ current' # 0 /\ controllers'[current'].page = handle.page
                          /\ task'[k].at # "answered" => ~pages'[handle.page].unread
    BY <1>1, <1>2, <1>3, <1>4, <1>5 DEF HandleInv, Cached
  <2>3. task'[k].at = "checked" => astray'
    BY <1>4
  <2> QED BY <1>1, <1>2, <2>1, <2>2, <2>3, HandleKept
<1>9. HandlesExpire'
  BY <1>1, <1>2 DEF HandlesExpire
<1> QED BY <1>6, <1>7, <1>8, <1>9 DEF OneTaskInv

\* Steps that create and change nothing but the task, or the active tab.
LEMMA TaskStepsOne ==
    ASSUME NEW k \in Tasks, OneTaskInv(k), SoundInv',
           Switch(k) \/ FetchTarget(k) \/ UseFrame(k) \/ Fail(k)
    PROVE  OneTaskInv(k)'
<1>1. /\ SoundInv /\ CallInv(k) /\ LookInv(k) /\ HandleInv(k) /\ HandlesExpire
  BY DEF OneTaskInv
<1>2. /\ UNCHANGED <<current, controllers, clients, pages, handle, evaluated, selected, astray>>
      /\ active' = active \/ Switch(k)
  BY DEF Switch, FetchTarget, UseFrame, Fail, browser, cache, history
<1>3. /\ task \in [Tasks -> TaskRecord] /\ task[k] \in TaskRecord
      /\ current # 0 => Cached \in 0 .. Len(pages)
      /\ handle # None => handle.page \in 1 .. Len(pages)
      /\ \A p \in 1 .. Len(pages) : pages[p].gen \in Nat
  BY <1>1, OneOf DEF SoundInv, TypesInv
<1>4. HandlesExpire'
  BY <1>1, <1>2 DEF HandlesExpire
<1>5. ASSUME task'[k].at # "checked", task'[k].at # "answered" => task[k].at # "answered"
      PROVE  HandleInv(k)'
  <2>1. handle # None => pages'[handle.page].gen >= pages[handle.page].gen
    BY <1>2, <1>3
  <2>2. handle # None /\ Current(handle) =>
           /\ pages'[handle.page].tree = pages[handle.page].tree
           /\ ~astray' => /\ current' # 0 /\ controllers'[current'].page = handle.page
                          /\ task'[k].at # "answered" => ~pages'[handle.page].unread
    BY <1>1, <1>2, <1>5 DEF HandleInv, Cached
  <2> QED BY <1>1, <1>2, <1>5, <2>1, <2>2, HandleKept
<1>6. CASE Switch(k)
  <2>1. task'[k].at = "answered" /\ task[k].at = "idle"
    <3>1. MoveTo(k, "answered") /\ task[k].at = "idle"
      BY <1>6 DEF Switch
    <3> QED BY <1>3, <3>1 DEF MoveTo, TaskRecord
  <2>2. CallInv(k)'
    BY <1>1, <1>2, <2>1, CallKept
  <2>3. LookInv(k)'
    BY <2>1 DEF LookInv
  <2> QED BY <1>4, <1>5, <2>1, <2>2, <2>3 DEF OneTaskInv
<1>7. CASE Fail(k)
  <2>1. /\ task'[k] = Idle /\ active' = active
        /\ task[k].at \in {"connect", "list", "resolve", "attach", "enable", "have", "checked"}
    BY <1>3, <1>7 DEF Fail, Return, browser
  <2>2. CallInv(k)'
    BY <1>1, <1>2, <2>1, IdleTypes, CallKept
  <2>3. LookInv(k)'
    BY <1>1, <1>2, <2>1, IdleTypes DEF LookInv, Cached
  <2> QED BY <1>4, <1>5, <2>1, <2>2, <2>3, IdleTypes DEF OneTaskInv
<1>8. CASE FetchTarget(k)
  <2> DEFINE tab == Resolved(task[k].asked)
             p == controllers[task[k].ctl].page
  <2>1. /\ task[k].at = "resolve" /\ active' = active
        /\ task'[k] = IF p # 0 /\ pages[p].tab = tab
                      THEN [task[k] EXCEPT !.at = "have", !.tab = tab, !.page = p]
                      ELSE [task[k] EXCEPT !.at = "attach", !.tab = tab]
    BY <1>3, <1>8 DEF FetchTarget, browser
  <2>2. task[k].ctl = current /\ current # 0 /\ p = Cached
    BY <1>1, <2>1 DEF CallInv, Cached
  <2> HIDE DEF p, tab
  <2>3. /\ task'[k].asked = task[k].asked /\ task'[k].ctl = current
        /\ \/ task'[k].at = "have" /\ task'[k].page = Cached
           \/ task'[k].at = "attach" /\ task'[k].tab = tab
    <3>1. /\ [task[k] EXCEPT !.at = "have", !.tab = tab, !.page = p].at = "have"
          /\ [task[k] EXCEPT !.at = "have", !.tab = tab, !.page = p].page = p
          /\ [task[k] EXCEPT !.at = "have", !.tab = tab, !.page = p].asked = task[k].asked
          /\ [task[k] EXCEPT !.at = "have", !.tab = tab, !.page = p].ctl = task[k].ctl
      BY <1>3 DEF TaskRecord
    <3>2. /\ [task[k] EXCEPT !.at = "attach", !.tab = tab].at = "attach"
          /\ [task[k] EXCEPT !.at = "attach", !.tab = tab].tab = tab
          /\ [task[k] EXCEPT !.at = "attach", !.tab = tab].asked = task[k].asked
          /\ [task[k] EXCEPT !.at = "attach", !.tab = tab].ctl = task[k].ctl
      BY <1>3 DEF TaskRecord
    <3> QED BY <2>1, <2>2, <3>1, <3>2
  <2>4. CallInv(k)'
    BY <1>1, <1>2, <2>1, <2>2, <2>3 DEF CallInv, Cached
  <2>5. LookInv(k)'
    BY <1>1, <1>2, <2>1, <2>2, <2>3 DEF LookInv, Cached, Resolved, tab
  <2> QED BY <1>4, <1>5, <2>1, <2>3, <2>4, <2>5 DEF OneTaskInv
<1>9. CASE UseFrame(k)
  <2>1. /\ task[k].at = "idle" /\ active' = active /\ handle # None /\ Current(handle)
        /\ task'[k].at = "checked" /\ task'[k].page = handle.page /\ task'[k].taken = handle.taken
    BY <1>3, <1>9 DEF UseFrame, browser, TaskRecord
  <2>2. CallInv(k)'
    BY <1>1, <1>2, <2>1, CallKept
  <2>3. LookInv(k)'
    BY <1>1, <1>2, <2>1 DEF LookInv, Cached
  <2>4. HandleInv(k)'
    BY <1>1, <1>2, <2>1 DEF HandleInv, Cached, Current
  <2> QED BY <1>4, <2>2, <2>3, <2>4 DEF OneTaskInv
<1> QED BY <1>6, <1>7, <1>8, <1>9

\* The answer of a native command: the cached session and its handles are gone.
LEMMA LandedOne ==
    ASSUME NEW k \in Tasks, OneTaskInv(k), SoundInv', Landed(k)
    PROVE  OneTaskInv(k)'
<1>1. /\ SoundInv /\ CallInv(k) /\ LookInv(k) /\ HandleInv(k) /\ HandlesExpire
  BY DEF OneTaskInv
<1>2. /\ UNCHANGED <<active, current, clients, handle, evaluated, astray>> /\ selected' = FALSE
      /\ task'[k] = Idle /\ task[k].at = "answered"
  BY <1>1 DEF Landed, Return, browser, SoundInv, TypesInv
<1>3. /\ current # 0 => /\ current \in 1 .. Len(controllers) /\ Cached \in 0 .. Len(pages)
                        /\ controllers[current] \in ControllerRecord
      /\ handle # None => handle.page \in 1 .. Len(pages)
      /\ \A p \in 1 .. Len(pages) : pages[p] \in PageRecord /\ pages[p].gen \in Nat
      /\ controllers \in Seq(ControllerRecord)
  BY <1>1, OneOf DEF SoundInv, TypesInv, CacheTypes
<1>4. current # 0 => ~controllers[current].closed
  BY <1>1, <1>2 DEF CallInv
<1>5. HandlesExpire'
  BY <1>1, <1>2 DEF HandlesExpire
<1>6. CASE current = 0
  <2>1. UNCHANGED <<controllers, pages>>
    BY <1>6 DEF Landed
  <2>2. CallInv(k)'
    BY <1>1, <1>2, <2>1, IdleTypes, CallKept
  <2>3. LookInv(k)'
    BY <1>2, <1>6, IdleTypes DEF LookInv
  <2>4. HandleInv(k)'
    BY <1>1, <1>2, <1>6, <2>1, IdleTypes DEF HandleInv, Current
  <2> QED BY <1>5, <2>2, <2>3, <2>4 DEF OneTaskInv
<1>7. CASE current # 0
  <2>1. /\ pages' = PagesWithout(current)
        /\ controllers' = [controllers EXCEPT ![current] = Forgotten(controllers[current])]
    BY <1>4, <1>7 DEF Landed
  <2>2. \A q \in 1 .. Len(pages) :
           pages'[q] = IF q = Cached THEN Invalidated(pages[q]) ELSE pages[q]
    BY <1>1, <1>7, <2>1, WithoutTypes
  <2>3. controllers'[current] = Forgotten(controllers[current])
    BY <1>3, <1>7, <2>1
  <2>4. /\ controllers'[current].page = 0
        /\ controllers'[current].client = controllers[current].client
        /\ controllers'[current].closed = controllers[current].closed
    BY <1>3, <1>7, <2>3, ForgottenTypes
  <2>5. CallInv(k)'
    BY <1>1, <1>2, <1>7, <2>4, IdleTypes DEF CallInv
  <2>6. LookInv(k)'
    BY <1>2, <2>4, IdleTypes DEF LookInv, Cached
  <2>7. handle # None =>
           \/ handle.page = Cached /\ pages'[handle.page].gen = pages[handle.page].gen + 1
           \/ handle.page # Cached /\ pages'[handle.page] = pages[handle.page]
    BY <1>3, <2>2, InvalidatedTypes
  <2>8. HandleInv(k)'
    <3>1. handle # None => pages'[handle.page].gen >= pages[handle.page].gen
      BY <1>3, <2>7
    <3>2. handle # None /\ Current(handle) /\ pages'[handle.page].gen = pages[handle.page].gen =>
             /\ pages'[handle.page].tree = pages[handle.page].tree
             /\ astray'
      <4> SUFFICES ASSUME handle # None, Current(handle),
                          pages'[handle.page].gen = pages[handle.page].gen
                   PROVE  pages'[handle.page].tree = pages[handle.page].tree /\ astray'
        OBVIOUS
      <4>1. pages[handle.page].gen \in Nat
        BY <1>3
      <4>2. handle.page # Cached /\ pages'[handle.page] = pages[handle.page]
        BY <2>7, <4>1
      <4> QED BY <1>1, <1>2, <4>2 DEF HandleInv
    <3> QED BY <1>1, <1>2, <3>1, <3>2, IdleTypes, HandleKept
  <2> QED BY <1>5, <2>5, <2>6, <2>8 DEF OneTaskInv
<1> QED BY <1>6, <1>7

\* A launch, or a close: the controller's client and session are gone with it.
LEMMA ResetsOne ==
    ASSUME NEW k \in Tasks, OneTaskInv(k), SoundInv', Reset(k) \/ ResetEnd(k)
    PROVE  OneTaskInv(k)'
<1>1. /\ SoundInv /\ CallInv(k) /\ LookInv(k) /\ HandleInv(k) /\ HandlesExpire
  BY DEF OneTaskInv
<1>2. /\ UNCHANGED <<active, handle, evaluated, astray>>
  BY DEF Reset, ResetEnd, browser, history
<1>3. /\ current # 0 => /\ current \in 1 .. Len(controllers) /\ Cached \in 0 .. Len(pages)
                        /\ controllers[current] \in ControllerRecord
                        /\ controllers[current].client \in 0 .. Len(clients)
      /\ handle # None => handle.page \in 1 .. Len(pages)
      /\ \A p \in 1 .. Len(pages) : pages[p] \in PageRecord /\ pages[p].gen \in Nat
      /\ controllers \in Seq(ControllerRecord) /\ clients \in Seq({"new", "open", "closed"})
      /\ task \in [Tasks -> TaskRecord] /\ task[k] \in TaskRecord
  BY <1>1, OneOf DEF SoundInv, TypesInv, CacheTypes
<1>4. HandlesExpire'
  BY <1>1, <1>2 DEF HandlesExpire
<1>5. CASE ResetEnd(k)
  <2>1. /\ current' = 0 /\ UNCHANGED <<clients, pages>> /\ task'[k] = Idle /\ task[k].at = "resetting"
    BY <1>3, <1>5 DEF ResetEnd, Return
  <2>2. Cached = 0 /\ current # 0 /\ \A n \in 1 .. Len(clients) : clients[n] = "closed"
    BY <1>1, <2>1 DEF CallInv
  <2>3. CallInv(k)'
    BY <2>1, <2>2, IdleTypes DEF CallInv
  <2>4. LookInv(k)'
    BY <2>1, IdleTypes DEF LookInv
  <2>5. HandleInv(k)'
    BY <1>1, <1>2, <1>3, <2>1, <2>2, IdleTypes DEF HandleInv, Current
  <2> QED BY <1>4, <2>3, <2>4, <2>5 DEF OneTaskInv
<1>6. CASE Reset(k) /\ current = 0
  <2>1. /\ UNCHANGED <<current, controllers, clients, pages, task>> /\ task[k].at = "idle"
        /\ selected' = FALSE
    BY <1>6 DEF Reset, cache
  <2>2. CallInv(k)'
    BY <1>1, <2>1, CallKept
  <2>3. LookInv(k)'
    BY <1>6, <2>1 DEF LookInv
  <2>4. HandleInv(k)'
    BY <1>1, <1>2, <2>1 DEF HandleInv, Current, Cached
  <2> QED BY <1>4, <2>2, <2>3, <2>4 DEF OneTaskInv
<1>7. CASE Reset(k) /\ current # 0
  <2> DEFINE own == controllers[current]
             keeps == IF Waits(current) THEN own.client ELSE 0
             r == [Forgotten(own) EXCEPT !.closed = TRUE, !.client = keeps]
  <2>1. /\ pages' = PagesWithout(current) /\ clients' = ClientsWithout(current)
        /\ controllers' = [controllers EXCEPT ![current] = r]
        /\ task[k].at = "idle"
        /\ \/ current' = 0 /\ task' = task
           \/ /\ current' = current
              /\ task' = [task EXCEPT ![k].at = "resetting", ![k].ctl = current]
    BY <1>7 DEF Reset
  <2>2. \A q \in 1 .. Len(pages) :
           pages'[q] = IF q = Cached THEN Invalidated(pages[q]) ELSE pages[q]
    BY <1>1, <1>7, <2>1, WithoutTypes
  <2>3. r.page = 0 /\ controllers'[current] = r
    <3>1. Forgotten(own) \in ControllerRecord /\ Forgotten(own).page = 0
      BY <1>3, <1>7, ForgottenTypes
    <3> HIDE DEF keeps, own
    <3>2. r.page = 0
      BY <3>1 DEF ControllerRecord
    <3>3. controllers'[current] = r
      BY <1>3, <1>7, <2>1
    <3> QED BY <3>2, <3>3
  <2>4. Len(clients') = Len(clients) /\ \A n \in 1 .. Len(clients) : clients'[n] = "closed"
    <3>1. \A n \in 1 .. Len(clients) : clients[n] # "closed" => n = own.client
      BY <1>1, <1>7 DEF CallInv
    <3>2. CASE own.client = 0
      <4>1. clients' = clients
        BY <2>1, <3>2 DEF ClientsWithout
      <4>2. \A n \in 1 .. Len(clients) : n # 0
        OBVIOUS
      <4> QED BY <3>1, <3>2, <4>1, <4>2
    <3>3. CASE own.client # 0
      <4>1. clients' = [clients EXCEPT ![own.client] = "closed"]
        BY <2>1, <3>3 DEF ClientsWithout
      <4> QED BY <1>3, <3>1, <3>3, <4>1
    <3> QED BY <3>2, <3>3
  <2> HIDE DEF r, keeps, own
  <2>5. \/ current' = 0 /\ task'[k] = task[k] /\ task[k].at = "idle"
        \/ current' = current /\ task'[k].at = "resetting" /\ task'[k].ctl = current
    BY <1>3, <2>1 DEF TaskRecord
  <2>6. CallInv(k)'
    BY <1>7, <2>3, <2>4, <2>5 DEF CallInv, Cached
  <2>7. LookInv(k)'
    BY <2>3, <2>5 DEF LookInv, Cached
  <2>8. handle # None =>
           \/ handle.page = Cached /\ pages'[handle.page].gen = pages[handle.page].gen + 1
           \/ handle.page # Cached /\ pages'[handle.page] = pages[handle.page]
    BY <1>3, <2>2, InvalidatedTypes
  <2>9. HandleInv(k)'
    <3>1. handle # None => pages'[handle.page].gen >= pages[handle.page].gen
      BY <1>3, <2>8
    <3>2. handle # None /\ Current(handle) /\ pages'[handle.page].gen = pages[handle.page].gen =>
             /\ pages'[handle.page].tree = pages[handle.page].tree
             /\ astray'
      <4> SUFFICES ASSUME handle # None, Current(handle),
                          pages'[handle.page].gen = pages[handle.page].gen
                   PROVE  pages'[handle.page].tree = pages[handle.page].tree /\ astray'
        OBVIOUS
      <4>1. pages[handle.page].gen \in Nat
        BY <1>3
      <4>2. handle.page # Cached /\ pages'[handle.page] = pages[handle.page]
        BY <2>8, <4>1
      <4> QED BY <1>1, <1>2, <4>2 DEF HandleInv
    <3>3. task'[k].at # "checked"
      BY <2>5
    <3> QED BY <1>1, <1>2, <3>1, <3>2, <3>3, HandleKept
  <2> QED BY <1>4, <2>6, <2>7, <2>9 DEF OneTaskInv
<1> QED BY <1>5, <1>6, <1>7

\* Looking for a page session; the cached one answers what selects no target.
LEMMA FetchStartOne ==
    ASSUME NEW k \in Tasks, OneTaskInv(k), SoundInv', NEW asked \in Targets \union {None},
           FetchStart(k, asked)
    PROVE  OneTaskInv(k)'
<1>1. /\ SoundInv /\ CallInv(k) /\ LookInv(k) /\ HandleInv(k) /\ HandlesExpire
  BY DEF OneTaskInv
<1>2. /\ Len(controllers) \in Nat /\ controllers \in Seq(ControllerRecord)
      /\ current # 0 => /\ current \in 1 .. Len(controllers)
                        /\ controllers[current] \in ControllerRecord
      /\ handle # None => handle.page \in 1 .. Len(pages)
      /\ \A p \in 1 .. Len(pages) : pages[p].gen \in Nat
      /\ task \in [Tasks -> TaskRecord]
  BY <1>1, OneOf DEF SoundInv, TypesInv, CacheTypes
<1> DEFINE c == CurrentOr(Len(controllers) + 1)
           all == IF current = 0 THEN Append(controllers, Empty) ELSE controllers
           own == all[c]
<1>3. /\ UNCHANGED <<active, clients, pages, handle, evaluated>> /\ task[k].at = "idle"
      /\ current' = c /\ controllers' = all /\ ~own.closed
      /\ selected' = (selected \/ asked # None) /\ astray' = (astray \/ asked # None)
      /\ task'[k] =
             IF FromCache(own, asked)
             THEN [Idle EXCEPT !.at = "have", !.asked = asked, !.page = own.page]
             ELSE IF own.client # 0
             THEN [Idle EXCEPT !.at = "list", !.asked = asked, !.ctl = c, !.client = own.client]
             ELSE IF shut THEN Idle
             ELSE [Idle EXCEPT !.at = "connect", !.asked = asked, !.ctl = c]
  BY <1>2 DEF FetchStart, browser
<1>4. /\ c # 0 /\ controllers'[current'] = own
      /\ \/ current = 0 /\ own.page = 0 /\ own.client = 0
         \/ current # 0 /\ c = current /\ own = controllers[current]
  <2>1. CASE current = 0
    <3>1. c = Len(controllers) + 1 /\ own = Append(controllers, Empty)[c] /\ c # 0
      BY <1>2, <2>1 DEF CurrentOr
    <3>2. Empty \in ControllerRecord
      BY DEF Empty, ControllerRecord
    <3>3. own = Empty
      BY <1>2, <3>1, <3>2
    <3> QED BY <1>3, <2>1, <3>1, <3>3 DEF Empty
  <2>2. CASE current # 0
    BY <1>3, <2>2 DEF CurrentOr
  <2> QED BY <2>1, <2>2
<1> HIDE DEF own, all, c
<1>5. \/ /\ task'[k].at = "have" /\ task'[k].asked = asked /\ task'[k].page = own.page
         /\ FromCache(own, asked)
      \/ /\ task'[k].at = "list" /\ task'[k].asked = asked /\ task'[k].ctl = c
         /\ task'[k].client = own.client /\ ~FromCache(own, asked)
      \/ task'[k].at = "idle"
      \/ /\ task'[k].at = "connect" /\ task'[k].asked = asked /\ task'[k].ctl = c
         /\ own.client = 0 /\ ~FromCache(own, asked)
  BY <1>3 DEF Idle
<1>6. CallInv(k)'
  BY <1>1, <1>3, <1>4, <1>5 DEF CallInv, Cached
<1>7. LookInv(k)'
  <2>1. current # 0 => own.page = Cached
    BY <1>4 DEF Cached
  <2>2. Cached' = own.page
    BY <1>4 DEF Cached
  <2> QED BY <1>1, <1>3, <1>4, <1>5, <2>1, <2>2 DEF LookInv, FromCache
<1>8. HandleInv(k)'
  <2>1. task'[k].at \notin {"checked", "answered"}
    BY <1>5
  <2>2. handle # None => pages'[handle.page].gen >= pages[handle.page].gen
    BY <1>2, <1>3
  <2>3. handle # None /\ Current(handle) =>
           /\ pages'[handle.page].tree = pages[handle.page].tree
           /\ ~astray' => /\ current' # 0 /\ controllers'[current'].page = handle.page
                          /\ task'[k].at # "answered" => ~pages'[handle.page].unread
    BY <1>1, <1>3, <1>4 DEF HandleInv, Cached
  <2> QED BY <1>1, <1>3, <2>1, <2>2, <2>3, HandleKept
<1>9. HandlesExpire'
  BY <1>1, <1>3 DEF HandlesExpire
<1> QED BY <1>6, <1>7, <1>8, <1>9 DEF OneTaskInv

\* The client that is created, or connected, is the current controller's.
LEMMA ClientsOne ==
    ASSUME NEW k \in Tasks, OneTaskInv(k), SoundInv', FetchClient(k) \/ FetchTargets(k)
    PROVE  OneTaskInv(k)'
<1>1. /\ SoundInv /\ CallInv(k) /\ LookInv(k) /\ HandleInv(k) /\ HandlesExpire
  BY DEF OneTaskInv
<1>2. /\ UNCHANGED <<active, current, pages, handle, evaluated, selected, astray>>
      /\ task[k].at \in {"connect", "list"}
  BY DEF FetchClient, FetchTargets, browser, history
<1>3. /\ Len(clients) \in Nat /\ clients \in Seq({"new", "open", "closed"})
      /\ controllers \in Seq(ControllerRecord)
      /\ current # 0 => /\ current \in 1 .. Len(controllers)
                        /\ controllers[current] \in ControllerRecord
                        /\ controllers[current].client \in 0 .. Len(clients)
      /\ handle # None => handle.page \in 1 .. Len(pages)
      /\ \A p \in 1 .. Len(pages) : pages[p].gen \in Nat
      /\ task \in [Tasks -> TaskRecord] /\ task[k] \in TaskRecord
  BY <1>1, OneOf DEF SoundInv, TypesInv, CacheTypes
<1>4. task[k].ctl = current /\ current # 0 /\ ~controllers[current].closed
  BY <1>1, <1>2 DEF CallInv
<1>5. HandlesExpire'
  BY <1>1, <1>2 DEF HandlesExpire
<1>6. ASSUME task'[k].at \notin {"checked", "answered"}, controllers'[current].page = Cached
      PROVE  HandleInv(k)'
  <2>1. handle # None => pages'[handle.page].gen >= pages[handle.page].gen
    BY <1>2, <1>3
  <2>2. handle # None /\ Current(handle) =>
           /\ pages'[handle.page].tree = pages[handle.page].tree
           /\ ~astray' => /\ current' # 0 /\ controllers'[current'].page = handle.page
                          /\ task'[k].at # "answered" => ~pages'[handle.page].unread
    BY <1>1, <1>2, <1>6 DEF HandleInv
  <2> QED BY <1>1, <1>2, <1>6, <2>1, <2>2, HandleKept
<1>7. CASE FetchClient(k)
  <2> DEFINE n == Len(clients) + 1
             r == [controllers[current] EXCEPT !.client = n]
  <2>1. /\ task[k].at = "connect" /\ clients' = Append(clients, "new")
        /\ controllers' = [controllers EXCEPT ![current] = r]
        /\ task'[k].at = "list" /\ task'[k].client = n
        /\ task'[k].ctl = current /\ task'[k].asked = task[k].asked
    BY <1>3, <1>4, <1>7 DEF FetchClient, TaskRecord
  <2>2. /\ controllers'[current] = r /\ r.client = n /\ r.page = Cached
        /\ r.closed = controllers[current].closed
    <3> HIDE DEF n
    <3>1. /\ r.client = n /\ r.page = Cached /\ r.closed = controllers[current].closed
      BY <1>3, <1>4 DEF ControllerRecord, Cached
    <3>2. controllers'[current] = r
      BY <1>3, <1>4, <2>1
    <3> QED BY <3>1, <3>2
  <2>3. \A m \in 1 .. Len(clients) : clients[m] = "closed"
    <3>1. controllers[current].client = 0
      BY <1>1, <2>1 DEF CallInv
    <3>2. \A m \in 1 .. Len(clients) : m # 0
      OBVIOUS
    <3> QED BY <1>1, <3>1, <3>2 DEF CallInv
  <2>4. Len(clients') = n /\ \A m \in 1 .. n : m # n => clients'[m] = "closed"
    BY <1>3, <2>1, <2>3
  <2> HIDE DEF n, r
  <2>5. CallInv(k)'
    BY <1>2, <1>4, <2>1, <2>2, <2>4 DEF CallInv, Cached
  <2>6. LookInv(k)'
    BY <1>1, <1>2, <2>1, <2>2 DEF LookInv, Cached
  <2> QED BY <1>5, <1>6, <2>1, <2>2, <2>5, <2>6 DEF OneTaskInv
<1>8. CASE FetchTargets(k)
  <2> DEFINE n == task[k].client
  <2>1. /\ task[k].at = "list" /\ clients' = [clients EXCEPT ![n] = "open"]
        /\ controllers' = controllers
    BY <1>8 DEF FetchTargets
  <2>2. \/ task'[k] = Idle
        \/ task'[k].at = "resolve" /\ task'[k].ctl = current /\ task'[k].asked = task[k].asked
    BY <1>3, <1>4, <1>8 DEF FetchTargets, Return, MoveTo, TaskRecord
  <2>3. n = controllers[current].client
    BY <1>1, <2>1 DEF CallInv
  <2>4. Len(clients') = Len(clients) /\ \A m \in 1 .. Len(clients) : m # n => clients'[m] = clients[m]
    BY <1>3, <2>1
  <2> HIDE DEF n
  <2>5. CallInv(k)'
    BY <1>1, <1>2, <1>4, <2>1, <2>2, <2>3, <2>4, IdleTypes DEF CallInv, Cached
  <2>6. LookInv(k)'
    BY <1>1, <1>2, <2>1, <2>2, IdleTypes DEF LookInv, Cached
  <2>7. task'[k].at \notin {"checked", "answered"}
    BY <2>2, IdleTypes
  <2> QED BY <1>5, <1>6, <2>1, <2>5, <2>6, <2>7 DEF OneTaskInv, Cached
<1> QED BY <1>7, <1>8

\* The session that is attached is cached in the place of one that was not asked for.
LEMMA AttachOne ==
    ASSUME NEW k \in Tasks, OneTaskInv(k), SoundInv', FetchAttach(k)
    PROVE  OneTaskInv(k)'
<1>1. /\ SoundInv /\ CallInv(k) /\ LookInv(k) /\ HandleInv(k) /\ HandlesExpire
  BY DEF OneTaskInv
<1>2. /\ Len(pages) \in Nat /\ pages \in Seq(PageRecord)
      /\ controllers \in Seq(ControllerRecord)
      /\ current # 0 => /\ current \in 1 .. Len(controllers)
                        /\ controllers[current] \in ControllerRecord
      /\ handle # None => handle.page \in 1 .. Len(pages)
      /\ \A p \in 1 .. Len(pages) : pages[p].gen \in Nat
      /\ task \in [Tasks -> TaskRecord] /\ task[k] \in TaskRecord
  BY <1>1, OneOf DEF SoundInv, TypesInv, CacheTypes
<1> DEFINE p == Len(pages) + 1
           new == Attached(task[k].client, task[k].tab)
           r == [controllers[current] EXCEPT !.page = p]
<1>3. /\ UNCHANGED <<active, current, clients, handle, evaluated, selected, astray>>
      /\ task[k].at = "attach" /\ pages' = Append(pages, new)
      /\ controllers' = [controllers EXCEPT ![task[k].ctl].page = p]
      /\ task'[k].at = "enable" /\ task'[k].page = p
      /\ task'[k].ctl = task[k].ctl /\ task'[k].asked = task[k].asked
  BY <1>2 DEF FetchAttach, browser, history, TaskRecord
<1>4. task[k].ctl = current /\ current # 0 /\ ~controllers[current].closed
  BY <1>1, <1>3 DEF CallInv
<1>5. /\ controllers'[current].page = p
      /\ controllers'[current].client = controllers[current].client
      /\ controllers'[current].closed = controllers[current].closed
  <2>1. controllers' = [controllers EXCEPT ![current] = r]
    BY <1>3, <1>4
  <2>2. controllers'[current] = r
    BY <1>2, <1>4, <2>1
  <2> HIDE DEF p
  <2>3. r.page = p /\ r.client = controllers[current].client /\ r.closed = controllers[current].closed
    BY <1>2, <1>4 DEF ControllerRecord
  <2> QED BY <2>2, <2>3
<1>6. /\ pages'[p].tab = task[k].tab
      /\ \A q \in 1 .. Len(pages) : pages'[q] = pages[q]
      /\ \A q \in 1 .. Len(pages) : q # p
  <2>1. new \in PageRecord
    <3>1. task[k].client \in Nat /\ task[k].tab \in Tabs
      BY <1>1, <1>2, <1>3 DEF SoundInv, TypesInv, TaskInv, TaskRecord
    <3> QED BY <3>1 DEF Attached, PageRecord, MaybeDoc
  <2>2. pages'[p] = new /\ \A q \in 1 .. Len(pages) : pages'[q] = pages[q]
    BY <1>2, <1>3, <2>1
  <2> QED BY <1>2, <2>2 DEF Attached
<1>7. p # 0
  BY <1>2
<1> HIDE DEF p, new, r
<1>8. CallInv(k)'
  BY <1>1, <1>3, <1>4, <1>5 DEF CallInv, Cached
<1>9. LookInv(k)'
  <2>1. task[k].asked = None => task[k].tab = active
    BY <1>1, <1>3 DEF LookInv, Resolved
  <2>2. task[k].asked # None => selected
    BY <1>1, <1>3 DEF LookInv
  <2> QED BY <1>2, <1>3, <1>5, <1>6, <2>1, <2>2 DEF LookInv, Cached
<1>10. HandleInv(k)'
  <2>1. handle # None => pages'[handle.page] = pages[handle.page] /\ handle.page # 0
    BY <1>2, <1>6
  <2>2. handle # None => pages'[handle.page].gen >= pages[handle.page].gen
    BY <1>2, <2>1
  <2>3. handle # None /\ Current(handle) => pages'[handle.page].tree = pages[handle.page].tree /\ astray'
    BY <1>1, <1>3, <2>1 DEF HandleInv, LookInv
  <2> QED BY <1>1, <1>3, <2>2, <2>3, HandleKept
<1>11. HandlesExpire'
  BY <1>1, <1>3 DEF HandlesExpire
<1> QED BY <1>8, <1>9, <1>10, <1>11 DEF OneTaskInv

\* A handle's session, once the events of session p were read.
LEMMA SyncedHandle ==
    ASSUME NEW k \in Tasks, SoundInv, HandleInv(k), task[k].at # "answered",
           NEW p \in 1 .. Len(pages), pages' = Synced(p), handle # None
    PROVE  /\ pages'[handle.page].gen >= pages[handle.page].gen
           /\ Current(handle) /\ pages'[handle.page].gen = pages[handle.page].gen =>
                 /\ pages'[handle.page].tree = pages[handle.page].tree
                 /\ ~astray => ~pages'[handle.page].unread
<1>1. /\ pages \in Seq(PageRecord) /\ doc \in [Tabs -> Docs] /\ PagesInv
      /\ handle.page \in 1 .. Len(pages) /\ handle.taken \in Docs /\ None \notin Docs
      /\ \A q \in 1 .. Len(pages) : pages[q].gen \in Nat
  BY OneOf DEF SoundInv, TypesInv, BrowserTypes, CacheTypes
<1>2. /\ \A q \in 1 .. Len(pages) :
            /\ pages'[q].gen >= pages[q].gen
            /\ pages'[q].unread => pages[q].unread
            /\ q # p => pages'[q].gen = pages[q].gen /\ pages'[q].tree = pages[q].tree
      /\ pages[p].unread => pages'[p].gen > pages[p].gen
      /\ ~pages[p].unread /\ pages[p].tree # None => pages'[p].tree = pages[p].tree
  <2>1. /\ \A q \in 1 .. Len(pages) :
              /\ Synced(p)[q].gen >= pages[q].gen
              /\ Synced(p)[q].unread => pages[q].unread
              /\ q # p => Synced(p)[q].gen = pages[q].gen /\ Synced(p)[q].tree = pages[q].tree
        /\ pages[p].unread => Synced(p)[p].gen > pages[p].gen
        /\ ~pages[p].unread /\ pages[p].tree # None => Synced(p)[p].tree = pages[p].tree
    BY <1>1, SyncedPages
  <2> QED BY <2>1
<1>3. Current(handle) => /\ pages[handle.page].tree = handle.taken
                         /\ ~astray => ~pages[handle.page].unread
  BY DEF HandleInv
<1>4. CASE handle.page # p
  BY <1>1, <1>2, <1>3, <1>4
<1>5. CASE handle.page = p
  <2>1. pages'[p].gen >= pages[p].gen
    BY <1>2
  <2>2. pages'[p].gen = pages[p].gen => ~pages[p].unread
    BY <1>1, <1>2
  <2>3. Current(handle) => pages[p].tree # None
    BY <1>1, <1>3, <1>5
  <2>4. pages'[p].unread => pages[p].unread
    BY <1>2
  <2> QED BY <1>2, <1>3, <1>5, <2>1, <2>2, <2>3, <2>4
<1> QED BY <1>4, <1>5

\* What is done with a page session: a handle is taken of the document whose
\* frames it holds, and what runs, runs in that document.
LEMMA UsesOne ==
    ASSUME NEW k \in Tasks, OneTaskInv(k), SoundInv', TakeFrame(k) \/ Run(k) \/ FailSynced(k)
    PROVE  OneTaskInv(k)'
<1>1. /\ SoundInv /\ CallInv(k) /\ LookInv(k) /\ HandleInv(k) /\ HandlesExpire
  BY DEF OneTaskInv
<1> DEFINE p == task[k].page
<1>2. /\ UNCHANGED <<active, doc, current, controllers, clients, selected>>
      /\ pages' = Synced(p) /\ task[k].at \in {"have", "checked"} /\ task'[k] = Idle
  BY <1>1 DEF TakeFrame, Run, FailSynced, Return, browser, history, SoundInv, TypesInv
<1>3. p \in 1 .. Len(pages)
  <2>1. p \in 0 .. Len(pages) /\ TaskInv(k) /\ Len(pages) \in Nat
    BY <1>1, SoundOf
  <2> QED BY <2>1 DEF TakeFrame, Run, FailSynced, TaskInv
<1>4. /\ pages \in Seq(PageRecord) /\ doc \in [Tabs -> Docs] /\ PagesInv
      /\ current # 0 => Cached \in 0 .. Len(pages)
      /\ handle # None => handle.page \in 1 .. Len(pages) /\ handle.taken \in Docs
      /\ None \notin Docs /\ pages[p].tab \in Tabs /\ doc[pages[p].tab] \in Docs
  <2>1. /\ pages \in Seq(PageRecord) /\ doc \in [Tabs -> Docs] /\ PagesInv
        /\ current # 0 => Cached \in 0 .. Len(pages)
        /\ handle # None => handle.page \in 1 .. Len(pages) /\ handle.taken \in Docs
        /\ None \notin Docs
    BY <1>1, OneOf DEF SoundInv, TypesInv, BrowserTypes, CacheTypes
  <2>2. pages[p] \in PageRecord
    BY <1>3, <2>1
  <2>3. pages[p].tab \in Tabs
    BY <2>2 DEF PageRecord
  <2> QED BY <2>1, <2>3
<1>5. /\ \A q \in 1 .. Len(pages) : pages'[q].tab = pages[q].tab
      /\ pages'[p].tree \in Docs /\ ~pages'[p].unread
      /\ pages'[p].known # None => pages'[p].tree = pages'[p].known
  BY <1>2, <1>3, <1>4, SyncedPages
<1>6. CallInv(k)'
  BY <1>1, <1>2, IdleTypes, CallKept
<1>7. LookInv(k)'
  BY <1>1, <1>2, <1>4, <1>5, IdleTypes DEF LookInv, Cached
<1>8. CASE TakeFrame(k)
  <2>1. handle' = [page |-> p, gen |-> pages'[p].gen, taken |-> pages'[p].tree] /\ task[k].at = "have"
        /\ astray' = FALSE /\ evaluated' = evaluated
    BY <1>8 DEF TakeFrame
  <2>2. current # 0 /\ Cached = p
    BY <1>1, <2>1 DEF CallInv, LookInv
  <2>3. pages'[p].gen \in Nat
    <3>1. pages' \in Seq(PageRecord) /\ Len(pages') = Len(pages)
      BY <1>1, <1>2, <1>3, SyncedTypes
    <3>2. pages'[p] \in PageRecord
      BY <1>3, <3>1
    <3> QED BY <3>2 DEF PageRecord
  <2>4. handle'.page = p /\ handle'.gen = pages'[p].gen /\ handle'.taken = pages'[p].tree
    BY <2>1
  <2> HIDE DEF p
  <2>5. HandleInv(k)'
    BY <1>2, <1>5, <2>2, <2>3, <2>4, IdleTypes DEF HandleInv, Cached
  <2>6. HandlesExpire'
    BY <1>1, <2>1 DEF HandlesExpire
  <2> QED BY <1>6, <1>7, <2>5, <2>6 DEF OneTaskInv
<1>9. CASE Run(k) \/ FailSynced(k)
  <2>1. handle' = handle /\ astray' = astray
    BY <1>9 DEF Run, FailSynced, history
  <2>2. HandleInv(k)'
    <3>1. handle # None =>
             /\ pages'[handle.page].gen >= pages[handle.page].gen
             /\ Current(handle) /\ pages'[handle.page].gen = pages[handle.page].gen =>
                   /\ pages'[handle.page].tree = pages[handle.page].tree
                   /\ ~astray => ~pages'[handle.page].unread
      BY <1>1, <1>2, <1>3, SyncedHandle
    <3>2. handle # None /\ Current(handle) /\ ~astray =>
             current' # 0 /\ controllers'[current'].page = handle.page
      BY <1>1, <1>2 DEF HandleInv, Cached
    <3> QED BY <1>1, <1>2, <2>1, <3>1, <3>2, IdleTypes, HandleKept
  <2>3. HandlesExpire'
    <3>1. CASE FailSynced(k)
      BY <1>1, <3>1 DEF FailSynced, HandlesExpire, history
    <3>2. CASE Run(k)
      <4>1. /\ evaluated' = [taken |-> task[k].taken, ran |-> doc[pages[p].tab], astray |-> astray]
            /\ pages'[p].known = doc[pages[p].tab] /\ task[k].at = "checked"
        BY <1>2, <1>5, <1>3, <3>2 DEF Run
      <4>2. SUFFICES ASSUME ~astray PROVE doc[pages[p].tab] = task[k].taken
        BY <4>1 DEF HandlesExpire
      <4>3. /\ handle # None /\ Current(handle) /\ p = handle.page /\ task[k].taken = handle.taken
            /\ pages[p].tree = handle.taken /\ ~pages[p].unread
        BY <1>1, <4>1, <4>2 DEF HandleInv
      <4>4. pages'[p].tree = pages[p].tree
        <5>1. pages[p].tree # None
          BY <1>4, <4>3
        <5> QED BY <1>2, <1>3, <1>4, <4>3, <5>1, SyncedPages
      <4>5. pages'[p].tree = doc[pages[p].tab]
        BY <1>4, <1>5, <4>1
      <4> QED BY <4>3, <4>4, <4>5
    <3> QED BY <1>9, <3>1, <3>2
  <2> QED BY <1>6, <1>7, <2>2, <2>3 DEF OneTaskInv
<1> QED BY <1>8, <1>9

\* The session that was attached is enabled; no handle is of it yet.
LEMMA EnableOne ==
    ASSUME NEW k \in Tasks, OneTaskInv(k), SoundInv', FetchEnable(k)
    PROVE  OneTaskInv(k)'
<1>1. /\ SoundInv /\ CallInv(k) /\ LookInv(k) /\ HandleInv(k) /\ HandlesExpire
  BY DEF OneTaskInv
<1> DEFINE p == task[k].page
           d == doc[pages[p].tab]
<1>2. /\ UNCHANGED <<active, current, controllers, clients, handle, evaluated, selected, astray>>
      /\ pages' = [Synced(p) EXCEPT ![p].on = TRUE, ![p].known = d, ![p].tree = d]
      /\ task[k].at = "enable" /\ task'[k].at = "have"
      /\ task'[k].page = controllers[task[k].ctl].page /\ task'[k].asked = task[k].asked
  BY <1>1 DEF FetchEnable, browser, history, SoundInv, TypesInv, TaskRecord
<1>3. /\ p \in 1 .. Len(pages) /\ d \in Docs
      /\ current # 0 => Cached \in 0 .. Len(pages)
      /\ handle # None => handle.page \in 1 .. Len(pages)
      /\ \A q \in 1 .. Len(pages) : pages[q].gen \in Nat
  <2>1. p \in 0 .. Len(pages) /\ TaskInv(k) /\ Len(pages) \in Nat /\ BrowserTypes /\ CacheTypes
    BY <1>1, SoundOf
  <2>2. p \in 1 .. Len(pages)
    BY <1>2, <2>1 DEF TaskInv
  <2>3. pages[p] \in PageRecord
    BY <2>1, <2>2 DEF CacheTypes
  <2>4. pages[p].tab \in Tabs
    BY <2>3 DEF PageRecord
  <2>5. d \in Docs
    BY <2>1, <2>4 DEF BrowserTypes
  <2> QED BY <1>1, <2>2, <2>5, OneOf
<1>4. task[k].ctl = current /\ current # 0 /\ ~controllers[current].closed
  BY <1>1, <1>2 DEF CallInv
<1> HIDE DEF d, p
<1>5. \A q \in 1 .. Len(pages) :
         /\ pages'[q].tab = pages[q].tab
         /\ pages'[q].unread => pages[q].unread
         /\ q # p => pages'[q].gen = pages[q].gen /\ pages'[q].tree = pages[q].tree
  BY <1>1, <1>2, <1>3, EnabledPages
<1>6. CallInv(k)'
  BY <1>1, <1>2, <1>4 DEF CallInv, Cached
<1>7. LookInv(k)'
  <2>1. task'[k].page = Cached' /\ Cached' = Cached /\ current' = current
    BY <1>2, <1>4 DEF Cached
  <2>2. Cached # 0 /\ current # 0 => pages'[Cached].tab = pages[Cached].tab
    BY <1>3, <1>5
  <2>3. ~selected /\ current # 0 => Cached = 0 \/ pages[Cached].tab = active
    BY <1>1, <1>2 DEF LookInv
  <2>4. ~selected' /\ current' # 0 => Cached' = 0 \/ pages'[Cached'].tab = active'
    BY <1>2, <2>1, <2>2, <2>3
  <2> QED BY <1>2, <2>1, <2>4 DEF LookInv
<1>8. HandleInv(k)'
  <2>1. handle # None => handle.page # p
    BY <1>1, <1>2 DEF LookInv, p
  <2>2. handle # None => pages'[handle.page].gen >= pages[handle.page].gen
    BY <1>3, <1>5, <2>1
  <2>3. handle # None /\ Current(handle) =>
           /\ pages'[handle.page].tree = pages[handle.page].tree
           /\ ~astray' => /\ current' # 0 /\ controllers'[current'].page = handle.page
                          /\ task'[k].at # "answered" => ~pages'[handle.page].unread
    BY <1>1, <1>2, <1>3, <1>5, <2>1 DEF HandleInv, Cached
  <2> QED BY <1>1, <1>2, <2>2, <2>3, HandleKept
<1>9. HandlesExpire'
  BY <1>1, <1>2 DEF HandlesExpire
<1> QED BY <1>6, <1>7, <1>8, <1>9 DEF OneTaskInv

LEMMA OneInitially == ASSUME NEW k \in Tasks, Init PROVE OneTaskInv(k)
<1>1. SoundInv
  BY SoundInitially
<1>2. task[k].at = "idle"
  BY IdleTypes DEF Init
<1>3. CallInv(k)
  BY <1>2 DEF Init, CallInv
<1>4. LookInv(k) /\ HandleInv(k) /\ HandlesExpire
  BY <1>2 DEF Init, LookInv, HandleInv, HandlesExpire
<1> QED BY <1>1, <1>3, <1>4 DEF OneTaskInv

LEMMA OneStep ==
    ASSUME NEW k, Tasks = {k}, OneTaskInv(k), [Next]_vars
    PROVE  OneTaskInv(k)'
<1>1. SoundInv' /\ k \in Tasks
  BY SoundNext DEF OneTaskInv
<1>2. CASE UNCHANGED vars
  <2>1. UNCHANGED <<active, doc, shut, current, controllers, clients, pages, handle, task>>
        /\ UNCHANGED <<evaluated, selected, astray>>
    BY <1>2 DEF vars, browser, cache, history
  <2>2. CallInv(k)'
    BY <2>1 DEF OneTaskInv, CallInv, Cached
  <2>3. LookInv(k)'
    BY <2>1 DEF OneTaskInv, LookInv, Cached, Resolved
  <2>4. HandleInv(k)' /\ HandlesExpire'
    BY <2>1 DEF OneTaskInv, HandleInv, HandlesExpire, Cached, Current
  <2> QED BY <1>1, <2>2, <2>3, <2>4 DEF OneTaskInv
<1>3. CASE PageMove \/ Navigate(k)
  BY <1>1, <1>3, NavigationsOne
<1>4. CASE Switch(k) \/ FetchTarget(k) \/ UseFrame(k) \/ Fail(k)
  BY <1>1, <1>4, TaskStepsOne
<1>5. CASE Landed(k)
  BY <1>1, <1>5, LandedOne
<1>6. CASE Reset(k) \/ ResetEnd(k)
  BY <1>1, <1>6, ResetsOne
<1>7. ASSUME NEW asked \in Targets \union {None}, FetchStart(k, asked) PROVE OneTaskInv(k)'
  BY <1>1, <1>7, FetchStartOne
<1>8. CASE FetchClient(k) \/ FetchTargets(k)
  BY <1>1, <1>8, ClientsOne
<1>9. CASE FetchAttach(k)
  BY <1>1, <1>9, AttachOne
<1>10. CASE FetchEnable(k)
  BY <1>1, <1>10, EnableOne
<1>11. CASE TakeFrame(k) \/ Run(k) \/ FailSynced(k)
  BY <1>1, <1>11, UsesOne
<1> QED BY <1>2, <1>3, <1>4, <1>5, <1>6, <1>7, <1>8, <1>9, <1>10, <1>11 DEF Next

-----------------------------------------------------------------------------

\* For any number of tasks, tabs and targets: what is cached was created, no session
\* is attached to a tab that does not exist, no task waits for a client that was
\* not created (TypeOK).
THEOREM CacheIsTyped == Spec => []TypeOK
<1>1. SoundInv => TypeOK
  <2> SUFFICES ASSUME SoundInv PROVE TypeOK
    OBVIOUS
  <2>1. /\ BrowserTypes /\ CacheTypes /\ task \in [Tasks -> TaskRecord] /\ \A k \in Tasks : TaskInv(k)
        /\ Len(controllers) \in Nat /\ Len(clients) \in Nat /\ Len(pages) \in Nat
    BY DEF SoundInv, TypesInv, CacheTypes
  <2>2. current \in 0 .. Len(controllers)
    BY <2>1 DEF CacheTypes
  <2>3. ASSUME NEW c \in DOMAIN controllers
        PROVE  controllers[c] \in [closed : BOOLEAN, client : 0 .. Len(clients), page : 0 .. Len(pages)]
    <3>1. c \in 1 .. Len(controllers)
      BY <2>1 DEF CacheTypes
    <3>2. /\ controllers[c] \in ControllerRecord
          /\ controllers[c].client \in 0 .. Len(clients) /\ controllers[c].page \in 0 .. Len(pages)
      BY <2>1, <3>1, ControllerAt
    <3> QED BY <3>2 DEF ControllerRecord
  <2>4. \A n \in DOMAIN clients : clients[n] \in {"new", "open", "closed"}
    BY <2>1 DEF CacheTypes
  <2>5. ASSUME NEW p \in DOMAIN pages
        PROVE  pages[p] \in [client : 1 .. Len(clients), tab : Tabs, gen : Nat, on : BOOLEAN,
                             known : Docs \union {None}, tree : Docs \union {None}, unread : BOOLEAN]
    <3>1. pages[p] \in PageRecord /\ pages[p].client \in 1 .. Len(clients)
      BY <2>1 DEF CacheTypes
    <3> QED BY <3>1 DEF PageRecord, MaybeDoc
  <2>6. handle \in [page : 1 .. Len(pages), gen : Nat, taken : Docs] \union {None}
    BY <2>1 DEF CacheTypes
  <2>7. ASSUME NEW k \in Tasks
        PROVE  task[k] \in
                 [at : {"idle", "answered", "resetting", "connect", "list", "resolve", "attach",
                        "enable", "have", "checked"},
                  asked : Targets \union {None}, tab : Tabs \union {None},
                  ctl : 0 .. Len(controllers), client : 0 .. Len(clients),
                  page : 0 .. Len(pages), taken : Docs \union {None}]
    <3>1. /\ task[k] \in TaskRecord
          /\ task[k].ctl \in 0 .. Len(controllers) /\ task[k].client \in 0 .. Len(clients)
          /\ task[k].page \in 0 .. Len(pages)
      BY SoundOf
    <3> QED BY <3>1 DEF TaskRecord, Steps, MaybeTab, MaybeDoc
  <2> QED BY <2>1, <2>2, <2>3, <2>4, <2>5, <2>6, <2>7 DEF TypeOK, BrowserTypes
<1> QED BY <1>1, SoundInitially, SoundNext, PTL DEF Spec

\* A synchronous browser, or one asynchronous task: between calls no socket is open
\* but the one the current controller can close, after any calls that failed half-way,
\* launches and closes (ClientsReleased).
THEOREM ClientsAlwaysReleased ==
    ASSUME NEW k, Tasks = {k} PROVE Spec => []ClientsReleased
<1>1. OneTaskInv(k) => ClientsReleased
  BY DEF OneTaskInv, CallInv, ClientsReleased, SoundInv, TypesInv, CacheTypes
<1>2. Init => OneTaskInv(k)
  BY OneInitially
<1>3. OneTaskInv(k) /\ [Next]_vars => OneTaskInv(k)'
  BY OneStep
<1> QED BY <1>1, <1>2, <1>3, PTL DEF Spec

\* For the same: calls that select no target are about the active page until the
\* program selects one, and again once the cache was dropped (CacheFollowsActiveTab).
THEOREM CacheAlwaysFollows ==
    ASSUME NEW k, Tasks = {k} PROVE Spec => []CacheFollowsActiveTab
<1>1. OneTaskInv(k) => CacheFollowsActiveTab
  BY DEF OneTaskInv, LookInv, CacheFollowsActiveTab, ActivePageIsCached, Quiescent, Cached
<1>2. Init => OneTaskInv(k)
  BY OneInitially
<1>3. OneTaskInv(k) /\ [Next]_vars => OneTaskInv(k)'
  BY OneStep
<1> QED BY <1>1, <1>2, <1>3, PTL DEF Spec

\* For the same: as long as no other target is selected and no page moves by itself, a
\* script evaluated through a frame handle runs in the document the handle was taken
\* from or not at all, also when the page's events were dropped by another session of
\* the client (HandlesExpire).
THEOREM HandlesAlwaysExpire ==
    ASSUME NEW k, Tasks = {k} PROVE Spec => []HandlesExpire
<1>1. OneTaskInv(k) => HandlesExpire
  BY DEF OneTaskInv
<1>2. Init => OneTaskInv(k)
  BY OneInitially
<1>3. OneTaskInv(k) /\ [Next]_vars => OneTaskInv(k)'
  BY OneStep
<1> QED BY <1>1, <1>2, <1>3, PTL DEF Spec

=============================================================================
