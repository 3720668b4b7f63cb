-------------------------------- MODULE CdpCache --------------------------------
(***************************************************************************)
(* Direct CDP access: what the program caches about the browser's tabs.    *)
(* The browser controller keeps one CDP controller (_cdp_controller), that *)
(* keeps one client and one page session, and a page session keeps the     *)
(* frames and execution contexts it was told of.  Native commands that     *)
(* change the page invalidate the cache after their answer; a launch and a *)
(* close drop the CDP controller; CDP events invalidate a page session.    *)
(*                                                                         *)
(* A step ends at an await: asyncio runs other tasks there.  Sync          *)
(* controllers (CDPController, CDPPageSession) run the same code without   *)
(* awaits, and are the instance with one task.  Any call may fail between  *)
(* two of its steps: a timeout, a protocol error, a closed client.  A CDP  *)
(* exchange is one step, its request and response are not apart, and       *)
(* enabling a page session is one step.                                    *)
(*                                                                         *)
(* Controllers, clients and page sessions are numbered in the order they   *)
(* are created; 0 is Python's None.  A document is the number of           *)
(* navigations its tab has seen; a main frame keeps its id across them.    *)
(***************************************************************************)
EXTENDS Naturals, Sequences

CONSTANTS
    Tasks,          \* asyncio tasks (a synchronous Browser is one task)
    Tabs,
    Home,           \* the tab that is active first
    Targets,        \* the tabs the program selects with browser.cdp.target(...)
    PageMoves,      \* pages also change documents without the controller's notice
    None,
    MaxDoc, MaxControllers, MaxClients, MaxPages    \* bounds on what is created

ASSUME CdpAssumption ==
    /\ Home \in Tabs
    /\ Targets \subseteq Tabs
    /\ None \notin Tabs \union Nat
    /\ PageMoves \in BOOLEAN
    /\ {MaxDoc, MaxControllers, MaxClients, MaxPages} \subseteq Nat

VARIABLES
    active,         \* the engine's active tab
    doc,            \* the document of each tab
    shut,           \* the browser controller was closed
    current,        \* AsyncController._cdp_controller
    controllers,    \* AsyncCDPController._closed, _client, _page
    clients,        \* AsyncCDPClient: "new" before its socket is connected
    pages,          \* AsyncCDPPageSession
    handle,         \* the AsyncFrame the program retains
    task,           \* per task: the call it is in, and its local variables
    evaluated,      \* history: the last evaluation through a handle
    selected,       \* history: a target was selected since the cache was last dropped
    astray          \* history: a target was selected, or a page moved by itself, since
                    \* the handle was taken

browser == <<active, doc, shut>>
cache == <<current, controllers, clients, pages>>
history == <<evaluated, selected, astray>>
vars == <<browser, cache, handle, task, history>>

-----------------------------------------------------------------------------

Docs == 0 .. MaxDoc

Idle == [at |-> "idle", asked |-> None, tab |-> None,
         ctl |-> 0, client |-> 0, page |-> 0, taken |-> None]

Empty == [closed |-> FALSE, client |-> 0, page |-> 0]

\* on: the CDP domains of the session are enabled; known: the document whose
\* execution contexts it holds; tree: the one whose frames it holds; unread:
\* the client holds events of a navigation that it did not process.
Attached(client, tab) ==
    [client |-> client, tab |-> tab, gen |-> 0, on |-> FALSE,
     known |-> None, tree |-> None, unread |-> FALSE]

Init ==
    /\ active = Home
    /\ doc = [t \in Tabs |-> 0]
    /\ shut = FALSE
    /\ current = 0
    /\ controllers = << >>
    /\ clients = << >>
    /\ pages = << >>
    /\ handle = None
    /\ task = [k \in Tasks |-> Idle]
    /\ evaluated = None
    /\ selected = FALSE
    /\ astray = FALSE

MoveTo(k, at) == task' = [task EXCEPT ![k].at = at]

Return(k) == task' = [task EXCEPT ![k] = Idle]

-----------------------------------------------------------------------------
(* What happens to the cache.                                              *)

\* Mutant of Invalidated: the generation stays, handles look current.
SameGeneration(p) == [p EXCEPT !.known = None, !.tree = None]

Invalidated(p) == [p EXCEPT !.gen = @ + 1, !.known = None, !.tree = None]

\* Mutant of Forgotten: the page session is invalidated but stays cached.
Retained(c) == c

\* The controller without its page session.
Forgotten(c) == [c EXCEPT !.page = 0]

\* All page sessions once controller c invalidated the one it has cached.
PagesWithout(c) ==
    LET p == controllers[c].page
    IN  IF p = 0 THEN pages ELSE [pages EXCEPT ![p] = Invalidated(@)]

\* Mutant of ClientsWithout: the controller forgets a client it never closed.
UnclosedClients(c) == clients

\* The clients once controller c is closed.
ClientsWithout(c) ==
    LET n == controllers[c].client
    IN  IF n = 0 THEN clients ELSE [clients EXCEPT ![n] = "closed"]

\* A connected client hears of the new document of tab t.
Told(t) ==
    [p \in DOMAIN pages |->
        [pages[p] EXCEPT !.unread =
            @ \/ (pages[p].tab = t /\ pages[p].on /\ clients[pages[p].client] = "open")]]

NewDocument(t) ==
    /\ doc[t] < MaxDoc
    /\ doc' = [doc EXCEPT ![t] = @ + 1]
    /\ pages' = Told(t)

\* A page session reads its client's events; those of the others are dropped.
\* It is enabled anew when it holds no contexts, which tells it the current
\* ones only the first time, and its frames are fetched when it holds none.
Synced(p) ==
    LET read == IF pages[p].unread
                THEN [Invalidated(pages[p]) EXCEPT !.known = doc[pages[p].tab]]
                ELSE pages[p]
        told == IF read.known = None /\ ~read.on
                THEN [read EXCEPT !.known = doc[read.tab], !.on = TRUE]
                ELSE read
    IN  [q \in DOMAIN pages |->
            IF q = p
            THEN [told EXCEPT !.unread = FALSE,
                              !.tree = IF @ = None THEN doc[told.tab] ELSE @]
            ELSE IF pages[q].client = pages[p].client
                 THEN [pages[q] EXCEPT !.unread = FALSE]
                 ELSE pages[q]]

-----------------------------------------------------------------------------
(* Native commands that change the page.                                   *)

\* navigate, setcontent, back, forward, reload: the engine's answer is due.
Navigate(k) ==
    /\ task[k].at = "idle"
    /\ ~shut
    /\ NewDocument(active)
    /\ MoveTo(k, "answered")
    /\ UNCHANGED <<active, shut, current, controllers, clients, handle, history>>

\* tab_switch, tab_new, tab_close, window_new
Switch(k) ==
    /\ task[k].at = "idle"
    /\ ~shut
    /\ \E t \in Tabs \ {active} : active' = t
    /\ MoveTo(k, "answered")
    /\ UNCHANGED <<doc, shut, cache, handle, history>>

\* The answer of such a command: forget the page session.  A closed controller
\* raises instead.
Landed(k) ==
    /\ task[k].at = "answered"
    /\ IF current = 0 \/ controllers[current].closed
       THEN UNCHANGED <<controllers, pages>>
       ELSE /\ pages' = PagesWithout(current)
            /\ controllers' = [controllers EXCEPT ![current] = Forgotten(@)]
    /\ selected' = FALSE
    /\ Return(k)
    /\ UNCHANGED <<browser, current, clients, handle, evaluated, astray>>

\* A link, a script, or a command that navigated and then failed: nothing in
\* the program is told but the CDP client.
PageMove ==
    /\ PageMoves
    /\ \E t \in Tabs : NewDocument(t)
    /\ astray' = TRUE
    /\ UNCHANGED <<active, shut, current, controllers, clients, handle, task, evaluated, selected>>

\* Closing the client waits for its socket, when it has one.
Waits(c) ==
    LET n == controllers[c].client IN n # 0 /\ clients[n] = "open"

\* The answer of a launch that succeeded, or close(): the controller is closed
\* and, unless that has to wait, dropped.  (A close() resets once more when its
\* own answer comes; no client can be reached through a controller by then.)
Reset(k) ==
    /\ task[k].at = "idle"
    /\ ~shut
    /\ shut' \in BOOLEAN
    /\ IF current = 0
       THEN UNCHANGED <<cache, task>>
       ELSE /\ pages' = PagesWithout(current)
            /\ clients' = ClientsWithout(current)
            /\ controllers' = [controllers EXCEPT
                 ![current] = [Forgotten(@) EXCEPT
                     !.closed = TRUE,
                     !.client = IF Waits(current) THEN controllers[current].client ELSE 0]]
            /\ IF Waits(current)
               THEN /\ task' = [task EXCEPT ![k].at = "resetting", ![k].ctl = current]
                    /\ UNCHANGED current
               ELSE /\ current' = 0
                    /\ UNCHANGED task
    /\ selected' = FALSE
    /\ UNCHANGED <<active, doc, handle, evaluated, astray>>

\* The socket is closed: whichever controller is current by now is dropped.
ResetEnd(k) ==
    /\ task[k].at = "resetting"
    /\ controllers' = [controllers EXCEPT ![task[k].ctl].client = 0]
    /\ current' = 0
    /\ Return(k)
    /\ UNCHANGED <<browser, clients, pages, handle, history>>

-----------------------------------------------------------------------------
(* _page_session: the cached page session, or one attached to a tab.       *)

\* The cached page session answers a call that selects no target.
FromCache(c, asked) == c.page # 0 /\ asked = None

\* The tab a call is about: the selected one, or the active tab's, found by
\* the URL the engine reports.
Resolved(asked) == IF asked = None THEN active ELSE asked

CurrentOr(new) == IF current = 0 THEN new ELSE current

FetchStart(k, asked) ==
    LET c == CurrentOr(Len(controllers) + 1)
        all == IF current = 0 THEN Append(controllers, Empty) ELSE controllers
        own == all[c]
    IN  /\ task[k].at = "idle"
        /\ c <= MaxControllers
        /\ ~own.closed
        /\ current' = c
        /\ controllers' = all
        /\ task' = [task EXCEPT ![k] =
             IF FromCache(own, asked)
             THEN [Idle EXCEPT !.at = "have", !.asked = asked, !.page = own.page]
             ELSE IF own.client # 0
             THEN [Idle EXCEPT !.at = "list", !.asked = asked, !.ctl = c, !.client = own.client]
             ELSE IF shut THEN Idle
             ELSE [Idle EXCEPT !.at = "connect", !.asked = asked, !.ctl = c]]
        /\ selected' = (selected \/ asked # None)
        /\ astray' = (astray \/ asked # None)
        /\ UNCHANGED <<browser, clients, pages, handle, evaluated>>

\* The engine answered cdp_url: a client is created, whatever happened to the
\* controller or its client in between.
FetchClient(k) ==
    /\ task[k].at = "connect"
    /\ Len(clients) < MaxClients
    /\ clients' = Append(clients, "new")
    /\ controllers' = [controllers EXCEPT ![task[k].ctl].client = Len(clients) + 1]
    /\ task' = [task EXCEPT ![k].at = "list", ![k].client = Len(clients) + 1]
    /\ UNCHANGED <<browser, current, pages, handle, history>>

\* Target.getTargets, which connects the client; then the engine is asked for
\* the active tab's URL.
FetchTargets(k) ==
    LET n == task[k].client
    IN  /\ task[k].at = "list"
        /\ clients[n] # "closed"
        /\ clients' = [clients EXCEPT ![n] = "open"]
        /\ IF shut THEN Return(k) ELSE MoveTo(k, "resolve")
        /\ UNCHANGED <<browser, current, controllers, pages, handle, history>>

\* The cached session is taken if it is attached to the tab already.
FetchTarget(k) ==
    LET tab == Resolved(task[k].asked)
        p == controllers[task[k].ctl].page
    IN  /\ task[k].at = "resolve"
        /\ task' = [task EXCEPT ![k] =
             IF p # 0 /\ pages[p].tab = tab
             THEN [@ EXCEPT !.at = "have", !.tab = tab, !.page = p]
             ELSE [@ EXCEPT !.at = "attach", !.tab = tab]]
        /\ UNCHANGED <<browser, cache, handle, history>>

\* Target.attachToTarget: the session is cached before it is enabled.
FetchAttach(k) ==
    LET t == task[k]
        p == Len(pages) + 1
    IN  /\ t.at = "attach"
        /\ clients[t.client] = "open"
        /\ p <= MaxPages
        /\ pages' = Append(pages, Attached(t.client, t.tab))
        /\ controllers' = [controllers EXCEPT ![t.ctl].page = p]
        /\ task' = [task EXCEPT ![k].at = "enable", ![k].page = p]
        /\ UNCHANGED <<browser, current, clients, handle, history>>

\* CDPPageSession.enable.  What is returned is the session the controller has
\* cached by then, which need not be the one that was enabled.
FetchEnable(k) ==
    LET t == task[k]
        tab == pages[t.page].tab
    IN  /\ t.at = "enable"
        /\ clients[t.client] = "open"
        /\ pages' = [Synced(t.page) EXCEPT ![t.page].on = TRUE,
                       ![t.page].known = doc[tab], ![t.page].tree = doc[tab]]
        /\ task' = [task EXCEPT ![k].at = "have", ![k].page = controllers[t.ctl].page]
        /\ UNCHANGED <<browser, current, controllers, clients, handle, history>>

-----------------------------------------------------------------------------
(* What is done with a page session.                                       *)

\* frame(): a handle of the document whose frames the session holds.
TakeFrame(k) ==
    LET p == task[k].page
    IN  /\ task[k].at = "have"
        /\ p # 0 /\ clients[pages[p].client] = "open"
        /\ pages' = Synced(p)
        /\ handle' = [page |-> p, gen |-> pages'[p].gen, taken |-> pages'[p].tree]
        /\ Return(k)
        /\ astray' = FALSE
        /\ UNCHANGED <<browser, current, controllers, clients, evaluated, selected>>

\* Frame.evaluate: a handle of an older generation raises CDPStaleObjectError.
\* (cdp.evaluate(frame=...) checks in addition that the handle's session is the
\* one it got from the cache.)
Current(h) == h.gen = pages[h.page].gen

UseFrame(k) ==
    /\ task[k].at = "idle"
    /\ handle # None /\ Current(handle)
    /\ task' = [task EXCEPT ![k].at = "checked", ![k].page = handle.page,
                            ![k].taken = handle.taken]
    /\ UNCHANGED <<browser, cache, handle, history>>

\* The events are read, then the script runs in the frame's default context of
\* the document the session knows, if the tab still shows it.
Run(k) ==
    LET t == task[k]
    IN  /\ t.at = "checked"
        /\ clients[pages[t.page].client] = "open"
        /\ pages' = Synced(t.page)
        /\ pages'[t.page].known = doc[pages[t.page].tab]
        /\ evaluated' = [taken |-> t.taken, ran |-> doc[pages[t.page].tab],
                          astray |-> astray]
        /\ Return(k)
        /\ UNCHANGED <<browser, current, controllers, clients, handle, selected, astray>>

\* An answer that does not come or is an error; a client or a controller that
\* was closed; a session the controller no longer has.
Fail(k) ==
    /\ task[k].at \in {"connect", "list", "resolve", "attach", "enable", "have", "checked"}
    /\ Return(k)
    /\ UNCHANGED <<browser, cache, handle, history>>

\* The same after the events were read.
FailSynced(k) ==
    LET p == task[k].page
    IN  /\ task[k].at \in {"have", "checked"}
        /\ p # 0 /\ clients[pages[p].client] = "open"
        /\ pages' = Synced(p)
        /\ Return(k)
        /\ UNCHANGED <<browser, current, controllers, clients, handle, history>>

Next ==
    \/ \E k \in Tasks :
        \/ Navigate(k) \/ Switch(k) \/ Landed(k)
        \/ Reset(k) \/ ResetEnd(k)
        \/ \E asked \in Targets \union {None} : FetchStart(k, asked)
        \/ FetchClient(k) \/ FetchTargets(k) \/ FetchTarget(k)
        \/ FetchAttach(k) \/ FetchEnable(k)
        \/ TakeFrame(k) \/ UseFrame(k) \/ Run(k)
        \/ Fail(k) \/ FailSynced(k)
    \/ PageMove

Spec == Init /\ [][Next]_vars

-----------------------------------------------------------------------------
(* Properties.                                                             *)

\* Values keep their types: no session is attached to a tab that does not
\* exist, no task waits for a client that was not created.
TypeOK ==
    /\ active \in Tabs
    /\ doc \in [Tabs -> Docs]
    /\ shut \in BOOLEAN
    /\ current \in 0 .. Len(controllers)
    /\ \A c \in DOMAIN controllers :
        controllers[c] \in [closed : BOOLEAN, client : 0 .. Len(clients), page : 0 .. Len(pages)]
    /\ \A n \in DOMAIN clients : clients[n] \in {"new", "open", "closed"}
    /\ \A p \in DOMAIN pages :
        pages[p] \in [client : 1 .. Len(clients), tab : Tabs, gen : Nat, on : BOOLEAN,
                      known : Docs \union {None}, tree : Docs \union {None}, unread : BOOLEAN]
    /\ handle \in [page : 1 .. Len(pages), gen : Nat, taken : Docs] \union {None}
    /\ \A k \in Tasks : task[k] \in
        [at : {"idle", "answered", "resetting", "connect", "list", "resolve", "attach",
               "enable", "have", "checked"},
         asked : Targets \union {None}, tab : Tabs \union {None},
         ctl : 0 .. Len(controllers), client : 0 .. Len(clients),
         page : 0 .. Len(pages), taken : Docs \union {None}]
    /\ evaluated \in [taken : Docs, ran : Docs, astray : BOOLEAN] \union {None}
    /\ selected \in BOOLEAN
    /\ astray \in BOOLEAN

Quiescent == \A k \in Tasks : task[k].at = "idle"

\* Calls that select no target are about the active page: between calls the
\* cached page session, which answers them, is attached to the active tab.
ActivePageIsCached ==
    Quiescent /\ current # 0 /\ controllers[current].page # 0
        => pages[controllers[current].page].tab = active

\* The same, as far as the code keeps it: until the program selects a target,
\* and again once the cache was dropped (_page_session, invalidate).
CacheFollowsActiveTab == ~selected => ActivePageIsCached

\* A script evaluated through a frame handle runs in the document the handle
\* was taken from, or not at all (_check_frame), as long as the controller was
\* told of the navigations and had no other target selected since.
HandlesExpire ==
    evaluated # None => evaluated.astray \/ evaluated.ran = evaluated.taken

\* Between calls no client is connected but the one the current controller can
\* close (_cdp_client, _reset_cdp): the socket of any other would stay open.
ClientsReleased ==
    Quiescent => \A n \in DOMAIN clients :
        clients[n] = "open" => current # 0 /\ controllers[current].client = n

=============================================================================
