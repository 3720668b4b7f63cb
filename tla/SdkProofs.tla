-------------------------------- MODULE SdkProofs ---------------------------------
(***************************************************************************)
(* What is proved of the domain policy, the registry of the adapters and   *)
(* the startup, which share no state, and at the end of the parts of the   *)
(* SDK side by side, as SdkMC has them.                                    *)
(***************************************************************************)
EXTENDS SdkMC, OperationsProofs, DocumentsProofs, CdpCacheProofs, FiniteSetTheorems, TLAPS

-----------------------------------------------------------------------------
(***************************************************************************)
(* The domain policy.                                                      *)
(*                                                                         *)
(* The allowlist holds for every set of hosts, every relation between      *)
(* them and every allowlist: what a command that passed names, and what an *)
(* export that was not asked for everything holds, is permitted.  The      *)
(* allowlist of a session may only be set where there was none, or again   *)
(* to itself, so what was checked under it stays permitted.                *)
(***************************************************************************)

PolicyTypeOK == patterns \in Allowlists

PolicyInv == PolicyTypeOK /\ PassedIsAllowed

-----------------------------------------------------------------------------

\* Matching a host against an allowlist, and what permits it.
LEMMA AllowedIsPermitted ==
    ASSUME NEW h, patterns # {}, IsDomainAllowed(patterns, h)
    PROVE  Permitted(h)
  BY DEF IsDomainAllowed, Permitted, Under

LEMMA UrlIsPermitted ==
    ASSUME NEW url, patterns # {}, UrlAllowed(patterns, url)
    PROVE  Permitted(url)
  BY AllowedIsPermitted DEF UrlAllowed

\* A wildcard is let through only below an entry with one, and what is below a host
\* below a domain is below the domain.
LEMMA MatchedIsPermitted ==
    ASSUME PolicyTypeOK, patterns # {}, NEW p \in UrlPatterns, PatternAllowed(patterns, p),
           NEW h \in Matched(p)
    PROVE  Permitted(h)
<1>1. CASE p.kind = "host"
  <2>1. h = p.host /\ IsDomainAllowed(patterns, p.host)
    BY <1>1 DEF Matched, PatternAllowed
  <2> QED BY <2>1, AllowedIsPermitted
<1>2. CASE p.kind = "wildcard"
  <2>1. PICK e \in patterns : e.wild /\ Under(p.host, e.host)
    BY <1>2 DEF PatternAllowed, IsWildcardAllowed
  <2>2. h \in Hosts /\ <<h, p.host>> \in Below
    BY <1>2 DEF Matched
  <2>3. p.host \in Hosts /\ e.host \in Hosts
    BY <1>2, PolicyAssumption DEF UrlPatterns, PolicyTypeOK, Entries
  <2>4. <<h, e.host>> \in Below
    BY <2>1, <2>2, <2>3, PolicyAssumption DEF Under
  <2> QED BY <2>1, <2>4 DEF Permitted
<1>3. CASE p.kind \notin {"host", "wildcard"}
  BY <1>3 DEF Matched
<1> QED BY <1>1, <1>2, <1>3

\* Every method of the SDK that hands the engine a URL sends an action whose URL is
\* checked, and likewise for patterns.
LEMMA UrlsAreChecked ==
    SdkUrlActions \subseteq UrlTargetFields /\ SdkPatternActions \subseteq UrlPatternFields
<1>1. SdkUrlActions = {"navigate", "read", "tab_new", "addscript", "addstyle", "a11y"}
  BY DEF SdkUrlActions, PageOnly, TabCommands, Scripts, Diagnostics
<1>2. SdkPatternActions = {"route", "unroute", "wait"}
  BY DEF SdkPatternActions, Network, Document
<1> QED BY <1>1, <1>2 DEF UrlTargetFields, UrlTargetsButOne, UrlPatternFields

-----------------------------------------------------------------------------

\* Commands that get nothing back.
LEMMA PassesKeeps ==
    ASSUME PolicyInv, NEW action, NEW names, Passes(action, names),
           patterns # {} => \A h \in names : Permitted(h)
    PROVE  PolicyInv'
  BY DEF PolicyInv, PolicyTypeOK, PassedIsAllowed, Passes, Nothing, Permitted

LEMMA PolicyInitially == PolicyInit => PolicyInv
  BY DEF PolicyInit, PolicyInv, PolicyTypeOK, PassedIsAllowed, Nothing

LEMMA PolicyStep == PolicyInv /\ [PolicyNext]_policyVars => PolicyInv'
<1> SUFFICES ASSUME PolicyInv, [PolicyNext]_policyVars PROVE PolicyInv'
  OBVIOUS
<1>1. CASE UNCHANGED policyVars
  BY <1>1 DEF policyVars, PolicyInv, PolicyTypeOK, PassedIsAllowed, Permitted
<1>2. ASSUME NEW url, NEW action \in SdkUrlActions, SendUrl(action, url) PROVE PolicyInv'
  BY <1>2, UrlsAreChecked, UrlIsPermitted, PassesKeeps DEF SendUrl
<1>3. ASSUME NEW p \in UrlPatterns, NEW action \in SdkPatternActions, SendPattern(action, p)
      PROVE  PolicyInv'
  <2>1. patterns # {} => \A h \in Matched(p) : Permitted(h)
    BY <1>3, UrlsAreChecked, MatchedIsPermitted DEF SendPattern, PolicyInv
  <2> QED BY <1>3, <2>1, PassesKeeps DEF SendPattern
<1>4. ASSUME NEW url, Permissions(url) PROVE PolicyInv'
  BY <1>4, UrlIsPermitted, PassesKeeps DEF Permissions
<1>5. ASSUME NEW hosts, CookiesSet(hosts) PROVE PolicyInv'
  BY <1>5, UrlIsPermitted, PassesKeeps DEF CookiesSet, CookieAllowed
<1>6. ASSUME NEW unsafe, CookiesClear(unsafe) PROVE PolicyInv'
  BY <1>6, PassesKeeps DEF CookiesClear
<1>7. ASSUME NEW action, NEW urls, NEW unsafe, Exports(action, urls, unsafe) PROVE PolicyInv'
  <2>1. patterns # {} => \A h \in urls : Permitted(h)
    BY <1>7, UrlIsPermitted DEF Exports
  <2>2. patterns # {} /\ ~unsafe => \A h \in last'.gets : Permitted(h)
    BY <1>7, UrlIsPermitted DEF Exports, Filtered, CookieAllowed
  <2> QED BY <1>7, <2>1, <2>2 DEF Exports, PolicyInv, PolicyTypeOK, PassedIsAllowed, Permitted
<1>8. ASSUME NEW h, ThirdParty(h) PROVE PolicyInv'
  BY <1>8 DEF ThirdParty, PolicyInv, PolicyTypeOK, PassedIsAllowed, Permitted
<1>9. ASSUME NEW origins, StateLoad(origins) PROVE PolicyInv'
  BY <1>9, PassesKeeps DEF StateLoad
<1>10. ASSUME NEW requested \in Allowlists, NEW stored, LaunchWith(requested, stored)
       PROVE  PolicyInv'
  BY <1>10 DEF LaunchWith, PolicyInv, PolicyTypeOK, PassedIsAllowed, Nothing
<1> QED BY <1>1, <1>2, <1>3, <1>4, <1>5, <1>6, <1>7, <1>8, <1>9, <1>10 DEF PolicyNext

\* No command of the SDK that names hosts passes the allowlist with one that is not
\* permitted, and no filtered export holds one (policy.py:71-143, 160-275).
THEOREM AllowlistHolds == PolicySpec => []PassedIsAllowed
<1>1. PolicyInv => PassedIsAllowed
  BY DEF PolicyInv
<1> QED BY PolicyInitially, PolicyStep, <1>1, PTL DEF PolicySpec

-----------------------------------------------------------------------------
(***************************************************************************)
(* The registry.                                                           *)
(*                                                                         *)
(* No open controller is lost, and none is closed by two calls, for every  *)
(* set of threads, names and controllers.  What makes OpenIsReachable      *)
(* inductive is that a controller that is registered, or that a call took  *)
(* out, is not a new one: create() hands out another.                      *)
(***************************************************************************)

\* Controllers in the registry or in a call have been made.
MadeInv ==
    /\ \A n \in Registered : life[connections[n]] # "new"
    /\ \A t \in Threads : \A b \in duty[t] : life[b] # "new"

\* A call closes only what it took out.
DutyInv == \A t \in Threads : closing[t] \subseteq duty[t]

RegistryInv == RegistryTypeOK /\ OpenIsReachable /\ MadeInv /\ DutyInv

-----------------------------------------------------------------------------

\* The registry starts empty.
LEMMA RegistryInitially == RegistryInit => RegistryInv
  BY DEF RegistryInit, RegistryInv, RegistryTypeOK, OpenIsReachable, MadeInv, DutyInv, Registered

\* create: the name was free, and the controller is new to everybody.
LEMMA CreateKeeps ==
    ASSUME RegistryInv, NEW t \in Threads, NEW n \in Names, Create(t, n)
    PROVE  RegistryInv'
<1> USE RegistryAssumption
<1>1. PICK b \in Controllers :
        /\ life[b] = "new"
        /\ life' = [life EXCEPT ![b] = "open"]
        /\ nameOf' = [nameOf EXCEPT ![b] = n]
        /\ connections' = [connections EXCEPT ![n] = b]
  BY DEF Create
<1>2. UNCHANGED <<closing, duty>> /\ connections[n] = Absent
  BY DEF Create, Available
<1>3. RegistryTypeOK'
  BY <1>1, <1>2 DEF RegistryInv, RegistryTypeOK
<1>4. Registered' = Registered \union {n}
  BY <1>1, <1>2 DEF Registered, RegistryInv, RegistryTypeOK
<1>5. \A m \in Registered : m # n /\ connections'[m] = connections[m] /\ connections[m] # b
  BY <1>1, <1>2 DEF Registered, RegistryInv, RegistryTypeOK, MadeInv
<1>6. \A u \in Threads : b \notin duty[u]
  BY <1>1 DEF RegistryInv, MadeInv
<1>7. connections'[n] = b
  BY <1>1 DEF RegistryInv, RegistryTypeOK
<1>8. OpenIsReachable'
  <2>1. \A m \in Registered' : nameOf'[connections'[m]] = m
    BY <1>1, <1>4, <1>5, <1>7 DEF RegistryInv, RegistryTypeOK, OpenIsReachable, Registered
  <2>2. ASSUME NEW c \in Controllers, life'[c] = "open"
        PROVE  \/ \E m \in Registered' : connections'[m] = c
               \/ \E u \in Threads : c \in closing'[u]
    BY <2>2, <1>1, <1>2, <1>4, <1>5, <1>7 DEF RegistryInv, RegistryTypeOK, OpenIsReachable
  <2>3. ASSUME NEW u \in Threads
        PROVE  /\ \A other \in Threads \ {u} : duty'[u] \intersect duty'[other] = {}
               /\ \A m \in Registered' : connections'[m] \notin duty'[u]
    BY <1>2, <1>4, <1>5, <1>6, <1>7 DEF RegistryInv, OpenIsReachable
  <2> QED BY <2>1, <2>2, <2>3 DEF OpenIsReachable
<1>9. MadeInv' /\ DutyInv'
  BY <1>1, <1>2, <1>4, <1>5, <1>6, <1>7 DEF RegistryInv, RegistryTypeOK, MadeInv, DutyInv, Registered
<1> QED BY <1>3, <1>8, <1>9 DEF RegistryInv

\* close and close_all: what is taken out was registered under no other name.
LEMMA TakeOutKeeps ==
    ASSUME RegistryInv, NEW t \in Threads, NEW names \in SUBSET Registered,
           Free(t), TakeOut(t, names)
    PROVE  RegistryInv'
<1> DEFINE Out == {connections[n] : n \in names}
<1>1. /\ closing' = [closing EXCEPT ![t] = Out]
      /\ duty' = [duty EXCEPT ![t] = Out]
      /\ connections' = [n \in Names |-> IF n \in names THEN Absent ELSE connections[n]]
      /\ UNCHANGED <<nameOf, life>>
  BY DEF TakeOut
<1>2. Out \subseteq Controllers /\ names \subseteq Names
  BY DEF RegistryInv, RegistryTypeOK, Registered
<1>3. RegistryTypeOK'
  BY <1>1, <1>2 DEF RegistryInv, RegistryTypeOK
<1>4. Registered' = Registered \ names
  BY <1>1, <1>2 DEF Registered
<1>5. \A m \in Registered \ names : connections'[m] = connections[m] /\ connections[m] \notin Out
  BY <1>1, <1>2 DEF RegistryInv, OpenIsReachable, Registered
<1>6. closing[t] = {} /\ duty[t] = {}
  BY DEF RegistryInv, DutyInv, Free
<1>7. /\ closing'[t] = Out /\ duty'[t] = Out
      /\ \A u \in Threads \ {t} : closing'[u] = closing[u] /\ duty'[u] = duty[u]
  BY <1>1 DEF RegistryInv, RegistryTypeOK
<1>8. \A u \in Threads \ {t} : duty[u] \intersect Out = {}
  BY <1>2 DEF RegistryInv, OpenIsReachable, Registered
<1>9. OpenIsReachable'
  <2>1. \A m \in Registered' : nameOf'[connections'[m]] = m
    BY <1>1, <1>4, <1>5 DEF RegistryInv, OpenIsReachable
  <2>2. ASSUME NEW c \in Controllers, life'[c] = "open"
        PROVE  \/ \E m \in Registered' : connections'[m] = c
               \/ \E u \in Threads : c \in closing'[u]
    <3>1. CASE \E m \in Registered : connections[m] = c
      BY <3>1, <1>4, <1>5, <1>7
    <3>2. CASE \E u \in Threads : c \in closing[u]
      BY <3>2, <1>6, <1>7
    <3> QED BY <2>2, <3>1, <3>2, <1>1 DEF RegistryInv, OpenIsReachable
  <2>3. ASSUME NEW u \in Threads
        PROVE  /\ \A other \in Threads \ {u} : duty'[u] \intersect duty'[other] = {}
               /\ \A m \in Registered' : connections'[m] \notin duty'[u]
    BY <1>4, <1>5, <1>7, <1>8 DEF RegistryInv, OpenIsReachable
  <2> QED BY <2>1, <2>2, <2>3 DEF OpenIsReachable
<1>10. MadeInv'
  <2>1. \A c \in Out : life[c] # "new"
    BY DEF RegistryInv, MadeInv
  <2> QED BY <2>1, <1>1, <1>4, <1>5, <1>7 DEF RegistryInv, MadeInv
<1>11. DutyInv'
  BY <1>7 DEF RegistryInv, DutyInv
<1> QED BY <1>3, <1>9, <1>10, <1>11 DEF RegistryInv

\* A controller is closed: by the call that took it out, or by the program.
LEMMA CloseKeeps ==
    ASSUME RegistryInv, NEW t \in Threads, NEW b \in Controllers,
           life' = [life EXCEPT ![b] = "closed"],
           closing' = closing \/ closing' = [closing EXCEPT ![t] = @ \ {b}],
           UNCHANGED <<connections, nameOf, duty>>
    PROVE  RegistryInv'
<1>1. RegistryTypeOK'
  BY DEF RegistryInv, RegistryTypeOK
<1>2. Registered' = Registered
  BY DEF Registered
<1>3. \A u \in Threads : closing'[u] \subseteq closing[u] /\ closing[u] \ {b} \subseteq closing'[u]
  BY DEF RegistryInv, RegistryTypeOK
<1>4. \A c \in Controllers : life'[c] = IF c = b THEN "closed" ELSE life[c]
  BY DEF RegistryInv, RegistryTypeOK
<1>5. OpenIsReachable'
  BY <1>2, <1>3, <1>4 DEF RegistryInv, OpenIsReachable
<1>6. MadeInv'
  BY <1>2, <1>4 DEF RegistryInv, RegistryTypeOK, MadeInv, Registered
<1>7. DutyInv'
  BY <1>3 DEF RegistryInv, DutyInv
<1> QED BY <1>1, <1>5, <1>6, <1>7 DEF RegistryInv

\* A call that has nothing left to close ends.
LEMMA ReportKeeps ==
    ASSUME RegistryInv, NEW t \in Threads, Reports(t)
    PROVE  RegistryInv'
  BY DEF RegistryInv, RegistryTypeOK, OpenIsReachable, MadeInv, DutyInv, Reports, Registered

LEMMA RegistryStep == RegistryInv /\ [RegistryNext]_registryVars => RegistryInv'
<1> SUFFICES ASSUME RegistryInv, [RegistryNext]_registryVars PROVE RegistryInv'
  OBVIOUS
<1>1. CASE UNCHANGED registryVars
  BY <1>1 DEF registryVars, RegistryInv, RegistryTypeOK, OpenIsReachable, MadeInv, DutyInv, Registered
<1>2. ASSUME NEW t \in Threads, NEW n \in Names, Create(t, n) PROVE RegistryInv'
  BY <1>2, CreateKeeps
<1>3. ASSUME NEW t \in Threads, NEW n \in Names, CloseOne(t, n) PROVE RegistryInv'
  BY <1>3, TakeOutKeeps DEF CloseOne
<1>4. ASSUME NEW t \in Threads, CloseEvery(t) PROVE RegistryInv'
  BY <1>4, TakeOutKeeps DEF CloseEvery
<1>5. ASSUME NEW t \in Threads, NEW b \in Controllers, CloseHeld(t, b) PROVE RegistryInv'
  BY <1>5, CloseKeeps DEF CloseHeld
<1>6. ASSUME NEW t \in Threads, NEW b \in Controllers, Closes(t, b) PROVE RegistryInv'
  BY <1>6, CloseKeeps DEF Closes
<1>7. ASSUME NEW t \in Threads, NEW b \in Controllers, CloseRaises(t, b) PROVE RegistryInv'
  <2>1. closing' = [closing EXCEPT ![t] = @ \ {b}]
    BY <1>7 DEF CloseRaises, Attempted
  <2> QED BY <1>7, <2>1, CloseKeeps DEF CloseRaises
<1>8. ASSUME NEW t \in Threads, Reports(t) PROVE RegistryInv'
  BY <1>8, ReportKeeps
<1> QED BY <1>1, <1>2, <1>3, <1>4, <1>5, <1>6, <1>7, <1>8 DEF RegistryNext

\* Whatever create, close and close_all do at once, an open controller is in the
\* registry or about to be closed, and by one call only (agent.py:46-103).
THEOREM ControllersStayReachable == RegistrySpec => []OpenIsReachable
<1>1. RegistryInv => OpenIsReachable
  BY DEF RegistryInv
<1> QED BY RegistryInitially, RegistryStep, <1>1, PTL DEF RegistrySpec

\* When close() or close_all() returns or raises, every controller it took out of
\* the registry is closed (agent.py:82-103).
THEOREM CallsEndWhenClosed ==
    RegistrySpec => [][\A t \in Threads : \A b \in duty[t] :
                          b \notin duty'[t] => life[b] = "closed"]_registryVars
<1> DEFINE Ended == \A t \in Threads : \A b \in duty[t] : b \notin duty'[t] => life[b] = "closed"
<1>1. RegistryInv /\ [RegistryNext]_registryVars => [Ended]_registryVars
  <2> SUFFICES ASSUME RegistryInv, RegistryNext,
                      NEW t \in Threads, NEW b \in duty[t], b \notin duty'[t]
               PROVE  life[b] = "closed"
    BY DEF registryVars
  <2>1. Reports(t)
    BY DEF RegistryInv, RegistryTypeOK, RegistryNext, Create, CloseOne, CloseEvery, TakeOut, Free,
           CloseHeld, Closes, CloseRaises, Reports
  <2>2. b \in Controllers /\ life[b] # "new" /\ closing[t] = {}
    BY <2>1 DEF RegistryInv, RegistryTypeOK, MadeInv, Reports
  <2>3. \A u \in Threads : b \notin closing[u]
    BY <2>2 DEF RegistryInv, DutyInv, OpenIsReachable
  <2>4. \A n \in Registered : connections[n] # b
    BY DEF RegistryInv, OpenIsReachable
  <2> QED BY <2>2, <2>3, <2>4 DEF RegistryInv, RegistryTypeOK, OpenIsReachable
<1> QED BY RegistryInitially, RegistryStep, <1>1, PTL DEF RegistrySpec

-----------------------------------------------------------------------------
(***************************************************************************)
(* The startup.                                                            *)
(*                                                                         *)
(* The browser of a configuration is there before a command runs in it, for *)
(* any number of tasks.  WorkInv says what a task may rely on at each step, *)
(* from what it read before its awaits: the refusal of a second launch, the *)
(* local Chrome that was found or installed, the engine that was bound.    *)
(***************************************************************************)

Pcs == {"idle", "start", "install", "launching", "pending", "executing", "launched", "done", "failed"}

Works == [pc : Pcs, action : Commandable \union {"launch", "none"}, sees : BOOLEAN, tells : BOOLEAN]

StartupTypes ==
    /\ made \in [how : {"Browser", "launch", "attach"}, launch : LaunchSets,
                 target : CDPTarget \union {{}}, session : SessionOptions]
    /\ made.how = "Browser" => made.launch = {} /\ made.target = {}
    /\ standing \in {"asked", "refused", "made", "closing", "closed"}
    /\ chrome \in BOOLEAN /\ installed \in BOOLEAN /\ launched \in BOOLEAN /\ lost \in BOOLEAN
    /\ engine \in {Unset, configuration, Defaults}
    /\ work \in [Starters -> Works] /\ ahead \in [Starters -> SUBSET Starters]

\* What a task may rely on, from where it is and from what it read before its awaits.
WorkInv(t) ==
    LET w == work[t]
    IN  /\ w.pc # "idle" => Valid(configuration)
        /\ standing \in {"asked", "refused"} /\ w.pc # "idle" => w.action = "launch"
        /\ w.sees /\ standing # "closed" => engine # Unset
        /\ w.pc \in {"install", "executing"} /\ w.action \in {"navigate", "read"} => w.sees
        /\ w.pc \in {"launching", "pending"} /\ UsesLocalChrome(configuration) => chrome
        /\ w.pc = "executing" => w.action # "launch"
        /\ w.pc = "executing" /\ w.action \notin SkipsAutoInstall /\ standing # "closed" =>
              chrome \/ engine # Unset
        /\ w.pc = "launched" => w.tells
        /\ w.tells => w.pc \in AnsweredPcs /\ engine # Unset
        /\ standing = "closed" => w.pc \notin AnsweredPcs

\* The answer of the task, the status of the session, says that there is no browser.
SaysNone(w) == w.pc = "done" /\ w.action = SessionStatus.status /\ ~w.tells

BrowserInv ==
    /\ standing \notin {"asked", "refused"} \/ engine # Unset => Valid(configuration)
    /\ installed => chrome /\ UsesLocalChrome(configuration)
    /\ engine # Unset /\ UsesLocalChrome(engine) => chrome
    /\ launched /\ standing # "closed" => engine # Unset
    /\ standing \in {"made", "closing"} /\ made.how # "Browser" => engine # Unset /\ launched
    /\ standing = "closed" => engine = Unset
    /\ engine # Unset /\ ~lost => launched \/ \E t \in Starters : work[t].tells

\* That there was no browser is never heard after an answer that names one.
AnswerInv ==
    /\ \A t \in Starters : SaysNone(work[t]) => ~launched
    /\ \A t, u \in Starters : SaysNone(work[t]) /\ work[u].tells => t \in ahead[u]

StartupInv == StartupTypes /\ (\A t \in Starters : WorkInv(t)) /\ BrowserInv /\ AnswerInv

-----------------------------------------------------------------------------

LEMMA ConfigurationTypes ==
    ASSUME StartupTypes
    PROVE  /\ configuration # Unset /\ Defaults # Unset /\ UsesLocalChrome(Defaults)
           /\ made.how = "Browser" => UsesLocalChrome(configuration)
<1>1. /\ made.launch \in LaunchSets /\ made.target \in SUBSET {"url", "port"}
      /\ made.how = "Browser" => made.launch = {} /\ made.target = {}
  BY DEF StartupTypes, CDPTarget
<1>2. configuration \in Configurations /\ Defaults \in Configurations
  BY <1>1 DEF configuration, Defaults, Configuration, Configurations
<1>3. UsesLocalChrome(Defaults)
  BY DEF UsesLocalChrome, Defaults, Configuration
<1>4. made.how = "Browser" => UsesLocalChrome(configuration)
  BY <1>1 DEF UsesLocalChrome, configuration, Configuration
<1> QED BY <1>2, <1>3, <1>4, StartupAssumption

LEMMA WaitingTypes ==
    /\ Waiting \in Works
    /\ Waiting.pc = "idle" /\ Waiting.sees = FALSE /\ Waiting.tells = FALSE
BY DEF Waiting, Pcs, Works

\* A step that only goes further: nothing is torn down.
StartupOnward ==
    /\ made' = made
    /\ chrome => chrome'
    /\ engine # Unset => engine' # Unset
    /\ standing' = "closed" <=> standing = "closed"
    /\ standing' \in {"asked", "refused"} => standing \in {"asked", "refused"}

LEMMA WorkStays ==
    ASSUME NEW t \in Starters, WorkInv(t), StartupOnward, work'[t] = work[t]
    PROVE  WorkInv(t)'
<1>1. configuration' = configuration
  BY DEF StartupOnward, configuration
<1> QED BY <1>1 DEF WorkInv, StartupOnward

\* Such a step of one task.
LEMMA OneWorks ==
    ASSUME StartupInv, NEW t \in Starters, NEW w, work' = [work EXCEPT ![t] = w], StartupOnward, WorkInv(t)'
    PROVE  \A u \in Starters : WorkInv(u)'
<1> SUFFICES ASSUME NEW u \in Starters, u # t PROVE WorkInv(u)'
  OBVIOUS
<1>1. work'[u] = work[u] /\ WorkInv(u)
  BY DEF StartupInv, StartupTypes
<1> QED BY <1>1, WorkStays

LEMMA ToldStays ==
    ASSUME StartupTypes, NEW t \in Starters, NEW w, work' = [work EXCEPT ![t] = w],
           launched \/ \E u \in Starters : work[u].tells, launched => launched',
           work[t].tells => launched' \/ w.tells
    PROVE  launched' \/ \E u \in Starters : work'[u].tells
<1>1. work'[t] = w /\ \A u \in Starters \ {t} : work'[u] = work[u]
  BY DEF StartupTypes
<1> QED BY <1>1

\* An answer that is taken up, or a call that has none under way: what the others
\* were answered stays in order.
LEMMA AnswersStay ==
    ASSUME StartupInv, NEW t \in Starters, NEW w, work' = [work EXCEPT ![t] = w],
           ~SaysNone(w), ~w.tells,
           launched' => launched \/ (work[t].tells /\ ahead[t] = {}),
           \A u \in Starters \ {t} : ahead[u] \ {t} \subseteq ahead'[u]
    PROVE  AnswerInv'
<1>1. work'[t] = w /\ \A u \in Starters \ {t} : work'[u] = work[u]
  BY DEF StartupInv, StartupTypes
<1>2. AnswerInv
  BY DEF StartupInv
<1>3. ASSUME NEW x \in Starters, SaysNone(work'[x]) PROVE x # t /\ SaysNone(work[x]) /\ ~launched'
  <2>1. x # t /\ work'[x] = work[x]
    BY <1>1, <1>3
  <2>2. SaysNone(work[x])
    BY <1>3, <2>1
  <2>3. ~launched /\ ~(work[t].tells /\ ahead[t] = {})
    BY <1>2, <2>2 DEF AnswerInv
  <2> QED BY <2>1, <2>2, <2>3
<1>4. ASSUME NEW x \in Starters, NEW u \in Starters, SaysNone(work'[x]), work'[u].tells
      PROVE  x \in ahead'[u]
  <2>1. x # t /\ SaysNone(work[x])
    BY <1>3, <1>4
  <2>2. u # t /\ work[u].tells
    BY <1>1, <1>4
  <2>3. x \in ahead[u]
    BY <1>2, <2>1, <2>2 DEF AnswerInv
  <2> QED BY <2>1, <2>2, <2>3
<1>5. \A x \in Starters : SaysNone(work'[x]) => ~launched'
  BY <1>3
<1>6. \A x, u \in Starters : SaysNone(work'[x]) /\ work'[u].tells => x \in ahead'[u]
  BY <1>4
<1> QED BY <1>5, <1>6 DEF AnswerInv

\* An answer comes: after all that were there, and not to say there is no browser
\* where there is one.
LEMMA AnswersCome ==
    ASSUME StartupInv, NEW t \in Starters, NEW w, work' = [work EXCEPT ![t] = w], StartupOnward,
           standing # "closed", launched' = launched, SaysNone(w) => engine' = Unset,
           ahead' = [ahead EXCEPT ![t] = {u \in Starters : work[u].pc \in AnsweredPcs}]
    PROVE  AnswerInv'
<1>1. /\ work'[t] = w /\ \A u \in Starters \ {t} : work'[u] = work[u]
      /\ ahead'[t] = {u \in Starters : work[u].pc \in AnsweredPcs}
      /\ \A u \in Starters \ {t} : ahead'[u] = ahead[u]
  BY DEF StartupInv, StartupTypes
<1>2. AnswerInv /\ (launched => engine # Unset) /\ (engine' = Unset => engine = Unset)
      /\ \A u \in Starters : work[u].tells => engine # Unset
  BY DEF StartupInv, BrowserInv, WorkInv, StartupOnward
<1>3. ASSUME NEW x \in Starters, SaysNone(work'[x]) PROVE ~launched'
  <2>1. CASE x = t
    BY <1>1, <1>2, <1>3, <2>1
  <2>2. CASE x # t
    BY <1>1, <1>2, <1>3, <2>2 DEF AnswerInv
  <2> QED BY <2>1, <2>2
<1>4. ASSUME NEW x \in Starters, NEW u \in Starters, SaysNone(work'[x]), work'[u].tells
      PROVE  x \in ahead'[u]
  <2>1. CASE x = t /\ u # t
    BY <1>1, <1>2, <1>4, <2>1
  <2>2. CASE x = t /\ u = t
    BY <1>4, <2>2 DEF SaysNone
  <2>3. CASE x # t /\ u # t
    BY <1>1, <1>2, <1>4, <2>3 DEF AnswerInv
  <2>4. CASE x # t /\ u = t
    <3>1. work[x].pc = "done"
      BY <1>1, <1>4, <2>4 DEF SaysNone
    <3> QED BY <1>1, <2>4, <3>1 DEF AnsweredPcs
  <2> QED BY <2>1, <2>2, <2>3, <2>4
<1> QED BY <1>3, <1>4 DEF AnswerInv

\* Where a task goes, it keeps what it is for and what it read.
LEMMA MovesTypes ==
    ASSUME StartupTypes, NEW t \in Starters, NEW pc \in Pcs, Moves(t, pc)
    PROVE  \E w \in Works :
              /\ work' = [work EXCEPT ![t] = w]
              /\ w.pc = pc /\ w.action = work[t].action /\ w.sees = work[t].sees /\ w.tells = work[t].tells
<1> DEFINE w == [work[t] EXCEPT !.pc = pc]
<1>1. work[t] \in Works
  BY DEF StartupTypes
<1>2. /\ w \in Works
      /\ w.pc = pc /\ w.action = work[t].action /\ w.sees = work[t].sees /\ w.tells = work[t].tells
  BY <1>1 DEF Works
<1>3. work' = [work EXCEPT ![t] = w]
  BY DEF Moves
<1> QED BY <1>2, <1>3

\* What the parts of the invariant say of a step of a task that goes on from work[t] to w.
LEMMA StepOf ==
    ASSUME StartupInv, NEW t \in Starters, NEW w \in Works,
           work' = [work EXCEPT ![t] = w], StartupOnward,
           standing' \in {"asked", "refused", "made", "closing", "closed"},
           chrome' \in BOOLEAN, installed' \in BOOLEAN, launched' \in BOOLEAN, lost' \in BOOLEAN,
           engine' \in {Unset, configuration, Defaults},
           ahead' \in [Starters -> SUBSET Starters],
           work'[t] = w => WorkInv(t)', BrowserInv', AnswerInv'
    PROVE  StartupInv'
<1>1. StartupTypes /\ work'[t] = w
  BY DEF StartupInv, StartupTypes
<1>2. configuration' = configuration /\ Defaults' = Defaults /\ made' = made
  BY DEF StartupOnward, configuration, Defaults
<1>3. StartupTypes'
  BY <1>1, <1>2 DEF StartupTypes
<1>4. \A u \in Starters : WorkInv(u)'
  BY <1>1, OneWorks
<1> QED BY <1>3, <1>4 DEF StartupInv

LEMMA LeavingKeeps ==
    ASSUME StartupInv, NEW t \in Starters, work[t].pc # "idle", Leaves(t),
           UNCHANGED <<made, chrome, installed>>,
           engine' = engine \/ (Accepting /\ engine' = After(t) /\ Acts(t)),
           launched' = launched \/ (launched' = TRUE /\ work[t].tells /\ ahead[t] = {}),
           lost' \in BOOLEAN,
           ~lost' /\ ~launched' => ~lost /\ ~work[t].tells /\ (engine' # Unset => engine # Unset),
           ahead' = ahead \/ Delivered(t)
    PROVE  StartupInv'
<1>1. /\ StartupTypes /\ WorkInv(t) /\ BrowserInv /\ engine \in {Unset, configuration, Defaults}
      /\ chrome \in BOOLEAN /\ installed \in BOOLEAN /\ launched \in BOOLEAN /\ lost \in BOOLEAN
      /\ standing \in {"asked", "refused", "made", "closing", "closed"}
      /\ ahead \in [Starters -> SUBSET Starters]
  BY DEF StartupInv, StartupTypes
<1>2. /\ work' = [work EXCEPT ![t] = Waiting]
      /\ standing' = IF standing = "asked" THEN "refused" ELSE standing
  BY DEF Leaves
<1>3. configuration' = configuration /\ Defaults' = Defaults
  BY DEF configuration, Defaults
<1>4. configuration # Unset /\ Defaults # Unset /\ UsesLocalChrome(Defaults)
      /\ (made.how = "Browser" => UsesLocalChrome(configuration))
  BY <1>1, ConfigurationTypes
<1>5. /\ engine' \in {Unset, configuration, Defaults}
      /\ engine # Unset => engine' # Unset
      /\ engine' # engine => standing # "closed" /\ engine' # Unset
      /\ engine' # Unset /\ UsesLocalChrome(engine') => chrome
      /\ engine' # engine => Valid(configuration)
  <2>1. CASE engine' = engine
    BY <1>1, <2>1 DEF BrowserInv
  <2>2. CASE Accepting /\ engine' = configuration /\ work[t].pc \in {"launching", "pending"}
    BY <1>1, <1>4, <2>2 DEF WorkInv, Accepting
  <2>3. CASE /\ Accepting /\ engine' = Defaults /\ work[t].pc = "executing"
             /\ engine = Unset /\ work[t].action \notin SkipsAutoInstall
    BY <1>1, <1>4, <2>3 DEF WorkInv, Accepting
  <2> QED BY <2>1, <2>2, <2>3 DEF After, Acts, Enters
<1>6. StartupOnward
  BY <1>1, <1>2, <1>5 DEF StartupOnward
<1>7. work'[t] = Waiting => WorkInv(t)'
  BY <1>2, WaitingTypes DEF WorkInv, AnsweredPcs
<1>8. launched' \in BOOLEAN /\ (launched => launched') /\ (launched' /\ ~launched => engine # Unset)
  <2>1. work[t].tells => engine # Unset
    BY <1>1 DEF WorkInv
  <2>2. launched' = launched \/ (launched' = TRUE /\ work[t].tells)
    OBVIOUS
  <2>3. CASE launched' = launched
    BY <1>1, <2>3
  <2>4. CASE launched' = TRUE /\ work[t].tells
    BY <2>1, <2>4
  <2> QED BY <2>2, <2>3, <2>4
<1>9. BrowserInv'
  <2>1. engine' # Unset /\ ~lost' => launched' \/ \E u \in Starters : work'[u].tells
    <3> SUFFICES ASSUME engine' # Unset, ~lost', ~launched'
                 PROVE  \E u \in Starters : work'[u].tells
      OBVIOUS
    <3>1. launched \/ \E u \in Starters : work[u].tells
      BY <1>1 DEF BrowserInv
    <3>2. launched' \/ \E u \in Starters : work'[u].tells
      BY <1>1, <1>2, <1>8, <3>1, ToldStays
    <3> QED BY <3>2
  <2>2. standing' \notin {"asked", "refused"} \/ engine' # Unset => Valid(configuration)
    BY <1>1, <1>2, <1>5 DEF BrowserInv
  <2>3. /\ launched' /\ standing' # "closed" => engine' # Unset
        /\ standing' \in {"made", "closing"} /\ made.how # "Browser" => engine' # Unset /\ launched'
        /\ standing' = "closed" => engine' = Unset
    BY <1>1, <1>2, <1>5, <1>8 DEF BrowserInv
  <2>4. installed' => chrome' /\ UsesLocalChrome(configuration)
    BY <1>1 DEF BrowserInv
  <2> QED BY <1>3, <1>5, <2>1, <2>2, <2>3, <2>4 DEF BrowserInv
<1>10. /\ ahead' \in [Starters -> SUBSET Starters]
       /\ \A u \in Starters \ {t} : ahead[u] \ {t} \subseteq ahead'[u]
  BY <1>1 DEF Delivered
<1>11. AnswerInv'
  <2>1. ~SaysNone(Waiting) /\ ~Waiting.tells
    BY WaitingTypes DEF SaysNone
  <2>2. launched' => launched \/ (work[t].tells /\ ahead[t] = {})
    OBVIOUS
  <2> QED BY <1>2, <1>10, <2>1, <2>2, AnswersStay
<1>12. standing' \in {"asked", "refused", "made", "closing", "closed"}
  BY <1>1, <1>2
<1> QED BY <1>1, <1>2, <1>5, <1>6, <1>7, <1>8, <1>9, <1>10, <1>11, <1>12, WaitingTypes, StepOf

LEMMA LeavesKeep ==
    ASSUME StartupInv, NEW t \in Starters,
           InstallFails(t) \/ DenyLaunch(t) \/ Refuses(t) \/ CancelTask(t) \/ ReturnsFailed(t)
    PROVE  StartupInv'
<1>1. /\ lost \in BOOLEAN /\ launched \in BOOLEAN /\ work[t].tells \in BOOLEAN
      /\ work[t].tells => work[t].pc \in AnsweredPcs
  BY DEF StartupInv, StartupTypes, Works, WorkInv
<1>2. CASE InstallFails(t) \/ DenyLaunch(t) \/ Refuses(t)
  <2>1. /\ Leaves(t) /\ UNCHANGED <<made, chrome, installed, launched, engine, ahead, lost>>
        /\ work[t].pc \notin AnsweredPcs /\ work[t].pc # "idle"
    BY <1>2 DEF InstallFails, DenyLaunch, Refuses, Preparing, Enters, AnsweredPcs
  <2> QED BY <1>1, <2>1, LeavingKeeps
<1>3. CASE CancelTask(t)
  <2>1. /\ Leaves(t) /\ UNCHANGED <<made, chrome, installed, launched>> /\ work[t].pc # "idle"
        /\ engine' = engine \/ (Accepting /\ engine' = After(t) /\ Acts(t))
        /\ lost' = (lost \/ work[t].tells \/ (engine = Unset /\ engine' # Unset))
        /\ Delivered(t)
    BY <1>3 DEF CancelTask
  <2>2. /\ lost' \in BOOLEAN
        /\ ~lost' => ~lost /\ ~work[t].tells /\ (engine' # Unset => engine # Unset)
    BY <1>1, <2>1
  <2> QED BY <2>1, <2>2, LeavingKeeps
<1>4. CASE ReturnsFailed(t)
  <2>1. /\ Leaves(t) /\ UNCHANGED <<made, chrome, installed, engine>> /\ work[t].pc # "idle"
        /\ ahead[t] = {} /\ Delivered(t)
        /\ launched' = (launched \/ work[t].tells)
        /\ lost' = (lost /\ ~work[t].tells)
    BY <1>4 DEF ReturnsFailed, TakesUp, RecordLaunch
  <2>2. launched' = launched \/ (launched' = TRUE /\ work[t].tells /\ ahead[t] = {})
    BY <1>1, <2>1
  <2>3. lost' \in BOOLEAN /\ (~lost' /\ ~launched' => ~lost /\ ~work[t].tells)
    BY <1>1, <2>1
  <2> QED BY <2>1, <2>2, <2>3, LeavingKeeps
<1> QED BY <1>2, <1>3, <1>4

\* A step that begins something, and touches nothing else.
LEMMA BeginsKeep ==
    ASSUME StartupInv, NEW t \in Starters,
           Construct(t) \/ (\E action \in Commandable : Request(t, action)) \/ LaunchAsks(t)
    PROVE  StartupInv'
<1>1. /\ StartupTypes /\ WorkInv(t) /\ BrowserInv
      /\ chrome \in BOOLEAN /\ installed \in BOOLEAN /\ launched \in BOOLEAN /\ lost \in BOOLEAN
      /\ standing \in {"asked", "refused", "made", "closing", "closed"}
      /\ engine \in {Unset, configuration, Defaults}
      /\ work[t] \in Works /\ ahead \in [Starters -> SUBSET Starters]
  BY DEF StartupInv, StartupTypes
<1>2. UNCHANGED <<made, standing, chrome, installed, launched, engine, ahead, lost>>
  BY DEF Construct, Request, LaunchAsks
<1>9. work[t].tells => work[t].pc \in AnsweredPcs
  BY <1>1 DEF WorkInv
<1>3. PICK w \in Works :
         /\ work' = [work EXCEPT ![t] = w]
         /\ ~work[t].tells /\ ~w.tells /\ w.pc # "done"
         /\ \/ /\ w.pc = "install" /\ w.action = "launch" /\ w.sees = FALSE /\ Valid(configuration)
            \/ /\ standing = "made" /\ w.sees = launched
               /\ w.pc = "start" \/ (w.pc = "install" /\ (launched \/ w.action \notin {"navigate", "read"}))
            \/ /\ work[t].pc = "launching" /\ standing # "closed"
               /\ w.pc = "pending" /\ w.action = work[t].action /\ w.sees = work[t].sees
  <2>1. CASE Construct(t)
    <3> DEFINE w == [pc |-> "install", action |-> "launch", sees |-> FALSE, tells |-> FALSE]
    <3>1. /\ work' = [work EXCEPT ![t] = w] /\ Valid(configuration) /\ work[t].pc = "idle"
      BY <2>1, WaitingTypes DEF Construct
    <3>2. w \in Works
      BY DEF Pcs, Works
    <3> QED BY <1>9, <3>1, <3>2 DEF AnsweredPcs
  <2>2. CASE \E action \in Commandable : Request(t, action)
    <3>1. PICK action \in Commandable : Request(t, action)
      BY <2>2
    <3> DEFINE w == [pc |-> IF ~launched /\ RequiresStart(action, FALSE) THEN "start" ELSE "install",
                     action |-> action, sees |-> launched, tells |-> FALSE]
    <3>2. /\ work' = [work EXCEPT ![t] = w] /\ work[t].pc = "idle" /\ standing = "made"
      BY <3>1, WaitingTypes DEF Request
    <3>3. w \in Works
      BY <1>1 DEF Pcs, Works
    <3>4. /\ w.sees = launched
          /\ w.pc = "start" \/ (w.pc = "install" /\ (launched \/ w.action \notin {"navigate", "read"}))
      BY DEF RequiresStart
    <3> QED BY <1>9, <3>2, <3>3, <3>4 DEF AnsweredPcs
  <2>3. CASE LaunchAsks(t)
    <3>1. Moves(t, "pending") /\ work[t].pc = "launching" /\ standing # "closed" /\ "pending" \in Pcs
      BY <2>3 DEF LaunchAsks, Accepting, Pcs
    <3> QED BY <1>1, <1>9, <3>1, MovesTypes DEF AnsweredPcs
  <2> QED BY <2>1, <2>2, <2>3
<1>4. StartupOnward /\ configuration' = configuration
  BY <1>2 DEF StartupOnward, configuration
<1>6. ASSUME work'[t] = w PROVE WorkInv(t)'
  <2>1. CASE w.pc = "install" /\ w.action = "launch" /\ w.sees = FALSE /\ Valid(configuration)
    BY <1>4, <1>6, <2>1, <1>3 DEF WorkInv, AnsweredPcs
  <2>2. CASE /\ standing = "made" /\ w.sees = launched
             /\ w.pc = "start" \/ (w.pc = "install" /\ (launched \/ w.action \notin {"navigate", "read"}))
    BY <1>1, <1>2, <1>4, <1>6, <2>2, <1>3 DEF WorkInv, BrowserInv, AnsweredPcs
  <2>3. CASE /\ work[t].pc = "launching" /\ standing # "closed"
             /\ w.pc = "pending" /\ w.action = work[t].action /\ w.sees = work[t].sees
    BY <1>1, <1>2, <1>4, <1>6, <2>3, <1>3 DEF WorkInv, AnsweredPcs
  <2> QED BY <1>3, <2>1, <2>2, <2>3
<1>7. BrowserInv'
  <2>1. engine' # Unset /\ ~lost' => launched' \/ \E u \in Starters : work'[u].tells
    BY <1>1, <1>2, <1>3, ToldStays DEF BrowserInv
  <2> QED BY <1>1, <1>2, <1>4, <2>1 DEF BrowserInv
<1>8. AnswerInv'
  <2>1. ~SaysNone(w) /\ ~w.tells
    BY <1>3 DEF SaysNone
  <2>2. /\ launched' => launched \/ (work[t].tells /\ ahead[t] = {})
        /\ \A u \in Starters \ {t} : ahead[u] \ {t} \subseteq ahead'[u]
    BY <1>2
  <2> QED BY <1>3, <2>1, <2>2, AnswersStay
<1> QED BY <1>1, <1>2, <1>3, <1>4, <1>6, <1>7, <1>8, StepOf

\* What it installs is there before it goes on.
LEMMA PreparesKeep ==
    ASSUME StartupInv, NEW t \in Starters, Prepare(t) PROVE StartupInv'
<1>1. /\ StartupTypes /\ WorkInv(t) /\ BrowserInv
      /\ chrome \in BOOLEAN /\ installed \in BOOLEAN /\ launched \in BOOLEAN /\ lost \in BOOLEAN
      /\ standing \in {"asked", "refused", "made", "closing", "closed"}
      /\ engine \in {Unset, configuration, Defaults} /\ ahead \in [Starters -> SUBSET Starters]
  BY DEF StartupInv, StartupTypes
<1>2. /\ UNCHANGED <<made, standing, launched, engine, ahead, lost>> /\ work[t].pc \in {"start", "install"}
      /\ IF InstallsFor(t) THEN chrome' = TRUE /\ installed' = TRUE ELSE UNCHANGED <<chrome, installed>>
  BY DEF Prepare, Preparing
<1> DEFINE pc == IF work[t].pc = "start" \/ work[t].action = "launch" THEN "launching" ELSE "executing"
<1>3. Moves(t, pc) /\ pc \in Pcs
  BY DEF Prepare, Pcs
<1>4. PICK w \in Works :
              /\ work' = [work EXCEPT ![t] = w]
              /\ w.pc = pc /\ w.action = work[t].action /\ w.sees = work[t].sees /\ w.tells = work[t].tells
  BY <1>1, <1>3, MovesTypes
<1>11. ~work[t].tells /\ ~w.tells /\ w.pc # "done"
  BY <1>1, <1>2, <1>4 DEF WorkInv, AnsweredPcs
<1>5. StartupOnward /\ configuration' = configuration
  BY <1>1, <1>2 DEF StartupOnward, configuration
<1>6. /\ chrome' \in BOOLEAN /\ installed' \in BOOLEAN
      /\ installed' => chrome' /\ UsesLocalChrome(configuration)
      /\ chrome => chrome'
  BY <1>1, <1>2 DEF BrowserInv, InstallsFor
<1>7. /\ work[t].pc = "start" \/ work[t].action = "launch" => (UsesLocalChrome(configuration) => chrome')
      /\ ~work[t].sees /\ work[t].action \notin SkipsAutoInstall => (UsesLocalChrome(configuration) => chrome')
  BY <1>1, <1>2, <1>6 DEF InstallsFor, BrowserInv
<1>8. standing \in {"made", "closing"} => UsesLocalChrome(configuration) \/ engine # Unset
  <2>1. made.how = "Browser" \/ made.how # "Browser"
    OBVIOUS
  <2> QED BY <1>1, <2>1, ConfigurationTypes DEF BrowserInv
<1>9. ASSUME work'[t] = w PROVE WorkInv(t)'
  <2>1. CASE pc = "launching"
    <3>1. /\ Valid(configuration) /\ w.pc = "launching"
          /\ standing \in {"asked", "refused"} => w.action = "launch"
          /\ w.sees /\ standing # "closed" => engine # Unset
      BY <1>1, <1>2, <1>4, <2>1 DEF WorkInv
    <3>2. UsesLocalChrome(configuration) => chrome'
      BY <1>7, <2>1
    <3> QED BY <1>2, <1>5, <1>9, <1>11, <3>1, <3>2 DEF WorkInv, AnsweredPcs
  <2>2. CASE pc = "executing"
    <3>1. work[t].pc = "install" /\ work[t].action # "launch" /\ w.pc = "executing"
      BY <1>2, <1>4, <2>2
    <3>2. /\ Valid(configuration) /\ standing \notin {"asked", "refused"}
          /\ w.sees /\ standing # "closed" => engine # Unset
          /\ w.action \in {"navigate", "read"} => w.sees
      BY <1>1, <1>4, <3>1 DEF WorkInv
    <3>3. w.action \notin SkipsAutoInstall /\ standing # "closed" => chrome' \/ engine # Unset
      BY <1>1, <1>4, <1>7, <1>8, <3>2
    <3> QED BY <1>2, <1>4, <1>5, <1>9, <1>11, <3>1, <3>2, <3>3 DEF WorkInv, AnsweredPcs
  <2> QED BY <2>1, <2>2
<1>10. BrowserInv'
  <2>1. engine' # Unset /\ ~lost' => launched' \/ \E u \in Starters : work'[u].tells
    BY <1>1, <1>2, <1>4, <1>11, ToldStays DEF BrowserInv
  <2> QED BY <1>1, <1>2, <1>5, <1>6, <2>1 DEF BrowserInv
<1>12. AnswerInv'
  <2>1. ~SaysNone(w)
    BY <1>11 DEF SaysNone
  <2>2. /\ launched' => launched \/ (work[t].tells /\ ahead[t] = {})
        /\ \A u \in Starters \ {t} : ahead[u] \ {t} \subseteq ahead'[u]
    BY <1>2
  <2> QED BY <1>4, <1>11, <2>1, <2>2, AnswersStay
<1> QED BY <1>1, <1>2, <1>4, <1>5, <1>6, <1>9, <1>10, <1>12, StepOf

\* The engine answers, and may have launched.
LEMMA LaunchesKeep ==
    ASSUME StartupInv, NEW t \in Starters,
           Launches(t) \/ ConfirmLaunch(t) \/ Executes(t) \/ Fails(t)
    PROVE  StartupInv'
<1>1. /\ StartupTypes /\ WorkInv(t) /\ BrowserInv
      /\ chrome \in BOOLEAN /\ installed \in BOOLEAN /\ launched \in BOOLEAN /\ lost \in BOOLEAN
      /\ standing \in {"asked", "refused", "made", "closing", "closed"}
      /\ engine \in {Unset, configuration, Defaults}
      /\ work[t] \in Works /\ ahead \in [Starters -> SUBSET Starters]
  BY DEF StartupInv, StartupTypes
<1>2. UNCHANGED <<made, standing, chrome, installed, launched>> /\ standing # "closed"
  BY DEF Launches, ConfirmLaunch, Executes, Fails, Accepting
<1>3. configuration # Unset /\ Defaults # Unset /\ UsesLocalChrome(Defaults)
  BY <1>1, ConfigurationTypes
<1>4. PICK pc \in {"launched", "done", "failed"}, tells \in BOOLEAN :
         /\ EngineAnswers(t, pc, tells)
         /\ engine' = After(t) \/ engine' = engine
         /\ tells => engine' # Unset
         /\ pc = "launched" => tells
         /\ pc = "done" => (tells <=> engine' # Unset) /\ work[t].pc = "executing"
         /\ lost' = (lost \/ (~tells /\ engine = Unset /\ engine' # Unset))
  <2>1. CASE Launches(t) \/ ConfirmLaunch(t)
    <3>1. /\ EngineAnswers(t, "launched", TRUE) /\ engine' = After(t) /\ lost' = lost
          /\ engine' = configuration
      BY <2>1 DEF Launches, ConfirmLaunch, After
    <3> QED BY <1>1, <1>3, <3>1
  <2>2. CASE Executes(t)
    <3>1. EngineAnswers(t, "done", engine' # Unset) /\ engine' = After(t) /\ lost' = lost
      BY <2>2 DEF Executes
    <3>2. work[t].pc = "executing"
      BY <2>2 DEF Executes
    <3>3. PICK tells \in BOOLEAN : tells = (engine' # Unset)
      OBVIOUS
    <3>4. EngineAnswers(t, "done", tells) /\ (tells <=> engine' # Unset)
      BY <3>1, <3>3
    <3>5. lost' = (lost \/ (~tells /\ engine = Unset /\ engine' # Unset))
      BY <1>1, <3>1, <3>4
    <3> QED BY <3>1, <3>2, <3>4, <3>5
  <2>3. CASE Fails(t)
    <3>1. /\ engine' \in {engine, After(t)}
          /\ \E tells \in {engine' # Unset, FALSE} :
                /\ EngineAnswers(t, "failed", tells)
                /\ lost' = (lost \/ (~tells /\ engine = Unset /\ engine' # Unset))
      BY <2>3 DEF Fails
    <3>2. PICK tells \in {engine' # Unset, FALSE} :
             /\ EngineAnswers(t, "failed", tells)
             /\ lost' = (lost \/ (~tells /\ engine = Unset /\ engine' # Unset))
      BY <3>1
    <3>3. tells \in BOOLEAN /\ (tells => engine' # Unset)
      OBVIOUS
    <3> QED BY <3>1, <3>2, <3>3
  <2> QED BY <2>1, <2>2, <2>3
<1>5. Acts(t)
  BY DEF Launches, ConfirmLaunch, Executes, Fails, Acts, Enters
<1>6. work[t].pc \in {"launching", "pending", "executing"} /\ ~work[t].tells
  BY <1>1, <1>5 DEF Acts, Enters, WorkInv, AnsweredPcs
<1>7. /\ engine' \in {Unset, configuration, Defaults}
      /\ engine # Unset => engine' # Unset
      /\ engine' # Unset /\ UsesLocalChrome(engine') => chrome
      /\ engine' # Unset => Valid(configuration)
  <2>1. CASE engine' = engine
    BY <1>1, <2>1 DEF BrowserInv
  <2>2. CASE work[t].pc \in {"launching", "pending"} /\ engine' = configuration
    BY <1>1, <1>3, <2>2 DEF WorkInv
  <2>3. CASE /\ engine' = Defaults /\ work[t].pc = "executing"
             /\ engine = Unset /\ work[t].action \notin SkipsAutoInstall
    BY <1>1, <1>2, <1>3, <2>3 DEF WorkInv
  <2> QED BY <1>4, <2>1, <2>2, <2>3 DEF After
<1>8. StartupOnward /\ configuration' = configuration
  BY <1>2, <1>7 DEF StartupOnward, configuration
<1> DEFINE w == [work[t] EXCEPT !.pc = pc, !.tells = tells]
<1>9. /\ w \in Works /\ w.pc = pc /\ w.tells = tells
      /\ w.action = work[t].action /\ w.sees = work[t].sees
  BY <1>1, <1>4 DEF Works, Pcs
<1>10. /\ work' = [work EXCEPT ![t] = w]
       /\ ahead' = [ahead EXCEPT ![t] = {u \in Starters : work[u].pc \in AnsweredPcs}]
  BY <1>4 DEF EngineAnswers
<1> HIDE DEF w
<1>11. work'[t] = w /\ ahead' \in [Starters -> SUBSET Starters] /\ lost' \in BOOLEAN
  BY <1>1, <1>4, <1>10 DEF StartupTypes
<1>12. ASSUME work'[t] = w PROVE WorkInv(t)'
  <2>1. /\ Valid(configuration)
        /\ standing \in {"asked", "refused"} => w.action = "launch"
        /\ w.sees => engine # Unset
    BY <1>1, <1>2, <1>6, <1>9 DEF WorkInv
  <2>2. w.pc \in AnsweredPcs /\ (w.tells => engine' # Unset) /\ (w.pc = "launched" => w.tells)
    BY <1>4, <1>9 DEF AnsweredPcs
  <2> QED BY <1>2, <1>7, <1>8, <1>12, <2>1, <2>2 DEF WorkInv, AnsweredPcs
<1>13. BrowserInv'
  <2>1. engine' # Unset /\ ~lost' => launched' \/ \E u \in Starters : work'[u].tells
    <3> SUFFICES ASSUME engine' # Unset, ~lost' PROVE launched' \/ \E u \in Starters : work'[u].tells
      OBVIOUS
    <3>1. ~lost /\ (tells \/ engine # Unset)
      BY <1>4
    <3>2. CASE tells
      BY <1>9, <1>11, <3>2
    <3>3. CASE engine # Unset
      <4>1. launched \/ \E u \in Starters : work[u].tells
        BY <1>1, <3>1, <3>3 DEF BrowserInv
      <4> QED BY <1>1, <1>2, <1>6, <1>10, <4>1, ToldStays
    <3> QED BY <3>1, <3>2, <3>3
  <2> QED BY <1>1, <1>2, <1>7, <1>8, <2>1 DEF BrowserInv
<1>14. AnswerInv'
  <2>1. SaysNone(w) => engine' = Unset
    BY <1>4, <1>9 DEF SaysNone
  <2> QED BY <1>2, <1>8, <1>10, <2>1, AnswersCome
<1> QED BY <1>1, <1>2, <1>7, <1>8, <1>9, <1>10, <1>11, <1>12, <1>13, <1>14, StepOf

\* The answer is taken up: what it tells is recorded.
LEMMA StartupReturnsKeep ==
    ASSUME StartupInv, NEW t \in Starters, ReturnsLaunched(t) \/ ReturnsDone(t)
    PROVE  StartupInv'
<1>1. /\ StartupTypes /\ WorkInv(t) /\ BrowserInv /\ AnswerInv
      /\ chrome \in BOOLEAN /\ installed \in BOOLEAN /\ launched \in BOOLEAN /\ lost \in BOOLEAN
      /\ standing \in {"asked", "refused", "made", "closing", "closed"}
      /\ engine \in {Unset, configuration, Defaults}
      /\ work[t] \in Works /\ ahead \in [Starters -> SUBSET Starters]
  BY DEF StartupInv, StartupTypes
<1>2. /\ UNCHANGED <<made, chrome, installed, engine>>
      /\ TakesUp(t) /\ work[t].pc \in {"launched", "done"} /\ standing # "closed"
  BY <1>1 DEF ReturnsLaunched, ReturnsDone, WorkInv, AnsweredPcs
<1>3. PICK w \in Works :
         /\ work' = [work EXCEPT ![t] = w] /\ w.pc # "done" /\ ~w.tells
         /\ \/ w.pc = "idle" /\ w.sees = FALSE
            \/ /\ work[t].pc = "launched" /\ work[t].action # "launch"
               /\ w.pc = "install" /\ w.action = work[t].action /\ w.sees = TRUE
  <2>1. CASE work' = [work EXCEPT ![t] = Waiting]
    BY <2>1, WaitingTypes
  <2>2. CASE work[t].action # "launch" /\ ReturnsLaunched(t)
    <3> DEFINE w == [work[t] EXCEPT !.pc = "install", !.sees = TRUE, !.tells = FALSE]
    <3>1. work' = [work EXCEPT ![t] = w] /\ work[t].pc = "launched"
      BY <2>2 DEF ReturnsLaunched
    <3>2. "install" \in Pcs
      BY DEF Pcs
    <3>3. /\ w \in Works /\ w.tells = FALSE
          /\ w.pc = "install" /\ w.action = work[t].action /\ w.sees = TRUE
      BY <1>1, <3>2 DEF Works
    <3> QED BY <2>2, <3>1, <3>3
  <2> QED BY <2>1, <2>2 DEF ReturnsLaunched, ReturnsDone
<1>4. standing' = IF standing = "asked" /\ work[t].pc = "launched" /\ work[t].action = "launch"
                  THEN "made" ELSE standing
  BY DEF ReturnsLaunched, ReturnsDone
<1>5. StartupOnward /\ configuration' = configuration
  BY <1>1, <1>2, <1>4 DEF StartupOnward, configuration
<1>6. /\ ahead[t] = {} /\ Delivered(t)
      /\ (launched' = work[t].tells /\ SaysNone(work[t])) \/ launched' = (launched \/ work[t].tells)
      /\ lost' = (lost /\ ~work[t].tells)
  <2>1. CASE work[t].pc = "done" /\ work[t].action = SessionStatus.status
    <3>1. launched' = work[t].tells /\ work[t].tells \in BOOLEAN
      BY <1>1, <1>2, <2>1 DEF TakesUp, RecordLaunch, Works
    <3> QED BY <1>1, <1>2, <2>1, <3>1 DEF TakesUp, SaysNone
  <2>2. CASE ~(work[t].pc = "done" /\ work[t].action = SessionStatus.status)
    BY <1>2, <2>2 DEF TakesUp, RecordLaunch
  <2> QED BY <2>1, <2>2
<1>7. /\ launched' \in BOOLEAN /\ lost' \in BOOLEAN
      /\ launched => launched'
      /\ launched' => launched \/ work[t].tells
      /\ work[t].tells => launched' /\ engine # Unset
      /\ ~lost' => ~lost \/ launched'
  <2>1. SaysNone(work[t]) => ~launched /\ ~work[t].tells
    BY <1>1 DEF AnswerInv, SaysNone
  <2>2. work[t].tells \in BOOLEAN /\ (work[t].tells => engine # Unset)
    BY <1>1 DEF Works, WorkInv
  <2> QED BY <1>1, <1>6, <2>1, <2>2
<1>8. ASSUME work'[t] = w PROVE WorkInv(t)'
  <2>1. CASE w.pc = "idle" /\ w.sees = FALSE
    BY <1>3, <1>8, <2>1 DEF WorkInv, AnsweredPcs
  <2>2. CASE /\ work[t].pc = "launched" /\ work[t].action # "launch"
             /\ w.pc = "install" /\ w.action = work[t].action /\ w.sees = TRUE
    BY <1>1, <1>2, <1>3, <1>4, <1>5, <1>8, <2>2 DEF WorkInv, AnsweredPcs
  <2> QED BY <1>3, <2>1, <2>2
<1>9. BrowserInv'
  <2>1. engine' # Unset /\ ~lost' => launched' \/ \E u \in Starters : work'[u].tells
    <3> SUFFICES ASSUME engine # Unset, ~lost', ~launched' PROVE \E u \in Starters : work'[u].tells
      BY <1>2
    <3>1. launched \/ \E u \in Starters : work[u].tells
      BY <1>1, <1>7 DEF BrowserInv
    <3>2. launched' \/ \E u \in Starters : work'[u].tells
      BY <1>1, <1>3, <1>7, <3>1, ToldStays
    <3> QED BY <3>2
  <2>2. /\ standing' \notin {"asked", "refused"} \/ engine' # Unset => Valid(configuration)
        /\ standing' \in {"made", "closing"} /\ made.how # "Browser" => engine' # Unset /\ launched'
    <3>1. CASE standing' = standing
      BY <1>1, <1>2, <1>7, <3>1 DEF BrowserInv
    <3>2. CASE standing' = "made" /\ work[t].pc = "launched"
      BY <1>1, <1>2, <1>7, <3>2 DEF WorkInv
    <3> QED BY <1>4, <3>1, <3>2
  <2>3. standing' # "closed"
    BY <1>2, <1>4
  <2>4. launched' => engine # Unset
    BY <1>1, <1>2, <1>7 DEF BrowserInv
  <2> QED BY <1>1, <1>2, <1>5, <2>1, <2>2, <2>3, <2>4 DEF BrowserInv
<1>10. ahead' \in [Starters -> SUBSET Starters] /\ \A u \in Starters \ {t} : ahead[u] \ {t} \subseteq ahead'[u]
  BY <1>1, <1>6 DEF Delivered
<1>11. AnswerInv'
  <2>1. ~SaysNone(w)
    BY <1>3 DEF SaysNone
  <2>2. launched' => launched \/ (work[t].tells /\ ahead[t] = {})
    BY <1>6, <1>7
  <2> QED BY <1>3, <1>10, <2>1, <2>2, AnswersStay
<1>12. /\ chrome' \in BOOLEAN /\ installed' \in BOOLEAN
       /\ standing' \in {"asked", "refused", "made", "closing", "closed"}
       /\ engine' \in {Unset, configuration, Defaults}
  BY <1>1, <1>2, <1>4
<1> QED BY <1>3, <1>5, <1>7, <1>8, <1>9, <1>10, <1>11, <1>12, StepOf

\* What the browser object does on its own.
LEMMA StandingKeeps ==
    ASSUME StartupInv, Decline \/ MakeBrowser \/ BeginClose \/ EndClose
    PROVE  StartupInv'
<1>1. /\ StartupTypes /\ BrowserInv /\ AnswerInv /\ \A t \in Starters : WorkInv(t)
  BY DEF StartupInv
<1>2. /\ UNCHANGED <<made, chrome, installed, work, ahead, lost>>
      /\ configuration' = configuration /\ Defaults' = Defaults
  BY DEF Decline, MakeBrowser, BeginClose, EndClose, configuration, Defaults
<1>3. CASE Decline \/ MakeBrowser \/ BeginClose
  <2>1. /\ UNCHANGED <<launched, engine>>
        /\ \/ standing = "asked" /\ standing' = "refused"
           \/ standing = "asked" /\ standing' = "made" /\ made.how = "Browser" /\ Valid(configuration)
           \/ standing = "made" /\ standing' = "closing"
    BY <1>3 DEF Decline, MakeBrowser, BeginClose
  <2>2. StartupTypes'
    BY <1>1, <1>2, <2>1 DEF StartupTypes
  <2>3. ASSUME NEW t \in Starters PROVE WorkInv(t)'
    BY <1>1, <1>2, <2>1 DEF WorkInv
  <2>4. BrowserInv'
    BY <1>1, <1>2, <2>1 DEF BrowserInv
  <2>5. AnswerInv'
    BY <1>1, <1>2, <2>1 DEF AnswerInv, SaysNone
  <2> QED BY <2>2, <2>3, <2>4, <2>5 DEF StartupInv
<1>4. CASE EndClose
  <2>1. /\ standing = "closing" /\ standing' = "closed" /\ engine' = Unset /\ launched' \in {FALSE, launched}
        /\ \A t \in Starters : work[t].pc \notin AnsweredPcs
    BY <1>4 DEF EndClose
  <2>2. StartupTypes'
    BY <1>1, <1>2, <2>1 DEF StartupTypes
  <2>3. ASSUME NEW t \in Starters PROVE WorkInv(t)'
    BY <1>1, <1>2, <2>1 DEF WorkInv
  <2>4. BrowserInv'
    BY <1>1, <1>2, <2>1 DEF BrowserInv
  <2>5. AnswerInv'
    BY <1>1, <1>2, <2>1 DEF AnswerInv, SaysNone, AnsweredPcs
  <2> QED BY <2>2, <2>3, <2>4, <2>5 DEF StartupInv
<1> QED BY <1>3, <1>4

LEMMA StartupInitially == StartupInit => StartupInv
<1> SUFFICES ASSUME StartupInit PROVE StartupInv
  OBVIOUS
<1>1. \A t \in Starters : work[t] = Waiting
  BY DEF StartupInit
<1>2. StartupTypes
  BY WaitingTypes DEF StartupInit, StartupTypes
<1>3. ASSUME NEW t \in Starters PROVE WorkInv(t)
  BY <1>1, WaitingTypes DEF StartupInit, WorkInv
<1>4. BrowserInv
  BY DEF StartupInit, BrowserInv
<1>5. AnswerInv
  BY <1>1, WaitingTypes DEF AnswerInv, SaysNone
<1> QED BY <1>2, <1>3, <1>4, <1>5 DEF StartupInv

LEMMA StartupStep == StartupInv /\ [StartupNext]_startupVars => StartupInv'
<1> SUFFICES ASSUME StartupInv, [StartupNext]_startupVars PROVE StartupInv'
  OBVIOUS
<1>1. CASE UNCHANGED startupVars
  <2>1. /\ UNCHANGED <<made, standing, chrome, installed, launched, engine, work, ahead, lost>>
        /\ configuration' = configuration /\ Defaults' = Defaults
    BY <1>1 DEF startupVars, configuration, Defaults
  <2>2. StartupTypes' /\ BrowserInv' /\ AnswerInv'
    BY <2>1 DEF StartupInv, StartupTypes, BrowserInv, AnswerInv
  <2>3. ASSUME NEW t \in Starters PROVE WorkInv(t)'
    BY <2>1 DEF StartupInv, WorkInv
  <2> QED BY <2>2, <2>3 DEF StartupInv
<1>2. CASE Decline \/ MakeBrowser \/ BeginClose \/ EndClose
  BY <1>2, StandingKeeps
<1>3. ASSUME NEW t \in Starters,
             \/ Construct(t) \/ \E action \in Commandable : Request(t, action)
             \/ LaunchAsks(t)
      PROVE  StartupInv'
  BY <1>3, BeginsKeep
<1>4. ASSUME NEW t \in Starters, Prepare(t) PROVE StartupInv'
  BY <1>4, PreparesKeep
<1>5. ASSUME NEW t \in Starters, Launches(t) \/ ConfirmLaunch(t) \/ Executes(t) \/ Fails(t)
      PROVE  StartupInv'
  BY <1>5, LaunchesKeep
<1>6. ASSUME NEW t \in Starters, InstallFails(t) \/ DenyLaunch(t) \/ Refuses(t) \/ CancelTask(t)
             \/ ReturnsFailed(t)
      PROVE  StartupInv'
  BY <1>6, LeavesKeep
<1>7. ASSUME NEW t \in Starters, ReturnsLaunched(t) \/ ReturnsDone(t) PROVE StartupInv'
  BY <1>7, StartupReturnsKeep
<1> QED BY <1>1, <1>2, <1>3, <1>4, <1>5, <1>6, <1>7 DEF StartupNext

-----------------------------------------------------------------------------

\* For any number of callers and any launch options: every launch of a local
\* Chrome, by the SDK or by the engine on its own, finds a Chrome installed, and
\* none is installed for a browser that is brought along (ChromeBeforeLaunch).
THEOREM ChromeIsInstalled == StartupSpec => []ChromeBeforeLaunch
<1>1. StartupInv => ChromeBeforeLaunch
  <2> SUFFICES ASSUME StartupInv PROVE ChromeBeforeLaunch
    OBVIOUS
  <2>1. engine # Unset /\ UsesLocalChrome(engine) => chrome
    BY DEF StartupInv, BrowserInv
  <2>2. installed => made.target = {} /\ made.launch \intersect {"executable_path", "provider", "engine"} = {}
    BY DEF StartupInv, BrowserInv, UsesLocalChrome, configuration, Configuration
  <2> QED BY <2>1, <2>2 DEF ChromeBeforeLaunch
<1> QED BY <1>1, StartupInitially, StartupStep, PTL DEF StartupSpec

\* For any number of callers: the program's flag and the engine agree whenever no
\* answer is under way and none is owed for a launch that a cancellation or a
\* deadline cut off, what launch() and attach() hand out runs, and nothing runs
\* once closed (LaunchedIsKnown).
THEOREM LaunchedAlwaysKnown == StartupSpec => []LaunchedIsKnown
<1>1. StartupInv => LaunchedIsKnown
  <2> SUFFICES ASSUME StartupInv PROVE LaunchedIsKnown
    OBVIOUS
  <2>1. standing = "made" /\ ~lost /\ (\A t \in Starters : work[t].pc \in {"idle", "pending"})
           => launched = (engine # Unset)
    <3>1. launched \in BOOLEAN /\ (launched /\ standing = "made" => engine # Unset)
      BY DEF StartupInv, StartupTypes, BrowserInv
    <3>2. engine # Unset /\ ~lost => launched \/ \E t \in Starters : work[t].tells
      BY DEF StartupInv, BrowserInv
    <3>3. \A t \in Starters : work[t].tells => work[t].pc \notin {"idle", "pending"}
      BY DEF StartupInv, WorkInv, AnsweredPcs
    <3> QED BY <3>1, <3>2, <3>3
  <2>2. /\ standing = "made" /\ made.how # "Browser" => engine # Unset /\ launched
        /\ standing = "closed" => engine = Unset
    BY DEF StartupInv, BrowserInv
  <2> QED BY <2>1, <2>2 DEF LaunchedIsKnown
<1> QED BY <1>1, StartupInitially, StartupStep, PTL DEF StartupSpec

\* However its options were spread: a browser with an allowlist is launched
\* contained, and without saved state or a browser it did not start, by the SDK's own
\* launch as by the engine's (ContainedStartsClean).
THEOREM ContainedAlwaysStartsClean == StartupSpec => []ContainedStartsClean
<1>1. StartupInv => ContainedStartsClean
  <2> SUFFICES ASSUME StartupInv, engine # Unset, "allowed_domains" \in made.session
               PROVE  /\ engine.contained
                      /\ made.target = {} /\ "restore" \notin made.session
                      /\ made.launch \intersect {"storage_state", "profile", "page_args", "ios"} = {}
    BY DEF ContainedStartsClean
  <2>1. engine \in {configuration, Defaults} /\ Valid(configuration) /\ made.session \in SessionOptions
    BY DEF StartupInv, StartupTypes, BrowserInv
  <2>2. Defaults.contained /\ configuration.contained
    BY DEF configuration, Defaults, Configuration
  <2>3. ~Replays(configuration)
    BY <2>1, <2>2 DEF Valid
  <2>4. /\ made.target = {}
        /\ made.launch \intersect {"storage_state", "profile", "page_args", "ios"} = {}
    BY <2>3 DEF Replays, configuration, Configuration
  <2>5. "restore" \notin made.session
    <3> SUFFICES ASSUME "restore" \in made.session PROVE FALSE
      OBVIOUS
    <3>1. made.session = {"allowed_domains", "restore"} /\ Cardinality(made.session) < 2
      BY <2>1 DEF SessionOptions
    <3>2. Cardinality({"restore"}) = 1 /\ IsFiniteSet({"restore"})
      BY FS_Singleton
    <3>3. Cardinality({"restore"} \union {"allowed_domains"}) = 2
      BY <3>2, FS_AddElement
    <3>4. {"restore"} \union {"allowed_domains"} = {"allowed_domains", "restore"}
      OBVIOUS
    <3> QED BY <3>1, <3>3, <3>4
  <2>6. engine.contained
    BY <2>1, <2>2
  <2> QED BY <2>4, <2>5, <2>6
<1> QED BY <1>1, StartupInitially, StartupStep, PTL DEF StartupSpec

\* For any number of callers: by the time a navigation, or reading the page, is
\* carried out the SDK has launched for it, whatever happened between the check
\* and the execution (NavigationsFindBrowser).
THEOREM NavigationsAlwaysFindBrowser == StartupSpec => NavigationsFindBrowser
<1> DEFINE Found == \A t \in Starters :
          work[t].pc = "executing" /\ work[t].action \in {"navigate", "read"} /\ work'[t].pc \in {"done", "failed"} =>
              engine # Unset
<1>1. StartupInv /\ [StartupNext]_startupVars => [Found]_startupVars
  <2> SUFFICES ASSUME StartupInv, StartupNext, NEW t \in Starters,
                      work[t].pc = "executing", work[t].action \in {"navigate", "read"},
                      work'[t].pc \in {"done", "failed"}
               PROVE  engine # Unset
    BY DEF Found
  <2>1. WorkInv(t) /\ StartupTypes
    BY DEF StartupInv
  <2>2. standing # "closed"
    <3>1. PICK u \in Starters :
             \/ Construct(u) \/ \E action \in Commandable : Request(u, action)
             \/ Prepare(u) \/ InstallFails(u) \/ Launches(u) \/ LaunchAsks(u) \/ ConfirmLaunch(u)
             \/ DenyLaunch(u) \/ Executes(u) \/ Refuses(u) \/ Fails(u)
             \/ CancelTask(u) \/ ReturnsLaunched(u) \/ ReturnsDone(u) \/ ReturnsFailed(u)
      BY DEF StartupNext, Decline, MakeBrowser, BeginClose, EndClose
    <3>2. ASSUME NEW w, work' = [work EXCEPT ![u] = w] PROVE w.pc \in {"done", "failed"}
      BY <2>1, <3>2 DEF StartupTypes
    <3>3. ASSUME NEW pc, Moves(u, pc) PROVE pc \in {"done", "failed"}
      <4>1. work' = [work EXCEPT ![u] = [work[u] EXCEPT !.pc = pc]] /\ [work[u] EXCEPT !.pc = pc].pc = pc
        BY <2>1, <3>3 DEF Moves, StartupTypes
      <4> QED BY <3>2, <4>1
    <3>4. CASE Executes(u) \/ Fails(u) \/ Launches(u) \/ ConfirmLaunch(u)
      BY <3>4 DEF Executes, Fails, Launches, ConfirmLaunch, Accepting
    <3>5. CASE Construct(u)
      <4>1. work' = [work EXCEPT ![u] = [pc |-> "install", action |-> "launch", sees |-> FALSE, tells |-> FALSE]]
        BY <3>5 DEF Construct
      <4>2. [pc |-> "install", action |-> "launch", sees |-> FALSE, tells |-> FALSE].pc = "install"
        OBVIOUS
      <4> QED BY <3>2, <4>1, <4>2
    <3>6. CASE \E action \in Commandable : Request(u, action)
      <4>1. PICK action \in Commandable : Request(u, action)
        BY <3>6
      <4> DEFINE w == [pc |-> IF ~launched /\ RequiresStart(action, FALSE) THEN "start" ELSE "install",
                       action |-> action, sees |-> launched, tells |-> FALSE]
      <4>2. work' = [work EXCEPT ![u] = w] /\ w.pc \in {"start", "install"}
        BY <4>1 DEF Request
      <4>3. w.pc \in {"done", "failed"}
        BY <3>2, <4>2
      <4> QED BY <4>2, <4>3
    <3>7. CASE InstallFails(u) \/ DenyLaunch(u) \/ Refuses(u) \/ CancelTask(u) \/ ReturnsDone(u)
              \/ ReturnsFailed(u)
      <4>1. work' = [work EXCEPT ![u] = Waiting]
        BY <3>7 DEF InstallFails, DenyLaunch, Refuses, CancelTask, ReturnsDone, ReturnsFailed, Leaves
      <4> QED BY <3>2, <4>1, WaitingTypes
    <3>8. CASE Prepare(u)
      <4>1. Moves(u, "launching") \/ Moves(u, "executing")
        BY <3>8 DEF Prepare
      <4> QED BY <3>3, <4>1
    <3>9. CASE LaunchAsks(u)
      <4>1. Moves(u, "pending")
        BY <3>9 DEF LaunchAsks
      <4> QED BY <3>3, <4>1
    <3>10. CASE ReturnsLaunched(u)
      BY <2>1, <3>10 DEF ReturnsLaunched, Waiting, StartupTypes
    <3> QED BY <3>1, <3>4, <3>5, <3>6, <3>7, <3>8, <3>9, <3>10
  <2> QED BY <2>1, <2>2 DEF WorkInv
<1>2. StartupSpec => [][Found]_startupVars
  BY <1>1, StartupInitially, StartupStep, PTL DEF StartupSpec
<1> QED BY <1>2 DEF NavigationsFindBrowser

-----------------------------------------------------------------------------
(***************************************************************************)
(* The parts side by side.                                                 *)
(*                                                                         *)
(* They share no variable, so a behaviour of SdkMC is one of each part,    *)
(* and what is proved of a part is so of all of them together.             *)
(***************************************************************************)

\* The parts of SdkMC behave as their modules say, for every value of the constants.
THEOREM PartsBehave ==
    SdkSpec => /\ Spec /\ OperationsSpec /\ DocumentsSpec
               /\ StartupSpec /\ RegistrySpec /\ PolicySpec
<1>1. SdkInit => /\ Init /\ OperationsInit /\ DocumentsInit
                 /\ StartupInit /\ RegistryInit /\ PolicyInit
  BY DEF SdkInit
<1>2. [SdkNext]_sdkVars => /\ [Next]_vars /\ [OperationsNext]_operationVars
                           /\ [DocumentsNext]_documentVars /\ [StartupNext]_startupVars
                           /\ [RegistryNext]_registryVars /\ [PolicyNext]_policyVars
  <2>1. CASE UNCHANGED sdkVars
    BY <2>1 DEF sdkVars
  <2>2. CASE SdkNext
    BY <2>2 DEF SdkNext
  <2> QED BY <2>1, <2>2
<1> QED BY <1>1, <1>2, PTL DEF SdkSpec, Spec, OperationsSpec, DocumentsSpec,
                               StartupSpec, RegistrySpec, PolicySpec

\* Side by side the caches, the operations and the documents keep their types, and each
\* operation on documents waits for exactly one answer (SdkTypeOK).
THEOREM SdkIsTyped == SdkSpec => []SdkTypeOK
BY PartsBehave, CacheIsTyped, OperationsAreTyped, DocumentsAreTyped, PTL DEF SdkTypeOK

===================================================================================
