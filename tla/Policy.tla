--------------------------------- MODULE Policy ---------------------------------
(***************************************************************************)
(* The domain allowlist of a session (transport/policy.py): which hosts    *)
(* the commands that pass it can name, and which cookies and origins its   *)
(* answers can hold.  A URL is its host, or NoHost when it has no http host; *)
(* a URL pattern is a host, a wildcard before a host, a glob without host, *)
(* or one that cannot be read.                                             *)
(***************************************************************************)
EXTENDS Commands, Naturals, FiniteSets

CONSTANTS
    Hosts,          \* host names
    Below,          \* the pairs of a host and a domain it is a subdomain of
    Allowlists,     \* allowlists a session or a launch may be given
    NoHost

\* An allowlist entry is a host, or *.host.
Entries == [wild : BOOLEAN, host : Hosts]

ASSUME PolicyAssumption ==
    /\ Below \subseteq Hosts \X Hosts
    /\ \A a, b, c \in Hosts : <<a, b>> \in Below /\ <<b, c>> \in Below => <<a, c>> \in Below
    /\ Allowlists \subseteq SUBSET Entries
    /\ NoHost \notin Hosts

VARIABLES
    patterns,       \* DomainAllowlist._patterns of the session
    jar,            \* the hosts of the cookies and origins the browser holds
    last            \* the last command that passed, and what it got back

policyVars == <<patterns, jar, last>>

-----------------------------------------------------------------------------

Under(host, domain) == host = domain \/ <<host, domain>> \in Below

\* is_domain_allowed
IsDomainAllowed(list, host) ==
    list = {} \/ \E e \in list : IF e.wild THEN Under(host, e.host) ELSE host = e.host

\* _is_wildcard_domain_allowed
IsWildcardAllowed(list, host) == \E e \in list : e.wild /\ Under(host, e.host)

\* check_url; _url_is_allowed is the same test.
UrlAllowed(list, url) == url # NoHost /\ IsDomainAllowed(list, url)

UrlPatterns == [kind : {"host", "wildcard"}, host : Hosts] \union {[kind |-> "glob"], [kind |-> "unreadable"]}

\* check_url_pattern
PatternAllowed(list, p) ==
    \/ p.kind = "glob"
    \/ p.kind = "host" /\ IsDomainAllowed(list, p.host)
    \/ p.kind = "wildcard" /\ IsWildcardAllowed(list, p.host)

\* The hosts whose URLs a pattern matches, if it names any.
Matched(p) ==
    CASE p.kind = "host"     -> {p.host}
      [] p.kind = "wildcard" -> {h \in Hosts : <<h, p.host>> \in Below}
      [] OTHER               -> {}

\* _cookie_is_allowed, by url or by domain; a cookie with neither is refused.
CookieAllowed(list, host) == UrlAllowed(list, host)

\* _filtered_cookies, _filtered_origins
Filtered(list, hosts) == {h \in hosts : CookieAllowed(list, h)}

\* Mutant of UrlTargetFields: one action that takes a URL is left out.
UrlTargetsButOne == {"addscript", "addstyle", "auth_save", "credentials_set", "diff_url",
                     "navigate", "pushstate", "read", "recording_start", "recording_restart",
                     "tab_new", "vitals"}

UrlTargetFields == UrlTargetsButOne \union {"a11y"}

UrlPatternFields == {"frame", "responsebody", "route", "unroute", "wait", "waitforurl"}

\* The methods of the SDK that hand the engine a URL or a URL pattern: page.open
\* and read, tabs.new and open, scripts.add and add_style, accessibility,
\* network.route and unroute, wait_for_url.
SdkUrlActions == {PageOnly.open, PageOnly.read, TabCommands.new, Scripts.add, Scripts.add_style,
                  Diagnostics.accessibility}
SdkPatternActions == {Network.route, Network.unroute, Document.wait}

-----------------------------------------------------------------------------

Nothing == [action |-> "none", names |-> {}, gets |-> {}, unsafe |-> FALSE]

PolicyInit ==
    /\ patterns \in Allowlists
    /\ jar = {}
    /\ last = Nothing

Passes(action, names) ==
    /\ last' = [Nothing EXCEPT !.action = action, !.names = names]
    /\ UNCHANGED patterns

\* A command with a URL; an action that is not in the table is not checked.
SendUrl(action, url) ==
    /\ patterns # {} /\ action \in UrlTargetFields => UrlAllowed(patterns, url)
    /\ Passes(action, {url})
    /\ jar' \in {jar, jar \union ({url} \ {NoHost})}

SendPattern(action, p) ==
    /\ patterns # {} /\ action \in UrlPatternFields => PatternAllowed(patterns, p)
    /\ Passes(action, Matched(p))
    /\ UNCHANGED jar

\* permissions with an origin
Permissions(origin) ==
    /\ patterns # {} => UrlAllowed(patterns, origin)
    /\ Passes("permissions", {origin})
    /\ UNCHANGED jar

\* cookies_set: every cookie is checked before any is set.
CookiesSet(hosts) ==
    /\ patterns # {} => \A h \in hosts : CookieAllowed(patterns, h)
    /\ Passes("cookies_set", hosts)
    /\ jar' = jar \union (hosts \ {NoHost})

CookiesClear(unsafe) ==
    /\ patterns # {} => unsafe
    /\ Passes("cookies_clear", {})
    /\ jar' = {}

\* Pages of allowed hosts have the browser hold cookies of others.
ThirdParty(h) ==
    /\ jar' = jar \union {h}
    /\ UNCHANGED <<patterns, last>>

\* cookies_get names the URLs it asks for; state_save writes a file that is
\* filtered in place.  unsafe_export_all is the documented way around.
Exports(action, urls, unsafe) ==
    /\ patterns # {} => \A u \in urls : UrlAllowed(patterns, u)
    /\ last' = [action |-> action, names |-> urls, unsafe |-> unsafe,
                gets |-> IF patterns = {} \/ unsafe THEN jar ELSE Filtered(patterns, jar)]
    /\ UNCHANGED <<patterns, jar>>

\* state_load replays saved origins, so it is for sessions without allowlist.
StateLoad(origins) ==
    /\ patterns = {}
    /\ Passes("state_load", origins)
    /\ jar' = jar \union origins

\* _policy_for_command: a launch may not change an allowlist there is.
PolicyForLaunch(requested) == patterns \in {{}, requested}

\* launch with allowedDomains and perhaps saved storage, and finish().
LaunchWith(requested, stored) ==
    /\ PolicyForLaunch(requested)
    /\ requested # {} => stored = {}
    /\ patterns' = requested
    /\ last' = [Nothing EXCEPT !.action = "launch", !.names = stored]
    /\ jar' \in {stored, jar \union stored}

PolicyNext ==
    \/ \E url \in Hosts \union {NoHost} :
          \/ \E action \in SdkUrlActions : SendUrl(action, url)
          \/ Permissions(url)
          \/ CookiesSet({url})
          \/ \E unsafe \in BOOLEAN : Exports("cookies_get", {url}, unsafe)
    \/ \E action \in SdkPatternActions, p \in UrlPatterns : SendPattern(action, p)
    \/ \E unsafe \in BOOLEAN : CookiesClear(unsafe) \/ Exports("state_save", {}, unsafe)
    \/ \E h \in Hosts : ThirdParty(h) \/ StateLoad({h})
    \/ \E requested \in Allowlists, stored \in {{}} \union {{h} : h \in Hosts} : LaunchWith(requested, stored)

PolicySpec == PolicyInit /\ [][PolicyNext]_policyVars

-----------------------------------------------------------------------------
(* Properties *)

\* What the entries of the allowlist permit, said without the code's matching.
Permitted(h) == \E e \in patterns : h = e.host \/ (e.wild /\ <<h, e.host>> \in Below)

\* Every host that a command which passed can reach, read or match is permitted,
\* for each method of the SDK that takes a URL or a pattern with a host, and none
\* passes with a URL that has no host; exports hold permitted hosts only, unless
\* asked for everything, whatever the browser holds (policy.py:71-143, 160-275).
PassedIsAllowed ==
    patterns # {} => /\ \A h \in last.names : Permitted(h)
                     /\ ~last.unsafe => \A h \in last.gets : Permitted(h)
=============================================================================
