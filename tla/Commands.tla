-------------------------------- MODULE Commands --------------------------------
(***************************************************************************)
(* The command catalogue of the SDK: for every capability class, the       *)
(* native action each of its methods sends.  A class sends through the     *)
(* executor it was made with: the browser-wide ones through one without    *)
(* scope, those of a page, a frame and a ref through one bound to their    *)
(* document.  An async class sends what its synchronous twin sends.        *)
(***************************************************************************)
EXTENDS Sequences, TLC

-----------------------------------------------------------------------------
(* Browser-wide capabilities.                                               *)

Keyboard == [type |-> "keyboard", insert_text |-> "keyboard", press |-> "press",
             down |-> "keyboard", up |-> "keyboard", dispatch |-> "keyboard"]
AsyncKeyboard == Keyboard

Mouse == [move |-> "mousemove", down |-> "mousedown", up |-> "mouseup", wheel |-> "wheel",
          dispatch |-> "mouse"]
AsyncMouse == Mouse

Clipboard == [read |-> "clipboard", write |-> "clipboard", copy |-> "clipboard",
              paste |-> "clipboard"]
AsyncClipboard == Clipboard

Dialogs == [status |-> "dialog", accept |-> "dialog", dismiss |-> "dialog"]
AsyncDialogs == Dialogs

Cookies == [get |-> "cookies_get", set |-> "cookies_set", clear |-> "cookies_clear"]
AsyncCookies == Cookies

Storage == [get |-> "storage_get", set |-> "storage_set", clear |-> "storage_clear"]
AsyncStorage == Storage

State == [save |-> "state_save", load |-> "state_load", list |-> "state_list",
          show |-> "state_show", clear |-> "state_clear", clean |-> "state_clean",
          rename |-> "state_rename"]
AsyncState == State

Emulation == [viewport |-> "viewport", device |-> "device", headers |-> "headers",
              offline |-> "offline", user_agent |-> "useragent", media |-> "set_media",
              timezone |-> "timezone", locale |-> "locale", geolocation |-> "geolocation",
              permissions |-> "permissions"]
AsyncEmulation == Emulation

Network == [route |-> "route", unroute |-> "unroute", requests |-> "requests",
            clear_requests |-> "requests", request |-> "request_detail",
            har_start |-> "har_start", har_stop |-> "har_stop", credentials |-> "credentials"]
AsyncNetwork == Network

Diagnostics == [console |-> "console", clear_console |-> "console", errors |-> "errors",
                clear_errors |-> "errors", vitals |-> "vitals", accessibility |-> "a11y",
                react_tree |-> "react_tree"]
AsyncDiagnostics == Diagnostics

Scripts == [add_init |-> "addinitscript", remove_init |-> "removeinitscript",
            add |-> "addscript", add_style |-> "addstyle"]
AsyncScripts == Scripts

WebMCP == [list |-> "webmcp_list", invoke |-> "webmcp_invoke", result |-> "webmcp_result",
           cancel |-> "webmcp_cancel"]
AsyncWebMCP == WebMCP

Downloads == [download |-> "download", wait |-> "waitfordownload"]
AsyncDownloads == Downloads

Dashboard == [status |-> "stream_status", stop |-> "stream_disable"]
AsyncDashboard == Dashboard

Diff == [snapshot |-> "diff_snapshot"]
AsyncDiff == Diff

SessionStatus == [status |-> "session_info"]
AsyncSessionStatus == SessionStatus

TabCommands == [list |-> "tab_list", new |-> "tab_new", switch |-> "tab_switch", close |-> "tab_close"]
AsyncTabCommands == TabCommands

Activate == [activate |-> "bringtofront"]

\* The capabilities a browser hands its unbound executor.
Browser == {Keyboard, Mouse, Clipboard, Dialogs, Cookies, Storage, State, Emulation, Network,
            Diagnostics, Scripts, WebMCP, Downloads, Dashboard, Diff, SessionStatus, TabCommands, Activate}

AsyncBrowser == {AsyncKeyboard, AsyncMouse, AsyncClipboard, AsyncDialogs, AsyncCookies,
                 AsyncStorage, AsyncState, AsyncEmulation, AsyncNetwork, AsyncDiagnostics,
                 AsyncScripts, AsyncWebMCP, AsyncDownloads, AsyncDashboard, AsyncDiff,
                 AsyncSessionStatus, AsyncTabCommands, Activate}

-----------------------------------------------------------------------------
(* Documents.                                                               *)

\* What pages and frames share; find, frames and scroll send through them.
Document == [observe |-> "snapshot", geometry |-> "evaluate", scroll |-> "evaluate",
             title |-> "evaluate", url |-> "evaluate", content |-> "evaluate",
             evaluate |-> "evaluate", wait |-> "wait"]
AsyncDocument == Document

\* What a page has of its own.
PageOnly == [open |-> "navigate", title |-> "title", url |-> "url", content |-> "content",
             set_content |-> "setcontent", read |-> "read", back |-> "back",
             forward |-> "forward", reload |-> "reload"]
Page == PageOnly @@ Document
AsyncPage == Page

Frames == [tree |-> "frame", count |-> "evaluate", element |-> "frame"]
AsyncFrames == Frames

\* find.role, text, label, ... each with click, fill, check, hover and text.
Queries == [role |-> "getbyrole", text |-> "getbytext", label |-> "getbylabel",
            placeholder |-> "getbyplaceholder", alt_text |-> "getbyalttext",
            title |-> "getbytitle", test_id |-> "getbytestid"]
AsyncQueries == Queries

\* find.css and find.xpath act on their selector.
Query == [click |-> "click", fill |-> "fill", check |-> "check", hover |-> "hover",
          text |-> "gettext"]
AsyncQuery == Query

ScreenshotCapture == [screenshot |-> "screenshot", screenshot_if_changed |-> "screenshot"]
AsyncScreenshotCapture == ScreenshotCapture

Capture == [pdf |-> "pdf"] @@ ScreenshotCapture
AsyncCapture == Capture

\* A frame's capture has no selector of its own and no PDF.
FrameCapture == ScreenshotCapture
AsyncFrameCapture == FrameCapture

RefActions == [click |-> "click", fill |-> "fill", type |-> "type", hover |-> "hover",
               tap |-> "tap", focus |-> "focus", clear |-> "clear", select |-> "select",
               check |-> "check", uncheck |-> "uncheck", scroll_into_view |-> "scrollintoview"]
AsyncRefActions == RefActions

RefReads == [text |-> "gettext", inner_text |-> "innertext", input_value |-> "inputvalue",
             attribute |-> "getattribute", is_visible |-> "isvisible",
             is_enabled |-> "isenabled", is_checked |-> "ischecked"]
AsyncRefReads == RefReads

-----------------------------------------------------------------------------

Actions(classes) == UNION {{class[method] : method \in DOMAIN class} : class \in classes}

BrowserActions(isAsync) == Actions(IF isAsync THEN AsyncBrowser ELSE Browser)

PageActions(isAsync) ==
    Actions(IF isAsync THEN {AsyncPage, AsyncFrames, AsyncQueries, AsyncQuery, AsyncCapture}
                       ELSE {Page, Frames, Queries, Query, Capture})

FrameActions(isAsync) ==
    Actions(IF isAsync THEN {AsyncDocument, AsyncFrames, AsyncQueries, AsyncQuery, AsyncFrameCapture}
                       ELSE {Document, Frames, Queries, Query, FrameCapture})

RefCommands(isAsync) ==
    Actions(IF isAsync THEN {AsyncRefActions, AsyncRefReads} ELSE {RefActions, RefReads})

-----------------------------------------------------------------------------
(* What the SDK knows about actions.                                        *)

\* The last command of an operation that leaves the page's document behind.
CdpInvalidating == {"navigate", "setcontent", "back", "forward", "reload", "tab_new",
                    "tab_switch", "tab_close", "window_new"}

\* Actions that leave the page's document for another one of the same tab.
Navigating == {"navigate", "setcontent", "back", "forward", "reload"}

\* Mutant of RequiresStart: reading the page is left to the engine.
RequiresStartButRead(action, hasUrl) == action \in {"navigate", "addinitscript", "cdp_url"}

\* Actions the SDK launches the browser for by itself; reading the page is one.
RequiresStart(action, hasUrl) ==
    \/ action \in {"navigate", "addinitscript", "cdp_url"}
    \/ action = "read" /\ ~hasUrl

\* Actions the engine carries out without a browser.
SkipsAutoInstall ==
    {"", "__agent_browser_internal_shutdown", "close", "read", "har_stop", "credentials_set",
     "credentials_get", "credentials_delete", "credentials_list", "auth_save", "auth_show",
     "auth_delete", "auth_list", "confirm", "deny", "state_list", "state_show", "state_clear",
     "state_clean", "state_rename", "device_list", "stream_enable", "stream_disable",
     "stream_status", "session_info"}
=============================================================================
