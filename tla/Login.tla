------------------------------- MODULE Login -------------------------------
(***************************************************************************)
(* The sessions of the user interface: a browser with several tabs, which   *)
(* share one cookie, logs in with GitHub (authenticate and                  *)
(* authCallbackHandler of pkg/api/api_ui.go), and the pages that it gets    *)
(* call the API (sessionAuth of pkg/api/middleware.go).                     *)
(*                                                                          *)
(* A request carries the cookie of the moment it is sent; a response sets   *)
(* the cookie when it arrives.  Between two statements of a handler those   *)
(* of other handlers run.  The cookie is the id of a session; the random    *)
(* state of a session is its id here.  Errors of the database, which answer *)
(* 500, are left out, and so are the dummy user and a server without OAuth. *)
(***************************************************************************)
EXTENDS PGLayer

CONSTANTS
    Tabs,
    Polling,      \* tabs of status pages, which poll the API
    CookieMaxAge, \* life of a session
    MaxSessions,  \* bound: sessions created
    MaxTime,      \* bound: of the clock
    MaxFailures   \* refused calls after which a status page polls no longer

VARIABLES
    cookie,   \* of the browser: the id of a session, or NULL
    pc,       \* of a tab: its request, or what it shows
    sid,      \* of a tab: the session id that its request has
    own,      \* of a tab: the session whose state GitHub sends back
    doomed,   \* of a tab: the session that a call of its page is about to delete
    failures, \* of a tab: calls of its page that were refused
    now

tabVars == <<pc, sid, own>>
pageVars == <<doomed, failures>>

BrowserInit ==
    /\ cookie = NULL /\ now = 0
    /\ pc = [t \in Tabs |-> "closed"] /\ sid = [t \in Tabs |-> NULL]
    /\ own = [t \in Tabs |-> NULL]
    /\ doomed = [t \in Tabs |-> NULL] /\ failures = [t \in Tabs |-> 0]

IsExpired(uis) == now > uis.expires
IsValid(uis) == ~IsExpired(uis) /\ uis.authenticated /\ uis.github_user # NULL /\ uis.token # NULL

To(t, next) == pc' = [pc EXCEPT ![t] = next]

----------------------------------------------------------------------------
(* authenticate, in front of every page.                                    *)

\* What a tab shows while it waits for nothing.
AtRest == {"closed", "served", "rejected", "unauthorized"}

\* The user opens a page, again or for the first time, or the browser follows the
\* redirection to it.
Ask(t) ==
    /\ pc[t] \in AtRest \cup {"target"}
    /\ To(t, "asked") /\ sid' = [sid EXCEPT ![t] = cookie]
    /\ failures' = [failures EXCEPT ![t] = 0]
    /\ UNCHANGED <<tables, cookie, own, doomed, now>>

Authenticate(t) ==
    /\ pc[t] = "asked"
    /\ LET uis == GetUISession(sid[t]) IN
          To(t, CASE uis = NULL -> "create"
                  [] uis # NULL /\ IsValid(uis) -> "page"
                  [] OTHER -> "delete")
    /\ UNCHANGED <<tables, cookie, sid, own, pageVars, now>>

\* The session was not valid when it was read.
DeleteInvalid(t) ==
    /\ pc[t] = "delete" /\ To(t, "create")
    /\ DeleteUISession(sid[t])
    /\ UNCHANGED <<cookie, sid, own, pageVars, now>>

RedirectToAuth(t) ==
    /\ pc[t] = "create" /\ sequence < MaxSessions
    /\ CreateUISession(t, sequence + 1, now + CookieMaxAge)
    /\ To(t, "redirect")
    /\ sid' = [sid EXCEPT ![t] = sequence + 1] /\ own' = [own EXCEPT ![t] = sequence + 1]
    /\ UNCHANGED <<cookie, pageVars, now>>

\* A response with a cookie arrives.
Arrives(t, response, next) ==
    /\ pc[t] = response /\ To(t, next)
    /\ cookie' = sid[t]
    /\ UNCHANGED <<tables, sid, own, pageVars, now>>

\* Broken variant: the response does not set the cookie.
ArrivesWithoutCookie(t) ==
    /\ pc[t] = "redirect" /\ To(t, "github")
    /\ UNCHANGED <<tables, cookie, sid, own, pageVars, now>>

Redirected(t) == Arrives(t, "redirect", "github")

Served(t) == Arrives(t, "page", "served")

----------------------------------------------------------------------------
(* authCallbackHandler.                                                     *)

\* The user is logged in to GitHub, which sends the browser back with the state.
Callback(t) ==
    /\ pc[t] = "github" /\ To(t, "callback")
    /\ sid' = [sid EXCEPT ![t] = cookie]
    /\ UNCHANGED <<tables, cookie, own, pageVars, now>>

CheckState(t) ==
    /\ pc[t] = "callback"
    /\ LET uis == GetUISession(sid[t]) IN
          To(t, IF uis = NULL \/ (uis # NULL /\ uis.state # own[t]) THEN "rejected"
                ELSE "authorize")
    /\ UNCHANGED <<tables, cookie, sid, own, pageVars, now>>

\* getAndAuthorizeGitHubUser: the code is good, and the user has the app and a repository.
Authorize(t) ==
    /\ pc[t] = "authorize"
    /\ To(t, "update") \/ To(t, "unauthorized")
    /\ UNCHANGED <<tables, cookie, sid, own, pageVars, now>>

UpdateSession(t) ==
    /\ pc[t] = "update" /\ To(t, "accepted")
    /\ UpdateUISession(sid[t], "user", "token", TRUE)
    /\ UNCHANGED <<cookie, sid, own, pageVars, now>>

Accepted(t) == Arrives(t, "accepted", "target")

----------------------------------------------------------------------------
(* sessionAuth, in front of the API: the page of a tab calls it.            *)

\* The call is refused, and a session that is there and not valid is going to be deleted.
Poll(t) ==
    /\ t \in Polling /\ pc[t] = "served" /\ doomed[t] = NULL /\ failures[t] < MaxFailures
    /\ LET uis == GetUISession(cookie) IN
          /\ uis = NULL \/ (uis # NULL /\ ~IsValid(uis))
          /\ doomed' = [doomed EXCEPT ![t] = IF uis = NULL THEN NULL ELSE cookie]
    /\ failures' = [failures EXCEPT ![t] = @ + 1]
    /\ UNCHANGED <<tables, cookie, tabVars, now>>

DeleteDoomed(t) ==
    /\ doomed[t] # NULL
    /\ DeleteUISession(doomed[t])
    /\ doomed' = [doomed EXCEPT ![t] = NULL]
    /\ UNCHANGED <<cookie, tabVars, failures, now>>

----------------------------------------------------------------------------
\* A session lives longer than a login takes.
Tick ==
    /\ now < MaxTime /\ \A t \in Tabs : pc[t] \in AtRest
    /\ now' = now + 1
    /\ UNCHANGED <<tables, cookie, tabVars, pageVars>>

SessionsCleanup ==
    DeleteExpiredUISessions(now) /\ UNCHANGED <<cookie, tabVars, pageVars, now>>

LoginNext ==
    \/ \E t \in Tabs : \/ Ask(t) \/ Authenticate(t) \/ DeleteInvalid(t) \/ RedirectToAuth(t)
                       \/ Redirected(t) \/ Served(t)
                       \/ Callback(t) \/ CheckState(t) \/ Authorize(t) \/ UpdateSession(t)
                       \/ Accepted(t) \/ Poll(t) \/ DeleteDoomed(t)
    \/ Tick \/ SessionsCleanup

----------------------------------------------------------------------------
Rejected(t) == pc[t] = "rejected"

\* However the requests of the tabs interleave, the login of a browser does not fail in
\* all of its tabs for what the other tabs did.
NotAllRejected == ~ \A t \in Tabs : Rejected(t)
=============================================================================
