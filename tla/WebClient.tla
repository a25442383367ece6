----------------------------- MODULE WebClient -----------------------------
(***************************************************************************)
(* The session of one browser: the tabs of the web client                  *)
(* (apps/web/src/api/http-client.ts, session-store.ts and                  *)
(* auth/auth-context.tsx), the refresh cookie they share, and the answers  *)
(* of the API (auth.controller.ts, refresh-cookie.service.ts, AuthService). *)
(*                                                                         *)
(* A tab is a process that never waits inside a step: between two awaits   *)
(* its code runs alone, and so do the calls a refresh resumes.  A request  *)
(* is sent, handled by the server, and its answer received or lost, each a *)
(* step, except where nothing can tell the steps apart: a login, a logout  *)
(* and a call that succeeds are handled when they are answered.  A cookie  *)
(* travels with the sending and comes with the answer.  The server handles *)
(* a request in one step; Sessions has what happens inside.                *)
(*                                                                         *)
(* Data abstraction.  n is the latest refresh token of the n-th login, and *)
(* -n any token of it that has been rotated out; n is also the access      *)
(* token signed for the latest one.  0 is no token, or an access token the *)
(* API refuses.  A call stands for any request that is not one of the four *)
(* below.  What the screens show is left out.                              *)
(*                                                                         *)
(* The specification's own names start with Browser: SessionsProofs        *)
(* extends this module together with Sessions, the other end.              *)
(***************************************************************************)
EXTENDS Integers, FiniteSets

CONSTANTS
    Tab,       \* tabs of the browser
    Slot,      \* bound: the calls <<t, 1>>, <<t, 2>>, ... a tab has under way at once
    MaxLogin   \* bound: logins, the one the browser starts with included

ASSUME WebClientAssumption ==
    /\ Tab \X {1} \subseteq Slot
    /\ Slot \subseteq Tab \X Nat
    /\ MaxLogin \in Nat \ {0}

VARIABLES
    alive,     \* the logins whose family of sessions has not been revoked
    logins,    \* number of logins so far
    cookie,    \* the refresh cookie
    tabs,      \* what each tab shows and holds in memory
    talks,     \* the requests of a tab about its session
    calls,     \* the other requests
    excused    \* history: something has happened that may end a session

browser == <<alive, logins, cookie, tabs, talks, calls, excused>>

None == 0
Token == -MaxLogin..MaxLogin

\* restoring, in and out are AuthState without and with a user.
TabState == [page: {"closed", "restoring", "in", "out"}, access: 0..MaxLogin]

\* boot is the refresh at start-up, refresh the one all calls of a tab share.
Kind == {"boot", "refresh"}
Talk == [pc: {"none", "sent", "ok", "refused"}, token: Token]
Silent == [pc |-> "none", token |-> None]

\* profile: the call that restores the user of a tab.
CallState == [pc: {"idle", "sent", "refused", "waiting"}, token: 0..MaxLogin,
              again: BOOLEAN, profile: BOOLEAN]
Settled == [pc |-> "idle", token |-> None, again |-> FALSE, profile |-> FALSE]
Ask(token, profile) == [pc |-> "sent", token |-> token, again |-> FALSE, profile |-> profile]

\* A call waits only while its tab's refresh is under way.
BrowserTypeOK ==
    /\ alive \subseteq 1..logins
    /\ logins \in 0..MaxLogin
    /\ cookie \in Token
    /\ tabs \in [Tab -> TabState]
    /\ talks \in [Tab -> [Kind -> Talk]]
    /\ calls \in [Slot -> CallState]
    /\ \A s \in Slot : calls[s].pc = "waiting" => talks[s[1]]["refresh"].pc # "none"
    /\ excused \in BOOLEAN

\* A closed browser, new or with the session of an earlier login.
BrowserInit ==
    /\ logins \in {0, 1}
    /\ alive = 1..logins
    /\ cookie = logins
    /\ tabs = [t \in Tab |-> [page |-> "closed", access |-> None]]
    /\ talks = [t \in Tab |-> [k \in Kind |-> Silent]]
    /\ calls = [s \in Slot |-> Settled]
    /\ excused = FALSE

-----------------------------------------------------------------------------
Of(t) == {s \in Slot : s[1] = t}
Waiting(t) == {s \in Of(t) : calls[s].pc = "waiting"}

Sent(token) == [pc |-> "sent", token |-> token]
Say(t, k, talk) == talks' = [talks EXCEPT ![t][k] = talk]
Show(t, page, access) == tabs' = [tabs EXCEPT ![t] = [page |-> page, access |-> access]]
Settle(ss) == calls' = [s \in Slot |-> IF s \in ss THEN Settled ELSE calls[s]]

\* signOut: clearSession and a state without a user.
SignOut(t) == Show(t, "out", None)

-----------------------------------------------------------------------------
(* The server.                                                             *)

Good(token) == token \in alive

\* Rotation: whoever holds the token that is replaced holds a rotated one,
\* and the access token signed for its session is refused from now on.
Aged(n, token) == IF token = n THEN -n ELSE token
Dead(n, token) == IF token = n THEN None ELSE token

Rotate(t, k, n) ==
    /\ cookie' = Aged(n, cookie)
    /\ tabs' = [u \in Tab |-> [tabs[u] EXCEPT !.access = Dead(n, @)]]
    /\ talks' = [u \in Tab |-> [j \in Kind |->
            IF u = t /\ j = k THEN [pc |-> "ok", token |-> n]
            ELSE [talks[u][j] EXCEPT !.token = Aged(n, @)]]]
    /\ calls' = [s \in Slot |-> [calls[s] EXCEPT !.token = Dead(n, @)]]
    /\ excused' = (excused \/
            \E s \in Slot : calls[s].again /\ calls[s].pc = "sent" /\ calls[s].token = n)
    /\ UNCHANGED alive

Refuse(t, k) == Say(t, k, [pc |-> "refused", token |-> None])

\* refresh: a token rotated out gives its whole family away.
HandleRefresh(t, k) ==
    LET token == talks[t][k].token IN
    /\ talks[t][k].pc = "sent"
    /\ IF Good(token) THEN Rotate(t, k, token)
       ELSE /\ alive' = alive \ {-token}
            /\ Refuse(t, k)
            /\ UNCHANGED <<cookie, tabs, calls, excused>>
    /\ UNCHANGED logins

\* Any other failure is answered too, and the client asks no more than response.ok.
RefreshFails(t, k) ==
    /\ talks[t][k].pc = "sent"
    /\ Refuse(t, k)
    /\ excused' = TRUE
    /\ UNCHANGED <<alive, logins, cookie, tabs, calls>>

-----------------------------------------------------------------------------
(* A tab and its session.                                                  *)

\* The calls that met a 401 go again, with the token that was just stored.
Resend(t, token) ==
    calls' = [s \in Slot |->
        IF s \in Waiting(t) THEN [calls[s] EXCEPT !.pc = "sent", !.token = token, !.again = TRUE]
        ELSE calls[s]]

\* A refresh under way, its answer not yet stored: the cookie is the one it sent.
Overlaps(t, k) ==
    \E u \in Tab, j \in Kind :
        <<u, j>> # <<t, k>> /\ talks[u][j].pc \in {"sent", "ok"}

\* Opening or reloading: memory is lost, and the effect of AuthProvider refreshes.
Open(t) ==
    /\ Show(t, "restoring", None)
    /\ talks' = [talks EXCEPT ![t] = [k \in Kind |-> IF k = "boot" THEN Sent(cookie) ELSE Silent]]
    /\ Settle(Of(t))
    /\ excused' = (excused \/ Overlaps(t, "none"))
    /\ UNCHANGED <<alive, logins, cookie>>

\* Closing drops the answers on their way, and the cookies they carry.
Close(t) ==
    /\ tabs[t].page # "closed"
    /\ Show(t, "closed", None)
    /\ talks' = [talks EXCEPT ![t] = [k \in Kind |-> Silent]]
    /\ Settle(Of(t))
    /\ excused' = (excused \/ \E k \in Kind : talks[t][k].pc \in {"sent", "ok"})
    /\ UNCHANGED <<alive, logins, cookie>>

\* Restored, the tab asks for the profile.
BootAnswered(t) ==
    LET talk == talks[t]["boot"] IN
    /\ Say(t, "boot", Silent)
    /\ \/ /\ talk.pc = "ok"
          /\ cookie' = talk.token
          /\ tabs' = [tabs EXCEPT ![t].access = talk.token]
          /\ calls' = [calls EXCEPT ![<<t, 1>>] = Ask(talk.token, TRUE)]
       \/ /\ talk.pc = "refused"
          /\ SignOut(t)
          /\ UNCHANGED <<cookie, calls>>
    /\ UNCHANGED <<alive, logins, excused>>

BootLost(t) ==
    /\ talks[t]["boot"].pc # "none"
    /\ Say(t, "boot", Silent)
    /\ SignOut(t)
    /\ excused' = TRUE
    /\ UNCHANGED <<alive, logins, cookie, calls>>

\* refreshSession, and every caller that shares its promise.
RefreshAnswered(t) ==
    LET talk == talks[t]["refresh"] IN
    /\ Say(t, "refresh", Silent)
    /\ \/ /\ talk.pc = "ok"
          /\ cookie' = talk.token
          /\ tabs' = [tabs EXCEPT ![t].access = talk.token]
          /\ Resend(t, talk.token)
       \/ /\ talk.pc = "refused"
          /\ SignOut(t)
          /\ Settle(Waiting(t))
          /\ UNCHANGED cookie
    /\ UNCHANGED <<alive, logins, excused>>

\* Mutant: the callers of a rejected promise are forgotten.
RefreshForgotten(t) ==
    /\ talks[t]["refresh"].pc # "none"
    /\ Say(t, "refresh", Silent)
    /\ IF \E s \in Waiting(t) : calls[s].profile THEN SignOut(t) ELSE UNCHANGED tabs
    /\ excused' = TRUE
    /\ UNCHANGED <<alive, logins, cookie, calls>>

\* The promise is rejected and the calls with it; only the profile's caller signs out.
RefreshLost(t) ==
    /\ talks[t]["refresh"].pc # "none"
    /\ Say(t, "refresh", Silent)
    /\ IF \E s \in Waiting(t) : calls[s].profile THEN SignOut(t) ELSE UNCHANGED tabs
    /\ Settle(Waiting(t))
    /\ excused' = TRUE
    /\ UNCHANGED <<alive, logins, cookie>>

\* The login page shows its form while the session is being restored, too.
Login(t) ==
    /\ tabs[t].page \in {"restoring", "out"}
    /\ logins < MaxLogin
    /\ logins' = logins + 1
    /\ alive' = alive \cup {logins'}
    /\ cookie' = logins'
    /\ Show(t, "in", logins')
    /\ excused' = (excused \/ \E u \in Tab : tabs[u].page = "restoring")
    /\ UNCHANGED <<talks, calls>>

\* A 401 to a login loses the session as any other does.
LoginFails(t) ==
    /\ tabs[t].page \in {"restoring", "out"}
    /\ SignOut(t)
    /\ excused' = (excused \/ tabs[t].page = "restoring")
    /\ UNCHANGED <<alive, logins, cookie, talks, calls>>

\* Whether it is handled and answered or not, the tab signs out.  A rotated
\* token is not a session any more: its successor stays.
Logout(t) ==
    /\ tabs[t].page = "in"
    /\ \/ alive' = alive \ {cookie} /\ cookie' \in {None, cookie}
       \/ UNCHANGED <<alive, cookie>>
    /\ SignOut(t)
    /\ excused' = TRUE
    /\ UNCHANGED <<logins, talks, calls>>

-----------------------------------------------------------------------------
(* Calls.                                                                  *)

\* The first slot is kept for the profile while the session is being restored.
Start(s) ==
    /\ tabs[s[1]].page = "in"
    /\ calls[s].pc = "idle"
    /\ s[2] = 1 => talks[s[1]]["boot"] = Silent
    /\ calls' = [calls EXCEPT ![s] = Ask(tabs[s[1]].access, FALSE)]
    /\ UNCHANGED <<alive, logins, cookie, tabs, talks, excused>>

\* Mutant: every caller refreshes for itself.
RefreshAgain(t) ==
    /\ Say(t, "refresh", Sent(cookie))
    /\ excused' = (excused \/ Overlaps(t, "refresh"))

\* One refresh for all callers of a tab: whoever comes second waits for it.
EnsureRefresh(t) ==
    IF talks[t]["refresh"].pc # "none" THEN UNCHANGED <<talks, excused>>
    ELSE /\ Say(t, "refresh", Sent(cookie))
         /\ excused' = (excused \/ Overlaps(t, "refresh"))

\* JwtAuthGuard: the session of the access token is not revoked.  The profile
\* shows who is signed in.
CallSucceeds(s) ==
    /\ calls[s].pc = "sent"
    /\ Good(calls[s].token)
    /\ Settle({s})
    /\ IF calls[s].profile THEN tabs' = [tabs EXCEPT ![s[1]].page = "in"] ELSE UNCHANGED tabs
    /\ UNCHANGED <<alive, logins, cookie, talks, excused>>

CallRefused(s) ==
    /\ calls[s].pc = "sent"
    /\ ~Good(calls[s].token)
    /\ calls' = [calls EXCEPT ![s].pc = "refused", ![s].token = None]
    /\ UNCHANGED <<alive, logins, cookie, tabs, talks, excused>>

\* A 401: the call is sent again once the session is refreshed, but only once.
CallRetried(s) ==
    /\ calls[s].pc = "refused"
    /\ ~calls[s].again
    /\ calls' = [calls EXCEPT ![s].pc = "waiting"]
    /\ EnsureRefresh(s[1])
    /\ UNCHANGED <<alive, logins, cookie, tabs>>

CallGivesUp(s) ==
    /\ calls[s].pc = "refused"
    /\ calls[s].again
    /\ Settle({s})
    /\ SignOut(s[1])
    /\ UNCHANGED <<alive, logins, cookie, talks, excused>>

\* Any other error is thrown to the caller, and the profile's caller signs out.
CallFails(s) ==
    /\ calls[s].pc = "sent"
    /\ Settle({s})
    /\ IF calls[s].profile THEN SignOut(s[1]) /\ excused' = TRUE ELSE UNCHANGED <<tabs, excused>>
    /\ UNCHANGED <<alive, logins, cookie, talks>>

-----------------------------------------------------------------------------
(* The world around.                                                       *)

\* An access token is good for some minutes.
ExpireAccess(t) ==
    /\ tabs[t].access # None
    /\ tabs' = [tabs EXCEPT ![t].access = None]
    /\ UNCHANGED <<alive, logins, cookie, talks, calls, excused>>

\* The session expires or is revoked from another browser.
EndSession(f) ==
    /\ alive' = alive \ {f}
    /\ excused' = TRUE
    /\ UNCHANGED <<logins, cookie, tabs, talks, calls>>

-----------------------------------------------------------------------------
RefreshStep(t) ==
    \/ \E k \in Kind : HandleRefresh(t, k) \/ RefreshFails(t, k)
    \/ RefreshAnswered(t) \/ RefreshLost(t)

CallStep(s) ==
    CallSucceeds(s) \/ CallRefused(s) \/ CallRetried(s) \/ CallGivesUp(s) \/ CallFails(s)

TabStep(t) ==
    \/ Open(t) \/ Close(t) \/ ExpireAccess(t)
    \/ BootAnswered(t) \/ BootLost(t)
    \/ Login(t) \/ LoginFails(t) \/ Logout(t)

BrowserNext ==
    \/ \E t \in Tab : TabStep(t) \/ RefreshStep(t)
    \/ \E s \in Slot : Start(s) \/ CallStep(s)
    \/ \E f \in alive : EndSession(f)

\* The API answers what it is asked, and fetch settles: with the answer or a failure.
Fairness ==
    /\ \A t \in Tab : WF_browser(RefreshStep(t))
    /\ \A s \in Slot : WF_browser(CallStep(s))

BrowserSpec == BrowserInit /\ [][BrowserNext]_browser /\ Fairness

-----------------------------------------------------------------------------
(* A tab that is signed in, or is restoring a session, is not signed out   *)
(* by the client's own doing: by several calls meeting a 401 at once, by   *)
(* access tokens that expire or that another tab's refresh invalidates.    *)
(* What excuses it: the session ended on the server or was signed out; an  *)
(* answer was lost or the server failed; a tab was closed with a request   *)
(* in flight; two refreshes overlapped; a refresh overtook a call that had *)
(* already been sent again; a login began while a session was restored.    *)
SignedOutForAReason ==
    [][\A t \in Tab :
        /\ tabs[t].page \in {"restoring", "in"}
        /\ tabs'[t].page = "out"
        => excused' \/ (tabs[t].page = "restoring" /\ cookie = None)]_browser

(* Every call ends: a 401 is answered by one refresh and one more attempt, *)
(* and no pattern of refusals, of other tabs' refreshes or of failures     *)
(* keeps a caller waiting or going round for ever.                         *)
CallsSettle == \A s \in Slot : calls[s].pc # "idle" ~> calls[s].pc = "idle"
=============================================================================
