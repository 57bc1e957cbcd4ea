----------------------------- MODULE PanelAuth -----------------------------
(***************************************************************************)
(* Logging in and out of the web panel: the tabs of a browser, which share *)
(* its cookie, and the server's sessions.  A tab asks for its session when *)
(* it loads (use-auth.tsx), its login form logs in and asks again, the     *)
(* panel's button logs out, and a page's call may be refused.  Any answer  *)
(* may come late or be lost; a request carries the cookie of the moment it *)
(* was sent, and an answer's Set-Cookie takes effect when it comes back.   *)
(***************************************************************************)
EXTENDS PanelSessions

CONSTANTS Tabs,
          MaxLost,   \* bound: requests or answers lost
          MaxClicks  \* bound: what the users of all tabs do

ASSUME AuthAssumption == MaxLost \in Nat /\ MaxClicks \in Nat

\* What a tab may have out at once: what it asked when it loaded or a page's
\* call, what its form asked, and a logout.
Slots == {"side", "form", "out"}

VARIABLES
  cookie,     \* the browser's: a token or None
  page,       \* per tab: the login page or the panel
  authed, loading, csrf,  \* per tab AuthProvider's state and the CSRF token
  form,       \* per tab loginState
  req,        \* per tab and slot the request out
  disturbed,  \* observation: tabs whose session something else has touched
  lost, clicks

tabVars == <<page, authed, loading, csrf, form>>
authVars == <<sessionVars, cookie, tabVars, req, disturbed, lost, clicks>>

NoRequest == [at |-> "none", what |-> "none", cookie |-> None, good |-> FALSE,
              token |-> None]

Sent(w) == [NoRequest EXCEPT !.at = "sent", !.what = w, !.cookie = cookie]

Ask(b, s, w) == req' = [req EXCEPT ![b][s] = Sent(w)]

Click == clicks < MaxClicks /\ clicks' = clicks + 1

AuthInit ==
  /\ SessionsInit
  /\ cookie = None
  /\ page = [b \in Tabs |-> "panel"]
  /\ authed = [b \in Tabs |-> FALSE]
  /\ loading = [b \in Tabs |-> TRUE]
  /\ csrf = [b \in Tabs |-> None]
  /\ form = [b \in Tabs |-> "idle"]
  /\ req = [b \in Tabs |-> [s \in Slots |->
              IF s = "side" THEN [NoRequest EXCEPT !.at = "sent", !.what = "check"]
              ELSE NoRequest]]
  /\ disturbed = {}
  /\ lost = 0 /\ clicks = 0

---------------------------------------------------------------------------
\* AppLayout: a panel without a session goes to the login page.
GoLogin(b) ==
  /\ page[b] = "panel" /\ ~loading[b] /\ ~authed[b]
  /\ page' = [page EXCEPT ![b] = "login"]
  /\ form' = [form EXCEPT ![b] = "idle"]
  /\ UNCHANGED <<sessionVars, cookie, authed, loading, csrf, req, disturbed, lost, clicks>>

\* What a tab offers: the form of LoginPage, unless it is busy, and the panel with
\* its menu, navigation and page, once the session is known.
FormOffered(b) == page[b] = "login" /\ form[b] = "idle"
Inside(b) == page[b] = "panel" /\ ~loading[b] /\ authed[b]

\* handleSubmit of LoginPage, also while the tab's first check is still out.
Submit(b) ==
  /\ Click
  /\ FormOffered(b) /\ req[b]["form"].at = "none"
  /\ form' = [form EXCEPT ![b] = "submitting"]
  /\ Ask(b, "form", "login")
  /\ disturbed' = IF req[b]["side"].at # "none" THEN disturbed \cup {b}
                  ELSE disturbed \ {b}
  /\ UNCHANGED <<sessionVars, cookie, page, authed, loading, csrf, lost>>

\* The button of AppLayout and its menu; a second click repeats the request,
\* and is left out.
PressLogout(b) ==
  /\ Click
  /\ Inside(b) /\ req[b]["out"].at = "none"
  /\ Ask(b, "out", "logout")
  /\ UNCHANGED <<sessionVars, cookie, tabVars, disturbed, lost>>

\* A page of the panel reads or posts something.
Call(b) ==
  /\ Click
  /\ Inside(b) /\ req[b]["side"].at = "none"
  /\ Ask(b, "side", "call")
  /\ UNCHANGED <<sessionVars, cookie, tabVars, disturbed, lost>>

\* The login page's timer leads on to the panel.
Bridge(b) ==
  /\ page[b] = "login" /\ form[b] = "bridge"
  /\ page' = [page EXCEPT ![b] = "panel"]
  /\ form' = [form EXCEPT ![b] = "idle"]
  /\ UNCHANGED <<sessionVars, cookie, authed, loading, csrf, req, disturbed, lost, clicks>>

---------------------------------------------------------------------------
\* The server handles what tab b asked in slot s.
Answer(b, s, good, token) ==
  req' = [req EXCEPT ![b][s] = [@ EXCEPT !.at = "back", !.good = good, !.token = token]]

HandleLogin(b, s) ==
  /\ req[b][s].what = "login"
  /\ \/ \E t \in Fresh : /\ t = CHOOSE u \in Fresh : TRUE
                         /\ Login(t) /\ Answer(b, s, TRUE, t)
     \/ WrongLogin /\ Answer(b, s, FALSE, None)
     \/ /\ password = Unset \/ locked
        /\ Answer(b, s, password = Unset, None)
        /\ UNCHANGED sessionVars

HandleLogout(b, s) ==
  /\ req[b][s].what = "logout"
  /\ IF req[b][s].cookie = None THEN UNCHANGED sessionVars ELSE Logout(req[b][s].cookie)
  /\ Answer(b, s, TRUE, None)

\* GET /api/session, and requireSession before every other route.
HandleCheck(b, s) ==
  LET r == req[b][s] IN
  /\ r.what \in {"check", "call"}
  /\ Answer(b, s, password = Unset \/ Valid(r.cookie),
            IF password # Unset /\ Valid(r.cookie) THEN r.cookie ELSE None)
  /\ UNCHANGED sessionVars

Handle(b, s) ==
  /\ req[b][s].at = "sent"
  /\ HandleLogin(b, s) \/ HandleLogout(b, s) \/ HandleCheck(b, s)
  /\ UNCHANGED <<cookie, tabVars, disturbed, lost, clicks>>

\* A request or its answer is lost: fetch throws.
Lose(b, s) ==
  /\ req[b][s].at \in {"sent", "back"} /\ lost < MaxLost
  /\ req' = [req EXCEPT ![b][s] = [@ EXCEPT !.at = "failed", !.good = FALSE, !.token = None]]
  /\ lost' = lost + 1
  /\ UNCHANGED <<sessionVars, cookie, tabVars, disturbed, clicks>>

\* An answer is in, or the error.
In(b, s, w) == req[b][s].at \in {"back", "failed"} /\ req[b][s].what = w

\* The browser takes the answer's cookie, which the other tabs send from now on.
TakeCookie(b, t) == cookie' = t /\ disturbed' = disturbed \cup (Tabs \ {b})

\* checkSession goes on: the state and the CSRF token are those of the answer.
Checked(b, s) ==
  /\ In(b, s, "check")
  /\ authed' = [authed EXCEPT ![b] = req[b][s].good]
  /\ csrf' = [csrf EXCEPT ![b] = req[b][s].token]
  /\ loading' = [loading EXCEPT ![b] = FALSE]
  /\ form' = IF s = "form" THEN [form EXCEPT ![b] = "bridge"] ELSE form
  /\ req' = [req EXCEPT ![b][s] = NoRequest]
  /\ UNCHANGED <<sessionVars, cookie, page, disturbed, lost, clicks>>

\* Mutant: a login is taken for the session, without asking for it.
LoggedInUnchecked(b) ==
  /\ In(b, "form", "login")
  /\ form' = [form EXCEPT ![b] = IF req[b]["form"].good THEN "bridge" ELSE "idle"]
  /\ authed' = [authed EXCEPT ![b] = @ \/ req[b]["form"].good]
  /\ IF req[b]["form"].token # None THEN TakeCookie(b, req[b]["form"].token)
     ELSE UNCHANGED <<cookie, disturbed>>
  /\ req' = [req EXCEPT ![b]["form"] = NoRequest]
  /\ UNCHANGED <<sessionVars, page, loading, csrf, lost, clicks>>

\* Mutant: a login whose answer is lost is not caught.
LoggedInUncaught(b) ==
  LET r == req[b]["form"] IN
  /\ In(b, "form", "login")
  /\ IF r.token # None THEN TakeCookie(b, r.token) ELSE UNCHANGED <<cookie, disturbed>>
  /\ req' = [req EXCEPT ![b]["form"] =
               IF r.good THEN [Sent("check") EXCEPT !.cookie = cookie'] ELSE NoRequest]
  /\ form' = IF r.at = "back" /\ ~r.good THEN [form EXCEPT ![b] = "idle"] ELSE form
  /\ UNCHANGED <<sessionVars, page, authed, loading, csrf, lost, clicks>>

\* login goes on: after a success it asks for the session, which carries the
\* new cookie; a refusal's 401 clears the CSRF token.
LoggedIn(b) ==
  LET r == req[b]["form"] IN
  /\ In(b, "form", "login")
  /\ IF r.token # None THEN TakeCookie(b, r.token) ELSE UNCHANGED <<cookie, disturbed>>
  /\ IF r.good
       THEN /\ req' = [req EXCEPT ![b]["form"] = [Sent("check") EXCEPT !.cookie = cookie']]
            /\ UNCHANGED <<form, csrf>>
       ELSE /\ req' = [req EXCEPT ![b]["form"] = NoRequest]
            /\ form' = [form EXCEPT ![b] = "idle"]
            /\ \/ UNCHANGED csrf
               \/ r.at = "back" /\ csrf' = [csrf EXCEPT ![b] = None]
  /\ UNCHANGED <<sessionVars, page, authed, loading, lost, clicks>>

\* logout goes on, whether the server answered or not.
LoggedOut(b) ==
  /\ In(b, "out", "logout")
  /\ IF req[b]["out"].good THEN TakeCookie(b, None) ELSE UNCHANGED <<cookie, disturbed>>
  /\ authed' = [authed EXCEPT ![b] = FALSE]
  /\ csrf' = [csrf EXCEPT ![b] = None]
  /\ page' = [page EXCEPT ![b] = IF req[b]["out"].good THEN "login" ELSE @]
  /\ req' = [req EXCEPT ![b]["out"] = NoRequest]
  /\ UNCHANGED <<sessionVars, loading, form, lost, clicks>>

\* A page's call is answered; a refusal only clears the CSRF token.
Called(b) ==
  LET refused == req[b]["side"].at = "back" /\ ~req[b]["side"].good IN
  /\ In(b, "side", "call")
  /\ csrf' = IF refused THEN [csrf EXCEPT ![b] = None] ELSE csrf
  /\ disturbed' = IF refused THEN disturbed \cup {b} ELSE disturbed
  /\ req' = [req EXCEPT ![b]["side"] = NoRequest]
  /\ UNCHANGED <<sessionVars, cookie, page, authed, loading, form, lost, clicks>>

\* The server on its own; a start that turns logging in on or off touches every
\* tab's session.
Server ==
  /\ ServerAlone
  /\ disturbed' = IF password # password' /\ Unset \in {password, password'} THEN Tabs
                  ELSE disturbed
  /\ UNCHANGED <<cookie, tabVars, req, lost, clicks>>

Progress(b) == \/ GoLogin(b) \/ Bridge(b) \/ LoggedIn(b) \/ LoggedOut(b) \/ Called(b)
               \/ \E s \in Slots : Handle(b, s) \/ Checked(b, s)

AuthNext == \/ \E b \in Tabs : \/ Progress(b) \/ Submit(b) \/ PressLogout(b) \/ Call(b)
                               \/ \E s \in Slots : Lose(b, s)
            \/ Server

\* Whatever can go on without a user does: requests are answered or fail,
\* promises resume, effects and timers run, in any order.
AuthFairness == WF_authVars(\E b \in Tabs : Progress(b))

AuthSpec == AuthInit /\ [][AuthNext]_authVars /\ AuthFairness

---------------------------------------------------------------------------

Request == [at: {"none", "sent", "back", "failed"},
            what: {"none", "check", "call", "login", "logout"},
            cookie: Tokens \cup {None}, good: BOOLEAN, token: Tokens \cup {None}]

AuthTypeOK ==
  /\ SessionsTypeOK
  /\ cookie \in Tokens \cup {None}
  /\ page \in [Tabs -> {"login", "panel"}]
  /\ authed \in [Tabs -> BOOLEAN] /\ loading \in [Tabs -> BOOLEAN]
  /\ csrf \in [Tabs -> Tokens \cup {None}]
  /\ form \in [Tabs -> {"idle", "submitting", "bridge"}]
  /\ req \in [Tabs -> [Slots -> Request]]
  /\ disturbed \subseteq Tabs
  /\ lost \in 0..MaxLost /\ clicks \in 0..MaxClicks

(* A tab that shows the panel holds the CSRF token of the session the browser
   sends, as long as that session is valid: what it posts is not refused.  Not
   so once another tab has logged in or out, the server has refused the tab
   once or has been started with or without a password, or the tab's login
   overtook the check it loaded with.                                        *)
PostsPass ==
  \A b \in Tabs \ disturbed :
    page[b] = "panel" /\ authed[b] /\ Valid(cookie) => csrf[b] = cookie

(* No tab waits for ever, whatever is lost and whoever logs out meanwhile: the
   check it loads with ends, and a login form becomes usable again or leads on. *)
LoginFormEnds == \A b \in Tabs : []<>(~loading[b] /\ form[b] = "idle")
=============================================================================
