----------------------------- MODULE WebSession -----------------------------
(***************************************************************************)
(* A browser's session with the web application: the login and link forms  *)
(* with the wallet that signs, the three cookies, the middleware in front  *)
(* of the pages, the pages' calls through the API's guards, logout, and    *)
(* the suspension of accounts from the page of users.                      *)
(*                                                                         *)
(* The tabs of the browser share its cookies.  A request takes the cookies *)
(* that are there when it is sent, and passes the middleware with them.    *)
(* One clock for the browser, the web server and the API.                  *)
(*                                                                         *)
(* Sessions has the tables of the login in detail, the revocation by a     *)
(* logout, and the rotation of refresh tokens, which the web application   *)
(* never asks for.                                                         *)
(***************************************************************************)
EXTENDS Routes, Sep10, FiniteSets

CONSTANTS
  User,            \* accounts, each with the one address it signs in with
  Admin,           \* the accounts whose role is ADMIN: no code changes a role
  Nonce,           \* nonces challenges can get (bounds the challenges made)
  Tab,             \* tabs of the browser
  Visited,         \* paths of the pages that are visited (bounds exploration)
  AccessSeconds,   \* JWT_ACCESS_TTL_SECONDS, and maxAge of the access cookie
  RefreshSeconds,  \* maxAge of the refresh and role cookies
  MaxTime,         \* last tick of the clock
  MaxFailures,     \* bound of the number of failures and restarts
  None             \* no value

ASSUME AdminAssumption == Admin \subseteq User
ASSUME TTLAssumption == /\ AccessSeconds \in Nat \ {0}
                        /\ RefreshSeconds \in Nat
                        /\ AccessSeconds <= RefreshSeconds
ASSUME VisitedAssumption == Visited \subseteq {p.path : p \in Pages}
ASSUME BoundsAssumption == MaxTime \in Nat /\ MaxFailures \in Nat

VARIABLES
  now,        \* the clock
  boot,       \* restarts of the API so far
  used,       \* nonces of the challenges made so far
  pending,    \* issuedChallenges: expiresAt, or None for what is not there
  session,    \* session[n]: what the tokens made for nonce n say, or None
  suspended,  \* accounts whose status is SUSPENDED
  cookie,     \* the browser's cookies
  call,       \* what each tab does
  failures    \* failures and restarts so far

vars == <<now, boot, used, pending, session, suspended, cookie, call, failures>>
api == <<boot, used, pending, session, suspended>>

Time == 0..MaxTime
Role == {"USER", "ADMIN"}
RoleOf(u) == IF u \in Admin THEN "ADMIN" ELSE "USER"

\* The claims of an access token, sub and iat; n stands for the token and for
\* the refresh token made with it.  active is history: whether the account was
\* active when that was looked at.
SessionRow == [user : User, active : BOOLEAN, made : Time]

CookieRow(Value) == [value : Value, till : Nat]
Cookie(Value) == {None} \cup CookieRow(Value)
Names == {"access", "refresh", "role"}
Get(name) == IF cookie[name] = None THEN None ELSE cookie[name].value

\* null is not a value or a row.
ASSUME NoneAssumption ==
  None \notin User \cup Nonce \cup Nat \cup Role \cup SessionRow
             \cup CookieRow(Nonce \cup Role)

Login == [step |-> "login"]

\* In the login and link forms, from the challenge on.
Transaction == [source : Nat, client : User, maxTime : Nat]
FormState ==
  [step : {"sign", "signed"}, path : {"/login", "/dashboard/wallets"},
   user : User, nonce : Nonce, tx : Transaction, signer : User \cup {None}]

LinkState ==
  [step : {"link"}, user : User, nonce : Nonce, tx : Transaction,
   signer : User \cup {None}, token : Nonce]

Offered == {o.action : o \in UNION {p.offers : p \in Pages}}

\* A login ends on /dashboard.
Shown == Visited \cup {"/dashboard"}

CallState ==
  {Login}
  \cup FormState
  \cup LinkState
  \cup [step : {"enter"}, user : User, nonce : Nonce]
  \cup [step : {"issue"}, user : User, nonce : Nonce, active : BOOLEAN]
  \cup [step : {"answer"}, nonce : Nonce]
  \cup [step : {"home", "logout"}]
  \cup [step : {"page"}, path : Shown, token : Nonce]
  \cup [step : {"shown"}, path : Shown, seen : SUBSET User]
  \cup [step : {"do"}, path : Shown, action : Offered,
        user : User \cup {None}, token : Nonce]
  \cup [step : {"error"}, code : {401, 403, 500}]

At(c, step) == call[c].step = step
Free(c) == call[c].step \in {"login", "shown", "error"}
Answer(c, answer) == call' = [call EXCEPT ![c] = answer]
Shows(c, path) == At(c, "shown") /\ call[c].path = path

ThePage(path) == CHOOSE p \in Pages : p.path = path

Init ==
  /\ now = 0
  /\ boot = 0
  /\ used = {}
  /\ pending = [n \in Nonce |-> None]
  /\ session = [n \in Nonce |-> None]
  /\ suspended = {}
  /\ cookie = [name \in Names |-> None]
  /\ call = [c \in Tab |-> Login]
  /\ failures = 0

----------------------------------------------------------------------------
(* Cookies, middleware and guards.                                         *)

Put(value, seconds) == [value |-> value, till |-> now + seconds * Second]

\* Mutant: a role cookie that is there stays.
KeepRole(n) ==
  cookie' = [access |-> Put(n, AccessSeconds),
             refresh |-> Put(n, RefreshSeconds),
             role |-> IF Get("role") = None
                      THEN Put(RoleOf(session[n].user), RefreshSeconds)
                      ELSE cookie["role"]]

SetSessionCookies(n) ==
  cookie' = [access |-> Put(n, AccessSeconds),
             refresh |-> Put(n, RefreshSeconds),
             role |-> Put(RoleOf(session[n].user), RefreshSeconds)]

\* Mutant: the access cookie is left to expire.
ClearLasting ==
  cookie' = [cookie EXCEPT !["refresh"] = None, !["role"] = None]

ClearSessionCookies == cookie' = [name \in Names |-> None]

\* Where the middleware lets a request for a page of a section go.
Middleware(section) ==
  IF Get("access") = None THEN "/login"
  ELSE IF section = "admin" /\ Get("role") # "ADMIN" THEN "/dashboard"
  ELSE "next"

\* A request from tab c for the page at path goes on as next, or the browser
\* is sent elsewhere.
Pass(c, path, next) ==
  LET to == Middleware(ThePage(path).section)
  IN Answer(c, IF to = "/login" THEN Login
               ELSE IF to = "/dashboard" THEN [step |-> "home"]
               ELSE next)

\* JwtAuthGuard: exp is in seconds, and so is the clock it is compared with.
\* The status of the account is not looked at.
Verified(n) == Seconds(now) < Seconds(session[n].made) + AccessSeconds

\* RolesGuard, with the role of the token.
Permitted(n, actions) ==
  "ADMIN" \in Guards(actions) => RoleOf(session[n].user) = "ADMIN"

\* Why the API refuses token n to call what the actions call, or 200.
Code(n, actions) == IF ~Verified(n) THEN 401
                    ELSE IF ~Permitted(n, actions) THEN 403
                    ELSE 200

----------------------------------------------------------------------------
(* LoginForm, WalletLinkForm and the wallet.                               *)

\* requestChallenge makes challenge n for the address of user u, and the form
\* gets it.
RequestChallenge(c, path, u, n) ==
  /\ n \notin used
  /\ used' = used \cup {n}
  /\ pending' = [pending EXCEPT ![n] = now + ChallengeSeconds * Second]
  /\ Answer(c, [step |-> "sign", path |-> path, user |-> u, nonce |-> n,
                tx |-> BuildChallenge(u, ServerKey(boot), now),
                signer |-> None])
  /\ UNCHANGED <<now, boot, session, suspended, cookie, failures>>

\* The wallet gives the address of u.
BeginLogin(c, u, n) ==
  /\ At(c, "login")
  /\ RequestChallenge(c, "/login", u, n)

\* A server action of a page passes the middleware, which asks for a cookie
\* although the API does not ask for a token here; without one the browser is
\* sent to /login, as by Visit.
BeginLink(c, u, n) ==
  /\ Shows(c, "/dashboard/wallets")
  /\ Get("access") # None
  /\ RequestChallenge(c, "/dashboard/wallets", u, n)

\* The account that is selected in the wallet by now signs.
Sign(c, u) ==
  /\ At(c, "sign")
  /\ call' = [call EXCEPT ![c].step = "signed", ![c].signer = u]
  /\ UNCHANGED <<now, api, cookie, failures>>

\* What the form shows after an error.
Back(path) == IF path = "/login" THEN Login
              ELSE [step |-> "shown", path |-> path, seen |-> {}]

\* verifyChallenge and consumeChallenge, which run without an await: whether
\* the challenge in call c is good, and that it is gone if its signature is.
Redeem(c, good) ==
  LET n == call[c].nonce
      valid == VerifyChallenge(call[c].tx, call[c].signer, call[c].user,
                               ServerKey(boot), now)
      left == [m \in Nonce |-> IF pending[m] = None \/ pending[m] < now
                               THEN None ELSE pending[m]]
  IN /\ good = (valid /\ left[n] # None)
     /\ pending' = IF valid THEN [left EXCEPT ![n] = None] ELSE pending
     /\ UNCHANGED <<boot, used, session, suspended>>

\* completeLogin arrives at the API.
CompleteLogin(c) ==
  /\ At(c, "signed")
  /\ call[c].path = "/login"
  /\ \E good \in BOOLEAN :
       /\ Redeem(c, good)
       /\ Answer(c, IF good THEN [step |-> "enter", user |-> call[c].user,
                                   nonce |-> call[c].nonce]
                    ELSE Login)
  /\ UNCHANGED <<now, cookie, failures>>

\* Mutant: the status is not looked at.
EnterAnyway(c) ==
  /\ At(c, "enter")
  /\ Answer(c, [step |-> "issue", user |-> call[c].user,
                nonce |-> call[c].nonce,
                active |-> call[c].user \notin suspended])
  /\ UNCHANGED <<now, api, cookie, failures>>

\* The user is read with the wallet.
Enter(c) ==
  /\ At(c, "enter")
  /\ Answer(c, IF call[c].user \in suspended THEN Login
               ELSE [step |-> "issue", user |-> call[c].user,
                     nonce |-> call[c].nonce, active |-> TRUE])
  /\ UNCHANGED <<now, api, cookie, failures>>

IssueTokens(c) ==
  /\ At(c, "issue")
  /\ session' = [session EXCEPT ![call[c].nonce] =
       [user |-> call[c].user, active |-> call[c].active, made |-> now]]
  /\ Answer(c, [step |-> "answer", nonce |-> call[c].nonce])
  /\ UNCHANGED <<now, boot, used, pending, suspended, cookie, failures>>

\* The answer sets the cookies and the form goes to /dashboard.
LoggedIn(c) ==
  /\ At(c, "answer")
  /\ SetSessionCookies(call[c].nonce)
  /\ Answer(c, [step |-> "home"])
  /\ UNCHANGED <<now, api, failures>>

\* completeWalletLink passes the middleware.
CompleteLink(c) ==
  /\ At(c, "signed")
  /\ call[c].path = "/dashboard/wallets"
  /\ Pass(c, "/dashboard/wallets",
          [step |-> "link", user |-> call[c].user, nonce |-> call[c].nonce,
           tx |-> call[c].tx, signer |-> call[c].signer,
           token |-> Get("access")])
  /\ UNCHANGED <<now, api, cookie, failures>>

\* The page is rendered: its reads are under way.
Reading(path, token) ==
  [step |-> "page", path |-> path, token |-> token]

\* The API's guard, then the challenge; the page is rendered again, or the form
\* shows the error.  (The insert is in Wallets.)
LinkWallet(c) ==
  /\ At(c, "link")
  /\ \E good \in BOOLEAN :
       /\ IF Verified(call[c].token) THEN Redeem(c, good)
                                     ELSE ~good /\ UNCHANGED api
       /\ Answer(c, IF good THEN Reading("/dashboard/wallets", call[c].token)
                    ELSE Back("/dashboard/wallets"))
  /\ UNCHANGED <<now, cookie, failures>>

----------------------------------------------------------------------------
(* Pages.                                                                  *)

Visit(c, path) ==
  /\ Free(c)
  /\ Pass(c, path, Reading(path, Get("access")))
  /\ UNCHANGED <<now, api, cookie, failures>>

\* The push after a login, and the middleware's redirect.
GoHome(c) ==
  /\ At(c, "home")
  /\ Pass(c, "/dashboard", Reading("/dashboard", Get("access")))
  /\ UNCHANGED <<now, api, cookie, failures>>

\* The reads of the page, which are under way together, are answered in one
\* step; the list of users is that of the moment.
Read(c) ==
  /\ At(c, "page")
  /\ LET reads == ThePage(call[c].path).reads
         code == Code(call[c].token, reads)
     IN Answer(c, IF code # 200 THEN [step |-> "error", code |-> code]
                  ELSE [step |-> "shown", path |-> call[c].path, seen |->
                         IF "listUsers" \in reads THEN suspended ELSE {}])
  /\ UNCHANGED <<now, api, cookie, failures>>

\* The user clicks what the page offers; an action of the list of users is
\* about a user whose status, as the page has it, fits.
Act(c, offer, u) ==
  /\ At(c, "shown")
  /\ offer \in ThePage(call[c].path).offers
  /\ IF offer \in UserList
     THEN u \in IF offer.row = "ACTIVE" THEN User \ call[c].seen
                                        ELSE call[c].seen
     ELSE u = None
  /\ Pass(c, call[c].path,
          [step |-> "do", path |-> call[c].path, action |-> offer.action,
           user |-> u, token |-> Get("access")])
  /\ UNCHANGED <<now, api, cookie, failures>>

\* The update of AdminService; the other actions are in other modules.
Perform(action, u) ==
  suspended' =
    CASE action = "suspendUser" -> suspended \cup {u}
      [] action = "reactivateUser" -> suspended \ {u}
      [] OTHER -> suspended

\* The action's call is answered, and the page is rendered again.  (An error of
\* one of the forms is shown in the form.)
Do(c) ==
  /\ At(c, "do")
  /\ LET code == Code(call[c].token, {call[c].action})
     IN IF code # 200 THEN /\ Answer(c, [step |-> "error", code |-> code])
                           /\ UNCHANGED suspended
        ELSE /\ Perform(call[c].action, call[c].user)
             /\ Answer(c, Reading(call[c].path, call[c].token))
  /\ UNCHANGED <<now, boot, used, pending, session, cookie, failures>>

\* logoutAction is posted to the page it is on: without an access cookie the
\* middleware answers, and nothing is cleared.
Logout(c) ==
  /\ At(c, "shown")
  /\ Pass(c, call[c].path, [step |-> "logout"])
  /\ UNCHANGED <<now, api, cookie, failures>>

\* The API has revoked the refresh token (Logout of Sessions) or has not: the
\* error is swallowed.  The answer deletes the cookies, whosever they are by
\* now.
LoggedOut(c) ==
  /\ At(c, "logout")
  /\ ClearSessionCookies
  /\ Answer(c, Login)
  /\ UNCHANGED <<now, api, failures>>

----------------------------------------------------------------------------
(* Time and failures.                                                      *)

Tick ==
  /\ now < MaxTime
  /\ now' = now + 1
  /\ cookie' = [name \in Names |->
       IF cookie[name] # None /\ cookie[name].till <= now' THEN None
       ELSE cookie[name]]
  /\ UNCHANGED <<api, call, failures>>

\* Where a tab is after the request it waits for has failed.
AfterFailure(c) ==
  CASE call[c].step \in {"sign", "signed"} -> Back(call[c].path)
    [] call[c].step \in {"enter", "issue", "answer"} -> Login
    [] call[c].step = "link" -> Back("/dashboard/wallets")
    [] OTHER -> [step |-> "error", code |-> 500]

\* The wallet declines, a statement or a request fails.
Fail(c) ==
  /\ ~Free(c)
  /\ call[c].step \notin {"home", "logout"}
  /\ failures < MaxFailures
  /\ failures' = failures + 1
  /\ Answer(c, AfterFailure(c))
  /\ UNCHANGED <<now, api, cookie>>

\* The API starts again: without its challenges, and with another key unless
\* one is configured.
Restart ==
  /\ failures < MaxFailures
  /\ failures' = failures + 1
  /\ boot' = boot + 1
  /\ pending' = [n \in Nonce |-> None]
  /\ call' = [c \in Tab |-> IF call[c].step \in {"enter", "issue"}
                            THEN Login ELSE call[c]]
  /\ UNCHANGED <<now, used, session, suspended, cookie>>

Continue(c) ==
  \/ CompleteLogin(c) \/ Enter(c) \/ IssueTokens(c) \/ LoggedIn(c)
  \/ CompleteLink(c) \/ LinkWallet(c) \/ GoHome(c) \/ Read(c) \/ Do(c)
  \/ Logout(c) \/ LoggedOut(c)

Next ==
  \/ \E c \in Tab :
       \/ \E u \in User : \/ \E n \in Nonce : \/ BeginLogin(c, u, n)
                                              \/ BeginLink(c, u, n)
                          \/ Sign(c, u)
       \/ \E path \in Visited : Visit(c, path)
       \/ \E p \in Pages, u \in User \cup {None} :
            \E o \in p.offers : Act(c, o, u)
       \/ Continue(c)
       \/ Fail(c)
  \/ Tick
  \/ Restart

Spec == Init /\ [][Next]_vars

----------------------------------------------------------------------------
(* Properties.                                                             *)

\* Sessions, cookies and tabs have the shape the handlers give them; the
\* access cookie is never there without the other two of its login.
TypeOK ==
  /\ now \in Time
  /\ boot \in Nat
  /\ used \subseteq Nonce
  /\ pending \in [Nonce -> Nat \cup {None}]
  /\ session \in [Nonce -> SessionRow \cup {None}]
  /\ suspended \subseteq User
  /\ cookie \in [access : Cookie(Nonce), refresh : Cookie(Nonce),
                 role : Cookie(Role)]
  /\ Get("access") # None =>
       Get("refresh") = Get("access") /\ Get("role") # None
  /\ call \in [Tab -> CallState]
  /\ failures \in Nat

\* Whoever the middleware lets in is not turned away by the API for its role:
\* no page, and no action of a page, ends with the error of the role's guard,
\* whoever logged in or out in another tab in between, and however long the
\* three cookies have lived.
NeverForbidden == \A c \in Tab : At(c, "error") => call[c].code # 403

\* An access token answers a call of its page or its action.
Answered(c) ==
  /\ call[c].step \in {"page", "do"}
  /\ call'[c].step \in {"page", "shown"}
  /\ call[c] # call'[c]

\* What is answered goes back to a login that found the account active, less
\* than the life of an access token ago: a suspended account goes on with the
\* tokens it has or is just being given, none of which is renewed, and no
\* login after the suspension gets anything, whatever was restarted, lost or
\* reactivated in another tab.
SuspensionBites ==
  [][\A c \in Tab : Answered(c) =>
       LET s == session[call[c].token]
       IN s.active /\ now < s.made + AccessSeconds * Second]_vars

\* A challenge is good for exactly the time it is remembered: a login with it
\* that its address signed, that is not redeemed yet and whose process still
\* runs, is let through up to that moment and never after it.  The bound
\* inside the transaction, in whole seconds, does not cut it short.
WindowIsWhole ==
  [][\A c \in Tab :
       /\ At(c, "signed")
       /\ call[c].path = "/login"
       /\ call'[c] # call[c]
       /\ failures' = failures
       => LET n == call[c].nonce
          IN (call'[c].step = "enter") =
               (/\ pending[n] # None
                /\ call[c].signer = call[c].tx.client
                /\ now <= pending[n])]_vars

----------------------------------------------------------------------------
(* The entrance this implements.                                           *)

\* The calls with a challenge in one of these steps.
In(steps) == {c \in Tab : call[c].step \in steps}
Held(steps) == {<<call[c].nonce, call[c].user>> : c \in In(steps)}
Named(calls) == {<<call[c].nonce, call[c].tx.client>> : c \in calls}

Asks == In({"sign", "signed", "link"})
Signs == {c \in In({"signed", "link"}) : call[c].signer = call[c].tx.client}

Redeemable == {n \in Nonce : pending[n] # None /\ now <= pending[n]}
Given == {<<n, session[n].user>> : n \in {m \in Nonce : session[m] # None}}
Own == {<<u, u>> : u \in User}

Gate == INSTANCE Entrance
          WITH Address <- User, made <- used, asked <- Named(Asks),
               signed <- Named(Signs), good <- Redeemable,
               proved <- Held({"enter"}), admitted <- Held({"issue"}),
               sessions <- Given, book <- Own, barred <- suspended

\* A session comes of one challenge, for the account whose address was asked
\* to sign it and did, whatever other account the wallet had selected or the
\* other tabs log in with, and after a look at the account, which the page of
\* users may have suspended since the redemption.
ImplementsEntrance == Gate!Spec
=============================================================================
