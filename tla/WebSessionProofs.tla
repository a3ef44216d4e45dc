-------------------------- MODULE WebSessionProofs --------------------------
(***************************************************************************)
(* Proofs about WebSession, for every value of its constants.              *)
(***************************************************************************)
EXTENDS WebSession, TLAPS

----------------------------------------------------------------------------
(* The tables of Routes.                                                   *)

AdminRoutes ==
  {"GET/admin/dashboard", "PATCH/admin/users/:id/suspend",
   "PATCH/admin/users/:id/reactivate", "PATCH/admin/anchors/:id/suspend",
   "GET/anchors/review-queue", "PATCH/anchors/:id/review",
   "PATCH/anchors/:id/suspend", "GET/documents/review-queue",
   "PATCH/documents/:id/review", "GET/identity-profiles/:id",
   "POST/verifications/:id", "GET/users", "GET/users/:id",
   "GET/audit-logs"}

AdminNames ==
  {"getAdminDashboard", "suspendUser", "reactivateUser", "listUsers",
   "listDocumentReviewQueue", "reviewDocument", "listAuditLogs",
   "listAnchorReviewQueue", "reviewAnchor", "suspendAnchor"}

\* Routes guarded by the role are the ones listed.
LEMMA RoutesOfAdmin ==
  ASSUME NEW r \in Routes, r.who = "ADMIN" PROVE r.route \in AdminRoutes
  <1>1. CASE r \in AuthController \cup AdminController
    BY <1>1 DEF AuthController, AdminController, Guarded, AdminRoutes
  <1>2. CASE r \in AnchorsController
    BY <1>2 DEF AnchorsController, Guarded, AdminRoutes
  <1>3. CASE r \in DocumentsController \cup IdentityProfilesController
    BY <1>3 DEF DocumentsController, IdentityProfilesController, Guarded,
                AdminRoutes
  <1>4. CASE r \in VerificationsController \cup AccessRequestsController
    BY <1>4 DEF VerificationsController, AccessRequestsController, Guarded,
                AdminRoutes
  <1>5. CASE r \in CredentialsController \cup ConsentsController
                   \cup WalletsController
    BY <1>5 DEF CredentialsController, ConsentsController, WalletsController,
                Guarded, AdminRoutes
  <1>6. CASE r \in UsersController \cup AuditLogsController
    BY <1>6 DEF UsersController, AuditLogsController, Guarded, AdminRoutes
  <1>. QED
    BY <1>1, <1>2, <1>3, <1>4, <1>5, <1>6 DEF Routes

\* Actions that call one of them are the ones listed.
LEMMA ActionsOfAdmin ==
  ASSUME NEW a \in Actions, a[2] \in AdminRoutes PROVE a[1] \in AdminNames
  <1>1. CASE a \in AuthActions \cup AdminActions
    BY <1>1 DEF AuthActions, AdminActions, AdminRoutes, AdminNames
  <1>2. CASE a \in AnchorActions
    BY <1>2 DEF AnchorActions, AdminRoutes, AdminNames
  <1>3. CASE a \in WalletActions \cup IdentityActions
    BY <1>3 DEF WalletActions, IdentityActions, AdminRoutes, AdminNames
  <1>4. CASE a \in AccessRequestActions \cup ConsentActions
    BY <1>4 DEF AccessRequestActions, ConsentActions, AdminRoutes, AdminNames
  <1>5. CASE a \in DocumentActions \cup VerificationActions
                   \cup AccountActions
    BY <1>5 DEF DocumentActions, VerificationActions, AccountActions,
                AdminRoutes, AdminNames
  <1>. QED
    BY <1>1, <1>2, <1>3, <1>4, <1>5 DEF Actions

LEMMA GuardsOfOthers ==
  ASSUME NEW names, names \cap AdminNames = {} PROVE "ADMIN" \notin Guards(names)
  <1>. SUFFICES ASSUME NEW r \in Routes, r.route \in Targets(names),
                       r.who = "ADMIN"
                PROVE  FALSE
    BY DEF Guards
  <1>1. PICK a \in Actions : a[1] \in names /\ a[2] = r.route
    BY DEF Targets
  <1>. QED
    BY <1>1, RoutesOfAdmin, ActionsOfAdmin

\* A page outside the administrators' section runs and offers nothing that the
\* role's guard stands before.
LEMMA PagesOfOthers ==
  ASSUME NEW p \in Pages, p.section # "admin"
  PROVE  /\ p.reads \cap AdminNames = {}
         /\ \A o \in p.offers : o.action \notin AdminNames
  <1>1. CASE p \in {DashboardPage, IdentityPage, DocumentsPage, WalletsPage}
    BY <1>1 DEF DashboardPage, IdentityPage, DocumentsPage, WalletsPage, Page,
                Beside, DocumentUploadForm, WalletList, AdminNames
  <1>2. CASE p \in {AccessRequestsPage, ConsentsPage, MyAnchorsPage,
                    RegisterPage}
    BY <1>2 DEF AccessRequestsPage, ConsentsPage, MyAnchorsPage, RegisterPage,
                AccessRequestList, ConsentList, Page, Beside, AdminNames
  <1>3. CASE p = AnchorPage
    BY <1>3 DEF AnchorPage, Page, Beside, AdminNames
  <1>4. CASE p \in {AdminPage, AnchorReviewPage, DocumentReviewPage,
                    UsersPage, AuditLogPage}
    BY <1>4 DEF AdminPage, AnchorReviewPage, DocumentReviewPage, UsersPage,
                AuditLogPage, Page
  <1>. QED
    BY <1>1, <1>2, <1>3, <1>4 DEF Pages, DashboardLinks, AnchorLinks, AdminLinks

\* Accounts are changed from their list.
LEMMA OffersOfUsers ==
  ASSUME NEW p \in Pages, NEW o \in p.offers,
         o.action \in {"suspendUser", "reactivateUser"}
  PROVE  o \in UserList
  <1>1. CASE p \in {DashboardPage, IdentityPage, DocumentsPage, WalletsPage}
    BY <1>1 DEF DashboardPage, IdentityPage, DocumentsPage, WalletsPage,
       Page, Beside, DocumentUploadForm, WalletList
  <1>2. CASE p \in {AccessRequestsPage, ConsentsPage, MyAnchorsPage}
    BY <1>2 DEF AccessRequestsPage, ConsentsPage, MyAnchorsPage,
       AccessRequestList, ConsentList, Page, Beside
  <1>3. CASE p \in {RegisterPage, AnchorPage, AdminPage, AuditLogPage,
                    AnchorReviewPage}
    BY <1>3 DEF RegisterPage, AnchorPage, AdminPage, AuditLogPage,
       AnchorReviewPage, Page, Beside
  <1>4. CASE p = DocumentReviewPage
    BY <1>4 DEF DocumentReviewPage, DocumentReviewList, Page, Beside
  <1>5. CASE p = UsersPage
    BY <1>5 DEF UsersPage, Page
  <1>. QED
    BY <1>1, <1>2, <1>3, <1>4, <1>5
       DEF Pages, DashboardLinks, AnchorLinks, AdminLinks

LEMMA ThePageIs ==
  ASSUME NEW path \in Shown
  PROVE  ThePage(path) \in Pages /\ ThePage(path).path = path
  <1>1. \E p \in Pages : p.path = path
    <2>1. CASE path = "/dashboard"
      <3>1. DashboardPage \in Pages
        BY DEF Pages, DashboardLinks
      <3>2. DashboardPage.path = "/dashboard"
        BY DEF DashboardPage, Page
      <3>. QED
        BY <2>1, <3>1, <3>2
    <2>2. CASE path \in Visited
      BY <2>2, VisitedAssumption
    <2>. QED
      BY <2>1, <2>2 DEF Shown
  <1>. QED
    BY <1>1 DEF ThePage

----------------------------------------------------------------------------
(* Whole seconds.                                                          *)

LEMMA SecondsOf ==
  ASSUME NEW t \in Nat
  PROVE  /\ Seconds(t) \in Nat
         /\ Seconds(t) * Second <= t
         /\ t < (Seconds(t) + 1) * Second
  BY SecondAssumption DEF Seconds

\* A token that is verified has been made less than its life ago.
LEMMA VerifiedInTime ==
  ASSUME now \in Nat, NEW n, session[n].made \in Nat, Verified(n)
  PROVE  now < session[n].made + AccessSeconds * Second
  <1>. DEFINE q == Seconds(now)
              p == Seconds(session[n].made)
  <1>1. /\ p \in Nat /\ q \in Nat
        /\ now < (q + 1) * Second
        /\ p * Second <= session[n].made
    BY SecondsOf
  <1>2. q + 1 <= p + AccessSeconds
    BY <1>1, TTLAssumption DEF Verified
  <1>. HIDE DEF p, q
  <1>3. (q + 1) * Second <= (p + AccessSeconds) * Second
    BY <1>1, <1>2, SecondAssumption, TTLAssumption
  <1>4. (p + AccessSeconds) * Second = p * Second + AccessSeconds * Second
    BY <1>1, SecondAssumption, TTLAssumption
  <1>. QED
    BY <1>1, <1>3, <1>4, SecondAssumption, TTLAssumption

----------------------------------------------------------------------------
(* The invariant.                                                          *)

\* A call that has a challenge.
Carries(c) == call[c].step \in {"sign", "signed", "link", "enter", "issue"}

\* The challenge has been used, and for good, for a login that found the
\* account active.
Backed(n) ==
  /\ n \in used
  /\ session[n] \in SessionRow
  /\ session[n].active
  /\ \A c \in Tab : Carries(c) => call[c].nonce # n

\* Two calls never have the same challenge.
Carriers ==
  \A c \in Tab : Carries(c) =>
    /\ call[c].nonce \in used
    /\ \A d \in Tab : Carries(d) /\ call[d].nonce = call[c].nonce => d = c

\* The access token of the browser is of a login, the role cookie has the role
\* of its account, and the browser keeps that and the refresh token at least
\* as long.
CookiesBacked ==
  Get("access") # None =>
    /\ Backed(Get("access"))
    /\ Get("role") = RoleOf(session[Get("access")].user)
    /\ cookie["access"].till <= cookie["role"].till
    /\ cookie["access"].till <= cookie["refresh"].till

\* The middleware has seen the page's path with a token of this role.
Cleared(path, n) ==
  ThePage(path).section = "admin" => RoleOf(session[n].user) = "ADMIN"

CallInv(c) ==
  /\ At(c, "issue") => call[c].active
  /\ At(c, "answer") => Backed(call[c].nonce)
  /\ call[c].step \in {"sign", "signed"} /\ call[c].path # "/login" =>
       "/dashboard/wallets" \in Shown
  /\ At(c, "link") => /\ "/dashboard/wallets" \in Shown
                      /\ Backed(call[c].token)
                      /\ Cleared("/dashboard/wallets", call[c].token)
  /\ call[c].step \in {"page", "do"} => /\ Backed(call[c].token)
                                        /\ Cleared(call[c].path, call[c].token)
  /\ At(c, "do") =>
       /\ \E o \in ThePage(call[c].path).offers : o.action = call[c].action
       /\ call[c].action \in {"suspendUser", "reactivateUser"} =>
            call[c].user \in User
  /\ At(c, "error") => call[c].code # 403

Inv == TypeOK /\ Carriers /\ CookiesBacked /\ \A c \in Tab : CallInv(c)
----------------------------------------------------------------------------
(* What the step of a call tells of its other fields.                      *)

LEMMA CallKinds ==
  ASSUME TypeOK, NEW c \in Tab
  PROVE  /\ call[c].step \in {"sign", "signed"} => call[c] \in FormState
         /\ At(c, "link") => /\ call[c].user \in User
                             /\ call[c].nonce \in Nonce
                             /\ call[c].token \in Nonce
         /\ At(c, "enter") => /\ call[c].user \in User
                              /\ call[c].nonce \in Nonce
         /\ At(c, "issue") => /\ call[c].user \in User
                              /\ call[c].nonce \in Nonce
                              /\ call[c].active \in BOOLEAN
         /\ At(c, "answer") => call[c].nonce \in Nonce
         /\ At(c, "page") => call[c].path \in Shown /\ call[c].token \in Nonce
         /\ At(c, "shown") => call[c].path \in Shown /\ call[c].seen \subseteq User
         /\ At(c, "do") => /\ call[c].path \in Shown
                           /\ call[c].action \in Offered
                           /\ call[c].user \in User \cup {None}
                           /\ call[c].token \in Nonce
  <1>1. call[c] \in CallState
    BY DEF TypeOK
  <1>. QED
    BY <1>1 DEF CallState, FormState, LinkState, Login, At

LEMMA CookieKinds ==
  ASSUME TypeOK
  PROVE  /\ Get("access") # None =>
              /\ Get("access") \in Nonce
              /\ cookie["access"] \in CookieRow(Nonce)
              /\ cookie["refresh"] \in CookieRow(Nonce)
              /\ cookie["role"] \in CookieRow(Role)
         /\ Get("access") = None => cookie["access"] = None
         /\ \A name \in Names : Get(name) # None =>
              cookie[name] # None /\ Get(name) = cookie[name].value
  <1>1. /\ cookie["access"] \in Cookie(Nonce)
        /\ cookie["refresh"] \in Cookie(Nonce)
        /\ cookie["role"] \in Cookie(Role)
    BY DEF TypeOK
  <1>. QED
    BY <1>1, NoneAssumption DEF TypeOK, Cookie, CookieRow, Get, Names

LEMMA InvInit == Init => Inv
  <1>. SUFFICES ASSUME Init PROVE Inv
    OBVIOUS
  <1>1. call \in [Tab -> CallState] /\ \A c \in Tab : call[c] = Login
    BY DEF Init, CallState
  <1>2. cookie \in [access : Cookie(Nonce), refresh : Cookie(Nonce),
                    role : Cookie(Role)]
    BY DEF Init, Names, Cookie
  <1>3. Get("access") = None
    BY DEF Init, Names, Get
  <1>4. TypeOK
    BY <1>1, <1>2, <1>3, BoundsAssumption DEF Init, TypeOK, Time
  <1>. QED
    BY <1>1, <1>3, <1>4
       DEF Inv, Carriers, Carries, CookiesBacked, CallInv, At, Login
----------------------------------------------------------------------------
(* Type correctness.                                                       *)

LEMMA TickTypes ==
  ASSUME Inv, Tick PROVE TypeOK'
  <1>. USE DEF Inv
  <1>1. now' \in Time
    BY BoundsAssumption DEF Tick, TypeOK, Time
  <1>2. /\ cookie' \in [access : Cookie(Nonce), refresh : Cookie(Nonce),
                        role : Cookie(Role)]
        /\ \A name \in Names : cookie'[name] \in {cookie[name], None}
    BY DEF Tick, TypeOK, Cookie, Names
  <1>3. Get("access")' # None =>
          /\ Get("access") # None
          /\ cookie["access"].till > now'
          /\ cookie'["access"] = cookie["access"]
    <2>1. Get("access")' # None => cookie'["access"] # None
      BY DEF Get
    <2>2. cookie'["access"] = IF cookie["access"] # None /\ cookie["access"].till <= now'
                              THEN None ELSE cookie["access"]
      BY DEF Tick, Names
    <2>. QED
      BY <1>1, <2>1, <2>2, CookieKinds DEF Names, CookieRow, Time
  <1>4. Get("access")' # None => Get("refresh")' = Get("access")' /\ Get("role")' # None
    <2>. SUFFICES ASSUME Get("access")' # None
                  PROVE  Get("refresh")' = Get("access")' /\ Get("role")' # None
      OBVIOUS
    <2>1. /\ cookie["refresh"].till > now'
          /\ cookie["role"].till > now'
      BY <1>1, <1>3, CookieKinds DEF CookiesBacked, CookieRow, Time
    <2>2. /\ cookie'["refresh"] = cookie["refresh"]
          /\ cookie'["role"] = cookie["role"]
      BY <1>1, <2>1, CookieKinds, <1>3 DEF Tick, Names, CookieRow, Time
    <2>. QED
      BY <1>3, <2>2 DEF TypeOK, Get
  <1>. QED
    BY <1>1, <1>2, <1>4 DEF Tick, TypeOK, api

LEMMA TypeStep ==
  ASSUME Inv, [Next]_vars PROVE TypeOK'
  <1>. USE NoneAssumption DEF Inv
  <1>0. TypeOK
    OBVIOUS
  <1>1. ASSUME NEW c \in Tab, NEW path \in {"/login", "/dashboard/wallets"},
               NEW u \in User, NEW n \in Nonce, RequestChallenge(c, path, u, n)
        PROVE  TypeOK'
    <2>1. /\ BuildChallenge(u, ServerKey(boot), now) \in Transaction
          /\ now + ChallengeSeconds * Second \in Nat
      <3>1. now \in Nat /\ boot \in Nat
        BY <1>0 DEF TypeOK, Time
      <3>2. /\ Seconds(now) + ChallengeSeconds \in Nat
            /\ now + ChallengeSeconds * Second \in Nat
        <4>1. Seconds(now) \in Nat
          BY <3>1, SecondsOf
        <4>2. ChallengeSeconds * Second \in Nat
          BY ChallengeAssumption, SecondAssumption
        <4>. QED
          BY <3>1, <4>1, <4>2, ChallengeAssumption
      <3>3. ServerKey(boot) \in Nat
        BY <3>1 DEF ServerKey
      <3>. QED
        BY <3>2, <3>3 DEF BuildChallenge, Transaction
    <2>2. call' \in [Tab -> CallState]
      BY <1>0, <1>1, <2>1
         DEF RequestChallenge, Answer, TypeOK, CallState, FormState
    <2>. QED
      BY <1>0, <1>1, <2>1, <2>2 DEF RequestChallenge, TypeOK, Get
  <1>2. ASSUME NEW c \in Tab, NEW u \in User, Sign(c, u) PROVE TypeOK'
    <2>1. call[c] \in FormState
      BY <1>0, <1>2, CallKinds DEF Sign, At
    <2>2. [call[c] EXCEPT !.step = "signed", !.signer = u] \in FormState
      BY <2>1 DEF FormState
    <2>3. call' \in [Tab -> CallState]
      BY <1>0, <1>2, <2>2 DEF Sign, TypeOK, CallState
    <2>. QED
      BY <1>0, <1>2, <2>3 DEF Sign, TypeOK, Get, api
  <1>3. ASSUME NEW c \in Tab, NEW path \in Shown, Visit(c, path) PROVE TypeOK'
    BY <1>0, <1>3, CookieKinds DEF Visit, Pass, Answer, Reading, Middleware,
       TypeOK, CallState, Get, api
  <1>4. ASSUME NEW c \in Tab, NEW p \in Pages, NEW u \in User \cup {None},
               NEW o \in p.offers, Act(c, o, u)
        PROVE  TypeOK'
    <2>1. call[c].path \in Shown
      BY <1>0, <1>4, CallKinds DEF Act
    <2>2. o.action \in Offered
      BY DEF Offered
    <2>. QED
      BY <1>0, <1>4, <2>1, <2>2, CookieKinds
         DEF Act, Pass, Answer, Middleware, TypeOK, CallState, Get, api
  <1>5. ASSUME NEW c \in Tab, CompleteLogin(c) PROVE TypeOK'
    <2>1. call[c] \in FormState
      BY <1>0, <1>5, CallKinds DEF CompleteLogin, At
    <2>2. call' \in [Tab -> CallState]
      BY <1>0, <1>5, <2>1 DEF CompleteLogin, Answer, TypeOK, CallState, FormState
    <2>. QED
      BY <1>0, <1>5, <2>2 DEF CompleteLogin, Redeem, TypeOK, Get
  <1>6. ASSUME NEW c \in Tab, Enter(c) PROVE TypeOK'
    BY <1>0, <1>6, CallKinds DEF Enter, Answer, At, TypeOK, CallState, Get, api
  <1>7. ASSUME NEW c \in Tab, IssueTokens(c) PROVE TypeOK'
    BY <1>0, <1>7, CallKinds
       DEF IssueTokens, Answer, At, TypeOK, CallState, SessionRow, Get
  <1>8. ASSUME NEW c \in Tab, LoggedIn(c) PROVE TypeOK'
    <2>1. call[c].nonce \in Nonce
      BY <1>0, <1>8, CallKinds DEF LoggedIn
    <2>2. now \in Nat /\ now + AccessSeconds * Second \in Nat
                      /\ now + RefreshSeconds * Second \in Nat
      BY <1>0, SecondAssumption, TTLAssumption DEF TypeOK, Time
    <2>3. /\ Put(call[c].nonce, AccessSeconds) \in CookieRow(Nonce)
          /\ Put(call[c].nonce, RefreshSeconds) \in CookieRow(Nonce)
          /\ Put(RoleOf(session[call[c].nonce].user), RefreshSeconds)
               \in CookieRow(Role)
      BY <2>1, <2>2 DEF Put, CookieRow, RoleOf, Role
    <2>4. /\ cookie' \in [access : Cookie(Nonce), refresh : Cookie(Nonce),
                          role : Cookie(Role)]
          /\ Get("refresh")' = Get("access")' /\ Get("role")' # None
      BY <1>8, <2>1, <2>3
         DEF LoggedIn, SetSessionCookies, Cookie, CookieRow, Get, Put, Role
    <2>5. call' \in [Tab -> CallState]
      BY <1>0, <1>8 DEF LoggedIn, Answer, TypeOK, CallState
    <2>. QED
      BY <1>0, <1>8, <2>4, <2>5 DEF LoggedIn, TypeOK, api
  <1>9. ASSUME NEW c \in Tab, CompleteLink(c) PROVE TypeOK'
    <2>1. call[c] \in FormState
      BY <1>0, <1>9, CallKinds DEF CompleteLink, At
    <2>2. Get("access") # None =>
            [step |-> "link", user |-> call[c].user, nonce |-> call[c].nonce,
             tx |-> call[c].tx, signer |-> call[c].signer,
             token |-> Get("access")] \in LinkState
      <3>1. /\ call[c].user \in User /\ call[c].nonce \in Nonce
            /\ call[c].tx \in Transaction
            /\ call[c].signer \in User \cup {None}
        BY <2>1 DEF FormState
      <3>2. Get("access") # None => Get("access") \in Nonce
        BY <1>0, CookieKinds
      <3>. QED
        BY <3>1, <3>2 DEF LinkState
    <2>3. /\ LinkState \subseteq CallState
          /\ Login \in CallState /\ [step |-> "home"] \in CallState
      BY DEF CallState
    <2>4. call' \in [Tab -> CallState]
      BY <1>0, <1>9, <2>2, <2>3
         DEF CompleteLink, Pass, Answer, Middleware, TypeOK
    <2>. QED
      BY <1>0, <1>9, <2>4 DEF CompleteLink, TypeOK, Get, api
  <1>10. ASSUME NEW c \in Tab, LinkWallet(c) PROVE TypeOK'
    <2>1. call[c].token \in Nonce /\ "/dashboard/wallets" \in Shown
      BY <1>0, <1>10, CallKinds DEF LinkWallet, CallInv
    <2>2. call' \in [Tab -> CallState]
      BY <1>0, <1>10, <2>1
         DEF LinkWallet, Answer, Reading, Back, TypeOK, CallState
    <2>3. /\ pending' \in [Nonce -> Nat \cup {None}]
          /\ UNCHANGED <<boot, used, session, suspended>>
      BY <1>0, <1>10 DEF LinkWallet, Redeem, TypeOK, api
    <2>. QED
      BY <1>0, <1>10, <2>2, <2>3 DEF LinkWallet, TypeOK, Get
  <1>11. ASSUME NEW c \in Tab, GoHome(c) PROVE TypeOK'
    BY <1>0, <1>11, CookieKinds DEF GoHome, Pass, Answer, Reading, Middleware,
       TypeOK, CallState, Shown, Get, api
  <1>12. ASSUME NEW c \in Tab, Read(c) PROVE TypeOK'
    <2>1. call[c].path \in Shown
      BY <1>0, <1>12, CallKinds DEF Read
    <2>2. call' \in [Tab -> CallState]
      BY <1>0, <1>12, <2>1 DEF Read, Code, Answer, TypeOK, CallState
    <2>. QED
      BY <1>0, <1>12, <2>2 DEF Read, TypeOK, Get, api
  <1>13. ASSUME NEW c \in Tab, Do(c) PROVE TypeOK'
    <2>1. call[c].path \in Shown /\ call[c].token \in Nonce
      BY <1>0, <1>13, CallKinds DEF Do
    <2>2. call' \in [Tab -> CallState]
      BY <1>0, <1>13, <2>1 DEF Do, Code, Answer, Reading, TypeOK, CallState
    <2>3. suspended' \subseteq User
      BY <1>0, <1>13 DEF CallInv, Do, Perform, TypeOK
    <2>. QED
      BY <1>0, <1>13, <2>2, <2>3 DEF Do, TypeOK, Get
  <1>14. ASSUME NEW c \in Tab, Logout(c) PROVE TypeOK'
    BY <1>0, <1>14 DEF Logout, Pass, Answer, Middleware, TypeOK, CallState, Get, api
  <1>15. ASSUME NEW c \in Tab, LoggedOut(c) PROVE TypeOK'
    BY <1>0, <1>15 DEF LoggedOut, ClearSessionCookies, Names, Cookie, Answer,
       TypeOK, CallState, Get, api
  <1>16. ASSUME NEW c \in Tab, Fail(c) PROVE TypeOK'
    <2>1. AfterFailure(c) \in CallState
      BY <1>0, CallKinds
         DEF AfterFailure, Back, CallState, CallInv, FormState, At
    <2>. QED
      BY <1>0, <1>16, <2>1 DEF Fail, Answer, TypeOK, Get, api
  <1>17. CASE Restart
    BY <1>0, <1>17 DEF Restart, TypeOK, CallState, Get
  <1>18. CASE UNCHANGED vars
    BY <1>0, <1>18 DEF vars, TypeOK, Get
  <1>. QED
    BY <1>1, <1>2, <1>3, <1>4, <1>5, <1>6, <1>7, <1>8, <1>9, <1>10, <1>11,
       <1>12, <1>13, <1>14, <1>15, <1>16, <1>17, <1>18, TickTypes
       DEF Next, Continue, BeginLogin, BeginLink, Shown
----------------------------------------------------------------------------
(* What every step keeps.  A challenge is carried by the call it was made  *)
(* for and by no other, and a row of session is written by its carrier.    *)

Quiet ==
  /\ used' = used
  /\ \A c \in Tab : Carries(c)' => Carries(c) /\ call'[c].nonce = call[c].nonce

LEMMA StepKinds ==
  ASSUME Inv, [Next]_vars
  PROVE  /\ \/ Quiet
            \/ \E c \in Tab, path \in {"/login", "/dashboard/wallets"},
                  u \in User, n \in Nonce : RequestChallenge(c, path, u, n)
         /\ \A n \in Nonce : session'[n] # session[n] =>
              \E c \in Tab : Carries(c) /\ call[c].nonce = n
  <1>. USE DEF Inv, Quiet, Carries
  <1>0. TypeOK
    OBVIOUS
  <1>. DEFINE Goal == Quiet /\ session' = session
  <1>1. ASSUME NEW c \in Tab, NEW u \in User, Sign(c, u) PROVE Goal
    <2>1. call[c] \in FormState
      BY <1>0, <1>1, CallKinds DEF Sign, At
    <2>2. call'[c].nonce = call[c].nonce /\ call'[c].step = "signed"
      BY <1>0, <1>1, <2>1 DEF Sign, TypeOK, FormState
    <2>. QED
      BY <1>0, <1>1, <2>2 DEF Sign, At, TypeOK, api
  <1>2. ASSUME NEW c \in Tab, NEW path \in Shown, Visit(c, path) PROVE Goal
    BY <1>0, <1>2
       DEF Visit, Pass, Answer, Reading, Middleware, Login, TypeOK, api
  <1>3. ASSUME NEW c \in Tab, NEW p \in Pages, NEW u \in User \cup {None},
               NEW o \in p.offers, Act(c, o, u)
        PROVE  Goal
    BY <1>0, <1>3 DEF Act, Pass, Answer, Middleware, Login, TypeOK, api
  <1>4. ASSUME NEW c \in Tab, CompleteLogin(c) PROVE Goal
    BY <1>0, <1>4 DEF CompleteLogin, Redeem, Answer, At, Login, TypeOK
  <1>5. ASSUME NEW c \in Tab, Enter(c) PROVE Goal
    BY <1>0, <1>5 DEF Enter, Answer, At, Login, TypeOK, api
  <1>6. ASSUME NEW c \in Tab, IssueTokens(c)
        PROVE  Quiet /\ \A n \in Nonce : session'[n] # session[n] =>
                          call[c].step = "issue" /\ call[c].nonce = n
    BY <1>0, <1>6 DEF IssueTokens, Answer, At, TypeOK
  <1>7. ASSUME NEW c \in Tab, LoggedIn(c) PROVE Goal
    BY <1>0, <1>7 DEF LoggedIn, Answer, TypeOK, api
  <1>8. ASSUME NEW c \in Tab, CompleteLink(c) PROVE Goal
    BY <1>0, <1>8
       DEF CompleteLink, Pass, Answer, Middleware, At, Login, TypeOK, api
  <1>9. ASSUME NEW c \in Tab, LinkWallet(c) PROVE Goal
    BY <1>0, <1>9
       DEF LinkWallet, Redeem, Answer, Reading, Back, Login, TypeOK, api
  <1>10. ASSUME NEW c \in Tab, GoHome(c) PROVE Goal
    BY <1>0, <1>10
       DEF GoHome, Pass, Answer, Reading, Middleware, Login, TypeOK, api
  <1>11. ASSUME NEW c \in Tab, Read(c) PROVE Goal
    BY <1>0, <1>11 DEF Read, Answer, TypeOK, api
  <1>12. ASSUME NEW c \in Tab, Do(c) PROVE Goal
    BY <1>0, <1>12 DEF Do, Answer, Reading, TypeOK
  <1>13. ASSUME NEW c \in Tab, Logout(c) \/ LoggedOut(c) PROVE Goal
    BY <1>0, <1>13
       DEF Logout, LoggedOut, Pass, Answer, Middleware, Login, TypeOK, api
  <1>14. ASSUME NEW c \in Tab, Fail(c) PROVE Goal
    <2>1. AfterFailure(c).step \in {"login", "shown", "error"}
      BY DEF AfterFailure, Back, Login
    <2>. QED
      BY <1>0, <1>14, <2>1 DEF Fail, Answer, TypeOK, api
  <1>15. CASE Tick
    BY <1>15 DEF Tick, api
  <1>16. CASE Restart
    BY <1>0, <1>16 DEF Restart, Login, TypeOK
  <1>17. CASE UNCHANGED vars
    BY <1>17 DEF vars
  <1>18. ASSUME NEW c \in Tab, NEW path \in {"/login", "/dashboard/wallets"},
                NEW u \in User, NEW n \in Nonce, RequestChallenge(c, path, u, n)
         PROVE  session' = session
    BY <1>18 DEF RequestChallenge
  <1>. HIDE DEF Quiet, Carries
  <1>19. ASSUME NEW c \in Tab, IssueTokens(c)
         PROVE  \A n \in Nonce : session'[n] # session[n] =>
                  \E d \in Tab : Carries(d) /\ call[d].nonce = n
    BY <1>6, <1>19 DEF Carries
  <1>. QED
    BY <1>1, <1>2, <1>3, <1>4, <1>5, <1>6, <1>7, <1>8, <1>9, <1>10, <1>11,
       <1>12, <1>13, <1>14, <1>15, <1>16, <1>17, <1>18, <1>19
       DEF Next, Continue, BeginLogin, BeginLink, Shown

LEMMA CarriersStep ==
  ASSUME Inv, [Next]_vars PROVE Carriers'
  <1>1. CASE Quiet
    BY <1>1 DEF Quiet, Carriers, Inv
  <1>2. ASSUME NEW c \in Tab, NEW path \in {"/login", "/dashboard/wallets"},
               NEW u \in User, NEW n \in Nonce, RequestChallenge(c, path, u, n)
        PROVE  Carriers'
    <2>1. /\ \A d \in Tab \ {c} : call'[d] = call[d]
          /\ call'[c].nonce = n
          /\ used' = used \cup {n} /\ n \notin used
      BY <1>2 DEF RequestChallenge, Answer, Inv, TypeOK
    <2>. QED
      BY <2>1 DEF Carriers, Carries, Inv
  <1>. QED
    BY <1>1, <1>2, StepKinds

\* Tokens that are backed stay so, and say the same.
LEMMA BackedStep ==
  ASSUME Inv, [Next]_vars, NEW n \in Nonce, Backed(n)
  PROVE  Backed(n)' /\ session'[n] = session[n]
  <1>1. session'[n] = session[n]
    BY StepKinds DEF Backed
  <1>2. n \in used' /\ \A c \in Tab : Carries(c)' => call'[c].nonce # n
    <2>1. CASE Quiet
      BY <2>1 DEF Quiet, Backed
    <2>2. ASSUME NEW c \in Tab, NEW path \in {"/login", "/dashboard/wallets"},
                 NEW u \in User, NEW m \in Nonce, RequestChallenge(c, path, u, m)
          PROVE  n \in used' /\ \A d \in Tab : Carries(d)' => call'[d].nonce # n
      <3>1. /\ \A d \in Tab \ {c} : call'[d] = call[d]
            /\ call'[c].nonce = m
            /\ used' = used \cup {m} /\ m \notin used
        BY <2>2 DEF RequestChallenge, Answer, Inv, TypeOK
      <3>. QED
        BY <3>1 DEF Backed, Carries
    <2>. QED
      BY <2>1, <2>2, StepKinds
  <1>. QED
    BY <1>1, <1>2 DEF Backed, SessionRow, Time
\* The cookies: a login sets them together, logout clears them together, and
\* the browser drops the access cookie first.
LEMMA CookiesStep ==
  ASSUME Inv, [Next]_vars PROVE CookiesBacked'
  <1>. USE DEF Inv
  <1>0. TypeOK
    OBVIOUS
  <1>1. CASE UNCHANGED cookie
    <2>. SUFFICES ASSUME Get("access") # None PROVE CookiesBacked'
      BY <1>1 DEF CookiesBacked, Get
    <2>1. Get("access") \in Nonce /\ Backed(Get("access"))
      BY <1>0, CookieKinds DEF CookiesBacked
    <2>2. /\ Backed(Get("access"))'
          /\ session'[Get("access")] = session[Get("access")]
      <3>. DEFINE n == Get("access")
      <3>1. Get("access")' = n
        BY <1>1 DEF Get
      <3>2. Backed(n) /\ n \in Nonce
        BY <2>1
      <3>. HIDE DEF n
      <3>3. /\ n \in used' /\ session'[n] \in SessionRow /\ session'[n].active
            /\ \A c \in Tab : Carries(c)' => call'[c].nonce # n
            /\ session'[n] = session[n]
        BY <3>2, BackedStep DEF Backed, SessionRow, Time
      <3>. QED
        BY <3>1, <3>3 DEF n, Backed, SessionRow, Time
    <2>. QED
      BY <1>1, <2>2 DEF CookiesBacked, Get
  <1>2. ASSUME NEW c \in Tab, LoggedIn(c) PROVE CookiesBacked'
    <2>1. call[c].nonce \in Nonce /\ Backed(call[c].nonce)
      BY <1>0, <1>2, CallKinds DEF LoggedIn, CallInv
    <2>2. /\ cookie'["access"] = Put(call[c].nonce, AccessSeconds)
          /\ cookie'["refresh"] = Put(call[c].nonce, RefreshSeconds)
          /\ cookie'["role"] = Put(RoleOf(session[call[c].nonce].user),
                                   RefreshSeconds)
      BY <1>2 DEF LoggedIn, SetSessionCookies
    <2>3. /\ cookie'["access"].till <= cookie'["role"].till
          /\ cookie'["access"].till <= cookie'["refresh"].till
      <3>1. AccessSeconds * Second <= RefreshSeconds * Second
        BY TTLAssumption, SecondAssumption
      <3>. QED
        BY <1>0, <2>2, <3>1, TTLAssumption, SecondAssumption
           DEF Put, TypeOK, Time
    <2>4. /\ Get("access")' # None => Get("role")' # None
          /\ \A name \in Names : Get(name)' # None =>
               Get(name)' = cookie'[name].value
      BY TypeStep DEF TypeOK, Get
    <2>5. Get("access")' # None =>
            /\ Get("access")' = call[c].nonce
            /\ Get("role")' = RoleOf(session[call[c].nonce].user)
      BY <2>2, <2>4 DEF Names, Put
    <2>. DEFINE n == call[c].nonce
    <2>6. /\ used' = used /\ session' = session
          /\ \A d \in Tab : Carries(d)' => call'[d].nonce # n
      BY <1>0, <1>2, <2>1 DEF LoggedIn, Answer, TypeOK, api, Backed, Carries
    <2>. HIDE DEF n
    <2>. QED
      BY <2>1, <2>3, <2>5, <2>6
         DEF n, CookiesBacked, Backed, SessionRow, Time
  <1>3. ASSUME NEW c \in Tab, LoggedOut(c) PROVE CookiesBacked'
    BY <1>3 DEF LoggedOut, ClearSessionCookies, Names, CookiesBacked, Get
  <1>4. CASE Tick
    <2>. SUFFICES ASSUME Get("access")' # None PROVE CookiesBacked'
      BY DEF CookiesBacked
    <2>1. /\ Get("access")' = Get("refresh")' /\ Get("role")' # None
      BY TypeStep DEF TypeOK
    <2>2. \A name \in Names : cookie'[name] \in {cookie[name], None}
      BY <1>4 DEF Tick
    <2>3. \A name \in Names : Get(name)' # None => cookie'[name] = cookie[name]
      BY <2>2 DEF Get
    <2>4. /\ cookie'["access"] = cookie["access"]
          /\ cookie'["refresh"] = cookie["refresh"]
          /\ cookie'["role"] = cookie["role"]
      BY <2>1, <2>3, NoneAssumption DEF Names
    <2>5. /\ Get("access")' = Get("access")
          /\ Get("role")' = Get("role")
      BY <2>4 DEF Get
    <2>. QED
      BY <1>4, <2>4, <2>5 DEF Tick, api, CookiesBacked, Backed, Carries
  <1>5. ASSUME NEW c \in Tab, Continue(c), ~LoggedIn(c), ~LoggedOut(c)
        PROVE  UNCHANGED cookie
    BY <1>5 DEF Continue, CompleteLogin, Enter, IssueTokens, CompleteLink,
       LinkWallet, GoHome, Read, Do, Logout
  <1>6. ASSUME NEW c \in Tab, NEW u \in User, NEW n \in Nonce,
               BeginLogin(c, u, n) \/ BeginLink(c, u, n)
        PROVE  UNCHANGED cookie
    BY <1>6 DEF BeginLogin, BeginLink, RequestChallenge
  <1>7. ASSUME NEW c \in Tab, NEW path, NEW o, NEW u,
               Visit(c, path) \/ Act(c, o, u) \/ Fail(c)
        PROVE  UNCHANGED cookie
    BY <1>7 DEF Visit, Act, Fail
  <1>8. CASE Restart \/ UNCHANGED vars
    BY <1>1, <1>8 DEF Restart, vars
  <1>9. ASSUME NEW c \in Tab, NEW u \in User, Sign(c, u) PROVE UNCHANGED cookie
    BY <1>9 DEF Sign
  <1>. QED
    BY <1>1, <1>2, <1>3, <1>4, <1>5, <1>6, <1>7, <1>8, <1>9 DEF Next

----------------------------------------------------------------------------
(* The calls.                                                              *)

\* A tab that does not move keeps what it relies on.
LEMMA KeptCall ==
  ASSUME Inv, [Next]_vars, NEW c \in Tab, call'[c] = call[c]
  PROVE  CallInv(c)'
  <1>. USE DEF Inv
  <1>0. TypeOK /\ CallInv(c)
    OBVIOUS
  <1>1. At(c, "answer") => Backed(call[c].nonce)'
    BY <1>0, CallKinds, BackedStep DEF CallInv
  <1>2. call[c].step \in {"link", "page", "do"} =>
          /\ Backed(call[c].token)'
          /\ session'[call[c].token] = session[call[c].token]
    BY <1>0, CallKinds, BackedStep DEF CallInv, At
  <1>. QED
    BY <1>0, <1>1, <1>2 DEF CallInv, Cleared, At, Backed, Carries

\* A token that has been cleared for a page stays so.
LEMMA ClearedStep ==
  ASSUME Inv, [Next]_vars, NEW path, NEW n \in Nonce, Backed(n), Cleared(path, n)
  PROVE  Backed(n)' /\ Cleared(path, n)'
  BY BackedStep DEF Cleared

\* Whom the middleware lets through.
LEMMA PassIsCleared ==
  ASSUME Inv, [Next]_vars, NEW path \in Shown,
         Middleware(ThePage(path).section) = "next"
  PROVE  \E n \in Nonce : n = Get("access") /\ Backed(n)' /\ Cleared(path, n)'
  <1>1. /\ Get("access") \in Nonce
        /\ Backed(Get("access"))
        /\ Cleared(path, Get("access"))
    BY CookieKinds DEF Inv, Middleware, CookiesBacked, Cleared
  <1>2. PICK n \in Nonce : n = Get("access")
    BY <1>1
  <1>3. Backed(n) /\ Cleared(path, n)
    BY <1>1, <1>2
  <1>. QED
    BY <1>2, <1>3, ClearedStep

\* A tab that is home, or is shown the page or the error it may be shown.
LEMMA PageInv ==
  ASSUME NEW c \in Tab, NEW path, NEW n, call'[c] = Reading(path, n),
         Backed(n)', Cleared(path, n)'
  PROVE  CallInv(c)'
  BY DEF Reading, CallInv, At, Backed, Cleared, Carries

LEMMA RestInv ==
  ASSUME NEW c \in Tab,
         \/ call'[c].step \in {"login", "home", "logout", "shown", "enter"}
         \/ call'[c].step = "error" /\ call'[c].code # 403
  PROVE  CallInv(c)'
  BY DEF CallInv, At

LEMMA Forbids ==
  ASSUME NEW n, NEW names, Code(n, names) = 403
  PROVE  "ADMIN" \in Guards(names) /\ RoleOf(session[n].user) # "ADMIN"
  BY DEF Code, Permitted

\* A tab moves, and no other does; only a restart moves several.
Moves(c) ==
  \/ \E u \in User : \/ \E n \in Nonce : \/ BeginLogin(c, u, n)
                                         \/ BeginLink(c, u, n)
                     \/ Sign(c, u)
  \/ \E path \in Visited : Visit(c, path)
  \/ \E p \in Pages, u \in User \cup {None} : \E o \in p.offers : Act(c, o, u)
  \/ Continue(c)
  \/ Fail(c)

LEMMA OneMoves ==
  ASSUME Inv, [Next]_vars, NEW c \in Tab, call'[c] # call[c], ~Restart
  PROVE  Moves(c)
  <1>1. PICK d \in Tab : Moves(d)
    BY DEF Next, Tick, vars, Moves
  <1>2. d # c => call'[c] = call[c]
    BY <1>1 DEF Moves, BeginLogin, BeginLink, RequestChallenge, Sign, Visit, Act,
       Continue, CompleteLogin, Enter, IssueTokens, LoggedIn, CompleteLink,
       LinkWallet, GoHome, Read, Do, Logout, LoggedOut, Fail, Pass, Answer,
       Inv, TypeOK
  <1>. QED
    BY <1>1, <1>2

LEMMA MovedCall ==
  ASSUME Inv, [Next]_vars, NEW c \in Tab, Moves(c)
  PROVE  CallInv(c)'
  <1>. USE DEF Inv
  <1>0. TypeOK /\ CallInv(c)
    OBVIOUS
  <1>1. ASSUME NEW path \in {"/login", "/dashboard/wallets"}, NEW u \in User,
               NEW n \in Nonce, RequestChallenge(c, path, u, n),
               path # "/login" => Shows(c, path)
        PROVE  CallInv(c)'
    <2>1. path # "/login" => "/dashboard/wallets" \in Shown
      BY <1>0, <1>1, CallKinds DEF Shows
    <2>. QED
      BY <1>0, <1>1, <2>1 DEF RequestChallenge, Answer, TypeOK, CallInv, At
  <1>2. ASSUME NEW u \in User, Sign(c, u) PROVE CallInv(c)'
    <2>1. call[c] \in FormState
      BY <1>0, <1>2, CallKinds DEF Sign, At
    <2>2. call'[c].step = "signed" /\ call'[c].path = call[c].path
      BY <1>0, <1>2, <2>1 DEF Sign, TypeOK, FormState
    <2>. QED
      BY <1>0, <1>2, <2>2 DEF Sign, CallInv, At
  <1>3. ASSUME NEW u \in User, NEW n \in Nonce,
               BeginLogin(c, u, n) \/ BeginLink(c, u, n)
        PROVE  CallInv(c)'
    BY <1>1, <1>3 DEF BeginLogin, BeginLink
  <1>4. CASE \/ CompleteLogin(c) \/ LoggedIn(c) \/ LoggedOut(c)
    <2>1. call'[c].step \in {"enter", "login", "home"}
      BY <1>0, <1>4
         DEF CompleteLogin, LoggedIn, LoggedOut, Answer, Login, TypeOK
    <2>. QED
      BY <2>1, RestInv
  <1>5. CASE Enter(c)
    BY <1>0, <1>5 DEF Enter, Answer, Login, CallInv, At, TypeOK
  <1>6. CASE IssueTokens(c)
    <2>1. PICK n \in Nonce : n = call[c].nonce
      BY <1>0, <1>6, CallKinds DEF IssueTokens
    <2>2. /\ n \in used
          /\ \A d \in Tab : Carries(d) /\ call[d].nonce = n => d = c
      BY <1>0, <1>6, <2>1 DEF IssueTokens, At, Carriers, Carries
    <2>3. /\ call'[c] = [step |-> "answer", nonce |-> n]
          /\ \A d \in Tab \ {c} : call'[d] = call[d]
          /\ used' = used
      BY <1>0, <1>6, <2>1 DEF IssueTokens, Answer, TypeOK
    <2>4. session'[n] \in SessionRow /\ session'[n].active
      BY <1>0, <1>6, <2>1, CallKinds DEF IssueTokens, SessionRow, CallInv, TypeOK, At
    <2>5. Backed(n)'
      BY <2>2, <2>3, <2>4 DEF Backed, Carries, SessionRow, Time
    <2>. QED
      BY <2>3, <2>5 DEF CallInv, At, Backed, Carries
  <1>7. ASSUME NEW path \in Visited, Visit(c, path) PROVE CallInv(c)'
    <2>1. CASE Middleware(ThePage(path).section) = "next"
      <3>1. call'[c] = Reading(path, Get("access"))
        BY <1>0, <1>7, <2>1 DEF Visit, Pass, Answer, TypeOK
      <3>. QED
        BY <2>1, <3>1, PassIsCleared, PageInv DEF Shown
    <2>2. CASE Middleware(ThePage(path).section) # "next"
      BY <1>0, <1>7, <2>2, RestInv
         DEF Visit, Pass, Answer, Middleware, Login, TypeOK
    <2>. QED
      BY <2>1, <2>2
  <1>8. CASE GoHome(c)
    <2>1. CASE Middleware(ThePage("/dashboard").section) = "next"
      <3>1. call'[c] = Reading("/dashboard", Get("access"))
        BY <1>0, <1>8, <2>1 DEF GoHome, Pass, Answer, TypeOK
      <3>. QED
        BY <2>1, <3>1, PassIsCleared, PageInv DEF Shown
    <2>2. CASE Middleware(ThePage("/dashboard").section) # "next"
      BY <1>0, <1>8, <2>2, RestInv
         DEF GoHome, Pass, Answer, Middleware, Login, TypeOK
    <2>. QED
      BY <2>1, <2>2
  <1>9. ASSUME NEW p \in Pages, NEW u \in User \cup {None}, NEW o \in p.offers,
               Act(c, o, u)
        PROVE  CallInv(c)'
    <2>1. PICK path \in Shown : path = call[c].path
      BY <1>0, <1>9, CallKinds DEF Act
    <2>2. /\ o \in ThePage(path).offers
          /\ o.action \in {"suspendUser", "reactivateUser"} => u \in User
      BY <1>0, <1>9, <2>1, OffersOfUsers, ThePageIs, CallKinds DEF Act
    <2>3. CASE Middleware(ThePage(path).section) = "next"
      <3>1. PICK n \in Nonce : n = Get("access") /\ Backed(n)' /\ Cleared(path, n)'
        BY <2>3, PassIsCleared
      <3>2. call'[c] = [step |-> "do", path |-> path, action |-> o.action,
                        user |-> u, token |-> n]
        BY <1>0, <1>9, <2>1, <2>3, <3>1 DEF Act, Pass, Answer, TypeOK
      <3>. QED
        BY <2>2, <3>1, <3>2 DEF CallInv, At, Backed, Cleared, Carries
    <2>4. CASE Middleware(ThePage(path).section) # "next"
      BY <1>0, <1>9, <2>1, <2>4, RestInv
         DEF Act, Pass, Answer, Middleware, Login, TypeOK
    <2>. QED
      BY <2>3, <2>4
  <1>10. CASE CompleteLink(c)
    <2>. DEFINE path == "/dashboard/wallets"
    <2>1. path \in Shown
      BY <1>0, <1>10 DEF CompleteLink, CallInv, At
    <2>2. CASE Middleware(ThePage(path).section) = "next"
      <3>1. PICK n \in Nonce : n = Get("access") /\ Backed(n)' /\ Cleared(path, n)'
        BY <2>1, <2>2, PassIsCleared
      <3>2. call'[c].step = "link" /\ call'[c].token = n
        BY <1>0, <1>10, <2>2, <3>1 DEF CompleteLink, Pass, Answer, TypeOK
      <3>. QED
        BY <2>1, <3>1, <3>2 DEF CallInv, At, Backed, Cleared, Carries
    <2>3. CASE Middleware(ThePage(path).section) # "next"
      BY <1>0, <1>10, <2>3, RestInv
         DEF CompleteLink, Pass, Answer, Middleware, Login, TypeOK
    <2>. QED
      BY <2>2, <2>3
  <1>11. CASE LinkWallet(c)
    <2>1. PICK n \in Nonce : n = call[c].token
      BY <1>0, <1>11, CallKinds DEF LinkWallet
    <2>2. Backed(n)' /\ Cleared("/dashboard/wallets", n)'
      BY <1>0, <1>11, <2>1, ClearedStep DEF LinkWallet, CallInv
    <2>3. CASE call'[c] = Reading("/dashboard/wallets", n)
      BY <2>2, <2>3, PageInv
    <2>4. CASE call'[c] = Back("/dashboard/wallets")
      BY <2>4, RestInv DEF Back
    <2>. QED
      BY <1>0, <1>11, <2>1, <2>3, <2>4 DEF LinkWallet, Answer, TypeOK
  <1>12. CASE Read(c)
    <2>1. /\ call[c].path \in Shown /\ ThePage(call[c].path) \in Pages
          /\ Cleared(call[c].path, call[c].token)
      BY <1>0, <1>12, CallKinds, ThePageIs DEF Read, CallInv, At
    <2>2. Code(call[c].token, ThePage(call[c].path).reads) # 403
      BY <2>1, Forbids, PagesOfOthers, GuardsOfOthers DEF Cleared
    <2>. QED
      BY <1>0, <1>12, <2>2, RestInv DEF Read, Answer, TypeOK
  <1>13. CASE Do(c)
    <2>1. PICK path \in Shown, n \in Nonce :
            path = call[c].path /\ n = call[c].token
      BY <1>0, <1>13, CallKinds DEF Do
    <2>2. /\ ThePage(path) \in Pages
          /\ Backed(n) /\ Cleared(path, n)
          /\ \E o \in ThePage(path).offers : o.action = call[c].action
      BY <1>0, <1>13, <2>1, ThePageIs DEF Do, CallInv, At
    <2>3. Code(n, {call[c].action}) # 403
      BY <2>2, Forbids, PagesOfOthers, GuardsOfOthers DEF Cleared
    <2>4. Backed(n)' /\ Cleared(path, n)'
      BY <2>2, ClearedStep
    <2>5. \/ call'[c] = Reading(path, n)
          \/ call'[c].step = "error" /\ call'[c].code # 403
      BY <1>0, <1>13, <2>1, <2>3 DEF Do, Answer, TypeOK
    <2>. QED
      BY <2>4, <2>5, PageInv, RestInv
  <1>14. CASE Logout(c)
    BY <1>0, <1>14, RestInv DEF Logout, Pass, Answer, Middleware, Login, TypeOK
  <1>15. CASE Fail(c)
    <2>1. \/ AfterFailure(c).step \in {"login", "shown"}
          \/ AfterFailure(c) = [step |-> "error", code |-> 500]
      BY DEF AfterFailure, Back, Login
    <2>. QED
      BY <1>0, <1>15, <2>1, RestInv DEF Fail, Answer, TypeOK
  <1>. QED
    BY <1>2, <1>3, <1>4, <1>5, <1>6, <1>7, <1>8, <1>9, <1>10, <1>11, <1>12,
       <1>13, <1>14, <1>15 DEF Moves, Continue
LEMMA InvStep ==
  ASSUME Inv, [Next]_vars PROVE Inv'
  <1>1. ASSUME NEW c \in Tab PROVE CallInv(c)'
    <2>1. CASE call'[c] = call[c]
      BY <2>1, KeptCall
    <2>2. CASE Restart
      BY <2>1, <2>2, RestInv DEF Restart, Login, Inv, TypeOK
    <2>3. CASE call'[c] # call[c] /\ ~Restart
      BY <2>3, OneMoves, MovedCall
    <2>. QED
      BY <2>1, <2>2, <2>3
  <1>. QED
    BY <1>1, TypeStep, CarriersStep, CookiesStep DEF Inv

\* Types, and what tabs and cookies rely on, hold throughout: the invariant
\* behind the two theorems after it.
THEOREM Invariance == Spec => []Inv
  BY InvInit, InvStep, PTL DEF Spec

\* Sessions, cookies and tabs have the shape the handlers give them.
THEOREM TypeCorrect == Spec => []TypeOK
  <1>1. Inv => TypeOK
    BY DEF Inv
  <1>. QED
    BY <1>1, Invariance, PTL

\* Whoever the middleware lets in is not turned away by the API for its role,
\* for all pages and tables of routes, however many tabs and logins.
THEOREM NobodyForbidden == Spec => []NeverForbidden
  <1>1. Inv => NeverForbidden
    BY DEF Inv, CallInv, NeverForbidden
  <1>. QED
    BY <1>1, Invariance, PTL

\* What an access token answers is answered in time, and goes back to a login
\* that found the account active: for all lives of tokens and cookies.
THEOREM SuspensionTakesHold == Spec => SuspensionBites
  <1>1. ASSUME Inv, [Next]_vars, NEW c \in Tab, Answered(c)
        PROVE  LET s == session[call[c].token]
               IN s.active /\ now < s.made + AccessSeconds * Second
    <2>1. Read(c) \/ Do(c)
      <3>1. call[c].step \in {"page", "do"} /\ call'[c] # call[c]
        BY <1>1 DEF Answered
      <3>2. ~Restart
        BY <1>1, <3>1 DEF Restart, Inv, TypeOK
      <3>3. Moves(c)
        BY <1>1, <3>1, <3>2, OneMoves
      <3>4. ~Fail(c)
        <4>1. call[c].step \in {"page", "do"} =>
                AfterFailure(c) = [step |-> "error", code |-> 500]
          BY DEF AfterFailure
        <4>. QED
          BY <1>1, <3>1, <4>1 DEF Fail, Answer, Answered, Inv, TypeOK
      <3>5. ASSUME NEW u, NEW n, NEW o, NEW path
            PROVE  /\ ~BeginLogin(c, u, n) /\ ~BeginLink(c, u, n)
                   /\ ~Sign(c, u) /\ ~Act(c, o, u) /\ ~Visit(c, path)
        BY <3>1 DEF BeginLogin, BeginLink, Shows, Sign, Visit, Act, Free, At
      <3>6. Continue(c) => Read(c) \/ Do(c)
        BY <3>1 DEF Continue, CompleteLogin, Enter, IssueTokens, LoggedIn,
           CompleteLink, LinkWallet, GoHome, Logout, LoggedOut, At
      <3>. QED
        BY <3>3, <3>4, <3>5, <3>6 DEF Moves
    <2>2. Verified(call[c].token)
      <3>1. CASE Read(c)
        <4>1. ~Verified(call[c].token) =>
                Code(call[c].token, ThePage(call[c].path).reads) # 200
          BY DEF Code
        <4>. QED
          BY <1>1, <3>1, <4>1 DEF Read, Answer, Answered, Inv, TypeOK
      <3>2. CASE Do(c)
        <4>1. ~Verified(call[c].token) =>
                Code(call[c].token, {call[c].action}) # 200
          BY DEF Code
        <4>. QED
          BY <1>1, <3>2, <4>1 DEF Do, Answer, Answered, Inv, TypeOK
      <3>. QED
        BY <2>1, <3>1, <3>2
    <2>3. /\ session[call[c].token] \in SessionRow
          /\ session[call[c].token].active
          /\ now \in Nat
      BY <1>1 DEF Answered, Inv, CallInv, Backed, TypeOK, Time
    <2>4. session[call[c].token].made \in Nat
      BY <2>3 DEF SessionRow, Time
    <2>. QED
      BY <2>2, <2>3, <2>4, VerifiedInTime
  <1>2. Inv /\ [Next]_vars =>
          [\A c \in Tab : Answered(c) =>
             LET s == session[call[c].token]
             IN s.active /\ now < s.made + AccessSeconds * Second]_vars
    BY <1>1
  <1>. QED
    BY <1>2, Invariance, PTL DEF Spec, SuspensionBites
----------------------------------------------------------------------------
(* The window of a challenge.                                              *)

LEMMA SecondsGrow ==
  ASSUME NEW s \in Nat, NEW t \in Nat, s <= t PROVE Seconds(s) <= Seconds(t)
  <1>. DEFINE p == Seconds(s)
              q == Seconds(t)
  <1>1. /\ p \in Nat /\ q \in Nat
        /\ p * Second <= s /\ t < (q + 1) * Second
    BY SecondsOf
  <1>. HIDE DEF p, q
  <1>2. p * Second < (q + 1) * Second
    BY <1>1, SecondAssumption
  <1>3. ASSUME p >= q + 1 PROVE FALSE
    <2>1. p * Second >= (q + 1) * Second
      BY <1>1, <1>3, SecondAssumption
    <2>. QED
      BY <1>1, <1>2, <2>1, SecondAssumption
  <1>4. p <= q
    BY <1>1, <1>3
  <1>. QED
    BY <1>4 DEF p, q

\* The bound in the transaction is the second in which its record expires.
LEMMA WholeWindow ==
  ASSUME NEW t \in Nat
  PROVE  Seconds(t + ChallengeSeconds * Second) = Seconds(t) + ChallengeSeconds
  <1>. DEFINE p == Seconds(t)
              q == Seconds(t + ChallengeSeconds * Second)
  <1>1. ChallengeSeconds * Second \in Nat
    BY ChallengeAssumption, SecondAssumption
  <1>2. /\ p \in Nat
        /\ p * Second <= t /\ t < (p + 1) * Second
    BY SecondsOf
  <1>3. /\ q \in Nat
        /\ q * Second <= t + ChallengeSeconds * Second
        /\ t + ChallengeSeconds * Second < (q + 1) * Second
    BY <1>1, SecondsOf
  <1>. HIDE DEF p, q
  <1>4. /\ (p + ChallengeSeconds) * Second = p * Second + ChallengeSeconds * Second
        /\ (p + 1 + ChallengeSeconds) * Second
             = (p + 1) * Second + ChallengeSeconds * Second
    BY <1>2, ChallengeAssumption, SecondAssumption
  <1>5. /\ q * Second < (p + 1 + ChallengeSeconds) * Second
        /\ (p + ChallengeSeconds) * Second < (q + 1) * Second
    BY <1>1, <1>2, <1>3, <1>4, ChallengeAssumption, SecondAssumption
  <1>6. \A x \in Nat, y \in Nat : x * Second < y * Second => x < y
    BY SecondAssumption
  <1>7. q < p + 1 + ChallengeSeconds /\ p + ChallengeSeconds < q + 1
    BY <1>2, <1>3, <1>5, <1>6, ChallengeAssumption
  <1>8. q = p + ChallengeSeconds
    BY <1>2, <1>3, <1>7, ChallengeAssumption
  <1>. QED
    BY <1>8 DEF p, q

\* The form's transaction is the one of its challenge, and as long as that is
\* remembered it has the key of the process and its time.
AskedOf(c) ==
  call[c].step \in {"sign", "signed"} =>
    /\ call[c].tx.client = call[c].user
    /\ pending[call[c].nonce] # None =>
         /\ call[c].tx.source = ServerKey(boot)
         /\ call[c].tx.maxTime = Seconds(pending[call[c].nonce])

Asked == \A c \in Tab : AskedOf(c)

LEMMA PendingStep ==
  ASSUME Inv, [Next]_vars, NEW n \in Nonce, n \in used
  PROVE  \/ pending'[n] = pending[n] /\ boot' = boot
         \/ pending'[n] = None
  <1>. USE DEF Inv, TypeOK
  <1>1. ASSUME NEW c \in Tab, NEW path, NEW u, NEW m \in Nonce,
               RequestChallenge(c, path, u, m)
        PROVE  pending'[n] = pending[n] /\ boot' = boot
    BY <1>1 DEF RequestChallenge
  <1>2. ASSUME NEW c \in Tab, CompleteLogin(c) \/ LinkWallet(c)
        PROVE  pending'[n] \in {pending[n], None} /\ boot' = boot
    BY <1>2 DEF CompleteLogin, LinkWallet, Redeem, api
  <1>3. ASSUME NEW c \in Tab, Continue(c), ~CompleteLogin(c), ~LinkWallet(c)
        PROVE  pending' = pending /\ boot' = boot
    BY <1>3 DEF Continue, Enter, IssueTokens, LoggedIn, CompleteLink, GoHome,
       Read, Do, Logout, LoggedOut, api
  <1>4. ASSUME NEW c \in Tab, NEW path, NEW o, NEW u,
               Visit(c, path) \/ Act(c, o, u) \/ Fail(c) \/ Sign(c, u)
        PROVE  pending' = pending /\ boot' = boot
    BY <1>4 DEF Visit, Act, Fail, Sign, api
  <1>5. CASE Restart
    BY <1>5 DEF Restart
  <1>6. CASE Tick \/ UNCHANGED vars
    BY <1>6 DEF Tick, vars, api
  <1>. QED
    BY <1>1, <1>2, <1>3, <1>4, <1>5, <1>6 DEF Next, BeginLogin, BeginLink

LEMMA FormStep ==
  ASSUME Inv, [Next]_vars, NEW c \in Tab, call'[c] # call[c],
         call'[c].step \in {"sign", "signed"}
  PROVE  \/ \E path \in {"/login", "/dashboard/wallets"}, u \in User,
               n \in Nonce : RequestChallenge(c, path, u, n)
         \/ /\ call[c].step = "sign"
            /\ call'[c].tx = call[c].tx
            /\ call'[c].user = call[c].user
            /\ call'[c].nonce = call[c].nonce
  <1>. USE DEF Inv
  <1>0. TypeOK
    OBVIOUS
  <1>1. ~Restart
    BY DEF Restart, Login, Inv, TypeOK
  <1>2. Moves(c)
    BY <1>1, OneMoves
  <1>3. ASSUME NEW u \in User, Sign(c, u)
        PROVE  /\ call[c].step = "sign"
               /\ call'[c].tx = call[c].tx
               /\ call'[c].user = call[c].user
               /\ call'[c].nonce = call[c].nonce
    <2>1. call[c] \in FormState
      BY <1>0, <1>3, CallKinds DEF Sign, At
    <2>. QED
      BY <1>0, <1>3, <2>1 DEF Sign, At, TypeOK, FormState
  <1>4. ASSUME NEW path, NEW o, NEW u,
               \/ Visit(c, path) \/ Act(c, o, u) \/ GoHome(c) \/ Logout(c)
               \/ CompleteLink(c)
        PROVE  FALSE
    BY <1>0, <1>4 DEF Visit, Act, GoHome, Logout, CompleteLink, Pass, Answer,
       Reading, Login, TypeOK
  <1>5. ~Fail(c)
    <2>1. AfterFailure(c).step \in {"login", "shown", "error"}
      BY DEF AfterFailure, Back, Login
    <2>. QED
      BY <1>0, <2>1 DEF Fail, Answer, TypeOK
  <1>6. ~LinkWallet(c) /\ ~Read(c) /\ ~Do(c)
    BY <1>0 DEF LinkWallet, Read, Do, Answer, Reading, Back, TypeOK
  <1>7. ~CompleteLogin(c) /\ ~Enter(c) /\ ~IssueTokens(c) /\ ~LoggedIn(c)
        /\ ~LoggedOut(c)
    BY <1>0 DEF CompleteLogin, Enter, IssueTokens, LoggedIn, LoggedOut, Answer,
       Login, TypeOK
  <1>. QED
    BY <1>2, <1>3, <1>4, <1>5, <1>6, <1>7
       DEF Moves, Continue, BeginLogin, BeginLink

LEMMA AskedStep ==
  ASSUME Inv, Asked, [Next]_vars PROVE Asked'
  <1>. SUFFICES ASSUME NEW c \in Tab, call'[c].step \in {"sign", "signed"}
                PROVE  AskedOf(c)'
    BY DEF Asked, AskedOf
  <1>0. TypeOK
    BY DEF Inv
  <1>1. ASSUME NEW path \in {"/login", "/dashboard/wallets"}, NEW u \in User,
               NEW n \in Nonce, RequestChallenge(c, path, u, n)
        PROVE  AskedOf(c)'
    <2>1. now \in Nat
      BY <1>0 DEF TypeOK, Time
    <2>2. /\ call'[c].user = u /\ call'[c].nonce = n
          /\ call'[c].tx = BuildChallenge(u, ServerKey(boot), now)
          /\ pending'[n] = now + ChallengeSeconds * Second
          /\ boot' = boot
      BY <1>0, <1>1 DEF RequestChallenge, Answer, TypeOK
    <2>3. Seconds(pending'[n]) = Seconds(now) + ChallengeSeconds
      BY <2>1, <2>2, WholeWindow
    <2>. QED
      BY <2>2, <2>3 DEF AskedOf, BuildChallenge, ServerKey, Seconds
  <1>2. CASE /\ call[c].step \in {"sign", "signed"}
             /\ call'[c].tx = call[c].tx
             /\ call'[c].user = call[c].user
             /\ call'[c].nonce = call[c].nonce
    <2>1. PICK n \in Nonce : n = call[c].nonce
      BY <1>0, <1>2, CallKinds DEF FormState
    <2>2. n \in used
      BY <1>2, <2>1 DEF Inv, Carriers, Carries
    <2>3. \/ pending'[n] = pending[n] /\ boot' = boot
          \/ pending'[n] = None
      BY <2>2, PendingStep
    <2>. QED
      BY <1>2, <2>1, <2>3 DEF Asked, AskedOf, ServerKey, Seconds
  <1>. QED
    BY <1>1, <1>2, FormStep

\* A challenge is good for exactly the time it is remembered: for all lengths
\* of ticks and challenges, with or without a configured key.
THEOREM WindowsAreWhole == Spec => WindowIsWhole
  <1>1. ASSUME Inv, Asked, [Next]_vars, NEW c \in Tab, At(c, "signed"),
               call[c].path = "/login", call'[c] # call[c], failures' = failures
        PROVE  (call'[c].step = "enter") =
                 (/\ pending[call[c].nonce] # None
                  /\ call[c].signer = call[c].tx.client
                  /\ now <= pending[call[c].nonce])
    <2>0. TypeOK /\ failures \in Nat
      BY <1>1 DEF Inv, TypeOK
    <2>1. CompleteLogin(c)
      <3>1. ~Restart /\ ~Fail(c)
        BY <1>1, <2>0 DEF Restart, Fail
      <3>2. Moves(c)
        BY <1>1, <3>1, OneMoves
      <3>3. ASSUME NEW u, NEW n, NEW o, NEW path
            PROVE  /\ ~BeginLogin(c, u, n) /\ ~BeginLink(c, u, n)
                   /\ ~Sign(c, u) /\ ~Act(c, o, u) /\ ~Visit(c, path)
        BY <1>1 DEF BeginLogin, BeginLink, Shows, Sign, Visit, Act, Free, At
      <3>4. Continue(c) => CompleteLogin(c)
        BY <1>1 DEF Continue, CompleteLink, Enter, IssueTokens, LoggedIn,
           LinkWallet, GoHome, Read, Do, Logout, LoggedOut, At
      <3>. QED
        BY <3>1, <3>2, <3>3, <3>4 DEF Moves
    <2>. DEFINE n == call[c].nonce
    <2>2. /\ call[c] \in FormState /\ n \in Nonce
          /\ now \in Nat
          /\ pending[n] \in Nat \cup {None}
      BY <1>1, <2>0, CallKinds DEF FormState, TypeOK, Time, At
    <2>3. /\ call[c].tx.client = call[c].user
          /\ pending[n] # None =>
               /\ call[c].tx.source = ServerKey(boot)
               /\ call[c].tx.maxTime = Seconds(pending[n])
      BY <1>1 DEF Asked, AskedOf, At
    <2>4. pending[n] # None /\ now <= pending[n] =>
            Seconds(now) <= Seconds(pending[n])
      BY <2>2, SecondsGrow
    <2>5. PICK good \in BOOLEAN :
            /\ Redeem(c, good)
            /\ (call'[c].step = "enter") = good
      BY <2>0, <2>1 DEF CompleteLogin, Answer, Login, TypeOK
    <2>. HIDE DEF n
    <2>6. good = (/\ VerifyChallenge(call[c].tx, call[c].signer, call[c].user,
                                     ServerKey(boot), now)
                  /\ ~(pending[n] = None \/ pending[n] < now))
      BY <2>2, <2>5, NoneAssumption DEF Redeem, n
    <2>7. pending[n] # None => (~(pending[n] < now) <=> now <= pending[n])
      BY <2>2
    <2>. QED
      BY <2>3, <2>4, <2>5, <2>6, <2>7 DEF VerifyChallenge, n
  <1>2. Init => Asked
    BY DEF Init, Asked, AskedOf, Login
  <1>3. Inv /\ Asked /\ [Next]_vars =>
          [\A c \in Tab :
             /\ At(c, "signed")
             /\ call[c].path = "/login"
             /\ call'[c] # call[c]
             /\ failures' = failures
             => LET n == call[c].nonce
                IN (call'[c].step = "enter") =
                     (/\ pending[n] # None
                      /\ call[c].signer = call[c].tx.client
                      /\ now <= pending[n])]_vars
    BY <1>1
  <1>. QED
    BY <1>2, <1>3, AskedStep, Invariance, PTL DEF Spec, WindowIsWhole
----------------------------------------------------------------------------
(* The entrance.                                                           *)

\* A challenge that a call has, has no session yet.
Fresh ==
  \A n \in Nonce : session[n] # None =>
    n \in used /\ \A c \in Tab : Carries(c) => call[c].nonce # n

LEMMA FreshStep ==
  ASSUME Inv, Fresh, [Next]_vars PROVE Fresh'
  <1>0. TypeOK /\ Carriers
    BY DEF Inv
  <1>1. ASSUME NEW c \in Tab, IssueTokens(c) PROVE Fresh'
    <2>1. /\ Carries(c) /\ call[c].nonce \in used
          /\ used' = used
          /\ \A n \in Nonce : session'[n] # None => session[n] # None \/ n = call[c].nonce
          /\ ~Carries(c)'
          /\ \A d \in Tab \ {c} : call'[d] = call[d]
      BY <1>0, <1>1 DEF IssueTokens, Answer, At, Carries, Carriers, TypeOK
    <2>2. \A d \in Tab \ {c} : Carries(d) => call[d].nonce # call[c].nonce
      BY <1>0, <2>1 DEF Carriers
    <2>. QED
      BY <2>1, <2>2 DEF Fresh, Carries
  <1>2. ASSUME NEW c \in Tab, NEW path \in {"/login", "/dashboard/wallets"},
               NEW u \in User, NEW n \in Nonce, RequestChallenge(c, path, u, n)
        PROVE  Fresh'
    <2>1. /\ \A d \in Tab \ {c} : call'[d] = call[d]
          /\ call'[c].nonce = n
          /\ used' = used \cup {n} /\ n \notin used
          /\ session' = session
      BY <1>0, <1>2 DEF RequestChallenge, Answer, TypeOK
    <2>. QED
      BY <2>1 DEF Fresh, Carries
  <1>3. (\E c \in Tab : IssueTokens(c)) \/ session' = session
    <2>1. ASSUME NEW c \in Tab, CompleteLogin(c) \/ LinkWallet(c) PROVE session' = session
      BY <2>1 DEF CompleteLogin, LinkWallet, Redeem, api
    <2>2. ASSUME NEW c \in Tab, Continue(c), ~IssueTokens(c) PROVE session' = session
      BY <2>1, <2>2 DEF Continue, Enter, LoggedIn, CompleteLink, GoHome, Read, Do,
         Logout, LoggedOut, api
    <2>3. ASSUME NEW c \in Tab, NEW path, NEW o, NEW u,
                 Visit(c, path) \/ Act(c, o, u) \/ Fail(c) \/ Sign(c, u)
          PROVE  session' = session
      BY <2>3 DEF Visit, Act, Fail, Sign, api
    <2>4. ASSUME NEW c \in Tab, NEW u, NEW n, BeginLogin(c, u, n) \/ BeginLink(c, u, n)
          PROVE  session' = session
      BY <2>4 DEF BeginLogin, BeginLink, RequestChallenge
    <2>5. CASE Tick \/ Restart \/ UNCHANGED vars
      BY <2>5 DEF Tick, Restart, api, vars
    <2>. QED
      BY <2>2, <2>3, <2>4, <2>5 DEF Next
  <1>4. CASE Quiet /\ session' = session
    BY <1>4 DEF Quiet, Fresh
  <1>. QED
    BY <1>1, <1>2, <1>3, <1>4, StepKinds

\* What is under way, element by element.
LEMMA Underway ==
  /\ \A e : e \in Named(Asks) <=>
       \E c \in Tab : /\ call[c].step \in {"sign", "signed", "link"}
                      /\ e = <<call[c].nonce, call[c].tx.client>>
  /\ \A e : e \in Named(Signs) <=>
       \E c \in Tab : /\ call[c].step \in {"signed", "link"}
                      /\ call[c].signer = call[c].tx.client
                      /\ e = <<call[c].nonce, call[c].tx.client>>
  /\ \A e : e \in Held({"enter"}) <=>
       \E c \in Tab : At(c, "enter") /\ e = <<call[c].nonce, call[c].user>>
  /\ \A e : e \in Held({"issue"}) <=>
       \E c \in Tab : At(c, "issue") /\ e = <<call[c].nonce, call[c].user>>
  BY DEF Named, Asks, Signs, Held, In, At

LEMMA UnderwayNext ==
  /\ \A e : e \in Named(Asks)' <=>
       \E c \in Tab : /\ call'[c].step \in {"sign", "signed", "link"}
                      /\ e = <<call'[c].nonce, call'[c].tx.client>>
  /\ \A e : e \in Named(Signs)' <=>
       \E c \in Tab : /\ call'[c].step \in {"signed", "link"}
                      /\ call'[c].signer = call'[c].tx.client
                      /\ e = <<call'[c].nonce, call'[c].tx.client>>
  /\ \A e : e \in Held({"enter"})' <=>
       \E c \in Tab : At(c, "enter")' /\ e = <<call'[c].nonce, call'[c].user>>
  /\ \A e : e \in Held({"issue"})' <=>
       \E c \in Tab : At(c, "issue")' /\ e = <<call'[c].nonce, call'[c].user>>
  BY DEF Named, Asks, Signs, Held, In, At

\* Calls that stay, end, or go on with the link they were signed for.
Passes(c) == /\ call[c].step = "signed" /\ call'[c].step = "link"
             /\ call'[c].nonce = call[c].nonce /\ call'[c].tx = call[c].tx
             /\ call'[c].signer = call[c].signer

LEMMA LessUnderway ==
  ASSUME \A c \in Tab : call'[c] = call[c] \/ ~Carries(c)' \/ Passes(c)
  PROVE  /\ Named(Asks)' \subseteq Named(Asks)
         /\ Named(Signs)' \subseteq Named(Signs)
         /\ Held({"enter"})' \subseteq Held({"enter"})
         /\ Held({"issue"})' \subseteq Held({"issue"})
  <1>1. ASSUME NEW e, e \in Named(Asks)' PROVE e \in Named(Asks)
    BY <1>1, Underway, UnderwayNext DEF Carries, Passes
  <1>2. ASSUME NEW e, e \in Named(Signs)' PROVE e \in Named(Signs)
    BY <1>2, Underway, UnderwayNext DEF Carries, Passes
  <1>3. ASSUME NEW e, e \in Held({"enter"})' PROVE e \in Held({"enter"})
    BY <1>3, Underway, UnderwayNext DEF Carries, Passes, At
  <1>4. ASSUME NEW e, e \in Held({"issue"})' PROVE e \in Held({"issue"})
    BY <1>4, Underway, UnderwayNext DEF Carries, Passes, At
  <1>. QED
    BY <1>1, <1>2, <1>3, <1>4

LEMMA SameUnderway ==
  ASSUME \A c \in Tab : call'[c] = call[c] \/ (~Carries(c) /\ ~Carries(c)')
  PROVE  /\ Named(Asks)' = Named(Asks)
         /\ Named(Signs)' = Named(Signs)
         /\ Held({"enter"})' = Held({"enter"})
         /\ Held({"issue"})' = Held({"issue"})
  <1>1. ASSUME NEW e
        PROVE  /\ e \in Named(Asks) => e \in Named(Asks)'
               /\ e \in Named(Signs) => e \in Named(Signs)'
               /\ e \in Held({"enter"}) => e \in Held({"enter"})'
               /\ e \in Held({"issue"}) => e \in Held({"issue"})'
    BY Underway, UnderwayNext DEF Carries, At
  <1>. QED
    BY <1>1, LessUnderway
Seen == <<used, Named(Asks), Named(Signs), Redeemable, Held({"enter"}), Held({"issue"}),
          Given, Own, suspended>>

LEMMA GateMake ==
  ASSUME Inv, Fresh, NEW c \in Tab, NEW path, NEW u \in User, NEW n \in Nonce,
         RequestChallenge(c, path, u, n), ~Carries(c)
  PROVE  Gate!Next
  <1>0. TypeOK /\ Carriers
    BY DEF Inv
  <1>1. /\ n \notin used /\ used' = used \cup {n}
        /\ pending' = [pending EXCEPT ![n] = now + ChallengeSeconds * Second]
        /\ UNCHANGED <<now, session, suspended>>
    BY DEF RequestChallenge
  <1>2. /\ call'[c] = [step |-> "sign", path |-> path, user |-> u, nonce |-> n,
                       tx |-> BuildChallenge(u, ServerKey(boot), now), signer |-> None]
        /\ \A d \in Tab \ {c} : call'[d] = call[d]
    BY <1>0 DEF RequestChallenge, Answer, TypeOK
  <1>3. call'[c].step = "sign" /\ call'[c].nonce = n /\ call'[c].tx.client = u
    BY <1>2 DEF BuildChallenge
  <1>4. /\ \A e : e \in Named(Asks)' <=> e \in Named(Asks) \cup {<<n, u>>}
        /\ \A e : e \in Named(Signs)' <=> e \in Named(Signs)
        /\ \A e : e \in Held({"enter"})' <=> e \in Held({"enter"})
        /\ \A e : e \in Held({"issue"})' <=> e \in Held({"issue"})
    <2>1. ASSUME NEW e
          PROVE  /\ e \in Named(Asks)' <=> e \in Named(Asks) \cup {<<n, u>>}
                 /\ e \in Named(Signs)' <=> e \in Named(Signs)
      BY <1>2, <1>3, Underway, UnderwayNext DEF Carries
    <2>2. ASSUME NEW e
          PROVE  /\ e \in Held({"enter"})' <=> e \in Held({"enter"})
                 /\ e \in Held({"issue"})' <=> e \in Held({"issue"})
      BY <1>2, <1>3, Underway, UnderwayNext DEF Carries, At
    <2>. QED
      BY <2>1, <2>2
  <1>5. Redeemable' = Redeemable \cup {n}
    <2>1. now + ChallengeSeconds * Second \in Nat /\ now <= now + ChallengeSeconds * Second
      <3>1. now \in Nat /\ ChallengeSeconds * Second \in Nat
        BY <1>0, SecondAssumption, ChallengeAssumption DEF TypeOK, Time
      <3>. QED
        BY <3>1
    <2>2. PICK t \in Nat : t = now + ChallengeSeconds * Second
      BY <2>1
    <2>3. pending'[n] = t /\ t # None /\ \A m \in Nonce \ {n} : pending'[m] = pending[m]
      BY <1>0, <1>1, <2>2, NoneAssumption DEF TypeOK
    <2>. QED
      BY <1>1, <2>1, <2>2, <2>3 DEF Redeemable
  <1>6. Given' = Given /\ Own' = Own
    BY <1>1 DEF Given, Own
  <1>7. Gate!Make(n, u)
    BY <1>1, <1>4, <1>5, <1>6 DEF Gate!Make
  <1>. QED
    BY <1>7 DEF Gate!Next

LEMMA GateSign ==
  ASSUME Inv, NEW c \in Tab, NEW u \in User, Sign(c, u)
  PROVE  Gate!Next \/ UNCHANGED Seen
  <1>0. TypeOK
    BY DEF Inv
  <1>1. /\ call[c] \in FormState /\ call[c].step = "sign"
        /\ call'[c] = [call[c] EXCEPT !.step = "signed", !.signer = u]
        /\ \A d \in Tab \ {c} : call'[d] = call[d]
        /\ UNCHANGED <<now, api>>
    BY <1>0, CallKinds DEF Sign, At, TypeOK
  <1>2. PICK n \in Nonce, v \in User : n = call[c].nonce /\ v = call[c].tx.client
    BY <1>1 DEF FormState, Transaction
  <1>3. /\ call'[c].step = "signed" /\ call'[c].nonce = n /\ call'[c].tx.client = v
        /\ call'[c].signer = u
        /\ call[c].step = "sign" /\ call[c].nonce = n /\ call[c].tx.client = v
    BY <1>1, <1>2 DEF FormState
  <1>4. \A d \in Tab \ {c} : call'[d] = call[d]
    BY <1>1
  <1>5. \A e : e \in Named(Asks)' <=> e \in Named(Asks)
    BY <1>3, <1>4, Underway, UnderwayNext
  <1>6. /\ \A e : e \in Held({"enter"})' <=> e \in Held({"enter"})
        /\ \A e : e \in Held({"issue"})' <=> e \in Held({"issue"})
    BY <1>3, <1>4, Underway, UnderwayNext DEF At
  <1>7. UNCHANGED <<used, Redeemable, Given, Own, suspended>>
    BY <1>1 DEF api, Redeemable, Given, Own
  <1>8. CASE u = v
    <2>1. \A e : e \in Named(Signs)' <=> e \in Named(Signs) \cup {<<n, v>>}
      BY <1>3, <1>8, <1>4, Underway, UnderwayNext
    <2>2. <<n, v>> \in Named(Asks)
      BY <1>3, Underway
    <2>3. Gate!Sign(n, v)
      BY <1>5, <1>6, <1>7, <2>1, <2>2 DEF Gate!Sign
    <2>. QED
      BY <2>3 DEF Gate!Next
  <1>9. CASE u # v
    <2>1. \A e : e \in Named(Signs)' <=> e \in Named(Signs)
      BY <1>3, <1>9, <1>4, Underway, UnderwayNext
    <2>. QED
      BY <1>5, <1>6, <1>7, <2>1 DEF Seen
  <1>. QED
    BY <1>8, <1>9

\* What redeeming does to the challenges.
LEMMA RedeemStep ==
  ASSUME Inv, NEW c \in Tab, call[c].nonce \in Nonce, NEW ok \in BOOLEAN, Redeem(c, ok),
         now' = now
  PROVE  /\ Redeemable' \subseteq Redeemable
         /\ ok => /\ call[c].nonce \in Redeemable
                  /\ Redeemable' = Redeemable \ {call[c].nonce}
                  /\ call[c].tx.client = call[c].user
                  /\ call[c].signer = call[c].user
         /\ UNCHANGED <<used, Given, suspended>>
  <1>. DEFINE n == call[c].nonce
              valid == VerifyChallenge(call[c].tx, call[c].signer, call[c].user,
                                       ServerKey(boot), now)
              left == [m \in Nonce |-> IF pending[m] = None \/ pending[m] < now
                                       THEN None ELSE pending[m]]
  <1>0. TypeOK /\ now \in Nat
    BY DEF Inv, TypeOK, Time
  <1>1. /\ ok = (valid /\ left[n] # None)
        /\ pending' = IF valid THEN [left EXCEPT ![n] = None] ELSE pending
        /\ UNCHANGED <<boot, used, session, suspended>>
    BY DEF Redeem
  <1>2. \A m \in Nonce : left[m] = IF m \in Redeemable THEN pending[m] ELSE None
    <2>1. \A m \in Nonce : pending[m] # None => (~(pending[m] < now) <=> now <= pending[m])
      BY <1>0 DEF TypeOK
    <2>. QED
      BY <2>1 DEF Redeemable
  <1>3. \A m \in Redeemable : pending[m] # None
    BY DEF Redeemable
  <1>4. CASE valid
    <2>1. pending'[n] = None /\ \A m \in Nonce \ {n} : pending'[m] = left[m]
      BY <1>1, <1>4
    <2>2. \A m \in Nonce : m \in Redeemable' <=> m \in Redeemable \ {n}
      <3>1. \A m \in Nonce : m \in Redeemable' <=> pending'[m] # None /\ now <= pending'[m]
        BY DEF Redeemable
      <3>2. \A m \in Redeemable : now <= pending[m]
        BY DEF Redeemable
      <3>. HIDE DEF left, n
      <3>. QED
        BY <1>2, <1>3, <2>1, <3>1, <3>2
    <2>3. ok => n \in Redeemable
      BY <1>1, <1>2, <1>4
    <2>4. call[c].tx.client = call[c].user /\ call[c].signer = call[c].user
      BY <1>4 DEF VerifyChallenge
    <2>5. Redeemable' = Redeemable \ {n}
      BY <2>2 DEF Redeemable
    <2>. QED
      BY <1>1, <2>3, <2>4, <2>5 DEF Given
  <1>5. CASE ~valid
    BY <1>1, <1>5 DEF Redeemable, Given
  <1>. QED
    BY <1>4, <1>5
\* A login that arrives: the challenge is redeemed, or the login refused.
LEMMA GateComplete ==
  ASSUME Inv, NEW c \in Tab, CompleteLogin(c) PROVE Gate!Next
  <1>0. TypeOK
    BY DEF Inv
  <1>1. call[c] \in FormState /\ call[c].step = "signed"
    BY <1>0, CallKinds DEF CompleteLogin, At
  <1>2. PICK n \in Nonce, u \in User : n = call[c].nonce /\ u = call[c].user
    BY <1>1 DEF FormState
  <1>3. PICK ok \in BOOLEAN :
          /\ Redeem(c, ok)
          /\ call'[c] = IF ok THEN [step |-> "enter", user |-> u, nonce |-> n] ELSE Login
          /\ now' = now
          /\ \A d \in Tab \ {c} : call'[d] = call[d]
    BY <1>0, <1>2 DEF CompleteLogin, Answer, TypeOK
  <1>4. /\ Redeemable' \subseteq Redeemable
        /\ ok => /\ n \in Redeemable /\ Redeemable' = Redeemable \ {n}
                 /\ call[c].tx.client = u /\ call[c].signer = u
        /\ UNCHANGED <<used, Given, suspended>>
    BY <1>2, <1>3, RedeemStep
  <1>5. Own' = Own
    BY DEF Own
  <1>6. CASE ok
    <2>1. /\ call'[c].step = "enter" /\ call'[c].nonce = n /\ call'[c].user = u
          /\ call[c].step = "signed" /\ call[c].nonce = n
          /\ call[c].tx.client = u /\ call[c].signer = u
      BY <1>1, <1>2, <1>3, <1>4, <1>6
    <2>2. \A d \in Tab \ {c} : call'[d] = call[d]
      BY <1>3
    <2>3. ASSUME NEW e
          PROVE  /\ e \in Named(Asks)' => e \in Named(Asks)
                 /\ e \in Named(Signs)' => e \in Named(Signs)
      BY <2>1, <2>2, Underway, UnderwayNext
    <2>4. ASSUME NEW e
          PROVE  /\ e \in Held({"enter"})' <=> e \in Held({"enter"}) \cup {<<n, u>>}
                 /\ e \in Held({"issue"})' <=> e \in Held({"issue"})
      BY <2>1, <2>2, Underway, UnderwayNext DEF At
    <2>5. <<n, u>> \in Named(Signs)
      BY <2>1, Underway
    <2>6. Gate!Redeem(n, u)
      BY <1>4, <1>5, <1>6, <2>3, <2>4, <2>5 DEF Gate!Redeem
    <2>. QED
      BY <2>6 DEF Gate!Next
  <1>7. CASE ~ok
    <2>1. ~Carries(c)'
      BY <1>3, <1>7 DEF Login, Carries
    <2>2. Gate!Lose
      BY <1>3, <1>4, <1>5, <2>1, LessUnderway DEF Gate!Lose
    <2>. QED
      BY <2>2 DEF Gate!Next
  <1>. QED
    BY <1>6, <1>7

\* The look at the account.
LEMMA GateEnter ==
  ASSUME Inv, NEW c \in Tab, Enter(c) PROVE Gate!Next
  <1>0. TypeOK /\ Carriers
    BY DEF Inv
  <1>1. PICK n \in Nonce, u \in User : n = call[c].nonce /\ u = call[c].user
    BY <1>0, CallKinds DEF Enter
  <1>2. /\ call[c].step = "enter"
        /\ call'[c] = IF u \in suspended THEN Login
                      ELSE [step |-> "issue", user |-> u, nonce |-> n, active |-> TRUE]
        /\ \A d \in Tab \ {c} : call'[d] = call[d]
    BY <1>0, <1>1 DEF Enter, Answer, At, TypeOK
  <1>3. UNCHANGED <<used, Redeemable, Given, Own, suspended>>
    BY DEF Enter, api, Redeemable, Given, Own
  <1>4. CASE u \in suspended
    <2>1. ~Carries(c)'
      BY <1>2, <1>4 DEF Login, Carries
    <2>2. Gate!Lose
      BY <1>2, <1>3, <2>1, LessUnderway DEF Gate!Lose
    <2>. QED
      BY <2>2 DEF Gate!Next
  <1>5. CASE u \notin suspended
    <2>1. /\ call'[c].step = "issue" /\ call'[c].nonce = n /\ call'[c].user = u
          /\ call[c].step = "enter" /\ call[c].nonce = n /\ call[c].user = u
      BY <1>1, <1>2, <1>5
    <2>2. \A d \in Tab \ {c} : /\ call'[d] = call[d]
                               /\ At(d, "enter") => call[d].nonce # n
      BY <1>0, <1>2, <2>1 DEF Carriers, Carries, At
    <2>3. ASSUME NEW e
          PROVE  /\ e \in Named(Asks)' <=> e \in Named(Asks)
                 /\ e \in Named(Signs)' <=> e \in Named(Signs)
      BY <2>1, <2>2, Underway, UnderwayNext
    <2>4. ASSUME NEW e
          PROVE  /\ e \in Held({"enter"})' <=> e \in Held({"enter"}) \ {<<n, u>>}
                 /\ e \in Held({"issue"})' <=> e \in Held({"issue"}) \cup {<<n, u>>}
      BY <2>1, <2>2, Underway, UnderwayNext DEF At
    <2>5. <<n, u>> \in Held({"enter"}) /\ <<u, u>> \in Own
      BY <2>1, Underway DEF Own, At
    <2>6. Gate!Admit(n, u, u)
      BY <1>3, <1>5, <2>3, <2>4, <2>5 DEF Gate!Admit
    <2>. QED
      BY <2>6 DEF Gate!Next
  <1>. QED
    BY <1>4, <1>5

LEMMA GateIssue ==
  ASSUME Inv, Fresh, NEW c \in Tab, IssueTokens(c) PROVE Gate!Next
  <1>0. TypeOK /\ Carriers /\ CallInv(c)
    BY DEF Inv
  <1>1. PICK n \in Nonce, u \in User : n = call[c].nonce /\ u = call[c].user
    BY <1>0, CallKinds DEF IssueTokens
  <1>2. /\ call[c].step = "issue"
        /\ call'[c] = [step |-> "answer", nonce |-> n]
        /\ session' = [session EXCEPT ![n] = [user |-> u, active |-> call[c].active,
                                              made |-> now]]
        /\ \A d \in Tab \ {c} : call'[d] = call[d]
        /\ UNCHANGED <<now, used, pending, suspended>>
    BY <1>0, <1>1 DEF IssueTokens, Answer, At, TypeOK
  <1>3. UNCHANGED <<used, Redeemable, Own, suspended>>
    BY <1>2 DEF Redeemable, Own
  <1>4. /\ call'[c].step = "answer"
        /\ call[c].step = "issue" /\ call[c].nonce = n /\ call[c].user = u
    BY <1>1, <1>2
  <1>5. \A d \in Tab \ {c} : /\ call'[d] = call[d]
                             /\ At(d, "issue") => call[d].nonce # n
    BY <1>0, <1>2, <1>4 DEF Carriers, Carries, At
  <1>6. ASSUME NEW e
        PROVE  /\ e \in Named(Asks)' <=> e \in Named(Asks)
               /\ e \in Named(Signs)' <=> e \in Named(Signs)
    BY <1>4, <1>5, Underway, UnderwayNext
  <1>7. ASSUME NEW e
        PROVE  /\ e \in Held({"enter"})' <=> e \in Held({"enter"})
               /\ e \in Held({"issue"})' <=> e \in Held({"issue"}) \ {<<n, u>>}
    BY <1>4, <1>5, Underway, UnderwayNext DEF At
  <1>8. <<n, u>> \in Held({"issue"})
    BY <1>4, Underway DEF At
  <1>9. session[n] = None
    BY <1>4 DEF Fresh, Carries
  <1>10. /\ \A e : e \in Given' <=> e \in Given \cup {<<n, u>>}
         /\ \A v \in User : <<n, v>> \notin Given
    <2>1. /\ \A e : e \in Given <=> \E m \in Nonce : /\ session[m] # None
                                                     /\ e = <<m, session[m].user>>
          /\ \A e : e \in Given' <=> \E m \in Nonce : /\ session'[m] # None
                                                      /\ e = <<m, session'[m].user>>
      BY DEF Given
    <2>2. /\ session'[n] # None /\ session'[n].user = u
          /\ \A m \in Nonce \ {n} : session'[m] = session[m]
      <3>1. [user |-> u, active |-> call[c].active, made |-> now] \in SessionRow
        BY <1>0, <1>4, CallKinds DEF SessionRow, TypeOK, At
      <3>2. /\ session'[n] = [user |-> u, active |-> call[c].active, made |-> now]
            /\ \A m \in Nonce \ {n} : session'[m] = session[m]
        BY <1>0, <1>2 DEF TypeOK
      <3>3. session'[n] # None
        BY <3>1, <3>2, NoneAssumption
      <3>. QED
        BY <3>2, <3>3
    <2>. QED
      BY <1>9, <2>1, <2>2
  <1>11. Gate!Open(n, u)
    BY <1>3, <1>6, <1>7, <1>8, <1>10 DEF Gate!Open
  <1>. QED
    BY <1>11 DEF Gate!Next
\* The account page's action on an account.
LEMMA GateDo ==
  ASSUME Inv, NEW c \in Tab, Do(c) PROVE Gate!Next \/ UNCHANGED Seen
  <1>0. TypeOK /\ CallInv(c)
    BY DEF Inv
  <1>1. /\ call[c].step = "do" /\ call'[c].step \in {"error", "page"}
        /\ \A d \in Tab \ {c} : call'[d] = call[d]
    BY <1>0 DEF Do, Answer, Reading, At, TypeOK
  <1>2. ~Carries(c) /\ ~Carries(c)'
    BY <1>1 DEF Carries
  <1>3. UNCHANGED <<Named(Asks), Named(Signs), Held({"enter"}), Held({"issue"})>>
    BY <1>1, <1>2, SameUnderway
  <1>4. UNCHANGED <<used, Redeemable, Given, Own>>
    BY DEF Do, Redeemable, Given, Own
  <1>5. \/ suspended' = suspended
        \/ \E u \in User : suspended' \in {suspended \cup {u}, suspended \ {u}}
    <2>1. CASE call[c].action \in {"suspendUser", "reactivateUser"}
      <3>1. PICK u \in User : u = call[c].user
        BY <1>0, <1>1, <2>1 DEF CallInv, At
      <3>. QED
        BY <3>1 DEF Do, Perform
    <2>2. CASE call[c].action \notin {"suspendUser", "reactivateUser"}
      BY <2>2 DEF Do, Perform
    <2>. QED
      BY <2>1, <2>2
  <1>6. ASSUME NEW u \in User, suspended' \in {suspended \cup {u}, suspended \ {u}}
        PROVE  Gate!Next
    <2>1. Gate!Bar(u)
      BY <1>3, <1>4, <1>6 DEF Gate!Bar, Gate!underway
    <2>. QED
      BY <2>1 DEF Gate!Next
  <1>. QED
    BY <1>3, <1>4, <1>5, <1>6 DEF Seen

\* Steps of one tab that lose what it has, if it has anything.
LEMMA GateLose ==
  ASSUME Inv, NEW c \in Tab,
         \/ CompleteLink(c) \/ LinkWallet(c) \/ Fail(c)
         \/ LoggedIn(c) \/ GoHome(c) \/ Read(c) \/ Logout(c) \/ LoggedOut(c)
         \/ \E path \in Visited : Visit(c, path)
         \/ \E p \in Pages, u \in User \cup {None} : \E o \in p.offers : Act(c, o, u)
  PROVE  Gate!Next
  <1>0. TypeOK
    BY DEF Inv
  <1>1. ~Carries(c)' \/ Passes(c)
    <2>1. CASE CompleteLink(c)
      <3>1. /\ call[c].step = "signed"
            /\ \/ call'[c].step \notin {"sign", "signed", "link", "enter", "issue"}
               \/ call'[c] = [step |-> "link", user |-> call[c].user,
                              nonce |-> call[c].nonce, tx |-> call[c].tx,
                              signer |-> call[c].signer, token |-> Get("access")]
        BY <1>0, <2>1 DEF CompleteLink, Pass, Answer, Login, At, TypeOK
      <3>. QED
        BY <3>1 DEF Carries, Passes
    <2>2. CASE LinkWallet(c)
      BY <1>0, <2>2 DEF LinkWallet, Answer, Reading, Back, Login, Carries, TypeOK
    <2>3. CASE Fail(c)
      <3>1. AfterFailure(c).step \in {"login", "shown", "error"}
        BY DEF AfterFailure, Back, Login
      <3>. QED
        BY <1>0, <2>3, <3>1 DEF Fail, Answer, Carries, TypeOK
    <2>4. CASE LoggedIn(c) \/ Read(c) \/ LoggedOut(c)
      BY <1>0, <2>4 DEF LoggedIn, Read, LoggedOut, Answer, Login, Carries, TypeOK
    <2>5. CASE \/ GoHome(c) \/ Logout(c)
               \/ \E path \in Visited : Visit(c, path)
      BY <1>0, <2>5 DEF GoHome, Logout, Visit, Pass, Answer, Reading, Login, Carries,
         TypeOK
    <2>6. ASSUME NEW p \in Pages, NEW u \in User \cup {None}, NEW o \in p.offers,
                 Act(c, o, u)
          PROVE  ~Carries(c)'
      BY <1>0, <2>6 DEF Act, Pass, Answer, Login, Carries, TypeOK
    <2>. QED
      BY <2>1, <2>2, <2>3, <2>4, <2>5, <2>6
  <1>2. \A d \in Tab \ {c} : call'[d] = call[d]
    BY <1>0 DEF CompleteLink, LinkWallet, Fail, LoggedIn, GoHome, Read, Logout,
       LoggedOut, Visit, Act, Pass, Answer, TypeOK
  <1>3. Redeemable' \subseteq Redeemable /\ UNCHANGED <<used, Given, suspended>>
    <2>1. CASE LinkWallet(c)
      <3>1. call[c].nonce \in Nonce /\ now' = now
        BY <1>0, <2>1, CallKinds DEF LinkWallet
      <3>2. (\E ok \in BOOLEAN : Redeem(c, ok)) \/ UNCHANGED api
        BY <2>1 DEF LinkWallet
      <3>. QED
        BY <3>1, <3>2, RedeemStep DEF api, Redeemable, Given
    <2>2. CASE ~LinkWallet(c)
      <3>1. UNCHANGED <<now, api>>
        BY <2>2 DEF CompleteLink, Fail, LoggedIn, GoHome, Read, Logout, LoggedOut,
           Visit, Act
      <3>. QED
        BY <3>1 DEF api, Redeemable, Given
    <2>. QED
      BY <2>1, <2>2
  <1>4. Own' = Own
    BY DEF Own
  <1>5. Gate!Lose
    BY <1>1, <1>2, <1>3, <1>4, LessUnderway DEF Gate!Lose
  <1>. QED
    BY <1>5 DEF Gate!Next

LEMMA GateTime ==
  ASSUME Inv, Tick \/ Restart PROVE Gate!Next
  <1>0. TypeOK
    BY DEF Inv
  <1>1. \A c \in Tab : call'[c] = call[c] \/ ~Carries(c)'
    BY <1>0 DEF Tick, Restart, Login, Carries, TypeOK
  <1>2. Redeemable' \subseteq Redeemable
    <2>1. CASE Tick
      <3>1. /\ now \in Nat /\ now' = now + 1 /\ pending' = pending
            /\ \A n \in Nonce : pending[n] # None => pending[n] \in Nat
        BY <1>0, <2>1 DEF Tick, api, TypeOK, Time
      <3>. QED
        BY <3>1 DEF Redeemable
    <2>2. CASE Restart
      BY <2>2 DEF Restart, Redeemable
    <2>. QED
      BY <2>1, <2>2
  <1>3. UNCHANGED <<used, Given, Own, suspended>>
    BY DEF Tick, Restart, api, Given, Own
  <1>4. Gate!Lose
    BY <1>1, <1>2, <1>3, LessUnderway DEF Gate!Lose
  <1>. QED
    BY <1>4 DEF Gate!Next

LEMMA GateStep ==
  ASSUME Inv, Fresh, [Next]_vars PROVE [Gate!Next]_(Gate!vars)
  <1>. SUFFICES Gate!Next \/ UNCHANGED Seen
    BY DEF Seen, Gate!vars, Gate!underway
  <1>1. ASSUME NEW c \in Tab, NEW u \in User, NEW n \in Nonce,
               BeginLogin(c, u, n) \/ BeginLink(c, u, n)
        PROVE  Gate!Next
    <2>1. ~Carries(c)
      BY <1>1 DEF BeginLogin, BeginLink, Shows, At, Carries
    <2>. QED
      BY <1>1, <2>1, GateMake DEF BeginLogin, BeginLink
  <1>2. CASE UNCHANGED vars
    <2>1. UNCHANGED <<Named(Asks), Named(Signs), Held({"enter"}), Held({"issue"})>>
      BY <1>2, SameUnderway DEF vars
    <2>. QED
      BY <1>2, <2>1 DEF vars, Seen, Redeemable, Given, Own
  <1>3. ASSUME NEW c \in Tab, Continue(c) PROVE Gate!Next \/ UNCHANGED Seen
    BY <1>3, GateComplete, GateEnter, GateIssue, GateDo, GateLose DEF Continue
  <1>. QED
    BY <1>1, <1>2, <1>3, GateSign, GateLose, GateTime DEF Next

\* A session comes of one challenge, for the account whose address was asked
\* to sign it and did, and which was found active after that: however tabs,
\* wallets, links, suspensions, the clock and restarts interleave.
THEOREM LoginsPassTheGate == Spec => ImplementsEntrance
  <1>1. Init => Fresh /\ Gate!Init
    <2>. SUFFICES ASSUME Init PROVE Fresh /\ Gate!Init
      OBVIOUS
    <2>1. \A c \in Tab : call[c].step = "login"
      BY DEF Init, Login
    <2>2. /\ Named(Asks) = {} /\ Named(Signs) = {}
          /\ Held({"enter"}) = {} /\ Held({"issue"}) = {}
      BY <2>1, Underway DEF At
    <2>3. Redeemable = {} /\ Given = {}
      BY DEF Init, Redeemable, Given
    <2>4. Own \subseteq User \X User /\ \A p, q \in Own : p[1] = q[1] => p = q
      BY DEF Own
    <2>. QED
      BY <2>2, <2>3, <2>4 DEF Init, Fresh, Gate!Init, Gate!underway
  <1>2. Spec => []Fresh
    BY <1>1, FreshStep, Invariance, PTL DEF Spec
  <1>. QED
    BY <1>1, <1>2, GateStep, Invariance, PTL DEF Spec, ImplementsEntrance, Gate!Spec
=============================================================================
