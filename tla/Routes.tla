------------------------------- MODULE Routes -------------------------------
(***************************************************************************)
(* Who may call what, and which page calls it: the routes of the API's     *)
(* controllers with the guard their decorators give them, the server       *)
(* actions of the web application with the route each calls, and the pages *)
(* with the actions they run when they are shown and those they offer.     *)
(*                                                                         *)
(* A guard is "public" (no token), "key" (an anchor's API key), "any" (the *)
(* access token of any account) or "ADMIN".  That an "any" route then asks *)
(* for the caller's own row, or for a membership of the anchor, is the     *)
(* business of the modules of those components.  A route is its method and *)
(* its path.                                                               *)
(***************************************************************************)

Guarded(who, routes) == {[who |-> who, route |-> r] : r \in routes}

----------------------------------------------------------------------------
(* Controllers.                                                            *)

AuthController == Guarded("public",
  {"POST/auth/challenge", "POST/auth/verify", "POST/auth/refresh",
   "POST/auth/logout"})

\* The roles stand on the class.
AdminController == Guarded("ADMIN",
  {"GET/admin/dashboard", "PATCH/admin/users/:id/suspend",
   "PATCH/admin/users/:id/reactivate", "PATCH/admin/anchors/:id/suspend"})

AnchorsController ==
  Guarded("ADMIN", {"GET/anchors/review-queue", "PATCH/anchors/:id/review",
                    "PATCH/anchors/:id/suspend"})
  \cup Guarded("any",
    {"POST/anchors", "GET/anchors/mine", "GET/anchors/:id",
     "GET/anchors/:id/members", "POST/anchors/:id/members",
     "DELETE/anchors/:id/members/:id", "GET/anchors/:id/api-credentials",
     "POST/anchors/:id/api-credentials",
     "DELETE/anchors/:id/api-credentials/:id"})

DocumentsController ==
  Guarded("ADMIN", {"GET/documents/review-queue",
                    "PATCH/documents/:id/review"})
  \cup Guarded("any", {"POST/documents", "GET/documents/me",
                       "GET/documents/:id", "GET/documents/:id/file"})

IdentityProfilesController ==
  Guarded("ADMIN", {"GET/identity-profiles/:id"})
  \cup Guarded("any", {"GET/identity-profiles/me", "POST/identity-profiles/me",
                       "PATCH/identity-profiles/me"})

VerificationsController ==
  Guarded("ADMIN", {"POST/verifications/:id"})
  \cup Guarded("any", {"GET/verifications/me"})

AccessRequestsController ==
  Guarded("key", {"POST/access-requests"})
  \cup Guarded("any",
    {"GET/access-requests/me", "GET/access-requests/anchor/:id",
     "PATCH/access-requests/:id/approve", "PATCH/access-requests/:id/deny"})

CredentialsController ==
  Guarded("key", {"GET/credentials/by-address/:address"})
  \cup Guarded("any", {"GET/credentials/me"})

ConsentsController == Guarded("any", {"GET/consents/me", "DELETE/consents/:id"})

WalletsController == Guarded("any",
  {"GET/wallets/me", "POST/wallets/me", "PATCH/wallets/me/:id/primary",
   "DELETE/wallets/me/:id"})

UsersController ==
  Guarded("ADMIN", {"GET/users", "GET/users/:id"})
  \cup Guarded("any", {"GET/users/me"})

AuditLogsController == Guarded("ADMIN", {"GET/audit-logs"})

Routes ==
  AuthController \cup AdminController \cup AnchorsController
  \cup DocumentsController \cup IdentityProfilesController
  \cup VerificationsController \cup AccessRequestsController
  \cup CredentialsController \cup ConsentsController \cup WalletsController
  \cup UsersController \cup AuditLogsController

----------------------------------------------------------------------------
(* Server actions of the web application: <<action, route>>.               *)

AuthActions ==
  {<<"requestChallenge", "POST/auth/challenge">>,
   <<"completeLogin", "POST/auth/verify">>,
   <<"logoutAction", "POST/auth/logout">>}

AdminActions ==
  {<<"getAdminDashboard", "GET/admin/dashboard">>,
   <<"suspendUser", "PATCH/admin/users/:id/suspend">>,
   <<"reactivateUser", "PATCH/admin/users/:id/reactivate">>,
   <<"listUsers", "GET/users">>,
   <<"listDocumentReviewQueue", "GET/documents/review-queue">>,
   <<"reviewDocument", "PATCH/documents/:id/review">>,
   <<"listAuditLogs", "GET/audit-logs">>}

AnchorActions ==
  {<<"registerAnchor", "POST/anchors">>,
   <<"listMyAnchors", "GET/anchors/mine">>,
   <<"getAnchor", "GET/anchors/:id">>,
   <<"listMembers", "GET/anchors/:id/members">>,
   <<"addMember", "POST/anchors/:id/members">>,
   <<"removeMember", "DELETE/anchors/:id/members/:id">>,
   <<"listApiCredentials", "GET/anchors/:id/api-credentials">>,
   <<"createApiCredential", "POST/anchors/:id/api-credentials">>,
   <<"revokeApiCredential", "DELETE/anchors/:id/api-credentials/:id">>,
   <<"listAccessRequestsForAnchor", "GET/access-requests/anchor/:id">>,
   <<"listAnchorReviewQueue", "GET/anchors/review-queue">>,
   <<"reviewAnchor", "PATCH/anchors/:id/review">>,
   <<"suspendAnchor", "PATCH/anchors/:id/suspend">>}

WalletActions ==
  {<<"listMyWallets", "GET/wallets/me">>,
   <<"linkWallet", "POST/wallets/me">>,
   <<"setPrimaryWallet", "PATCH/wallets/me/:id/primary">>,
   <<"removeWallet", "DELETE/wallets/me/:id">>}

\* saveProfile posts a first profile and patches a later one.
IdentityActions ==
  {<<"getMyProfile", "GET/identity-profiles/me">>,
   <<"saveProfile", "POST/identity-profiles/me">>,
   <<"saveProfile", "PATCH/identity-profiles/me">>}

AccessRequestActions ==
  {<<"listMyAccessRequests", "GET/access-requests/me">>,
   <<"approveAccessRequest", "PATCH/access-requests/:id/approve">>,
   <<"denyAccessRequest", "PATCH/access-requests/:id/deny">>}

ConsentActions == {<<"listMyConsents", "GET/consents/me">>,
                   <<"revokeConsent", "DELETE/consents/:id">>}

DocumentActions == {<<"listMyDocuments", "GET/documents/me">>,
                    <<"uploadDocument", "POST/documents">>}

VerificationActions == {<<"listMyVerifications", "GET/verifications/me">>}

AccountActions == {<<"getMe", "GET/users/me">>}

Actions ==
  AuthActions \cup AdminActions \cup AnchorActions \cup WalletActions
  \cup IdentityActions \cup AccessRequestActions \cup ConsentActions
  \cup DocumentActions \cup VerificationActions \cup AccountActions

\* What the actions as call, and the guards of that.
Targets(as) == {x[2] : x \in {y \in Actions : y[1] \in as}}
Guards(as) == LET targets == Targets(as)
              IN {r.who : r \in {q \in Routes : q.route \in targets}}

----------------------------------------------------------------------------
(* Pages: what each reads when it is rendered, and what it offers: beside  *)
(* which rows of its lists, or "page" for a form that is always there.     *)

Beside(rows, as) == {[row |-> r, action |-> a] : r \in rows, a \in as}

Page(path, section, reads, offers) ==
  [path |-> path, section |-> section, reads |-> reads, offers |-> offers]

DashboardPage == Page("/dashboard", "dashboard",
  {"getMe", "getMyProfile", "listMyVerifications"}, {})

IdentityPage == Page("/dashboard/identity", "dashboard",
  {"getMyProfile"}, Beside({"page"}, {"saveProfile"}))

DocumentUploadForm == Beside({"page"}, {"uploadDocument"})
DocumentsPage == Page("/dashboard/documents", "dashboard",
  {"listMyDocuments"}, DocumentUploadForm)

\* The form that links a wallet is a flow of its own in WebSession.
WalletList == Beside({"secondary"}, {"setPrimaryWallet", "removeWallet"})
WalletsPage == Page("/dashboard/wallets", "dashboard",
  {"listMyWallets"}, WalletList)

AccessRequestList ==
  Beside({"PENDING"}, {"approveAccessRequest", "denyAccessRequest"})
AccessRequestsPage == Page("/dashboard/access-requests", "dashboard",
  {"listMyAccessRequests"}, AccessRequestList)

ConsentList == Beside({"ACTIVE"}, {"revokeConsent"})
ConsentsPage == Page("/dashboard/consents", "dashboard",
  {"listMyConsents"}, ConsentList)

MyAnchorsPage == Page("/anchor", "anchor", {"listMyAnchors"}, {})

RegisterPage == Page("/anchor/register", "anchor",
  {}, Beside({"page"}, {"registerAnchor"}))

AnchorPage == Page("/anchor/:id", "anchor",
  {"getAnchor", "listMembers", "listApiCredentials",
   "listAccessRequestsForAnchor"},
  Beside({"page"}, {"addMember", "createApiCredential"})
  \cup Beside({"member"}, {"removeMember"})
  \cup Beside({"ACTIVE"}, {"revokeApiCredential"}))

AdminPage == Page("/admin", "admin", {"getAdminDashboard"}, {})

AnchorReviewPage == Page("/admin/anchors", "admin",
  {"listAnchorReviewQueue"},
  Beside({"PENDING"}, {"reviewAnchor"})
  \cup Beside({"APPROVED"}, {"suspendAnchor"}))

DocumentReviewList == Beside({"PENDING", "IN_REVIEW"}, {"reviewDocument"})
DocumentReviewPage == Page("/admin/documents", "admin",
  {"listDocumentReviewQueue"}, DocumentReviewList)

UserList == Beside({"ACTIVE"}, {"suspendUser"})
            \cup Beside({"SUSPENDED", "DEACTIVATED"}, {"reactivateUser"})
UsersPage == Page("/admin/users", "admin", {"listUsers"}, UserList)

AuditLogPage == Page("/admin/audit-logs", "admin", {"listAuditLogs"}, {})

\* The links of the three layouts; each also has the form of logoutAction.
DashboardLinks == {DashboardPage, IdentityPage, DocumentsPage, WalletsPage,
                   AccessRequestsPage, ConsentsPage, MyAnchorsPage}
AnchorLinks == {MyAnchorsPage, RegisterPage, DashboardPage}
AdminLinks == {AdminPage, AnchorReviewPage, DocumentReviewPage, UsersPage,
               AuditLogPage, DashboardPage}

Pages == DashboardLinks \cup AnchorLinks \cup AdminLinks \cup {AnchorPage}

\* What a page calls when it is shown and used.
Runs(p) == p.reads \cup {o.action : o \in p.offers} \cup {"logoutAction"}
=============================================================================
