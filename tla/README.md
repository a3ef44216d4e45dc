# AnchorID in TLA+

AnchorID lets a user verify an identity once and share parts of it, by consent,
with anchor organizations on Stellar. This directory holds TLA+ models of its
API and of the web application in front of it, the TLC configurations that check
them, and proofs for TLAPS. Paths below are relative to the repository;
`apps/api/src/` is shortened to `api/` and `apps/web/src/` to `web/`.

## 1. Inventory

The system is a NestJS API in front of one Postgres database (Prisma), and a
Next.js web application that calls the API on behalf of a browser. Anchors call
the API with a key of their own.

| component | state | operations | what makes it correct |
|---|---|---|---|
| access requests (`api/access-requests`) | `access_requests`: PENDING, APPROVED, DENIED | an anchor files one; the profile's owner approves or denies | resolved once, by the owner; one consent at most |
| consents (`api/consents`) | `consents`: ACTIVE, REVOKED, EXPIRED | granted by approve, revoked by the user, expired by an hourly job | only ends; matches its request; overdue ones are swept |
| credentials read path (`api/credentials`) | none of its own | an anchor reads by address | answers exactly what is covered by the grants in force, of one state of the profile |
| audit log (`api/audit-logs`) | `audit_logs`, append only | `record`, awaited at the end of each handler | tells nothing that did not happen; knows what was answered |
| sessions (`api/auth`) | challenges in memory; `refresh_tokens` | challenge, verify and log in, refresh, log out | a session per signature; rotation; suspension holds |
| SEP-10 (`packages/stellar/src/sep10.ts`, `api/stellar`) | the server's key pair | build and verify a challenge | good for as long as it is remembered, to the second |
| wallets (`api/wallets`, `api/auth`) | `wallets`: owner, address, primary, deleted | register with a first one, link, set primary, remove | one per address; one primary; never none |
| admin (`api/admin`), users (`api/users`) | `users.status` | suspend, reactivate, counters | suspension takes effect |
| anchors portal (`api/anchors`) | organizations, members, API keys | register, review, suspend, members, keys | decisions stand; roles are kept; keys only for approved anchors |
| guards (`api/common/guards`) | none | JWT, role and API key checks | what should be refused is refused before it changes anything |
| identity profiles (`api/identity-profiles`) | one profile per user | create, update | one profile, as its user saved it |
| documents (`api/documents`) | rows; files in a storage | upload, review | row and file agree; status and log agree |
| verifications (`api/verifications`) | verifications, credentials | verify and issue | a credential stands for an approved verification |
| web session (`web/lib`, `web/middleware.ts`, login and link forms) | three cookies; what each tab waits for | log in, link, log out, redirect | cookies, tokens and roles agree |
| web actions and pages (`web/app`, `web/lib/actions`) | what each page shows | call the routes | what is offered is permitted; stale pages do no harm |
| the rest | none, or wiring | configuration, filters, start, ui, types | |

How they interact: the handlers share the tables and nothing else, except the
map of challenges, which lives in the Node process. Access requests call
consents (`grantFromAccessRequest`), wallets call auth
(`verifyAddressOwnership`), everything calls the audit log. The job that expires
consents runs inside the same process. The web application calls the API with
the token of a cookie; the tabs of a browser share the cookies. Nothing is sent
by message.

What is hard: a handler is a sequence of awaited statements, with no
transaction around them (the one exception is `setPrimary`); between two
statements every other handler, the job, a failure and a restart can run. So
each check may be stale when its result is used, each sequence may stop in the
middle, and only what one statement or one unique index decides is safe. Pages
add checks that are staler still: what they show was read when they were
loaded. And three lives run side by side that nobody compares in one place:
of a challenge's entry, of the time bound inside its transaction, of the
cookies and tokens that follow. The hazards are listed, each at its line, in
`PROJECT.json`.

## 2. The modules

| module | what it is | its proofs |
|---|---|---|
| `ConsentFlow` | access requests, consents, the job, the anchor's read, their log entries | `ConsentFlowProofs` |
| `ConsentLedger` | what those promise: a ledger of grants, entered, over, read | (refined by `ConsentFlow`) |
| `Wallets` | wallets and the registration of users | `WalletsProofs` |
| `AddressBook` | what wallets and logins promise each other: whom an address leads to | (refined by `Wallets` and `Sessions`) |
| `Sessions` | challenges, logins, refresh tokens, suspension | `SessionsProofs` |
| `Entrance` | what a login promises: how a challenge becomes a session | (refined by `Sessions` and `WebSession`) |
| `AnchorPortal` | organizations, members, API keys, the key guard, the pages that send the calls | `AnchorPortalProofs`, `AnchorHistoryProofs` |
| `Authority` | what the portal and the key guard promise: from whom what is done for an anchor comes | (refined by `AnchorPortal`) |
| `Dossier` | profile, documents, verifications, credentials, and what an anchor reads of them | `DossierProofs` |
| `AnchorID` | `AnchorPortal`, `ConsentFlow` and `Dossier` as one system, with the filing of requests and the scoped read as handlers that go through several of them | `AnchorIDProofs` |
| `Routes` | tables: routes and guards, actions and their routes, pages and their actions | (lemmas in `WebSessionProofs`) |
| `Sep10` | what a challenge holds, and what is checked when it comes back | (lemmas in `WebSessionProofs`) |
| `WebSession` | browser, cookies, middleware and guards, on a clock; uses `Routes` and `Sep10` | `WebSessionProofs` |

Each `MC...` module makes the instances TLC checks: owners, initial states,
symmetry.

Conventions. A call of the API is a slot `call[c]`: a record whose `step` names
the statement the handler awaits and whose other fields are the variables it
holds. One action is one statement and the code up to the next one, so actions
are named for the handler and the statement: `ApproveUpdate` is the `update` of
`approve`. The first action of a handler contains its first read: a call that is
refused there changes nothing and is left out, so the refusal is the action's
guard. `Continue(c)` is the disjunction of all later statements. `Fail(c)` is
any statement that fails; a commit whose answer is lost is the statement
followed by `Fail`. Tables are functions from ids to a row or `None`. Operators
commented as "Mutant" are plausible bugs, used to see that the properties can
tell them from the code; no specification uses them. Variables commented as
history are read by properties only, or decide nothing but their own next
value.

### ConsentFlow

`requests`, `consents` and `audit` are the three tables (the log as a set: its
order is not read by anybody). `now` is the clock in days, `approved` the
anchors that may file requests, `cron` where the hourly job stands. A read of
the clock that precedes its statement (`new Date()` in a `where`, `Date.now()`
in a grant) is a moment between the handler's previous step and now; without
that, the window in which a grant expires while its query is on its way would
be missing. `CreateInsert` uses an id taken when the call starts, so that ids
never run out in the middle. `liveAtStart` and `endedAtStart` are history: they
record, when a read begins, which grants count. Profile fields are abstract: a
scope stands for the fields it selects; `Dossier` has them.

`ConsentLedger` is the abstract specification: a grant is entered, is over once
and for all, and a reader of an account answers with grants none of which was
over when it began and with all that were in force throughout. The refinement
(`Ledger` in `ConsentFlow`) maps a consent to a grant, a pair of anchor and
profile to an account, and a grant to "over" as soon as it is not ACTIVE or its
time has come, whatever the job did. A grant whose insert is delayed by more
than its term is over when it is entered: `Enter` allows that because the code
computes `expiresAt` before the insert.

### Wallets

`primary` and `removed` are the columns `isPrimary` and `deletedAt` as sets.
`setPrimary` is a transaction at READ COMMITTED: `PrimaryBegin` takes the
snapshot of its first update, `PrimaryClear` waits for the locks of those rows
and keeps the rows that still match, `PrimaryCommit` waits for its own row,
writes both updates and gives the locks back, and `PrimaryDeadlock` is Postgres
aborting one of a circle of waiting transactions. The rows of the first update
are locked in one step, where Postgres locks them one after the other in the
order it finds them. `raced` is history: the users two of whose calls were under
way at once, whom `OneLinkedPrimary` makes no promise about.

`AddressBook` is the abstract specification of the table: an address leads to
one user for good, a user comes with an address, in one step, and an address
that was removed stays so (`unlinked`). Every row is an entry, also a removed
one, because login does not look at `deletedAt`. It is what `Wallets` and
`Sessions` share, so both are shown to implement it, the first by TLC and by a
proof, the second, which removes nothing, by a proof: each has its own model of
a first login, and neither relies on more of the other.

### Sessions

`asked`, `signed` and `pending` follow a challenge: made, signed by its
address, remembered by the process (`issuedChallenges`). `ConsumeChallenge` is
synchronous in the code and therefore one step: it drops expired challenges,
looks the nonce up and deletes it. A challenge that comes back unsigned or too
late is refused (`RefuseSignature`, `RefuseChallenge`), and the refusal may or
may not be logged. `Restart` empties the map and drops the calls
in flight; it stands for the failure of the process. `owner[a]` is the user the
wallet of `a` belongs to; login does not look at `deletedAt`, so removal does
not matter here. There is no clock: a challenge or a token may expire at any
moment, which allows every order the code can meet (`WebSession` has the
clock). A token's `from` is history: the challenge or the older token it was
made for (the column `replacedByTokenId`, meant for this, is written nowhere).
Registration appears here as in `Wallets` because the new user's status and
tokens are at stake. Linking a wallet is `VerifyAddressOwnership` followed, in
`Wallets`, by the insert; here the insert is `LinkWallet`.

`Entrance` is the abstract specification of a login: a challenge is made for an
address, signed by it, redeemed once; the account the address leads to is looked
at after that, and a session is opened if it was active then. Whatever is under
way can be lost at any step, so nothing is said of how challenges are kept,
expire or survive restarts. `Sessions` implements it without a clock, with all
addresses, rotation and registration; `WebSession` with the clock, the wallet in
front of which a form waits, and one address per account. The two models take
apart what is one login in the code, and this is what they have in common.

### AnchorPortal

`anchors`, `members` and `keys` are the three tables, `log` the latest entry
about each anchor, membership and key, `secrets` the keys whose secret has
reached somebody (it is shown once, when the call that made it is answered),
`requests` and `reads` what was done with keys. `shown[p]` is the review list in
an admin's tab: `Load` takes the statuses, a decision is `Offered` for what the
tab shows, whatever the table holds by then, and the list is loaded anew when
the decision's call is answered. The key guard is `UseKey` (found, compared, not
revoked), `GuardTouch` (`lastUsedAt`) and then one of the two routes behind it;
only the filing of requests asks for the anchor's status, a read does not.
`assertAnchorAdmin` is the guard `InCharge` of the calls about members and keys;
it and the statement after it are one step where no other statement's result
depends on what comes between, because rows are never deleted.

Two kinds of history. `against`, in each call, says why it should have been
refused as it began (`caller`, `key`, `status`), and loses `status` when the
anchor is approved on the way; no guard reads it. `disturbed` collects what
overlapping, failed or misinformed calls were about; the three properties about
decisions, roles and the log leave those things out, since there the code
promises nothing: updates are by id and do not look at what they overwrite.

`Authority` is the abstract specification, a chain of grants. A call that
somebody in charge of an anchor begins may manage it; it gives that up for
making or unmaking a head, for revoking a key, or, where it finds the anchor
approved, for making a key, which it then records and hands out; who has the
secret of a key that is good may use it, and gives that up for a read or, where
it finds the anchor approved, for a request. Each link is a step of its own and
nothing is said of what happens in between, so the calls that a removal, a
revocation or a suspension overtakes are allowed; what is not allowed is a
member, a key or a request that no such chain leads to. `Granted(c)` reads what
a call may do off the statement it is at, `Ring`, `Heads` and the like read the
rest off the tables.

### Dossier

`profiles`, `docs`, `verifications` and `credentials` are the tables, `stored`
the objects of the storage, `log` the latest entry about each profile and
document. The adapter behind `stored` is not in the repository: it is modelled
by its use, one `put` under a fresh key before the row is inserted. `Accepted`
is the pipe in front of an upload: size, declared type, first bytes.
`ColumnsOf` is `SCOPE_FIELD_MAP` with the switch that copies columns, and
`Disclosed` what is answered of a profile. `form[t]` is the identity page in a
tab: what it was filled with, and whether there was a profile then, which
decides between `create` and `update`; the whole form is sent either way, so a
form filled before another tab's save takes that save back. `ReadConsents`
finds any scopes: which ones are granted is `ConsentFlow`'s matter.

History: `edited[u]` is what the user last saved and was told so, column by
column; `crossed` holds the users and documents whose calls overlapped, failed
or came from an outdated form; `seen`, in a read, is every state of the profile
the read has overlapped with.

### AnchorID

The composition. The state is that of the three parts, renamed where names
collide (`portalCall`, `grantCall`, `identityCall`, `filed` for the portal's
`requests`), and a handler is one slot of `Call`: `Vacant(c)` asks all parts
before another one begins in it. Most steps are of one part (`PortalStep`,
`ConsentStep`, `IdentityStep`, `TimeStep`, `PageStep`). Two handlers go through
several, and each of their statements is one joint step:

| handler | statement | step of the portal | of the consents | of the identity data |
|---|---|---|---|---|
| `POST /access-requests` | status of the anchor (`AskForAccess`) | `FileStatus` | `CreateForAnchor` | |
| | wallet and profile (`FindSubject`) | | `CreateFindProfile` | its profile is there |
| | insert (`InsertRequest`) | `FileInsert` | `CreateInsert` | |
| | a refusal or failure before that (`FilingFails`) | `Fail` | `Reject` or `Fail` | |
| `GET /credentials/by-address` | wallet, user and profile (`StartRead`) | `Read` | `GetScopedDataForAnchor` | `Read` |
| | consents (`CutToGrants`) | | `FindConsents` | `ReadConsents`, with those scopes |
| | credentials (`AddCredentials`) | | `FindCredentials` | `ReadCredentials` |
| | entry and answer (`AnswerRead`) | | `FetchAudit` | `ReadRecord` |

What the parts leave open is decided here. The anchors that `ConsentFlow` takes
for `approved` are those with that status in the portal's table; the anchor that
files or reads is the one of the key the guard let in (`Caller`); the scopes
`Dossier` cuts a profile to are those of the consents `ConsentFlow` found; the
scopes that ask for credentials are those `Dossier` knows. Which profile an
address leads to stays open: `Wallets` and `Sessions` are not composed, and
`AddressBook` says what is promised of addresses. Ids are chosen in advance in
this model, so `Named` says which profile gets which id: the one of `Owner[p]`.

The parts are instantiated through their modules of proofs, so their theorems
come along with renamed variables, and the proofs about the whole cite them.

### Routes, Sep10 and WebSession

`Routes` is a table of the decorators: each route with its guard ("public",
"key", "any", "ADMIN"), each server action with the route it calls, each page
with what it reads, what it offers, and beside which rows. `Sep10` counts time
in ticks, of which `Second` make a second, because the time bound inside a
challenge is in whole seconds and the entry of `issuedChallenges` in
milliseconds; the server's key pair is random at each start unless one is
configured.

`WebSession` puts them together for one browser. `call[c]` is what a tab does:
the login and link forms with the wallet (`sign`, `signed`), the login at the
API (`enter`, `issue`, `answer`), pages (`page`, `shown`), actions (`do`),
logout. `cookie` holds three rows with their ends; the tabs share them, and a
request takes the ones that are there when it is sent. `Middleware` and `Pass`
are `middleware.ts`, `Verified` and `Permitted` the two guards of the API.
`session[n]` is what the tokens of a login say; a token is named by the nonce of
its challenge. `active` is history: whether the account was active when that was
looked at. `Restart` drops the challenges and the calls, and changes the
server's key unless it is configured. Refresh tokens are set as a cookie and
never used by the web application; their rotation is in `Sessions`.

## 3. The runs

"pass" runs finish without an error; a "violation" run checks a sentence of the
code or its documents that the code does not keep, and TLC shows how.

| run | checks | bounds |
|---|---|---|
| `filing` | `TypeOK`, `GrantMatchesRequest`, `OneGrantPerRequest` | empty database, 2 anchors, 2 owners, 1 request, room for 2 consents, 3 calls, 1 failure |
| `resolve` | `AcknowledgedIsRecorded`, `AuditIsTrue`, `EffectsAreTold`, `ServedWithinGrants`, `ConsentsOnlyEnd`, `ImplementsLedger`, `OverdueIsSwept`, `EveryCallReturns` | 1 pending request, 2 calls, 2 days, 1 failure, fairness |
| `wallets` | `TypeOK`, `OneWalletPerAddress`, `OneLinkedPrimary`, `ImplementsAddressBook` | 2 users, 3 addresses, 3 calls, 1 failure |
| `wallet_locks` | `EveryCallReturns` | 1 user with 2 wallets, 3 calls, fairness |
| `sessions` | `TypeOK`, `SessionsAreProved`, `InIsRecorded`, `RotationReplaces`, `SuspensionHolds`, `ImplementsEntrance` | 2 users, 2 addresses, 2 challenges, 3 tokens, 2 calls, 1 failure |
| `portal` | `TypeOK`, `LogTells`, `RefusalsHold`, `RolesAreKept`, `DecisionsStand`, `ImplementsAuthority` | an approved anchor with a key and a free domain, an anchor admin and a platform admin, 2 tabs, 3 calls begun, 1 failure |
| `dossier` | `TypeOK`, `ProfileIsAsSaved`, `DocumentsAreStored`, `CredentialsAreVerified`, `ServedIsTrue`, `ReviewIsLogged` | empty database, 1 user, 2 columns with 2 values, 4 files, 1 document, 2 verifications, 2 tabs, 4 calls of which 2 at once, 1 failure |
| `platform` | `AnswersAreGranted` | 1 user with a profile of 2 columns, 1 anchor with a key, 2 scopes, 2 requests, 2 consents, 1 verification, 2 handlers, 1 day to pass; 2 calls or 1 failure more at the portal, or 2 calls about the profile |
| `web` | `TypeOK`, `NeverForbidden`, `SuspensionBites`, `WindowIsWhole`, `ImplementsEntrance` | 2 accounts of which 1 admin, 2 challenges, 2 tabs, 3 ticks of half a second, 1 failure or restart |
| `denied` | violated: `DeniedHasNoGrant` | 2 calls |
| `lost` | violated: `ApprovedHasGrant` | 1 failure |
| `keeps` | violated: `KeepsAWallet` | 3 calls |

What each is about. `filing`: from nothing, who may resolve what, and what the
unique index on `consents.accessRequestId` decides when approvals race.
`resolve`: what the log knows after any failure, and that it knows everything as
long as there was none; reads of a grant up to its end, by revocation, by time
and by the job, against the ledger; and that the job gets to overdue consents.
`wallets`: registrations, links, removals and choices of a primary wallet that
race; the book of addresses they keep. `wallet_locks`: the row locks of
`setPrimary` never leave anybody waiting. `sessions`: replayed challenges,
rotations that race, logout and suspension in the middle of a login; the
entrance that logins implement. `portal`: removals, revocations and suspensions
that overtake calls already let in, the chain of authority behind whatever these
calls do, and admins who decide by a page that is out of date. `dossier`: saves
from two tabs, uploads that stop halfway, reviews that cross, reads of a profile
while it is saved. `platform`: a read from the key that opens it to the answer,
against whatever happens to the key, the anchor, the requests, the consents and
the data on the way. `web`: logins and logouts in two tabs of one browser while
cookies run out, and the three clocks of a challenge; the same entrance, with a
clock and a form.

Why the bounds are enough. Handlers meet only in rows; each row is fought over
by two handlers at a time, and the third slot of `filing`, `wallets` and
`portal` lets a third one arrive between them. Approvals of one request meet in
one consent; two ids of consents let a second grant happen if it can. Two days
let a grant be live, be over at the very instant of its expiry, and be past it:
the three cases the two strict comparisons tell apart. In `platform`, two grants
of different scopes and different ends are what "union" and "one ends while the
other goes on" need. One failure, at any statement of any call, is enough to
stop a sequence halfway and to let the same call be made again after it. Three
tokens are a login and two rotations of it, or two logins and a rotation. In
`portal` three calls are a removal that overtakes an addition and a later call
that meets what they left; a decision from a tab that two others made outdated;
a key that is used while it is revoked. In `dossier` four calls are two saves,
an upload and its review, or a verification and two reads with a save in
between; two columns let two forms change different ones; the four files fail
one check of the pipe each, or none. In `platform` a read and one other handler
meet, of any part; the three initial states divide the work, because the
interesting cases need different histories: a denied request and a key to revoke
or an anchor to suspend and approve again (new requests are filed and granted
from there), the same with a failure instead, and two grants of different scopes
in force, the older of which runs out while the newer goes on, with room for
saves and a verification. `VIEW Watched` leaves out the logs and the history
variables of the parts, which no guard reads and `AnswersAreGranted` does not
mention, so that states which differ in them alone are explored once. In `web` a
second of two ticks puts each event on a whole second or between two, lives of
one second end inside the run, and two challenges are a login of each account,
in either order, in either tab; the two visited pages are one any account may
open, with the link form, and one that only admins may; what the other pages
call is in the tables, for which `NobodyForbidden` is proved.

Runs that ask what happens to a request start with the request filed
(`PendingInit` in `MCConsentFlow`), `wallet_locks` with the wallets linked,
`portal` and `platform` with an approved anchor and its key (`ReadyInit`):
states the program reaches by serving the calls before. The others start from
nothing.

Symmetry is used where ids are only compared: call slots everywhere, tabs,
consents, requests and the like where the initial state names none of them, and
never in a run with a liveness property (`resolve`, `wallet_locks`).
`ConsentsOnlyEnd`, `RolesAreKept` and the like are action properties without
liveness, and `ImplementsLedger`, `ImplementsAddressBook`, `ImplementsEntrance`
and `ImplementsAuthority` are safety only (the abstract specifications have no
fairness). In `portal` the chain of authority is opened with a key that is out,
which its `Init` allows.

Deadlock is checked in the runs whose system always has a next step; the
configurations that count calls (`MaxBegun`) always have one more page to load,
the others calls that begin again.

Fairness. `WF(Continue(c))`: the database answers every statement or the call
fails, and Node resumes whoever waits for an answer. `WF(ExpireStale)` and
`WF(ExpireAudit)`: the scheduler keeps firing. No user, anchor, clock or failure
is fair: nobody owes the system a call. In `Wallets` it is `SF(Continue(c))`,
because locks come and go while a call waits for them and Postgres lets waiters
of a row in by turn. `AnchorPortal`, `Dossier` and `WebSession` have straight
handlers without locks or jobs, about which liveness would say no more than that
statements are answered; they have safety and action properties only.

What the violated sentences mean for the code. `denied` and `keeps` have the
same shape, a check in one statement and an update by id alone in a later one;
`lost` is a sequence of statements that belong in one transaction. More places
have these shapes, and the models show it by what the properties have to allow:

- `ConsentsOnlyEnd` lets a revocation overwrite EXPIRED
  (`consents.service.ts:36`).
- `EffectsAreTold` claims that every revocation has its entry, every expiry the
  job's and every approval its grant only as long as no statement failed
  (`consents.service.ts:41`, `consents.service.ts:86`): an entry that failed is
  never written, because the retry is refused or finds nothing to do.
- `OneLinkedPrimary` leaves out users whose calls overlap, whose primary wallet
  may be a removed one (`wallets.service.ts:78`).
- `RotationReplaces` lets two tokens replace the same one
  (`auth.service.ts:155`).
- `RefusalsHold` is about calls that should have been refused as they began: a
  key that is made, a member that is added or a request that is filed while the
  anchor is suspended or the caller removed goes through.
- `DecisionsStand`, `RolesAreKept`, `LogTells`, `ProfileIsAsSaved` and
  `ReviewIsLogged` leave out what crossed: there the later update wins, and the
  later entry need not be the one of the later update.

## 4. The proofs

Theorems hold for all values of the constants that satisfy the named
assumptions of each module, which say what the schema and the code give: owners
of profiles, non-empty terms, ids of different tables are different, null is not
a row, an access cookie does not outlive the role cookie. TLC evaluates these
assumptions in every run.

| module | theorem | property |
|---|---|---|
| `ConsentFlowProofs` | `TypeCorrect`, `AtMostOneGrant`, `GrantsMatch` | `TypeOK`, `OneGrantPerRequest`, `GrantMatchesRequest` |
| | `RevocationCutsOff`, `ReadsAreComplete` | `ServedWithinGrants`, `ServedIsUnion` |
| | `OnlyEnds` | `ConsentsOnlyEnd` |
| | `LogIsTrue`, `SuccessIsRecorded` | `AuditIsTrue`, `AcknowledgedIsRecorded` |
| | `NothingGoesUntold` | `EffectsAreTold` |
| | `KeepsTheLedger` | `ImplementsLedger` |
| `WalletsProofs` | `TypeCorrect`, `AddressesAreUnique`, `UsersAreReachable` | `TypeOK`, `OneWalletPerAddress`, `NoUserWithoutWallet` |
| | `PrimaryHolds`, `RowsAreForGood` | `OneLinkedPrimary`, `WalletsAreForGood` |
| | `WalletsAreABook` | `ImplementsAddressBook` |
| `SessionsProofs` | `TypeCorrect`, `NoSessionUnproved`, `SessionsAreLogged` | `TypeOK`, `SessionsAreProved`, `InIsRecorded` |
| | `NothingDoubled`, `RevokedForGood`, `SuspendedStayOut` | `RotationReplaces`, `RevocationIsFinal`, `SuspensionHolds` |
| | `LoginsKeepTheBook`, `SessionsPassTheGate` | `ImplementsAddressBook`, `ImplementsEntrance` |
| `AnchorPortalProofs` | `TypeCorrect`, `SecretsAreLogged`, `RefusedInVain` | `TypeOK`, `SecretsAreRecorded`, `RefusalsHold` |
| | `KeepsTheChain` | `ImplementsAuthority` |
| `AnchorHistoryProofs` | `RolesHold`, `DecisionsHold`, `LogIsTrue` | `RolesAreKept`, `DecisionsStand`, `LogTells` |
| `DossierProofs` | `TypeCorrect`, `FilesAreThere`, `NothingUnverified`, `ReadsAreTrue` | `TypeOK`, `DocumentsAreStored`, `CredentialsAreVerified`, `ServedIsTrue` |
| | `ProfilesHold`, `ReviewsAreLogged` | `ProfileIsAsSaved`, `ReviewIsLogged` |
| `AnchorIDProofs` | `PartsHold` | (the specification of each part) |
| | `AnchorsSeeWhatIsGranted` | `AnswersAreGranted` |
| `WebSessionProofs` | `TypeCorrect`, `NobodyForbidden` | `TypeOK`, `NeverForbidden` |
| | `SuspensionTakesHold`, `WindowsAreWhole` | `SuspensionBites`, `WindowIsWhole` |
| | `LoginsPassTheGate` | `ImplementsEntrance` |

Each module but `AnchorIDProofs` also has a theorem `Invariance` or
`HistoryInvariance` (`DossierProofs` has both), which says that its inductive
invariant holds and which the others follow from.

Some of these theorems are about properties that no run checks.
`NoUserWithoutWallet` and `WalletsAreForGood` say in terms of the rows what
`ImplementsAddressBook` says of the book, and `SecretsAreRecorded` is part of
what `ImplementsAuthority` says (`out \subseteq noted`, and nothing is done with
a key whose secret is not out), so the runs check the refinement.
`ServedIsUnion` is said of several grants at once by `NoLessThanGranted`, a part
of `AnswersAreGranted`. `RevocationIsFinal` and the book that `Sessions` keeps
are left to the proofs, which need no bound.

All these proofs have one shape. None of the properties is inductive as it
stands, because a call acts on what it read some statements ago; the invariant
adds what is still true of that (`CallInv(c)`, or a predicate named for what it
says). A step then has two parts. The calls that do not move are disturbed only
through the tables, and a lemma (`StepKeeps`, `Others`, `TableSteps`) says how
little of the tables any step can take away: rows stay, keep the columns calls
rely on, and flags go one way. The call that moves is dealt with action by
action. Type correctness comes first but is not inductive alone: a write to a
column of a row needs the row to be there.

`ConsentFlowProofs`:

    Inv == TypeOK /\ Reserved /\ OneGrantPerRequest /\ GrantMatchesRequest
                  /\ \A c \in Call : CallInv(c)

`CallInv` is `Grounded` (the row a call is about to write is there, belongs to
the caller and, at the grant, is not pending any more), `Remembers` (the grants
that were over when a read began are still there and still over), `WithinGrants`
and `UnionOfGrants` (the two promises of a read, for each call). `Reserved`
keeps inserts of different calls apart. `GrantsStep` needs the insert of a grant
only (`NewGrant`): its guard is the unique index, its values are the request's
by `Grounded`.

    LogInv == Inv /\ \A e \in audit : Tells(e)
                  /\ \A c \in Call : Earned(c) /\ Recorded(c)

An entry is written in a statement of its own, so the two properties of the log
need what a call carries between its writes: `Earned(c)`, that what its next
entry will say has happened, and `Recorded(c)`, that the entries behind its
answer are there. `KeptTells` says that no step of anybody makes an entry false.

`NothingGoesUntold` turns that around: of what the tables hold, the entry is
there or some call is about to write it. A step that changes a row puts its own
call in charge of the entry (`Makes`), and a call that leaves such a step without
a failure has written it (`Told`); each handler has its lemma
(`CreateMakesAndTells` and so on). `Earned` is needed again: the entry a call
writes has to be the one of the row, with the row's owner, and not of a row that
was replaced while it waited.

`KeepsTheLedger` maps each step to a transition of `ConsentLedger` or to none:
the insert of a grant enters it (`GrantIsEntered`), a revocation and the clock
end those in force (`GrantsEnd`; the hourly job ends none, they are over
already), and the statements of a read open, select and close a reader
(`ReadOpens`, `ReadSelects`, `ReadCloses`). What `Select` asks is what
`Remembers` keeps.

`WalletsProofs`:

    Inv == TypeOK /\ OneWalletPerAddress /\ NoUserWithoutWallet /\ OneLinkedPrimary
                  /\ FlagsOfRows /\ Alone /\ \A c \in Call : OwnRows(c) /\ UpToDate(c)

`OneLinkedPrimary` is about users whose calls never overlapped. `Alone` says that
such a user has one call at a time, so that (`Quiet`) nobody else's step touches
its rows: a call works on rows of its own user (`OwnRows`). Hence what a call
has read of them is so when it writes (`UpToDate`): the rows the first update of
`setPrimary` clears are all that were primary, and the wallet a removal found
secondary still is.

`WalletsAreABook` needs of `Inv` that the id of an inserted wallet is free and
its address unused (`EntriesStep`): all other steps, the removals and the
transaction of `setPrimary` among them, keep address and owner of every row. An
address stays removed because a link inserts a row of its own and refuses an
address that has one.

`SessionsProofs`:

    Inv == TypeOK /\ Spent /\ (sessions made with a challenge are Proved)
                  /\ RotationReplaces /\ \A c \in Call : CallInv(c)

`Spent` is the heart: a challenge that let a call in is signed, forgotten by the
process, carried by this call alone and has no token yet. It is what makes one
session per signature survive restarts, which empty the map but do not bring
challenges back. `SuspensionHolds` is proved from `CallInv`: after a suspension
only calls that were past the check can still insert a token.

`SessionsPassTheGate` maps each step to a transition of `Entrance` or to none.
Three things make it more than bookkeeping. A redemption is two facts at once,
the challenge is taken out of the map and the call carries it, and it may be
dropped in the same step because it has expired. A call
that moves on leaves the set of those redeemed, or admitted, only if no other
call is there with the same challenge (`WayIn`). And `Entrance` opens one session per challenge, which is `Spent`. Beside `Inv`
it needs `Timely`: only challenges that were made can have expired. `BookStep` is
the same for `AddressBook`.

`AnchorPortalProofs`:

    Inv == TypeOK /\ Known /\ \A c \in Call : Ground(c) /\ Refused(c)

`Known` ties pages, log, secrets and what was done with keys to rows that are
there; `Ground` does that for calls. `Refused`: a call with reasons against it
has the reason `status` only, because the other two are asked in its first
statement, and has not come to the statement that asks for the status of its
anchor, which is not approved. So what it may still do is ask, or fail
(`RefusedInVain`). That an approval on the way clears the reason is needed
here: the code asks for the status as it is then.

`KeepsTheChain` maps each step to a transition of `Authority` or to none. What a
call may do is a function of the statement it is at, and its own step alone
changes it (`MayStep`): that needs `Ground`, because the anchor of a call that
revokes a key is looked up in the key's row, which must not change its anchor
under the call. Each group of handlers has its lemma (`ChainStart`,
`ChainMembers`, `ChainKeys`, `ChainUse`, `ChainRecord`); a step of the handler
that the abstract call knows nothing of leaves all of it as it is (`Still`), and
a refusal or failure gives the grant up (`ChainGivesUp`). Beside `Inv` it needs
`Meanings`: an entry that says a key was created is about a key, and any other
entry about a key is about a revoked one, so that only a creation hands out a
secret.

`AnchorHistoryProofs`:

    HistoryInv == Inv /\ Alone /\ \A c \in Call : Sound(c)
                      /\ \A t \in Thing \ disturbed : Reported(t)

A thing that nothing disturbed has one call at a time (`Alone`), so an addition
that found a removed member finds it so when it writes, and a decision offered
by a page that was right still is one of those allowed (`Sound`); and the log
tells of the thing, unless a call is about to write the entry that does
(`Reported`). `Changes` says which rows a step can change; a registration, which
makes rows for things no call is about, is why `RegisterFresh` needs that
members belong to anchors that exist (`Known`).

`DossierProofs`:

    Inv == TypeOK /\ DocumentsAreStored /\ CredentialsAreVerified
                  /\ \A c \in Call : CallInv(c)

A put precedes the row and carries a file that was accepted; a verification
precedes its credential and is approved; what a read has so far is one state the
profile had, cut to the scopes (`OneState`), because the values are taken in one
query and `seen` only grows.

Its second half, about calls that do not cross (`HistoryInvariance`), adds
`Alone`, `HasFile`, `Reported` and `ReviewIsLogged` for documents, and for users
`One` (one profile each, by the unique index) and `SavesSound`: between the
update and the entry of a save, what will be told is what the row holds, column
by column.

`WebSessionProofs`:

    Inv == TypeOK /\ Carriers /\ CookiesBacked /\ \A c \in Tab : CallInv(c)

The lemmas about `Routes` (`RoutesOfAdmin` to `ThePageIs`) go through the tables
once: outside the admins' section no page runs or offers anything behind the
role's guard. `CookiesBacked` says that an access cookie is of a login of an active
account, comes with the role of that account and is not kept longer than the
role and the refresh token; with the middleware that gives `NobodyForbidden`. `VerifiedInTime`, `SecondsOf` and
`SecondsGrow` are the arithmetic of whole seconds: a token that the guard
accepts was made less than its life ago, and a challenge that is still
remembered has its bound not behind it (`WholeWindow`), for every length of a
tick.

`LoginsPassTheGate` is the refinement of `Entrance` on the clock: a challenge
can be redeemed while it is remembered and its time has not come, so time
passing loses some (`GateTime`), and so do restarts and tabs that give up
(`GateLose`). Which challenges are asked and signed is read off the tabs that
wait for the wallet. It adds to `Inv` that a challenge with a session is carried
by no tab any more (`Fresh`).

`AnchorIDProofs`:

    Base  == Portal!Inv /\ Consents!Inv /\ Identity!Inv
    Whole == Named /\ RowsFit /\ \A c \in Call : Fits(c)

`PartsHold` comes first: every step of the whole is a step of each part or
leaves it as it is. Each part was proved against whatever the others may do (any
anchor may be approved, any scopes found), and the whole does some of that. So
`Base` holds without another proof (`BaseHolds`), and only what connects the
parts is left, which none of them can state. `Fits(c)` is `InStep` (the
statements of a handler run side by side in the parts it goes through: a read is
at the same statement in both, about the same profile, for an anchor that came
in with a key), `CutToScopes` (its columns and credentials are those of the
scopes it found) and `FilesFor` (a filing is on its way in both parts, for the
anchor of its key). `RowsFit` says the same of what is in the tables: requests
are by anchors that filed with a key, for profiles that are there, and `Named`
whose those are.

`Frame` says what a slot relies on of the tables, that it stays so while other
slots move (`OthersFit`), and the rest goes step by step: a step of one part
breaks nothing that joins its slot to another part (`OnePartFits`), and each joint
statement has its lemma (`AskFits` to `ReadEndFits`). `GrantedWhole` then puts the promises
of the parts together: `WithinGrants` and `UnionOfGrants` speak of scopes and
`OneState` and `VerifiedOnly` of columns and credentials, and `CutToScopes` makes
of them one statement about what an anchor gets to see.

What TLAPS does not prove here. Liveness under fairness (`OverdueIsSwept`,
`EveryCallReturns`) and whatever needs `ENABLED` stay with TLC, and so does that
a run does not deadlock. Every other property of a passing run has its theorem.

## 5. Not modelled, and why

The components with status `not_modelled` in `PROJECT.json` name their reason.
In short: lists, counters and dashboards read only; the `ui` package and the
components that only lay out answers have no state; configuration, the Prisma
module, error filters and application start are wiring; SEP-1 and SEP-12 are
types and stubs, the Soroban and address helpers wrap the SDK; the role helpers
of `packages/shared` are called by nothing. `packages/shared/src/storage` is not
in the repository, which is why the storage is modelled by its use.

Not modelled inside the modules that exist: the wording and the codes of errors
beyond 401 and 403, metadata of log entries beyond what identifies a disclosure,
rate limits, validation of fields by their form, cryptography (a signature is a
fact, a token is what it says), the expiry dates of verifications and
credentials (written, and read by no code), the envelope of a challenge
transaction (what comes back is taken to be one the server built). A logout
whose access cookie has run out is answered by the middleware and clears
nothing, as in the code.

Each module of a part takes the others' tables as it needs them: `ConsentFlow`
has the profiles as constants, `Dossier` finds any consents, `AnchorPortal` stops
where a request is inserted or a read begins. What connects them is small (the
status of an anchor, the id of a profile, the scopes of a grant) and is chosen
freely where it is taken, so that a property of a part holds whatever the other
part does. `AnchorID` puts the actual values in their place. It leaves out the
wallets: which profile an address leads to is chosen freely there too, and that
it is its owner's is what `AddressBook` promises.

## 6. What is left

1. The wallets of `Wallets` in `AnchorID`, so that the profile an anchor is
   answered about is that of the address it named, through removals and links,
   as one history.
2. The lists that pages other than the review list and the identity page show,
   with what is offered beside their rows when they are out of date.
