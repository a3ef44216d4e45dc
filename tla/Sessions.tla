------------------------------ MODULE Sessions ------------------------------
(***************************************************************************)
(* How a user gets in and stays in: AuthService with its challenges        *)
(* (requestChallenge, consumeChallenge, verifyAddressOwnership), first and *)
(* later logins, the rotation of refresh tokens, logout, and the           *)
(* suspension of accounts by AdminService.                                 *)
(*                                                                         *)
(* Challenges are kept in the memory of the process and are lost when it   *)
(* restarts, the tables are kept in Postgres.  One action is one statement *)
(* of the database and the code up to the next one; what happens without   *)
(* an await, such as the redemption of a challenge, is one action.         *)
(*                                                                         *)
(* No clock: a challenge and a refresh token may expire at any moment.     *)
(***************************************************************************)
EXTENDS Integers, FiniteSets

CONSTANTS
  Address,       \* Stellar addresses
  User,          \* ids users rows can get (bounds the table)
  Nonce,         \* nonces challenges can get (bounds the challenges made)
  Token,         \* refresh tokens that can be made (bounds the table)
  Call,          \* slots for concurrent API calls (bounds concurrency)
  MaxFailures,   \* bound of the number of failing statements and restarts
  None           \* no row, no value

ASSUME BoundAssumption == MaxFailures \in Nat

VARIABLES
  asked,      \* asked[n]: the address a challenge was made for, or None
  signed,     \* the challenges their address has signed
  pending,    \* issuedChallenges: the challenges the process remembers
  expired,    \* challenges and tokens whose expiresAt has passed
  owner,      \* owner[a]: the user the wallet of address a belongs to, or None
  suspended,  \* users whose status column is SUSPENDED
  tokens,     \* table refresh_tokens
  audit,      \* table audit_logs, as the set of its entries
  call,       \* the API calls
  failures    \* statements that failed and restarts so far

vars == <<asked, signed, pending, expired, owner, suspended, tokens, audit,
          call, failures>>
memory == <<asked, signed, pending, expired>>
tables == <<owner, suspended, tokens, audit>>

\* from is history: the challenge or the token this one was made for.
TokenRow == [user : User, from : Nonce \cup Token, revoked : BOOLEAN]

ASSUME NoneAssumption == None \notin TokenRow \cup User \cup Address
ASSUME NamesAssumption == Nonce \cap Token = {}

Idle == [step |-> "idle"]

LoginCall == [step : {"login:wallet", "login:create"}, nonce : Nonce]

\* new is isNewUser, from the challenge or the token that is exchanged.
IssueCall == [step : {"login:issue", "refresh:revoke", "refresh:issue"},
              user : User, from : Nonce \cup Token, new : BOOLEAN]

LogCall == [step : {"login:audit", "refresh:audit", "in"},
            user : User, token : Token, new : BOOLEAN]

CallState == {Idle} \cup LoginCall \cup IssueCall \cup LogCall

\* "in": the caller has the tokens of a call that succeeded.
Free(c) == call[c].step \in {"idle", "in"}
At(c, step) == call[c].step = step
Answer(c, answer) == call' = [call EXCEPT ![c] = answer]

Users == {owner[a] : a \in Address} \ {None}

\* Bounds the model: a call starts only if there will be a token for it.
TokenLeft ==
  Cardinality({c \in Call : call[c] \in LoginCall \cup IssueCall})
    < Cardinality({t \in Token : tokens[t] = None})

Init ==
  /\ asked = [n \in Nonce |-> None]
  /\ signed = {}
  /\ pending = {}
  /\ expired = {}
  /\ owner = [a \in Address |-> None]
  /\ suspended = {}
  /\ tokens = [t \in Token |-> None]
  /\ audit = {}
  /\ call = [c \in Call |-> Idle]
  /\ failures = 0

----------------------------------------------------------------------------
(* Challenges.                                                             *)

RequestChallenge(a) ==
  /\ \E n \in Nonce : /\ asked[n] = None
                      /\ asked' = [asked EXCEPT ![n] = a]
                      /\ pending' = pending \cup {n}
  /\ UNCHANGED <<signed, expired, tables, call, failures>>

\* The wallet signs.
Sign(n) == /\ asked[n] # None
           /\ n \notin signed
           /\ signed' = signed \cup {n}
           /\ UNCHANGED <<asked, pending, expired, tables, call, failures>>

\* Mutant: the challenge is looked up and stays.
LookUp(n) == /\ n \in signed
             /\ n \in pending \ expired
             /\ pending' = pending \ expired
             /\ UNCHANGED <<asked, signed, expired>>

\* A good signature, then: the expired challenges are dropped, and this one
\* must still be there and is deleted.
ConsumeChallenge(n) == /\ n \in signed
                       /\ n \in pending \ expired
                       /\ pending' = pending \ (expired \cup {n})
                       /\ UNCHANGED <<asked, signed, expired>>

\* The entry of a refusal: that of a login with a bad signature is awaited and
\* may fail, that of a used challenge is not awaited, and a link with a bad
\* signature writes none.
LogRefusal ==
  audit' \in {audit, audit \cup {[action |-> "LOGIN_FAILED", user |-> None]}}

\* A challenge its address has not signed.
RefuseSignature(n) ==
  /\ asked[n] # None
  /\ n \notin signed
  /\ LogRefusal
  /\ UNCHANGED <<memory, owner, suspended, tokens, call, failures>>

\* A good signature of a challenge that is used, unknown or expired.
RefuseChallenge(n) ==
  /\ n \in signed
  /\ n \notin pending \ expired
  /\ pending' = pending \ expired
  /\ LogRefusal
  /\ UNCHANGED <<asked, signed, expired, owner, suspended, tokens, call,
                 failures>>

\* WalletsService.link proves an address with a challenge of its own; the
\* insert that follows is LinkWallet.
VerifyAddressOwnership(n) ==
  /\ ConsumeChallenge(n)
  /\ UNCHANGED <<tables, call, failures>>

----------------------------------------------------------------------------
(* verifyChallengeAndLogin.                                                *)

VerifyChallengeAndLogin(c, n) ==
  /\ Free(c)
  /\ TokenLeft
  /\ ConsumeChallenge(n)
  /\ Answer(c, [step |-> "login:wallet", nonce |-> n])
  /\ UNCHANGED <<tables, failures>>

\* Mutant: the status of the account is not looked at.
EnterAnyway(c, u, new) ==
  Answer(c, [step |-> "login:issue", user |-> u, from |-> call[c].nonce,
             new |-> new])

\* Goes on as user u, or refuses: the user was read with the wallet.
Enter(c, u, new) ==
  Answer(c, IF u \in suspended THEN Idle
            ELSE [step |-> "login:issue", user |-> u, from |-> call[c].nonce,
                  new |-> new])

\* Mutant: that there may be no wallet yet is not looked at.
FindKnownWallet(c) ==
  /\ At(c, "login:wallet")
  /\ Enter(c, owner[asked[call[c].nonce]], FALSE)
  /\ UNCHANGED <<memory, tables, failures>>

\* Every wallet row is inserted with its verifiedAt, so the update of one that
\* has none (104-109) is never reached.
FindWallet(c) ==
  /\ At(c, "login:wallet")
  /\ LET u == owner[asked[call[c].nonce]]
     IN IF u = None THEN call' = [call EXCEPT ![c].step = "login:create"]
                    ELSE Enter(c, u, FALSE)
  /\ UNCHANGED <<memory, tables, failures>>

\* One nested write, or a unique violation if the address got a wallet in the
\* meantime.
CreateUser(c) ==
  /\ At(c, "login:create")
  /\ LET a == asked[call[c].nonce]
     IN \/ /\ owner[a] = None
           /\ \E u \in User \ Users :
                /\ owner' = [owner EXCEPT ![a] = u]
                /\ Enter(c, u, TRUE)
        \/ /\ owner[a] # None
           /\ Answer(c, Idle)
           /\ UNCHANGED owner
  /\ UNCHANGED <<memory, suspended, tokens, audit, failures>>

\* issueTokens: the row of a new refresh token.
InsertToken(c, t) ==
  /\ tokens[t] = None
  /\ tokens' = [tokens EXCEPT ![t] =
       [user |-> call[c].user, from |-> call[c].from, revoked |-> FALSE]]

\* Mutant: the log entry is not awaited, and lost.
LoginIssueOnly(c) ==
  /\ At(c, "login:issue")
  /\ \E t \in Token :
       /\ InsertToken(c, t)
       /\ Answer(c, [step |-> "in", user |-> call[c].user, token |-> t,
                     new |-> call[c].new])
  /\ UNCHANGED <<memory, owner, suspended, audit, failures>>

LoginIssue(c) ==
  /\ At(c, "login:issue")
  /\ \E t \in Token :
       /\ InsertToken(c, t)
       /\ Answer(c, [step |-> "login:audit", user |-> call[c].user,
                     token |-> t, new |-> call[c].new])
  /\ UNCHANGED <<memory, owner, suspended, audit, failures>>

LoginAction(c) == IF call[c].new THEN "USER_REGISTERED" ELSE "LOGIN_SUCCESS"

\* Logs the entry of call c and answers with its tokens.
Log(c, action) ==
  /\ audit' = audit \cup {[action |-> action, user |-> call[c].user]}
  /\ call' = [call EXCEPT ![c].step = "in"]
  /\ UNCHANGED <<memory, owner, suspended, tokens, failures>>

LoginAudit(c) == At(c, "login:audit") /\ Log(c, LoginAction(c))

----------------------------------------------------------------------------
(* refresh and logout.                                                     *)

\* The caller shows token t; revoked, expired and suspended are refused.
Refresh(c, t) ==
  /\ Free(c)
  /\ TokenLeft
  /\ tokens[t] # None
  /\ ~tokens[t].revoked
  /\ t \notin expired
  /\ tokens[t].user \notin suspended
  /\ Answer(c, [step |-> "refresh:revoke", user |-> tokens[t].user,
                from |-> t, new |-> FALSE])
  /\ UNCHANGED <<memory, tables, failures>>

\* Mutant: the successor is made first.
RevokeLater(c) ==
  /\ At(c, "refresh:revoke")
  /\ call' = [call EXCEPT ![c].step = "refresh:issue"]
  /\ UNCHANGED <<memory, tables, failures>>

\* The update names the row by its id alone.
RefreshRevoke(c) ==
  /\ At(c, "refresh:revoke")
  /\ tokens' = [tokens EXCEPT ![call[c].from].revoked = TRUE]
  /\ call' = [call EXCEPT ![c].step = "refresh:issue"]
  /\ UNCHANGED <<memory, owner, suspended, audit, failures>>

RefreshIssue(c) ==
  /\ At(c, "refresh:issue")
  /\ \E t \in Token :
       /\ InsertToken(c, t)
       /\ Answer(c, [step |-> "refresh:audit", user |-> call[c].user,
                     token |-> t, new |-> FALSE])
  /\ UNCHANGED <<memory, owner, suspended, audit, failures>>

RefreshAudit(c) == At(c, "refresh:audit") /\ Log(c, "TOKEN_REFRESHED")

\* One updateMany, answered with success whatever it found.
Logout(t) ==
  /\ tokens[t] # None
  /\ ~tokens[t].revoked
  /\ tokens' = [tokens EXCEPT ![t].revoked = TRUE]
  /\ UNCHANGED <<memory, owner, suspended, audit, call, failures>>

----------------------------------------------------------------------------
(* The rest of the system and the world.                                   *)

\* The insert of WalletsService.link.
LinkWallet(a, u) ==
  /\ owner[a] = None
  /\ u \in Users
  /\ owner' = [owner EXCEPT ![a] = u]
  /\ UNCHANGED <<memory, suspended, tokens, audit, call, failures>>

\* The update statements of AdminService.
SuspendUser(u) ==
  /\ u \in Users \ suspended
  /\ suspended' = suspended \cup {u}
  /\ UNCHANGED <<memory, owner, tokens, audit, call, failures>>

ReactivateUser(u) ==
  /\ u \in suspended
  /\ suspended' = suspended \ {u}
  /\ UNCHANGED <<memory, owner, tokens, audit, call, failures>>

\* Of a challenge that is gone or a token that is revoked nobody asks whether
\* it has expired.
Expire(x) ==
  /\ x \in pending \cup {t \in Token : tokens[t] # None /\ ~tokens[t].revoked}
  /\ x \notin expired
  /\ expired' = expired \cup {x}
  /\ UNCHANGED <<asked, signed, pending, tables, call, failures>>

\* The statement a call awaits fails.
Fail(c) == /\ ~Free(c)
           /\ failures < MaxFailures
           /\ failures' = failures + 1
           /\ Answer(c, Idle)
           /\ UNCHANGED <<memory, tables>>

\* The process starts again: its calls and its challenges are gone.
Restart == /\ failures < MaxFailures
           /\ failures' = failures + 1
           /\ pending' = {}
           /\ call' = [c \in Call |-> IF Free(c) THEN call[c] ELSE Idle]
           /\ UNCHANGED <<asked, signed, expired, tables>>

Continue(c) ==
  \/ FindWallet(c) \/ CreateUser(c) \/ LoginIssue(c) \/ LoginAudit(c)
  \/ RefreshRevoke(c) \/ RefreshIssue(c) \/ RefreshAudit(c)

Next ==
  \/ \E a \in Address : RequestChallenge(a)
  \/ \E n \in Nonce : \/ Sign(n) \/ RefuseSignature(n)
                     \/ RefuseChallenge(n) \/ VerifyAddressOwnership(n)
  \/ \E c \in Call : \/ \E n \in Nonce : VerifyChallengeAndLogin(c, n)
                     \/ \E t \in Token : Refresh(c, t)
                     \/ Continue(c)
                     \/ Fail(c)
  \/ \E t \in Token : Logout(t)
  \/ \E a \in Address, u \in User : LinkWallet(a, u)
  \/ \E u \in User : SuspendUser(u) \/ ReactivateUser(u)
  \/ \E x \in Nonce \cup Token : Expire(x)
  \/ Restart

Spec == Init /\ [][Next]_vars

----------------------------------------------------------------------------
(* Properties.                                                             *)

\* Challenges, tables and calls have the shape the schema and the handlers
\* give them.
TypeOK ==
  /\ asked \in [Nonce -> Address \cup {None}]
  /\ signed \subseteq Nonce
  /\ pending \subseteq {n \in Nonce : asked[n] # None}
  /\ expired \subseteq Nonce \cup Token
  /\ owner \in [Address -> User \cup {None}]
  /\ suspended \subseteq Users
  /\ tokens \in [Token -> TokenRow \cup {None}]
  /\ audit \subseteq [action : {"LOGIN_FAILED", "LOGIN_SUCCESS",
                               "USER_REGISTERED", "TOKEN_REFRESHED"},
                     user : User \cup {None}]
  /\ call \in [Call -> CallState]
  /\ failures \in Nat

\* Every session goes back to a challenge of its own, signed by an address of
\* its user: replays, concurrent logins and restarts never get a second
\* session out of one signature, or one for somebody else.
SessionsAreProved ==
  \A t \in Token : tokens[t] # None /\ tokens[t].from \in Nonce =>
    /\ tokens[t].from \in signed
    /\ owner[asked[tokens[t].from]] = tokens[t].user
    /\ \A s \in Token : tokens[s] # None /\ tokens[s].from = tokens[t].from
                         => s = t

\* A token that was made for another one replaces it: the old one is revoked
\* and was the same user's, whatever failed on the way.
RotationReplaces ==
  \A t \in Token : tokens[t] # None /\ tokens[t].from \in Token =>
    LET old == tokens[tokens[t].from]
    IN old # None /\ old.revoked /\ old.user = tokens[t].user

\* Who has tokens in hand has them in the table, and the log knows of it.
InIsRecorded ==
  \A c \in Call : At(c, "in") =>
    /\ tokens[call[c].token] # None
    /\ tokens[call[c].token].user = call[c].user
    /\ [user |-> call[c].user, action |->
          IF tokens[call[c].token].from \in Token THEN "TOKEN_REFRESHED"
          ELSE IF call[c].new THEN "USER_REGISTERED" ELSE "LOGIN_SUCCESS"]
         \in audit

\* The account is suspended and no call for it is past the check of that.
LockedOut(u) ==
  /\ u \in suspended
  /\ \A c \in Call : call[c] \in IssueCall => call[c].user # u

TokensOf(u) == {t \in Token : tokens[t] # None /\ tokens[t].user = u}

\* A suspended account stays out until it is reactivated: once the calls that
\* were under way are over, neither a login nor a refresh gets it a token,
\* through whatever address and however early its challenge was signed.
SuspensionHolds ==
  [][\A u \in User : LockedOut(u) /\ u \in suspended' =>
       LockedOut(u)' /\ TokensOf(u)' = TokensOf(u)]_vars

\* A refresh token is never used again: revoked once is revoked for good, and
\* its row stays.
RevocationIsFinal ==
  [][\A t \in Token : tokens[t] # None =>
       /\ tokens'[t] # None
       /\ tokens'[t].user = tokens[t].user
       /\ tokens[t].revoked => tokens'[t].revoked]_vars

----------------------------------------------------------------------------
(* The book of addresses this implements.                                  *)

Entries == {<<a, owner[a]>> : a \in {b \in Address : owner[b] # None}}

Book == INSTANCE AddressBook WITH member <- Users, book <- Entries, unlinked <- {}

\* Logins write the address book as the wallets promise it to be: a first
\* login enters a new user with its address, in one step, and never takes an
\* address that leads to somebody, though it looked long before it wrote.
ImplementsAddressBook == Book!Spec

----------------------------------------------------------------------------
(* The entrance this implements.                                           *)

Made == {n \in Nonce : asked[n] # None}
Of(challenges) == {<<n, asked[n]>> : n \in challenges}

\* Redeemed for a login, and nobody has looked at the account yet.
Redeemed == {call[c].nonce : c \in {d \in Call : call[d] \in LoginCall}}

LetIn == {<<call[c].from, call[c].user>> : c \in {d \in Call : At(d, "login:issue")}}

LoggedIn == {<<tokens[t].from, tokens[t].user>> :
               t \in {s \in Token : tokens[s] # None /\ tokens[s].from \in Nonce}}

Gate == INSTANCE Entrance
          WITH made <- Made, asked <- Of(Made), signed <- Of(signed),
               good <- pending \ expired, proved <- Of(Redeemed),
               admitted <- LetIn, sessions <- LoggedIn, book <- Entries,
               barred <- suspended

\* A session that is not the rotation of another comes of one challenge, for
\* the user of the address that was asked to sign it and did, and after a look
\* at the account that found it active: each of these in a step of its own,
\* with anything else in between.
ImplementsEntrance == Gate!Spec
=============================================================================
