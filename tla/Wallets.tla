------------------------------ MODULE Wallets ------------------------------
(***************************************************************************)
(* The wallets of a user: WalletsService (link, setPrimary, remove) and    *)
(* the part of AuthService.verifyChallengeAndLogin that registers a user   *)
(* with a first wallet.                                                    *)
(*                                                                         *)
(* Every statement is atomic and handlers interleave between statements.   *)
(* setPrimary runs two updates in one transaction, at Postgres' default    *)
(* isolation level READ COMMITTED: its first statement chooses rows from a *)
(* snapshot, waits for the row locks of other transactions, looks at the   *)
(* rows again when it has them, and nobody else sees what it writes before *)
(* the commit.  The signed challenge that link and login ask for is not    *)
(* part of this module: here it is shown, or the call is refused.          *)
(***************************************************************************)
EXTENDS Integers, FiniteSets

CONSTANTS
  User,          \* ids users rows can get (bounds the table)
  Wallet,        \* ids wallets rows can get (bounds the table)
  Address,       \* Stellar addresses
  Call,          \* slots for concurrent API calls (bounds concurrency)
  MaxFailures,   \* bound of the number of failing statements
  None           \* no row, no value

ASSUME BoundAssumption == MaxFailures \in Nat

VARIABLES
  users,      \* the rows of table users
  wallets,    \* table wallets: owner and address of each row
  primary,    \* the rows whose isPrimary column is true
  removed,    \* the rows whose deletedAt column is set
  lock,       \* lock[w]: the transaction that holds the lock of row w, or None
  call,       \* the API calls
  raced,      \* history: the users who had two calls under way at once
  failures    \* statements that failed so far

vars == <<users, wallets, primary, removed, lock, call, raced, failures>>
tables == <<users, wallets, primary, removed>>

WalletRow == [user : User, address : Address]

Idle == [step |-> "idle"]

LoginCall  == [step : {"login:create", "login:tokens"}, address : Address]
LinkCall   == [step : {"link:create"}, user : User, address : Address]
RemoveCall == [step : {"remove:count", "remove:update"}, user : User,
               wallet : Wallet]

\* rows is the snapshot of the first update, cleared what it has written and
\* holds the locks of.
SetPrimaryCall == [step : {"primary:begin", "primary:clear", "primary:commit"},
                   user : User, wallet : Wallet, rows : SUBSET Wallet,
                   cleared : SUBSET Wallet]

CallState == {Idle} \cup LoginCall \cup LinkCall \cup RemoveCall
               \cup SetPrimaryCall

ASSUME NoneAssumption == None \notin WalletRow \cup Call

At(c, step) == call[c].step = step
Answer(c) == call' = [call EXCEPT ![c] = Idle]

OwnedBy(u) == {w \in Wallet : wallets[w] # None /\ wallets[w].user = u}

\* findMine, and what the checks call a linked wallet.
Linked(u) == OwnedBy(u) \ removed

Known(a) == \E w \in Wallet : wallets[w] # None /\ wallets[w].address = a

\* User u starts a call: it may overlap with others of the same user.
Calling(u) ==
  /\ u \in users
  /\ raced' = IF \E c \in Call : "user" \in DOMAIN call[c] /\ call[c].user = u
              THEN raced \cup {u} ELSE raced

Init ==
  /\ users = {}
  /\ wallets = [w \in Wallet |-> None]
  /\ primary = {}
  /\ removed = {}
  /\ lock = [w \in Wallet |-> None]
  /\ call = [c \in Call |-> Idle]
  /\ raced = {}
  /\ failures = 0

----------------------------------------------------------------------------
(* First login with an address.                                            *)

\* The wallet is looked up.  The last conjunct bounds the model: there are ids
\* for all who are on their way in.
Login(c, a) ==
  /\ call[c] = Idle
  /\ call' = [call EXCEPT ![c] =
       [step |-> IF Known(a) THEN "login:tokens" ELSE "login:create",
        address |-> a]]
  /\ ~Known(a) => Cardinality({d \in Call : At(d, "login:create")})
                    < Cardinality(User \ users)
  /\ UNCHANGED <<tables, lock, raced, failures>>

\* The rest of the login writes no row of these tables.  That the wallet may
\* be a removed one, the code does not ask.
IssueTokens(c) ==
  /\ At(c, "login:tokens")
  /\ Answer(c)
  /\ UNCHANGED <<tables, lock, raced, failures>>

\* Inserts row w for user u and address a.
InsertWallet(w, u, a) ==
  /\ wallets[w] = None
  /\ wallets' = [wallets EXCEPT ![w] = [user |-> u, address |-> a]]

\* One nested write: user and wallet together, or neither if the address got
\* a wallet in the meantime.
Register(c) ==
  /\ At(c, "login:create")
  /\ \/ /\ ~Known(call[c].address)
        /\ \E u \in User \ users, w \in Wallet :
             /\ users' = users \cup {u}
             /\ InsertWallet(w, u, call[c].address)
             /\ primary' = primary \cup {w}
        /\ call' = [call EXCEPT ![c].step = "login:tokens"]
     \/ /\ Known(call[c].address)
        /\ Answer(c)
        /\ UNCHANGED <<users, wallets, primary>>
  /\ UNCHANGED <<removed, lock, raced, failures>>

----------------------------------------------------------------------------
(* WalletsService.link.                                                    *)

Link(c, u, a) ==
  /\ call[c] = Idle
  /\ Calling(u)
  /\ ~Known(a)
  /\ call' = [call EXCEPT ![c] =
       [step |-> "link:create", user |-> u, address |-> a]]
  /\ UNCHANGED <<tables, lock, failures>>

\* Mutant: no unique index on stellarAddress.
InsertAnyway(c) ==
  /\ At(c, "link:create")
  /\ \E w \in Wallet : InsertWallet(w, call[c].user, call[c].address)
  /\ Answer(c)
  /\ UNCHANGED <<users, primary, removed, lock, raced, failures>>

\* Mutant: an address somebody removed can be linked again.
LinkRemoved(c) ==
  /\ At(c, "link:create")
  /\ \/ \E w \in removed :
          /\ wallets[w].address = call[c].address
          /\ wallets' = [wallets EXCEPT ![w].user = call[c].user]
          /\ removed' = removed \ {w}
     \/ /\ ~Known(call[c].address)
        /\ \E w \in Wallet : InsertWallet(w, call[c].user, call[c].address)
        /\ UNCHANGED removed
     \/ UNCHANGED <<wallets, removed>>
  /\ Answer(c)
  /\ UNCHANGED <<users, primary, lock, raced, failures>>

\* The challenge is refused, or the insert meets the unique index, or the
\* wallet is linked.
LinkCreate(c) ==
  /\ At(c, "link:create")
  /\ \/ /\ ~Known(call[c].address)
        /\ \E w \in Wallet : InsertWallet(w, call[c].user, call[c].address)
     \/ UNCHANGED wallets
  /\ Answer(c)
  /\ UNCHANGED <<users, primary, removed, lock, raced, failures>>

----------------------------------------------------------------------------
(* WalletsService.setPrimary.                                              *)

\* Mutant: the check does not ask for deletedAt null.
SetPrimaryOfAny(c, u, w) ==
  /\ call[c] = Idle
  /\ Calling(u)
  /\ w \in OwnedBy(u)
  /\ call' = [call EXCEPT ![c] =
       [step |-> "primary:begin", user |-> u, wallet |-> w, rows |-> {},
        cleared |-> {}]]
  /\ UNCHANGED <<tables, lock, failures>>

SetPrimary(c, u, w) ==
  /\ call[c] = Idle
  /\ Calling(u)
  /\ w \in Linked(u)
  /\ call' = [call EXCEPT ![c] =
       [step |-> "primary:begin", user |-> u, wallet |-> w, rows |-> {},
        cleared |-> {}]]
  /\ UNCHANGED <<tables, lock, failures>>

\* BEGIN, and the snapshot of the updateMany.
PrimaryBegin(c) ==
  /\ At(c, "primary:begin")
  /\ call' = [call EXCEPT ![c].step = "primary:clear",
                          ![c].rows = OwnedBy(call[c].user) \cap primary]
  /\ UNCHANGED <<tables, lock, raced, failures>>

MayLock(c, w) == lock[w] \in {None, c}

\* The updateMany has waited for its rows; those that still match, it writes.
PrimaryClear(c) ==
  /\ At(c, "primary:clear")
  /\ \A w \in call[c].rows : MayLock(c, w)
  /\ LET rows == call[c].rows \cap primary
     IN /\ call' = [call EXCEPT ![c].step = "primary:commit",
                                ![c].cleared = rows]
        /\ lock' = [w \in Wallet |-> IF w \in rows THEN c ELSE lock[w]]
  /\ UNCHANGED <<tables, raced, failures>>

\* Mutant: the transaction is left open.
StillLocked(c) == lock

\* Gives back the locks of c.
Unlocked(c) == [w \in Wallet |-> IF lock[w] = c THEN None ELSE lock[w]]

\* The second update, as soon as it has its row, and COMMIT.
PrimaryCommit(c) ==
  /\ At(c, "primary:commit")
  /\ MayLock(c, call[c].wallet)
  /\ primary' = (primary \ call[c].cleared) \cup {call[c].wallet}
  /\ lock' = Unlocked(c)
  /\ Answer(c)
  /\ UNCHANGED <<users, wallets, removed, raced, failures>>

\* The transaction that holds the row c waits for with its second update.
Holder(c) == IF At(c, "primary:commit") /\ ~MayLock(c, call[c].wallet)
             THEN lock[call[c].wallet] ELSE None

\* Transactions that wait for each other in a circle: the database aborts one.
PrimaryDeadlock(c) ==
  /\ \E circle \in SUBSET Call : /\ c \in circle
                                 /\ {Holder(d) : d \in circle} = circle
  /\ lock' = Unlocked(c)
  /\ Answer(c)
  /\ UNCHANGED <<tables, raced, failures>>

----------------------------------------------------------------------------
(* WalletsService.remove: three statements, no transaction.                *)

Remove(c, u, w) ==
  /\ call[c] = Idle
  /\ Calling(u)
  /\ w \in Linked(u)
  /\ w \notin primary
  /\ call' = [call EXCEPT ![c] =
       [step |-> "remove:count", user |-> u, wallet |-> w]]
  /\ UNCHANGED <<tables, lock, failures>>

RemoveCount(c) ==
  /\ At(c, "remove:count")
  /\ IF Cardinality(Linked(call[c].user)) <= 1
     THEN Answer(c)
     ELSE call' = [call EXCEPT ![c].step = "remove:update"]
  /\ UNCHANGED <<tables, lock, raced, failures>>

\* Mutant: the address column is emptied, so that it can be linked again.
RemoveAndForget(c) ==
  /\ At(c, "remove:update")
  /\ MayLock(c, call[c].wallet)
  /\ removed' = removed \cup {call[c].wallet}
  /\ wallets' = [wallets EXCEPT ![call[c].wallet].address = None]
  /\ Answer(c)
  /\ UNCHANGED <<users, primary, lock, raced, failures>>

RemoveUpdate(c) ==
  /\ At(c, "remove:update")
  /\ MayLock(c, call[c].wallet)
  /\ removed' = removed \cup {call[c].wallet}
  /\ Answer(c)
  /\ UNCHANGED <<users, wallets, primary, lock, raced, failures>>

----------------------------------------------------------------------------

\* The statement a call awaits fails or its process ends: a transaction that
\* is open is rolled back.
Fail(c) ==
  /\ call[c] # Idle
  /\ failures < MaxFailures
  /\ failures' = failures + 1
  /\ lock' = Unlocked(c)
  /\ Answer(c)
  /\ UNCHANGED <<tables, raced>>

Continue(c) ==
  \/ Register(c) \/ IssueTokens(c) \/ LinkCreate(c)
  \/ PrimaryBegin(c) \/ PrimaryClear(c) \/ PrimaryCommit(c)
  \/ PrimaryDeadlock(c)
  \/ RemoveCount(c) \/ RemoveUpdate(c)

Start(c) ==
  \/ \E a \in Address : Login(c, a)
  \/ \E u \in User, a \in Address : Link(c, u, a)
  \/ \E u \in User, w \in Wallet : SetPrimary(c, u, w) \/ Remove(c, u, w)

Next == \E c \in Call : Start(c) \/ Continue(c) \/ Fail(c)

Spec == Init /\ [][Next]_vars

\* The database answers every statement, and a row's lock is handed to those
\* who wait for it in turn: nobody is passed over for ever.
Fairness == \A c \in Call : SF_vars(Continue(c))

FairSpec == Spec /\ Fairness

----------------------------------------------------------------------------
(* Properties.                                                             *)

\* Tables, locks and calls have the shape the schema and the handlers give.
TypeOK ==
  /\ users \subseteq User
  /\ wallets \in [Wallet -> WalletRow \cup {None}]
  /\ primary \subseteq Wallet
  /\ removed \subseteq Wallet
  /\ lock \in [Wallet -> Call \cup {None}]
  /\ call \in [Call -> CallState]
  /\ raced \subseteq users
  /\ failures \in Nat

\* However logins and links of an address race, it ends up with one wallet,
\* of a user that exists.
OneWalletPerAddress ==
  /\ \A v, w \in Wallet :
       /\ wallets[v] # None
       /\ wallets[w] # None
       /\ wallets[v].address = wallets[w].address
       => v = w
  /\ \A w \in Wallet : wallets[w] # None => wallets[w].user \in users

\* A registration never leaves a user behind whom no address leads to.
NoUserWithoutWallet == \A u \in users : OwnedBy(u) # {}

\* An address never changes hands and a removed wallet never comes back.
WalletsAreForGood ==
  [][/\ removed \subseteq removed'
     /\ \A w \in Wallet : wallets[w] # None => wallets'[w] = wallets[w]]_vars

\* A user whose calls never overlapped has exactly one primary wallet, and it
\* is linked, whatever others did and whatever failed on the way.
OneLinkedPrimary ==
  \A u \in users \ raced :
    /\ OwnedBy(u) \cap primary \cap removed = {}
    /\ \E w \in Wallet : OwnedBy(u) \cap primary = {w}

\* No call waits for ever, for the locks of the others in particular.
EveryCallReturns == \A c \in Call : (call[c] # Idle) ~> (call[c] = Idle)

----------------------------------------------------------------------------
(* The book of addresses this implements: every row of the table, linked   *)
(* or removed, is an entry.                                                *)

Entries == {<<wallets[w].address, wallets[w].user>> :
              w \in {v \in Wallet : wallets[v] # None}}

UnlinkedAddresses == {wallets[w].address : w \in removed}

Book == INSTANCE AddressBook
          WITH member <- users, book <- Entries,
               unlinked <- UnlinkedAddresses

\* However first logins, links and removals overlap and whatever fails, the
\* table is the address book that a login relies on: an address leads to one
\* user for good, linked or not, a user comes with an address, and an address
\* that was removed stays so.
ImplementsAddressBook == Book!Spec

----------------------------------------------------------------------------
(* What the code says, and overlapping calls of one user do not do.        *)

\* wallets.service.ts:75, "You must keep at least one linked wallet".
KeepsAWallet == \A u \in users : Linked(u) # {}
=============================================================================
