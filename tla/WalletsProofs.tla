--------------------------- MODULE WalletsProofs ---------------------------
(***************************************************************************)
(* Proofs about Wallets, for every value of its constants.                 *)
(***************************************************************************)
EXTENDS Wallets, TLAPS

Step(c) == Start(c) \/ Continue(c) \/ Fail(c)

HasUser(c, u) == "user" \in DOMAIN call[c] /\ call[c].user = u

----------------------------------------------------------------------------
(* The invariant.                                                          *)

\* Rows that have a flag exist.
FlagsOfRows == primary \cup removed \subseteq {w \in Wallet : wallets[w] # None}

\* A call works on rows of its own user.
OwnRows(c) ==
  "user" \in DOMAIN call[c] =>
    /\ call[c].user \in users
    /\ "wallet" \in DOMAIN call[c] => call[c].wallet \in OwnedBy(call[c].user)
    /\ "rows" \in DOMAIN call[c] => /\ call[c].rows \subseteq OwnedBy(call[c].user)
                                    /\ call[c].cleared \subseteq OwnedBy(call[c].user)

\* Calls of one user at once leave their mark.
Alone ==
  \A u \in User \ raced : \A c, d \in Call :
    HasUser(c, u) /\ HasUser(d, u) => c = d

\* What a call has read of its user's rows is so until it writes.
UpToDate(c) ==
  "user" \in DOMAIN call[c] /\ call[c].user \notin raced =>
    /\ call[c].step \in {"primary:begin", "primary:clear", "primary:commit"}
         => call[c].wallet \notin removed
    /\ At(c, "primary:clear")
         => call[c].rows = OwnedBy(call[c].user) \cap primary
    /\ At(c, "primary:commit")
         => call[c].cleared = OwnedBy(call[c].user) \cap primary
    /\ call[c].step \in {"remove:count", "remove:update"}
         => call[c].wallet \notin primary

Inv == /\ TypeOK
       /\ OneWalletPerAddress
       /\ NoUserWithoutWallet
       /\ OneLinkedPrimary
       /\ FlagsOfRows
       /\ Alone
       /\ \A c \in Call : OwnRows(c) /\ UpToDate(c)

LEMMA InvInit == Init => Inv
  <1>. SUFFICES ASSUME Init PROVE Inv
    OBVIOUS
  <1>1. call \in [Call -> CallState] /\ \A c \in Call : call[c] = Idle
    BY DEF Init, CallState
  <1>2. TypeOK
    BY <1>1, BoundAssumption DEF Init, TypeOK
  <1>3. \A c \in Call : "user" \notin DOMAIN call[c]
    BY <1>1 DEF Idle
  <1>. QED
    BY <1>2, <1>3 DEF Init, Inv, OneWalletPerAddress, NoUserWithoutWallet,
       OneLinkedPrimary, FlagsOfRows, Alone, OwnRows, UpToDate, HasUser

\* What the step and the fields of a call tell of it.
LEMMA CallKinds ==
  ASSUME TypeOK, NEW c \in Call
  PROVE  /\ call[c] \in CallState
         /\ call[c].step \in {"login:create", "login:tokens"} <=> call[c] \in LoginCall
         /\ At(c, "link:create") <=> call[c] \in LinkCall
         /\ call[c].step \in {"remove:count", "remove:update"}
              <=> call[c] \in RemoveCall
         /\ call[c].step \in {"primary:begin", "primary:clear", "primary:commit"}
              <=> call[c] \in SetPrimaryCall
         /\ "user" \in DOMAIN call[c]
              <=> call[c] \in LinkCall \cup RemoveCall \cup SetPrimaryCall
         /\ "wallet" \in DOMAIN call[c] <=> call[c] \in RemoveCall \cup SetPrimaryCall
         /\ "rows" \in DOMAIN call[c] <=> call[c] \in SetPrimaryCall
  <1>1. call[c] \in CallState
    BY DEF TypeOK
  <1>. QED
    BY <1>1 DEF CallState, Idle, At, LoginCall, LinkCall, RemoveCall, SetPrimaryCall

----------------------------------------------------------------------------
(* Type correctness.                                                       *)

LEMMA InsertType ==
  ASSUME TypeOK, NEW w \in Wallet, NEW u \in User, NEW a \in Address,
         InsertWallet(w, u, a)
  PROVE  /\ wallets' \in [Wallet -> WalletRow \cup {None}]
         /\ wallets'[w] = [user |-> u, address |-> a] /\ wallets'[w] # None
         /\ \A v \in Wallet \ {w} : wallets'[v] = wallets[v]
  <1>1. [user |-> u, address |-> a] \in WalletRow
    BY DEF WalletRow
  <1>. QED
    BY <1>1, NoneAssumption DEF InsertWallet, TypeOK

\* What the two updates of setPrimary make of its call.
LEMMA PrimaryCalls ==
  ASSUME TypeOK, NEW c \in Call, call[c] \in SetPrimaryCall
  PROVE  /\ PrimaryBegin(c) =>
              /\ call'[c] \in SetPrimaryCall /\ At(c, "primary:clear")'
              /\ call'[c].rows = OwnedBy(call[c].user) \cap primary
              /\ call'[c].user = call[c].user /\ call'[c].wallet = call[c].wallet
              /\ call'[c].cleared = call[c].cleared
         /\ PrimaryClear(c) =>
              /\ call'[c] \in SetPrimaryCall /\ At(c, "primary:commit")'
              /\ call'[c].cleared = call[c].rows \cap primary
              /\ call'[c].rows = call[c].rows
              /\ call'[c].user = call[c].user /\ call'[c].wallet = call[c].wallet
  <1>1. ASSUME PrimaryBegin(c)
        PROVE  /\ call'[c] \in SetPrimaryCall /\ At(c, "primary:clear")'
               /\ call'[c].rows = OwnedBy(call[c].user) \cap primary
               /\ call'[c].user = call[c].user /\ call'[c].wallet = call[c].wallet
               /\ call'[c].cleared = call[c].cleared
    <2>. DEFINE rows == OwnedBy(call[c].user) \cap primary
    <2>1. rows \in SUBSET Wallet
      BY DEF OwnedBy
    <2>2. call'[c] = [call[c] EXCEPT !.step = "primary:clear", !.rows = rows]
      BY <1>1 DEF PrimaryBegin, TypeOK
    <2>. HIDE DEF rows
    <2>3. /\ call'[c] \in SetPrimaryCall /\ At(c, "primary:clear")'
          /\ call'[c].rows = rows
          /\ call'[c].user = call[c].user /\ call'[c].wallet = call[c].wallet
          /\ call'[c].cleared = call[c].cleared
      BY <2>1, <2>2 DEF SetPrimaryCall, At
    <2>. QED
      BY <2>3 DEF rows
  <1>2. ASSUME PrimaryClear(c)
        PROVE  /\ call'[c] \in SetPrimaryCall /\ At(c, "primary:commit")'
               /\ call'[c].cleared = call[c].rows \cap primary
               /\ call'[c].rows = call[c].rows
               /\ call'[c].user = call[c].user /\ call'[c].wallet = call[c].wallet
    <2>. DEFINE rows == call[c].rows \cap primary
    <2>1. rows \in SUBSET Wallet
      BY DEF SetPrimaryCall
    <2>2. call'[c] = [call[c] EXCEPT !.step = "primary:commit", !.cleared = rows]
      BY <1>2 DEF PrimaryClear, TypeOK
    <2>. HIDE DEF rows
    <2>3. /\ call'[c] \in SetPrimaryCall /\ At(c, "primary:commit")'
          /\ call'[c].cleared = rows /\ call'[c].rows = call[c].rows
          /\ call'[c].user = call[c].user /\ call'[c].wallet = call[c].wallet
      BY <2>1, <2>2 DEF SetPrimaryCall, At
    <2>. QED
      BY <2>3 DEF rows
  <1>. QED
    BY <1>1, <1>2

LEMMA OtherCalls ==
  ASSUME TypeOK, NEW c \in Call, Step(c)
  PROVE  /\ \A d \in Call \ {c} : call'[d] = call[d]
         /\ call' = [d \in Call |-> call'[d]]
  <1>. DEFINE Goal == /\ \A d \in Call \ {c} : call'[d] = call[d]
                      /\ call' = [d \in Call |-> call'[d]]
  <1>1. ASSUME NEW r, call' = [call EXCEPT ![c] = r] PROVE Goal
    BY <1>1 DEF TypeOK
  <1>2. ASSUME Answer(c) PROVE Goal
    BY <1>1, <1>2 DEF Answer
  <1>3. ASSUME NEW s, call' = [call EXCEPT ![c].step = s] PROVE Goal
    BY <1>3 DEF TypeOK
  <1>4. ASSUME PrimaryBegin(c) \/ PrimaryClear(c) PROVE Goal
    BY <1>4 DEF PrimaryBegin, PrimaryClear, TypeOK
  <1>5. ASSUME Start(c) PROVE Goal
    BY <1>1, <1>5 DEF Start, Login, Link, SetPrimary, Remove
  <1>6. ASSUME \/ Register(c) \/ IssueTokens(c) \/ LinkCreate(c) \/ PrimaryCommit(c)
               \/ PrimaryDeadlock(c) \/ RemoveCount(c) \/ RemoveUpdate(c) \/ Fail(c)
        PROVE  Goal
    BY <1>2, <1>3, <1>6 DEF Register, IssueTokens, LinkCreate, PrimaryCommit,
       PrimaryDeadlock, RemoveCount, RemoveUpdate, Fail
  <1>. HIDE DEF Goal
  <1>7. Goal
    BY <1>4, <1>5, <1>6 DEF Step, Continue
  <1>. QED
    BY <1>7 DEF Goal

\* What a call becomes: it begins, moves on with the fields it has, or ends.
LEMMA OwnCall ==
  ASSUME TypeOK, NEW c \in Call, Step(c)
  PROVE  \/ call'[c] = Idle
         \/ call'[c] \in LoginCall /\ call[c] \in LoginCall \cup {Idle}
         \/ /\ call[c] = Idle
            /\ \E u \in User : Calling(u) /\ HasUser(c, u)'
            /\ \/ \E u \in User, a \in Address : Link(c, u, a)
               \/ \E u \in User, w \in Wallet : SetPrimary(c, u, w) \/ Remove(c, u, w)
            /\ call'[c] \in CallState
         \/ /\ call[c] \in RemoveCall /\ call'[c] \in RemoveCall
            /\ call'[c].user = call[c].user /\ call'[c].wallet = call[c].wallet
            /\ RemoveCount(c)
         \/ /\ call[c] \in SetPrimaryCall /\ call'[c] \in SetPrimaryCall
            /\ call'[c].user = call[c].user /\ call'[c].wallet = call[c].wallet
            /\ PrimaryBegin(c) \/ PrimaryClear(c)
  <1>1. CASE Answer(c)
    BY <1>1 DEF Answer, TypeOK
  <1>2. ASSUME NEW a \in Address, Login(c, a) PROVE call'[c] \in LoginCall /\ call[c] = Idle
    BY <1>2 DEF Login, TypeOK, LoginCall
  <1>3. CASE Register(c) /\ ~Answer(c)
    <2>1. call[c] \in LoginCall
      BY <1>3, CallKinds DEF Register, At
    <2>2. call'[c] = [call[c] EXCEPT !.step = "login:tokens"]
      BY <1>3 DEF Register, TypeOK
    <2>3. call'[c] \in LoginCall
      BY <2>1, <2>2 DEF LoginCall
    <2>. QED
      BY <2>1, <2>3
  <1>4. ASSUME NEW u \in User, NEW a \in Address, Link(c, u, a)
        PROVE  /\ call[c] = Idle /\ Calling(u) /\ HasUser(c, u)'
               /\ call'[c] \in CallState
    BY <1>4 DEF Link, HasUser, TypeOK, CallState, LinkCall
  <1>5. ASSUME NEW u \in User, NEW w \in Wallet, SetPrimary(c, u, w) \/ Remove(c, u, w)
        PROVE  /\ call[c] = Idle /\ Calling(u) /\ HasUser(c, u)'
               /\ call'[c] \in CallState
    <2>1. CASE SetPrimary(c, u, w)
      BY <2>1 DEF SetPrimary, HasUser, TypeOK, CallState, SetPrimaryCall
    <2>2. CASE Remove(c, u, w)
      BY <2>2 DEF Remove, HasUser, TypeOK, CallState, RemoveCall
    <2>. QED
      BY <1>5, <2>1, <2>2
  <1>6. CASE RemoveCount(c) /\ ~Answer(c)
    <2>1. call[c] \in RemoveCall
      BY <1>6, CallKinds DEF RemoveCount, At
    <2>2. call'[c] = [call[c] EXCEPT !.step = "remove:update"]
      BY <1>6 DEF RemoveCount, TypeOK
    <2>3. call'[c] \in RemoveCall /\ call'[c].user = call[c].user
          /\ call'[c].wallet = call[c].wallet
      BY <2>1, <2>2 DEF RemoveCall
    <2>. QED
      BY <1>6, <2>1, <2>3
  <1>7. CASE PrimaryBegin(c) \/ PrimaryClear(c)
    <2>1. call[c] \in SetPrimaryCall
      BY <1>7, CallKinds DEF PrimaryBegin, PrimaryClear, At
    <2>. QED
      BY <1>7, <2>1, PrimaryCalls
  <1>8. CASE \/ IssueTokens(c) \/ LinkCreate(c) \/ PrimaryCommit(c)
             \/ PrimaryDeadlock(c) \/ RemoveUpdate(c) \/ Fail(c)
    BY <1>1, <1>8 DEF IssueTokens, LinkCreate, PrimaryCommit, PrimaryDeadlock,
       RemoveUpdate, Fail
  <1>. QED
    BY <1>1, <1>2, <1>3, <1>4, <1>5, <1>6, <1>7, <1>8 DEF Step, Start, Continue

LEMMA TypeStep ==
  ASSUME TypeOK, FlagsOfRows, \A c \in Call : OwnRows(c), [Next]_vars PROVE TypeOK'
  <1>. USE BoundAssumption
  <1>1. ASSUME NEW c \in Call, Step(c) PROVE TypeOK'
    <2>1. call' \in [Call -> CallState]
      <3>1. call'[c] \in CallState
        BY <1>1, OwnCall DEF CallState
      <3>2. call' = [d \in Call |-> call'[d]] /\ \A d \in Call \ {c} : call'[d] = call[d]
        BY <1>1, OtherCalls
      <3>3. \A d \in Call : call'[d] \in CallState
        BY <3>1, <3>2 DEF TypeOK
      <3>. QED
        BY <3>2, <3>3
    <2>2. CASE Start(c)
      BY <2>1, <2>2 DEF Start, Login, Link, SetPrimary, Remove, Calling, tables, TypeOK
    <2>3. CASE Register(c)
      <3>1. call[c].address \in Address
        BY <2>3, CallKinds DEF Register, At, LoginCall
      <3>2. CASE /\ users' = users /\ wallets' = wallets /\ primary' = primary
        BY <2>1, <2>3, <3>2 DEF Register, TypeOK
      <3>3. ASSUME NEW u \in User, NEW w \in Wallet, users' = users \cup {u},
                   InsertWallet(w, u, call[c].address), primary' = primary \cup {w}
            PROVE  TypeOK'
        <4>1. wallets' \in [Wallet -> WalletRow \cup {None}]
          BY <3>1, <3>3, InsertType
        <4>. QED
          BY <2>1, <2>3, <3>3, <4>1 DEF Register, TypeOK
      <3>. QED
        BY <2>3, <3>2, <3>3 DEF Register
    <2>4. CASE LinkCreate(c)
      <3>1. call[c].user \in User /\ call[c].address \in Address
        BY <2>4, CallKinds DEF LinkCreate, LinkCall
      <3>2. wallets' \in [Wallet -> WalletRow \cup {None}]
        BY <2>4, <3>1, InsertType DEF LinkCreate, TypeOK
      <3>. QED
        BY <2>1, <2>4, <3>2 DEF LinkCreate, TypeOK
    <2>5. CASE IssueTokens(c) \/ PrimaryBegin(c) \/ RemoveCount(c)
      BY <2>1, <2>5 DEF IssueTokens, PrimaryBegin, RemoveCount, tables, TypeOK
    <2>6. CASE PrimaryClear(c)
      BY <2>1, <2>6 DEF PrimaryClear, tables, TypeOK
    <2>7. CASE PrimaryCommit(c) \/ PrimaryDeadlock(c) \/ RemoveUpdate(c) \/ Fail(c)
      <3>1. Unlocked(c) \in [Wallet -> Call \cup {None}]
        BY DEF Unlocked, TypeOK
      <3>2. CASE PrimaryCommit(c)
        <4>1. call[c].wallet \in Wallet
          BY <3>2, CallKinds DEF PrimaryCommit, At, SetPrimaryCall
        <4>. QED
          BY <2>1, <3>1, <3>2, <4>1 DEF PrimaryCommit, TypeOK
      <3>3. CASE RemoveUpdate(c)
        <4>1. call[c].wallet \in Wallet
          BY <3>3, CallKinds DEF RemoveUpdate, At, RemoveCall
        <4>. QED
          BY <2>1, <3>3, <4>1 DEF RemoveUpdate, TypeOK
      <3>4. CASE PrimaryDeadlock(c) \/ Fail(c)
        BY <2>1, <3>1, <3>4 DEF PrimaryDeadlock, Fail, tables, TypeOK
      <3>. QED
        BY <2>7, <3>2, <3>3, <3>4
    <2>. QED
      BY <1>1, <2>2, <2>3, <2>4, <2>5, <2>6, <2>7 DEF Step, Continue
  <1>2. CASE UNCHANGED vars
    BY <1>2 DEF vars, TypeOK
  <1>. QED
    BY <1>1, <1>2 DEF Next, Step

----------------------------------------------------------------------------
(* What a step does to the tables.                                         *)

\* The inserts: of a new user's first wallet, or of a further one.
Insert(c) ==
  \/ /\ Register(c) /\ ~Known(call[c].address)
     /\ \E u \in User \ users, w \in Wallet :
          /\ users' = users \cup {u}
          /\ InsertWallet(w, u, call[c].address)
          /\ primary' = primary \cup {w}
  \/ /\ LinkCreate(c) /\ ~Known(call[c].address)
     /\ users' = users /\ primary' = primary
     /\ \E w \in Wallet : InsertWallet(w, call[c].user, call[c].address)

LEMMA TableSteps ==
  ASSUME NEW c \in Call, Step(c)
  PROVE  \/ Insert(c) /\ removed' = removed /\ raced' = raced
         \/ /\ PrimaryCommit(c)
            /\ UNCHANGED <<users, wallets, removed, raced>>
            /\ primary' = (primary \ call[c].cleared) \cup {call[c].wallet}
         \/ /\ RemoveUpdate(c)
            /\ UNCHANGED <<users, wallets, primary, raced>>
            /\ removed' = removed \cup {call[c].wallet}
         \/ UNCHANGED <<users, wallets, primary, removed>> /\ raced \subseteq raced'
  BY DEF Step, Start, Continue, Login, Link, SetPrimary, Remove, Calling, Register,
     IssueTokens, LinkCreate, PrimaryBegin, PrimaryClear, PrimaryCommit,
     PrimaryDeadlock, RemoveCount, RemoveUpdate, Fail, Insert, tables

\* Rows are for good, flags of removal and the marks of overlapping calls stay.
LEMMA RowsStay ==
  ASSUME Inv, [Next]_vars
  PROVE  /\ users \subseteq users' /\ removed \subseteq removed' /\ raced \subseteq raced'
         /\ \A w \in Wallet : wallets[w] # None => wallets'[w] = wallets[w]
         /\ \A u \in User : OwnedBy(u) \subseteq OwnedBy(u)'
  <1>0. TypeOK
    BY DEF Inv
  <1>1. /\ users \subseteq users' /\ removed \subseteq removed' /\ raced \subseteq raced'
        /\ \A w \in Wallet : wallets[w] # None => wallets'[w] = wallets[w]
    <2>1. ASSUME NEW c \in Call, Step(c)
          PROVE  /\ users \subseteq users' /\ removed \subseteq removed'
                 /\ raced \subseteq raced'
                 /\ \A w \in Wallet : wallets[w] # None => wallets'[w] = wallets[w]
      <3>1. ASSUME NEW w \in Wallet, NEW u, NEW a, InsertWallet(w, u, a)
            PROVE  \A v \in Wallet : wallets[v] # None => wallets'[v] = wallets[v]
        BY <1>0, <3>1 DEF InsertWallet, TypeOK
      <3>2. CASE Insert(c) /\ removed' = removed /\ raced' = raced
        BY <3>1, <3>2 DEF Insert
      <3>. QED
        BY <2>1, <3>2, TableSteps
    <2>. QED
      BY <2>1 DEF Next, Step, vars
  <1>. QED
    BY <1>1 DEF OwnedBy

\* What an insert does.
LEMMA InsertStep ==
  ASSUME Inv, NEW c \in Call, Insert(c)
  PROVE  \E w \in Wallet, u \in User, a \in Address :
           /\ ~Known(a) /\ InsertWallet(w, u, a)
           /\ w \notin primary \cup removed
           /\ \/ /\ u \notin users /\ users' = users \cup {u}
                 /\ primary' = primary \cup {w}
                 /\ ~HasUser(c, u)
              \/ HasUser(c, u) /\ u \in users /\ users' = users /\ primary' = primary
  <1>0. TypeOK /\ FlagsOfRows /\ OwnRows(c)
    BY DEF Inv
  <1>1. CASE Register(c) /\ ~Known(call[c].address)
             /\ \E u \in User \ users, w \in Wallet :
                  /\ users' = users \cup {u}
                  /\ InsertWallet(w, u, call[c].address)
                  /\ primary' = primary \cup {w}
    <2>1. call[c].address \in Address /\ \A u : ~HasUser(c, u)
      BY <1>0, <1>1, CallKinds DEF Register, At, LoginCall, HasUser
    <2>. QED
      BY <1>0, <1>1, <2>1 DEF InsertWallet, FlagsOfRows
  <1>2. CASE LinkCreate(c) /\ ~Known(call[c].address)
             /\ users' = users /\ primary' = primary
             /\ \E w \in Wallet : InsertWallet(w, call[c].user, call[c].address)
    <2>1. call[c].address \in Address /\ HasUser(c, call[c].user)
      BY <1>0, <1>2, CallKinds DEF LinkCreate, LinkCall, HasUser
    <2>2. call[c].user \in users /\ users \subseteq User
      BY <1>0, <2>1 DEF OwnRows, HasUser, TypeOK
    <2>. QED
      BY <1>0, <1>2, <2>1, <2>2 DEF InsertWallet, FlagsOfRows
  <1>. QED
    BY <1>1, <1>2 DEF Insert

LEMMA RowsStep ==
  ASSUME Inv, [Next]_vars
  PROVE  OneWalletPerAddress' /\ NoUserWithoutWallet' /\ FlagsOfRows'
  <1>0. /\ TypeOK /\ OneWalletPerAddress /\ NoUserWithoutWallet /\ FlagsOfRows
        /\ \A c \in Call : OwnRows(c)
    BY DEF Inv
  <1>1. ASSUME NEW c \in Call, Insert(c), removed' = removed
        PROVE  OneWalletPerAddress' /\ NoUserWithoutWallet' /\ FlagsOfRows'
    <2>1. PICK w \in Wallet, u \in User, a \in Address :
            /\ ~Known(a) /\ InsertWallet(w, u, a)
            /\ w \notin primary \cup removed
            /\ \/ users' = users \cup {u} /\ primary' = primary \cup {w}
               \/ u \in users /\ users' = users /\ primary' = primary
      BY <1>1, InsertStep
    <2>2. /\ wallets[w] = None /\ wallets'[w] # None
          /\ wallets'[w].user = u /\ wallets'[w].address = a
          /\ \A v \in Wallet \ {w} : wallets'[v] = wallets[v]
      BY <1>0, <2>1, InsertType DEF InsertWallet
    <2>3. OneWalletPerAddress'
      BY <1>0, <2>1, <2>2 DEF OneWalletPerAddress, Known
    <2>4. NoUserWithoutWallet'
      BY <1>0, <2>1, <2>2 DEF NoUserWithoutWallet, OwnedBy
    <2>5. FlagsOfRows'
      BY <1>0, <1>1, <2>1, <2>2 DEF FlagsOfRows
    <2>. QED
      BY <2>3, <2>4, <2>5
  <1>2. ASSUME NEW c \in Call, Step(c), ~Insert(c)
        PROVE  OneWalletPerAddress' /\ NoUserWithoutWallet' /\ FlagsOfRows'
    <2>1. /\ users' = users /\ wallets' = wallets
          /\ primary' \cup removed' \subseteq primary \cup removed \cup
               (IF PrimaryCommit(c) \/ RemoveUpdate(c) THEN {call[c].wallet} ELSE {})
      BY <1>2, TableSteps
    <2>2. PrimaryCommit(c) \/ RemoveUpdate(c) =>
            call[c].wallet \in Wallet /\ wallets[call[c].wallet] # None
      BY <1>0, CallKinds DEF PrimaryCommit, RemoveUpdate, At, OwnRows, OwnedBy
    <2>. QED
      BY <1>0, <2>1, <2>2 DEF OneWalletPerAddress, NoUserWithoutWallet, OwnedBy,
         FlagsOfRows
  <1>3. CASE UNCHANGED vars
    BY <1>0, <1>3 DEF vars, OneWalletPerAddress, NoUserWithoutWallet, OwnedBy,
       FlagsOfRows
  <1>4. \A c \in Call : Insert(c) => removed' = removed
    BY DEF Insert, Register, LinkCreate
  <1>. QED
    BY <1>1, <1>2, <1>3, <1>4 DEF Next, Step
----------------------------------------------------------------------------
(* Calls of one user.                                                      *)

\* A call that has a user had that user before, or begins.
LEMMA UserStays ==
  ASSUME TypeOK, NEW c \in Call, Step(c), NEW u \in User, HasUser(c, u)'
  PROVE  HasUser(c, u) \/ Calling(u)
  <1>1. ASSUME call'[c] \in LoginCall \cup {Idle} PROVE FALSE
    BY <1>1 DEF HasUser, LoginCall, Idle
  <1>2. ASSUME call[c] \in RemoveCall \cup SetPrimaryCall, call'[c].user = call[c].user
        PROVE  HasUser(c, u)
    BY <1>2 DEF HasUser, RemoveCall, SetPrimaryCall
  <1>3. ASSUME NEW v \in User, Calling(v), HasUser(c, v)' PROVE Calling(u)
    BY <1>3 DEF HasUser
  <1>. QED
    BY <1>1, <1>2, <1>3, OwnCall

LEMMA AloneStep ==
  ASSUME Inv, NEW c \in Call, Step(c) PROVE Alone'
  <1>0. TypeOK /\ Alone /\ [Next]_vars
    BY DEF Inv, Next, Step
  <1>1. raced \subseteq raced'
    BY <1>0, RowsStay
  <1>2. ASSUME NEW u \in User \ raced', NEW d \in Call, NEW e \in Call,
               HasUser(d, u)', HasUser(e, u)', d # e
        PROVE  FALSE
    <2>1. u \notin raced /\ \A f \in Call \ {c} : HasUser(f, u)' => HasUser(f, u)
      BY <1>0, <1>1, <1>2, OtherCalls DEF HasUser
    <2>2. PICK f \in Call \ {c} : HasUser(f, u)
      BY <1>2, <2>1
    <2>3. d \in Call \ {c} /\ e \in Call \ {c} => FALSE
      BY <1>0, <1>2, <2>1 DEF Alone
    <2>4. HasUser(c, u)'
      BY <1>2, <2>3
    <2>5. CASE HasUser(c, u)
      BY <1>0, <2>1, <2>2, <2>5 DEF Alone
    <2>6. CASE Calling(u)
      BY <1>2, <2>2, <2>6 DEF Calling, HasUser
    <2>. QED
      BY <1>0, <2>4, <2>5, <2>6, UserStays
  <1>. QED
    BY <1>2 DEF Alone

\* The rows of a user change only by that user's calls.
LEMMA Quiet ==
  ASSUME Inv, NEW c \in Call, Step(c), NEW u \in users, ~HasUser(c, u)
  PROVE  /\ OwnedBy(u)' = OwnedBy(u)
         /\ (OwnedBy(u) \cap primary)' = OwnedBy(u) \cap primary
         /\ (OwnedBy(u) \cap removed)' = OwnedBy(u) \cap removed
  <1>. DEFINE Goal == /\ OwnedBy(u)' = OwnedBy(u)
                      /\ OwnedBy(u)' \cap primary' = OwnedBy(u) \cap primary
                      /\ OwnedBy(u)' \cap removed' = OwnedBy(u) \cap removed
  <1>0. TypeOK /\ OwnRows(c)
    BY DEF Inv
  <1>1. ASSUME Insert(c), removed' = removed PROVE Goal
    <2>1. PICK w \in Wallet, v \in User, a \in Address :
           /\ ~Known(a) /\ InsertWallet(w, v, a)
           /\ w \notin primary \cup removed
           /\ \/ /\ v \notin users /\ users' = users \cup {v}
                 /\ primary' = primary \cup {w}
                 /\ ~HasUser(c, v)
              \/ HasUser(c, v) /\ v \in users /\ users' = users /\ primary' = primary
      BY <1>1, InsertStep
    <2>2. /\ wallets[w] = None /\ v # u /\ wallets'[w].user = v
          /\ \A x \in Wallet \ {w} : wallets'[x] = wallets[x]
      BY <1>0, <2>1, InsertType DEF InsertWallet
    <2>3. OwnedBy(u)' = OwnedBy(u) /\ w \notin OwnedBy(u)
      BY <2>2 DEF OwnedBy
    <2>4. primary' \subseteq primary \cup {w} /\ primary \subseteq primary'
      BY <2>1
    <2>. QED
      BY <1>1, <2>3, <2>4
  <1>2. ASSUME PrimaryCommit(c), UNCHANGED <<wallets, removed>>,
               primary' = (primary \ call[c].cleared) \cup {call[c].wallet}
        PROVE  Goal
    <2>1. call[c] \in SetPrimaryCall
      BY <1>0, <1>2, CallKinds DEF PrimaryCommit, At
    <2>2. /\ call[c].user # u
          /\ call[c].wallet \in OwnedBy(call[c].user)
          /\ call[c].cleared \subseteq OwnedBy(call[c].user)
      BY <1>0, <2>1 DEF OwnRows, SetPrimaryCall, HasUser
    <2>3. OwnedBy(u)' = OwnedBy(u) /\ OwnedBy(u) \cap OwnedBy(call[c].user) = {}
      BY <1>2, <2>2 DEF OwnedBy
    <2>. QED
      BY <1>2, <2>2, <2>3
  <1>3. ASSUME RemoveUpdate(c), UNCHANGED <<wallets, primary>>,
               removed' = removed \cup {call[c].wallet}
        PROVE  Goal
    <2>1. call[c] \in RemoveCall
      BY <1>0, <1>3, CallKinds DEF RemoveUpdate, At
    <2>2. call[c].user # u /\ call[c].wallet \in OwnedBy(call[c].user)
      BY <1>0, <2>1 DEF OwnRows, RemoveCall, HasUser
    <2>3. OwnedBy(u)' = OwnedBy(u) /\ call[c].wallet \notin OwnedBy(u)
      BY <1>3, <2>2 DEF OwnedBy
    <2>. QED
      BY <1>3, <2>3
  <1>4. ASSUME UNCHANGED <<wallets, primary, removed>> PROVE Goal
    BY <1>4 DEF OwnedBy
  <1>. HIDE DEF Goal
  <1>5. Goal
    BY <1>1, <1>2, <1>3, <1>4, TableSteps
  <1>. QED
    BY <1>5 DEF Goal

LEMMA OwnRowsStep ==
  ASSUME Inv, NEW c \in Call, Step(c) PROVE \A d \in Call : OwnRows(d)'
  <1>0. TypeOK /\ (\A d \in Call : OwnRows(d)) /\ [Next]_vars
    BY DEF Inv, Next, Step
  <1>1. users \subseteq users' /\ \A u \in User : OwnedBy(u) \subseteq OwnedBy(u)'
    BY <1>0, RowsStay
  <1>2. users \subseteq User
    BY <1>0 DEF TypeOK
  <1>3. ASSUME NEW d \in Call \ {c} PROVE OwnRows(d)'
    <2>1. call'[d] = call[d] /\ OwnRows(d)
      BY <1>0, OtherCalls
    <2>. QED
      BY <1>1, <1>2, <2>1 DEF OwnRows
  <1>4. OwnRows(c)'
    <2>1. ASSUME call'[c] \in LoginCall \cup {Idle} PROVE OwnRows(c)'
      BY <2>1 DEF OwnRows, LoginCall, Idle
    <2>2. ASSUME NEW u \in User, NEW a \in Address, Link(c, u, a) PROVE OwnRows(c)'
      <3>1. call'[c] = [step |-> "link:create", user |-> u, address |-> a] /\ u \in users
        BY <1>0, <2>2 DEF Link, Calling, TypeOK
      <3>. QED
        BY <1>1, <3>1 DEF OwnRows
    <2>3. ASSUME NEW u \in User, NEW w \in Wallet, SetPrimary(c, u, w) PROVE OwnRows(c)'
      <3>1. /\ call'[c] = [step |-> "primary:begin", user |-> u, wallet |-> w,
                           rows |-> {}, cleared |-> {}]
            /\ u \in users /\ w \in OwnedBy(u)
        BY <1>0, <2>3 DEF SetPrimary, Calling, Linked, TypeOK
      <3>. QED
        BY <1>1, <3>1 DEF OwnRows
    <2>4. ASSUME NEW u \in User, NEW w \in Wallet, Remove(c, u, w) PROVE OwnRows(c)'
      <3>1. /\ call'[c] = [step |-> "remove:count", user |-> u, wallet |-> w]
            /\ u \in users /\ w \in OwnedBy(u)
        BY <1>0, <2>4 DEF Remove, Calling, Linked, TypeOK
      <3>. QED
        BY <1>1, <3>1 DEF OwnRows
    <2>5. ASSUME call[c] \in RemoveCall, call'[c] \in RemoveCall,
                 call'[c].user = call[c].user, call'[c].wallet = call[c].wallet
          PROVE  OwnRows(c)'
      <3>1. call[c].user \in users /\ call[c].wallet \in OwnedBy(call[c].user)
        BY <1>0, <2>5 DEF OwnRows, RemoveCall
      <3>2. "rows" \notin DOMAIN call'[c]
        BY <2>5 DEF RemoveCall
      <3>. QED
        BY <1>1, <1>2, <2>5, <3>1, <3>2 DEF OwnRows
    <2>6. ASSUME call[c] \in SetPrimaryCall, call'[c] \in SetPrimaryCall,
                 call'[c].user = call[c].user, call'[c].wallet = call[c].wallet,
                 PrimaryBegin(c) \/ PrimaryClear(c)
          PROVE  OwnRows(c)'
      <3>1. /\ call[c].user \in users /\ call[c].wallet \in OwnedBy(call[c].user)
            /\ call[c].rows \subseteq OwnedBy(call[c].user)
            /\ call[c].cleared \subseteq OwnedBy(call[c].user)
        BY <1>0, <2>6 DEF OwnRows, SetPrimaryCall
      <3>2. /\ call'[c].rows \subseteq OwnedBy(call[c].user)
            /\ call'[c].cleared \subseteq OwnedBy(call[c].user)
        BY <1>0, <2>6, <3>1, PrimaryCalls
      <3>. QED
        BY <1>1, <1>2, <2>6, <3>1, <3>2 DEF OwnRows
    <2>. QED
      BY <1>0, <2>1, <2>2, <2>3, <2>4, <2>5, <2>6, OwnCall
  <1>. QED
    BY <1>3, <1>4
\* What the calls of a user on its own have read stays so.
LEMMA UpToDateStep ==
  ASSUME Inv, NEW c \in Call, Step(c) PROVE \A d \in Call : UpToDate(d)'
  <1>0. /\ TypeOK /\ Alone /\ (\A d \in Call : OwnRows(d) /\ UpToDate(d))
        /\ [Next]_vars
    BY DEF Inv, Next, Step
  <1>1. raced \subseteq raced' /\ users \subseteq User
    BY <1>0, RowsStay DEF TypeOK
  <1>2. ASSUME NEW d \in Call \ {c} PROVE UpToDate(d)'
    <2>1. call'[d] = call[d] /\ OwnRows(d) /\ UpToDate(d)
      BY <1>0, OtherCalls
    <2>2. ASSUME NEW u, u = call[d].user, "user" \in DOMAIN call[d], u \notin raced
          PROVE  /\ OwnedBy(u)' = OwnedBy(u)
                 /\ (OwnedBy(u) \cap primary)' = OwnedBy(u) \cap primary
                 /\ (OwnedBy(u) \cap removed)' = OwnedBy(u) \cap removed
      <3>1. u \in users
        BY <2>1, <2>2 DEF OwnRows
      <3>2. ~HasUser(c, u)
        BY <1>0, <1>1, <2>2, <3>1 DEF Alone, HasUser
      <3>. QED
        BY <3>1, <3>2, Quiet
    <2>3. SUFFICES ASSUME "user" \in DOMAIN call[d], call[d].user \notin raced
                   PROVE  UpToDate(d)'
      BY <1>1, <2>1 DEF UpToDate
    <2>4. PICK u : u = call[d].user
      OBVIOUS
    <2>5. /\ OwnedBy(u)' = OwnedBy(u)
          /\ OwnedBy(u)' \cap primary' = OwnedBy(u) \cap primary
          /\ OwnedBy(u)' \cap removed' = OwnedBy(u) \cap removed
      BY <2>2, <2>3, <2>4
    <2>6. "wallet" \in DOMAIN call[d] => call[d].wallet \in OwnedBy(u)
      BY <2>1, <2>3, <2>4 DEF OwnRows
    <2>7. call[d].step \in {"primary:begin", "primary:clear", "primary:commit",
                            "remove:count", "remove:update"}
            => "wallet" \in DOMAIN call[d]
      BY <1>0, CallKinds
    <2>. QED
      BY <2>1, <2>3, <2>4, <2>5, <2>6, <2>7 DEF UpToDate, At
  <1>3. UpToDate(c)'
    <2>1. ASSUME call'[c] \in LoginCall \cup {Idle} PROVE UpToDate(c)'
      BY <2>1 DEF UpToDate, LoginCall, Idle
    <2>2. ASSUME NEW u \in User, NEW a \in Address, Link(c, u, a) PROVE UpToDate(c)'
      <3>1. call'[c] = [step |-> "link:create", user |-> u, address |-> a]
        BY <1>0, <2>2 DEF Link, TypeOK
      <3>. QED
        BY <3>1 DEF UpToDate, At
    <2>3. ASSUME NEW u \in User, NEW w \in Wallet, SetPrimary(c, u, w) PROVE UpToDate(c)'
      <3>1. /\ call'[c] = [step |-> "primary:begin", user |-> u, wallet |-> w,
                           rows |-> {}, cleared |-> {}]
            /\ w \notin removed /\ removed' = removed
        BY <1>0, <2>3 DEF SetPrimary, Linked, TypeOK, tables
      <3>. QED
        BY <3>1 DEF UpToDate, At
    <2>4. ASSUME NEW u \in User, NEW w \in Wallet, Remove(c, u, w) PROVE UpToDate(c)'
      <3>1. /\ call'[c] = [step |-> "remove:count", user |-> u, wallet |-> w]
            /\ w \notin primary /\ primary' = primary
        BY <1>0, <2>4 DEF Remove, TypeOK, tables
      <3>. QED
        BY <3>1 DEF UpToDate, At
    <2>5. ASSUME call[c] \in RemoveCall, call'[c] \in RemoveCall,
                 call'[c].user = call[c].user, call'[c].wallet = call[c].wallet,
                 RemoveCount(c)
          PROVE  UpToDate(c)'
      <3>1. call[c].user \notin raced => call[c].wallet \notin primary
        BY <1>0, <2>5, CallKinds DEF UpToDate
      <3>2. primary' = primary /\ raced' = raced
        BY <2>5 DEF RemoveCount, tables
      <3>3. call'[c].step \in {"remove:count", "remove:update"}
        BY <2>5 DEF RemoveCall
      <3>. QED
        BY <2>5, <3>1, <3>2, <3>3 DEF UpToDate, At
    <2>6. ASSUME call[c] \in SetPrimaryCall, call'[c] \in SetPrimaryCall,
                 call'[c].user = call[c].user, call'[c].wallet = call[c].wallet,
                 PrimaryBegin(c) \/ PrimaryClear(c)
          PROVE  UpToDate(c)'
      <3>1. UNCHANGED <<wallets, primary, removed, raced>>
        BY <2>6 DEF PrimaryBegin, PrimaryClear, tables
      <3>2. call[c].user \notin raced => call[c].wallet \notin removed
        BY <1>0, <2>6, CallKinds DEF UpToDate
      <3>3. PICK u : u = call[c].user
        OBVIOUS
      <3>4. OwnedBy(u)' = OwnedBy(u)
        BY <3>1 DEF OwnedBy
      <3>5. CASE PrimaryBegin(c)
        <4>1. At(c, "primary:clear")' /\ call'[c].rows = OwnedBy(u) \cap primary
          BY <1>0, <2>6, <3>3, <3>5, PrimaryCalls
        <4>. QED
          BY <2>6, <3>1, <3>2, <3>3, <3>4, <4>1 DEF UpToDate, At
      <3>6. CASE PrimaryClear(c)
        <4>1. u \notin raced => call[c].rows = OwnedBy(u) \cap primary
          BY <1>0, <2>6, <3>3, <3>6, CallKinds DEF UpToDate, PrimaryClear
        <4>2. /\ At(c, "primary:commit")'
              /\ u \notin raced => call'[c].cleared = OwnedBy(u) \cap primary
          BY <1>0, <2>6, <3>6, <4>1, PrimaryCalls
        <4>. QED
          BY <2>6, <3>1, <3>2, <3>3, <3>4, <4>2 DEF UpToDate, At
      <3>. QED
        BY <2>6, <3>5, <3>6
    <2>. QED
      BY <1>0, <2>1, <2>2, <2>3, <2>4, <2>5, <2>6, OwnCall
  <1>. QED
    BY <1>2, <1>3

----------------------------------------------------------------------------
(* One linked primary.                                                     *)

LEMMA PrimaryStep ==
  ASSUME Inv, NEW c \in Call, Step(c) PROVE OneLinkedPrimary'
  <1>0. /\ TypeOK /\ OneLinkedPrimary /\ OneWalletPerAddress /\ FlagsOfRows
        /\ OwnRows(c) /\ UpToDate(c) /\ [Next]_vars
    BY DEF Inv, Next, Step
  <1>1. raced \subseteq raced' /\ users \subseteq User
    BY <1>0, RowsStay DEF TypeOK
  <1>2. ASSUME NEW u, u \in users' \ raced'
        PROVE  /\ OwnedBy(u)' \cap primary' \cap removed' = {}
               /\ \E w \in Wallet : OwnedBy(u)' \cap primary' = {w}
    <2>. DEFINE Goal == /\ OwnedBy(u)' \cap primary' \cap removed' = {}
                        /\ \E w \in Wallet : OwnedBy(u)' \cap primary' = {w}
    <2>1. ASSUME u \in users, ~HasUser(c, u) PROVE Goal
      <3>1. /\ OwnedBy(u)' = OwnedBy(u)
            /\ OwnedBy(u)' \cap primary' = OwnedBy(u) \cap primary
            /\ OwnedBy(u)' \cap removed' = OwnedBy(u) \cap removed
        BY <2>1, Quiet
      <3>2. /\ OwnedBy(u) \cap primary \cap removed = {}
            /\ \E w \in Wallet : OwnedBy(u) \cap primary = {w}
        BY <1>0, <1>1, <1>2, <2>1 DEF OneLinkedPrimary
      <3>. QED
        BY <3>1, <3>2
    <2>2. ASSUME Insert(c), removed' = removed, u \notin users \/ HasUser(c, u)
          PROVE  Goal
      <3>1. PICK w \in Wallet, v \in User, a \in Address :
             /\ ~Known(a) /\ InsertWallet(w, v, a)
             /\ w \notin primary \cup removed
             /\ \/ /\ v \notin users /\ users' = users \cup {v}
                   /\ primary' = primary \cup {w}
                   /\ ~HasUser(c, v)
                \/ HasUser(c, v) /\ v \in users /\ users' = users /\ primary' = primary
        BY <2>2, InsertStep
      <3>2. /\ wallets[w] = None /\ wallets'[w] # None /\ wallets'[w].user = v
            /\ \A x \in Wallet \ {w} : wallets'[x] = wallets[x]
        BY <1>0, <3>1, InsertType DEF InsertWallet
      <3>3. CASE u \notin users
        <4>1. u = v /\ primary' = primary \cup {w}
          BY <1>2, <3>1, <3>3
        <4>2. OwnedBy(u)' = {w}
          BY <1>0, <3>2, <3>3, <4>1 DEF OwnedBy, OneWalletPerAddress
        <4>. QED
          BY <2>2, <3>1, <4>1, <4>2
      <3>4. CASE u \in users
        <4>1. HasUser(c, u)
          BY <2>2, <3>4
        <4>2. primary' = primary
          <5>1. CASE HasUser(c, v)
            BY <3>1, <5>1
          <5>2. CASE ~HasUser(c, v)
            <6>1. call[c] \in LoginCall \/ call[c] \in LinkCall
              BY <1>0, <2>2, CallKinds DEF Insert, Register, LinkCreate, At
            <6>2. ASSUME Register(c) PROVE FALSE
              BY <1>0, <4>1, <6>2, CallKinds DEF Register, At, HasUser, LoginCall
            <6>. QED
              BY <2>2, <6>2 DEF Insert
          <5>. QED
            BY <5>1, <5>2
        <4>3. OwnedBy(u)' \subseteq OwnedBy(u) \cup {w} /\ OwnedBy(u) \subseteq OwnedBy(u)'
          BY <3>2 DEF OwnedBy
        <4>4. OwnedBy(u)' \cap primary' = OwnedBy(u) \cap primary
          BY <3>1, <4>2, <4>3
        <4>5. /\ OwnedBy(u) \cap primary \cap removed = {}
              /\ \E x \in Wallet : OwnedBy(u) \cap primary = {x}
          BY <1>0, <1>1, <1>2, <3>4 DEF OneLinkedPrimary
        <4>. QED
          BY <2>2, <4>4, <4>5
      <3>. QED
        BY <3>3, <3>4
    <2>3. ASSUME u \in users, HasUser(c, u), PrimaryCommit(c),
                 UNCHANGED <<wallets, removed>>,
                 primary' = (primary \ call[c].cleared) \cup {call[c].wallet}
          PROVE  Goal
      <3>1. /\ call[c].cleared = OwnedBy(u) \cap primary
            /\ call[c].wallet \notin removed
        BY <1>0, <1>1, <1>2, <2>3 DEF UpToDate, HasUser, PrimaryCommit, At
      <3>2. call[c].wallet \in OwnedBy(u)
        BY <1>0, <2>3, CallKinds DEF OwnRows, HasUser, PrimaryCommit, At
      <3>3. OwnedBy(u)' = OwnedBy(u) /\ OwnedBy(u) \subseteq Wallet
        BY <2>3 DEF OwnedBy
      <3>4. OwnedBy(u)' \cap primary' = {call[c].wallet}
        BY <2>3, <3>1, <3>2, <3>3
      <3>. QED
        BY <2>3, <3>1, <3>2, <3>3, <3>4
    <2>4. ASSUME u \in users, HasUser(c, u), RemoveUpdate(c),
                 UNCHANGED <<wallets, primary>>,
                 removed' = removed \cup {call[c].wallet}
          PROVE  Goal
      <3>1. call[c].wallet \notin primary
        BY <1>0, <1>1, <1>2, <2>4 DEF UpToDate, HasUser, RemoveUpdate, At
      <3>2. OwnedBy(u)' = OwnedBy(u)
        BY <2>4 DEF OwnedBy
      <3>3. /\ OwnedBy(u) \cap primary \cap removed = {}
            /\ \E x \in Wallet : OwnedBy(u) \cap primary = {x}
        BY <1>0, <1>1, <1>2, <2>4 DEF OneLinkedPrimary
      <3>. QED
        BY <2>4, <3>1, <3>2, <3>3
    <2>5. ASSUME u \in users, UNCHANGED <<wallets, primary, removed>> PROVE Goal
      <3>1. OwnedBy(u)' = OwnedBy(u)
        BY <2>5 DEF OwnedBy
      <3>2. /\ OwnedBy(u) \cap primary \cap removed = {}
            /\ \E x \in Wallet : OwnedBy(u) \cap primary = {x}
        BY <1>0, <1>1, <1>2, <2>5 DEF OneLinkedPrimary
      <3>. QED
        BY <2>5, <3>1, <3>2
    <2>. HIDE DEF Goal
    <2>6. Insert(c) => removed' = removed
      BY DEF Insert, Register, LinkCreate
    <2>7. u \notin users => Insert(c)
      BY <1>2, TableSteps
    <2>8. Goal
      BY <2>1, <2>2, <2>3, <2>4, <2>5, <2>6, <2>7, TableSteps
    <2>. QED
      BY <2>8 DEF Goal
  <1>. QED
    BY <1>2 DEF OneLinkedPrimary
----------------------------------------------------------------------------
(* The theorems.                                                           *)

LEMMA InvStep == Inv /\ [Next]_vars => Inv'
  <1>. SUFFICES ASSUME Inv, [Next]_vars PROVE Inv'
    OBVIOUS
  <1>1. TypeOK' /\ OneWalletPerAddress' /\ NoUserWithoutWallet' /\ FlagsOfRows'
    BY TypeStep, RowsStep DEF Inv
  <1>2. ASSUME NEW c \in Call, Step(c) PROVE Inv'
    BY <1>1, <1>2, AloneStep, OwnRowsStep, UpToDateStep, PrimaryStep DEF Inv
  <1>3. CASE UNCHANGED vars
    <2>1. UNCHANGED <<users, wallets, primary, removed, call, raced>>
      BY <1>3 DEF vars
    <2>2. \A u : OwnedBy(u)' = OwnedBy(u)
      BY <2>1 DEF OwnedBy
    <2>3. OneLinkedPrimary' /\ Alone'
      BY <2>1, <2>2 DEF Inv, OneLinkedPrimary, Alone, HasUser
    <2>4. ASSUME NEW c \in Call PROVE OwnRows(c)' /\ UpToDate(c)'
      BY <2>1, <2>2 DEF Inv, OwnRows, UpToDate, At
    <2>. QED
      BY <1>1, <2>3, <2>4 DEF Inv
  <1>. QED
    BY <1>2, <1>3 DEF Next, Step

\* The invariant: rows refer to what is there, a call works on its own user's
\* rows, and what it has read of them stays so while its user makes no other
\* call.
THEOREM Invariance == Spec => []Inv
  <1>. QED
    BY InvInit, InvStep, PTL DEF Spec

\* Tables, locks and calls have the shape the schema and the handlers give.
THEOREM TypeCorrect == Spec => []TypeOK
  <1>1. Inv => TypeOK
    BY DEF Inv
  <1>. QED
    BY <1>1, Invariance, PTL

\* An address has at most one wallet, of a user that exists, however logins
\* and links of it race.
THEOREM AddressesAreUnique == Spec => []OneWalletPerAddress
  <1>1. Inv => OneWalletPerAddress
    BY DEF Inv
  <1>. QED
    BY <1>1, Invariance, PTL

\* A registration writes the user together with its wallet, or nothing.
THEOREM UsersAreReachable == Spec => []NoUserWithoutWallet
  <1>1. Inv => NoUserWithoutWallet
    BY DEF Inv
  <1>. QED
    BY <1>1, Invariance, PTL

\* setPrimary and remove keep exactly one primary wallet, a linked one, for
\* every user whose calls do not overlap.
THEOREM PrimaryHolds == Spec => []OneLinkedPrimary
  <1>1. Inv => OneLinkedPrimary
    BY DEF Inv
  <1>. QED
    BY <1>1, Invariance, PTL

\* An address never changes hands and a removed wallet never comes back.
THEOREM RowsAreForGood == Spec => WalletsAreForGood
  <1>1. Inv /\ [Next]_vars =>
          [/\ removed \subseteq removed'
           /\ \A w \in Wallet : wallets[w] # None => wallets'[w] = wallets[w]]_vars
    BY RowsStay
  <1>. QED
    BY <1>1, Invariance, PTL DEF Spec, WalletsAreForGood
----------------------------------------------------------------------------
(* The address book.                                                       *)

\* An inserted row is one more entry.
LEMMA EntriesStep ==
  ASSUME TypeOK, NEW w \in Wallet, NEW u \in User, NEW a \in Address,
         ~Known(a), InsertWallet(w, u, a)
  PROVE  /\ Entries' = Entries \cup {<<a, u>>}
         /\ \A v \in User : <<a, v>> \notin Entries
  <1>1. /\ wallets[w] = None /\ wallets'[w] # None
        /\ wallets'[w] = [user |-> u, address |-> a]
        /\ \A v \in Wallet \ {w} : wallets'[v] = wallets[v]
    BY InsertType DEF InsertWallet
  <1>2. wallets'[w].address = a /\ wallets'[w].user = u
    BY <1>1
  <1>3. ASSUME NEW e PROVE e \in Entries' <=> e \in Entries \cup {<<a, u>>}
    <2>1. e \in Entries' <=> \E v \in Wallet : /\ wallets'[v] # None
                                               /\ e = <<wallets'[v].address, wallets'[v].user>>
      BY DEF Entries
    <2>2. e \in Entries <=> \E v \in Wallet : /\ wallets[v] # None
                                              /\ e = <<wallets[v].address, wallets[v].user>>
      BY DEF Entries
    <2>. QED
      BY <1>1, <1>2, <2>1, <2>2
  <1>4. \A v \in User : <<a, v>> \notin Entries
    BY DEF Entries, Known
  <1>. QED
    BY <1>3, <1>4

\* An insert enters a new user or one more address of a user, and nothing
\* else a call does is seen in the book.
LEMMA BookStep == Inv /\ [Next]_vars => [Book!Next]_(Book!vars)
  <1>. SUFFICES ASSUME Inv, [Next]_vars
                PROVE  Book!Next \/ UNCHANGED <<users, Entries, UnlinkedAddresses>>
    BY DEF Book!vars
  <1>0. TypeOK /\ FlagsOfRows
    BY DEF Inv
  <1>1. ASSUME NEW c \in Call, Insert(c), removed' = removed PROVE Book!Next
    <2>0. UnlinkedAddresses' = UnlinkedAddresses
      <3>1. \A w \in removed : wallets'[w] = wallets[w]
        BY <1>0, RowsStay DEF FlagsOfRows
      <3>. QED
        BY <1>1, <3>1 DEF UnlinkedAddresses
    <2>1. PICK w \in Wallet, u \in User, a \in Address :
            /\ ~Known(a) /\ InsertWallet(w, u, a)
            /\ \/ u \notin users /\ users' = users \cup {u}
               \/ u \in users /\ users' = users
      BY <1>1, InsertStep
    <2>2. /\ Entries' = Entries \cup {<<a, u>>}
          /\ \A v \in User : <<a, v>> \notin Entries
      BY <1>0, <2>1, EntriesStep
    <2>3. Book!Register(a, u) \/ Book!Link(a, u)
      BY <2>0, <2>1, <2>2 DEF Book!Register, Book!Link, Book!Write
    <2>. QED
      BY <2>3 DEF Book!Next
  <1>2. ASSUME NEW c \in Call, RemoveUpdate(c),
               UNCHANGED <<users, wallets>>, removed' = removed \cup {call[c].wallet}
        PROVE  Book!Next
    <2>. DEFINE w == call[c].wallet
                u == call[c].user
    <2>1. u \in users /\ w \in OwnedBy(u)
      BY <1>0, <1>2, CallKinds DEF RemoveUpdate, At, Inv, OwnRows
    <2>2. /\ w \in Wallet /\ wallets[w] # None /\ wallets[w].user = u
          /\ u \in User
      BY <1>0, <2>1 DEF OwnedBy, TypeOK
    <2>. HIDE DEF w, u
    <2>3. wallets[w].address \in Address
      BY <1>0, <2>2 DEF TypeOK, WalletRow
    <2>4. <<wallets[w].address, u>> \in Entries
      BY <2>2 DEF Entries
    <2>5. Entries' = Entries
      BY <1>2 DEF Entries
    <2>6. UnlinkedAddresses' = UnlinkedAddresses \cup {wallets[w].address}
      BY <1>2 DEF UnlinkedAddresses, w
    <2>7. Book!Unlink(wallets[w].address, u)
      BY <1>2, <2>4, <2>5, <2>6 DEF Book!Unlink
    <2>. QED
      BY <2>2, <2>3, <2>7 DEF Book!Next
  <1>3. ASSUME UNCHANGED <<users, wallets, removed>>
        PROVE  UNCHANGED <<users, Entries, UnlinkedAddresses>>
    BY <1>3 DEF Entries, UnlinkedAddresses
  <1>4. CASE UNCHANGED vars
    BY <1>3, <1>4 DEF vars, tables
  <1>5. ASSUME NEW c \in Call, Step(c)
        PROVE  Book!Next \/ UNCHANGED <<users, Entries, UnlinkedAddresses>>
    BY <1>1, <1>2, <1>3, <1>5, TableSteps
  <1>. QED
    BY <1>4, <1>5 DEF Next, Step

\* The table of wallets is an address book: an address leads to one user for
\* good, removed or not, and a user comes with an address, however calls overlap
\* and fail.
THEOREM WalletsAreABook == Spec => ImplementsAddressBook
  <1>1. Init => Book!Init
    BY DEF Init, Book!Init, Entries, UnlinkedAddresses
  <1>. QED
    BY <1>1, BookStep, Invariance, PTL DEF Spec, ImplementsAddressBook, Book!Spec
=============================================================================
