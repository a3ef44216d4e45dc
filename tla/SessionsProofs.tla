--------------------------- MODULE SessionsProofs ---------------------------
(***************************************************************************)
(* Proofs about Sessions, for every value of its constants.                *)
(***************************************************************************)
EXTENDS Sessions, TLAPS

----------------------------------------------------------------------------
(* The invariant.                                                          *)

\* Call c was let in with challenge n and has no token for it yet.
Carries(c, n) ==
  \/ call[c].step \in {"login:wallet", "login:create"} /\ call[c].nonce = n
  \/ At(c, "login:issue") /\ call[c].from = n

\* A challenge that let a call in is spent, on this call alone.
Spent ==
  /\ signed \subseteq {n \in Nonce : asked[n] # None}
  /\ \A c \in Call, n \in Nonce : Carries(c, n) =>
       /\ n \in signed \ pending
       /\ \A t \in Token : tokens[t] # None => tokens[t].from # n
       /\ \A d \in Call : Carries(d, n) => d = c

\* A session made with a challenge: the challenge is spent on this one.
Proved(t) ==
  /\ tokens[t].from \in signed \ pending
  /\ owner[asked[tokens[t].from]] = tokens[t].user
  /\ \A s \in Token : tokens[s] # None /\ tokens[s].from = tokens[t].from => s = t

\* What a call relies on.
CallInv(c) ==
  /\ At(c, "login:issue") =>
       /\ call[c].from \in Nonce
       /\ owner[asked[call[c].from]] = call[c].user
  /\ At(c, "refresh:revoke") \/ At(c, "refresh:issue") =>
       /\ call[c].from \in Token
       /\ tokens[call[c].from] # None
       /\ tokens[call[c].from].user = call[c].user
       /\ At(c, "refresh:issue") => tokens[call[c].from].revoked
  /\ At(c, "login:audit") \/ At(c, "refresh:audit") \/ At(c, "in") =>
       /\ tokens[call[c].token] # None
       /\ tokens[call[c].token].user = call[c].user
  /\ At(c, "login:audit") => tokens[call[c].token].from \in Nonce
  /\ At(c, "refresh:audit") => tokens[call[c].token].from \in Token
  /\ At(c, "in") =>
       [user |-> call[c].user, action |->
          IF tokens[call[c].token].from \in Token THEN "TOKEN_REFRESHED"
          ELSE IF call[c].new THEN "USER_REGISTERED" ELSE "LOGIN_SUCCESS"]
         \in audit

Inv == /\ TypeOK
       /\ Spent
       /\ \A t \in Token : tokens[t] # None /\ tokens[t].from \in Nonce => Proved(t)
       /\ RotationReplaces
       /\ \A c \in Call : CallInv(c)

LEMMA InvInit == Init => Inv
  <1>. SUFFICES ASSUME Init PROVE Inv
    OBVIOUS
  <1>1. call \in [Call -> CallState] /\ \A c \in Call : call[c] = Idle
    BY DEF Init, CallState
  <1>2. TypeOK
    BY <1>1, BoundAssumption DEF Init, TypeOK, Users
  <1>. QED
    BY <1>1, <1>2 DEF Init, Inv, Spent, RotationReplaces, Carries, CallInv, At, Idle

\* What the step of a call tells of it.
LEMMA CallKinds ==
  ASSUME TypeOK, NEW c \in Call
  PROVE  /\ call[c] \in CallState
         /\ call[c].step \in {"login:wallet", "login:create"} <=> call[c] \in LoginCall
         /\ call[c].step \in {"login:issue", "refresh:revoke", "refresh:issue"}
              <=> call[c] \in IssueCall
         /\ call[c].step \in {"login:audit", "refresh:audit", "in"}
              <=> call[c] \in LogCall
  <1>1. call[c] \in CallState
    BY DEF TypeOK
  <1>. QED
    BY <1>1 DEF CallState, Idle, LoginCall, IssueCall, LogCall

----------------------------------------------------------------------------
(* Type correctness.                                                       *)

AuditRow == [action : {"LOGIN_FAILED", "LOGIN_SUCCESS", "USER_REGISTERED",
                       "TOKEN_REFRESHED"},
             user : User \cup {None}]

LEMMA EnterType ==
  ASSUME TypeOK, NEW c \in Call, call[c] \in LoginCall, NEW u \in User,
         NEW new \in BOOLEAN, Enter(c, u, new)
  PROVE  call' \in [Call -> CallState]
  <1>1. [step |-> "login:issue", user |-> u, from |-> call[c].nonce, new |-> new]
          \in CallState
    BY DEF CallState, LoginCall, IssueCall
  <1>. QED
    BY <1>1 DEF Enter, Answer, TypeOK, CallState

LEMMA InsertType ==
  ASSUME TypeOK, NEW c \in Call, call[c] \in IssueCall, NEW t \in Token,
         InsertToken(c, t)
  PROVE  tokens' \in [Token -> TokenRow \cup {None}]
  <1>1. [user |-> call[c].user, from |-> call[c].from, revoked |-> FALSE] \in TokenRow
    BY DEF IssueCall, TokenRow
  <1>. QED
    BY <1>1 DEF InsertToken, TypeOK

LEMMA LogType ==
  ASSUME TypeOK, NEW c \in Call, call[c] \in LogCall,
         NEW action \in {"LOGIN_SUCCESS", "USER_REGISTERED", "TOKEN_REFRESHED"},
         Log(c, action)
  PROVE  TypeOK'
  <1>1. [call[c] EXCEPT !.step = "in"] \in LogCall
    BY DEF LogCall
  <1>2. [call[c] EXCEPT !.step = "in"] \in CallState
    BY <1>1 DEF CallState
  <1>3. call' \in [Call -> CallState]
    BY <1>2 DEF Log, TypeOK
  <1>4. [action |-> action, user |-> call[c].user] \in AuditRow
    BY DEF LogCall, AuditRow
  <1>5. audit' \subseteq AuditRow
    BY <1>4 DEF Log, TypeOK, AuditRow
  <1>. QED
    BY <1>3, <1>5 DEF Log, TypeOK, memory, AuditRow, Users

LEMMA TypeStep ==
  ASSUME Inv, [Next]_vars PROVE TypeOK'
  <1>. USE BoundAssumption, NoneAssumption
  <1>0. TypeOK /\ Spent /\ \A c \in Call : CallInv(c)
    BY DEF Inv
  <1>1. ASSUME NEW a \in Address, RequestChallenge(a) PROVE TypeOK'
    BY <1>0, <1>1 DEF RequestChallenge, TypeOK, tables, Users
  <1>2. ASSUME NEW n \in Nonce, Sign(n) PROVE TypeOK'
    BY <1>0, <1>2 DEF Sign, TypeOK, tables, Users
  <1>3. ASSUME NEW n \in Nonce, RefuseSignature(n) \/ RefuseChallenge(n)
        PROVE  TypeOK'
    <2>1. audit' \subseteq AuditRow
      BY <1>0, <1>3 DEF RefuseSignature, RefuseChallenge, LogRefusal, TypeOK, AuditRow
    <2>2. pending' \subseteq pending /\ asked' = asked /\ signed' = signed
          /\ expired' = expired /\ owner' = owner /\ suspended' = suspended
          /\ tokens' = tokens /\ call' = call /\ failures' = failures
      BY <1>0, <1>3 DEF RefuseSignature, RefuseChallenge, memory
    <2>. QED
      BY <1>0, <2>1, <2>2 DEF TypeOK, AuditRow, Users
  <1>4. ASSUME NEW n \in Nonce, VerifyAddressOwnership(n) PROVE TypeOK'
    BY <1>0, <1>4 DEF VerifyAddressOwnership, ConsumeChallenge, TypeOK, tables, Users
  <1>5. ASSUME NEW c \in Call, NEW n \in Nonce, VerifyChallengeAndLogin(c, n)
        PROVE  TypeOK'
    <2>1. [step |-> "login:wallet", nonce |-> n] \in CallState
      BY <1>0 DEF CallState, LoginCall
    <2>. QED
      BY <1>0, <1>5, <2>1 DEF VerifyChallengeAndLogin, ConsumeChallenge, Answer, TypeOK,
         tables, Users
  <1>6. ASSUME NEW c \in Call, FindWallet(c) PROVE TypeOK'
    <2>1. call[c] \in LoginCall
      BY <1>0, <1>6, CallKinds DEF FindWallet, At
    <2>2. [call[c] EXCEPT !.step = "login:create"] \in LoginCall
      BY <1>0, <2>1 DEF LoginCall
    <2>3. [call[c] EXCEPT !.step = "login:create"] \in CallState
      BY <1>0, <2>2 DEF CallState
    <2>4. call[c].nonce \in Nonce /\ asked[call[c].nonce] \in Address
      BY <1>0, <1>6, <2>1 DEF Spent, Carries, FindWallet, At, LoginCall, TypeOK
    <2>5. call' \in [Call -> CallState]
      <3>1. CASE owner[asked[call[c].nonce]] = None
        BY <1>0, <1>6, <2>3, <3>1 DEF FindWallet, TypeOK
      <3>2. CASE owner[asked[call[c].nonce]] # None
        <4>1. owner[asked[call[c].nonce]] \in User
          BY <1>0, <2>4, <3>2 DEF TypeOK
        <4>2. Enter(c, owner[asked[call[c].nonce]], FALSE)
          BY <1>6, <3>2 DEF FindWallet
        <4>. QED
          BY <1>0, <2>1, <4>1, <4>2, EnterType
      <3>. QED
        BY <3>1, <3>2
    <2>. QED
      BY <1>0, <1>6, <2>5 DEF FindWallet, TypeOK, memory, tables, Users
  <1>7. ASSUME NEW c \in Call, CreateUser(c) PROVE TypeOK'
    <2>1. call[c] \in LoginCall
      BY <1>0, <1>7, CallKinds DEF CreateUser, At
    <2>2. PICK a : a = asked[call[c].nonce]
      OBVIOUS
    <2>3. a \in Address
      BY <1>0, <1>7, <2>1, <2>2 DEF Spent, Carries, CreateUser, At, LoginCall, TypeOK
    <2>4. CASE /\ owner[a] # None /\ Answer(c, Idle) /\ owner' = owner
      BY <1>0, <1>7, <2>4 DEF CreateUser, Answer, TypeOK, CallState, memory, Users
    <2>5. ASSUME NEW u \in User, owner[a] = None,
                 owner' = [owner EXCEPT ![a] = u], Enter(c, u, TRUE)
          PROVE  TypeOK'
      <3>1. call' \in [Call -> CallState]
        BY <1>0, <2>1, <2>5, EnterType
      <3>2. owner' \in [Address -> User \cup {None}] /\ Users \subseteq Users'
        BY <1>0, <2>3, <2>5 DEF TypeOK, Users
      <3>. QED
        BY <1>0, <1>7, <3>1, <3>2 DEF CreateUser, TypeOK, memory
    <2>. QED
      BY <1>7, <2>2, <2>4, <2>5 DEF CreateUser
  <1>8. ASSUME NEW c \in Call, LoginIssue(c) \/ RefreshIssue(c) PROVE TypeOK'
    <2>1. call[c] \in IssueCall
      BY <1>0, <1>8, CallKinds DEF LoginIssue, RefreshIssue, At
    <2>2. PICK t \in Token, step \in {"login:audit", "refresh:audit"},
               new \in BOOLEAN :
            /\ InsertToken(c, t)
            /\ Answer(c, [step |-> step, user |-> call[c].user, token |-> t,
                          new |-> new])
      BY <1>0, <1>8, <2>1 DEF LoginIssue, RefreshIssue, IssueCall
    <2>3. [step |-> step, user |-> call[c].user, token |-> t, new |-> new] \in CallState
      BY <1>0, <2>1 DEF IssueCall, LogCall, CallState
    <2>4. tokens' \in [Token -> TokenRow \cup {None}]
      BY <1>0, <2>1, <2>2, InsertType
    <2>5. call' \in [Call -> CallState]
      BY <1>0, <2>2, <2>3 DEF Answer, TypeOK
    <2>. QED
      BY <1>0, <1>8, <2>4, <2>5 DEF LoginIssue, RefreshIssue, TypeOK, memory, Users
  <1>9. ASSUME NEW c \in Call, LoginAudit(c) \/ RefreshAudit(c) PROVE TypeOK'
    <2>1. call[c] \in LogCall
      BY <1>0, <1>9, CallKinds DEF LoginAudit, RefreshAudit, At
    <2>. QED
      BY <1>0, <1>9, <2>1, LogType DEF LoginAudit, RefreshAudit, LoginAction
  <1>10. ASSUME NEW c \in Call, NEW t \in Token, Refresh(c, t) PROVE TypeOK'
    <2>1. [step |-> "refresh:revoke", user |-> tokens[t].user, from |-> t,
           new |-> FALSE] \in CallState
      BY <1>0, <1>10 DEF Refresh, TypeOK, TokenRow, CallState, IssueCall
    <2>. QED
      BY <1>0, <1>10, <2>1 DEF Refresh, Answer, TypeOK, memory, tables, Users
  <1>11. ASSUME NEW c \in Call, RefreshRevoke(c) PROVE TypeOK'
    <2>1. call[c] \in IssueCall /\ call[c].from \in Token
          /\ tokens[call[c].from] \in TokenRow
      BY <1>0, <1>11, CallKinds DEF RefreshRevoke, CallInv, At, TypeOK
    <2>2. [call[c] EXCEPT !.step = "refresh:issue"] \in IssueCall
      BY <1>0, <2>1 DEF IssueCall
    <2>3. [tokens[call[c].from] EXCEPT !.revoked = TRUE] \in TokenRow
      BY <1>0, <2>1 DEF TokenRow
    <2>4. tokens' \in [Token -> TokenRow \cup {None}]
      BY <1>0, <1>11, <2>1, <2>3 DEF RefreshRevoke, TypeOK
    <2>5. call' \in [Call -> CallState]
      BY <1>0, <1>11, <2>2 DEF RefreshRevoke, TypeOK, CallState
    <2>. QED
      BY <1>0, <1>11, <2>4, <2>5 DEF RefreshRevoke, TypeOK, memory, Users
  <1>12. ASSUME NEW t \in Token, Logout(t) PROVE TypeOK'
    <2>1. [tokens[t] EXCEPT !.revoked = TRUE] \in TokenRow
      BY <1>0, <1>12 DEF Logout, TypeOK, TokenRow
    <2>. QED
      BY <1>0, <1>12, <2>1 DEF Logout, TypeOK, memory, Users
  <1>13. ASSUME NEW a \in Address, NEW u \in User, LinkWallet(a, u) PROVE TypeOK'
    <2>1. Users \subseteq Users'
      BY <1>0, <1>13 DEF LinkWallet, TypeOK, Users
    <2>. QED
      BY <1>0, <1>13, <2>1 DEF LinkWallet, TypeOK, memory
  <1>14. ASSUME NEW u \in User, SuspendUser(u) \/ ReactivateUser(u) PROVE TypeOK'
    BY <1>0, <1>14 DEF SuspendUser, ReactivateUser, TypeOK, memory, Users
  <1>15. ASSUME NEW x \in Nonce \cup Token, Expire(x) PROVE TypeOK'
    BY <1>0, <1>15 DEF Expire, TypeOK, tables, Users
  <1>16. ASSUME NEW c \in Call, Fail(c) PROVE TypeOK'
    BY <1>0, <1>16 DEF Fail, Answer, TypeOK, CallState, memory, tables, Users
  <1>17. CASE Restart
    BY <1>0, <1>17 DEF Restart, TypeOK, CallState, tables, Users
  <1>18. CASE UNCHANGED vars
    BY <1>0, <1>18 DEF vars, TypeOK, Users
  <1>. QED
    BY <1>0, <1>1, <1>2, <1>3, <1>4, <1>5, <1>6, <1>7, <1>8, <1>9, <1>10, <1>11, <1>12,
       <1>13, <1>14, <1>15, <1>16, <1>17, <1>18 DEF Next, Continue
----------------------------------------------------------------------------
(* What every step keeps.                                                  *)

Keeps ==
  /\ signed \subseteq signed'
  /\ \A n \in Nonce : asked[n] # None => asked'[n] = asked[n]
  /\ \A n \in signed : n \in pending' => n \in pending
  /\ \A a \in Address : owner[a] # None => owner'[a] = owner[a]
  /\ \A t \in Token : tokens[t] # None =>
       /\ tokens'[t] # None
       /\ tokens'[t].user = tokens[t].user
       /\ tokens'[t].from = tokens[t].from
       /\ tokens[t].revoked => tokens'[t].revoked
  /\ audit \subseteq audit'

LEMMA StepKeeps ==
  ASSUME Inv, [Next]_vars PROVE Keeps
  <1>. USE NoneAssumption DEF Keeps
  <1>0. TypeOK /\ Spent /\ \A c \in Call : CallInv(c)
    BY DEF Inv
  <1>1. ASSUME NEW t \in Token, tokens[t] # None,
               tokens' = [tokens EXCEPT ![t].revoked = TRUE]
        PROVE  \A s \in Token : tokens[s] # None =>
                 /\ tokens'[s] # None
                 /\ tokens'[s].user = tokens[s].user
                 /\ tokens'[s].from = tokens[s].from
                 /\ tokens[s].revoked => tokens'[s].revoked
    <2>1. tokens[t] \in TokenRow
      BY <1>0, <1>1 DEF TypeOK
    <2>2. ASSUME NEW r \in TokenRow, NEW q, q = [r EXCEPT !.revoked = TRUE]
          PROVE  q \in TokenRow /\ q.user = r.user /\ q.from = r.from /\ q.revoked
      BY <2>2 DEF TokenRow
    <2>3. /\ tokens'[t] = [tokens[t] EXCEPT !.revoked = TRUE]
          /\ \A s \in Token \ {t} : tokens'[s] = tokens[s]
      BY <1>0, <1>1 DEF TypeOK
    <2>4. /\ tokens'[t] # None /\ tokens'[t].user = tokens[t].user
          /\ tokens'[t].from = tokens[t].from /\ tokens'[t].revoked
      BY <2>1, <2>2, <2>3
    <2>. QED
      BY <2>3, <2>4
  <1>2. ASSUME NEW a \in Address, RequestChallenge(a) PROVE Keeps
    BY <1>0, <1>2 DEF RequestChallenge, tables, TypeOK, Spent
  <1>3. ASSUME NEW n \in Nonce,
               \/ Sign(n) \/ RefuseSignature(n) \/ RefuseChallenge(n)
               \/ VerifyAddressOwnership(n)
        PROVE  Keeps
    BY <1>3 DEF Sign, RefuseSignature, RefuseChallenge, VerifyAddressOwnership,
       ConsumeChallenge, LogRefusal, tables, memory
  <1>4. ASSUME NEW c \in Call, NEW n \in Nonce, VerifyChallengeAndLogin(c, n)
        PROVE  Keeps
    BY <1>4 DEF VerifyChallengeAndLogin, ConsumeChallenge, tables
  <1>5. ASSUME NEW c \in Call, FindWallet(c) PROVE Keeps
    BY <1>5 DEF FindWallet, tables, memory
  <1>6. ASSUME NEW c \in Call, CreateUser(c) PROVE Keeps
    BY <1>0, <1>6 DEF CreateUser, memory, TypeOK
  <1>7. ASSUME NEW c \in Call, LoginIssue(c) \/ RefreshIssue(c) PROVE Keeps
    BY <1>0, <1>7 DEF LoginIssue, RefreshIssue, InsertToken, memory, TypeOK
  <1>8. ASSUME NEW c \in Call, LoginAudit(c) \/ RefreshAudit(c) PROVE Keeps
    BY <1>8 DEF LoginAudit, RefreshAudit, Log, memory
  <1>9. ASSUME NEW c \in Call, NEW t \in Token, Refresh(c, t) PROVE Keeps
    BY <1>9 DEF Refresh, memory, tables
  <1>10. ASSUME NEW c \in Call, RefreshRevoke(c) PROVE Keeps
    <2>1. call[c].from \in Token /\ tokens[call[c].from] # None
      BY <1>0, <1>10 DEF RefreshRevoke, CallInv
    <2>. QED
      BY <1>1, <1>10, <2>1 DEF RefreshRevoke, memory
  <1>11. ASSUME NEW t \in Token, Logout(t) PROVE Keeps
    BY <1>1, <1>11 DEF Logout, memory
  <1>12. ASSUME NEW a \in Address, NEW u \in User, LinkWallet(a, u) PROVE Keeps
    BY <1>0, <1>12 DEF LinkWallet, memory, TypeOK
  <1>13. ASSUME NEW u \in User, SuspendUser(u) \/ ReactivateUser(u) PROVE Keeps
    BY <1>13 DEF SuspendUser, ReactivateUser, memory
  <1>14. ASSUME NEW x \in Nonce \cup Token, Expire(x) PROVE Keeps
    BY <1>14 DEF Expire, tables
  <1>15. CASE (\E c \in Call : Fail(c)) \/ Restart
    BY <1>15 DEF Fail, Restart, memory, tables
  <1>16. CASE UNCHANGED vars
    BY <1>16 DEF vars
  <1>. QED
    BY <1>2, <1>3, <1>4, <1>5, <1>6, <1>7, <1>8, <1>9, <1>10, <1>11, <1>12,
       <1>13, <1>14, <1>15, <1>16 DEF Next, Continue

----------------------------------------------------------------------------
(* Which calls carry a challenge, and what becomes of it.                  *)

\* How a call moves.
LEMMA Moves ==
  ASSUME Inv, [Next]_vars, NEW c \in Call
  PROVE  \/ call'[c] = call[c]
         \/ call'[c] = Idle
         \/ \E n \in Nonce : VerifyChallengeAndLogin(c, n)
         \/ \E t \in Token : Refresh(c, t)
         \/ Continue(c)
  <1>0. TypeOK
    BY DEF Inv
  <1>1. ASSUME NEW d \in Call, d # c,
               \/ \E m \in Nonce : VerifyChallengeAndLogin(d, m)
               \/ \E t \in Token : Refresh(d, t)
               \/ Continue(d) \/ Fail(d)
        PROVE  call'[c] = call[c]
    <2>1. ASSUME NEW answer, Answer(d, answer) PROVE call'[c] = call[c]
      BY <1>0, <1>1, <2>1 DEF Answer, TypeOK
    <2>2. ASSUME NEW step, call' = [call EXCEPT ![d].step = step]
          PROVE  call'[c] = call[c]
      BY <1>0, <1>1, <2>2 DEF TypeOK
    <2>3. CASE \/ \E m \in Nonce : VerifyChallengeAndLogin(d, m)
               \/ \E t \in Token : Refresh(d, t)
               \/ LoginIssue(d) \/ RefreshIssue(d) \/ Fail(d)
      BY <2>1, <2>3 DEF VerifyChallengeAndLogin, Refresh, LoginIssue, RefreshIssue,
         Fail
    <2>4. CASE FindWallet(d) \/ CreateUser(d)
      BY <2>1, <2>2, <2>4 DEF FindWallet, CreateUser, Enter
    <2>5. CASE LoginAudit(d) \/ RefreshAudit(d) \/ RefreshRevoke(d)
      BY <2>2, <2>5 DEF LoginAudit, RefreshAudit, RefreshRevoke, Log
    <2>. QED
      BY <1>1, <2>3, <2>4, <2>5 DEF Continue
  <1>2. CASE Restart \/ Fail(c)
    BY <1>0, <1>2 DEF Restart, Fail, Answer, TypeOK
  <1>3. ASSUME \/ \E a \in Address : RequestChallenge(a)
               \/ \E m \in Nonce : \/ Sign(m) \/ RefuseSignature(m)
                                   \/ RefuseChallenge(m) \/ VerifyAddressOwnership(m)
               \/ \E t \in Token : Logout(t)
               \/ \E a \in Address, u \in User : LinkWallet(a, u)
               \/ \E u \in User : SuspendUser(u) \/ ReactivateUser(u)
               \/ \E x \in Nonce \cup Token : Expire(x)
               \/ UNCHANGED vars
        PROVE  call' = call
    BY <1>3 DEF RequestChallenge, Sign, RefuseSignature, RefuseChallenge,
       VerifyAddressOwnership, Logout, LinkWallet, SuspendUser, ReactivateUser,
       Expire, vars
  <1>. QED
    BY <1>1, <1>2, <1>3 DEF Next

\* A call that does not move carries what it did; one that moves has no more
\* than it had, or is let in.
LEMMA CarriesStep ==
  ASSUME Inv, [Next]_vars, NEW c \in Call, NEW n \in Nonce, Carries(c, n)'
  PROVE  \/ Carries(c, n)
         \/ /\ n \in signed /\ n \in pending /\ n \notin pending'
            /\ VerifyChallengeAndLogin(c, n)
  <1>0. TypeOK
    BY DEF Inv
  <1>1. CASE call'[c] = call[c]
    BY <1>1 DEF Carries, At
  <1>2. CASE call'[c] = Idle
    BY <1>2 DEF Carries, At, Idle
  <1>3. ASSUME NEW m \in Nonce, VerifyChallengeAndLogin(c, m)
        PROVE  \/ /\ n \in signed /\ n \in pending /\ n \notin pending'
                  /\ VerifyChallengeAndLogin(c, n)
    BY <1>0, <1>3 DEF VerifyChallengeAndLogin, ConsumeChallenge, Answer, Carries,
       At, TypeOK
  <1>4. CASE FindWallet(c) \/ CreateUser(c)
    <2>1. call[c] \in LoginCall
      BY <1>0, <1>4, CallKinds DEF FindWallet, CreateUser, At
    <2>2. ASSUME NEW u, NEW new, Enter(c, u, new) PROVE call[c].nonce = n
      BY <1>0, <2>2 DEF Enter, Answer, Carries, At, Idle, TypeOK
    <2>3. ASSUME call' = [call EXCEPT ![c].step = "login:create"]
          PROVE  call[c].nonce = n
      <3>1. call'[c] = [call[c] EXCEPT !.step = "login:create"]
        BY <1>0, <2>3 DEF TypeOK
      <3>2. call'[c].step = "login:create" /\ call'[c].nonce = call[c].nonce
        BY <2>1, <3>1 DEF LoginCall
      <3>. QED
        BY <3>2 DEF Carries, At
    <2>4. ~Answer(c, Idle)
      BY <1>0 DEF Answer, Carries, At, Idle, TypeOK
    <2>5. call[c].nonce = n
      BY <1>4, <2>2, <2>3, <2>4 DEF FindWallet, CreateUser
    <2>. QED
      BY <1>4, <2>5 DEF Carries, FindWallet, CreateUser, At
  <1>5. CASE \/ LoginIssue(c) \/ RefreshIssue(c) \/ LoginAudit(c) \/ RefreshAudit(c)
             \/ RefreshRevoke(c) \/ \E t \in Token : Refresh(c, t)
    <2>1. call'[c].step \notin {"login:wallet", "login:create", "login:issue"}
      <3>1. CASE LoginIssue(c) \/ RefreshIssue(c) \/ \E t \in Token : Refresh(c, t)
        BY <1>0, <3>1 DEF LoginIssue, RefreshIssue, Refresh, Answer, TypeOK
      <3>2. ASSUME NEW step \in {"in", "refresh:issue"},
                   call' = [call EXCEPT ![c].step = step],
                   call[c] \in LogCall \cup IssueCall
            PROVE  call'[c].step = step
        <4>1. call'[c] = [call[c] EXCEPT !.step = step]
          BY <1>0, <3>2 DEF TypeOK
        <4>. QED
          BY <3>2, <4>1 DEF LogCall, IssueCall
      <3>3. CASE LoginAudit(c) \/ RefreshAudit(c) \/ RefreshRevoke(c)
        <4>1. call[c] \in LogCall \cup IssueCall
          BY <1>0, <3>3, CallKinds DEF LoginAudit, RefreshAudit, RefreshRevoke, At
        <4>. QED
          BY <3>2, <3>3, <4>1 DEF LoginAudit, RefreshAudit, RefreshRevoke, Log
      <3>. QED
        BY <1>5, <3>1, <3>3
    <2>. QED
      BY <2>1 DEF Carries, At
  <1>. QED
    BY <1>1, <1>2, <1>3, <1>4, <1>5, Moves DEF Continue

\* The rows a step adds.
LEMMA NewToken ==
  ASSUME Inv, [Next]_vars, NEW t \in Token, tokens[t] = None, tokens'[t] # None
  PROVE  \E c \in Call :
           /\ At(c, "login:issue") \/ At(c, "refresh:issue")
           /\ tokens'[t].user = call[c].user /\ tokens'[t].from = call[c].from
           /\ \A s \in Token \ {t} : tokens'[s] = tokens[s]
           /\ pending' = pending /\ owner' = owner
           /\ asked' = asked /\ signed' = signed
           /\ \A n \in Nonce : ~Carries(c, n)'
           /\ \A d \in Call \ {c} : call'[d] = call[d]
  <1>0. TypeOK /\ \A c \in Call : CallInv(c)
    BY DEF Inv
  <1>1. ASSUME NEW c \in Call, LoginIssue(c) \/ RefreshIssue(c)
        PROVE  /\ At(c, "login:issue") \/ At(c, "refresh:issue")
               /\ tokens'[t].user = call[c].user
               /\ tokens'[t].from = call[c].from
               /\ \A s \in Token \ {t} : tokens'[s] = tokens[s]
               /\ pending' = pending /\ owner' = owner
               /\ asked' = asked /\ signed' = signed
               /\ \A n \in Nonce : ~Carries(c, n)'
               /\ \A d \in Call \ {c} : call'[d] = call[d]
    <2>1. PICK s \in Token, step \in {"login:audit", "refresh:audit"} :
            /\ InsertToken(c, s)
            /\ \E new : Answer(c, [step |-> step, user |-> call[c].user,
                                   token |-> s, new |-> new])
      BY <1>1 DEF LoginIssue, RefreshIssue
    <2>2. s = t
      BY <1>0, <2>1 DEF InsertToken, TypeOK
    <2>3. /\ tokens'[t] = [user |-> call[c].user, from |-> call[c].from,
                           revoked |-> FALSE]
          /\ \A r \in Token \ {t} : tokens'[r] = tokens[r]
      BY <1>0, <2>1, <2>2 DEF InsertToken, TypeOK
    <2>4. call'[c].step = step /\ \A d \in Call \ {c} : call'[d] = call[d]
      BY <1>0, <2>1 DEF Answer, TypeOK
    <2>5. /\ At(c, "login:issue") \/ At(c, "refresh:issue")
          /\ pending' = pending /\ owner' = owner
          /\ asked' = asked /\ signed' = signed
      BY <1>1 DEF LoginIssue, RefreshIssue, memory
    <2>. QED
      BY <2>3, <2>4, <2>5 DEF At, Carries
  <1>2. ASSUME NEW s \in Token, tokens[s] # None,
               tokens' = [tokens EXCEPT ![s].revoked = TRUE]
        PROVE  FALSE
    BY <1>0, <1>2 DEF TypeOK
  <1>3. ASSUME NEW c \in Call, RefreshRevoke(c) PROVE FALSE
    BY <1>0, <1>2, <1>3 DEF RefreshRevoke, CallInv
  <1>4. ASSUME NEW s \in Token, Logout(s) PROVE FALSE
    BY <1>2, <1>4 DEF Logout
  <1>5. CASE tokens' = tokens
    BY <1>5
  <1>. QED
    BY <1>1, <1>3, <1>4, <1>5 DEF Next, Continue, RequestChallenge, Sign,
       RefuseSignature, RefuseChallenge, VerifyAddressOwnership,
       VerifyChallengeAndLogin, Refresh, FindWallet, CreateUser, LoginAudit,
       RefreshAudit, Log, Fail, LinkWallet, SuspendUser, ReactivateUser, Expire,
       Restart, tables, vars
----------------------------------------------------------------------------
(* Challenges, sessions and their successors.                              *)

LEMMA SignedStep ==
  ASSUME [Next]_vars
  PROVE  \A n \in signed' : n \in signed \/ (n \in Nonce /\ asked[n] # None
                                             /\ asked' = asked)
  <1>1. ASSUME NEW n \in Nonce, Sign(n)
        PROVE  \A m \in signed' : m \in signed \/ (m \in Nonce /\ asked[m] # None
                                                   /\ asked' = asked)
    BY <1>1 DEF Sign
  <1>2. CASE signed' = signed
    BY <1>2
  <1>. QED
    BY <1>1, <1>2 DEF Next, Continue, RequestChallenge, RefuseSignature,
       RefuseChallenge, VerifyAddressOwnership, ConsumeChallenge,
       VerifyChallengeAndLogin, Refresh, FindWallet, CreateUser, LoginIssue,
       LoginAudit, RefreshRevoke, RefreshIssue, RefreshAudit, Log, Logout, Fail,
       LinkWallet, SuspendUser, ReactivateUser, Expire, Restart, memory, vars

LEMMA SpentStep ==
  ASSUME Inv, [Next]_vars PROVE Spent'
  <1>. USE NoneAssumption, NamesAssumption
  <1>0. /\ TypeOK /\ Spent /\ Keeps /\ \A c \in Call : CallInv(c)
        /\ \A t \in Token : tokens[t] # None /\ tokens[t].from \in Nonce => Proved(t)
    BY StepKeeps DEF Inv
  <1>1. signed' \subseteq {n \in Nonce : asked'[n] # None}
    <2>1. ASSUME NEW n \in signed' PROVE n \in Nonce /\ asked'[n] # None
      <3>1. CASE n \in signed
        BY <1>0, <3>1 DEF Spent, Keeps
      <3>2. CASE n \notin signed
        BY <2>1, <3>2, SignedStep
      <3>. QED
        BY <3>1, <3>2
    <2>. QED
      BY <2>1
  <1>2. ASSUME NEW c \in Call, NEW n \in Nonce, Carries(c, n)'
        PROVE  /\ n \in signed' /\ n \notin pending'
               /\ \A t \in Token : tokens'[t] # None => tokens'[t].from # n
               /\ \A d \in Call : Carries(d, n)' => d = c
    <2>1. CASE Carries(c, n)
      <3>1. /\ n \in signed \ pending
            /\ \A t \in Token : tokens[t] # None => tokens[t].from # n
            /\ \A d \in Call : Carries(d, n) => d = c
        BY <1>0, <2>1 DEF Spent
      <3>2. n \in signed' /\ n \notin pending'
        BY <1>0, <3>1 DEF Keeps
      <3>3. ASSUME NEW t \in Token, tokens'[t] # None, tokens'[t].from = n
            PROVE  FALSE
        <4>1. tokens[t] = None
          BY <1>0, <3>1, <3>3 DEF Keeps
        <4>2. PICK d \in Call :
                /\ At(d, "login:issue") \/ At(d, "refresh:issue")
                /\ tokens'[t].from = call[d].from
                /\ ~Carries(d, n)'
          BY <3>3, <4>1, NewToken
        <4>3. ~At(d, "refresh:issue")
          BY <1>0, <3>3, <4>2 DEF CallInv
        <4>4. Carries(d, n)
          BY <3>3, <4>2, <4>3 DEF Carries
        <4>. QED
          BY <1>2, <3>1, <4>2, <4>4
      <3>4. ASSUME NEW d \in Call, Carries(d, n)' PROVE d = c
        BY <3>1, <3>4, CarriesStep
      <3>. QED
        BY <3>2, <3>3, <3>4
    <2>2. CASE ~Carries(c, n)
      <3>1. /\ n \in signed /\ n \in pending /\ n \notin pending'
            /\ VerifyChallengeAndLogin(c, n)
        BY <1>2, <2>2, CarriesStep
      <3>2. tokens' = tokens
        BY <3>1 DEF VerifyChallengeAndLogin, tables
      <3>3. ASSUME NEW t \in Token, tokens[t] # None PROVE tokens[t].from # n
        BY <1>0, <3>1, <3>3 DEF Proved
      <3>4. ASSUME NEW d \in Call, Carries(d, n)', d # c PROVE FALSE
        <4>1. ~Carries(d, n)
          BY <1>0, <3>1 DEF Spent
        <4>2. VerifyChallengeAndLogin(d, n)
          BY <3>4, <4>1, CarriesStep
        <4>3. Free(c) /\ call'[c].step = "login:wallet"
          BY <1>0, <3>1 DEF VerifyChallengeAndLogin, Answer, TypeOK
        <4>4. call'[c] = call[c]
          BY <1>0, <3>4, <4>2 DEF VerifyChallengeAndLogin, Answer, TypeOK
        <4>. QED
          BY <4>3, <4>4 DEF Free
      <3>. QED
        BY <1>0, <3>1, <3>2, <3>3, <3>4 DEF Keeps
    <2>. QED
      BY <2>1, <2>2
  <1>. QED
    BY <1>1, <1>2 DEF Spent

LEMMA ProvedStep ==
  ASSUME Inv, [Next]_vars, NEW t \in Token, tokens'[t] # None,
         tokens'[t].from \in Nonce
  PROVE  Proved(t)'
  <1>. USE NoneAssumption, NamesAssumption
  <1>0. /\ TypeOK /\ Spent /\ Keeps /\ \A c \in Call : CallInv(c)
        /\ \A s \in Token : tokens[s] # None /\ tokens[s].from \in Nonce => Proved(s)
    BY StepKeeps DEF Inv
  <1>. DEFINE n == tokens'[t].from
  <1>1. CASE tokens[t] # None
    <2>1. Proved(t) /\ tokens[t].from = n /\ tokens[t].user = tokens'[t].user
          /\ tokens[t].user \in User
      BY <1>0, <1>1 DEF Keeps, TypeOK, TokenRow
    <2>2. n \in signed' /\ n \notin pending'
      BY <1>0, <2>1 DEF Proved, Keeps
    <2>3. asked[n] \in Address /\ asked'[n] = asked[n]
      BY <1>0, <2>1 DEF Proved, Spent, Keeps, TypeOK
    <2>4. owner[asked[n]] = tokens[t].user
      BY <2>1 DEF Proved
    <2>5. owner'[asked'[n]] = tokens'[t].user
      BY <1>0, <2>1, <2>3, <2>4 DEF Keeps
    <2>6. ASSUME NEW s \in Token, tokens'[s] # None, tokens'[s].from = n PROVE s = t
      <3>1. CASE tokens[s] # None
        BY <1>0, <2>1, <2>6, <3>1 DEF Proved, Keeps
      <3>2. CASE tokens[s] = None
        <4>1. PICK d \in Call :
                /\ At(d, "login:issue") \/ At(d, "refresh:issue")
                /\ tokens'[s].from = call[d].from
          BY <2>6, <3>2, NewToken
        <4>2. Carries(d, n)
          BY <1>0, <2>6, <4>1 DEF CallInv, Carries
        <4>. QED
          BY <1>0, <1>1, <2>1, <4>2 DEF Spent
      <3>. QED
        BY <3>1, <3>2
    <2>. QED
      BY <2>2, <2>5, <2>6 DEF Proved
  <1>2. CASE tokens[t] = None
    <2>1. PICK d \in Call :
            /\ At(d, "login:issue") \/ At(d, "refresh:issue")
            /\ tokens'[t].from = call[d].from /\ tokens'[t].user = call[d].user
            /\ \A s \in Token \ {t} : tokens'[s] = tokens[s]
            /\ pending' = pending /\ owner' = owner
            /\ asked' = asked /\ signed' = signed
      BY <1>2, NewToken
    <2>2. At(d, "login:issue") /\ Carries(d, n)
      BY <1>0, <2>1 DEF CallInv, Carries
    <2>3. /\ n \in signed \ pending
          /\ \A s \in Token : tokens[s] # None => tokens[s].from # n
      BY <1>0, <2>2 DEF Spent
    <2>4. owner[asked[n]] = call[d].user
      BY <1>0, <2>1, <2>2 DEF CallInv
    <2>. QED
      BY <2>1, <2>3, <2>4 DEF Proved
  <1>. QED
    BY <1>1, <1>2

LEMMA RotationStep ==
  ASSUME Inv, [Next]_vars PROVE RotationReplaces'
  <1>. USE NamesAssumption
  <1>0. Keeps /\ RotationReplaces /\ \A c \in Call : CallInv(c)
    BY StepKeeps DEF Inv
  <1>1. ASSUME NEW t \in Token, tokens'[t] # None, tokens'[t].from \in Token
        PROVE  LET old == tokens'[tokens'[t].from]
               IN old # None /\ old.revoked /\ old.user = tokens'[t].user
    <2>1. CASE tokens[t] # None
      BY <1>0, <1>1, <2>1 DEF Keeps, RotationReplaces
    <2>2. CASE tokens[t] = None
      <3>1. PICK d \in Call :
              /\ At(d, "login:issue") \/ At(d, "refresh:issue")
              /\ tokens'[t].from = call[d].from /\ tokens'[t].user = call[d].user
        BY <1>1, <2>2, NewToken
      <3>2. At(d, "refresh:issue")
        BY <1>0, <1>1, <3>1 DEF CallInv
      <3>3. LET old == tokens[call[d].from]
            IN /\ call[d].from \in Token /\ old # None /\ old.revoked
               /\ old.user = call[d].user
        BY <1>0, <3>2 DEF CallInv
      <3>4. LET old == tokens'[call[d].from]
            IN old # None /\ old.revoked /\ old.user = call[d].user
        BY <1>0, <3>3 DEF Keeps
      <3>. QED
        BY <3>1, <3>4
    <2>. QED
      BY <2>1, <2>2
  <1>. QED
    BY <1>1 DEF RotationReplaces
----------------------------------------------------------------------------
(* What the calls rely on.                                                 *)

LEMMA KeptCall ==
  ASSUME Inv, [Next]_vars, NEW c \in Call, call'[c] = call[c]
  PROVE  CallInv(c)'
  <1>. USE NoneAssumption
  <1>0. TypeOK /\ Spent /\ Keeps /\ CallInv(c)
    BY StepKeeps DEF Inv
  <1>1. CASE At(c, "login:issue")
    <2>1. /\ call[c].from \in Nonce /\ call[c].user \in User
          /\ asked[call[c].from] \in Address
      BY <1>0, <1>1, CallKinds DEF Spent, Carries, CallInv, At, IssueCall, TypeOK
    <2>2. owner'[asked'[call[c].from]] = call[c].user
      BY <1>0, <1>1, <2>1 DEF CallInv, Keeps
    <2>. QED
      BY <1>0, <1>1, <2>1, <2>2 DEF CallInv, At
  <1>2. CASE At(c, "refresh:revoke") \/ At(c, "refresh:issue")
    BY <1>0, <1>2 DEF CallInv, Keeps, At
  <1>3. CASE At(c, "login:audit") \/ At(c, "refresh:audit") \/ At(c, "in")
    <2>1. call[c].token \in Token
      BY <1>0, <1>3, CallKinds DEF At, LogCall
    <2>. QED
      BY <1>0, <1>3, <2>1 DEF CallInv, Keeps, At
  <1>4. CASE call[c].step \in {"idle", "login:wallet", "login:create"}
    BY <1>4 DEF CallInv, At
  <1>5. call[c].step \in {"idle", "login:wallet", "login:create", "login:issue",
                          "refresh:revoke", "refresh:issue", "login:audit",
                          "refresh:audit", "in"}
    BY <1>0 DEF TypeOK, CallState, Idle, LoginCall, IssueCall, LogCall
  <1>. QED
    BY <1>1, <1>2, <1>3, <1>4, <1>5 DEF At

LEMMA MovedCall ==
  ASSUME Inv, [Next]_vars, NEW c \in Call, Continue(c)
  PROVE  CallInv(c)'
  <1>. USE NoneAssumption, NamesAssumption
  <1>0. TypeOK /\ Spent /\ Keeps /\ CallInv(c)
    BY StepKeeps DEF Inv
  <1>1. CASE FindWallet(c) \/ CreateUser(c)
    <2>1. call[c] \in LoginCall
      BY <1>0, <1>1, CallKinds DEF FindWallet, CreateUser, At
    <2>2. PICK n \in Nonce : call[c].nonce = n
      BY <2>1 DEF LoginCall
    <2>3. asked[n] \in Address /\ asked' = asked
      <3>1. asked' = asked
        BY <1>1 DEF FindWallet, CreateUser, memory
      <3>2. Carries(c, n)
        BY <1>1, <2>2 DEF FindWallet, CreateUser, Carries, At
      <3>3. asked[n] # None
        BY <1>0, <3>2 DEF Spent
      <3>. QED
        BY <1>0, <3>1, <3>3 DEF TypeOK
    <2>4. CASE call' = [call EXCEPT ![c].step = "login:create"]
      <3>1. call'[c] = [call[c] EXCEPT !.step = "login:create"]
        BY <1>0, <2>4 DEF TypeOK
      <3>2. call'[c].step = "login:create"
        BY <2>1, <3>1 DEF LoginCall
      <3>. QED
        BY <3>2 DEF CallInv, At
    <2>5. CASE Answer(c, Idle)
      BY <1>0, <2>5 DEF Answer, TypeOK, CallInv, At, Idle
    <2>6. ASSUME NEW u, NEW new, owner'[asked[n]] = u, Enter(c, u, new)
          PROVE  CallInv(c)'
      <3>1. CASE call'[c] = Idle
        BY <3>1 DEF CallInv, At, Idle
      <3>2. CASE call'[c] = [step |-> "login:issue", user |-> u, from |-> n,
                             new |-> new]
        BY <2>3, <2>6, <3>2 DEF CallInv, At
      <3>. QED
        BY <1>0, <2>2, <2>6, <3>1, <3>2 DEF Enter, Answer, TypeOK
    <2>7. CASE FindWallet(c)
      BY <2>2, <2>4, <2>6, <2>7 DEF FindWallet, tables
    <2>8. CASE CreateUser(c)
      <3>1. ASSUME NEW u, owner' = [owner EXCEPT ![asked[n]] = u]
            PROVE  owner'[asked[n]] = u
        BY <1>0, <2>3, <3>1 DEF TypeOK
      <3>. QED
        BY <2>2, <2>5, <2>6, <2>8, <3>1 DEF CreateUser
    <2>. QED
      BY <1>1, <2>7, <2>8
  <1>2. CASE LoginIssue(c) \/ RefreshIssue(c)
    <2>1. call[c] \in IssueCall
      BY <1>0, <1>2, CallKinds DEF LoginIssue, RefreshIssue, At
    <2>2. PICK t \in Token :
            /\ InsertToken(c, t)
            /\ \/ /\ At(c, "login:issue")
                  /\ \E new : Answer(c, [step |-> "login:audit",
                       user |-> call[c].user, token |-> t, new |-> new])
               \/ /\ At(c, "refresh:issue")
                  /\ \E new : Answer(c, [step |-> "refresh:audit",
                       user |-> call[c].user, token |-> t, new |-> new])
      BY <1>2 DEF LoginIssue, RefreshIssue
    <2>3. [user |-> call[c].user, from |-> call[c].from, revoked |-> FALSE] \in TokenRow
      BY <2>1 DEF IssueCall, TokenRow
    <2>4. /\ tokens'[t] # None /\ tokens'[t].user = call[c].user
          /\ tokens'[t].from = call[c].from
      BY <1>0, <2>2, <2>3 DEF InsertToken, TypeOK
    <2>5. /\ call'[c].token = t /\ call'[c].user = call[c].user
          /\ \/ At(c, "login:issue") /\ call'[c].step = "login:audit"
             \/ At(c, "refresh:issue") /\ call'[c].step = "refresh:audit"
      BY <1>0, <2>2 DEF Answer, TypeOK
    <2>. QED
      BY <1>0, <2>4, <2>5 DEF CallInv, At
  <1>3. ASSUME NEW action, Log(c, action),
               call[c] \in LogCall, At(c, "login:audit") \/ At(c, "refresh:audit"),
               action = IF tokens[call[c].token].from \in Token
                        THEN "TOKEN_REFRESHED"
                        ELSE IF call[c].new THEN "USER_REGISTERED" ELSE "LOGIN_SUCCESS"
        PROVE  CallInv(c)'
    <2>1. call'[c] = [call[c] EXCEPT !.step = "in"]
      BY <1>0, <1>3 DEF Log, TypeOK
    <2>2. /\ call'[c].step = "in" /\ call'[c].user = call[c].user
          /\ call'[c].token = call[c].token /\ call'[c].new = call[c].new
      BY <1>3, <2>1 DEF LogCall
    <2>3. /\ [action |-> action, user |-> call[c].user] \in audit'
          /\ tokens' = tokens
      BY <1>3 DEF Log
    <2>4. /\ tokens[call[c].token] # None
          /\ tokens[call[c].token].user = call[c].user
      BY <1>0, <1>3 DEF CallInv
    <2>5. [user |-> call[c].user, action |-> action] \in audit'
      BY <2>3
    <2>. QED
      BY <1>3, <2>2, <2>3, <2>4, <2>5 DEF CallInv, At
  <1>4. CASE LoginAudit(c) \/ RefreshAudit(c)
    <2>1. call[c] \in LogCall
      BY <1>0, <1>4, CallKinds DEF LoginAudit, RefreshAudit, At
    <2>2. CASE LoginAudit(c)
      <3>1. tokens[call[c].token].from \notin Token
        BY <1>0, <2>2 DEF CallInv, LoginAudit
      <3>. QED
        BY <1>3, <2>1, <2>2, <3>1 DEF LoginAudit, LoginAction
    <2>3. CASE RefreshAudit(c)
      <3>1. tokens[call[c].token].from \in Token
        BY <1>0, <2>3 DEF CallInv, RefreshAudit
      <3>. QED
        BY <1>3, <2>1, <2>3, <3>1 DEF RefreshAudit
    <2>. QED
      BY <1>4, <2>2, <2>3
  <1>5. CASE RefreshRevoke(c)
    <2>1. call[c] \in IssueCall
      BY <1>0, <1>5, CallKinds DEF RefreshRevoke, At
    <2>2. /\ call[c].from \in Token /\ tokens[call[c].from] # None
          /\ tokens[call[c].from].user = call[c].user
          /\ tokens[call[c].from] \in TokenRow
      BY <1>0, <1>5 DEF RefreshRevoke, CallInv, TypeOK
    <2>3. call'[c] = [call[c] EXCEPT !.step = "refresh:issue"]
      BY <1>0, <1>5 DEF RefreshRevoke, TypeOK
    <2>4. /\ call'[c].step = "refresh:issue" /\ call'[c].from = call[c].from
          /\ call'[c].user = call[c].user
      BY <2>1, <2>3 DEF IssueCall
    <2>5. tokens'[call[c].from] = [tokens[call[c].from] EXCEPT !.revoked = TRUE]
      BY <1>0, <1>5, <2>2 DEF RefreshRevoke, TypeOK
    <2>6. tokens'[call[c].from].revoked
      BY <2>2, <2>5 DEF TokenRow
    <2>. QED
      BY <1>0, <2>2, <2>4, <2>6 DEF CallInv, At, Keeps
  <1>. QED
    BY <1>1, <1>2, <1>4, <1>5 DEF Continue

LEMMA InvStep ==
  ASSUME Inv, [Next]_vars PROVE Inv'
  <1>0. TypeOK
    BY DEF Inv
  <1>1. ASSUME NEW c \in Call PROVE CallInv(c)'
    <2>1. CASE call'[c] = Idle
      BY <2>1 DEF CallInv, At, Idle
    <2>2. ASSUME NEW n \in Nonce, VerifyChallengeAndLogin(c, n) PROVE CallInv(c)'
      BY <1>0, <2>2 DEF VerifyChallengeAndLogin, Answer, TypeOK, CallInv, At
    <2>3. ASSUME NEW t \in Token, Refresh(c, t) PROVE CallInv(c)'
      BY <1>0, <2>3 DEF Refresh, Answer, TypeOK, tables, CallInv, At
    <2>. QED
      BY <2>1, <2>2, <2>3, Moves, KeptCall, MovedCall
  <1>2. \A t \in Token : tokens'[t] # None /\ tokens'[t].from \in Nonce => Proved(t)'
    BY ProvedStep
  <1>. QED
    BY <1>1, <1>2, TypeStep, SpentStep, RotationStep DEF Inv

----------------------------------------------------------------------------
(* Suspensions.                                                            *)

LEMMA LockedStep ==
  ASSUME Inv, [Next]_vars, NEW u \in User, LockedOut(u), u \in suspended'
  PROVE  LockedOut(u)' /\ TokensOf(u)' = TokensOf(u)
  <1>. USE NoneAssumption
  <1>0. TypeOK /\ Keeps
    BY StepKeeps DEF Inv
  <1>1. ASSUME NEW c \in Call, call'[c] \in IssueCall PROVE call'[c].user # u
    <2>1. CASE call'[c] = call[c]
      BY <1>1, <2>1 DEF LockedOut
    <2>2. CASE call'[c] = Idle
      BY <1>1, <2>2 DEF Idle, IssueCall
    <2>3. ASSUME NEW n \in Nonce, VerifyChallengeAndLogin(c, n) PROVE FALSE
      BY <1>0, <1>1, <2>3 DEF VerifyChallengeAndLogin, Answer, TypeOK, IssueCall
    <2>4. ASSUME NEW t \in Token, Refresh(c, t) PROVE call'[c].user # u
      BY <1>0, <2>4 DEF Refresh, Answer, TypeOK, LockedOut
    <2>5. ASSUME NEW v, NEW new, Enter(c, v, new) PROVE call'[c].user # u
      BY <1>0, <1>1, <2>5 DEF Enter, Answer, TypeOK, LockedOut, Idle, IssueCall
    <2>6. ASSUME FindWallet(c) \/ CreateUser(c) PROVE call'[c].user # u
      <3>1. call[c] \in LoginCall
        BY <1>0, <2>6, CallKinds DEF FindWallet, CreateUser, At
      <3>2. call' # [call EXCEPT ![c].step = "login:create"]
        <4>1. ASSUME call' = [call EXCEPT ![c].step = "login:create"] PROVE FALSE
          <5>1. call'[c] = [call[c] EXCEPT !.step = "login:create"]
            BY <1>0, <4>1 DEF TypeOK
          <5>2. call'[c].step = "login:create"
            BY <3>1, <5>1 DEF LoginCall
          <5>. QED
            BY <1>1, <5>2 DEF IssueCall
        <4>. QED
          BY <4>1
      <3>3. ~Answer(c, Idle)
        BY <1>0, <1>1 DEF Answer, TypeOK, Idle, IssueCall
      <3>. QED
        BY <2>5, <2>6, <3>2, <3>3 DEF FindWallet, CreateUser
    <2>7. ASSUME LoginIssue(c) \/ RefreshIssue(c) PROVE FALSE
      <3>1. call'[c].step \in {"login:audit", "refresh:audit"}
        BY <1>0, <2>7 DEF LoginIssue, RefreshIssue, Answer, TypeOK
      <3>. QED
        BY <1>1, <3>1 DEF IssueCall
    <2>8. ASSUME LoginAudit(c) \/ RefreshAudit(c) PROVE FALSE
      <3>1. call[c] \in LogCall
        BY <1>0, <2>8, CallKinds DEF LoginAudit, RefreshAudit, At
      <3>2. call'[c] = [call[c] EXCEPT !.step = "in"]
        BY <1>0, <2>8 DEF LoginAudit, RefreshAudit, Log, TypeOK
      <3>3. call'[c].step = "in"
        BY <3>1, <3>2 DEF LogCall
      <3>. QED
        BY <1>1, <3>3 DEF IssueCall
    <2>9. ASSUME RefreshRevoke(c) PROVE call'[c].user # u
      <3>1. call[c] \in IssueCall
        BY <1>0, <2>9, CallKinds DEF RefreshRevoke, At
      <3>2. call'[c] = [call[c] EXCEPT !.step = "refresh:issue"]
        BY <1>0, <2>9 DEF RefreshRevoke, TypeOK
      <3>3. call'[c].user = call[c].user
        BY <3>1, <3>2 DEF IssueCall
      <3>. QED
        BY <3>1, <3>3 DEF LockedOut
    <2>. QED
      BY <2>1, <2>2, <2>3, <2>4, <2>6, <2>7, <2>8, <2>9, Moves DEF Continue
  <1>2. ASSUME NEW t \in Token, tokens[t] = None, tokens'[t] # None
        PROVE  tokens'[t].user # u
    <2>1. PICK c \in Call :
            /\ At(c, "login:issue") \/ At(c, "refresh:issue")
            /\ tokens'[t].user = call[c].user
      BY <1>2, NewToken
    <2>2. call[c] \in IssueCall
      BY <1>0, <2>1, CallKinds DEF At
    <2>. QED
      BY <2>1, <2>2 DEF LockedOut
  <1>. QED
    BY <1>0, <1>1, <1>2 DEF LockedOut, TokensOf, Keeps

----------------------------------------------------------------------------
(* Theorems.                                                               *)

\* The invariant behind the theorems.
THEOREM Invariance == Spec => []Inv
  BY InvInit, InvStep, PTL DEF Spec

\* Challenges, tables and calls have the shape the schema and the handlers give
\* them.
THEOREM TypeCorrect == Spec => []TypeOK
  <1>1. Inv => TypeOK
    BY DEF Inv
  <1>. QED
    BY <1>1, Invariance, PTL

\* Every session goes back to a challenge of its own, signed by an address of
\* its user, for any number of users, calls, failures and restarts.
THEOREM NoSessionUnproved == Spec => []SessionsAreProved
  <1>1. Inv => SessionsAreProved
    BY DEF Inv, SessionsAreProved, Proved
  <1>. QED
    BY <1>1, Invariance, PTL

\* Whoever has tokens has them in the table, and the audit log knows of it.
THEOREM SessionsAreLogged == Spec => []InIsRecorded
  <1>1. Inv => InIsRecorded
    BY DEF Inv, InIsRecorded, CallInv
  <1>. QED
    BY <1>1, Invariance, PTL

\* A token made for another one replaces it, whatever failed on the way.
THEOREM NothingDoubled == Spec => []RotationReplaces
  <1>1. Inv => RotationReplaces
    BY DEF Inv
  <1>. QED
    BY <1>1, Invariance, PTL

\* A revoked refresh token stays revoked.
THEOREM RevokedForGood == Spec => RevocationIsFinal
  <1>1. Inv /\ [Next]_vars =>
          [\A t \in Token : tokens[t] # None =>
             /\ tokens'[t] # None
             /\ tokens'[t].user = tokens[t].user
             /\ tokens[t].revoked => tokens'[t].revoked]_vars
    BY StepKeeps DEF Keeps
  <1>. QED
    BY <1>1, Invariance, PTL DEF Spec, RevocationIsFinal

\* A suspended account stays out until it is reactivated, through whatever
\* address and however early its challenge was signed.
THEOREM SuspendedStayOut == Spec => SuspensionHolds
  <1>1. Inv /\ [Next]_vars =>
          [\A u \in User : LockedOut(u) /\ u \in suspended' =>
             LockedOut(u)' /\ TokensOf(u)' = TokensOf(u)]_vars
    BY LockedStep
  <1>. QED
    BY <1>1, Invariance, PTL DEF Spec, SuspensionHolds
----------------------------------------------------------------------------
(* The address book.                                                       *)

\* A new wallet is one more entry and makes its owner a user.
LEMMA EntriesStep ==
  ASSUME TypeOK, NEW a \in Address, NEW u \in User, owner[a] = None,
         owner' = [owner EXCEPT ![a] = u]
  PROVE  /\ Entries' = Entries \cup {<<a, u>>}
         /\ \A v \in User : <<a, v>> \notin Entries
         /\ Users' = Users \cup {u}
  <1>. USE NoneAssumption
  <1>1. /\ u # None /\ owner'[a] = u
        /\ \A b \in Address \ {a} : owner'[b] = owner[b]
    BY DEF TypeOK
  <1>2. ASSUME NEW e PROVE e \in Entries' <=> e \in Entries \cup {<<a, u>>}
    <2>1. e \in Entries' <=> \E b \in Address : owner'[b] # None /\ e = <<b, owner'[b]>>
      BY DEF Entries
    <2>2. e \in Entries <=> \E b \in Address : owner[b] # None /\ e = <<b, owner[b]>>
      BY DEF Entries
    <2>. QED
      BY <1>1, <2>1, <2>2
  <1>3. \A v \in User : <<a, v>> \notin Entries
    BY DEF Entries
  <1>4. ASSUME NEW v PROVE v \in Users' <=> v \in Users \cup {u}
    BY <1>1 DEF Users
  <1>. QED
    BY <1>2, <1>3, <1>4

\* Only a first login and a link write the book.
LEMMA BookStep == Inv /\ [Next]_vars => [Book!Next]_(Book!vars)
  <1>. SUFFICES ASSUME Inv, [Next]_vars PROVE Book!Next \/ UNCHANGED <<Users, Entries>>
    BY DEF Book!vars
  <1>0. TypeOK
    BY DEF Inv
  <1>1. ASSUME owner' = owner PROVE UNCHANGED <<Users, Entries>>
    BY <1>1 DEF Users, Entries
  <1>2. ASSUME NEW c \in Call, CreateUser(c) PROVE Book!Next \/ owner' = owner
    <2>. DEFINE a == asked[call[c].nonce]
    <2>1. CASE owner[a] = None
      <3>1. PICK u \in User \ Users : owner' = [owner EXCEPT ![a] = u]
        BY <1>2, <2>1 DEF CreateUser
      <3>2. a \in Address
        <4>1. call[c].step = "login:create"
          BY <1>2 DEF CreateUser, At
        <4>2. call[c].nonce \in Nonce /\ Carries(c, call[c].nonce)
          BY <1>0, <4>1, CallKinds DEF LoginCall, Carries
        <4>3. asked[call[c].nonce] # None
          BY <4>2 DEF Inv, Spent
        <4>. QED
          BY <1>0, <4>2, <4>3 DEF TypeOK
      <3>. HIDE DEF a
      <3>3. Book!Register(a, u)
        BY <1>0, <2>1, <3>1, <3>2, EntriesStep DEF Book!Register, Book!Write
      <3>. QED
        BY <3>2, <3>3 DEF Book!Next
    <2>2. CASE owner[a] # None
      BY <1>2, <2>2 DEF CreateUser
    <2>. QED
      BY <2>1, <2>2
  <1>3. ASSUME NEW a \in Address, NEW u \in User, LinkWallet(a, u) PROVE Book!Next
    <2>1. owner[a] = None /\ u \in Users /\ owner' = [owner EXCEPT ![a] = u]
      BY <1>3 DEF LinkWallet
    <2>2. /\ Entries' = Entries \cup {<<a, u>>}
          /\ \A v \in User : <<a, v>> \notin Entries
          /\ Users' = Users \cup {u}
      BY <1>0, <2>1, EntriesStep
    <2>3. Users' = Users
      BY <2>1, <2>2
    <2>4. Book!Link(a, u)
      BY <2>1, <2>2, <2>3 DEF Book!Link, Book!Write
    <2>. QED
      BY <2>4 DEF Book!Next
  <1>4. ASSUME \/ \E a \in Address : RequestChallenge(a)
               \/ \E n \in Nonce : \/ Sign(n) \/ RefuseSignature(n)
                                   \/ RefuseChallenge(n) \/ VerifyAddressOwnership(n)
               \/ \E u \in User : SuspendUser(u) \/ ReactivateUser(u)
               \/ \E x \in Nonce \cup Token : Expire(x)
               \/ Restart \/ UNCHANGED vars
               \/ \E t \in Token : Logout(t)
        PROVE  owner' = owner
    BY <1>4 DEF RequestChallenge, Sign, RefuseSignature, RefuseChallenge,
       VerifyAddressOwnership, Logout, SuspendUser, ReactivateUser, Expire, Restart,
       memory, tables, vars
  <1>5. ASSUME NEW c \in Call,
               \/ \E n \in Nonce : VerifyChallengeAndLogin(c, n)
               \/ \E t \in Token : Refresh(c, t)
               \/ FindWallet(c) \/ LoginIssue(c) \/ LoginAudit(c)
               \/ RefreshRevoke(c) \/ RefreshIssue(c) \/ RefreshAudit(c) \/ Fail(c)
        PROVE  owner' = owner
    BY <1>5 DEF VerifyChallengeAndLogin, Refresh, FindWallet, LoginIssue, LoginAudit,
       RefreshRevoke, RefreshIssue, RefreshAudit, Log, Fail, tables
  <1>. QED
    BY <1>1, <1>2, <1>3, <1>4, <1>5 DEF Next, Continue

\* Logins write the address book the wallets promise them: a new user enters
\* with its address in one step, and an address never changes hands.
THEOREM LoginsKeepTheBook == Spec => ImplementsAddressBook
  <1>1. Init => Book!Init
    BY DEF Init, Book!Init, Entries, Users
  <1>. QED
    BY <1>1, BookStep, Invariance, PTL DEF Spec, ImplementsAddressBook, Book!Spec
----------------------------------------------------------------------------
(* The entrance.                                                           *)

\* Only what was made has expired.
Timely == \A n \in Nonce : n \in expired => asked[n] # None

LEMMA TimelyStep ==
  ASSUME Inv, Timely, [Next]_vars PROVE Timely'
  <1>1. \A n \in Nonce : asked[n] # None => asked'[n] # None
    BY StepKeeps DEF Keeps
  <1>2. ASSUME NEW x \in Nonce \cup Token, Expire(x) PROVE Timely'
    BY <1>1, <1>2, NamesAssumption DEF Expire, Timely, Inv, TypeOK
  <1>3. (\E x \in Nonce \cup Token : Expire(x)) \/ expired' = expired
    BY DEF Next, Continue, RequestChallenge, Sign, RefuseSignature, RefuseChallenge,
       VerifyAddressOwnership, ConsumeChallenge, VerifyChallengeAndLogin, FindWallet,
       CreateUser, LoginIssue, LoginAudit, Refresh, RefreshRevoke, RefreshIssue,
       RefreshAudit, Log, Logout, LinkWallet, SuspendUser, ReactivateUser,
       Fail, Restart, memory, vars
  <1>. QED
    BY <1>1, <1>2, <1>3 DEF Timely

\* What the calls on their way in show of themselves when one of them moves.
LEMMA WayIn ==
  ASSUME Inv, NEW c \in Call, \A d \in Call \ {c} : call'[d] = call[d]
  PROVE  /\ call'[c] \notin LoginCall /\ call[c] \notin LoginCall => Redeemed' = Redeemed
         /\ call'[c] \notin LoginCall /\ call[c] \in LoginCall =>
              Redeemed' = Redeemed \ {call[c].nonce}
         /\ call'[c] \in LoginCall /\ call[c] \notin LoginCall =>
              Redeemed' = Redeemed \cup {call'[c].nonce}
         /\ /\ call'[c] \in LoginCall /\ call[c] \in LoginCall
            /\ call'[c].nonce = call[c].nonce
            => Redeemed' = Redeemed
         /\ ~At(c, "login:issue")' /\ ~At(c, "login:issue") => LetIn' = LetIn
         /\ ~At(c, "login:issue")' /\ At(c, "login:issue") =>
              LetIn' = LetIn \ {<<call[c].from, call[c].user>>}
         /\ At(c, "login:issue")' /\ ~At(c, "login:issue") =>
              LetIn' = LetIn \cup {<<call'[c].from, call'[c].user>>}
  <1>0. TypeOK /\ Spent /\ \A d \in Call : CallInv(d)
    BY DEF Inv
  <1>1. /\ \A n : n \in Redeemed <=> \E d \in Call : call[d] \in LoginCall /\ call[d].nonce = n
        /\ \A n : n \in Redeemed' <=> \E d \in Call : call'[d] \in LoginCall /\ call'[d].nonce = n
    BY DEF Redeemed
  <1>2. /\ \A e : e \in LetIn <=> \E d \in Call : /\ At(d, "login:issue")
                                                   /\ e = <<call[d].from, call[d].user>>
        /\ \A e : e \in LetIn' <=> \E d \in Call : /\ At(d, "login:issue")'
                                                    /\ e = <<call'[d].from, call'[d].user>>
    BY DEF LetIn, At
  <1>3. ASSUME NEW d \in Call, NEW e \in Call, call[d] \in LoginCall, call[e] \in LoginCall,
               call[d].nonce = call[e].nonce
        PROVE  d = e
    <2>1. /\ call[d].nonce \in Nonce
          /\ Carries(d, call[d].nonce) /\ Carries(e, call[d].nonce)
      BY <1>3 DEF LoginCall, Carries
    <2>. QED
      BY <1>0, <2>1 DEF Spent
  <1>4. ASSUME NEW d \in Call, NEW e \in Call, At(d, "login:issue"), At(e, "login:issue"),
               call[d].from = call[e].from
        PROVE  d = e
    <2>1. /\ call[d].from \in Nonce
          /\ Carries(d, call[d].from) /\ Carries(e, call[d].from)
      BY <1>0, <1>4 DEF CallInv, Carries
    <2>. QED
      BY <1>0, <2>1 DEF Spent
  <1>5. /\ call'[c] \notin LoginCall /\ call[c] \notin LoginCall =>
             \A n : n \in Redeemed' <=> n \in Redeemed
        /\ call'[c] \notin LoginCall /\ call[c] \in LoginCall =>
             \A n : n \in Redeemed' <=> n \in Redeemed \ {call[c].nonce}
        /\ call'[c] \in LoginCall /\ call[c] \notin LoginCall =>
             \A n : n \in Redeemed' <=> n \in Redeemed \cup {call'[c].nonce}
        /\ /\ call'[c] \in LoginCall /\ call[c] \in LoginCall
           /\ call'[c].nonce = call[c].nonce
           => \A n : n \in Redeemed' <=> n \in Redeemed
    BY <1>1, <1>3
  <1>6. /\ ~At(c, "login:issue")' /\ ~At(c, "login:issue") =>
             \A e : e \in LetIn' <=> e \in LetIn
        /\ ~At(c, "login:issue")' /\ At(c, "login:issue") =>
             \A e : e \in LetIn' <=> e \in LetIn \ {<<call[c].from, call[c].user>>}
        /\ At(c, "login:issue")' /\ ~At(c, "login:issue") =>
             \A e : e \in LetIn' <=> e \in LetIn \cup {<<call'[c].from, call'[c].user>>}
    BY <1>2, <1>4 DEF At
  <1>. QED
    BY <1>5, <1>6

\* Sessions come and go with the rows of login tokens alone.
LEMMA SameSessions ==
  ASSUME TypeOK,
         \A t \in Token : /\ tokens[t] = None <=> tokens'[t] = None
                          /\ tokens[t] # None => /\ tokens'[t].user = tokens[t].user
                                                 /\ tokens'[t].from = tokens[t].from
  PROVE  LoggedIn' = LoggedIn
  <1>1. \A e : e \in LoggedIn <=>
          \E t \in Token : /\ tokens[t] # None /\ tokens[t].from \in Nonce
                           /\ e = <<tokens[t].from, tokens[t].user>>
    BY DEF LoggedIn
  <1>2. \A e : e \in LoggedIn' <=>
          \E t \in Token : /\ tokens'[t] # None /\ tokens'[t].from \in Nonce
                           /\ e = <<tokens'[t].from, tokens'[t].user>>
    BY DEF LoggedIn
  <1>3. \A e : e \in LoggedIn' <=> e \in LoggedIn
    BY <1>1, <1>2
  <1>. QED
    BY <1>3
\* What a call that has redeemed a challenge stands for.
LEMMA RedeemedIs ==
  ASSUME Inv, NEW c \in Call, call[c] \in LoginCall
  PROVE  /\ call[c].nonce \in Nonce
         /\ asked[call[c].nonce] \in Address
         /\ call[c].nonce \in Redeemed
  <1>1. call[c].nonce \in Nonce /\ Carries(c, call[c].nonce)
    BY DEF LoginCall, Carries
  <1>2. asked[call[c].nonce] # None
    BY <1>1 DEF Inv, Spent
  <1>. QED
    BY <1>1, <1>2 DEF Inv, TypeOK, Redeemed

\* A challenge that is made, and one that is signed.
LEMMA GateMake ==
  ASSUME Inv, Timely, NEW b \in Address, RequestChallenge(b) PROVE Gate!Next
  <1>. USE NoneAssumption
  <1>0. TypeOK /\ Spent
    BY DEF Inv
  <1>1. PICK n \in Nonce : /\ asked[n] = None
                           /\ asked' = [asked EXCEPT ![n] = b]
                           /\ pending' = pending \cup {n}
    BY DEF RequestChallenge
  <1>2. /\ b # None /\ asked'[n] = b
        /\ \A m \in Nonce \ {n} : asked'[m] = asked[m]
    BY <1>0, <1>1 DEF TypeOK
  <1>3. UNCHANGED <<signed, expired, owner, suspended, tokens, call>>
    BY DEF RequestChallenge, tables
  <1>4. n \notin Made /\ Made' = Made \cup {n} /\ Made \subseteq Nonce
    <2>1. \A m : m \in Made' <=> m \in Made \cup {n}
      BY <1>1, <1>2 DEF Made
    <2>. QED
      BY <1>1, <2>1 DEF Made
  <1>5. ASSUME NEW S, S \subseteq Made PROVE {<<m, asked'[m]>> : m \in S} = Of(S)
    BY <1>2, <1>4, <1>5 DEF Of
  <1>6. signed \subseteq Made /\ Redeemed \subseteq Made
    <2>1. signed \subseteq Made
      BY <1>0 DEF Spent, Made
    <2>2. ASSUME NEW c \in Call, call[c] \in LoginCall PROVE call[c].nonce \in Made
      BY <2>2, RedeemedIs, NoneAssumption DEF Made
    <2>. QED
      BY <2>1, <2>2 DEF Redeemed
  <1>7. Redeemed' = Redeemed /\ LetIn' = LetIn /\ LoggedIn' = LoggedIn
        /\ Entries' = Entries
    BY <1>3 DEF Redeemed, LetIn, At, LoggedIn, Entries
  <1>8. Of(signed)' = Of(signed) /\ Of(Redeemed)' = Of(Redeemed)
    BY <1>3, <1>5, <1>6, <1>7 DEF Of
  <1>9. Of(Made)' = Of(Made) \cup {<<n, b>>}
    <2>1. Of(Made)' = {<<m, asked'[m]>> : m \in Made \cup {n}}
      BY <1>4 DEF Of
    <2>2. {<<m, asked'[m]>> : m \in Made \cup {n}}
            = {<<m, asked'[m]>> : m \in Made} \cup {<<n, b>>}
      BY <1>2
    <2>. QED
      BY <1>5, <2>1, <2>2
  <1>10. (pending \ expired)' = (pending \ expired) \cup {n}
    BY <1>1, <1>3 DEF Timely
  <1>11. Gate!Make(n, b)
    BY <1>3, <1>4, <1>7, <1>8, <1>9, <1>10 DEF Gate!Make
  <1>. QED
    BY <1>11 DEF Gate!Next

LEMMA GateSign ==
  ASSUME Inv, NEW n \in Nonce, Sign(n) PROVE Gate!Next
  <1>0. TypeOK /\ asked[n] # None /\ signed' = signed \cup {n}
        /\ UNCHANGED <<asked, pending, expired, owner, suspended, tokens, call>>
    BY DEF Inv, Sign, tables
  <1>1. asked[n] \in Address /\ n \in Made
    BY <1>0 DEF TypeOK, Made
  <1>2. /\ Made' = Made /\ Of(Made)' = Of(Made)
        /\ Redeemed' = Redeemed /\ Of(Redeemed)' = Of(Redeemed)
        /\ LetIn' = LetIn /\ LoggedIn' = LoggedIn /\ Entries' = Entries
        /\ (pending \ expired)' = pending \ expired
    BY <1>0 DEF Made, Of, Redeemed, LetIn, At, LoggedIn, Entries
  <1>3. <<n, asked[n]>> \in Of(Made)
    BY <1>1 DEF Of
  <1>4. Of(signed)' = Of(signed) \cup {<<n, asked[n]>>}
    <2>1. Of(signed)' = {<<m, asked[m]>> : m \in signed \cup {n}}
      BY <1>0 DEF Of
    <2>. QED
      BY <2>1 DEF Of
  <1>5. Gate!Sign(n, asked[n])
    BY <1>0, <1>2, <1>3, <1>4 DEF Gate!Sign
  <1>. QED
    BY <1>1, <1>5 DEF Gate!Next

\* A challenge that is redeemed, for a login or for a link.
LEMMA GateRedeem ==
  ASSUME Inv, NEW n \in Nonce, NEW c \in Call, VerifyChallengeAndLogin(c, n)
  PROVE  Gate!Next
  <1>0. TypeOK /\ Spent
    BY DEF Inv
  <1>1. /\ Free(c) /\ n \in signed /\ n \in pending \ expired
        /\ pending' = pending \ (expired \cup {n})
        /\ UNCHANGED <<asked, signed, expired, owner, suspended, tokens>>
        /\ call' = [call EXCEPT ![c] = [step |-> "login:wallet", nonce |-> n]]
    BY DEF VerifyChallengeAndLogin, ConsumeChallenge, Answer, tables
  <1>2. /\ call'[c] \in LoginCall /\ call'[c].nonce = n /\ ~At(c, "login:issue")'
        /\ \A d \in Call \ {c} : call'[d] = call[d]
    BY <1>0, <1>1 DEF TypeOK, LoginCall, At
  <1>3. call[c] \notin LoginCall /\ ~At(c, "login:issue")
    BY <1>1 DEF Free, LoginCall, At
  <1>4. Redeemed' = Redeemed \cup {n} /\ LetIn' = LetIn
    BY <1>2, <1>3, WayIn
  <1>5. /\ Made' = Made /\ Of(Made)' = Of(Made) /\ Of(signed)' = Of(signed)
        /\ LoggedIn' = LoggedIn /\ Entries' = Entries
        /\ (pending \ expired)' = (pending \ expired) \ {n}
    BY <1>1 DEF Made, Of, LoggedIn, Entries
  <1>6. Of(Redeemed)' = Of(Redeemed) \cup {<<n, asked[n]>>}
    <2>1. Of(Redeemed)' = {<<m, asked[m]>> : m \in Redeemed \cup {n}}
      BY <1>1, <1>4 DEF Of
    <2>. QED
      BY <2>1 DEF Of
  <1>7. <<n, asked[n]>> \in Of(signed) /\ asked[n] \in Address
    BY <1>0, <1>1 DEF Of, Spent, TypeOK
  <1>8. Gate!Redeem(n, asked[n])
    BY <1>1, <1>4, <1>5, <1>6, <1>7 DEF Gate!Redeem
  <1>. QED
    BY <1>7, <1>8 DEF Gate!Next
\* A call that found or made the wallet: it is refused or goes on.
LEMMA GateEnter ==
  ASSUME Inv, NEW c \in Call, call[c] \in LoginCall, NEW u \in User, NEW new \in BOOLEAN,
         Enter(c, u, new),
         UNCHANGED <<asked, signed, pending, expired, suspended, tokens>>,
         \/ /\ owner[asked[call[c].nonce]] = u
            /\ owner' = owner
         \/ /\ owner[asked[call[c].nonce]] = None
            /\ owner' = [owner EXCEPT ![asked[call[c].nonce]] = u]
            /\ u \notin Users
  PROVE  Gate!Next
  <1>. DEFINE n == call[c].nonce
              a == asked[n]
  <1>0. TypeOK
    BY DEF Inv
  <1>1. n \in Nonce /\ a \in Address /\ n \in Redeemed
    BY RedeemedIs
  <1>2. /\ Made' = Made /\ Of(Made)' = Of(Made) /\ Of(signed)' = Of(signed)
        /\ LoggedIn' = LoggedIn /\ (pending \ expired)' = pending \ expired
    BY DEF Made, Of, LoggedIn
  <1>3. \A d \in Call \ {c} : call'[d] = call[d]
    BY <1>0 DEF Enter, Answer, TypeOK
  <1>4. ~At(c, "login:issue")
    BY DEF LoginCall, At
  <1>5. CASE u \in suspended
    <2>1. call'[c] = Idle
      BY <1>0, <1>5 DEF Enter, Answer, TypeOK
    <2>2. call'[c] \notin LoginCall /\ ~At(c, "login:issue")'
      BY <2>1 DEF Idle, LoginCall, At
    <2>3. Redeemed' \subseteq Redeemed /\ LetIn' = LetIn
      BY <1>3, <1>4, <2>2, WayIn
    <2>4. Of(Redeemed)' \subseteq Of(Redeemed)
      BY <2>3 DEF Of
    <2>5. Entries' = Entries
      BY <1>0, <1>5 DEF TypeOK, Entries
    <2>6. Gate!Lose
      BY <1>2, <2>3, <2>4, <2>5 DEF Gate!Lose
    <2>. QED
      BY <2>6 DEF Gate!Next
  <1>6. CASE u \notin suspended
    <2>1. call'[c] = [step |-> "login:issue", user |-> u, from |-> n, new |-> new]
      BY <1>0, <1>6 DEF Enter, Answer, TypeOK
    <2>2. /\ call'[c] \notin LoginCall /\ At(c, "login:issue")'
          /\ call'[c].from = n /\ call'[c].user = u
      BY <2>1 DEF LoginCall, At
    <2>3. Redeemed' = Redeemed \ {n} /\ LetIn' = LetIn \cup {<<n, u>>}
      BY <1>3, <1>4, <2>2, WayIn
    <2>. HIDE DEF n
    <2>4. Of(Redeemed)' = Of(Redeemed) \ {<<n, a>>}
      <3>1. Of(Redeemed)' = {<<m, asked[m]>> : m \in Redeemed \ {n}}
        BY <2>3 DEF Of
      <3>. QED
        BY <3>1 DEF Of
    <2>5. <<n, a>> \in Of(Redeemed)
      BY <1>1 DEF Of
    <2>. HIDE DEF a
    <2>6. \/ <<a, u>> \in Entries /\ Entries' = Entries
          \/ ~Gate!Known(a) /\ Entries' = Entries \cup {<<a, u>>}
      <3>1. CASE owner[a] = u /\ owner' = owner
        BY <1>1, <3>1, NoneAssumption DEF Entries
      <3>2. CASE owner[a] = None /\ owner' = [owner EXCEPT ![a] = u]
        BY <1>0, <1>1, <3>2, EntriesStep DEF Gate!Known
      <3>. QED
        BY <3>1, <3>2 DEF a, n
    <2>7. Gate!Admit(n, a, u)
      BY <1>2, <1>6, <2>3, <2>4, <2>5, <2>6 DEF Gate!Admit, Gate!Write
    <2>. QED
      BY <1>1, <2>7 DEF Gate!Next
  <1>. QED
    BY <1>5, <1>6

\* A call that goes on as it was, or is given up.
LEMMA GateGivenUp ==
  ASSUME Inv, NEW c \in Call, call' = [call EXCEPT ![c] = Idle],
         UNCHANGED <<asked, signed, pending, expired, owner, suspended, tokens>>
  PROVE  Gate!Next
  <1>0. TypeOK
    BY DEF Inv
  <1>1. call'[c] = Idle /\ \A d \in Call \ {c} : call'[d] = call[d]
    BY <1>0 DEF TypeOK
  <1>2. call'[c] \notin LoginCall /\ ~At(c, "login:issue")'
    BY <1>1 DEF Idle, LoginCall, At
  <1>3. Redeemed' \subseteq Redeemed /\ LetIn' \subseteq LetIn
    BY <1>1, <1>2, WayIn
  <1>4. /\ Made' = Made /\ Of(Made)' = Of(Made) /\ Of(signed)' = Of(signed)
        /\ LoggedIn' = LoggedIn /\ Entries' = Entries
        /\ (pending \ expired)' = pending \ expired
    BY DEF Made, Of, LoggedIn, Entries
  <1>5. Of(Redeemed)' \subseteq Of(Redeemed)
    BY <1>3 DEF Of
  <1>6. Gate!Lose
    BY <1>3, <1>4, <1>5 DEF Gate!Lose
  <1>. QED
    BY <1>6 DEF Gate!Next

Seen == <<Made, Of(Made), Of(signed), pending \ expired, Of(Redeemed), LetIn, LoggedIn,
          Entries, suspended>>

LEMMA GateLogin ==
  ASSUME Inv, NEW c \in Call, FindWallet(c) \/ CreateUser(c)
  PROVE  Gate!Next \/ UNCHANGED Seen
  <1>0. TypeOK
    BY DEF Inv
  <1>1. call[c] \in LoginCall
    BY <1>0, CallKinds DEF FindWallet, CreateUser, At
  <1>2. call[c].nonce \in Nonce /\ asked[call[c].nonce] \in Address
    BY <1>1, RedeemedIs
  <1>3. UNCHANGED <<asked, signed, pending, expired, suspended, tokens>>
    BY DEF FindWallet, CreateUser, memory, tables
  <1>4. CASE FindWallet(c)
    <2>1. CASE owner[asked[call[c].nonce]] = None
      <3>1. /\ call' = [call EXCEPT ![c].step = "login:create"]
            /\ owner' = owner
        BY <1>4, <2>1 DEF FindWallet, tables
      <3>2. /\ call'[c] = [call[c] EXCEPT !.step = "login:create"]
            /\ \A d \in Call \ {c} : call'[d] = call[d]
        BY <1>0, <3>1 DEF TypeOK
      <3>3. /\ call'[c] \in LoginCall /\ call'[c].nonce = call[c].nonce
            /\ ~At(c, "login:issue")' /\ ~At(c, "login:issue")
        BY <1>1, <3>2 DEF LoginCall, At
      <3>4. Redeemed' = Redeemed /\ LetIn' = LetIn
        BY <1>1, <3>2, <3>3, WayIn
      <3>. QED
        BY <1>3, <3>1, <3>4 DEF Seen, Made, Of, LoggedIn, Entries
    <2>2. CASE owner[asked[call[c].nonce]] # None
      <3>1. PICK u \in User : u = owner[asked[call[c].nonce]]
        BY <1>0, <1>2, <2>2 DEF TypeOK
      <3>2. Enter(c, u, FALSE) /\ owner' = owner
        BY <1>4, <2>2, <3>1 DEF FindWallet, tables
      <3>. QED
        BY <1>1, <1>3, <3>1, <3>2, GateEnter
    <2>. QED
      BY <2>1, <2>2
  <1>5. CASE CreateUser(c)
    <2>1. CASE owner[asked[call[c].nonce]] = None
      <3>1. PICK u \in User \ Users :
              /\ owner' = [owner EXCEPT ![asked[call[c].nonce]] = u]
              /\ Enter(c, u, TRUE)
        BY <1>5, <2>1 DEF CreateUser
      <3>. QED
        BY <1>1, <1>3, <2>1, <3>1, GateEnter
    <2>2. CASE owner[asked[call[c].nonce]] # None
      <3>1. call' = [call EXCEPT ![c] = Idle] /\ owner' = owner
        BY <1>5, <2>2 DEF CreateUser, Answer
      <3>. QED
        BY <1>3, <3>1, GateGivenUp
    <2>. QED
      BY <2>1, <2>2
  <1>. QED
    BY <1>4, <1>5
\* The row of a login is a session, that of a rotation is none.
LEMMA GateIssue ==
  ASSUME Inv, NEW c \in Call, LoginIssue(c) \/ RefreshIssue(c)
  PROVE  Gate!Next \/ UNCHANGED Seen
  <1>. USE NoneAssumption
  <1>0. TypeOK /\ Spent /\ CallInv(c)
    BY DEF Inv
  <1>1. call[c] \in IssueCall /\ call[c] \notin LoginCall
    BY <1>0, CallKinds DEF LoginIssue, RefreshIssue, At, LoginCall
  <1>2. PICK t \in Token :
          /\ tokens[t] = None
          /\ tokens' = [tokens EXCEPT ![t] =
               [user |-> call[c].user, from |-> call[c].from, revoked |-> FALSE]]
          /\ \A d \in Call \ {c} : call'[d] = call[d]
          /\ call'[c] \notin LoginCall /\ ~At(c, "login:issue")'
    BY <1>0 DEF LoginIssue, RefreshIssue, InsertToken, Answer, LoginCall, At, TypeOK
  <1>3. PICK u \in User, n \in Nonce \cup Token : u = call[c].user /\ n = call[c].from
    BY <1>1 DEF IssueCall
  <1>4. /\ UNCHANGED <<asked, signed, pending, expired, owner, suspended>>
    BY DEF LoginIssue, RefreshIssue, memory
  <1>5. /\ Made' = Made /\ Of(Made)' = Of(Made) /\ Of(signed)' = Of(signed)
        /\ Entries' = Entries /\ (pending \ expired)' = pending \ expired
    BY <1>4 DEF Made, Of, Entries
  <1>6. Redeemed' = Redeemed /\ Of(Redeemed)' = Of(Redeemed)
    BY <1>1, <1>2, <1>4, WayIn DEF Of
  <1>7. /\ tokens'[t] # None /\ tokens'[t].user = u /\ tokens'[t].from = n
        /\ \A s \in Token \ {t} : tokens'[s] = tokens[s]
    <2>1. [user |-> u, from |-> n, revoked |-> FALSE] \in TokenRow
      BY <1>3 DEF TokenRow
    <2>2. /\ tokens'[t] = [user |-> u, from |-> n, revoked |-> FALSE]
          /\ \A s \in Token \ {t} : tokens'[s] = tokens[s]
      BY <1>0, <1>2, <1>3 DEF TypeOK
    <2>3. tokens'[t] # None
      BY <2>1, <2>2
    <2>4. tokens'[t].user = u /\ tokens'[t].from = n
      BY <2>2
    <2>. QED
      BY <2>2, <2>3, <2>4
  <1>8. /\ \A e : e \in LoggedIn <=>
             \E s \in Token : /\ tokens[s] # None /\ tokens[s].from \in Nonce
                              /\ e = <<tokens[s].from, tokens[s].user>>
        /\ \A e : e \in LoggedIn' <=>
             \E s \in Token : /\ tokens'[s] # None /\ tokens'[s].from \in Nonce
                              /\ e = <<tokens'[s].from, tokens'[s].user>>
    BY DEF LoggedIn
  <1>9. CASE LoginIssue(c)
    <2>1. At(c, "login:issue") /\ n \in Nonce /\ Carries(c, n)
      BY <1>0, <1>3, <1>9 DEF LoginIssue, CallInv, Carries
    <2>2. LetIn' = LetIn \ {<<n, u>>}
      BY <1>2, <1>3, <2>1, WayIn
    <2>3. <<n, u>> \in LetIn
      BY <1>3, <2>1 DEF LetIn, At
    <2>4. \A s \in Token : tokens[s] # None => tokens[s].from # n
      BY <1>0, <2>1 DEF Spent
    <2>5. \A v \in User : <<n, v>> \notin LoggedIn
      BY <2>4 DEF LoggedIn
    <2>6. LoggedIn' = LoggedIn \cup {<<n, u>>}
      <3>1. \A e : e \in LoggedIn' <=> e \in LoggedIn \cup {<<n, u>>}
        BY <1>2, <1>7, <1>8, <2>1
      <3>. QED
        BY <3>1
    <2>7. Gate!Open(n, u)
      BY <1>4, <1>5, <1>6, <2>2, <2>3, <2>5, <2>6 DEF Gate!Open
    <2>. QED
      BY <2>1, <2>7 DEF Gate!Next
  <1>10. CASE RefreshIssue(c)
    <2>1. n \notin Nonce /\ ~At(c, "login:issue")
      BY <1>0, <1>3, <1>10, NamesAssumption DEF RefreshIssue, CallInv, At
    <2>2. LetIn' = LetIn
      BY <1>2, <2>1, WayIn
    <2>3. LoggedIn' = LoggedIn
      <3>1. \A e : e \in LoggedIn' <=> e \in LoggedIn
        BY <1>2, <1>7, <1>8, <2>1
      <3>. QED
        BY <3>1
    <2>. QED
      BY <1>4, <1>5, <1>6, <2>2, <2>3 DEF Seen
  <1>. QED
    BY <1>9, <1>10

\* Logs, rotations and logouts are not seen.
LEMMA GateQuiet ==
  ASSUME Inv, [Next]_vars,
         \/ \E c \in Call : \/ LoginAudit(c) \/ RefreshAudit(c) \/ RefreshRevoke(c)
                            \/ \E t \in Token : Refresh(c, t)
         \/ \E t \in Token : Logout(t)
         \/ \E n \in Nonce : RefuseSignature(n) \/ RefuseChallenge(n)
         \/ UNCHANGED vars
  PROVE  UNCHANGED Seen
  <1>. USE NoneAssumption
  <1>0. TypeOK
    BY DEF Inv
  <1>1. UNCHANGED <<asked, signed, expired, owner, suspended>>
        /\ (pending \ expired)' = pending \ expired
    BY DEF LoginAudit, RefreshAudit, RefreshRevoke, Refresh, Logout, RefuseSignature,
       RefuseChallenge, Log, memory, tables, vars
  <1>2. LoggedIn' = LoggedIn
    <2>1. \A t \in Token : tokens[t] = None => tokens'[t] = None
      <3>1. ASSUME NEW t, tokens[t] # None, tokens' = [tokens EXCEPT ![t].revoked = TRUE]
            PROVE  \A s \in Token : tokens[s] = None => tokens'[s] = None
        BY <1>0, <3>1 DEF TypeOK
      <3>2. ASSUME NEW c \in Call, RefreshRevoke(c)
            PROVE  \A s \in Token : tokens[s] = None => tokens'[s] = None
        <4>1. tokens[call[c].from] # None
          BY <3>2 DEF RefreshRevoke, Inv, CallInv
        <4>. QED
          BY <3>1, <3>2, <4>1 DEF RefreshRevoke
      <3>3. ASSUME NEW t \in Token, Logout(t)
            PROVE  \A s \in Token : tokens[s] = None => tokens'[s] = None
        BY <3>1, <3>3 DEF Logout
      <3>4. CASE \/ \E c \in Call : \/ LoginAudit(c) \/ RefreshAudit(c)
                                    \/ \E t \in Token : Refresh(c, t)
                 \/ \E n \in Nonce : RefuseSignature(n) \/ RefuseChallenge(n)
                 \/ UNCHANGED vars
        BY <3>4 DEF LoginAudit, RefreshAudit, Refresh, RefuseSignature,
           RefuseChallenge, Log, tables, vars
      <3>. QED
        BY <3>2, <3>3, <3>4
    <2>. QED
      BY <1>0, <2>1, StepKeeps, SameSessions DEF Keeps
  <1>3. Redeemed' = Redeemed /\ LetIn' = LetIn
    <2>1. ASSUME NEW c \in Call,
                 \/ LoginAudit(c) \/ RefreshAudit(c) \/ RefreshRevoke(c)
                 \/ \E t \in Token : Refresh(c, t)
          PROVE  Redeemed' = Redeemed /\ LetIn' = LetIn
      <3>1. call[c] \notin LoginCall /\ ~At(c, "login:issue")
        BY <2>1 DEF LoginAudit, RefreshAudit, RefreshRevoke, Refresh, At, Free, LoginCall
      <3>2. /\ \A d \in Call \ {c} : call'[d] = call[d]
            /\ call'[c].step \in {"in", "refresh:issue", "refresh:revoke"}
        <4>1. CASE \E t \in Token : Refresh(c, t)
          BY <1>0, <4>1 DEF Refresh, Answer, TypeOK
        <4>2. CASE LoginAudit(c) \/ RefreshAudit(c) \/ RefreshRevoke(c)
          <5>1. call[c] \in LogCall \cup IssueCall
            BY <1>0, <4>2, CallKinds DEF LoginAudit, RefreshAudit, RefreshRevoke, At
          <5>2. PICK step \in {"in", "refresh:issue"} : call' = [call EXCEPT ![c].step = step]
            BY <4>2 DEF LoginAudit, RefreshAudit, RefreshRevoke, Log
          <5>3. call'[c] = [call[c] EXCEPT !.step = step]
                /\ \A d \in Call \ {c} : call'[d] = call[d]
            BY <1>0, <5>2 DEF TypeOK
          <5>4. call'[c].step = step
            BY <5>1, <5>3 DEF LogCall, IssueCall
          <5>. QED
            BY <5>3, <5>4
        <4>. QED
          BY <2>1, <4>1, <4>2
      <3>3. call'[c] \notin LoginCall /\ ~At(c, "login:issue")'
        BY <3>2 DEF LoginCall, At
      <3>. QED
        BY <3>1, <3>2, <3>3, WayIn
    <2>2. CASE \/ \E t \in Token : Logout(t)
               \/ \E n \in Nonce : RefuseSignature(n) \/ RefuseChallenge(n)
               \/ UNCHANGED vars
      BY <2>2 DEF Logout, RefuseSignature, RefuseChallenge, vars, Redeemed, LetIn, At
    <2>. QED
      BY <2>1, <2>2
  <1>. QED
    BY <1>1, <1>2, <1>3 DEF Seen, Made, Of, Entries

\* What is not under a login's control.
LEMMA GateRest ==
  ASSUME Inv,
         \/ \E n \in Nonce : VerifyAddressOwnership(n)
         \/ \E a \in Address, u \in User : LinkWallet(a, u)
         \/ \E u \in User : SuspendUser(u) \/ ReactivateUser(u)
         \/ \E x \in Nonce \cup Token : Expire(x)
         \/ Restart
  PROVE  Gate!Next
  <1>0. TypeOK
    BY DEF Inv
  <1>1. UNCHANGED <<asked, signed, tokens>>
    BY DEF VerifyAddressOwnership, ConsumeChallenge, LinkWallet, SuspendUser,
       ReactivateUser, Expire, Restart, memory, tables
  <1>2. Made' = Made /\ Of(Made)' = Of(Made) /\ Of(signed)' = Of(signed)
        /\ LoggedIn' = LoggedIn
    BY <1>1 DEF Made, Of, LoggedIn
  <1>3. ASSUME call' = call
        PROVE  Redeemed' = Redeemed /\ Of(Redeemed)' = Of(Redeemed) /\ LetIn' = LetIn
    BY <1>1, <1>3 DEF Redeemed, Of, LetIn, At
  <1>4. ASSUME NEW a \in Address, NEW u \in User, LinkWallet(a, u) PROVE Gate!Next
    <2>1. /\ owner[a] = None /\ owner' = [owner EXCEPT ![a] = u]
          /\ UNCHANGED <<pending, expired, suspended, call>>
      BY <1>4 DEF LinkWallet, memory
    <2>2. Gate!Write(a, u)
      BY <1>0, <2>1, EntriesStep DEF Gate!Write, Gate!Known
    <2>3. Gate!Link(a, u)
      BY <1>2, <1>3, <2>1, <2>2 DEF Gate!Link, Gate!underway
    <2>. QED
      BY <2>3 DEF Gate!Next
  <1>5. ASSUME NEW u \in User, SuspendUser(u) \/ ReactivateUser(u) PROVE Gate!Next
    <2>1. /\ suspended' \in {suspended \cup {u}, suspended \ {u}}
          /\ UNCHANGED <<pending, expired, owner, call>>
      BY <1>5 DEF SuspendUser, ReactivateUser, memory
    <2>2. Gate!Bar(u)
      BY <1>2, <1>3, <2>1 DEF Gate!Bar, Gate!underway, Entries
    <2>. QED
      BY <2>2 DEF Gate!Next
  <1>6. CASE \/ \E n \in Nonce : VerifyAddressOwnership(n)
             \/ \E x \in Nonce \cup Token : Expire(x)
    <2>1. /\ (pending \ expired)' \subseteq pending \ expired
          /\ UNCHANGED <<owner, suspended, call>>
      BY <1>6 DEF VerifyAddressOwnership, ConsumeChallenge, Expire, tables
    <2>2. Gate!Lose
      BY <1>2, <1>3, <2>1 DEF Gate!Lose, Entries
    <2>. QED
      BY <2>2 DEF Gate!Next
  <1>7. CASE Restart
    <2>1. /\ (pending \ expired)' \subseteq pending \ expired
          /\ UNCHANGED <<owner, suspended>>
          /\ \A c \in Call : call'[c] \in {call[c], Idle}
      BY <1>7 DEF Restart, tables
    <2>2. Redeemed' \subseteq Redeemed /\ LetIn' \subseteq LetIn
      BY <2>1 DEF Redeemed, LetIn, At, Idle, LoginCall
    <2>3. Of(Redeemed)' \subseteq Of(Redeemed)
      BY <1>1, <2>2 DEF Of
    <2>4. Gate!Lose
      BY <1>2, <2>1, <2>2, <2>3 DEF Gate!Lose, Entries
    <2>. QED
      BY <2>4 DEF Gate!Next
  <1>. QED
    BY <1>4, <1>5, <1>6, <1>7

LEMMA GateStep ==
  ASSUME Inv, Timely, [Next]_vars PROVE [Gate!Next]_(Gate!vars)
  <1>. SUFFICES Gate!Next \/ UNCHANGED Seen
    BY DEF Seen, Gate!vars, Gate!underway
  <1>1. ASSUME NEW c \in Call, Fail(c) PROVE Gate!Next
    BY <1>1, GateGivenUp DEF Fail, Answer, memory, tables
  <1>. QED
    BY <1>1, GateMake, GateSign, GateRedeem, GateLogin, GateIssue, GateQuiet, GateRest
       DEF Next, Continue

\* A session that is no rotation comes of one challenge, for the user of the
\* address that was asked to sign it and did, and of an account found active
\* after that, however requests, links, suspensions, expiries and restarts are
\* ordered.
THEOREM SessionsPassTheGate == Spec => ImplementsEntrance
  <1>1. Init => Timely /\ Gate!Init
    BY DEF Init, Timely, Gate!Init, Gate!underway, Made, Of, Redeemed, LetIn, LoggedIn,
       Entries, LoginCall, Idle, At
  <1>2. Spec => []Timely
    BY <1>1, TimelyStep, Invariance, PTL DEF Spec
  <1>. QED
    BY <1>1, <1>2, GateStep, Invariance, PTL DEF Spec, ImplementsEntrance, Gate!Spec
=============================================================================
