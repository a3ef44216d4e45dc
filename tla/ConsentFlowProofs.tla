------------------------- MODULE ConsentFlowProofs -------------------------
(***************************************************************************)
(* Proofs about ConsentFlow, for every value of its constants.             *)
(***************************************************************************)
EXTENDS ConsentFlow, TLAPS

----------------------------------------------------------------------------
(* The step of a call tells which record the call is.                      *)

LEMMA CallKinds ==
  ASSUME TypeOK, NEW c \in Call
  PROVE  /\ call[c].step \in {"create:wallet", "create:insert", "create:audit"}
              <=> call[c] \in CreateCall
         /\ call[c].step \in {"approve:update", "approve:grant",
                              "approve:auditGrant", "approve:audit"}
              <=> call[c] \in ApproveCall
         /\ call[c].step \in {"deny:update", "deny:audit"}
              <=> call[c] \in DenyCall
         /\ call[c].step \in {"revoke:update", "revoke:audit"}
              <=> call[c] \in RevokeCall
         /\ call[c].step \in {"fetch:consents", "fetch:credentials",
                              "fetch:audit"}
              <=> call[c] \in FetchCall
  <1>1. call[c] \in CallState
    BY DEF TypeOK
  <1>. QED
    BY <1>1 DEF CallState, Idle, Answered, CreateCall, ApproveCall, DenyCall,
                RevokeCall, FetchCall

----------------------------------------------------------------------------
(* Type correctness.  A step writes rows by id: that the row is there is   *)
(* what Grounded adds.                                                     *)

LEMMA TypeInit == Init => TypeOK
  <1>. SUFFICES ASSUME Init PROVE TypeOK
    OBVIOUS
  <1>1. call \in [Call -> CallState]
    BY DEF Init, CallState, Idle
  <1>2. \A c \in Call : call[c].step = "idle"
    BY DEF Init, Idle
  <1>. QED
    BY <1>1, <1>2 DEF Init, TypeOK, At

LEMMA TypeStep ==
  ASSUME TypeOK, \A c \in Call : Grounded(c), [Next]_vars
  PROVE  TypeOK'
  <1>. USE OwnerAssumption, ExpiryAssumption, NoneAssumption
  <1>1. ASSUME NEW c \in Call, CreateSteps(c) PROVE TypeOK'
    <2>1. CASE CreateFindProfile(c)
      BY <2>1, CallKinds DEF TypeOK, CreateFindProfile, At, Reject, Answer, Idle,
         CallState, CreateCall, world, tables
    <2>2. CASE CreateInsert(c)
      BY <2>2, CallKinds DEF TypeOK, CreateInsert, At, Goto, CallState, CreateCall,
         RequestRow, world
    <2>3. CASE CreateAudit(c)
      BY <2>3, CallKinds DEF TypeOK, CreateAudit, At, Answer, CallState, CreateCall,
         Answered, AuditEntry, Entry, world
    <2>. QED
      BY <1>1, <2>1, <2>2, <2>3 DEF CreateSteps
  <1>2. ASSUME NEW c \in Call, ApproveSteps(c) PROVE TypeOK'
    <2>1. CASE ApproveUpdate(c)
      <3>1. call[c] \in ApproveCall /\ requests[call[c].request] \in RequestRow
        BY <2>1, CallKinds DEF ApproveUpdate, At, Grounded, TypeOK, ApproveCall
      <3>2. [requests[call[c].request] EXCEPT !.status = "APPROVED"] \in RequestRow
        BY <3>1 DEF RequestRow
      <3>3. [call[c] EXCEPT !.step = "approve:grant", !.at = now] \in ApproveCall
        BY <3>1 DEF ApproveCall, TypeOK
      <3>4. call' = [call EXCEPT ![c] =
              [call[c] EXCEPT !.step = "approve:grant", !.at = now]]
        BY <2>1 DEF ApproveUpdate
      <3>5. call' \in [Call -> CallState]
        BY <3>3, <3>4 DEF CallState, TypeOK
      <3>6. call'[c].step = "approve:grant"
        BY <3>1, <3>4 DEF ApproveCall, TypeOK
      <3>7. \A d \in Call \ {c} : call'[d] = call[d]
        BY <3>4 DEF TypeOK
      <3>. QED
        BY <2>1, <3>2, <3>5, <3>6, <3>7 DEF ApproveUpdate, TypeOK, At, world
    <2>2. CASE GrantFromAccessRequest(c)
      <3>1. PICK k \in Consent, t \in call[c].at .. now :
              /\ consents' = [consents EXCEPT ![k] =
                   NewConsent(call[c].user, call[c].request, t)]
              /\ call' = [call EXCEPT ![c].step = "approve:auditGrant",
                                      ![c].consent = k]
        BY <2>2 DEF GrantFromAccessRequest
      <3>2. call[c] \in ApproveCall /\ requests[call[c].request] \in RequestRow
        BY <2>2, CallKinds DEF GrantFromAccessRequest, At, Grounded, TypeOK,
           ApproveCall
      <3>3. t \in Nat
        BY <3>2 DEF TypeOK, ApproveCall
      <3>4. NewConsent(call[c].user, call[c].request, t) \in ConsentRow
        BY <3>2, <3>3 DEF NewConsent, ConsentRow, RequestRow, ApproveCall
      <3>5. [call[c] EXCEPT !.step = "approve:auditGrant", !.consent = k]
              \in ApproveCall
        BY <3>2 DEF ApproveCall
      <3>6. call' = [call EXCEPT ![c] =
              [call[c] EXCEPT !.step = "approve:auditGrant", !.consent = k]]
        BY <3>1
      <3>7. call' \in [Call -> CallState]
        BY <3>5, <3>6 DEF CallState, TypeOK
      <3>8. call'[c].step = "approve:auditGrant" /\ call'[c].consent = k
        BY <3>2, <3>6 DEF ApproveCall, TypeOK
      <3>9. \A d \in Call \ {c} : call'[d] = call[d]
        BY <3>6 DEF TypeOK
      <3>. QED
        BY <2>2, <3>1, <3>4, <3>7, <3>8, <3>9 DEF GrantFromAccessRequest, TypeOK,
           At, world
    <2>3. CASE GrantConflict(c)
      BY <2>3, CallKinds DEF TypeOK, GrantConflict, At, Reject, Answer, Idle,
         CallState, world, tables
    <2>4. CASE AuditGrant(c)
      BY <2>4, CallKinds DEF TypeOK, AuditGrant, At, Goto, CallState, ApproveCall,
         AuditEntry, Entry, world
    <2>5. CASE ApproveAudit(c)
      BY <2>5, CallKinds DEF TypeOK, ApproveAudit, At, Answer, CallState,
         ApproveCall, Answered, AuditEntry, Entry, world
    <2>. QED
      BY <1>2, <2>1, <2>2, <2>3, <2>4, <2>5 DEF ApproveSteps
  <1>3. ASSUME NEW c \in Call, DenySteps(c) PROVE TypeOK'
    <2>1. CASE DenyUpdate(c)
      BY <2>1, CallKinds DEF TypeOK, DenyUpdate, Grounded, At, Goto, CallState,
         DenyCall, RequestRow, world
    <2>2. CASE DenyAudit(c)
      BY <2>2, CallKinds DEF TypeOK, DenyAudit, At, Answer, CallState, DenyCall,
         Answered, AuditEntry, Entry, world
    <2>. QED
      BY <1>3, <2>1, <2>2 DEF DenySteps
  <1>4. ASSUME NEW c \in Call, RevokeSteps(c) PROVE TypeOK'
    <2>1. CASE RevokeUpdate(c)
      BY <2>1, CallKinds DEF TypeOK, RevokeUpdate, Grounded, At, Goto, CallState,
         RevokeCall, ConsentRow, world
    <2>2. CASE RevokeAudit(c)
      BY <2>2, CallKinds DEF TypeOK, RevokeAudit, At, Answer, CallState, RevokeCall,
         Answered, AuditEntry, Entry, world
    <2>. QED
      BY <1>4, <2>1, <2>2 DEF RevokeSteps
  <1>5. ASSUME NEW c \in Call, FetchSteps(c) PROVE TypeOK'
    <2>1. CASE FindConsents(c)
      <3>1. PICK t \in call[c].at .. now :
              LET found == ActiveGrants(call[c].anchor, call[c].profile, t)
              IN  IF found = {} THEN Reject(c)
                  ELSE call' = [call EXCEPT ![c] =
                    [@ EXCEPT !.found = found, !.scopes = ScopesOf(found),
                              !.step = IF ScopesOf(found) \cap CredentialScope = {}
                                       THEN "fetch:audit"
                                       ELSE "fetch:credentials"]]
        BY <2>1 DEF FindConsents
      <3>. DEFINE found == ActiveGrants(call[c].anchor, call[c].profile, t)
      <3>2. found \subseteq Consent /\ ScopesOf(found) \subseteq Scope
        BY DEF ActiveGrants, Grants, ScopesOf, TypeOK, ConsentRow
      <3>3. call[c] \in FetchCall
        BY <2>1, CallKinds DEF FindConsents, At
      <3>4. call' \in [Call -> CallState]
        <4>1. CASE found = {}
          BY <3>1, <4>1 DEF Reject, Answer, Idle, CallState, TypeOK
        <4>2. CASE found # {}
          <5>. DEFINE next == IF ScopesOf(found) \cap CredentialScope = {}
                              THEN "fetch:audit" ELSE "fetch:credentials"
          <5>1. [call[c] EXCEPT !.found = found, !.scopes = ScopesOf(found),
                                !.step = next] \in FetchCall
            BY <3>2, <3>3 DEF FetchCall
          <5>2. call' = [call EXCEPT ![c] =
                  [call[c] EXCEPT !.found = found, !.scopes = ScopesOf(found),
                                  !.step = next]]
            BY <3>1, <4>2
          <5>. HIDE DEF next
          <5>. QED
            BY <5>1, <5>2 DEF CallState, TypeOK
        <4>. QED
          BY <4>1, <4>2
      <3>5. call'[c].step \notin {"create:insert", "approve:auditGrant"}
        <4>1. CASE found = {}
          BY <3>1, <4>1 DEF Reject, Answer, Idle, TypeOK
        <4>2. CASE found # {}
          <5>. DEFINE next == IF ScopesOf(found) \cap CredentialScope = {}
                              THEN "fetch:audit" ELSE "fetch:credentials"
          <5>1. call'[c] = [call[c] EXCEPT !.found = found,
                              !.scopes = ScopesOf(found), !.step = next]
            BY <3>1, <4>2 DEF TypeOK
          <5>2. next \in {"fetch:audit", "fetch:credentials"}
            OBVIOUS
          <5>. HIDE DEF next
          <5>. QED
            BY <3>3, <5>1, <5>2 DEF FetchCall
        <4>. QED
          BY <4>1, <4>2
      <3>6. \A d \in Call \ {c} : call'[d] = call[d]
        BY <3>1 DEF Reject, Answer, TypeOK
      <3>. QED
        BY <2>1, <3>4, <3>5, <3>6 DEF FindConsents, TypeOK, At, world, tables
    <2>2. CASE FindCredentials(c)
      BY <2>2, CallKinds DEF TypeOK, FindCredentials, At, Goto, CallState, FetchCall,
         world, tables
    <2>3. CASE FetchAudit(c)
      BY <2>3, CallKinds DEF TypeOK, FetchAudit, At, Answer, CallState, FetchCall,
         Answered, AuditEntry, Accessed, world
    <2>. QED
      BY <1>5, <2>1, <2>2, <2>3 DEF FetchSteps
  <1>6. ASSUME NEW c \in Call, Start(c) PROVE TypeOK'
    <2>1. ASSUME NEW a \in Anchor, NEW S \in SUBSET Scope \ {{}},
                 NEW d \in ExpiryDays, CreateForAnchor(c, a, S, d)
          PROVE  TypeOK'
      BY <2>1 DEF TypeOK, CreateForAnchor, At, CallState, CreateCall, world, tables
    <2>2. ASSUME NEW u \in User, NEW r \in Request, Approve(c, u, r)
          PROVE  TypeOK'
      BY <2>2 DEF TypeOK, Approve, At, CallState, ApproveCall, world, tables
    <2>3. ASSUME NEW u \in User, NEW r \in Request, Deny(c, u, r)
          PROVE  TypeOK'
      BY <2>3 DEF TypeOK, Deny, At, CallState, DenyCall, world, tables
    <2>4. ASSUME NEW u \in User, NEW k \in Consent, Revoke(c, u, k)
          PROVE  TypeOK'
      BY <2>4 DEF TypeOK, Revoke, At, CallState, RevokeCall, world, tables
    <2>5. ASSUME NEW a \in Anchor, NEW p \in Profile,
                 GetScopedDataForAnchor(c, a, p)
          PROVE  TypeOK'
      BY <2>5 DEF TypeOK, GetScopedDataForAnchor, At, CallState, FetchCall, Grants,
         world, tables
    <2>. QED
      BY <1>6, <2>1, <2>2, <2>3, <2>4, <2>5 DEF Start
  <1>7. ASSUME NEW c \in Call, Fail(c) PROVE TypeOK'
    BY <1>7 DEF TypeOK, Fail, At, Reject, Answer, Idle, CallState, tables
  <1>8. CASE ExpireStale
    BY <1>8 DEF TypeOK, ExpireStale, Stale, At, ConsentRow
  <1>9. CASE ExpireAudit
    BY <1>9 DEF TypeOK, ExpireAudit, At, AuditEntry, Entry
  <1>10. CASE ExpireFail
    BY <1>10 DEF TypeOK, ExpireFail, At, tables
  <1>11. ASSUME NEW a \in Anchor, ApproveAnchor(a) \/ BlockAnchor(a)
         PROVE  TypeOK'
    BY <1>11 DEF TypeOK, ApproveAnchor, BlockAnchor, At, tables
  <1>12. CASE Tick
    BY <1>12 DEF TypeOK, Tick, At, tables
  <1>13. CASE UNCHANGED vars
    BY <1>13 DEF TypeOK, vars, At
  <1>. QED
    BY <1>1, <1>2, <1>3, <1>4, <1>5, <1>6, <1>7, <1>8, <1>9, <1>10, <1>11, <1>12,
       <1>13 DEF Next, Continue

----------------------------------------------------------------------------
(* What every step keeps: time does not run back, rows stay, the columns a *)
(* grant copies are not written, and what is resolved or over stays so.    *)

KeptRequest(r) ==
  requests[r] # None =>
    /\ requests'[r] # None
    /\ requests'[r].anchor = requests[r].anchor
    /\ requests'[r].profile = requests[r].profile
    /\ requests'[r].scopes = requests[r].scopes
    /\ requests[r].status # "PENDING" => requests'[r].status # "PENDING"

KeptConsent(k) ==
  consents[k] # None =>
    /\ consents'[k] # None
    /\ consents'[k] = [consents[k] EXCEPT !.status = consents'[k].status]
    /\ consents'[k].status # consents[k].status =>
         \/ consents'[k].status = "REVOKED"
         \/ /\ consents'[k].status = "EXPIRED"
            /\ consents[k].status = "ACTIVE"
            /\ consents[k].expiresAt < now

Kept == /\ now <= now'
        /\ \A r \in Request : KeptRequest(r)
        /\ \A k \in Consent : KeptConsent(k)

LEMMA SameRequests ==
  ASSUME UNCHANGED requests
  PROVE  \A r \in Request : KeptRequest(r)
  BY DEF KeptRequest

LEMMA SameConsents ==
  ASSUME TypeOK, UNCHANGED consents
  PROVE  \A k \in Consent : KeptConsent(k)
  <1>. SUFFICES ASSUME NEW k \in Consent, consents[k] # None
                PROVE  consents[k] = [consents[k] EXCEPT !.status = consents[k].status]
    BY DEF KeptConsent
  <1>. QED
    BY DEF TypeOK, ConsentRow

LEMMA StepKeeps ==
  ASSUME TypeOK, Reserved, \A c \in Call : Grounded(c), [Next]_vars
  PROVE  Kept
  <1>. USE NoneAssumption
  <1>1. ASSUME UNCHANGED <<requests, consents>>, now' \in {now, now + 1} PROVE Kept
    BY <1>1, SameRequests, SameConsents DEF Kept, TypeOK
  <1>2. ASSUME NEW c \in Call, CreateInsert(c) PROVE Kept
    <2>1. requests[call[c].request] = None
      BY <1>2 DEF CreateInsert, At, Reserved, Reserving
    <2>2. \A r \in Request : KeptRequest(r)
      BY <1>2, <2>1 DEF CreateInsert, KeptRequest, TypeOK
    <2>. QED
      BY <1>2, <2>2, SameConsents DEF CreateInsert, Kept, TypeOK, world
  <1>3. ASSUME NEW c \in Call, NEW s \in {"APPROVED", "DENIED"},
               call[c].step \in {"approve:update", "deny:update"},
               requests' = [requests EXCEPT ![call[c].request].status = s],
               UNCHANGED <<now, consents>>
        PROVE  Kept
    <2>1. call[c].request \in Request /\ requests[call[c].request] \in RequestRow
      BY <1>3, CallKinds DEF Grounded, TypeOK, ApproveCall, DenyCall
    <2>2. \A r \in Request : KeptRequest(r)
      BY <1>3, <2>1 DEF KeptRequest, TypeOK, RequestRow
    <2>. QED
      BY <1>3, <2>2, SameConsents DEF Kept, TypeOK
  <1>4. ASSUME NEW c \in Call, GrantFromAccessRequest(c) PROVE Kept
    <2>1. PICK k \in Consent, t \in call[c].at .. now :
            /\ consents[k] = None
            /\ consents' = [consents EXCEPT ![k] =
                 NewConsent(call[c].user, call[c].request, t)]
      BY <1>4 DEF GrantFromAccessRequest
    <2>2. \A j \in Consent : consents[j] # None => consents'[j] = consents[j]
      BY <2>1 DEF TypeOK
    <2>3. \A j \in Consent : KeptConsent(j)
      BY <2>2 DEF KeptConsent, TypeOK, ConsentRow
    <2>. QED
      BY <1>4, <2>3, SameRequests DEF GrantFromAccessRequest, Kept, TypeOK, world
  <1>5. ASSUME NEW c \in Call, RevokeUpdate(c) PROVE Kept
    <2>1. call[c].consent \in Consent /\ consents[call[c].consent] \in ConsentRow
      BY <1>5, CallKinds DEF RevokeUpdate, At, Grounded, TypeOK, RevokeCall
    <2>2. \A k \in Consent : KeptConsent(k)
      BY <1>5, <2>1 DEF RevokeUpdate, KeptConsent, TypeOK, ConsentRow
    <2>. QED
      BY <1>5, <2>2, SameRequests DEF RevokeUpdate, Kept, TypeOK, world
  <1>6. CASE ExpireStale
    <2>1. PICK t \in 0 .. now :
            consents' = [k \in Consent |->
              IF k \in Stale(t) THEN [consents[k] EXCEPT !.status = "EXPIRED"]
                                ELSE consents[k]]
      BY <1>6 DEF ExpireStale
    <2>2. \A k \in Consent : KeptConsent(k)
      BY <2>1 DEF KeptConsent, Stale, TypeOK, ConsentRow
    <2>. QED
      BY <1>6, <2>2, SameRequests DEF ExpireStale, Kept, TypeOK
  <1>7. ASSUME NEW c \in Call, Continue(c) PROVE Kept
    <2>1. CASE CreateSteps(c)
      BY <2>1, <1>1, <1>2 DEF CreateSteps, CreateFindProfile, CreateAudit, world,
         tables
    <2>2. CASE ApproveSteps(c)
      BY <2>2, <1>1, <1>3, <1>4 DEF ApproveSteps, ApproveUpdate, GrantConflict,
         AuditGrant, ApproveAudit, At, world, tables
    <2>3. CASE DenySteps(c)
      BY <2>3, <1>1, <1>3 DEF DenySteps, DenyUpdate, DenyAudit, At, world
    <2>4. CASE RevokeSteps(c)
      BY <2>4, <1>1, <1>5 DEF RevokeSteps, RevokeAudit, world
    <2>5. CASE FetchSteps(c)
      BY <2>5, <1>1 DEF FetchSteps, FindConsents, FindCredentials, FetchAudit, world,
         tables
    <2>. QED
      BY <1>7, <2>1, <2>2, <2>3, <2>4, <2>5 DEF Continue
  <1>8. ASSUME NEW c \in Call, Start(c) PROVE Kept
    BY <1>8, <1>1 DEF Start, CreateForAnchor, Approve, Deny, Revoke,
       GetScopedDataForAnchor, world, tables
  <1>9. ASSUME NEW c \in Call, Fail(c) PROVE Kept
    BY <1>9, <1>1 DEF Fail, tables
  <1>10. CASE ExpireAudit \/ ExpireFail
    BY <1>10, <1>1 DEF ExpireAudit, ExpireFail, tables
  <1>11. ASSUME NEW a \in Anchor, ApproveAnchor(a) \/ BlockAnchor(a) PROVE Kept
    BY <1>11, <1>1 DEF ApproveAnchor, BlockAnchor, tables
  <1>12. CASE Tick
    BY <1>12, <1>1 DEF Tick, tables
  <1>13. CASE UNCHANGED vars
    BY <1>13, <1>1 DEF vars
  <1>. QED
    BY <1>6, <1>7, <1>8, <1>9, <1>10, <1>11, <1>12, <1>13 DEF Next

----------------------------------------------------------------------------
(* A call that takes no step loses nothing by the steps of the others.     *)

LEMMA KeptCall ==
  ASSUME TypeOK, TypeOK', Kept, NEW c \in Call, call'[c] = call[c], CallInv(c)
  PROVE  CallInv(c)'
  <1>. USE NoneAssumption
  <1>1. Grounded(c)'
    <2>1. ASSUME call[c].step \in {"approve:update", "approve:grant", "deny:update"}
          PROVE  call[c].request \in Request
      BY <2>1, CallKinds DEF ApproveCall, DenyCall
    <2>2. ASSUME call[c].step = "revoke:update"
          PROVE  /\ call[c].consent \in Consent
                 /\ consents[call[c].consent] # None =>
                      consents[call[c].consent] \in ConsentRow
      BY <2>2, CallKinds DEF RevokeCall, TypeOK
    <2>3. CASE call[c].step \in {"approve:update", "approve:grant", "deny:update"}
      <3>1. /\ requests[call[c].request] # None
            /\ requests'[call[c].request] # None
            /\ requests'[call[c].request].profile = requests[call[c].request].profile
            /\ requests[call[c].request].status # "PENDING" =>
                 requests'[call[c].request].status # "PENDING"
        BY <2>1, <2>3 DEF CallInv, Grounded, Kept, KeptRequest
      <3>. QED
        BY <2>3, <3>1 DEF CallInv, Grounded
    <2>4. CASE call[c].step = "revoke:update"
      <3>1. /\ consents'[call[c].consent] # None
            /\ consents'[call[c].consent].user = consents[call[c].consent].user
        BY <2>2, <2>4 DEF CallInv, Grounded, Kept, KeptConsent, ConsentRow
      <3>. QED
        BY <2>4, <3>1 DEF CallInv, Grounded
    <2>5. CASE call[c].step \notin {"approve:update", "approve:grant", "deny:update",
                                   "revoke:update"}
      BY <2>5 DEF Grounded
    <2>. QED
      BY <2>3, <2>4, <2>5
  <1>2. \A k \in Consent : consents[k] # None =>
          /\ consents[k] \in ConsentRow
          /\ consents'[k] # None
          /\ consents'[k].anchor = consents[k].anchor
          /\ consents'[k].profile = consents[k].profile
          /\ consents'[k].scopes = consents[k].scopes
          /\ consents'[k].expiresAt = consents[k].expiresAt
          /\ consents[k].status # "ACTIVE" => consents'[k].status # "ACTIVE"
    BY DEF Kept, KeptConsent, TypeOK, ConsentRow
  <1>3. \A a \in Anchor, p \in Profile : Grants(a, p) \subseteq Grants(a, p)'
    BY <1>2 DEF Grants
  <1>4. call[c] \in FetchCall =>
          /\ call[c].anchor \in Anchor
          /\ call[c].profile \in Profile
          /\ call[c].at \in Nat
          /\ call[c].liveAtStart \subseteq Consent
          /\ call[c].endedAtStart \subseteq Consent
    BY DEF FetchCall
  <1>5. Remembers(c)'
    BY <1>2, <1>3, <1>4 DEF CallInv, Remembers, Kept, TypeOK, Grants
  <1>6. Disclosing(c) => call[c] \in FetchCall
    BY CallKinds DEF Disclosing
  <1>7. WithinGrants(c)'
    BY <1>2, <1>3, <1>4, <1>6 DEF CallInv, WithinGrants, Disclosing, Grants
  <1>8. \A k \in Consent : consents[k] # None /\ Live(k)' => Live(k)
    BY <1>2 DEF Live, Kept, TypeOK, ConsentRow
  <1>9. UnionOfGrants(c)'
    BY <1>2, <1>4, <1>6, <1>8
       DEF CallInv, UnionOfGrants, Disclosing, Remembers, Grants
  <1>. QED
    BY <1>1, <1>5, <1>7, <1>9 DEF CallInv

----------------------------------------------------------------------------
(* A read between its start and its answer.                                *)

LEMMA StartsReading ==
  ASSUME TypeOK, NEW c \in Call, NEW a \in Anchor, NEW p \in Profile,
         GetScopedDataForAnchor(c, a, p)
  PROVE  CallInv(c)'
  <1>1. call'[c] = [step |-> "fetch:consents", anchor |-> a, profile |-> p,
                    at |-> now,
                    liveAtStart |-> {k \in Grants(a, p) : Live(k)},
                    endedAtStart |-> {k \in Grants(a, p) : ~Live(k)},
                    found |-> {}, scopes |-> {}]
    BY DEF GetScopedDataForAnchor, TypeOK
  <1>2. UNCHANGED <<now, consents>>
    BY DEF GetScopedDataForAnchor, world, tables
  <1>3. Remembers(c)'
    <2>1. Grants(a, p)' = Grants(a, p)
      BY <1>2 DEF Grants
    <2>2. \A k \in Grants(a, p) : ~Live(k) =>
            consents[k].status # "ACTIVE" \/ consents[k].expiresAt <= now
      BY DEF Grants, Live, TypeOK, ConsentRow
    <2>. QED
      BY <1>1, <1>2, <2>1, <2>2 DEF Remembers, TypeOK
  <1>. QED
    BY <1>1, <1>3 DEF CallInv, Grounded, WithinGrants, UnionOfGrants, Disclosing

LEMMA FindsConsents ==
  ASSUME TypeOK, NEW c \in Call, CallInv(c), FindConsents(c)
  PROVE  CallInv(c)'
  <1>. DEFINE a == call[c].anchor
              p == call[c].profile
  <1>1. call[c] \in FetchCall /\ Remembers(c) /\ UNCHANGED <<now, consents>>
    BY CallKinds DEF FindConsents, At, CallInv, world, tables
  <1>2. PICK t \in call[c].at .. now :
          LET found == ActiveGrants(a, p, t)
          IN  IF found = {} THEN Reject(c)
              ELSE call' = [call EXCEPT ![c] =
                [@ EXCEPT !.found = found, !.scopes = ScopesOf(found),
                          !.step = IF ScopesOf(found) \cap CredentialScope = {}
                                   THEN "fetch:audit"
                                   ELSE "fetch:credentials"]]
    BY DEF FindConsents
  <1>. DEFINE found == ActiveGrants(a, p, t)
              next == IF ScopesOf(found) \cap CredentialScope = {}
                      THEN "fetch:audit" ELSE "fetch:credentials"
  <1>3. CASE found = {}
    <2>1. call'[c] = Idle
      BY <1>2, <1>3 DEF Reject, Answer, TypeOK
    <2>. QED
      BY <2>1 DEF Idle, CallInv, Grounded, Remembers, WithinGrants, UnionOfGrants,
         Disclosing, FetchCall
  <1>4. CASE found # {}
    <2>1. call'[c] = [call[c] EXCEPT !.found = found, !.scopes = ScopesOf(found),
                                     !.step = next]
      BY <1>2, <1>4 DEF TypeOK
    <2>2. next \in {"fetch:audit", "fetch:credentials"}
      OBVIOUS
    <2>. HIDE DEF next
    <2>3. /\ call'[c].step = next
          /\ call'[c].scopes = ScopesOf(found)
          /\ call'[c].anchor = a
          /\ call'[c].profile = p
          /\ call'[c].at = call[c].at
          /\ call'[c].liveAtStart = call[c].liveAtStart
          /\ call'[c].endedAtStart = call[c].endedAtStart
      BY <1>1, <2>1 DEF FetchCall
    <2>4. Grants(a, p)' = Grants(a, p)
      BY <1>1, <2>3 DEF Grants
    <2>5. Remembers(c)'
      BY <1>1, <2>2, <2>3, <2>4 DEF Remembers, Grants
    <2>6. t \in Nat /\ call[c].at <= t /\ t <= now /\ now \in Nat
      BY <1>1 DEF FetchCall, TypeOK
    <2>7. found \cap call[c].endedAtStart = {}
      BY <1>1, <2>6 DEF Remembers, ActiveGrants, Grants, TypeOK, ConsentRow, FetchCall
    <2>8. found \subseteq Grants(a, p)
      BY DEF ActiveGrants
    <2>9. WithinGrants(c)'
      BY <1>1, <2>3, <2>4, <2>7, <2>8 DEF WithinGrants, ScopesOf
    <2>10. \A k \in call[c].liveAtStart : Live(k) => k \in found
      BY <1>1, <2>6 DEF Remembers, ActiveGrants, Grants, Live, TypeOK, ConsentRow
    <2>11. UnionOfGrants(c)'
      BY <1>1, <2>3, <2>10 DEF UnionOfGrants, ScopesOf, Live
    <2>12. Grounded(c)'
      BY <2>2, <2>3 DEF Grounded
    <2>. QED
      BY <2>5, <2>9, <2>11, <2>12 DEF CallInv
  <1>. QED
    BY <1>3, <1>4

LEMMA FindsCredentials ==
  ASSUME TypeOK, NEW c \in Call, CallInv(c), FindCredentials(c)
  PROVE  CallInv(c)'
  <1>1. call[c] \in FetchCall /\ call[c].step = "fetch:credentials"
    BY CallKinds DEF FindCredentials, At
  <1>2. call'[c] = [call[c] EXCEPT !.step = "fetch:audit"]
    BY DEF FindCredentials, Goto, TypeOK
  <1>3. /\ call'[c] \in FetchCall
        /\ call'[c].step = "fetch:audit"
        /\ call'[c].scopes = call[c].scopes
        /\ call'[c].anchor = call[c].anchor
        /\ call'[c].profile = call[c].profile
        /\ call'[c].at = call[c].at
        /\ call'[c].liveAtStart = call[c].liveAtStart
        /\ call'[c].endedAtStart = call[c].endedAtStart
    BY <1>1, <1>2 DEF FetchCall
  <1>4. UNCHANGED <<now, consents>>
    BY DEF FindCredentials, world, tables
  <1>. QED
    BY <1>1, <1>3, <1>4 DEF CallInv, Grounded, Remembers, WithinGrants,
       UnionOfGrants, Disclosing, Grants, Live

----------------------------------------------------------------------------
(* The calls, step by step.                                                *)

\* What a step of call c leaves of c: nothing promised, or a promise kept.
LEMMA OwnStep ==
  ASSUME Inv, TypeOK', NEW c \in Call, Continue(c)
  PROVE  CallInv(c)' /\ \A d \in Call \ {c} : call'[d] = call[d]
  <1>. USE NoneAssumption DEF Inv
  <1>1. ASSUME NEW step \in {"created", "approved", "denied", "revoked", "served",
                             "idle", "create:insert", "create:audit",
                             "approve:auditGrant", "approve:audit",
                             "deny:audit", "revoke:audit"},
               call'[c].step = step
        PROVE  CallInv(c)'
    BY <1>1, CallKinds
       DEF CallInv, Grounded, Remembers, WithinGrants, UnionOfGrants, Disclosing,
           FetchCall
  <1>2. CASE CreateSteps(c)
    <2>1. call[c] \in CreateCall
      BY <1>2, CallKinds DEF CreateSteps, CreateFindProfile, CreateInsert,
         CreateAudit, At
    <2>. QED
      BY <1>1, <1>2, <2>1 DEF CreateSteps, CreateFindProfile, CreateInsert,
         CreateAudit, Goto, Reject, Answer, Idle, CreateCall, TypeOK
  <1>3. CASE ApproveSteps(c)
    <2>1. call[c] \in ApproveCall
      BY <1>3, CallKinds DEF ApproveSteps, ApproveUpdate, GrantFromAccessRequest,
         GrantConflict, AuditGrant, ApproveAudit, At
    <2>2. CASE ApproveUpdate(c)
      <3>1. /\ call'[c] = [call[c] EXCEPT !.step = "approve:grant", !.at = now]
            /\ \A d \in Call \ {c} : call'[d] = call[d]
        BY <2>2 DEF ApproveUpdate, TypeOK
      <3>2. /\ call'[c].step = "approve:grant"
            /\ call'[c].request = call[c].request
            /\ call'[c].user = call[c].user
            /\ call'[c] \notin FetchCall
        BY <2>1, <3>1 DEF ApproveCall, FetchCall
      <3>3. /\ requests[call[c].request] \in RequestRow
            /\ call[c].request \in Request
            /\ Owner[requests[call[c].request].profile] = call[c].user
        BY <2>1, <2>2 DEF ApproveUpdate, At, CallInv, Grounded, ApproveCall, TypeOK
      <3>4. requests'[call[c].request] =
              [requests[call[c].request] EXCEPT !.status = "APPROVED"]
        BY <2>2, <3>3 DEF ApproveUpdate, TypeOK
      <3>5. Grounded(c)'
        BY <3>2, <3>3, <3>4 DEF Grounded, RequestRow
      <3>. QED
        BY <3>1, <3>2, <3>5 DEF CallInv, Remembers, WithinGrants, UnionOfGrants,
           Disclosing
    <2>3. CASE GrantFromAccessRequest(c)
      <3>1. PICK k \in Consent :
              call' = [call EXCEPT ![c].step = "approve:auditGrant",
                                   ![c].consent = k]
        BY <2>3 DEF GrantFromAccessRequest
      <3>. QED
        BY <1>1, <2>1, <3>1 DEF ApproveCall, TypeOK
    <2>4. CASE GrantConflict(c) \/ AuditGrant(c) \/ ApproveAudit(c)
      BY <1>1, <2>1, <2>4 DEF GrantConflict, AuditGrant, ApproveAudit, Goto, Reject,
         Answer, Idle, ApproveCall, TypeOK
    <2>. QED
      BY <1>3, <2>2, <2>3, <2>4 DEF ApproveSteps
  <1>4. CASE DenySteps(c)
    <2>1. call[c] \in DenyCall
      BY <1>4, CallKinds DEF DenySteps, DenyUpdate, DenyAudit, At
    <2>. QED
      BY <1>1, <1>4, <2>1 DEF DenySteps, DenyUpdate, DenyAudit, Goto, Answer,
         DenyCall, TypeOK
  <1>5. CASE RevokeSteps(c)
    <2>1. call[c] \in RevokeCall
      BY <1>5, CallKinds DEF RevokeSteps, RevokeUpdate, RevokeAudit, At
    <2>. QED
      BY <1>1, <1>5, <2>1 DEF RevokeSteps, RevokeUpdate, RevokeAudit, Goto, Answer,
         RevokeCall, TypeOK
  <1>6. CASE FetchSteps(c)
    <2>1. CASE FindConsents(c)
      <3>1. \A d \in Call \ {c} : call'[d] = call[d]
        BY <2>1 DEF FindConsents, Reject, Answer, TypeOK
      <3>. QED
        BY <2>1, <3>1, FindsConsents
    <2>2. CASE FindCredentials(c)
      <3>1. \A d \in Call \ {c} : call'[d] = call[d]
        BY <2>2 DEF FindCredentials, Goto, TypeOK
      <3>. QED
        BY <2>2, <3>1, FindsCredentials
    <2>3. CASE FetchAudit(c)
      BY <1>1, <2>3 DEF FetchAudit, Answer, TypeOK
    <2>. QED
      BY <1>6, <2>1, <2>2, <2>3 DEF FetchSteps
  <1>. QED
    BY <1>2, <1>3, <1>4, <1>5, <1>6 DEF Continue

LEMMA OwnStart ==
  ASSUME Inv, NEW c \in Call, Start(c)
  PROVE  CallInv(c)' /\ \A d \in Call \ {c} : call'[d] = call[d]
  <1>. USE NoneAssumption DEF Inv
  <1>1. UNCHANGED <<requests, consents, now>>
    BY DEF Start, CreateForAnchor, Approve, Deny, Revoke, GetScopedDataForAnchor,
       world, tables
  <1>2. ASSUME NEW a \in Anchor, NEW S \in SUBSET Scope \ {{}}, NEW d \in ExpiryDays,
               CreateForAnchor(c, a, S, d)
        PROVE  CallInv(c)' /\ \A e \in Call \ {c} : call'[e] = call[e]
    BY <1>2 DEF CreateForAnchor, TypeOK, CallInv, Grounded, Remembers, WithinGrants,
       UnionOfGrants, Disclosing, FetchCall
  <1>3. ASSUME NEW u \in User, NEW r \in Request, Approve(c, u, r) \/ Deny(c, u, r)
        PROVE  CallInv(c)' /\ \A d \in Call \ {c} : call'[d] = call[d]
    BY <1>1, <1>3 DEF Approve, Deny, FindOwnedPending, TypeOK, CallInv, Grounded,
       Remembers, WithinGrants, UnionOfGrants, Disclosing, FetchCall
  <1>4. ASSUME NEW u \in User, NEW k \in Consent, Revoke(c, u, k)
        PROVE  CallInv(c)' /\ \A d \in Call \ {c} : call'[d] = call[d]
    BY <1>1, <1>4 DEF Revoke, TypeOK, CallInv, Grounded, Remembers, WithinGrants,
       UnionOfGrants, Disclosing, FetchCall
  <1>5. ASSUME NEW a \in Anchor, NEW p \in Profile, GetScopedDataForAnchor(c, a, p)
        PROVE  CallInv(c)' /\ \A d \in Call \ {c} : call'[d] = call[d]
    BY <1>5, StartsReading DEF GetScopedDataForAnchor, TypeOK
  <1>. QED
    BY <1>2, <1>3, <1>4, <1>5 DEF Start

LEMMA CallsKeepTheirPromises ==
  ASSUME Inv, TypeOK', Kept, [Next]_vars
  PROVE  \A c \in Call : CallInv(c)'
  <1>. USE DEF Inv
  <1>1. ASSUME UNCHANGED call PROVE \A c \in Call : CallInv(c)'
    BY <1>1, KeptCall
  <1>2. ASSUME NEW c \in Call, Continue(c) \/ Start(c) \/ Fail(c)
        PROVE  \A d \in Call : CallInv(d)'
    <2>1. CallInv(c)' /\ \A d \in Call \ {c} : call'[d] = call[d]
      <3>1. CASE Continue(c)
        BY <3>1, OwnStep
      <3>2. CASE Start(c)
        BY <3>2, OwnStart
      <3>3. CASE Fail(c)
        BY <3>3 DEF Fail, Reject, Answer, Idle, TypeOK, CallInv, Grounded, Remembers,
           WithinGrants, UnionOfGrants, Disclosing, FetchCall
      <3>. QED
        BY <1>2, <3>1, <3>2, <3>3
    <2>. QED
      BY <2>1, KeptCall
  <1>3. CASE ExpireStale \/ ExpireAudit \/ ExpireFail
    BY <1>1, <1>3 DEF ExpireStale, ExpireAudit, ExpireFail
  <1>4. ASSUME NEW a \in Anchor, ApproveAnchor(a) \/ BlockAnchor(a)
        PROVE  \A c \in Call : CallInv(c)'
    BY <1>1, <1>4 DEF ApproveAnchor, BlockAnchor
  <1>5. CASE Tick \/ UNCHANGED vars
    BY <1>1, <1>5 DEF Tick, vars
  <1>. QED
    BY <1>2, <1>3, <1>4, <1>5 DEF Next

----------------------------------------------------------------------------
(* Reserved ids.                                                           *)

\* A step that starts no insert and does not use a reserved id.
LEMMA ReservedKept ==
  ASSUME Reserved,
         \A c \in Call : Reserving(c)' =>
           Reserving(c) /\ call'[c].request = call[c].request,
         \A c \in Call : Reserving(c)' /\ requests[call[c].request] = None =>
           requests'[call[c].request] = None
  PROVE  Reserved'
  BY DEF Reserved

LEMMA ReservedStep ==
  ASSUME Inv, [Next]_vars
  PROVE  Reserved'
  <1>. USE NoneAssumption DEF Inv
  <1>1. ASSUME UNCHANGED <<requests, call>> PROVE Reserved'
    BY <1>1 DEF Reserved, Reserving
  <1>2. ASSUME NEW c \in Call, \A d \in Call \ {c} : call'[d] = call[d],
               call'[c].step \notin {"create:wallet", "create:insert"},
               \A r \in Request : requests[r] = None => requests'[r] = None
        PROVE  Reserved'
    <2>1. \A d \in Call : Reserving(d)' =>
            Reserving(d) /\ call'[d].request = call[d].request
                         /\ call[d].request \in Request
      BY <1>2, CallKinds DEF Reserving, CreateCall
    <2>. QED
      BY <1>2, <2>1, ReservedKept DEF Reserving
  <1>3. ASSUME NEW c \in Call, NEW a \in Anchor, NEW S \in SUBSET Scope \ {{}},
               NEW n \in ExpiryDays, CreateForAnchor(c, a, S, n)
        PROVE  Reserved'
    <2>1. PICK r \in Request :
            /\ Unused(r)
            /\ call' = [call EXCEPT ![c] =
                 [step |-> "create:wallet", anchor |-> a, scopes |-> S,
                  days |-> n, profile |-> None, request |-> r]]
      BY <1>3 DEF CreateForAnchor
    <2>2. \A d \in Call : Reserving(d) => call[d].request # r
      BY <2>1, CallKinds DEF Unused, Reserving
    <2>3. /\ call'[c].step = "create:wallet" /\ call'[c].request = r
          /\ \A d \in Call \ {c} : call'[d] = call[d]
      BY <2>1 DEF TypeOK
    <2>4. UNCHANGED requests
      BY <1>3 DEF CreateForAnchor, tables
    <2>. QED
      BY <2>1, <2>2, <2>3, <2>4 DEF Reserved, Reserving, Unused
  <1>4. ASSUME NEW c \in Call, CreateFindProfile(c) PROVE Reserved'
    <2>1. call[c] \in CreateCall /\ Reserving(c)
      BY <1>4, CallKinds DEF CreateFindProfile, At, Reserving
    <2>2. CASE Reject(c)
      BY <1>2, <1>4, <2>2 DEF CreateFindProfile, Reject, Answer, Idle, TypeOK, tables
    <2>3. CASE \E p \in Profile :
                 call' = [call EXCEPT ![c].step = "create:insert",
                                      ![c].profile = p]
      <3>1. /\ call'[c].request = call[c].request
            /\ \A d \in Call \ {c} : call'[d] = call[d]
        BY <2>1, <2>3 DEF CreateCall, TypeOK
      <3>2. \A d \in Call : Reserving(d)' =>
              Reserving(d) /\ call'[d].request = call[d].request
        BY <2>1, <3>1 DEF Reserving
      <3>. QED
        BY <1>4, <3>2, ReservedKept DEF CreateFindProfile, tables
    <2>. QED
      BY <1>4, <2>2, <2>3 DEF CreateFindProfile
  <1>5. ASSUME NEW c \in Call, CreateInsert(c) PROVE Reserved'
    <2>1. call[c] \in CreateCall /\ Reserving(c)
      BY <1>5, CallKinds DEF CreateInsert, At, Reserving
    <2>2. /\ call'[c].step = "create:audit"
          /\ \A d \in Call \ {c} : call'[d] = call[d]
      BY <1>5, <2>1 DEF CreateInsert, Goto, CreateCall, TypeOK
    <2>3. \A d \in Call : Reserving(d)' => Reserving(d) /\ d # c
      BY <2>2 DEF Reserving
    <2>4. \A d \in Call : Reserving(d)' => call[d].request # call[c].request
      BY <2>1, <2>3 DEF Reserved
    <2>5. \A d \in Call : Reserving(d) => call[d].request \in Request
      BY CallKinds DEF Reserving, CreateCall
    <2>6. \A r \in Request \ {call[c].request} : requests'[r] = requests[r]
      BY <1>5, <2>1 DEF CreateInsert, TypeOK
    <2>. QED
      BY <2>2, <2>3, <2>4, <2>5, <2>6, ReservedKept
  <1>6. ASSUME NEW c \in Call,
               CreateAudit(c) \/ ApproveSteps(c) \/ DenySteps(c) \/ RevokeSteps(c)
                 \/ FetchSteps(c)
        PROVE  Reserved'
    <2>1. Continue(c)
      BY <1>6 DEF Continue, CreateSteps
    <2>2. TypeOK'
      BY <2>1, TypeStep DEF CallInv, Next
    <2>3. \A d \in Call \ {c} : call'[d] = call[d]
      BY <2>1, <2>2, OwnStep
    <2>4. call'[c].step \notin {"create:wallet", "create:insert"}
      <3>1. CASE CreateAudit(c)
        BY <3>1 DEF CreateAudit, Answer, TypeOK
      <3>2. CASE ApproveSteps(c)
        <4>1. call[c] \in ApproveCall
          BY <3>2, CallKinds DEF ApproveSteps, ApproveUpdate,
             GrantFromAccessRequest, GrantConflict, AuditGrant, ApproveAudit, At
        <4>2. CASE ApproveUpdate(c) \/ GrantFromAccessRequest(c)
          BY <4>1, <4>2 DEF ApproveUpdate, GrantFromAccessRequest, ApproveCall, TypeOK
        <4>3. CASE GrantConflict(c) \/ AuditGrant(c) \/ ApproveAudit(c)
          BY <4>1, <4>3 DEF GrantConflict, AuditGrant, ApproveAudit, Goto, Reject,
             Answer, Idle, ApproveCall, TypeOK
        <4>. QED
          BY <3>2, <4>2, <4>3 DEF ApproveSteps
      <3>3. CASE DenySteps(c) \/ RevokeSteps(c)
        <4>1. call[c] \in DenyCall \cup RevokeCall
          BY <3>3, CallKinds DEF DenySteps, DenyUpdate, DenyAudit, RevokeSteps,
             RevokeUpdate, RevokeAudit, At
        <4>. QED
          BY <3>3, <4>1 DEF DenySteps, DenyUpdate, DenyAudit, RevokeSteps,
             RevokeUpdate, RevokeAudit, Goto, Answer, DenyCall, RevokeCall, TypeOK
      <3>4. CASE FetchSteps(c)
        <4>1. call[c] \in FetchCall
          BY <3>4, CallKinds DEF FetchSteps, FindConsents, FindCredentials,
             FetchAudit, At
        <4>2. CASE FindConsents(c)
          <5>1. PICK t \in call[c].at .. now :
                  LET found == ActiveGrants(call[c].anchor, call[c].profile, t)
                  IN  IF found = {} THEN Reject(c)
                      ELSE call' = [call EXCEPT ![c] =
                        [@ EXCEPT !.found = found, !.scopes = ScopesOf(found),
                           !.step = IF ScopesOf(found) \cap CredentialScope = {}
                                    THEN "fetch:audit"
                                    ELSE "fetch:credentials"]]
            BY <4>2 DEF FindConsents
          <5>. DEFINE found == ActiveGrants(call[c].anchor, call[c].profile, t)
                      next == IF ScopesOf(found) \cap CredentialScope = {}
                              THEN "fetch:audit" ELSE "fetch:credentials"
          <5>2. CASE found = {}
            BY <5>1, <5>2 DEF Reject, Answer, Idle, TypeOK
          <5>3. CASE found # {}
            <6>1. call'[c] = [call[c] EXCEPT !.found = found,
                                !.scopes = ScopesOf(found), !.step = next]
              BY <5>1, <5>3 DEF TypeOK
            <6>2. next \in {"fetch:audit", "fetch:credentials"}
              OBVIOUS
            <6>. HIDE DEF next
            <6>. QED
              BY <4>1, <6>1, <6>2 DEF FetchCall
          <5>. QED
            BY <5>2, <5>3
        <4>3. CASE FindCredentials(c) \/ FetchAudit(c)
          BY <4>1, <4>3 DEF FindCredentials, FetchAudit, Goto, Answer, FetchCall,
             TypeOK
        <4>. QED
          BY <3>4, <4>2, <4>3 DEF FetchSteps
      <3>. QED
        BY <1>6, <3>1, <3>2, <3>3, <3>4
    <2>5. \A r \in Request : requests[r] = None => requests'[r] = None
      <3>1. ASSUME NEW s, call[c].step \in {"approve:update", "deny:update"},
                   requests' = [requests EXCEPT ![call[c].request].status = s]
            PROVE  \A r \in Request : requests[r] = None => requests'[r] = None
        BY <3>1 DEF CallInv, Grounded, TypeOK
      <3>2. CASE ApproveUpdate(c) \/ DenyUpdate(c)
        BY <3>1, <3>2 DEF ApproveUpdate, DenyUpdate, At
      <3>3. CASE ~(ApproveUpdate(c) \/ DenyUpdate(c))
        <4>1. UNCHANGED requests
          BY <1>6, <3>3 DEF CreateAudit, ApproveSteps, GrantFromAccessRequest,
             GrantConflict, AuditGrant, ApproveAudit, DenySteps, DenyAudit,
             RevokeSteps, RevokeUpdate, RevokeAudit, FetchSteps, FindConsents,
             FindCredentials, FetchAudit, world, tables
        <4>. QED
          BY <4>1
      <3>. QED
        BY <3>2, <3>3
    <2>. QED
      BY <1>2, <2>3, <2>4, <2>5
  <1>7. ASSUME NEW c \in Call, Start(c) PROVE Reserved'
    <2>1. ASSUME NEW u \in User, NEW r \in Request, Approve(c, u, r) \/ Deny(c, u, r)
          PROVE  Reserved'
      BY <1>2, <2>1 DEF Approve, Deny, TypeOK, tables
    <2>2. ASSUME NEW u \in User, NEW k \in Consent, Revoke(c, u, k)
          PROVE  Reserved'
      BY <1>2, <2>2 DEF Revoke, TypeOK, tables
    <2>3. ASSUME NEW a \in Anchor, NEW p \in Profile, GetScopedDataForAnchor(c, a, p)
          PROVE  Reserved'
      BY <1>2, <2>3 DEF GetScopedDataForAnchor, TypeOK, tables
    <2>. QED
      BY <1>3, <1>7, <2>1, <2>2, <2>3 DEF Start
  <1>8. ASSUME NEW c \in Call, Fail(c) PROVE Reserved'
    BY <1>2, <1>8 DEF Fail, Reject, Answer, Idle, TypeOK, tables
  <1>9. CASE ExpireStale \/ ExpireAudit \/ ExpireFail
    BY <1>1, <1>9 DEF ExpireStale, ExpireAudit, ExpireFail, tables
  <1>10. ASSUME NEW a \in Anchor, ApproveAnchor(a) \/ BlockAnchor(a) PROVE Reserved'
    BY <1>1, <1>10 DEF ApproveAnchor, BlockAnchor, tables
  <1>11. CASE Tick \/ UNCHANGED vars
    BY <1>1, <1>11 DEF Tick, vars, tables
  <1>. QED
    BY <1>4, <1>5, <1>6, <1>7, <1>8, <1>9, <1>10, <1>11
       DEF Next, Continue, CreateSteps

----------------------------------------------------------------------------
(* Grants.                                                                 *)

\* Without a new consent the two properties about grants rest on what is kept.
LEMMA NoNewGrant ==
  ASSUME Inv, Kept, \A k \in Consent : consents'[k] # None => consents[k] # None
  PROVE  OneGrantPerRequest' /\ GrantMatchesRequest'
  <1>. USE DEF Inv
  <1>1. ASSUME NEW k \in Consent, consents'[k] # None
        PROVE  /\ consents[k] # None
               /\ consents[k].request \in Request
               /\ consents'[k].request = consents[k].request
               /\ consents'[k].user = consents[k].user
               /\ consents'[k].anchor = consents[k].anchor
               /\ consents'[k].profile = consents[k].profile
               /\ consents'[k].scopes = consents[k].scopes
    BY <1>1 DEF Kept, KeptConsent, TypeOK, ConsentRow
  <1>2. OneGrantPerRequest'
    BY <1>1 DEF OneGrantPerRequest
  <1>3. GrantMatchesRequest'
    <2>. SUFFICES ASSUME NEW k \in Consent, consents'[k] # None
                  PROVE  LET g == consents'[k]
                             r == requests'[g.request]
                         IN /\ r # None
                            /\ r.status # "PENDING"
                            /\ g.anchor = r.anchor
                            /\ g.profile = r.profile
                            /\ g.scopes = r.scopes
                            /\ g.user = Owner[r.profile]
      BY DEF GrantMatchesRequest
    <2>1. KeptRequest(consents[k].request)
      BY <1>1 DEF Kept
    <2>. QED
      BY <1>1, <2>1 DEF GrantMatchesRequest, KeptRequest
  <1>. QED
    BY <1>2, <1>3

LEMMA NewGrant ==
  ASSUME Inv, Kept, NEW c \in Call, GrantFromAccessRequest(c)
  PROVE  OneGrantPerRequest' /\ GrantMatchesRequest'
  <1>. USE NoneAssumption DEF Inv
  <1>. DEFINE r == call[c].request
  <1>1. PICK k \in Consent, t \in call[c].at .. now :
          /\ consents[k] = None
          /\ consents' = [consents EXCEPT ![k] = NewConsent(call[c].user, r, t)]
    BY DEF GrantFromAccessRequest
  <1>2. /\ r \in Request
        /\ requests[r] # None
        /\ requests[r].status # "PENDING"
        /\ Owner[requests[r].profile] = call[c].user
    BY CallKinds DEF GrantFromAccessRequest, At, CallInv, Grounded, ApproveCall
  <1>3. /\ consents'[k] = NewConsent(call[c].user, r, t)
        /\ \A j \in Consent \ {k} : consents'[j] = consents[j]
    BY <1>1 DEF TypeOK
  <1>4. \A j \in Consent : consents[j] # None => consents[j].request # r
    BY DEF GrantFromAccessRequest, HasGrant
  <1>5. OneGrantPerRequest'
    BY <1>3, <1>4 DEF OneGrantPerRequest, NewConsent
  <1>6. UNCHANGED requests
    BY DEF GrantFromAccessRequest
  <1>7. GrantMatchesRequest'
    <2>. SUFFICES ASSUME NEW j \in Consent, consents'[j] # None
                  PROVE  LET g == consents'[j]
                             q == requests[g.request]
                         IN /\ q # None
                            /\ q.status # "PENDING"
                            /\ g.anchor = q.anchor
                            /\ g.profile = q.profile
                            /\ g.scopes = q.scopes
                            /\ g.user = Owner[q.profile]
      BY <1>6 DEF GrantMatchesRequest
    <2>1. CASE j = k
      BY <1>2, <1>3, <2>1 DEF NewConsent
    <2>2. CASE j # k
      BY <1>3, <2>2 DEF GrantMatchesRequest
    <2>. QED
      BY <2>1, <2>2
  <1>. QED
    BY <1>5, <1>7

LEMMA GrantsStep ==
  ASSUME Inv, Kept, [Next]_vars
  PROVE  OneGrantPerRequest' /\ GrantMatchesRequest'
  <1>. USE NoneAssumption DEF Inv
  <1>1. ASSUME UNCHANGED consents PROVE OneGrantPerRequest' /\ GrantMatchesRequest'
    BY <1>1, NoNewGrant
  <1>2. ASSUME NEW c \in Call, Continue(c)
        PROVE  OneGrantPerRequest' /\ GrantMatchesRequest'
    <2>1. CASE GrantFromAccessRequest(c)
      BY <2>1, NewGrant
    <2>2. CASE RevokeUpdate(c)
      <3>1. consents[call[c].consent] # None
        BY <2>2 DEF RevokeUpdate, At, CallInv, Grounded
      <3>2. \A k \in Consent : consents'[k] # None => consents[k] # None
        BY <2>2, <3>1 DEF RevokeUpdate, TypeOK
      <3>. QED
        BY <3>2, NoNewGrant
    <2>3. CASE ~(GrantFromAccessRequest(c) \/ RevokeUpdate(c))
      <3>1. UNCHANGED consents
        BY <1>2, <2>3 DEF Continue, CreateSteps, CreateFindProfile, CreateInsert,
           CreateAudit, ApproveSteps, ApproveUpdate, GrantConflict, AuditGrant,
           ApproveAudit, DenySteps, DenyUpdate, DenyAudit, RevokeSteps, RevokeAudit,
           FetchSteps, FindConsents, FindCredentials, FetchAudit, world, tables
      <3>. QED
        BY <3>1, <1>1
    <2>. QED
      BY <2>1, <2>2, <2>3
  <1>3. ASSUME NEW c \in Call, Start(c) \/ Fail(c)
        PROVE  OneGrantPerRequest' /\ GrantMatchesRequest'
    BY <1>1, <1>3 DEF Start, Fail, CreateForAnchor, Approve, Deny, Revoke,
       GetScopedDataForAnchor, tables
  <1>4. CASE ExpireStale
    <2>1. \A k \in Consent : consents'[k] # None => consents[k] # None
      BY <1>4 DEF ExpireStale, Stale
    <2>. QED
      BY <2>1, NoNewGrant
  <1>5. CASE ExpireAudit \/ ExpireFail \/ Tick \/ UNCHANGED vars
    BY <1>1, <1>5 DEF ExpireAudit, ExpireFail, Tick, vars, tables
  <1>6. ASSUME NEW a \in Anchor, ApproveAnchor(a) \/ BlockAnchor(a)
        PROVE  OneGrantPerRequest' /\ GrantMatchesRequest'
    BY <1>1, <1>6 DEF ApproveAnchor, BlockAnchor, tables
  <1>. QED
    BY <1>2, <1>3, <1>4, <1>5, <1>6 DEF Next

----------------------------------------------------------------------------
(* The inductive invariant, and what follows from it.                      *)

LEMMA InvInit == Init => Inv
  <1>. SUFFICES ASSUME Init PROVE Inv
    OBVIOUS
  <1>1. TypeOK
    BY TypeInit
  <1>2. \A c \in Call : call[c].step = "idle" /\ call[c] \notin FetchCall
    BY DEF Init, Idle, FetchCall
  <1>3. \A k \in Consent : consents[k] = None
    BY DEF Init
  <1>4. OneGrantPerRequest /\ GrantMatchesRequest
    BY <1>3 DEF OneGrantPerRequest, GrantMatchesRequest
  <1>. QED
    BY <1>1, <1>2, <1>4 DEF Inv, Reserved, Reserving, CallInv, Grounded, Remembers,
       WithinGrants, UnionOfGrants, Disclosing

LEMMA InvStep == Inv /\ [Next]_vars => Inv'
  <1>. SUFFICES ASSUME Inv, [Next]_vars PROVE Inv'
    OBVIOUS
  <1>1. \A c \in Call : Grounded(c)
    BY DEF Inv, CallInv
  <1>2. TypeOK'
    BY <1>1, TypeStep DEF Inv
  <1>3. Kept
    BY <1>1, StepKeeps DEF Inv
  <1>4. Reserved'
    BY ReservedStep
  <1>5. OneGrantPerRequest' /\ GrantMatchesRequest'
    BY <1>3, GrantsStep
  <1>6. \A c \in Call : CallInv(c)'
    BY <1>2, <1>3, CallsKeepTheirPromises
  <1>. QED
    BY <1>2, <1>4, <1>5, <1>6 DEF Inv

\* Every reachable state satisfies the inductive invariant.
THEOREM Invariance == Spec => []Inv
  BY InvInit, InvStep, PTL DEF Spec

\* The tables, the log and every call in progress keep the shape the schema
\* and the handlers give them.
THEOREM TypeCorrect == Spec => []TypeOK
  BY Invariance, PTL DEF Inv

\* However many approvals and denials of a request run at once, and whichever
\* statements fail, the request gets at most one consent.
THEOREM AtMostOneGrant == Spec => []OneGrantPerRequest
  BY Invariance, PTL DEF Inv

\* A consent gives the anchor that asked what it asked for, and its user is
\* the owner of the profile: nobody else can have granted it.
THEOREM GrantsMatch == Spec => []GrantMatchesRequest
  BY Invariance, PTL DEF Inv

\* Once a revocation is in the table, or a consent has expired, no read of
\* the anchor that begins afterwards answers anything on its account.
THEOREM RevocationCutsOff == Spec => []ServedWithinGrants
  <1>1. Inv => ServedWithinGrants
    BY DEF Inv, CallInv, ServedWithinGrants
  <1>. QED
    BY <1>1, Invariance, PTL

\* A read never leaves out the scopes of a grant in force all along.
THEOREM ReadsAreComplete == Spec => []ServedIsUnion
  <1>1. Inv => ServedIsUnion
    BY DEF Inv, CallInv, ServedIsUnion
  <1>. QED
    BY <1>1, Invariance, PTL

\* A consent is never rewritten or brought back; only its status moves, to
\* REVOKED, or from ACTIVE to EXPIRED when its time is over.
THEOREM OnlyEnds == Spec => ConsentsOnlyEnd
  <1>1. Inv /\ [Next]_vars =>
          [\A k \in Consent : consents[k] # None =>
             /\ consents'[k] # None
             /\ consents'[k] = [consents[k] EXCEPT !.status = consents'[k].status]
             /\ consents'[k].status # consents[k].status =>
                  \/ consents'[k].status = "REVOKED"
                  \/ /\ consents'[k].status = "EXPIRED"
                     /\ consents[k].status = "ACTIVE"
                     /\ consents[k].expiresAt < now]_vars
    BY StepKeeps DEF Inv, CallInv, Kept, KeptConsent
  <1>. QED
    BY <1>1, Invariance, PTL DEF Spec, ConsentsOnlyEnd

----------------------------------------------------------------------------
(* The log.  An entry is written in a statement of its own, after the rows *)
(* it tells of; in between the call carries what it is going to tell.      *)

\* What entry e says is so.
Tells(e) ==
  /\ \A u \in User, k \in Consent :
       /\ e = Entry("CONSENT_GRANTED", u, k) =>
            consents[k] # None /\ consents[k].user = u
       /\ e = Entry("CONSENT_REVOKED", u, k) =>
            /\ consents[k] # None
            /\ consents[k].user = u
            /\ consents[k].status = "REVOKED"
  /\ \A u \in User, r \in Request :
       /\ e = Entry("ACCESS_REQUEST_APPROVED", u, r) =>
            /\ HasGrant(r)
            /\ Owner[requests[r].profile] = u
       /\ e = Entry("ACCESS_REQUEST_DENIED", u, r) =>
            /\ requests[r] # None
            /\ requests[r].status # "PENDING"
            /\ Owner[requests[r].profile] = u
  /\ \A a \in Anchor, p \in Profile, S \in SUBSET Scope :
       e = Accessed(a, p, S) =>
         \A s \in S : \E k \in Grants(a, p) : s \in consents[k].scopes

\* What the next entry of call c is about has happened.
Earned(c) ==
  /\ At(c, "create:audit") => requests[call[c].request] # None
  /\ call[c].step \in {"approve:auditGrant", "approve:audit"} =>
       /\ call[c].consent \in Consent
       /\ consents[call[c].consent] # None
       /\ consents[call[c].consent].user = call[c].user
       /\ consents[call[c].consent].request = call[c].request
  /\ At(c, "deny:audit") =>
       /\ requests[call[c].request] # None
       /\ requests[call[c].request].status # "PENDING"
       /\ Owner[requests[call[c].request].profile] = call[c].user
  /\ At(c, "revoke:audit") =>
       /\ consents[call[c].consent] # None
       /\ consents[call[c].consent].user = call[c].user
       /\ consents[call[c].consent].status = "REVOKED"

\* The entries call c has written are in the log.
Recorded(c) ==
  /\ At(c, "created") =>
       /\ requests[call[c].request] # None
       /\ Entry("ACCESS_REQUEST_CREATED", None, call[c].request) \in audit
  /\ call[c].step \in {"approve:audit", "approved"} =>
       Entry("CONSENT_GRANTED", call[c].user, call[c].consent) \in audit
  /\ At(c, "approved") =>
       Entry("ACCESS_REQUEST_APPROVED", call[c].user, call[c].request) \in audit
  /\ At(c, "denied") =>
       Entry("ACCESS_REQUEST_DENIED", call[c].user, call[c].request) \in audit
  /\ At(c, "revoked") =>
       Entry("CONSENT_REVOKED", call[c].user, call[c].consent) \in audit
  /\ At(c, "served") =>
       Accessed(call[c].anchor, call[c].profile, call[c].scopes) \in audit

LogInv == /\ Inv
          /\ \A e \in audit : Tells(e)
          /\ \A c \in Call : Earned(c) /\ Recorded(c)

LEMMA TruthIsTold == (\A e \in audit : Tells(e)) <=> AuditIsTrue
  BY DEF AuditIsTrue, Tells

\* An answered call has the fields of its answer.
LEMMA AnswerKinds ==
  ASSUME TypeOK, NEW c \in Call
  PROVE  /\ At(c, "created") => call[c].request \in Request
         /\ At(c, "approved") => call[c].user \in User /\ call[c].request \in Request
         /\ At(c, "denied") => call[c].user \in User /\ call[c].request \in Request
         /\ At(c, "revoked") => call[c].user \in User /\ call[c].consent \in Consent
  <1>1. call[c] \in CallState
    BY DEF TypeOK
  <1>. QED
    BY <1>1 DEF CallState, Idle, Answered, CreateCall, ApproveCall, DenyCall,
                RevokeCall, FetchCall, At

\* What is kept of a consent, column by column.
LEMMA KeptColumns ==
  ASSUME TypeOK, Kept, NEW k \in Consent, consents[k] # None
  PROVE  /\ consents'[k] # None
         /\ consents'[k].request = consents[k].request
         /\ consents'[k].user = consents[k].user
         /\ consents'[k].anchor = consents[k].anchor
         /\ consents'[k].profile = consents[k].profile
         /\ consents'[k].scopes = consents[k].scopes
         /\ consents[k].status = "REVOKED" => consents'[k].status = "REVOKED"
  BY DEF Kept, KeptConsent, TypeOK, ConsentRow

\* What an entry says stays so.
LEMMA KeptTells ==
  ASSUME Inv, Kept, NEW e, Tells(e)
  PROVE  Tells(e)'
  <1>. USE DEF Inv
  <1>1. \A k \in Consent : consents[k] # None =>
          /\ consents'[k] # None
          /\ consents'[k].request = consents[k].request
          /\ consents'[k].user = consents[k].user
          /\ consents'[k].anchor = consents[k].anchor
          /\ consents'[k].profile = consents[k].profile
          /\ consents'[k].scopes = consents[k].scopes
          /\ consents[k].status = "REVOKED" => consents'[k].status = "REVOKED"
    BY KeptColumns
  <1>2. \A a \in Anchor, p \in Profile : Grants(a, p) \subseteq Grants(a, p)'
    BY <1>1 DEF Grants
  <1>3. \A r \in Request : HasGrant(r) => HasGrant(r)' /\ requests[r] # None
    BY <1>1 DEF HasGrant, GrantMatchesRequest
  <1>4. \A r \in Request : requests[r] # None =>
          /\ requests'[r] # None
          /\ requests'[r].profile = requests[r].profile
          /\ requests[r].status # "PENDING" => requests'[r].status # "PENDING"
    BY DEF Kept, KeptRequest
  <1>5. ASSUME NEW u \in User, NEW k \in Consent
        PROVE  /\ e = Entry("CONSENT_GRANTED", u, k) =>
                    consents'[k] # None /\ consents'[k].user = u
               /\ e = Entry("CONSENT_REVOKED", u, k) =>
                    /\ consents'[k] # None
                    /\ consents'[k].user = u
                    /\ consents'[k].status = "REVOKED"
    BY <1>1 DEF Tells
  <1>6. ASSUME NEW u \in User, NEW r \in Request
        PROVE  /\ e = Entry("ACCESS_REQUEST_APPROVED", u, r) =>
                    HasGrant(r)' /\ Owner[requests'[r].profile] = u
               /\ e = Entry("ACCESS_REQUEST_DENIED", u, r) =>
                    /\ requests'[r] # None
                    /\ requests'[r].status # "PENDING"
                    /\ Owner[requests'[r].profile] = u
    BY <1>3, <1>4 DEF Tells
  <1>7. ASSUME NEW a \in Anchor, NEW p \in Profile, NEW S \in SUBSET Scope,
               e = Accessed(a, p, S), NEW s \in S
        PROVE  \E k \in Grants(a, p)' : s \in consents'[k].scopes
    <2>1. PICK k \in Grants(a, p) : s \in consents[k].scopes
      BY <1>7 DEF Tells
    <2>2. k \in Consent /\ consents[k] # None
      BY DEF Grants
    <2>. QED
      BY <1>1, <1>2, <2>1, <2>2
  <1>. HIDE DEF Inv
  <1>. QED
    BY <1>5, <1>6, <1>7 DEF Tells, Entry, Accessed

\* And a call that takes no step keeps what it has to tell and has told.
LEMMA KeptRecord ==
  ASSUME TypeOK, Kept, NEW c \in Call, call'[c] = call[c], audit \subseteq audit',
         Earned(c), Recorded(c)
  PROVE  Earned(c)' /\ Recorded(c)'
  <1>1. \A r \in Request : requests[r] # None =>
          /\ requests'[r] # None
          /\ requests'[r].profile = requests[r].profile
          /\ requests[r].status # "PENDING" => requests'[r].status # "PENDING"
    BY DEF Kept, KeptRequest
  <1>2. /\ call[c].step \in {"create:audit", "deny:audit", "created"} =>
             call[c].request \in Request
        /\ call[c].step = "revoke:audit" => call[c].consent \in Consent
    BY CallKinds, AnswerKinds DEF CreateCall, DenyCall, RevokeCall, At
  <1>3. Earned(c)'
    BY <1>1, <1>2, KeptColumns DEF Earned, At
  <1>4. Recorded(c)'
    BY <1>1, <1>2 DEF Recorded, At
  <1>. QED
    BY <1>3, <1>4
\* Steps after which the call has nothing to tell and has told nothing.
LEMMA NothingToTell ==
  ASSUME NEW c \in Call,
         NEW s \in {"idle", "create:wallet", "create:insert", "approve:update",
                    "approve:grant", "deny:update", "revoke:update",
                    "fetch:consents", "fetch:credentials", "fetch:audit"},
         call'[c].step = s
  PROVE  Earned(c)' /\ Recorded(c)'
  BY DEF Earned, Recorded, At

\* One more entry in the log.
LEMMA NewEntry ==
  ASSUME LogInv, Kept, NEW e, audit' = audit \cup {e}, Tells(e)'
  PROVE  audit \subseteq audit' /\ \A f \in audit' : Tells(f)'
  <1>1. ASSUME NEW f \in audit' PROVE Tells(f)'
    <2>1. CASE f = e
      BY <2>1
    <2>2. CASE f \in audit
      BY <2>2, KeptTells DEF LogInv
    <2>. QED
      BY <2>1, <2>2
  <1>. QED
    BY <1>1

\* Only a disclosure is an entry with an anchor; the others differ in action.
LEMMA EntriesDiffer ==
  ASSUME NEW action, NEW u, NEW x
  PROVE  /\ \A b, v, y : Entry(action, u, x) = Entry(b, v, y) =>
              action = b /\ u = v /\ x = y
         /\ \A a, p, S : action # "CREDENTIAL_ACCESSED" =>
              Entry(action, u, x) # Accessed(a, p, S)
  BY DEF Entry, Accessed

LEMMA CreateTells ==
  ASSUME LogInv, TypeOK', Kept, NEW c \in Call, CreateSteps(c)
  PROVE  /\ audit \subseteq audit'
         /\ \A e \in audit' : Tells(e)'
         /\ Earned(c)' /\ Recorded(c)'
  <1>. USE NoneAssumption DEF LogInv, Inv
  <1>0. call[c] \in CreateCall
    BY CallKinds DEF CreateSteps, CreateFindProfile, CreateInsert, CreateAudit, At
  <1>1. CASE CreateFindProfile(c)
    <2>1. audit' = audit
      BY <1>1 DEF CreateFindProfile, tables
    <2>2. call'[c].step \in {"idle", "create:insert"}
      BY <1>0, <1>1 DEF CreateFindProfile, Reject, Answer, Idle, CreateCall, TypeOK
    <2>. QED
      BY <2>1, <2>2, NothingToTell, KeptTells
  <1>2. CASE CreateInsert(c)
    <2>1. audit' = audit
      BY <1>2 DEF CreateInsert
    <2>2. call'[c].step = "create:audit" /\ call'[c].request = call[c].request
      BY <1>0, <1>2 DEF CreateInsert, Goto, CreateCall, TypeOK
    <2>3. call[c].request \in Request
      BY <1>0 DEF CreateCall
    <2>4. requests'[call[c].request].status = "PENDING"
      BY <1>2, <2>3 DEF CreateInsert, TypeOK
    <2>5. requests'[call[c].request] =
            [anchor |-> call[c].anchor, profile |-> call[c].profile,
             scopes |-> call[c].scopes, days |-> call[c].days,
             status |-> "PENDING"]
      BY <1>2, <2>3 DEF CreateInsert, TypeOK
    <2>6. call[c].profile \in Profile
      BY <1>0, <1>2 DEF CreateInsert, CreateCall, TypeOK
    <2>7. requests'[call[c].request] \in RequestRow
      BY <1>0, <2>5, <2>6 DEF CreateCall, RequestRow
    <2>8. requests'[call[c].request] # None
      BY <2>7
    <2>9. Earned(c)' /\ Recorded(c)'
      BY <2>2, <2>8 DEF Earned, Recorded, At
    <2>. QED
      BY <2>1, <2>9, KeptTells
  <1>3. CASE CreateAudit(c)
    <2>. PICK e : e = Entry("ACCESS_REQUEST_CREATED", None, call[c].request)
      OBVIOUS
    <2>1. audit' = audit \cup {e}
      BY <1>3 DEF CreateAudit
    <2>2. call'[c] = [step |-> "created", request |-> call[c].request]
      BY <1>3 DEF CreateAudit, Answer, TypeOK
    <2>3. Tells(e)'
      BY EntriesDiffer DEF Tells
    <2>4. requests'[call[c].request] # None
      <3>1. call[c].request \in Request /\ requests[call[c].request] # None
        BY <1>0, <1>3 DEF CreateAudit, Earned, At, CreateCall
      <3>. QED
        BY <1>3, <3>1 DEF CreateAudit
    <2>5. Earned(c)' /\ Recorded(c)'
      BY <2>1, <2>2, <2>4 DEF Earned, Recorded, At
    <2>. QED
      BY <2>1, <2>3, <2>5, NewEntry
  <1>. QED
    BY <1>1, <1>2, <1>3 DEF CreateSteps

LEMMA DenyTells ==
  ASSUME LogInv, TypeOK', Kept, NEW c \in Call, DenySteps(c)
  PROVE  /\ audit \subseteq audit'
         /\ \A e \in audit' : Tells(e)'
         /\ Earned(c)' /\ Recorded(c)'
  <1>. USE NoneAssumption DEF LogInv, Inv
  <1>0. /\ call[c] \in DenyCall
        /\ call[c].request \in Request
    BY CallKinds DEF DenySteps, DenyUpdate, DenyAudit, At, DenyCall
  <1>1. CASE DenyUpdate(c)
    <2>1. audit' = audit
      BY <1>1 DEF DenyUpdate
    <2>2. /\ call'[c].step = "deny:audit"
          /\ call'[c].request = call[c].request
          /\ call'[c].user = call[c].user
      BY <1>0, <1>1 DEF DenyUpdate, Goto, DenyCall, TypeOK
    <2>3. /\ requests[call[c].request] \in RequestRow
          /\ Owner[requests[call[c].request].profile] = call[c].user
      BY <1>0, <1>1 DEF DenyUpdate, At, CallInv, Grounded, TypeOK
    <2>4. /\ requests'[call[c].request] # None
          /\ requests'[call[c].request].status # "PENDING"
          /\ Owner[requests'[call[c].request].profile] = call[c].user
      BY <1>0, <1>1, <2>3 DEF DenyUpdate, Kept, KeptRequest, TypeOK, RequestRow
    <2>5. Earned(c)' /\ Recorded(c)'
      BY <2>2, <2>4 DEF Earned, Recorded, At
    <2>. QED
      BY <2>1, <2>5, KeptTells
  <1>2. CASE DenyAudit(c)
    <2>. PICK e, u, r : /\ e = Entry("ACCESS_REQUEST_DENIED", u, r)
                       /\ u = call[c].user
                       /\ r = call[c].request
      OBVIOUS
    <2>1. audit' = audit \cup {e}
      BY <1>2 DEF DenyAudit
    <2>2. call'[c] = [step |-> "denied", user |-> call[c].user,
                      request |-> call[c].request]
      BY <1>2 DEF DenyAudit, Answer, TypeOK
    <2>3. /\ requests'[r] # None
          /\ requests'[r].status # "PENDING"
          /\ Owner[requests'[r].profile] = u
      BY <1>2 DEF DenyAudit, Earned, At
    <2>4. Tells(e)'
      BY <2>3, EntriesDiffer DEF Tells
    <2>5. Earned(c)' /\ Recorded(c)'
      BY <2>1, <2>2 DEF Earned, Recorded, At
    <2>. QED
      BY <2>1, <2>4, <2>5, NewEntry
  <1>. QED
    BY <1>1, <1>2 DEF DenySteps

LEMMA RevokeTells ==
  ASSUME LogInv, TypeOK', Kept, NEW c \in Call, RevokeSteps(c)
  PROVE  /\ audit \subseteq audit'
         /\ \A e \in audit' : Tells(e)'
         /\ Earned(c)' /\ Recorded(c)'
  <1>. USE NoneAssumption DEF LogInv, Inv
  <1>0. /\ call[c] \in RevokeCall
        /\ call[c].consent \in Consent
    BY CallKinds DEF RevokeSteps, RevokeUpdate, RevokeAudit, At, RevokeCall
  <1>1. CASE RevokeUpdate(c)
    <2>1. audit' = audit
      BY <1>1 DEF RevokeUpdate
    <2>2. /\ call'[c].step = "revoke:audit"
          /\ call'[c].consent = call[c].consent
          /\ call'[c].user = call[c].user
      BY <1>0, <1>1 DEF RevokeUpdate, Goto, RevokeCall, TypeOK
    <2>3. /\ consents[call[c].consent] # None
          /\ consents[call[c].consent] \in ConsentRow
          /\ consents[call[c].consent].user = call[c].user
      BY <1>0, <1>1 DEF RevokeUpdate, At, CallInv, Grounded, TypeOK
    <2>4. /\ consents'[call[c].consent] # None
          /\ consents'[call[c].consent].user = call[c].user
      BY <1>0, <2>3, KeptColumns
    <2>5. consents'[call[c].consent].status = "REVOKED"
      BY <1>0, <1>1, <2>3 DEF RevokeUpdate, TypeOK, ConsentRow
    <2>6. Earned(c)' /\ Recorded(c)'
      BY <2>2, <2>4, <2>5 DEF Earned, Recorded, At
    <2>. QED
      BY <2>1, <2>6, KeptTells
  <1>2. CASE RevokeAudit(c)
    <2>. PICK e, u, k : /\ e = Entry("CONSENT_REVOKED", u, k)
                       /\ u = call[c].user
                       /\ k = call[c].consent
      OBVIOUS
    <2>1. audit' = audit \cup {e}
      BY <1>2 DEF RevokeAudit
    <2>2. call'[c] = [step |-> "revoked", user |-> call[c].user,
                      consent |-> call[c].consent]
      BY <1>2 DEF RevokeAudit, Answer, TypeOK
    <2>3. /\ consents'[k] # None
          /\ consents'[k].user = u
          /\ consents'[k].status = "REVOKED"
      BY <1>2 DEF RevokeAudit, Earned, At
    <2>4. Tells(e)'
      BY <2>3, EntriesDiffer DEF Tells
    <2>5. Earned(c)' /\ Recorded(c)'
      BY <2>1, <2>2 DEF Earned, Recorded, At
    <2>. QED
      BY <2>1, <2>4, <2>5, NewEntry
  <1>. QED
    BY <1>1, <1>2 DEF RevokeSteps
LEMMA ApproveTells ==
  ASSUME LogInv, TypeOK', Kept, NEW c \in Call, ApproveSteps(c)
  PROVE  /\ audit \subseteq audit'
         /\ \A e \in audit' : Tells(e)'
         /\ Earned(c)' /\ Recorded(c)'
  <1>. USE NoneAssumption DEF LogInv, Inv
  <1>0. /\ call[c] \in ApproveCall
        /\ call[c].request \in Request
    BY CallKinds DEF ApproveSteps, ApproveUpdate, GrantFromAccessRequest,
       GrantConflict, AuditGrant, ApproveAudit, At, ApproveCall
  <1>1. CASE ApproveUpdate(c) \/ GrantConflict(c)
    <2>1. audit' = audit
      BY <1>1 DEF ApproveUpdate, GrantConflict, tables
    <2>2. call'[c].step \in {"approve:grant", "idle"}
      BY <1>0, <1>1 DEF ApproveUpdate, GrantConflict, Reject, Answer, Idle,
         ApproveCall, TypeOK
    <2>. QED
      BY <2>1, <2>2, NothingToTell, KeptTells
  <1>2. CASE GrantFromAccessRequest(c)
    <2>1. audit' = audit
      BY <1>2 DEF GrantFromAccessRequest
    <2>2. PICK k \in Consent, t \in call[c].at .. now :
            /\ consents' = [consents EXCEPT ![k] =
                 NewConsent(call[c].user, call[c].request, t)]
            /\ call' = [call EXCEPT ![c].step = "approve:auditGrant",
                                    ![c].consent = k]
      BY <1>2 DEF GrantFromAccessRequest
    <2>3. /\ call'[c].step = "approve:auditGrant"
          /\ call'[c].consent = k
          /\ call'[c].user = call[c].user
          /\ call'[c].request = call[c].request
      BY <1>0, <2>2 DEF ApproveCall, TypeOK
    <2>4. /\ requests[call[c].request] \in RequestRow
          /\ t \in Nat
      BY <1>0, <1>2 DEF GrantFromAccessRequest, At, CallInv, Grounded, TypeOK,
         ApproveCall
    <2>5. consents'[k] = NewConsent(call[c].user, call[c].request, t)
      BY <2>2 DEF TypeOK
    <2>6. consents'[k] \in ConsentRow
      BY <1>0, <2>4, <2>5, ExpiryAssumption
         DEF NewConsent, ConsentRow, RequestRow, ApproveCall
    <2>7. /\ consents'[k] # None
          /\ consents'[k].user = call[c].user
          /\ consents'[k].request = call[c].request
      BY <2>5, <2>6 DEF NewConsent
    <2>8. Earned(c)' /\ Recorded(c)'
      BY <2>3, <2>7 DEF Earned, Recorded, At
    <2>. QED
      BY <2>1, <2>8, KeptTells
  <1>3. CASE AuditGrant(c)
    <2>. PICK e, u, k : /\ e = Entry("CONSENT_GRANTED", u, k)
                       /\ u = call[c].user
                       /\ k = call[c].consent
      OBVIOUS
    <2>1. audit' = audit \cup {e}
      BY <1>3 DEF AuditGrant
    <2>2. /\ call'[c].step = "approve:audit"
          /\ call'[c].user = u
          /\ call'[c].consent = k
          /\ call'[c].request = call[c].request
      BY <1>0, <1>3 DEF AuditGrant, Goto, ApproveCall, TypeOK
    <2>3. /\ k \in Consent
          /\ consents'[k] # None
          /\ consents'[k].user = u
          /\ consents'[k].request = call[c].request
      BY <1>3 DEF AuditGrant, Earned, At
    <2>4. Tells(e)'
      BY <2>3, EntriesDiffer DEF Tells
    <2>5. Earned(c)' /\ Recorded(c)'
      BY <2>1, <2>2, <2>3 DEF Earned, Recorded, At
    <2>. QED
      BY <2>1, <2>4, <2>5, NewEntry
  <1>4. CASE ApproveAudit(c)
    <2>. PICK e, u, r : /\ e = Entry("ACCESS_REQUEST_APPROVED", u, r)
                       /\ u = call[c].user
                       /\ r = call[c].request
      OBVIOUS
    <2>1. audit' = audit \cup {e} /\ UNCHANGED <<requests, consents>>
      BY <1>4 DEF ApproveAudit
    <2>2. call'[c] = [step |-> "approved", user |-> u, request |-> r,
                      consent |-> call[c].consent]
      BY <1>4 DEF ApproveAudit, Answer, TypeOK
    <2>3. /\ call[c].consent \in Consent
          /\ consents[call[c].consent] # None
          /\ consents[call[c].consent].user = u
          /\ consents[call[c].consent].request = r
      BY <1>4 DEF ApproveAudit, Earned, At
    <2>4. HasGrant(r) /\ Owner[requests[r].profile] = u
      BY <2>3 DEF HasGrant, GrantMatchesRequest
    <2>5. HasGrant(r)' /\ Owner[requests'[r].profile] = u
      BY <2>1, <2>4 DEF HasGrant
    <2>6. Tells(e)'
      BY <2>5, EntriesDiffer DEF Tells
    <2>7. Entry("CONSENT_GRANTED", u, call[c].consent) \in audit
      BY <1>4 DEF ApproveAudit, Recorded, At
    <2>8. Earned(c)' /\ Recorded(c)'
      BY <2>1, <2>2, <2>7 DEF Earned, Recorded, At
    <2>. QED
      BY <2>1, <2>6, <2>8, NewEntry
  <1>. QED
    BY <1>1, <1>2, <1>3, <1>4 DEF ApproveSteps

LEMMA FetchTells ==
  ASSUME LogInv, TypeOK', Kept, NEW c \in Call, FetchSteps(c)
  PROVE  /\ audit \subseteq audit'
         /\ \A e \in audit' : Tells(e)'
         /\ Earned(c)' /\ Recorded(c)'
  <1>. USE NoneAssumption DEF LogInv, Inv
  <1>0. call[c] \in FetchCall
    BY CallKinds DEF FetchSteps, FindConsents, FindCredentials, FetchAudit, At
  <1>1. CASE FindConsents(c)
    <2>1. audit' = audit
      BY <1>1 DEF FindConsents, tables
    <2>2. PICK t \in call[c].at .. now :
            LET found == ActiveGrants(call[c].anchor, call[c].profile, t)
            IN  IF found = {} THEN Reject(c)
                ELSE call' = [call EXCEPT ![c] =
                  [@ EXCEPT !.found = found, !.scopes = ScopesOf(found),
                     !.step = IF ScopesOf(found) \cap CredentialScope = {}
                              THEN "fetch:audit"
                              ELSE "fetch:credentials"]]
      BY <1>1 DEF FindConsents
    <2>. DEFINE found == ActiveGrants(call[c].anchor, call[c].profile, t)
                next == IF ScopesOf(found) \cap CredentialScope = {}
                        THEN "fetch:audit" ELSE "fetch:credentials"
    <2>3. call'[c].step \in {"idle", "fetch:audit", "fetch:credentials"}
      <3>1. CASE found = {}
        BY <2>2, <3>1 DEF Reject, Answer, Idle, TypeOK
      <3>2. CASE found # {}
        <4>1. call'[c] = [call[c] EXCEPT !.found = found,
                            !.scopes = ScopesOf(found), !.step = next]
          BY <2>2, <3>2 DEF TypeOK
        <4>2. next \in {"fetch:audit", "fetch:credentials"}
          OBVIOUS
        <4>. HIDE DEF next
        <4>. QED
          BY <1>0, <4>1, <4>2 DEF FetchCall
      <3>. QED
        BY <3>1, <3>2
    <2>. QED
      BY <2>1, <2>3, NothingToTell, KeptTells
  <1>2. CASE FindCredentials(c)
    <2>1. audit' = audit
      BY <1>2 DEF FindCredentials, tables
    <2>2. call'[c].step = "fetch:audit"
      BY <1>0, <1>2 DEF FindCredentials, Goto, FetchCall, TypeOK
    <2>. QED
      BY <2>1, <2>2, NothingToTell, KeptTells
  <1>3. CASE FetchAudit(c)
    <2>. PICK e, a, p, S : /\ e = Accessed(a, p, S)
                          /\ a = call[c].anchor
                          /\ p = call[c].profile
                          /\ S = call[c].scopes
      OBVIOUS
    <2>1. audit' = audit \cup {e} /\ UNCHANGED consents
      BY <1>3 DEF FetchAudit
    <2>2. call'[c] = [step |-> "served", anchor |-> a, profile |-> p, scopes |-> S]
      BY <1>3 DEF FetchAudit, Answer, TypeOK
    <2>3. \A s \in S : \E k \in Grants(a, p) : s \in consents[k].scopes
      BY <1>3 DEF FetchAudit, At, CallInv, WithinGrants, Disclosing
    <2>4. \A s \in S : \E k \in Grants(a, p)' : s \in consents'[k].scopes
      BY <2>1, <2>3 DEF Grants
    <2>5. /\ \A action, u, x : action # "CREDENTIAL_ACCESSED" =>
               e # Entry(action, u, x)
          /\ \A b, q, R : e = Accessed(b, q, R) => b = a /\ q = p /\ R = S
      BY EntriesDiffer DEF Accessed
    <2>6. Tells(e)'
      BY <2>4, <2>5 DEF Tells
    <2>7. Earned(c)' /\ Recorded(c)'
      BY <2>1, <2>2 DEF Earned, Recorded, At
    <2>. QED
      BY <2>1, <2>6, <2>7, NewEntry
  <1>. QED
    BY <1>1, <1>2, <1>3 DEF FetchSteps

LEMMA LogInit == Init => LogInv
  <1>. SUFFICES ASSUME Init PROVE LogInv
    OBVIOUS
  <1>1. \A c \in Call : call[c].step = "idle"
    BY DEF Init, Idle
  <1>2. audit = {}
    BY DEF Init
  <1>. QED
    BY <1>1, <1>2, InvInit DEF LogInv, Earned, Recorded, At

LEMMA LogStep == LogInv /\ [Next]_vars => LogInv'
  <1>. SUFFICES ASSUME LogInv, [Next]_vars PROVE LogInv'
    OBVIOUS
  <1>1. Inv /\ Inv' /\ TypeOK /\ TypeOK'
    BY InvStep DEF LogInv, Inv
  <1>2. Kept
    BY <1>1, StepKeeps DEF Inv, CallInv
  <1>3. ASSUME UNCHANGED <<call, audit>> PROVE LogInv'
    BY <1>1, <1>2, <1>3, KeptTells, KeptRecord DEF LogInv
  <1>4. ASSUME NEW c \in Call, \A d \in Call \ {c} : call'[d] = call[d],
               audit \subseteq audit', \A e \in audit' : Tells(e)',
               Earned(c)', Recorded(c)'
        PROVE  LogInv'
    <2>1. ASSUME NEW d \in Call PROVE Earned(d)' /\ Recorded(d)'
      <3>1. CASE d = c
        BY <1>4, <3>1
      <3>2. CASE d # c
        BY <1>1, <1>2, <1>4, <3>2, KeptRecord DEF LogInv
      <3>. QED
        BY <3>1, <3>2
    <2>. QED
      BY <1>1, <1>4, <2>1 DEF LogInv
  <1>5. ASSUME NEW c \in Call, Continue(c) PROVE LogInv'
    <2>1. \A d \in Call \ {c} : call'[d] = call[d]
      BY <1>1, <1>5, OwnStep
    <2>2. /\ audit \subseteq audit'
          /\ \A e \in audit' : Tells(e)'
          /\ Earned(c)' /\ Recorded(c)'
      BY <1>1, <1>2, <1>5, CreateTells, ApproveTells, DenyTells, RevokeTells,
         FetchTells DEF Continue
    <2>. QED
      BY <1>4, <2>1, <2>2
  <1>6. ASSUME NEW c \in Call, Start(c) PROVE LogInv'
    <2>1. \A d \in Call \ {c} : call'[d] = call[d]
      BY <1>1, <1>6, OwnStart
    <2>2. audit' = audit
      BY <1>6 DEF Start, CreateForAnchor, Approve, Deny, Revoke,
         GetScopedDataForAnchor, tables
    <2>3. call'[c].step \in {"create:wallet", "approve:update", "deny:update",
                            "revoke:update", "fetch:consents"}
      BY <1>1, <1>6 DEF Start, CreateForAnchor, Approve, Deny, Revoke,
         GetScopedDataForAnchor, TypeOK
    <2>4. Earned(c)' /\ Recorded(c)'
      BY <2>3, NothingToTell
    <2>. QED
      BY <1>1, <1>2, <1>4, <2>1, <2>2, <2>4, KeptTells DEF LogInv
  <1>7. ASSUME NEW c \in Call, Fail(c) PROVE LogInv'
    <2>1. /\ \A d \in Call \ {c} : call'[d] = call[d]
          /\ call'[c].step = "idle"
          /\ audit' = audit
      BY <1>1, <1>7 DEF Fail, Reject, Answer, Idle, TypeOK, tables
    <2>2. Earned(c)' /\ Recorded(c)'
      BY <2>1, NothingToTell
    <2>. QED
      BY <1>1, <1>2, <1>4, <2>1, <2>2, KeptTells DEF LogInv
  <1>8. CASE ExpireAudit
    <2>1. PICK e : e = Entry("CONSENT_EXPIRED", None, None)
      OBVIOUS
    <2>2. audit' = audit \cup {e} /\ UNCHANGED call
      BY <1>8, <2>1 DEF ExpireAudit
    <2>3. Tells(e)'
      BY <2>1, EntriesDiffer DEF Tells
    <2>4. audit \subseteq audit' /\ \A f \in audit' : Tells(f)'
      BY <1>2, <2>2, <2>3, NewEntry
    <2>5. \A c \in Call : Earned(c)' /\ Recorded(c)'
      BY <1>1, <1>2, <2>2, <2>4, KeptRecord DEF LogInv
    <2>. QED
      BY <1>1, <2>4, <2>5 DEF LogInv
  <1>9. CASE ExpireStale \/ ExpireFail \/ Tick \/ UNCHANGED vars
    BY <1>3, <1>9 DEF ExpireStale, ExpireFail, Tick, vars, tables
  <1>10. ASSUME NEW a \in Anchor, ApproveAnchor(a) \/ BlockAnchor(a) PROVE LogInv'
    BY <1>3, <1>10 DEF ApproveAnchor, BlockAnchor, tables
  <1>. QED
    BY <1>5, <1>6, <1>7, <1>8, <1>9, <1>10 DEF Next

THEOREM LogInvariance == Spec => []LogInv
  BY LogInit, LogStep, PTL DEF Spec

\* The log never tells of a grant, an approval, a denial, a revocation or a
\* disclosure that did not happen, whatever failed between a handler's
\* statements and whatever other calls did in the meantime.
THEOREM LogIsTrue == Spec => []AuditIsTrue
  <1>1. LogInv => AuditIsTrue
    BY TruthIsTold DEF LogInv
  <1>. QED
    BY <1>1, LogInvariance, PTL

\* A caller that is told its call succeeded finds the effect in the tables
\* and the entry in the log.
THEOREM SuccessIsRecorded == Spec => []AcknowledgedIsRecorded
  <1>1. ASSUME LogInv, NEW c \in Call
        PROVE  /\ At(c, "approved") => HasGrant(call[c].request)
               /\ At(c, "revoked") => ~Live(call[c].consent)
    <2>1. TypeOK /\ Recorded(c) /\ AuditIsTrue
      BY <1>1, TruthIsTold DEF LogInv, Inv
    <2>2. At(c, "approved") => HasGrant(call[c].request)
      BY <2>1, AnswerKinds DEF Recorded, AuditIsTrue
    <2>3. ASSUME At(c, "revoked") PROVE ~Live(call[c].consent)
      <3>1. consents[call[c].consent].status = "REVOKED"
        BY <2>1, <2>3, AnswerKinds DEF Recorded, AuditIsTrue
      <3>. QED
        BY <3>1 DEF Live
    <2>. QED
      BY <2>2, <2>3
  <1>2. LogInv => AcknowledgedIsRecorded
    BY <1>1 DEF LogInv, Recorded, AcknowledgedIsRecorded, At
  <1>. QED
    BY <1>2, LogInvariance, PTL
----------------------------------------------------------------------------
(* The ledger.  Most statements leave the book as it is; a grant's insert, *)
(* a revocation, the clock and the steps of a read are its transitions.    *)

LEMMA SameBook ==
  ASSUME UNCHANGED <<now, consents>>
  PROVE  UNCHANGED <<AccountOf, Over>>
  BY DEF AccountOf, Over, Live

LEMMA SameReaders ==
  ASSUME NEW c \in Call, \A d \in Call \ {c} : call'[d] = call[d],
         call[c] \notin FetchCall, call'[c] \notin FetchCall
  PROVE  UNCHANGED Reading
  <1>1. \A d \in Call : Reading'[d] = Reading[d]
    BY DEF Reading
  <1>. QED
    BY <1>1 DEF Reading

LEMMA OneChanged ==
  ASSUME NEW S, NEW f, NEW g, NEW x \in S, NEW y,
         f = [z \in S |-> f[z]], g = [z \in S |-> g[z]],
         g[x] = y, \A z \in S \ {x} : g[z] = f[z]
  PROVE  g = [f EXCEPT ![x] = y]
  OBVIOUS

LEMMA OneReader ==
  ASSUME NEW c \in Call, \A d \in Call \ {c} : call'[d] = call[d]
  PROVE  Reading' = [Reading EXCEPT ![c] = Reading'[c]]
  <1>1. \A d \in Call \ {c} : Reading'[d] = Reading[d]
    BY DEF Reading
  <1>2. /\ Reading = [d \in Call |-> Reading[d]]
        /\ Reading' = [d \in Call |-> Reading'[d]]
    BY DEF Reading
  <1>. QED
    BY <1>1, <1>2, OneChanged

\* The steps of other calls than reads begin and end outside reads.
LEMMA OutsideReads ==
  ASSUME TypeOK, NEW c \in Call,
         CreateSteps(c) \/ ApproveSteps(c) \/ DenySteps(c) \/ RevokeSteps(c)
  PROVE  call[c] \notin FetchCall /\ call'[c] \notin FetchCall
  <1>1. CASE CreateSteps(c)
    <2>1. call[c] \in CreateCall
      BY <1>1, CallKinds DEF CreateSteps, CreateFindProfile, CreateInsert,
         CreateAudit, At
    <2>. QED
      BY <1>1, <2>1 DEF CreateSteps, CreateFindProfile, CreateInsert,
         CreateAudit, Goto, Reject, Answer, Idle, CreateCall, FetchCall, TypeOK
  <1>2. CASE ApproveSteps(c)
    <2>1. call[c] \in ApproveCall
      BY <1>2, CallKinds DEF ApproveSteps, ApproveUpdate, GrantFromAccessRequest,
         GrantConflict, AuditGrant, ApproveAudit, At
    <2>2. CASE ApproveUpdate(c)
      BY <2>1, <2>2 DEF ApproveUpdate, ApproveCall, FetchCall, TypeOK
    <2>3. CASE GrantFromAccessRequest(c)
      <3>1. PICK k \in Consent :
              call' = [call EXCEPT ![c].step = "approve:auditGrant",
                                   ![c].consent = k]
        BY <2>3 DEF GrantFromAccessRequest
      <3>. QED
        BY <2>1, <3>1 DEF ApproveCall, FetchCall, TypeOK
    <2>4. CASE GrantConflict(c) \/ AuditGrant(c) \/ ApproveAudit(c)
      BY <2>1, <2>4 DEF GrantConflict, AuditGrant, ApproveAudit, Goto, Reject,
         Answer, Idle, ApproveCall, FetchCall, TypeOK
    <2>. QED
      BY <1>2, <2>2, <2>3, <2>4 DEF ApproveSteps
  <1>3. CASE DenySteps(c)
    <2>1. call[c] \in DenyCall
      BY <1>3, CallKinds DEF DenySteps, DenyUpdate, DenyAudit, At
    <2>. QED
      BY <1>3, <2>1 DEF DenySteps, DenyUpdate, DenyAudit, Goto, Answer,
         DenyCall, FetchCall, TypeOK
  <1>4. CASE RevokeSteps(c)
    <2>1. call[c] \in RevokeCall
      BY <1>4, CallKinds DEF RevokeSteps, RevokeUpdate, RevokeAudit, At
    <2>. QED
      BY <1>4, <2>1 DEF RevokeSteps, RevokeUpdate, RevokeAudit, Goto, Answer,
         RevokeCall, FetchCall, TypeOK
  <1>. QED
    BY <1>1, <1>2, <1>3, <1>4

\* A grant is entered on the account of its request.
LEMMA GrantIsEntered ==
  ASSUME Inv, TypeOK', NEW c \in Call, GrantFromAccessRequest(c)
  PROVE  \E g \in Consent, x \in Anchor \X Profile : Ledger!Enter(g, x)
  <1>. USE NoneAssumption DEF Inv
  <1>1. PICK k \in Consent, t \in call[c].at .. now :
          /\ consents[k] = None
          /\ consents' = [consents EXCEPT ![k] =
               NewConsent(call[c].user, call[c].request, t)]
    BY DEF GrantFromAccessRequest
  <1>2. /\ call[c] \in ApproveCall
        /\ call[c].request \in Request
        /\ requests[call[c].request] \in RequestRow
    BY CallKinds DEF GrantFromAccessRequest, At, CallInv, Grounded, TypeOK,
       ApproveCall
  <1>. PICK a \in Anchor, p \in Profile :
         a = requests[call[c].request].anchor /\ p = requests[call[c].request].profile
    BY <1>2 DEF RequestRow
  <1>3. consents'[k].anchor = a /\ consents'[k].profile = p
    BY <1>1 DEF NewConsent, TypeOK
  <1>4. consents'[k] # None
    <2>1. t \in Nat
      BY <1>2 DEF TypeOK, ApproveCall
    <2>2. requests[call[c].request].days \in Nat
      BY <1>2, ExpiryAssumption DEF RequestRow
    <2>3. NewConsent(call[c].user, call[c].request, t) \in ConsentRow
      BY <1>2, <2>1, <2>2 DEF NewConsent, ConsentRow, RequestRow, ApproveCall
    <2>. QED
      BY <1>1, <2>3 DEF TypeOK
  <1>5. \A j \in Consent \ {k} : consents'[j] = consents[j]
    BY <1>1 DEF TypeOK
  <1>6. AccountOf' = [AccountOf EXCEPT ![k] = <<a, p>>] /\ AccountOf[k] = None
    <2>1. AccountOf'[k] = <<a, p>> /\ AccountOf[k] = None
      BY <1>1, <1>3, <1>4 DEF AccountOf
    <2>2. \A j \in Consent \ {k} : AccountOf'[j] = AccountOf[j]
      BY <1>5 DEF AccountOf
    <2>3. /\ AccountOf = [j \in Consent |-> AccountOf[j]]
          /\ AccountOf' = [j \in Consent |-> AccountOf'[j]]
      BY DEF AccountOf
    <2>. QED
      BY <2>1, <2>2, <2>3, OneChanged
  <1>7. now' = now
    BY DEF GrantFromAccessRequest, world
  <1>8. \A j \in Consent \ {k} : j \in Over' <=> j \in Over
    BY <1>5, <1>7 DEF Over, Live
  <1>9. k \notin Over /\ Over \subseteq Consent /\ Over' \subseteq Consent
    BY <1>1 DEF Over
  <1>10. Over' \in {Over, Over \cup {k}}
    <2>1. CASE k \in Over'
      BY <1>8, <1>9, <2>1
    <2>2. CASE k \notin Over'
      BY <1>8, <1>9, <2>2
    <2>. QED
      BY <2>1, <2>2
  <1>11. UNCHANGED Reading
    <2>1. \A d \in Call \ {c} : call'[d] = call[d]
      BY OwnStep DEF Continue, ApproveSteps
    <2>. QED
      BY <2>1, SameReaders, OutsideReads DEF ApproveSteps
  <1>. QED
    BY <1>6, <1>10, <1>11 DEF Ledger!Enter

\* Whatever only ends grants is an end of those that were in force.
LEMMA GrantsEnd ==
  ASSUME Inv, TypeOK', Kept,
         \A k \in Consent : consents'[k] # None => consents[k] # None,
         UNCHANGED Reading
  PROVE  (\E G \in SUBSET Consent : Ledger!End(G)) \/ UNCHANGED Ledger!vars
  <1>. USE DEF Inv
  <1>1. \A k \in Consent : consents[k] # None =>
          /\ consents'[k] # None
          /\ consents'[k].anchor = consents[k].anchor
          /\ consents'[k].profile = consents[k].profile
          /\ Live(k)' => Live(k)
    <2>. SUFFICES ASSUME NEW k \in Consent, consents[k] # None
                  PROVE  /\ consents'[k] # None
                         /\ consents'[k].anchor = consents[k].anchor
                         /\ consents'[k].profile = consents[k].profile
                         /\ Live(k)' => Live(k)
      OBVIOUS
    <2>1. /\ consents[k].expiresAt \in Nat
          /\ consents'[k] # None
          /\ consents'[k].anchor = consents[k].anchor
          /\ consents'[k].profile = consents[k].profile
          /\ consents'[k].expiresAt = consents[k].expiresAt
          /\ consents'[k].status = "ACTIVE" => consents[k].status = "ACTIVE"
      BY DEF Kept, KeptConsent, TypeOK, ConsentRow
    <2>2. now \in Nat /\ now' \in Nat /\ now <= now'
      BY DEF Kept, TypeOK
    <2>. QED
      BY <2>1, <2>2 DEF Live
  <1>2. UNCHANGED AccountOf
    BY <1>1 DEF AccountOf
  <1>3. Over \subseteq Over'
    BY <1>1 DEF Over
  <1>4. Over' \subseteq {k \in Consent : consents[k] # None}
    BY DEF Over
  <1>5. {k \in Consent : consents[k] # None}
          \subseteq {k \in Consent : AccountOf[k] # None}
    <2>1. ASSUME NEW k \in Consent, consents[k] # None PROVE AccountOf[k] # None
      <3>1. consents[k].anchor \in Anchor /\ consents[k].profile \in Profile
        BY <2>1 DEF TypeOK, ConsentRow
      <3>2. AccountOf[k] = <<consents[k].anchor, consents[k].profile>>
        BY <2>1 DEF AccountOf
      <3>. QED
        BY <3>1, <3>2, LedgerAssumption
    <2>. QED
      BY <2>1
  <1>6. CASE Over' = Over
    BY <1>2, <1>6 DEF Ledger!vars
  <1>7. CASE Over' # Over
    <2>. PICK G : G = Over' \ Over
      OBVIOUS
    <2>1. G # {} /\ G \in SUBSET Consent
      BY <1>3, <1>4, <1>7
    <2>2. Over' = Over \cup G
      BY <1>3
    <2>3. G \subseteq {k \in Consent : AccountOf[k] # None} \ Over
      BY <1>4, <1>5
    <2>4. Ledger!End(G)
      BY <1>2, <2>1, <2>2, <2>3 DEF Ledger!End
    <2>. QED
      BY <2>1, <2>4
  <1>. QED
    BY <1>6, <1>7
\* A read in progress is an open reader of its account.
LEMMA OpenReader ==
  ASSUME TypeOK, NEW c \in Call, call[c] \in FetchCall
  PROVE  /\ <<call[c].anchor, call[c].profile>> \in Anchor \X Profile
         /\ Reading[c] = [account  |-> <<call[c].anchor, call[c].profile>>,
                          barred   |-> call[c].endedAtStart,
                          owed     |-> call[c].liveAtStart,
                          selected |-> call[c].found]
         /\ Reading[c] # None
  <1>1. <<call[c].anchor, call[c].profile>> \in Anchor \X Profile
    BY DEF FetchCall
  <1>2. Reading[c] = [account  |-> <<call[c].anchor, call[c].profile>>,
                      barred   |-> call[c].endedAtStart,
                      owed     |-> call[c].liveAtStart,
                      selected |-> call[c].found]
    BY DEF Reading
  <1>3. Reading[c] \in [account : Anchor \X Profile, barred : SUBSET Consent,
                        owed : SUBSET Consent, selected : SUBSET Consent]
    BY <1>1, <1>2 DEF FetchCall
  <1>. QED
    BY <1>1, <1>2, <1>3, LedgerAssumption

\* The account of anchor a and profile p has the grants the tables have.
LEMMA SameGrants ==
  ASSUME TypeOK, NEW a \in Anchor, NEW p \in Profile
  PROVE  /\ Ledger!OnAccount(<<a, p>>) = Grants(a, p)
         /\ Grants(a, p) \cap Over = {k \in Grants(a, p) : ~Live(k)}
         /\ Grants(a, p) \ Over = {k \in Grants(a, p) : Live(k)}
  <1>1. ASSUME NEW k \in Consent PROVE AccountOf[k] = <<a, p>> <=> k \in Grants(a, p)
    <2>1. CASE consents[k] = None
      BY <2>1, LedgerAssumption DEF AccountOf, Grants
    <2>2. CASE consents[k] # None
      BY <2>2 DEF AccountOf, Grants
    <2>. QED
      BY <2>1, <2>2
  <1>2. Ledger!OnAccount(<<a, p>>) = Grants(a, p)
    BY <1>1 DEF Ledger!OnAccount, Grants
  <1>. QED
    BY <1>2 DEF Grants, Over

LEMMA ReadOpens ==
  ASSUME Inv, NEW c \in Call, NEW a \in Anchor, NEW p \in Profile,
         GetScopedDataForAnchor(c, a, p)
  PROVE  Ledger!Open(c, <<a, p>>)
  <1>. USE DEF Inv
  <1>1. UNCHANGED <<AccountOf, Over>>
    BY SameBook DEF GetScopedDataForAnchor, world, tables
  <1>2. /\ call'[c] \in FetchCall
        /\ call'[c].anchor = a
        /\ call'[c].profile = p
        /\ call'[c].endedAtStart = {k \in Grants(a, p) : ~Live(k)}
        /\ call'[c].liveAtStart = {k \in Grants(a, p) : Live(k)}
        /\ call'[c].found = {}
    <2>1. call'[c] = [step |-> "fetch:consents", anchor |-> a, profile |-> p,
                      at |-> now,
                      liveAtStart |-> {k \in Grants(a, p) : Live(k)},
                      endedAtStart |-> {k \in Grants(a, p) : ~Live(k)},
                      found |-> {}, scopes |-> {}]
      BY DEF GetScopedDataForAnchor, TypeOK
    <2>. QED
      BY <2>1 DEF FetchCall, Grants, TypeOK
  <1>3. \A d \in Call \ {c} : call'[d] = call[d]
    BY DEF GetScopedDataForAnchor, TypeOK
  <1>4. Reading'[c] = [account |-> <<a, p>>,
                       barred |-> Ledger!OnAccount(<<a, p>>) \cap Over,
                       owed |-> Ledger!OnAccount(<<a, p>>) \ Over,
                       selected |-> {}]
    BY <1>2, SameGrants DEF Reading
  <1>. QED
    BY <1>1, <1>3, <1>4, OneReader DEF Ledger!Open

\* However a read ends: nothing in the tables moves but the log.
LEMMA ReadCloses ==
  ASSUME Inv, NEW c \in Call, call[c] \in FetchCall, call'[c] \notin FetchCall,
         \A d \in Call \ {c} : call'[d] = call[d], UNCHANGED <<now, consents>>
  PROVE  Ledger!Close(c)
  <1>1. UNCHANGED <<AccountOf, Over>>
    BY SameBook
  <1>2. Reading[c] # None
    BY OpenReader DEF Inv
  <1>3. Reading'[c] = None
    BY DEF Reading
  <1>. QED
    BY <1>1, <1>2, <1>3, OneReader DEF Ledger!Close

LEMMA ReadSelects ==
  ASSUME Inv, NEW c \in Call, FindConsents(c)
  PROVE  Ledger!Close(c) \/ \E G \in SUBSET Consent : Ledger!Select(c, G)
  <1>. USE DEF Inv
  <1>. DEFINE a == call[c].anchor
              p == call[c].profile
  <1>1. /\ call[c] \in FetchCall
        /\ Remembers(c)
        /\ call[c].found = {}
        /\ UNCHANGED <<now, consents>>
        /\ \A d \in Call \ {c} : call'[d] = call[d]
    <2>1. call[c] \in FetchCall /\ Remembers(c) /\ UNCHANGED <<now, consents>>
      BY CallKinds DEF FindConsents, At, CallInv, world, tables
    <2>2. call[c].found = {}
      BY <2>1 DEF FindConsents, At, Remembers
    <2>3. \A d \in Call \ {c} : call'[d] = call[d]
      BY DEF FindConsents, Reject, Answer, TypeOK
    <2>. QED
      BY <2>1, <2>2, <2>3
  <1>2. PICK t \in call[c].at .. now :
          LET found == ActiveGrants(a, p, t)
          IN  IF found = {} THEN Reject(c)
              ELSE call' = [call EXCEPT ![c] =
                [@ EXCEPT !.found = found, !.scopes = ScopesOf(found),
                          !.step = IF ScopesOf(found) \cap CredentialScope = {}
                                   THEN "fetch:audit"
                                   ELSE "fetch:credentials"]]
    BY DEF FindConsents
  <1>3. CASE ActiveGrants(a, p, t) = {}
    <2>1. call'[c] \notin FetchCall
      BY <1>2, <1>3 DEF Reject, Answer, Idle, FetchCall, TypeOK
    <2>. QED
      BY <1>1, <2>1, ReadCloses
  <1>4. CASE ActiveGrants(a, p, t) # {}
    <2>. DEFINE next == IF ScopesOf(ActiveGrants(a, p, t)) \cap CredentialScope = {}
                        THEN "fetch:audit" ELSE "fetch:credentials"
    <2>. PICK G : G = ActiveGrants(a, p, t)
      OBVIOUS
    <2>1. call'[c] = [call[c] EXCEPT !.found = G, !.scopes = ScopesOf(G),
                                     !.step = next]
      BY <1>2, <1>4 DEF TypeOK
    <2>2. G \subseteq Consent /\ ScopesOf(G) \subseteq Scope
      BY DEF ActiveGrants, Grants, ScopesOf, TypeOK, ConsentRow
    <2>3. next \in {"fetch:audit", "fetch:credentials"}
      OBVIOUS
    <2>. HIDE DEF next
    <2>4. /\ call'[c] \in FetchCall
          /\ call'[c].found = G
          /\ call'[c].anchor = call[c].anchor
          /\ call'[c].profile = call[c].profile
          /\ call'[c].liveAtStart = call[c].liveAtStart
          /\ call'[c].endedAtStart = call[c].endedAtStart
      BY <1>1, <2>1, <2>2, <2>3 DEF FetchCall
    <2>5. Reading'[c] = [Reading[c] EXCEPT !.selected = G]
      BY <1>1, <2>4, OpenReader DEF Reading
    <2>6. t \in Nat /\ call[c].at <= t /\ t <= now /\ now \in Nat
      BY <1>1 DEF FetchCall, TypeOK
    <2>7. G \subseteq Grants(a, p) \ call[c].endedAtStart
      BY <1>1, <2>6 DEF Remembers, ActiveGrants, Grants, TypeOK, ConsentRow,
         FetchCall
    <2>8. \A k \in call[c].liveAtStart : Live(k) => k \in G
      BY <1>1, <2>6 DEF Remembers, ActiveGrants, Grants, Live, TypeOK, ConsentRow
    <2>9. call[c].liveAtStart \ Over \subseteq G
      BY <1>1, <2>8 DEF Over, Remembers, Grants
    <2>10. /\ Reading[c].account = <<a, p>>
           /\ Reading[c].barred = call[c].endedAtStart
           /\ Reading[c].owed = call[c].liveAtStart
           /\ Reading[c].selected = {}
           /\ Reading[c] # None
      <3>1. /\ Reading[c] = [account  |-> <<a, p>>,
                             barred   |-> call[c].endedAtStart,
                             owed     |-> call[c].liveAtStart,
                             selected |-> call[c].found]
            /\ Reading[c] # None
        BY <1>1, OpenReader
      <3>. QED
        BY <1>1, <3>1
    <2>11. Ledger!OnAccount(Reading[c].account) = Grants(a, p)
      BY <1>1, <2>10, SameGrants DEF FetchCall
    <2>12. UNCHANGED <<AccountOf, Over>>
      BY <1>1, SameBook
    <2>13. Reading' = [Reading EXCEPT ![c] = [Reading[c] EXCEPT !.selected = G]]
      BY <1>1, <2>5, OneReader
    <2>14. Ledger!Select(c, G)
      BY <1>4, <2>7, <2>9, <2>10, <2>11, <2>12, <2>13 DEF Ledger!Select
    <2>. QED
      BY <2>2, <2>14
  <1>. QED
    BY <1>3, <1>4
\* Every step of the subsystem is a transition of the ledger, or none.
LEMMA StepIsLedgerStep ==
  ASSUME Inv, Inv', [Next]_vars
  PROVE  [Ledger!Next]_(Ledger!vars)
  <1>. USE DEF Inv
  <1>1. TypeOK /\ TypeOK' /\ Kept
    BY StepKeeps DEF CallInv
  <1>2. ASSUME UNCHANGED <<now, consents>>, UNCHANGED Reading
        PROVE  UNCHANGED Ledger!vars
    BY <1>2, SameBook DEF Ledger!vars
  <1>3. ASSUME NEW c \in Call, Continue(c) PROVE [Ledger!Next]_(Ledger!vars)
    <2>1. \A d \in Call \ {c} : call'[d] = call[d]
      BY <1>3, OwnStep
    <2>2. CASE GrantFromAccessRequest(c)
      BY <2>2, GrantIsEntered DEF Ledger!Next
    <2>3. CASE RevokeUpdate(c)
      <3>1. UNCHANGED Reading
        BY <2>1, <2>3, SameReaders, OutsideReads DEF RevokeSteps
      <3>2. consents[call[c].consent] # None
        BY <2>3 DEF RevokeUpdate, At, CallInv, Grounded
      <3>3. \A k \in Consent : consents'[k] # None => consents[k] # None
        BY <2>3, <3>2 DEF RevokeUpdate, TypeOK
      <3>. QED
        BY <1>1, <3>1, <3>3, GrantsEnd DEF Ledger!Next
    <2>4. CASE ~(GrantFromAccessRequest(c) \/ RevokeUpdate(c) \/ FetchSteps(c))
      <3>1. CreateSteps(c) \/ ApproveSteps(c) \/ DenySteps(c) \/ RevokeSteps(c)
        BY <1>3, <2>4 DEF Continue
      <3>2. UNCHANGED Reading
        BY <2>1, <3>1, SameReaders, OutsideReads
      <3>3. UNCHANGED <<now, consents>>
        BY <2>4, <3>1 DEF CreateSteps, CreateFindProfile, CreateInsert, CreateAudit,
           ApproveSteps, ApproveUpdate, GrantConflict, AuditGrant, ApproveAudit,
           DenySteps, DenyUpdate, DenyAudit, RevokeSteps, RevokeAudit, world, tables
      <3>. QED
        BY <1>2, <3>2, <3>3
    <2>5. CASE FindConsents(c)
      BY <2>5, ReadSelects DEF Ledger!Next
    <2>6. CASE FindCredentials(c)
      <3>1. call[c] \in FetchCall /\ UNCHANGED <<now, consents>>
        BY <2>6, CallKinds DEF FindCredentials, At, world, tables
      <3>2. call'[c] = [call[c] EXCEPT !.step = "fetch:audit"]
        BY <2>6 DEF FindCredentials, Goto, TypeOK
      <3>3. /\ call'[c] \in FetchCall
            /\ call'[c].anchor = call[c].anchor
            /\ call'[c].profile = call[c].profile
            /\ call'[c].endedAtStart = call[c].endedAtStart
            /\ call'[c].liveAtStart = call[c].liveAtStart
            /\ call'[c].found = call[c].found
        BY <3>1, <3>2 DEF FetchCall
      <3>4. \A d \in Call : Reading'[d] = Reading[d]
        BY <2>1, <3>1, <3>3 DEF Reading
      <3>5. UNCHANGED Reading
        BY <3>4 DEF Reading
      <3>. QED
        BY <1>2, <3>1, <3>5
    <2>7. CASE FetchAudit(c)
      <3>1. call[c] \in FetchCall /\ UNCHANGED <<now, consents>>
        BY <2>7, CallKinds DEF FetchAudit, At, world
      <3>2. call'[c] \notin FetchCall
        BY <2>7 DEF FetchAudit, Answer, FetchCall, TypeOK
      <3>. QED
        BY <2>1, <3>1, <3>2, ReadCloses DEF Ledger!Next
    <2>. QED
      BY <2>2, <2>3, <2>4, <2>5, <2>6, <2>7 DEF FetchSteps
  <1>4. ASSUME NEW c \in Call, Start(c) PROVE [Ledger!Next]_(Ledger!vars)
    <2>1. /\ \A d \in Call \ {c} : call'[d] = call[d]
          /\ UNCHANGED <<now, consents>>
      BY <1>4, OwnStart DEF Start, CreateForAnchor, Approve, Deny, Revoke,
         GetScopedDataForAnchor, world, tables
    <2>2. ASSUME NEW a \in Anchor, NEW p \in Profile, GetScopedDataForAnchor(c, a, p)
          PROVE  [Ledger!Next]_(Ledger!vars)
      <3>1. <<a, p>> \in Anchor \X Profile /\ Ledger!Open(c, <<a, p>>)
        BY <2>2, ReadOpens
      <3>. QED
        BY <3>1 DEF Ledger!Next
    <2>3. CASE ~\E a \in Anchor, p \in Profile : GetScopedDataForAnchor(c, a, p)
      <3>1. call[c] \notin FetchCall
        BY <1>4 DEF Start, CreateForAnchor, Approve, Deny, Revoke,
           GetScopedDataForAnchor, Free, FetchCall
      <3>2. call'[c].step \in {"create:wallet", "approve:update", "deny:update",
                              "revoke:update"}
        BY <1>4, <2>3 DEF Start, CreateForAnchor, Approve, Deny, Revoke, TypeOK
      <3>3. UNCHANGED Reading
        BY <2>1, <3>1, <3>2, SameReaders DEF FetchCall
      <3>. QED
        BY <1>2, <2>1, <3>3
    <2>. QED
      BY <2>2, <2>3
  <1>5. ASSUME NEW c \in Call, Fail(c) PROVE [Ledger!Next]_(Ledger!vars)
    <2>1. /\ \A d \in Call \ {c} : call'[d] = call[d]
          /\ call'[c] \notin FetchCall
          /\ UNCHANGED <<now, consents>>
      BY <1>5 DEF Fail, Reject, Answer, Idle, FetchCall, TypeOK, tables
    <2>2. CASE call[c] \in FetchCall
      BY <2>1, <2>2, ReadCloses DEF Ledger!Next
    <2>3. CASE call[c] \notin FetchCall
      BY <1>2, <2>1, <2>3, SameReaders
    <2>. QED
      BY <2>2, <2>3
  <1>6. ASSUME UNCHANGED call PROVE UNCHANGED Reading
    BY <1>6 DEF Reading
  <1>7. CASE ExpireStale
    <2>1. \A k \in Consent : consents'[k] # None => consents[k] # None
      BY <1>7 DEF ExpireStale, Stale
    <2>2. UNCHANGED call
      BY <1>7 DEF ExpireStale
    <2>. QED
      BY <1>1, <1>6, <2>1, <2>2, GrantsEnd DEF Ledger!Next
  <1>8. CASE Tick
    BY <1>1, <1>6, <1>8, GrantsEnd DEF Tick, tables, Ledger!Next
  <1>9. CASE ExpireAudit \/ ExpireFail \/ UNCHANGED vars
    BY <1>2, <1>6, <1>9 DEF ExpireAudit, ExpireFail, vars, tables
  <1>10. ASSUME NEW a \in Anchor, ApproveAnchor(a) \/ BlockAnchor(a)
         PROVE  [Ledger!Next]_(Ledger!vars)
    BY <1>2, <1>6, <1>10 DEF ApproveAnchor, BlockAnchor, tables
  <1>. QED
    BY <1>3, <1>4, <1>5, <1>7, <1>8, <1>9, <1>10 DEF Next

\* The consent subsystem implements the ledger: whatever its calls do to each
\* other, an anchor's read uses no grant that was over when it began, misses
\* none that was in force throughout, and what is over stays over.
THEOREM KeepsTheLedger == Spec => ImplementsLedger
  <1>1. Init => Ledger!Init
    <2>. SUFFICES ASSUME Init PROVE Ledger!Init
      OBVIOUS
    <2>1. AccountOf = [k \in Consent |-> None] /\ Over = {}
      BY DEF Init, AccountOf, Over
    <2>2. Reading = [c \in Call |-> None]
      BY DEF Init, Reading, Idle, FetchCall
    <2>. QED
      BY <2>1, <2>2 DEF Ledger!Init
  <1>2. Inv /\ Inv' /\ [Next]_vars => [Ledger!Next]_(Ledger!vars)
    BY StepIsLedgerStep
  <1>. QED
    BY <1>1, <1>2, Invariance, PTL DEF Spec, ImplementsLedger, Ledger!Spec----------------------------------------------------------------------------
(* The log is complete as long as nothing failed.  The step of a call has  *)
(* two sides: what it makes, it is going to tell of next, and what it was  *)
(* going to tell, it has told.                                             *)

\* What a step of call c changes in the tables, it is about to tell.
Makes(c) ==
  /\ \A r \in Request : requests[r] = None /\ requests'[r] # None =>
       /\ call'[c].step = "create:audit"
       /\ call'[c].request = r
       /\ requests'[r].status = "PENDING"
  /\ \A r \in Request :
       requests[r] # None /\ requests'[r].status # requests[r].status =>
         /\ call'[c].request = r
         /\ \/ requests'[r].status = "DENIED" /\ call'[c].step = "deny:audit"
            \/ requests'[r].status = "APPROVED" /\ call'[c].step = "approve:grant"
  /\ \A k \in Consent : consents[k] = None /\ consents'[k] # None =>
       /\ call'[c].step = "approve:auditGrant"
       /\ call'[c].consent = k
       /\ consents'[k].status = "ACTIVE"
  /\ \A k \in Consent :
       consents[k] # None /\ consents'[k].status # consents[k].status =>
         /\ call'[c].consent = k
         /\ call'[c].step = "revoke:audit"
         /\ consents'[k].status = "REVOKED"

\* What call c was about to do or to tell, it has done or told.
Told(c) ==
  /\ At(c, "create:audit") =>
       Entry("ACCESS_REQUEST_CREATED", None, call[c].request) \in audit'
  /\ At(c, "deny:audit") =>
       Entry("ACCESS_REQUEST_DENIED", call[c].user, call[c].request) \in audit'
  /\ \A r \in Request :
       At(c, "approve:grant") /\ call[c].request = r => HasGrant(r)'
  /\ At(c, "approve:auditGrant") =>
       /\ Entry("CONSENT_GRANTED", call[c].user, call[c].consent) \in audit'
       /\ call'[c].step = "approve:audit"
       /\ call'[c].consent = call[c].consent
  /\ At(c, "approve:audit") =>
       Entry("ACCESS_REQUEST_APPROVED", call[c].user, call[c].request) \in audit'
  /\ At(c, "revoke:audit") =>
       Entry("CONSENT_REVOKED", call[c].user, call[c].consent) \in audit'

RequestsTold == \A r \in Request : requests[r] # None =>
                  FilingTold(r) /\ DenialTold(r) /\ ApprovalTaken(r)
ConsentsTold == \A k \in Consent : consents[k] # None => GrantTold(k) /\ EndTold(k)

LEMMA RequestsStayTold ==
  ASSUME LogInv, Kept, RequestsTold, NEW c \in Call,
         \A d \in Call \ {c} : call'[d] = call[d], audit \subseteq audit',
         Makes(c), Told(c)
  PROVE  RequestsTold'
  <1>. USE DEF LogInv, Inv
  <1>. SUFFICES ASSUME NEW r \in Request, requests'[r] # None
                PROVE  (FilingTold(r) /\ DenialTold(r) /\ ApprovalTaken(r))'
    BY DEF RequestsTold
  <1>1. CASE requests[r] = None
    <2>1. /\ call'[c].step = "create:audit"
          /\ call'[c].request = r
          /\ requests'[r].status = "PENDING"
      BY <1>1 DEF Makes
    <2>. QED
      BY <2>1 DEF FilingTold, DenialTold, ApprovalTaken, Resolving
  <1>2. CASE requests[r] # None
    <2>1. FilingTold(r) /\ DenialTold(r) /\ ApprovalTaken(r)
      BY <1>2 DEF RequestsTold
    <2>2. requests'[r].profile = requests[r].profile
      BY <1>2 DEF Kept, KeptRequest
    <2>3. FilingTold(r)'
      BY <2>1 DEF FilingTold, Resolving, Told, At
    <2>4. DenialTold(r)'
      <3>1. CASE requests'[r].status = requests[r].status
        <4>1. At(c, "deny:audit") /\ call[c].request = r =>
                Entry("ACCESS_REQUEST_DENIED", Owner[requests[r].profile], r) \in audit'
          BY DEF Told, Earned, At
        <4>. QED
          BY <2>1, <2>2, <3>1, <4>1 DEF DenialTold, Resolving, At
      <3>2. CASE requests'[r].status # requests[r].status
        BY <1>2, <3>2 DEF Makes, DenialTold, Resolving
      <3>. QED
        BY <3>1, <3>2
    <2>5. ApprovalTaken(r)'
      <3>1. HasGrant(r) => HasGrant(r)'
        BY KeptColumns DEF HasGrant
      <3>2. CASE requests'[r].status = requests[r].status
        BY <2>1, <3>1, <3>2 DEF ApprovalTaken, Resolving, Told, At
      <3>3. CASE requests'[r].status # requests[r].status
        BY <1>2, <3>3 DEF Makes, ApprovalTaken, Resolving
      <3>. QED
        BY <3>2, <3>3
    <2>. QED
      BY <2>3, <2>4, <2>5
  <1>. QED
    BY <1>1, <1>2

LEMMA ConsentsStayTold ==
  ASSUME LogInv, Kept, ConsentsTold, NEW c \in Call,
         \A d \in Call \ {c} : call'[d] = call[d], audit \subseteq audit',
         cron' = cron, Makes(c), Told(c)
  PROVE  ConsentsTold'
  <1>. USE DEF LogInv, Inv
  <1>. SUFFICES ASSUME NEW k \in Consent, consents'[k] # None
                PROVE  (GrantTold(k) /\ EndTold(k))'
    BY DEF ConsentsTold
  <1>1. CASE consents[k] = None
    <2>1. /\ call'[c].step = "approve:auditGrant"
          /\ call'[c].consent = k
          /\ consents'[k].status = "ACTIVE"
      BY <1>1 DEF Makes
    <2>. QED
      BY <2>1 DEF GrantTold, EndTold, Handling
  <1>2. CASE consents[k] # None
    <2>1. GrantTold(k) /\ EndTold(k)
      BY <1>2 DEF ConsentsTold
    <2>. PICK u, r : u = consents[k].user /\ r = consents[k].request
      OBVIOUS
    <2>2. consents'[k].user = u /\ consents'[k].request = r
      BY <1>2, KeptColumns
    <2>3. call[c].consent = k =>
            /\ At(c, "approve:auditGrant") =>
                 /\ Entry("CONSENT_GRANTED", u, k) \in audit'
                 /\ call'[c].step = "approve:audit"
                 /\ call'[c].consent = k
            /\ At(c, "approve:audit") =>
                 Entry("ACCESS_REQUEST_APPROVED", u, r) \in audit'
            /\ At(c, "revoke:audit") => Entry("CONSENT_REVOKED", u, k) \in audit'
      BY DEF Told, Earned, At
    <2>4. GrantTold(k)'
      BY <2>1, <2>2, <2>3 DEF GrantTold, Handling, At
    <2>5. EndTold(k)'
      <3>1. CASE consents'[k].status = consents[k].status
        BY <2>1, <2>2, <2>3, <3>1 DEF EndTold, Handling, At
      <3>2. CASE consents'[k].status # consents[k].status
        BY <1>2, <3>2 DEF Makes, EndTold, Handling
      <3>. QED
        BY <3>1, <3>2
    <2>. QED
      BY <2>4, <2>5
  <1>. QED
    BY <1>1, <1>2
LEMMA CreateMakesAndTells ==
  ASSUME LogInv, TypeOK', NEW c \in Call, CreateSteps(c)
  PROVE  Makes(c) /\ Told(c) /\ cron' = cron
  <1>. USE NoneAssumption DEF LogInv, Inv
  <1>0. call[c] \in CreateCall /\ call[c].request \in Request
    BY CallKinds DEF CreateSteps, CreateFindProfile, CreateInsert, CreateAudit,
       At, CreateCall
  <1>1. CASE CreateFindProfile(c)
    BY <1>1 DEF CreateFindProfile, Makes, Told, At, world, tables
  <1>2. CASE CreateInsert(c)
    <2>1. /\ call'[c].step = "create:audit"
          /\ call'[c].request = call[c].request
      BY <1>0, <1>2 DEF CreateInsert, Goto, CreateCall, TypeOK
    <2>2. requests[call[c].request] = None
      BY <1>0, <1>2 DEF CreateInsert, Reserved, Reserving, At
    <2>3. /\ \A r \in Request \ {call[c].request} : requests'[r] = requests[r]
          /\ requests'[call[c].request].status = "PENDING"
      BY <1>0, <1>2 DEF CreateInsert, TypeOK
    <2>4. Makes(c)
      BY <1>2, <2>1, <2>2, <2>3 DEF CreateInsert, Makes
    <2>. QED
      BY <1>2, <2>4 DEF CreateInsert, Told, At, world
  <1>3. CASE CreateAudit(c)
    BY <1>3 DEF CreateAudit, Makes, Told, At, world
  <1>. QED
    BY <1>1, <1>2, <1>3 DEF CreateSteps

LEMMA DenyMakesAndTells ==
  ASSUME LogInv, TypeOK', NEW c \in Call, DenySteps(c)
  PROVE  Makes(c) /\ Told(c) /\ cron' = cron
  <1>. USE NoneAssumption DEF LogInv, Inv
  <1>0. call[c] \in DenyCall /\ call[c].request \in Request
    BY CallKinds DEF DenySteps, DenyUpdate, DenyAudit, At, DenyCall
  <1>1. CASE DenyUpdate(c)
    <2>1. call'[c].step = "deny:audit" /\ call'[c].request = call[c].request
      BY <1>0, <1>1 DEF DenyUpdate, Goto, DenyCall, TypeOK
    <2>2. requests[call[c].request] \in RequestRow
      BY <1>0, <1>1 DEF DenyUpdate, At, CallInv, Grounded, TypeOK
    <2>3. /\ \A r \in Request \ {call[c].request} : requests'[r] = requests[r]
          /\ requests'[call[c].request].status = "DENIED"
      BY <1>0, <1>1, <2>2 DEF DenyUpdate, TypeOK, RequestRow
    <2>4. Makes(c)
      BY <1>1, <2>1, <2>2, <2>3 DEF DenyUpdate, Makes
    <2>. QED
      BY <1>1, <2>4 DEF DenyUpdate, Told, At, world
  <1>2. CASE DenyAudit(c)
    BY <1>2 DEF DenyAudit, Makes, Told, At, world
  <1>. QED
    BY <1>1, <1>2 DEF DenySteps

LEMMA RevokeMakesAndTells ==
  ASSUME LogInv, TypeOK', NEW c \in Call, RevokeSteps(c)
  PROVE  Makes(c) /\ Told(c) /\ cron' = cron
  <1>. USE NoneAssumption DEF LogInv, Inv
  <1>0. call[c] \in RevokeCall /\ call[c].consent \in Consent
    BY CallKinds DEF RevokeSteps, RevokeUpdate, RevokeAudit, At, RevokeCall
  <1>1. CASE RevokeUpdate(c)
    <2>1. call'[c].step = "revoke:audit" /\ call'[c].consent = call[c].consent
      BY <1>0, <1>1 DEF RevokeUpdate, Goto, RevokeCall, TypeOK
    <2>2. consents[call[c].consent] \in ConsentRow
      BY <1>0, <1>1 DEF RevokeUpdate, At, CallInv, Grounded, TypeOK
    <2>3. /\ \A k \in Consent \ {call[c].consent} : consents'[k] = consents[k]
          /\ consents'[call[c].consent].status = "REVOKED"
      BY <1>0, <1>1, <2>2 DEF RevokeUpdate, TypeOK, ConsentRow
    <2>4. Makes(c)
      BY <1>1, <2>1, <2>2, <2>3 DEF RevokeUpdate, Makes
    <2>. QED
      BY <1>1, <2>4 DEF RevokeUpdate, Told, At, world
  <1>2. CASE RevokeAudit(c)
    BY <1>2 DEF RevokeAudit, Makes, Told, At, world
  <1>. QED
    BY <1>1, <1>2 DEF RevokeSteps

LEMMA ApproveMakesAndTells ==
  ASSUME LogInv, TypeOK', NEW c \in Call, ApproveSteps(c)
  PROVE  Makes(c) /\ Told(c) /\ cron' = cron
  <1>. USE NoneAssumption DEF LogInv, Inv
  <1>0. call[c] \in ApproveCall /\ call[c].request \in Request
    BY CallKinds DEF ApproveSteps, ApproveUpdate, GrantFromAccessRequest,
       GrantConflict, AuditGrant, ApproveAudit, At, ApproveCall
  <1>1. CASE ApproveUpdate(c)
    <2>1. call'[c].step = "approve:grant" /\ call'[c].request = call[c].request
      BY <1>0, <1>1 DEF ApproveUpdate, ApproveCall, TypeOK
    <2>2. requests[call[c].request] \in RequestRow
      BY <1>0, <1>1 DEF ApproveUpdate, At, CallInv, Grounded, TypeOK
    <2>3. /\ \A r \in Request \ {call[c].request} : requests'[r] = requests[r]
          /\ requests'[call[c].request].status = "APPROVED"
      BY <1>0, <1>1, <2>2 DEF ApproveUpdate, TypeOK, RequestRow
    <2>4. Makes(c)
      BY <1>1, <2>1, <2>2, <2>3 DEF ApproveUpdate, Makes
    <2>. QED
      BY <1>1, <2>4 DEF ApproveUpdate, Told, At, world
  <1>2. CASE GrantFromAccessRequest(c)
    <2>1. PICK k \in Consent, t \in call[c].at .. now :
            /\ consents[k] = None
            /\ consents' = [consents EXCEPT ![k] =
                 NewConsent(call[c].user, call[c].request, t)]
            /\ call' = [call EXCEPT ![c].step = "approve:auditGrant",
                                    ![c].consent = k]
      BY <1>2 DEF GrantFromAccessRequest
    <2>2. call'[c].step = "approve:auditGrant" /\ call'[c].consent = k
      BY <1>0, <2>1 DEF ApproveCall, TypeOK
    <2>3. /\ \A j \in Consent \ {k} : consents'[j] = consents[j]
          /\ consents'[k] = NewConsent(call[c].user, call[c].request, t)
      BY <2>1 DEF TypeOK
    <2>4. consents'[k].status = "ACTIVE" /\ consents'[k].request = call[c].request
      BY <2>3 DEF NewConsent
    <2>5. consents'[k] # None
      <3>1. requests[call[c].request] \in RequestRow /\ t \in Nat
        BY <1>0, <1>2 DEF GrantFromAccessRequest, At, CallInv, Grounded, TypeOK,
           ApproveCall
      <3>2. requests[call[c].request].days \in Nat
        BY <3>1, ExpiryAssumption DEF RequestRow
      <3>3. NewConsent(call[c].user, call[c].request, t) \in ConsentRow
        BY <1>0, <3>1, <3>2 DEF NewConsent, ConsentRow, RequestRow, ApproveCall
      <3>. QED
        BY <2>3, <3>3
    <2>6. Makes(c)
      BY <1>2, <2>1, <2>2, <2>3, <2>4 DEF GrantFromAccessRequest, Makes
    <2>7. \A r \in Request : call[c].request = r => HasGrant(r)'
      BY <2>4, <2>5 DEF HasGrant
    <2>. QED
      BY <1>2, <2>6, <2>7 DEF GrantFromAccessRequest, Told, At, world
  <1>3. CASE GrantConflict(c)
    <2>1. \A r \in Request : HasGrant(r)' <=> HasGrant(r)
      BY <1>3 DEF GrantConflict, HasGrant, tables
    <2>. QED
      BY <1>3, <2>1 DEF GrantConflict, Makes, Told, At, world, tables
  <1>4. CASE AuditGrant(c)
    <2>1. call'[c].step = "approve:audit" /\ call'[c].consent = call[c].consent
      BY <1>0, <1>4 DEF AuditGrant, Goto, ApproveCall, TypeOK
    <2>. QED
      BY <1>4, <2>1 DEF AuditGrant, Makes, Told, At, world
  <1>5. CASE ApproveAudit(c)
    BY <1>5 DEF ApproveAudit, Makes, Told, At, world
  <1>. QED
    BY <1>1, <1>2, <1>3, <1>4, <1>5 DEF ApproveSteps

LEMMA FetchMakesAndTells ==
  ASSUME NEW c \in Call, FetchSteps(c)
  PROVE  Makes(c) /\ Told(c) /\ cron' = cron
  BY DEF FetchSteps, FindConsents, FindCredentials, FetchAudit, Makes, Told, At,
     world, tables
\* The job ends consents and is about to say so.
LEMMA JobTells ==
  ASSUME LogInv, Kept, RequestsTold, ConsentsTold, ExpireStale \/ ExpireAudit
  PROVE  RequestsTold' /\ ConsentsTold'
  <1>. USE DEF LogInv, Inv
  <1>1. UNCHANGED <<requests, call>> /\ audit \subseteq audit'
    BY DEF ExpireStale, ExpireAudit
  <1>2. \A r \in Request : HasGrant(r) => HasGrant(r)'
    BY KeptColumns DEF HasGrant
  <1>3. RequestsTold'
    BY <1>1, <1>2 DEF RequestsTold, FilingTold, DenialTold, ApprovalTaken, Resolving
  <1>4. ASSUME NEW k \in Consent, consents'[k] # None
        PROVE  (GrantTold(k) /\ EndTold(k))'
    <2>. PICK e : e = Entry("CONSENT_EXPIRED", None, None)
      OBVIOUS
    <2>1. consents[k] # None
      BY <1>4, NoneAssumption DEF ExpireStale, ExpireAudit, Stale
    <2>2. GrantTold(k) /\ EndTold(k)
      BY <2>1 DEF ConsentsTold
    <2>. PICK u, r : u = consents[k].user /\ r = consents[k].request
      OBVIOUS
    <2>3. consents'[k].user = u /\ consents'[k].request = r
      BY <2>1, KeptColumns
    <2>4. \/ consents'[k].status = consents[k].status
          \/ consents'[k].status = "EXPIRED"
      <3>1. consents[k] \in ConsentRow
        BY <2>1 DEF TypeOK
      <3>. QED
        BY <3>1 DEF ExpireStale, ExpireAudit, ConsentRow
    <2>5. GrantTold(k)'
      BY <1>1, <2>2, <2>3 DEF GrantTold, Handling
    <2>6. consents'[k].status = "EXPIRED" => e \in audit' \/ cron' = "logging"
      BY <2>2 DEF ExpireStale, ExpireAudit, EndTold
    <2>7. EndTold(k)'
      BY <1>1, <2>2, <2>3, <2>4, <2>6 DEF EndTold, Handling
    <2>. QED
      BY <2>5, <2>7
  <1>. QED
    BY <1>3, <1>4 DEF ConsentsTold

LEMMA NothingHappens ==
  ASSUME RequestsTold, ConsentsTold, UNCHANGED <<requests, consents, audit, call, cron>>
  PROVE  RequestsTold' /\ ConsentsTold'
  BY DEF RequestsTold, ConsentsTold, FilingTold, DenialTold, ApprovalTaken,
     HasGrant, GrantTold, EndTold, Resolving, Handling

LEMMA ToldStep ==
  ASSUME LogInv, LogInv', EffectsAreTold, [Next]_vars
  PROVE  EffectsAreTold'
  <1>1. Inv /\ TypeOK /\ TypeOK' /\ failures \in Nat
    BY DEF LogInv, Inv, TypeOK
  <1>2. Kept
    BY <1>1, StepKeeps DEF Inv, CallInv
  <1>. SUFFICES ASSUME failures' = 0 PROVE RequestsTold' /\ ConsentsTold'
    BY DEF EffectsAreTold, RequestsTold, ConsentsTold
  <1>3. failures' = failures
    <2>1. \/ failures' = failures
          \/ failures' = failures + 1
      BY DEF Next, Start, Continue, CreateSteps, ApproveSteps, DenySteps,
         RevokeSteps, FetchSteps, CreateForAnchor, Approve, Deny, Revoke,
         GetScopedDataForAnchor, CreateFindProfile, CreateInsert, CreateAudit,
         ApproveUpdate, GrantFromAccessRequest, GrantConflict, AuditGrant,
         ApproveAudit, DenyUpdate, DenyAudit, RevokeUpdate, RevokeAudit,
         FindConsents, FindCredentials, FetchAudit, Fail, ExpireStale,
         ExpireAudit, ExpireFail, ApproveAnchor, BlockAnchor, Tick, world, vars
    <2>. QED
      BY <1>1, <2>1
  <1>4. RequestsTold /\ ConsentsTold
    BY <1>3 DEF EffectsAreTold, RequestsTold, ConsentsTold
  <1>5. ASSUME NEW c \in Call, Continue(c) PROVE RequestsTold' /\ ConsentsTold'
    <2>1. \A d \in Call \ {c} : call'[d] = call[d]
      BY <1>1, <1>5, OwnStep
    <2>2. audit \subseteq audit'
      BY <1>1, <1>2, <1>5, CreateTells, ApproveTells, DenyTells, RevokeTells,
         FetchTells DEF Continue
    <2>3. Makes(c) /\ Told(c) /\ cron' = cron
      BY <1>1, <1>5, CreateMakesAndTells, DenyMakesAndTells, RevokeMakesAndTells,
         ApproveMakesAndTells, FetchMakesAndTells DEF Continue
    <2>. QED
      BY <1>2, <1>4, <2>1, <2>2, <2>3, RequestsStayTold, ConsentsStayTold
  <1>6. ASSUME NEW c \in Call, Start(c) PROVE RequestsTold' /\ ConsentsTold'
    <2>1. \A d \in Call \ {c} : call'[d] = call[d]
      BY <1>1, <1>6, OwnStart
    <2>2. UNCHANGED tables /\ UNCHANGED cron /\ Free(c)
      BY <1>6 DEF Start, CreateForAnchor, Approve, Deny, Revoke,
         GetScopedDataForAnchor, tables, world
    <2>3. Makes(c) /\ Told(c)
      BY <2>2 DEF Makes, Told, Free, At, tables
    <2>. QED
      BY <1>2, <1>4, <2>1, <2>2, <2>3, RequestsStayTold, ConsentsStayTold DEF tables
  <1>7. ASSUME NEW c \in Call, Fail(c) PROVE FALSE
    BY <1>1, <1>3, <1>7 DEF Fail
  <1>8. ASSUME ExpireFail PROVE FALSE
    BY <1>1, <1>3, <1>8 DEF ExpireFail
  <1>9. CASE Tick \/ UNCHANGED vars
    BY <1>4, <1>9, NothingHappens DEF Tick, vars, tables
  <1>10. ASSUME NEW a \in Anchor, ApproveAnchor(a) \/ BlockAnchor(a)
         PROVE  RequestsTold' /\ ConsentsTold'
    BY <1>4, <1>10, NothingHappens DEF ApproveAnchor, BlockAnchor, tables
  <1>. QED
    BY <1>2, <1>4, <1>5, <1>6, <1>7, <1>8, <1>9, <1>10, JobTells DEF Next

\* Without a failing statement nothing happens that the log does not tell of:
\* no filing, grant, denial, revocation or expiry goes unlogged because calls
\* overlapped, and every approval gets its grant.
THEOREM NothingGoesUntold == Spec => []EffectsAreTold
  <1>1. Init => EffectsAreTold
    BY DEF Init, EffectsAreTold
  <1>2. LogInv /\ LogInv' /\ EffectsAreTold /\ [Next]_vars => EffectsAreTold'
    BY ToldStep
  <1>. QED
    BY <1>1, <1>2, LogInvariance, PTL DEF Spec
=============================================================================
