------------------------------ MODULE AnchorID ------------------------------
(***************************************************************************)
(* The platform as one system: the keys that let an anchor in              *)
(* (AnchorPortal), the consents that say what it may see (ConsentFlow) and *)
(* the data it is answered with (Dossier).                                 *)
(*                                                                         *)
(* One handler is one slot of Call, whichever parts its statements belong  *)
(* to.  Two handlers go through several parts: the filing of an access     *)
(* request, with a key and for a profile, and the scoped read, with a key, *)
(* for a profile and within consents.  Each of their statements is one     *)
(* step of every part it belongs to, and all other steps are of one part.  *)
(*                                                                         *)
(* The parts are taken with their proofs, so that what is proved of a part *)
(* can be used for the whole.                                              *)
(***************************************************************************)
EXTENDS Integers, FiniteSets

CONSTANTS
  User, Admin, Anchor, Key, Page,                        \* see AnchorPortal
  Profile, Owner, Scope, ExpiryDays, Request, Consent,   \* see ConsentFlow
  Column, Value, Doc, File, Verification, Tab,           \* see Dossier
  Call, MaxTime, MaxBegun, MaxFailures, None

VARIABLES
  anchors, members, keys, secrets, filed, readWith, portalLog, shown,
  portalCall, disturbed, portalBegun, portalFailures,
  now, requests, consents, audit, grantCall, cron, grantFailures,
  profiles, stored, docs, verifications, credentials, identityLog, form,
  identityCall, edited, crossed, identityBegun, identityFailures

Portal == INSTANCE AnchorPortalProofs
            WITH requests <- filed, reads <- readWith, log <- portalLog,
                 call <- portalCall, begun <- portalBegun,
                 failures <- portalFailures

Identity == INSTANCE DossierProofs
              WITH log <- identityLog, call <- identityCall,
                   begun <- identityBegun, failures <- identityFailures

\* The anchors ConsentFlow takes for approved are those whose status says so.
Consents == INSTANCE ConsentFlowProofs
              WITH approved <- Portal!Good, call <- grantCall,
                   failures <- grantFailures,
                   CredentialScope <- Scope \cap Identity!CredentialScopes

ASSUME PortalAssumption ==
  /\ Portal!AdminAssumption /\ Portal!BoundAssumption
  /\ Portal!NoneAssumption /\ Portal!IdAssumption
ASSUME ConsentAssumption ==
  /\ Consents!OwnerAssumption /\ Consents!ScopeAssumption
  /\ Consents!ExpiryAssumption /\ Consents!BoundAssumption
  /\ Consents!NoneAssumption /\ Consents!LedgerAssumption
ASSUME IdentityAssumption ==
  /\ Identity!BoundAssumption /\ Identity!IdAssumption
  /\ Identity!FileAssumption /\ Identity!NoneAssumption
\* An answer without credentials is not one with none of them.
ASSUME NothingAssumption == \A V \in SUBSET Verification : V # None

portalVars ==
  <<anchors, members, keys, secrets, filed, readWith, portalLog, shown,
    portalCall, disturbed, portalBegun, portalFailures>>
consentVars ==
  <<now, requests, consents, audit, grantCall, cron, grantFailures>>
identityVars ==
  <<profiles, stored, docs, verifications, credentials, identityLog, form,
    identityCall, edited, crossed, identityBegun, identityFailures>>
vars == <<portalVars, consentVars, identityVars>>

Init == Portal!Init /\ Consents!Init /\ Identity!Init

\* No handler runs in slot c.
Vacant(c) ==
  /\ portalCall[c] = Portal!Idle
  /\ Consents!Free(c)
  /\ identityCall[c] = Identity!Idle

----------------------------------------------------------------------------
(* An anchor files a request: AccessRequestsController.create.             *)

\* The anchor of the key handler c came in with.
Caller(c) == keys[portalCall[c].for].anchor

\* The anchor is found approved, or refused.
AskForAccess(c) ==
  /\ Portal!FileStatus(c)
  /\ IF portalCall'[c] = Portal!Idle THEN UNCHANGED consentVars
     ELSE \E S \in SUBSET Scope \ {{}}, d \in ExpiryDays :
            Consents!CreateForAnchor(c, Caller(c), S, d)
  /\ UNCHANGED identityVars

\* The address leads to the profile of its user.
FindSubject(c) ==
  /\ UNCHANGED <<portalVars, identityVars>>
  /\ Consents!CreateFindProfile(c)
  /\ Consents!InFlight(c)'
  /\ profiles[grantCall'[c].profile] # None

\* It leads nowhere, or a statement of the filing fails.
FilingFails(c) ==
  /\ Portal!At(c, "file:insert")
  /\ Portal!Fail(c)
  /\ \/ Consents!CreateFindProfile(c) /\ Consents!Free(c)'
     \/ Consents!Fail(c)
  /\ UNCHANGED identityVars

InsertRequest(c) ==
  /\ Portal!FileInsert(c)
  /\ Consents!CreateInsert(c)
  /\ UNCHANGED identityVars

----------------------------------------------------------------------------
(* An anchor reads: CredentialsController.getForAnchor.                    *)

\* The wallet, its user and the profile in one query.
StartRead(c) ==
  /\ Portal!Read(c)
  /\ \E p \in Profile : /\ Consents!GetScopedDataForAnchor(c, Caller(c), p)
                        /\ Identity!Read(c, p)

\* Mutant: the profile is cut to any scopes, once a consent is found.
CutToAny(c) ==
  /\ UNCHANGED portalVars
  /\ Consents!FindConsents(c)
  /\ Identity!ReadConsents(c)
  /\ Consents!Free(c)' <=> identityCall'[c] = Identity!Idle

\* The profile is cut to the scopes of the consents that are found; without
\* any the read is refused.
CutToGrants(c) ==
  /\ UNCHANGED portalVars
  /\ Consents!FindConsents(c)
  /\ Identity!ReadConsents(c)
  /\ IF Consents!Free(c)' THEN identityCall'[c] = Identity!Idle
     ELSE /\ identityCall'[c] # Identity!Idle
          /\ identityCall'[c].scopes = grantCall'[c].scopes

AddCredentials(c) ==
  /\ UNCHANGED portalVars
  /\ Consents!FindCredentials(c)
  /\ Identity!ReadCredentials(c)

\* The entry is written and the anchor answered.
AnswerRead(c) ==
  /\ UNCHANGED portalVars
  /\ Consents!FetchAudit(c)
  /\ Identity!ReadRecord(c)

Fetching(c) ==
  grantCall[c].step \in {"fetch:consents", "fetch:credentials", "fetch:audit"}

ReadFails(c) ==
  /\ UNCHANGED portalVars
  /\ Fetching(c)
  /\ Consents!Fail(c)
  /\ Identity!Fail(c)

----------------------------------------------------------------------------
(* Everything else is of one part.                                         *)

PortalStep(c) ==
  /\ \/ Vacant(c) /\ Portal!Start(c)
     \/ Portal!DecideUpdate(c)
     \/ Portal!AddFind(c) \/ Portal!AddWrite(c)
     \/ Portal!RemoveFind(c) \/ Portal!RemoveUpdate(c)
     \/ Portal!CreateKeyStatus(c) \/ Portal!CreateKeyInsert(c)
     \/ Portal!RevokeKeyUpdate(c) \/ Portal!GuardTouch(c) \/ Portal!Record(c)
     \/ ~Portal!At(c, "file:insert") /\ Portal!Fail(c)
  /\ UNCHANGED <<consentVars, identityVars>>

ConsentStart(c) ==
  \/ \E u \in User, r \in Request : Consents!Approve(c, u, r) \/ Consents!Deny(c, u, r)
  \/ \E u \in User, k \in Consent : Consents!Revoke(c, u, k)

ConsentStep(c) ==
  /\ UNCHANGED <<portalVars, identityVars>>
  /\ \/ Vacant(c) /\ ConsentStart(c)
     \/ Consents!CreateAudit(c) \/ Consents!ApproveSteps(c)
     \/ Consents!DenySteps(c) \/ Consents!RevokeSteps(c)
     \/ ~Consents!Reserving(c) /\ ~Fetching(c) /\ Consents!Fail(c)

\* The hourly job and the clock.
TimeStep ==
  /\ UNCHANGED <<portalVars, identityVars>>
  /\ \/ Consents!ExpireStale \/ Consents!ExpireAudit \/ Consents!ExpireFail
     \/ Consents!Tick

IdentityStart(c) ==
  \/ \E t \in Tab, new \in Identity!Values : Identity!Save(c, t, new)
  \/ \E p \in Profile, f \in File : Identity!Upload(c, p, f)
  \/ \E d \in Doc, decision \in {"APPROVED", "REJECTED"} : Identity!Review(c, d, decision)
  \/ \E p \in Profile, status \in Identity!VerificationStatus :
       Identity!Verify(c, p, status)

\* Profile p is the one Owner[p] gets, if that user creates one.
Named == \A p \in Profile : profiles[p] # None => profiles[p].user = Owner[p]

IdentityStep(c) ==
  /\ \/ Vacant(c) /\ IdentityStart(c)
     \/ Identity!SaveInsert(c) /\ Named'
     \/ Identity!SaveUpdate(c) \/ Identity!SaveRecord(c)
     \/ Identity!UploadPut(c) \/ Identity!UploadInsert(c)
     \/ Identity!ReviewUpdate(c)
     \/ Identity!VerifyInsert(c) \/ Identity!IssueCredential(c)
     \/ Identity!Record(c)
     \/ ~Fetching(c) /\ Identity!Fail(c)
  /\ UNCHANGED <<portalVars, consentVars>>

PageStep ==
  \/ \E p \in Page : Portal!Load(p) /\ UNCHANGED <<consentVars, identityVars>>
  \/ \E t \in Tab, u \in User :
       Identity!Open(t, u) /\ UNCHANGED <<portalVars, consentVars>>

Next ==
  \/ \E c \in Call :
       \/ AskForAccess(c) \/ FindSubject(c) \/ FilingFails(c) \/ InsertRequest(c)
       \/ StartRead(c) \/ CutToGrants(c) \/ AddCredentials(c)
       \/ AnswerRead(c) \/ ReadFails(c)
       \/ PortalStep(c) \/ ConsentStep(c) \/ IdentityStep(c)
  \/ TimeStep
  \/ PageStep

Spec == Init /\ [][Next]_vars

----------------------------------------------------------------------------
(* Properties.                                                             *)

\* The consents read c can rest on: those of this anchor on this profile that
\* were not over when it began.
Standing(c) ==
  Consents!Grants(grantCall[c].anchor, grantCall[c].profile)
    \ grantCall[c].endedAtStart

OpensColumn(k, x) == \E s \in consents[k].scopes : x \in Identity!ColumnsOf(s)
OpensCredentials(k) == consents[k].scopes \cap Identity!CredentialScopes # {}

\* Anchor a came with a key of its own.
FiledItself(a) == \E k \in filed : keys[k].anchor = a
ReadItself(a) == \E k \in readWith : keys[k].anchor = a

\* Nothing in the answer is without a consent, given by whose profile it is
\* for a request of the anchor that reads.
NoMoreThanGranted(c) ==
  LET answer == identityCall[c]
  IN /\ \A x \in DOMAIN answer.values : \E k \in Standing(c) : OpensColumn(k, x)
     /\ answer.credentials # None => \E k \in Standing(c) : OpensCredentials(k)
     /\ \A k \in Standing(c) : /\ consents[k].user = profiles[answer.profile].user
                               /\ FiledItself(consents[k].anchor)

\* A consent that was in force all along opens all it says.
NoLessThanGranted(c) ==
  LET answer == identityCall[c]
  IN \A k \in grantCall[c].liveAtStart : Consents!Live(k) =>
       /\ \A x \in Column : OpensColumn(k, x) => x \in DOMAIN answer.values
       /\ OpensCredentials(k) => answer.credentials # None

\* The answer is the profile as it was at one moment of the read, and
\* credentials that an approved verification of this profile issued.
AsItWas(c) ==
  LET answer == identityCall[c]
  IN /\ answer.profile = grantCall[c].profile
     /\ \E v \in answer.seen : \A x \in DOMAIN answer.values : answer.values[x] = v[x]
     /\ answer.credentials # None =>
          \A v \in answer.credentials :
            verifications[v] = [profile |-> answer.profile, status |-> "APPROVED"]

\* What the platform is for: an anchor that has come in with a key of its own
\* is answered with the user's data as it was during the read, everything that
\* consents in force throughout it open and nothing that no consent standing
\* at its start opens, each given by that user on a request the anchor filed
\* with a key; whatever requests, grants, revocations, expiries, suspensions,
\* edits and verifications ran in between.
AnswersAreGranted ==
  \A c \in Call : Consents!At(c, "fetch:audit") =>
    /\ identityCall[c].step = "read:record"
    /\ ReadItself(grantCall[c].anchor)
    /\ NoMoreThanGranted(c)
    /\ NoLessThanGranted(c)
    /\ AsItWas(c)
=============================================================================
