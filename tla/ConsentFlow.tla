---------------------------- MODULE ConsentFlow ----------------------------
(***************************************************************************)
(* Access requests, consents and the anchor's read path of the AnchorID    *)
(* API: AccessRequestsService, ConsentsService and                         *)
(* CredentialsService.getScopedDataForAnchor.                              *)
(*                                                                         *)
(* The API is a Node process in front of one Postgres database.  A handler *)
(* runs without interruption between two awaits, every await of a Prisma   *)
(* call is one atomic statement of the database, and no handler here opens *)
(* a transaction; so one action below is one statement together with the   *)
(* code that runs until the next one, and the actions of different calls   *)
(* interleave.  A call is a slot: what its handler has read so far is in   *)
(* call[c], and call[c].step names the statement it awaits.                *)
(*                                                                         *)
(* A refusal at a handler's first statement (404, 403) changes nothing, so *)
(* such a call is left out: the first action of a handler has the checks   *)
(* made on its first read as its guard.                                    *)
(***************************************************************************)
EXTENDS Integers

CONSTANTS
  Anchor,            \* anchor organizations
  User,              \* users
  Profile,           \* identity profiles
  Owner,             \* Owner[p]: the userId column of profile p
  Scope,             \* consent scopes
  CredentialScope,   \* the scopes answered from the credentials table
  ExpiryDays,        \* values of requestedExpiryDays
  Request,           \* ids access_requests rows can get (bounds the table)
  Consent,           \* ids consents rows can get (bounds the table)
  Call,              \* slots for concurrent API calls (bounds concurrency)
  MaxTime,           \* bound of the clock, in days
  MaxFailures,       \* bound of the number of failing statements
  None               \* no row, no value

ASSUME OwnerAssumption  == Owner \in [Profile -> User]
ASSUME ScopeAssumption  == CredentialScope \subseteq Scope
ASSUME ExpiryAssumption == ExpiryDays \subseteq Nat \ {0}
ASSUME BoundAssumption  == MaxTime \in Nat /\ MaxFailures \in Nat

VARIABLES
  now,        \* the clock, in days
  approved,   \* anchors whose status column is APPROVED
  requests,   \* table access_requests
  consents,   \* table consents
  audit,      \* table audit_logs, as the set of its entries
  call,       \* the API calls: what each handler holds and where it is
  cron,       \* "logging" when the hourly job has expired rows and its log
              \* entry is still to be written, "idle" otherwise
  failures    \* statements that failed so far

vars == <<now, approved, requests, consents, audit, call, cron,
          failures>>
tables == <<requests, consents, audit>>
world == <<now, approved, cron, failures>>

----------------------------------------------------------------------------
(* Rows, audit entries and calls.                                          *)

RequestRow == [anchor : Anchor, profile : Profile, scopes : SUBSET Scope,
               days : ExpiryDays, status : {"PENDING", "APPROVED", "DENIED"}]

ConsentRow == [request : Request, user : User, profile : Profile,
               anchor : Anchor, scopes : SUBSET Scope, expiresAt : Nat,
               status : {"ACTIVE", "REVOKED", "EXPIRED"}]

\* No null row is a row.
ASSUME NoneAssumption == /\ None \notin RequestRow
                         /\ None \notin ConsentRow
                         /\ None \notin Profile
                         /\ None \notin Consent

\* An entry keeps the action, the actor and the target; of the metadata it
\* keeps what identifies a disclosure.
AuditEntry ==
  [action : {"ACCESS_REQUEST_CREATED", "ACCESS_REQUEST_APPROVED",
             "ACCESS_REQUEST_DENIED", "CONSENT_GRANTED", "CONSENT_REVOKED",
             "CONSENT_EXPIRED"},
   actor : User \cup {None}, target : Request \cup Consent \cup {None}]
  \cup
  [action : {"CREDENTIAL_ACCESSED"}, target : Profile, anchor : Anchor,
   scopes : SUBSET Scope]

Entry(action, actor, target) ==
  [action |-> action, actor |-> actor, target |-> target]
Accessed(a, p, S) ==
  [action |-> "CREDENTIAL_ACCESSED", target |-> p, anchor |-> a, scopes |-> S]

Idle == [step |-> "idle"]

CreateCall == [step : {"create:wallet", "create:insert", "create:audit"},
               anchor : Anchor, scopes : SUBSET Scope, days : ExpiryDays,
               profile : Profile \cup {None}, request : Request]

ApproveCall == [step : {"approve:update", "approve:grant",
                        "approve:auditGrant", "approve:audit"},
                user : User, request : Request,
                consent : Consent \cup {None}, at : Nat]

DenyCall == [step : {"deny:update", "deny:audit"},
             user : User, request : Request]

RevokeCall == [step : {"revoke:update", "revoke:audit"},
               user : User, consent : Consent]

\* liveAtStart and endedAtStart are history: which of the anchor's grants on
\* the profile were live, and which were over, when the call began.
FetchCall == [step : {"fetch:consents", "fetch:credentials", "fetch:audit"},
              anchor : Anchor, profile : Profile, at : Nat,
              liveAtStart : SUBSET Consent, endedAtStart : SUBSET Consent,
              found : SUBSET Consent, scopes : SUBSET Scope]

\* A call that succeeded, while its caller looks at the answer.
Answered ==
  [step : {"created"}, request : Request]
  \cup [step : {"approved"}, user : User, request : Request,
        consent : Consent \cup {None}]
  \cup [step : {"denied"}, user : User, request : Request]
  \cup [step : {"revoked"}, user : User, consent : Consent]
  \cup [step : {"served"}, anchor : Anchor, profile : Profile,
        scopes : SUBSET Scope]

CallState ==
  {Idle} \cup Answered \cup CreateCall \cup ApproveCall \cup DenyCall
         \cup RevokeCall \cup FetchCall

\* Slot c is free for a new call: nothing in it, or an answered call.
Free(c) == call[c].step \in {"idle", "created", "approved", "denied", "revoked", "served"}
InFlight(c) == ~Free(c)

At(c, step) == call[c].step = step
Goto(c, step) == call' = [call EXCEPT ![c].step = step]
Answer(c, answer) == call' = [call EXCEPT ![c] = answer]
Reject(c) == Answer(c, Idle)

----------------------------------------------------------------------------
(* What a row means at this moment.                                        *)

\* The consents of profile p for anchor a, whatever their status.
Grants(a, p) ==
  {k \in Consent : /\ consents[k] # None
                   /\ consents[k].anchor = a
                   /\ consents[k].profile = p}

\* A grant counts: ACTIVE, and its expiry lies strictly in the future.
Live(k) == /\ consents[k] # None
           /\ consents[k].status = "ACTIVE"
           /\ consents[k].expiresAt > now

\* An id the database has neither given out nor promised to a running insert.
Unused(r) == /\ requests[r] = None
             /\ \A c \in Call : call[c] \in CreateCall => call[c].request # r

Init ==
  /\ now = 0
  /\ approved = {}
  /\ requests = [r \in Request |-> None]
  /\ consents = [k \in Consent |-> None]
  /\ audit = {}
  /\ call = [c \in Call |-> Idle]
  /\ cron = "idle"
  /\ failures = 0

----------------------------------------------------------------------------
(* AccessRequestsService.createForAnchor: the anchor's status is read      *)
(* first, the wallet and its profile next, then the row is inserted.       *)

CreateForAnchor(c, a, S, d) ==
  /\ Free(c)
  /\ a \in approved
  /\ \E r \in Request :
       /\ Unused(r)
       /\ call' = [call EXCEPT ![c] =
            [step |-> "create:wallet", anchor |-> a, scopes |-> S,
             days |-> d, profile |-> None, request |-> r]]
  /\ UNCHANGED <<world, tables>>

\* Mutant: a wallet whose user has no identity profile goes through.
CreateFindWallet(c) ==
  /\ At(c, "create:wallet")
  /\ \E p \in Profile \cup {None} :
       call' = [call EXCEPT ![c].step = "create:insert", ![c].profile = p]
  /\ UNCHANGED <<world, tables>>

\* The address leads to a profile, or the caller gets a 404.
CreateFindProfile(c) ==
  /\ At(c, "create:wallet")
  /\ \/ \E p \in Profile :
          call' = [call EXCEPT ![c].step = "create:insert", ![c].profile = p]
     \/ Reject(c)
  /\ UNCHANGED <<world, tables>>

CreateInsert(c) ==
  /\ At(c, "create:insert")
  /\ requests' = [requests EXCEPT ![call[c].request] =
       [anchor |-> call[c].anchor, profile |-> call[c].profile,
        scopes |-> call[c].scopes, days |-> call[c].days,
        status |-> "PENDING"]]
  /\ Goto(c, "create:audit")
  /\ UNCHANGED <<world, consents, audit>>

CreateAudit(c) ==
  /\ At(c, "create:audit")
  /\ audit' = audit \cup
       {Entry("ACCESS_REQUEST_CREATED", None, call[c].request)}
  /\ Answer(c, [step |-> "created", request |-> call[c].request])
  /\ UNCHANGED <<world, requests, consents>>

----------------------------------------------------------------------------
(* AccessRequestsService.approve and deny, and the grant.                  *)

\* Mutant: the owner of the profile is not compared with the caller.
FindAnyPending(u, r) ==
  /\ requests[r] # None
  /\ requests[r].status = "PENDING"

FindOwnedPending(u, r) ==
  /\ requests[r] # None
  /\ Owner[requests[r].profile] = u
  /\ requests[r].status = "PENDING"

Approve(c, u, r) ==
  /\ Free(c)
  /\ FindOwnedPending(u, r)
  /\ call' = [call EXCEPT ![c] =
       [step |-> "approve:update", user |-> u, request |-> r,
        consent |-> None, at |-> now]]
  /\ UNCHANGED <<world, tables>>

\* Mutant: approve does not await the grant.
ApproveWithoutGrant(c) ==
  /\ At(c, "approve:update")
  /\ requests' = [requests EXCEPT ![call[c].request].status = "APPROVED"]
  /\ Goto(c, "approve:audit")
  /\ UNCHANGED <<world, consents, audit>>

\* The update names the row by its id alone; at is the earliest moment the
\* Date.now() of the grant can be taken.
ApproveUpdate(c) ==
  /\ At(c, "approve:update")
  /\ requests' = [requests EXCEPT ![call[c].request].status = "APPROVED"]
  /\ call' = [call EXCEPT ![c].step = "approve:grant", ![c].at = now]
  /\ UNCHANGED <<world, consents, audit>>

HasGrant(r) == \E k \in Consent : consents[k] # None /\ consents[k].request = r

\* The row a grant inserts, its clock read at t.  The columns it copies from
\* the request are written by no statement after the request's insert.
NewConsent(u, r, t) ==
  [request |-> r, user |-> u, profile |-> requests[r].profile,
   anchor |-> requests[r].anchor, scopes |-> requests[r].scopes,
   expiresAt |-> t + requests[r].days, status |-> "ACTIVE"]

\* Mutant: no unique index on accessRequestId.
GrantAgain(c) ==
  /\ At(c, "approve:grant")
  /\ \E k \in Consent, t \in call[c].at .. now :
       /\ consents[k] = None
       /\ consents' = [consents EXCEPT ![k] =
            NewConsent(call[c].user, call[c].request, t)]
       /\ call' = [call EXCEPT ![c].step = "approve:auditGrant",
                               ![c].consent = k]
  /\ UNCHANGED <<world, requests, audit>>

\* accessRequestId is unique: the insert goes in only if the request has no
\* consent yet.
GrantFromAccessRequest(c) ==
  /\ At(c, "approve:grant")
  /\ ~HasGrant(call[c].request)
  /\ \E k \in Consent, t \in call[c].at .. now :
       /\ consents[k] = None
       /\ consents' = [consents EXCEPT ![k] =
            NewConsent(call[c].user, call[c].request, t)]
       /\ call' = [call EXCEPT ![c].step = "approve:auditGrant",
                               ![c].consent = k]
  /\ UNCHANGED <<world, requests, audit>>

\* Mutant: a conflicting insert is tried again.
RetryGrant(c) == /\ At(c, "approve:grant")
                 /\ HasGrant(call[c].request)
                 /\ UNCHANGED vars

\* The unique violation rejects the promise and approve fails.
GrantConflict(c) ==
  /\ At(c, "approve:grant")
  /\ HasGrant(call[c].request)
  /\ Reject(c)
  /\ UNCHANGED <<world, tables>>

AuditGrant(c) ==
  /\ At(c, "approve:auditGrant")
  /\ audit' = audit \cup
       {Entry("CONSENT_GRANTED", call[c].user, call[c].consent)}
  /\ Goto(c, "approve:audit")
  /\ UNCHANGED <<world, requests, consents>>

ApproveAudit(c) ==
  /\ At(c, "approve:audit")
  /\ audit' = audit \cup
       {Entry("ACCESS_REQUEST_APPROVED", call[c].user, call[c].request)}
  /\ Answer(c, [step |-> "approved", user |-> call[c].user,
                request |-> call[c].request, consent |-> call[c].consent])
  /\ UNCHANGED <<world, requests, consents>>

Deny(c, u, r) ==
  /\ Free(c)
  /\ FindOwnedPending(u, r)
  /\ call' = [call EXCEPT ![c] =
       [step |-> "deny:update", user |-> u, request |-> r]]
  /\ UNCHANGED <<world, tables>>

DenyUpdate(c) ==
  /\ At(c, "deny:update")
  /\ requests' = [requests EXCEPT ![call[c].request].status = "DENIED"]
  /\ Goto(c, "deny:audit")
  /\ UNCHANGED <<world, consents, audit>>

DenyAudit(c) ==
  /\ At(c, "deny:audit")
  /\ audit' = audit \cup
       {Entry("ACCESS_REQUEST_DENIED", call[c].user, call[c].request)}
  /\ Answer(c, [step |-> "denied", user |-> call[c].user,
                request |-> call[c].request])
  /\ UNCHANGED <<world, requests, consents>>

----------------------------------------------------------------------------
(* ConsentsService.revoke and the hourly expireStale job.                  *)

Revoke(c, u, k) ==
  /\ Free(c)
  /\ consents[k] # None
  /\ consents[k].user = u
  /\ consents[k].status = "ACTIVE"
  /\ call' = [call EXCEPT ![c] =
       [step |-> "revoke:update", user |-> u, consent |-> k]]
  /\ UNCHANGED <<world, tables>>

\* Mutant: updateMany where status is ACTIVE, its count not looked at.
RevokeIfActive(c) ==
  /\ At(c, "revoke:update")
  /\ consents' = [consents EXCEPT ![call[c].consent].status =
       IF @ = "ACTIVE" THEN "REVOKED" ELSE @]
  /\ Goto(c, "revoke:audit")
  /\ UNCHANGED <<world, requests, audit>>

RevokeUpdate(c) ==
  /\ At(c, "revoke:update")
  /\ consents' = [consents EXCEPT ![call[c].consent].status = "REVOKED"]
  /\ Goto(c, "revoke:audit")
  /\ UNCHANGED <<world, requests, audit>>

RevokeAudit(c) ==
  /\ At(c, "revoke:audit")
  /\ audit' = audit \cup
       {Entry("CONSENT_REVOKED", call[c].user, call[c].consent)}
  /\ Answer(c, [step |-> "revoked", user |-> call[c].user,
                consent |-> call[c].consent])
  /\ UNCHANGED <<world, requests, consents>>

\* Mutant: the job does not look at the status.
StaleOfAnyStatus(t) == {k \in Consent : /\ consents[k] # None
                                        /\ consents[k].expiresAt < t
                                        /\ consents[k].status # "EXPIRED"}

\* Mutant: where and data of the update name the same status.
StaleAlready(t) == {k \in Consent : /\ consents[k] # None
                                    /\ consents[k].status = "EXPIRED"
                                    /\ consents[k].expiresAt < t}

\* The rows the job's one updateMany takes, its clock read at t.
Stale(t) == {k \in Consent : /\ consents[k] # None
                             /\ consents[k].status = "ACTIVE"
                             /\ consents[k].expiresAt < t}

\* The statement may run some time after its new Date() was taken.  A run
\* that finds no stale row changes nothing and logs nothing.
ExpireStale ==
  /\ cron = "idle"
  /\ \E t \in 0 .. now :
       /\ Stale(t) # {}
       /\ consents' = [k \in Consent |->
            IF k \in Stale(t) THEN [consents[k] EXCEPT !.status = "EXPIRED"]
                              ELSE consents[k]]
  /\ cron' = "logging"
  /\ UNCHANGED <<now, approved, requests, audit, call, failures>>

\* Mutant: the job's entry is not awaited, and lost.
ExpireUnlogged ==
  /\ cron = "logging"
  /\ cron' = "idle"
  /\ UNCHANGED <<now, approved, tables, call, failures>>

ExpireAudit ==
  /\ cron = "logging"
  /\ audit' = audit \cup {Entry("CONSENT_EXPIRED", None, None)}
  /\ cron' = "idle"
  /\ UNCHANGED <<now, approved, requests, consents, call, failures>>

----------------------------------------------------------------------------
(* CredentialsService.getScopedDataForAnchor.                              *)

\* The first statement finds the profile; the address is an input.
GetScopedDataForAnchor(c, a, p) ==
  /\ Free(c)
  /\ call' = [call EXCEPT ![c] =
       [step |-> "fetch:consents", anchor |-> a, profile |-> p, at |-> now,
        liveAtStart |-> {k \in Grants(a, p) : Live(k)},
        endedAtStart |-> {k \in Grants(a, p) : ~Live(k)},
        found |-> {}, scopes |-> {}]]
  /\ UNCHANGED <<world, tables>>

\* Mutant: the query leaves the expiry to the hourly job.
UnsweptGrants(a, p, t) ==
  {k \in Grants(a, p) : consents[k].status = "ACTIVE"}

\* Mutant: the query looks at the expiry only.
UnexpiredGrants(a, p, t) == {k \in Grants(a, p) : consents[k].expiresAt > t}

\* What the query selects, its new Date() taken at t.
ActiveGrants(a, p, t) ==
  {k \in Grants(a, p) : /\ consents[k].status = "ACTIVE"
                        /\ consents[k].expiresAt > t}

ScopesOf(found) == UNION {consents[k].scopes : k \in found}

\* The scopes of all the grants found; none found is a 403.
FindConsents(c) ==
  /\ At(c, "fetch:consents")
  /\ \E t \in call[c].at .. now :
       LET found == ActiveGrants(call[c].anchor, call[c].profile, t)
           scopes == ScopesOf(found)
       IN IF found = {}
          THEN Reject(c)
          ELSE call' = [call EXCEPT ![c] =
                 [@ EXCEPT !.found = found, !.scopes = scopes,
                           !.step = IF scopes \cap CredentialScope = {}
                                    THEN "fetch:audit"
                                    ELSE "fetch:credentials"]]
  /\ UNCHANGED <<world, tables>>

FindCredentials(c) ==
  /\ At(c, "fetch:credentials")
  /\ Goto(c, "fetch:audit")
  /\ UNCHANGED <<world, tables>>

FetchAudit(c) ==
  /\ At(c, "fetch:audit")
  /\ audit' = audit \cup
       {Accessed(call[c].anchor, call[c].profile, call[c].scopes)}
  /\ Answer(c, [step |-> "served", anchor |-> call[c].anchor,
                profile |-> call[c].profile, scopes |-> call[c].scopes])
  /\ UNCHANGED <<world, requests, consents>>

----------------------------------------------------------------------------
(* Failures, the clock and the anchors' status.                            *)

\* The statement a call awaits fails, or the process goes down with the call.
\* A commit whose answer is lost is a statement followed by this.
Fail(c) == /\ InFlight(c)
           /\ failures < MaxFailures
           /\ failures' = failures + 1
           /\ Reject(c)
           /\ UNCHANGED <<now, approved, cron, tables>>

\* The same for the job's log entry.
ExpireFail == /\ cron = "logging"
              /\ failures < MaxFailures
              /\ failures' = failures + 1
              /\ cron' = "idle"
              /\ UNCHANGED <<now, approved, tables, call>>

Tick == /\ now < MaxTime
        /\ now' = now + 1
        /\ UNCHANGED <<approved, tables, call, cron, failures>>

\* The update statement of AnchorsService.review with approve, from any status.
ApproveAnchor(a) == /\ a \notin approved
                    /\ approved' = approved \cup {a}
                    /\ UNCHANGED <<now, tables, call, cron, failures>>

\* The update statement of suspend, and of review without approve.
BlockAnchor(a) == /\ a \in approved
                  /\ approved' = approved \ {a}
                  /\ UNCHANGED <<now, tables, call, cron, failures>>

----------------------------------------------------------------------------

CreateSteps(c) ==
  CreateFindProfile(c) \/ CreateInsert(c) \/ CreateAudit(c)
ApproveSteps(c) ==
  \/ ApproveUpdate(c) \/ GrantFromAccessRequest(c) \/ GrantConflict(c)
  \/ AuditGrant(c) \/ ApproveAudit(c)
DenySteps(c)   == DenyUpdate(c) \/ DenyAudit(c)
RevokeSteps(c) == RevokeUpdate(c) \/ RevokeAudit(c)
FetchSteps(c)  == FindConsents(c) \/ FindCredentials(c) \/ FetchAudit(c)

\* The call's next statement is answered.
Continue(c) == \/ CreateSteps(c) \/ ApproveSteps(c) \/ DenySteps(c)
               \/ RevokeSteps(c) \/ FetchSteps(c)

Start(c) ==
  \/ \E a \in Anchor, S \in SUBSET Scope \ {{}}, d \in ExpiryDays :
       CreateForAnchor(c, a, S, d)
  \/ \E u \in User, r \in Request : Approve(c, u, r) \/ Deny(c, u, r)
  \/ \E u \in User, k \in Consent : Revoke(c, u, k)
  \/ \E a \in Anchor, p \in Profile : GetScopedDataForAnchor(c, a, p)

Next ==
  \/ \E c \in Call : Start(c) \/ Continue(c) \/ Fail(c)
  \/ ExpireStale \/ ExpireAudit \/ ExpireFail
  \/ \E a \in Anchor : ApproveAnchor(a) \/ BlockAnchor(a)
  \/ Tick

Spec == Init /\ [][Next]_vars

\* The database answers every statement it is sent, or the call fails, and
\* the scheduler keeps firing.  Nobody owes the system a new call.
Fairness == /\ \A c \in Call : WF_vars(Continue(c))
            /\ WF_vars(ExpireStale)
            /\ WF_vars(ExpireAudit)

FairSpec == Spec /\ Fairness

----------------------------------------------------------------------------
(* Properties.                                                             *)

\* Every table, call and log entry has the shape the schema and the handlers
\* give it, and a call holds what its step needs.
TypeOK ==
  /\ now \in Nat
  /\ approved \subseteq Anchor
  /\ requests \in [Request -> RequestRow \cup {None}]
  /\ consents \in [Consent -> ConsentRow \cup {None}]
  /\ audit \subseteq AuditEntry
  /\ call \in [Call -> CallState]
  /\ \A c \in Call :
       /\ At(c, "create:insert") => call[c].profile # None
       /\ At(c, "approve:auditGrant") => call[c].consent # None
  /\ cron \in {"idle", "logging"}
  /\ failures \in Nat

\* An id promised to a running insert is free, and promised once.
Reserving(c) == call[c].step \in {"create:wallet", "create:insert"}

Reserved ==
  \A c \in Call : Reserving(c) =>
    /\ requests[call[c].request] = None
    /\ \A d \in Call \ {c} : Reserving(d) => call[d].request # call[c].request

\* A call in progress still rests on what it has read: the rows it is about
\* to write are there, and their owner is the caller.
Grounded(c) ==
  /\ call[c].step \in {"approve:update", "approve:grant", "deny:update"} =>
       /\ requests[call[c].request] # None
       /\ Owner[requests[call[c].request].profile] = call[c].user
  /\ call[c].step = "approve:grant" =>
       requests[call[c].request].status # "PENDING"
  /\ call[c].step = "revoke:update" =>
       /\ consents[call[c].consent] # None
       /\ consents[call[c].consent].user = call[c].user

\* What a read remembers of its start stays true: the grants that were over
\* are there and are still over, its clock does not run ahead, and it has
\* found nothing before it looks.
Remembers(c) ==
  call[c] \in FetchCall =>
    /\ call[c].at <= now
    /\ call[c].step = "fetch:consents" => call[c].found = {}
    /\ call[c].liveAtStart \subseteq Grants(call[c].anchor, call[c].profile)
    /\ call[c].endedAtStart \subseteq Grants(call[c].anchor, call[c].profile)
    /\ \A k \in call[c].endedAtStart :
         \/ consents[k].status # "ACTIVE"
         \/ consents[k].expiresAt <= call[c].at

\* An access request ends up with at most one consent, however many approvals
\* of it were running at once (double click, two tabs, approve against deny).
OneGrantPerRequest ==
  \A j, k \in Consent :
    /\ consents[j] # None
    /\ consents[k] # None
    /\ consents[j].request = consents[k].request
    => j = k

\* A consent is what its request asked for and what the profile's owner
\* granted: same anchor, profile and scopes, the owner as its user, and a
\* request that somebody has resolved.
GrantMatchesRequest ==
  \A k \in Consent : consents[k] # None =>
    LET g == consents[k]
        r == requests[g.request]
    IN /\ r # None
       /\ r.status # "PENDING"
       /\ g.anchor = r.anchor
       /\ g.profile = r.profile
       /\ g.scopes = r.scopes
       /\ g.user = Owner[r.profile]

\* A read past its consent check, on its way to answering call[c].scopes.
Disclosing(c) == call[c].step \in {"fetch:credentials", "fetch:audit"}

\* Every scope the read is about to answer is in a consent of that anchor on
\* that profile which was not over already when the read began.
WithinGrants(c) ==
  Disclosing(c) =>
    \A s \in call[c].scopes :
      \E k \in Grants(call[c].anchor, call[c].profile) \ call[c].endedAtStart :
        s \in consents[k].scopes

\* Revoking cuts the anchor off at once, and so does expiry.
ServedWithinGrants == \A c \in Call : WithinGrants(c)

\* A grant that was live when the read began and still is has all its scopes
\* in the answer.
UnionOfGrants(c) ==
  Disclosing(c) =>
    \A k \in call[c].liveAtStart : Live(k) =>
      consents[k].scopes \subseteq call[c].scopes

\* The anchor sees the union of its grants, not whichever was found first.
ServedIsUnion == \A c \in Call : UnionOfGrants(c)

\* The inductive invariant behind the safety properties above.
CallInv(c) ==
  Grounded(c) /\ Remembers(c) /\ WithinGrants(c) /\ UnionOfGrants(c)

Inv == /\ TypeOK
       /\ Reserved
       /\ OneGrantPerRequest
       /\ GrantMatchesRequest
       /\ \A c \in Call : CallInv(c)

\* What a successful answer means: the call's effect is in the tables, its
\* grant too, and its entry is in the log before the caller can see it.
AcknowledgedIsRecorded ==
  \A c \in Call :
    /\ At(c, "created") =>
         /\ requests[call[c].request] # None
         /\ Entry("ACCESS_REQUEST_CREATED", None, call[c].request) \in audit
    /\ At(c, "approved") =>
         /\ HasGrant(call[c].request)
         /\ Entry("CONSENT_GRANTED", call[c].user, call[c].consent) \in audit
         /\ Entry("ACCESS_REQUEST_APPROVED", call[c].user, call[c].request)
              \in audit
    /\ At(c, "denied") =>
         Entry("ACCESS_REQUEST_DENIED", call[c].user, call[c].request) \in audit
    /\ At(c, "revoked") =>
         /\ ~Live(call[c].consent)
         /\ Entry("CONSENT_REVOKED", call[c].user, call[c].consent) \in audit
    /\ At(c, "served") =>
         Accessed(call[c].anchor, call[c].profile, call[c].scopes) \in audit

\* The log never tells of something that did not happen: whoever is named as
\* granting, approving, denying or revoking did so, whatever failed around it.
AuditIsTrue ==
  /\ \A u \in User, k \in Consent :
       /\ Entry("CONSENT_GRANTED", u, k) \in audit =>
            consents[k] # None /\ consents[k].user = u
       /\ Entry("CONSENT_REVOKED", u, k) \in audit =>
            /\ consents[k] # None
            /\ consents[k].user = u
            /\ consents[k].status = "REVOKED"
  /\ \A u \in User, r \in Request :
       /\ Entry("ACCESS_REQUEST_APPROVED", u, r) \in audit =>
            /\ HasGrant(r)
            /\ Owner[requests[r].profile] = u
       /\ Entry("ACCESS_REQUEST_DENIED", u, r) \in audit =>
            /\ requests[r] # None
            /\ requests[r].status # "PENDING"
            /\ Owner[requests[r].profile] = u
  /\ \A a \in Anchor, p \in Profile, S \in SUBSET Scope :
       Accessed(a, p, S) \in audit =>
         \A s \in S : \E k \in Grants(a, p) : s \in consents[k].scopes

\* Some call is at one of these steps for request r, or for consent k.
Resolving(steps, r) == \E c \in Call : call[c].step \in steps /\ call[c].request = r
Handling(steps, k) == \E c \in Call : call[c].step \in steps /\ call[c].consent = k

FilingTold(r) ==
  \/ Entry("ACCESS_REQUEST_CREATED", None, r) \in audit
  \/ Resolving({"create:audit"}, r)

DenialTold(r) ==
  requests[r].status = "DENIED" =>
    \/ Entry("ACCESS_REQUEST_DENIED", Owner[requests[r].profile], r) \in audit
    \/ Resolving({"deny:audit"}, r)

ApprovalTaken(r) ==
  requests[r].status = "APPROVED" =>
    HasGrant(r) \/ Resolving({"approve:grant"}, r)

GrantTold(k) ==
  /\ \/ Entry("CONSENT_GRANTED", consents[k].user, k) \in audit
     \/ Handling({"approve:auditGrant"}, k)
  /\ \/ Entry("ACCESS_REQUEST_APPROVED", consents[k].user, consents[k].request)
           \in audit
     \/ Handling({"approve:auditGrant", "approve:audit"}, k)

EndTold(k) ==
  /\ consents[k].status = "REVOKED" =>
       \/ Entry("CONSENT_REVOKED", consents[k].user, k) \in audit
       \/ Handling({"revoke:audit"}, k)
  /\ consents[k].status = "EXPIRED" =>
       Entry("CONSENT_EXPIRED", None, None) \in audit \/ cron = "logging"

\* The converse of AuditIsTrue, as long as no statement has failed: whatever
\* the tables say was filed, granted, denied, revoked or expired, the log says
\* too, or the call or the job that did it is about to, and an approval is
\* followed by its grant, however the calls and the job overlapped.  A failing
\* statement is all that can break it: nothing repairs the log afterwards.
EffectsAreTold ==
  failures = 0 =>
    /\ \A r \in Request : requests[r] # None =>
         FilingTold(r) /\ DenialTold(r) /\ ApprovalTaken(r)
    /\ \A k \in Consent : consents[k] # None => GrantTold(k) /\ EndTold(k)

\* A consent only ends: its row is never removed or rewritten, a revoked one
\* stays revoked, nothing becomes ACTIVE again, and only the job writes
\* EXPIRED, on an ACTIVE row whose time is over.
ConsentsOnlyEnd ==
  [][\A k \in Consent : consents[k] # None =>
       /\ consents'[k] # None
       /\ consents'[k] = [consents[k] EXCEPT !.status = consents'[k].status]
       /\ consents'[k].status # consents[k].status =>
            \/ consents'[k].status = "REVOKED"
            \/ /\ consents'[k].status = "EXPIRED"
               /\ consents[k].status = "ACTIVE"
               /\ consents[k].expiresAt < now]_vars

\* An ACTIVE consent whose time is over.
Overdue(k) == /\ consents[k] # None
              /\ consents[k].status = "ACTIVE"
              /\ consents[k].expiresAt < now

\* Every consent whose time is over is expired by the job, or revoked.
OverdueIsSwept == \A k \in Consent : Overdue(k) ~> ~Overdue(k)

\* No call waits for another for ever: each one is answered.
EveryCallReturns == \A c \in Call : InFlight(c) ~> Free(c)

----------------------------------------------------------------------------
(* The ledger this implements: a consent is a grant on the account its     *)
(* anchor and profile make, over as soon as it stops being live.           *)

AccountOf == [k \in Consent |->
                IF consents[k] = None THEN None
                ELSE <<consents[k].anchor, consents[k].profile>>]

Over == {k \in Consent : consents[k] # None /\ ~Live(k)}

Reading == [c \in Call |->
              IF call[c] \notin FetchCall THEN None
              ELSE [account  |-> <<call[c].anchor, call[c].profile>>,
                    barred   |-> call[c].endedAtStart,
                    owed     |-> call[c].liveAtStart,
                    selected |-> call[c].found]]

\* No account and no reader is a null.
ASSUME LedgerAssumption ==
  /\ None \notin Anchor \X Profile
  /\ None \notin [account : Anchor \X Profile, barred : SUBSET Consent,
                 owed : SUBSET Consent, selected : SUBSET Consent]

Ledger == INSTANCE ConsentLedger WITH
  Account <- Anchor \X Profile,
  Grant   <- Consent,
  Reader  <- Call,
  account <- AccountOf,
  over    <- Over,
  reader  <- Reading

\* The consent subsystem keeps the promises of the ledger: an anchor's read
\* uses no grant that was over when it began and misses none that was in
\* force throughout, and what is over stays over.
ImplementsLedger == Ledger!Spec

----------------------------------------------------------------------------
(* What the code or its documentation says, and these handlers do not do.  *)

\* access-requests.service.ts:118, "Only a pending access request can be
\* resolved": a request that was denied is not approved as well.
DeniedHasNoGrant ==
  \A k \in Consent : consents[k] # None =>
    requests[consents[k].request].status # "DENIED"

\* README.md:190, "The user approves the request, creating a time-boxed
\* Consent grant": an approved request nobody is still approving has one.
ApprovedHasGrant ==
  \A r \in Request :
    /\ requests[r] # None
    /\ requests[r].status = "APPROVED"
    /\ \A c \in Call : InFlight(c) /\ call[c] \in ApproveCall => call[c].request # r
    => HasGrant(r)
=============================================================================
