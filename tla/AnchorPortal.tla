---------------------------- MODULE AnchorPortal ----------------------------
(***************************************************************************)
(* An anchor organization, from its registration to what its keys open:    *)
(* AnchorsService, ApiKeyGuard, the entry of the two routes the guard      *)
(* protects (AccessRequestsService.createForAnchor and the scoped read),   *)
(* and the web pages that send the calls: the platform admins' review list *)
(* and the two panels of an anchor's own page.                             *)
(*                                                                         *)
(* Every statement is atomic and handlers interleave between statements.   *)
(* Rows are never deleted here, so a find by id that only asks whether the *)
(* row is there is one step with what comes before it.  An anchor is named *)
(* by its home domain, the unique column that tells registrations apart.   *)
(***************************************************************************)
EXTENDS Integers, FiniteSets

CONSTANTS
  User,          \* signed-in users
  Admin,         \* the users whose role is ADMIN
  Anchor,        \* home domains
  Key,           \* ids api credentials can get (bounds the table)
  Page,          \* tabs of platform admins that show the review list
  Call,          \* slots for concurrent API calls (bounds concurrency)
  MaxBegun,      \* bound of the calls that begin
  MaxFailures,   \* bound of the number of failing statements
  None           \* no row, no value

ASSUME AdminAssumption == Admin \subseteq User
ASSUME BoundAssumption == MaxBegun \in Nat /\ MaxFailures \in Nat

VARIABLES
  anchors,    \* status of each organization and who approved it
  members,    \* members[<<anchor, user>>]: role of the row of the pair, and deletedAt
  keys,       \* anchor of each api credential, and whether it is revoked
  secrets,    \* the keys whose secret has reached whoever asked for it
  requests,   \* the keys an access request was filed with
  reads,      \* the keys data was read with
  log,        \* the latest audit entry about each anchor, membership and key
  shown,      \* shown[p]: the statuses page p shows
  call,       \* the API calls
  disturbed,  \* history: what overlapping, failed or misinformed calls were about
  begun,      \* calls begun so far
  failures    \* statements that failed so far

vars == <<anchors, members, keys, secrets, requests, reads, log, shown, call,
          disturbed, begun, failures>>

Role   == {"ANCHOR_ADMIN", "ANCHOR_MEMBER"}
Status == {"PENDING", "APPROVED", "REJECTED", "SUSPENDED"}

AnchorRow == [status : Status, approvedBy : User \cup {None}]
MemberRow == [role : Role, deleted : BOOLEAN]
KeyRow    == [anchor : Anchor, revoked : BOOLEAN]

Membership == Anchor \X User
Thing == Anchor \cup Membership \cup Key

\* What an entry says, with the actor where it matters.
Entry == [says : {"REGISTERED", "APPROVED", "REJECTED", "SUSPENDED"}, by : User]
           \cup [says : Role \cup {"REMOVED", "CREATED", "REVOKED"}]

ASSUME NoneAssumption ==
  None \notin User \cup Page \cup Thing \cup AnchorRow \cup MemberRow \cup KeyRow
                \cup Entry \cup Status
ASSUME IdAssumption ==
  Anchor \cap Key = {} /\ (Anchor \cup Key) \cap Membership = {}

Idle == [step |-> "idle"]

\* about is what the call changes; against is history: why the call should be
\* refused, as it began.
Against == SUBSET {"caller", "key", "status"}

StatusCall == [step : {"status:update"}, about : Anchor,
               says : Status \ {"PENDING"},
               by : User, page : Page, against : Against]
MemberCall == [step : {"add:find", "add:update", "add:create"},
               about : Membership, role : Role, against : Against]
RemoveCall == [step : {"remove:find", "remove:update"}, about : Membership,
               against : Against]
CreateCall == [step : {"key:status", "key:insert"}, about : {None},
               for : Anchor, against : Against]
RevokeCall == [step : {"revoke:update"}, about : Key, against : Against]
KeyCall    == [step : {"guard:touch", "file:status", "file:insert", "read"},
               about : {None}, for : Key, route : {"file:status", "read"},
               against : Against]
RecordCall == [step : {"record"}, about : Thing, entry : Entry,
               page : Page \cup {None}, against : Against]

CallState == {Idle} \cup StatusCall \cup MemberCall \cup RemoveCall
               \cup CreateCall \cup RevokeCall \cup KeyCall \cup RecordCall

At(c, step) == call[c].step = step
Answer(c) == call' = [call EXCEPT ![c] = Idle]
Goto(c, step) == call' = [call EXCEPT ![c].step = step]

Exists(a) == anchors[a] # None
Approved(a) == Exists(a) /\ anchors[a].status = "APPROVED"
Live(m) == members[m] # None /\ ~members[m].deleted
Valid(k) == keys[k] # None /\ ~keys[k].revoked

\* assertAnchorAdmin, which platform admins need not pass.
InCharge(a, u) ==
  u \in Admin \/ (Live(<<a, u>>) /\ members[<<a, u>>].role = "ANCHOR_ADMIN")

\* The statements of c end with its audit entry.
ThenRecord(c, about, entry) ==
  call' = [call EXCEPT ![c] =
    [step |-> "record", about |-> about, entry |-> entry, page |-> None,
     against |-> call[c].against]]

\* The page the call comes from shows something else than the table holds.
Outdated(record) ==
  /\ record.step = "status:update"
  /\ shown[record.page][record.about] # anchors[record.about].status

\* A call takes slot c.  Two that are about one thing at once disturb it, and
\* so does one from a page that is out of date.
Begin(c, record) ==
  /\ call[c] = Idle
  /\ begun < MaxBegun
  /\ begun' = begun + 1
  /\ call' = [call EXCEPT ![c] = record]
  /\ disturbed' = IF \/ \E d \in Call : /\ call[d] # Idle
                                         /\ call[d].about = record.about
                                         /\ record.about # None
                     \/ Outdated(record)
                  THEN disturbed \cup {record.about} ELSE disturbed

\* Why a call of u for anchor a, or one with key k, should be refused.
NotInCharge(a, u) ==
  IF u \in Admin \/ members[<<a, u>>] = [role |-> "ANCHOR_ADMIN", deleted |-> FALSE]
  THEN {} ELSE {"caller"}
NotApproved(a) == IF Approved(a) THEN {} ELSE {"status"}
NotValid(k) == IF keys[k].revoked THEN {"key"} ELSE {}

Init ==
  /\ anchors = [a \in Anchor |-> None]
  /\ members = [m \in Membership |-> None]
  /\ keys = [k \in Key |-> None]
  /\ secrets = {}
  /\ requests = {}
  /\ reads = {}
  /\ log = [t \in Thing |-> None]
  /\ shown = [p \in Page |-> [a \in Anchor |-> None]]
  /\ call = [c \in Call |-> Idle]
  /\ disturbed = {}
  /\ begun = 0
  /\ failures = 0

----------------------------------------------------------------------------
(* Registration, and the review list of the platform admins.               *)

\* The organization and its first member in one nested insert, refused if the
\* home domain is taken.
Register(c, u, a) ==
  /\ ~Exists(a)
  /\ Begin(c, [step |-> "record", about |-> a, page |-> None, against |-> {},
               entry |-> [says |-> "REGISTERED", by |-> u]])
  /\ anchors' = [anchors EXCEPT ![a] =
                   [status |-> "PENDING", approvedBy |-> None]]
  /\ members' = [members EXCEPT ![<<a, u>>] =
                   [role |-> "ANCHOR_ADMIN", deleted |-> FALSE]]
  /\ UNCHANGED <<keys, secrets, requests, reads, log, shown, failures>>

Statuses == [a \in Anchor |-> IF Exists(a) THEN anchors[a].status ELSE None]

\* A platform admin opens the list.
Load(p) ==
  /\ shown' = [shown EXCEPT ![p] = Statuses]
  /\ UNCHANGED <<anchors, members, keys, secrets, requests, reads, log, call,
                 disturbed, begun, failures>>

Busy(p) == \E c \in Call : call[c] # Idle /\ "page" \in DOMAIN call[c]
                              /\ call[c].page = p

\* Mutant: the list lets an admin approve whatever is not approved.
OfferedMore(p, a, decision) ==
  /\ ~Busy(p)
  /\ \/ shown[p][a] \in {"PENDING", "REJECTED", "SUSPENDED"} /\ decision = "APPROVED"
     \/ shown[p][a] = "APPROVED" /\ decision = "SUSPENDED"

\* The buttons of the list: pending anchors are approved or rejected, approved
\* ones suspended, and all of them are off while the page waits for an answer.
Offered(p, a, decision) ==
  /\ ~Busy(p)
  /\ \/ shown[p][a] = "PENDING" /\ decision \in {"APPROVED", "REJECTED"}
     \/ shown[p][a] = "APPROVED" /\ decision = "SUSPENDED"

\* review and suspend: the anchor is found.
Decide(c, d, p, a, decision) ==
  /\ Offered(p, a, decision)
  /\ Begin(c, [step |-> "status:update", about |-> a, says |-> decision,
               by |-> d, page |-> p, against |-> {}])
  /\ UNCHANGED <<anchors, members, keys, secrets, requests, reads, log, shown,
                 failures>>

\* Call d is for anchor a, or uses a key of a.
Concerns(d, a) ==
  /\ "for" \in DOMAIN call[d]
  /\ call[d].for \in {a} \cup {k \in Key : keys[k] # None /\ keys[k].anchor = a}

\* A suspension leaves the approval's columns, a review writes them.
DecideUpdate(c) ==
  /\ At(c, "status:update")
  /\ LET a == call[c].about
         says == call[c].says
         entry == [says |-> says, by |-> call[c].by]
     IN /\ anchors' = [anchors EXCEPT ![a] =
             [status |-> says,
              approvedBy |-> CASE says = "APPROVED"  -> call[c].by
                               [] says = "REJECTED"  -> None
                               [] says = "SUSPENDED" -> @.approvedBy]]
        /\ call' = [d \in Call |->
             IF d = c THEN [step |-> "record", about |-> a, entry |-> entry,
                            page |-> call[c].page, against |-> {}]
             ELSE IF says = "APPROVED" /\ Concerns(d, a)
                  THEN [call[d] EXCEPT !.against = @ \ {"status"}]
             ELSE call[d]]
  /\ UNCHANGED <<members, keys, secrets, requests, reads, log, shown,
                 disturbed, begun, failures>>

----------------------------------------------------------------------------
(* The members of an anchor.                                               *)

AddMember(c, by, a, u, role) ==
  /\ InCharge(a, by)
  /\ Exists(a)
  /\ Begin(c, [step |-> "add:find", about |-> <<a, u>>, role |-> role,
               against |-> NotInCharge(a, by)])
  /\ UNCHANGED <<anchors, members, keys, secrets, requests, reads, log, shown,
                 failures>>

\* Mutant: a member that is there is given the new role.
AddFindAny(c) ==
  /\ At(c, "add:find")
  /\ Goto(c, IF members[call[c].about] = None THEN "add:create" ELSE "add:update")
  /\ UNCHANGED <<anchors, members, keys, secrets, requests, reads, log, shown,
                 disturbed, begun, failures>>

\* The row of the pair, if there is one: a live member is a conflict.
AddFind(c) ==
  /\ At(c, "add:find")
  /\ IF Live(call[c].about) THEN Answer(c)
     ELSE Goto(c, IF members[call[c].about] = None
                  THEN "add:create" ELSE "add:update")
  /\ UNCHANGED <<anchors, members, keys, secrets, requests, reads, log, shown,
                 disturbed, begun, failures>>

\* Mutant: a row that is brought back keeps its role.
AddKeepsRole(c) ==
  /\ At(c, "add:update") \/ At(c, "add:create")
  /\ members' = [members EXCEPT ![call[c].about] =
       [role |-> IF @ = None THEN call[c].role ELSE @.role, deleted |-> FALSE]]
  /\ ThenRecord(c, call[c].about, [says |-> call[c].role])
  /\ UNCHANGED <<anchors, keys, secrets, requests, reads, log, shown,
                 disturbed, begun, failures>>

\* The row is brought back or made; a row that was made in the meantime is a
\* violation of the unique index.
AddWrite(c) ==
  /\ At(c, "add:update") \/ At(c, "add:create")
  /\ IF At(c, "add:create") /\ members[call[c].about] # None
     THEN Answer(c) /\ UNCHANGED members
     ELSE /\ members' = [members EXCEPT ![call[c].about] =
               [role |-> call[c].role, deleted |-> FALSE]]
          /\ ThenRecord(c, call[c].about, [says |-> call[c].role])
  /\ UNCHANGED <<anchors, keys, secrets, requests, reads, log, shown,
                 disturbed, begun, failures>>

\* Offered for every row a page may show.
RemoveMember(c, by, a, u) ==
  /\ InCharge(a, by)
  /\ members[<<a, u>>] # None
  /\ Begin(c, [step |-> "remove:find", about |-> <<a, u>>,
               against |-> NotInCharge(a, by)])
  /\ UNCHANGED <<anchors, members, keys, secrets, requests, reads, log, shown,
                 failures>>

RemoveFind(c) ==
  /\ At(c, "remove:find")
  /\ IF Live(call[c].about) THEN Goto(c, "remove:update") ELSE Answer(c)
  /\ UNCHANGED <<anchors, members, keys, secrets, requests, reads, log, shown,
                 disturbed, begun, failures>>

RemoveUpdate(c) ==
  /\ At(c, "remove:update")
  /\ members' = [members EXCEPT ![call[c].about].deleted = TRUE]
  /\ ThenRecord(c, call[c].about, [says |-> "REMOVED"])
  /\ UNCHANGED <<anchors, keys, secrets, requests, reads, log, shown,
                 disturbed, begun, failures>>

----------------------------------------------------------------------------
(* The keys of an anchor, and what they open.                              *)

CreateKey(c, by, a) ==
  /\ InCharge(a, by)
  /\ Exists(a)
  /\ Begin(c, [step |-> "key:status", about |-> None, for |-> a,
               against |-> NotInCharge(a, by) \cup NotApproved(a)])
  /\ UNCHANGED <<anchors, members, keys, secrets, requests, reads, log, shown,
                 failures>>

\* Mutant: an anchor nobody has decided about yet is given a key.
CreateKeyUnlessSuspended(c) ==
  /\ At(c, "key:status")
  /\ IF anchors[call[c].for].status # "SUSPENDED" THEN Goto(c, "key:insert")
     ELSE Answer(c)
  /\ UNCHANGED <<anchors, members, keys, secrets, requests, reads, log, shown,
                 disturbed, begun, failures>>

\* Approved, or refused; the secret is hashed before the next statement.
CreateKeyStatus(c) ==
  /\ At(c, "key:status")
  /\ IF Approved(call[c].for) THEN Goto(c, "key:insert") ELSE Answer(c)
  /\ UNCHANGED <<anchors, members, keys, secrets, requests, reads, log, shown,
                 disturbed, begun, failures>>

\* Mutant: the row does not say whose key it is.
KeyOfNobody(c) ==
  /\ At(c, "key:insert")
  /\ \E k \in Key :
       /\ keys[k] = None
       /\ keys' = [keys EXCEPT ![k] = [anchor |-> None, revoked |-> FALSE]]
       /\ ThenRecord(c, k, [says |-> "CREATED"])
  /\ UNCHANGED <<anchors, members, secrets, requests, reads, log, shown,
                 disturbed, begun, failures>>

CreateKeyInsert(c) ==
  /\ At(c, "key:insert")
  /\ \E k \in Key :
       /\ keys[k] = None
       /\ keys' = [keys EXCEPT ![k] = [anchor |-> call[c].for, revoked |-> FALSE]]
       /\ ThenRecord(c, k, [says |-> "CREATED"])
  /\ UNCHANGED <<anchors, members, secrets, requests, reads, log, shown,
                 disturbed, begun, failures>>

\* A key that is revoked already is revoked again.
RevokeKey(c, by, k) ==
  /\ keys[k] # None
  /\ InCharge(keys[k].anchor, by)
  /\ Begin(c, [step |-> "revoke:update", about |-> k,
               against |-> NotInCharge(keys[k].anchor, by)])
  /\ UNCHANGED <<anchors, members, keys, secrets, requests, reads, log, shown,
                 failures>>

RevokeKeyUpdate(c) ==
  /\ At(c, "revoke:update")
  /\ keys' = [keys EXCEPT ![call[c].about].revoked = TRUE]
  /\ ThenRecord(c, call[c].about, [says |-> "REVOKED"])
  /\ UNCHANGED <<anchors, members, secrets, requests, reads, log, shown,
                 disturbed, begun, failures>>

\* Mutant: the guard does not look at revokedAt.
GuardOpen(c, k, route) ==
  /\ k \in secrets
  /\ Begin(c, [step |-> "guard:touch", about |-> None, for |-> k,
               route |-> route, against |-> NotValid(k)])
  /\ UNCHANGED <<anchors, members, keys, secrets, requests, reads, log, shown,
                 failures>>

\* ApiKeyGuard, for somebody who has the secret: the key is found and compared.
\* Of the two routes only the filing of requests asks for the anchor's status.
UseKey(c, k, route) ==
  /\ k \in secrets
  /\ Valid(k)
  /\ Begin(c, [step |-> "guard:touch", about |-> None, for |-> k,
               route |-> route,
               against |-> NotValid(k) \cup (IF route = "file:status"
                                             THEN NotApproved(keys[k].anchor)
                                             ELSE {})])
  /\ UNCHANGED <<anchors, members, keys, secrets, requests, reads, log, shown,
                 failures>>

\* lastUsedAt is written and the handler runs.
GuardTouch(c) ==
  /\ At(c, "guard:touch")
  /\ Goto(c, call[c].route)
  /\ UNCHANGED <<anchors, members, keys, secrets, requests, reads, log, shown,
                 disturbed, begun, failures>>

\* createForAnchor up to its insert.
FileStatus(c) ==
  /\ At(c, "file:status")
  /\ IF Approved(keys[call[c].for].anchor) THEN Goto(c, "file:insert") ELSE Answer(c)
  /\ UNCHANGED <<anchors, members, keys, secrets, requests, reads, log, shown,
                 disturbed, begun, failures>>

\* The request is inserted; what follows is in ConsentFlow.
FileInsert(c) ==
  /\ At(c, "file:insert")
  /\ requests' = requests \cup {call[c].for}
  /\ Answer(c)
  /\ UNCHANGED <<anchors, members, keys, secrets, reads, log, shown, disturbed,
                 begun, failures>>

\* The scoped read, which is in ConsentFlow.
Read(c) ==
  /\ At(c, "read")
  /\ reads' = reads \cup {call[c].for}
  /\ Answer(c)
  /\ UNCHANGED <<anchors, members, keys, secrets, requests, log, shown,
                 disturbed, begun, failures>>

----------------------------------------------------------------------------

\* The entry is written and the call answered: with the secret, if it made a
\* key, and with the page anew, if it came from the review list.
Record(c) ==
  /\ At(c, "record")
  /\ log' = [log EXCEPT ![call[c].about] = call[c].entry]
  /\ secrets' = secrets \cup {k \in Key : /\ k = call[c].about
                                          /\ call[c].entry.says = "CREATED"}
  /\ shown' = [p \in Page |-> IF p = call[c].page THEN Statuses ELSE shown[p]]
  /\ Answer(c)
  /\ UNCHANGED <<anchors, members, keys, requests, reads, disturbed, begun,
                 failures>>

\* The statement a call awaits fails, or a check of a handler this module does
\* not go into refuses it.
Fail(c) ==
  /\ call[c] # Idle
  /\ failures < MaxFailures
  /\ failures' = failures + 1
  /\ disturbed' = disturbed \cup ({call[c].about} \ {None})
  /\ Answer(c)
  /\ UNCHANGED <<anchors, members, keys, secrets, requests, reads, log, shown,
                 begun>>

Start(c) ==
  \/ \E u \in User, a \in Anchor : Register(c, u, a)
  \/ \E d \in Admin, p \in Page, a \in Anchor, decision \in Status :
       Decide(c, d, p, a, decision)
  \/ \E by, u \in User, a \in Anchor, role \in Role : AddMember(c, by, a, u, role)
  \/ \E by, u \in User, a \in Anchor : RemoveMember(c, by, a, u)
  \/ \E by \in User, a \in Anchor : CreateKey(c, by, a)
  \/ \E by \in User, k \in Key : RevokeKey(c, by, k)
  \/ \E k \in Key, route \in {"file:status", "read"} : UseKey(c, k, route)

Continue(c) ==
  \/ DecideUpdate(c)
  \/ AddFind(c) \/ AddWrite(c) \/ RemoveFind(c) \/ RemoveUpdate(c)
  \/ CreateKeyStatus(c) \/ CreateKeyInsert(c) \/ RevokeKeyUpdate(c)
  \/ GuardTouch(c) \/ FileStatus(c) \/ FileInsert(c) \/ Read(c)
  \/ Record(c)

Next ==
  \/ \E p \in Page : Load(p)
  \/ \E c \in Call : Start(c) \/ Continue(c) \/ Fail(c)

Spec == Init /\ [][Next]_vars

----------------------------------------------------------------------------
(* Properties.                                                             *)

\* Tables, pages and calls have the shape the schema and the handlers give.
TypeOK ==
  /\ anchors \in [Anchor -> AnchorRow \cup {None}]
  /\ members \in [Membership -> MemberRow \cup {None}]
  /\ keys \in [Key -> KeyRow \cup {None}]
  /\ secrets \subseteq Key /\ requests \subseteq Key /\ reads \subseteq Key
  /\ log \in [Thing -> Entry \cup {None}]
  /\ shown \in [Page -> [Anchor -> Status \cup {None}]]
  /\ call \in [Call -> CallState]
  /\ disturbed \subseteq Thing
  /\ begun \in 0..MaxBegun /\ failures \in 0..MaxFailures

\* Nothing that was made with a key, and nobody who holds its secret, goes
\* without the entry of the key's creation, whatever failed on the way.
SecretsAreRecorded == \A k \in secrets \cup requests \cup reads : log[k] # None

\* A call that began when its caller was not in charge of the anchor, when its
\* key was revoked, or when its anchor was not approved (and has not been
\* approved since) changes no member and no key, files nothing, reads nothing;
\* the calls a removal, a revocation or a suspension overtakes may go on.
RefusalsHold ==
  [][\A c \in Call :
       /\ call[c] # Idle
       /\ call[c].against # {}
       /\ call'[c] # call[c]
       => UNCHANGED <<members, keys, requests, reads>>]_vars

\* A live member keeps the role it was given until it is removed, unless calls
\* about it overlapped: an addition that found it removed gives it another.
RolesAreKept ==
  [][\A m \in Membership \ disturbed :
       Live(m) /\ members'[m] # members[m]
         => members'[m] = [members[m] EXCEPT !.deleted = TRUE]]_vars

\* What was decided about an anchor is decided: rejected and suspended ones
\* stay so, approved ones can only be suspended.  A page that is out of date,
\* or two decisions at once, can undo it.
DecisionsStand ==
  [][\A a \in Anchor \ disturbed' :
       Exists(a) /\ anchors'[a] # anchors[a]
         => <<anchors[a].status, anchors'[a].status>> \in
              {<<"PENDING", "APPROVED">>, <<"PENDING", "REJECTED">>,
               <<"APPROVED", "SUSPENDED">>}]_vars

Settled(t) ==
  t \notin disturbed /\ \A c \in Call : call[c] = Idle \/ call[c].about # t

\* Where no calls overlapped and none failed, the latest entry about an anchor,
\* a member or a key says what the tables hold: its status and who approved
\* it, its role, whether it is removed or revoked.
LogTells ==
  /\ \A a \in Anchor : Settled(a) /\ Exists(a) =>
       /\ anchors[a].status = IF log[a].says = "REGISTERED" THEN "PENDING"
                              ELSE log[a].says
       /\ Approved(a) => anchors[a].approvedBy = log[a].by
  /\ \A m \in Membership : Settled(m) =>
       CASE log[m] = None -> Live(m) => members[m].role = "ANCHOR_ADMIN"
         [] log[m] = [says |-> "REMOVED"] -> ~Live(m)
         [] OTHER -> Live(m) /\ members[m].role = log[m].says
  /\ \A k \in Key : Settled(k) /\ keys[k] # None =>
       log[k] = [says |-> IF keys[k].revoked THEN "REVOKED" ELSE "CREATED"]
----------------------------------------------------------------------------
(* The authority this implements.                                          *)

Founded == {a \in Anchor : Exists(a)}
Good    == {a \in Anchor : Approved(a)}
Heads   == {m \in Membership : Live(m) /\ members[m].role = "ANCHOR_ADMIN"}
Ring    == {<<k, keys[k].anchor>> : k \in {i \in Key : keys[i] # None}}
Dead    == {k \in Key : keys[k] # None /\ keys[k].revoked}
Noted   == {k \in Key : log[k] # None}

\* What call c may do, by the statement it is at.
Granted(c) ==
  IF call[c].step \in {"add:find", "add:update", "add:create", "remove:find",
                       "remove:update"}
  THEN [do |-> "manage", for |-> call[c].about[1]]
  ELSE IF At(c, "revoke:update")
  THEN [do |-> "manage", for |-> keys[call[c].about].anchor]
  ELSE IF At(c, "key:status")
  THEN [do |-> "manage", for |-> call[c].for]
  ELSE IF At(c, "key:insert")
  THEN [do |-> "issue", for |-> call[c].for]
  ELSE IF At(c, "record") /\ call[c].entry.says = "CREATED"
  THEN [do |-> "hand", for |-> call[c].about]
  ELSE IF call[c].step \in {"guard:touch", "file:status", "read"}
  THEN [do |-> "use", for |-> call[c].for]
  ELSE IF At(c, "file:insert")
  THEN [do |-> "file", for |-> call[c].for]
  ELSE [do |-> "nothing", for |-> None]

May == [c \in Call |-> Granted(c)]

Chain == INSTANCE Authority
           WITH anchors <- Founded, approved <- Good, heads <- Heads, ring <- Ring,
                revoked <- Dead, noted <- Noted, out <- secrets, may <- May,
                filed <- requests

\* Whatever is done for an anchor goes back to somebody who was in charge of
\* it: members and keys change by calls that a head of the anchor or a platform
\* admin began, a key is made after the anchor was found approved, its secret
\* leaves with the entry, and who files or reads with it had that secret while
\* the key was good, and files once the anchor was found approved; each of
\* these in a step of its own, with any other calls in between.
ImplementsAuthority == Chain!Spec
=============================================================================
