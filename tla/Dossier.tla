------------------------------ MODULE Dossier ------------------------------
(***************************************************************************)
(* What is known of a user: the identity profile, its documents, the       *)
(* verifications an admin makes of it and the credentials these issue, and *)
(* what an anchor reads of all that: IdentityProfilesService,              *)
(* DocumentsService with the pipe that checks its files,                   *)
(* VerificationsService, CredentialsService, and the pages that edit a     *)
(* profile and upload a document.                                          *)
(*                                                                         *)
(* Every statement and every call of the storage is atomic and handlers    *)
(* interleave between them.  Which scopes are granted is ConsentFlow's     *)
(* matter: here a read finds any.  Expiry dates of verifications and       *)
(* credentials are written by the code and read by none of it; they are    *)
(* left out.                                                               *)
(***************************************************************************)
EXTENDS Integers, FiniteSets

CONSTANTS
  User,          \* signed-in users
  Profile,       \* ids identity_profiles rows can get (bounds the table)
  Column,        \* columns of a profile that somebody fills in
  Value,         \* what can be filled in
  Doc,           \* ids documents rows can get (bounds the table)
  File,          \* files somebody may try to upload
  Verification,  \* ids verifications rows can get (bounds the table)
  Scope,         \* scopes a consent can hold
  Tab,           \* browser tabs with the identity page
  Call,          \* slots for concurrent API calls (bounds concurrency)
  MaxBegun,      \* bound of the calls that begin
  MaxFailures,   \* bound of the number of failing statements
  None           \* no row, no value

ASSUME BoundAssumption == MaxBegun \in Nat /\ MaxFailures \in Nat
ASSUME IdAssumption == User \cap (Profile \cup Doc) = {} /\ Profile \cap Doc = {}

VARIABLES
  profiles,       \* table identity_profiles
  stored,         \* stored[d]: the object under the key of document d
  docs,           \* table documents
  verifications,  \* table verifications
  credentials,    \* the credential issued for each verification
  log,            \* the latest audit entry about each profile and document
  form,           \* form[t]: what tab t shows and sends
  call,           \* the API calls
  edited,         \* history: edited[u]: what u last saved, and was told so
  crossed,        \* history: users and documents whose calls overlapped, failed
                  \*          or came from a page that is out of date
  begun,          \* calls begun so far
  failures        \* statements that failed so far

vars == <<profiles, stored, docs, verifications, credentials, log, form, call,
          edited, crossed, begun, failures>>

Values == [Column -> Value]

VerificationStatus == {"PENDING", "IN_REVIEW", "APPROVED", "REJECTED", "EXPIRED"}

ProfileRow      == [user : User, values : Values]
DocRow          == [profile : Profile, file : File,
                    status : {"PENDING", "APPROVED", "REJECTED"}]
VerificationRow == [profile : Profile, status : VerificationStatus]
CredentialRow   == [profile : Profile, verification : Verification]
Form            == [user : User, existing : BOOLEAN, values : Values \cup {None}]

----------------------------------------------------------------------------
(* Files.                                                                  *)

ALLOWED_DOCUMENT_MIME_TYPES == {"image/jpeg", "image/png", "application/pdf"}

\* A file: its declared type, the type its first bytes are those of, if any,
\* and whether it has more than 10 MB.
AnyFile == [mimetype : ALLOWED_DOCUMENT_MIME_TYPES \cup {"image/gif"},
            begins : ALLOWED_DOCUMENT_MIME_TYPES \cup {"other"},
            large : BOOLEAN]

ASSUME FileAssumption == File \subseteq AnyFile

isAllowedMimeType(mimetype) == mimetype \in ALLOWED_DOCUMENT_MIME_TYPES

\* A type without known first bytes matches nothing.
matchesMagicBytes(f) ==
  f.mimetype \in ALLOWED_DOCUMENT_MIME_TYPES /\ f.begins = f.mimetype

\* The pipe in front of the handler.
Accepted(f) ==
  ~f.large /\ isAllowedMimeType(f.mimetype) /\ matchesMagicBytes(f)

----------------------------------------------------------------------------
(* What a scope discloses.                                                 *)

\* SCOPE_FIELD_MAP, and the columns the switch below it copies.
ColumnsOf(scope) ==
  CASE scope = "profile.name"          -> {"firstName", "lastName"}
    [] scope = "profile.dob"           -> {"dateOfBirth"}
    [] scope = "profile.nationality"   -> {"nationality"}
    [] scope = "profile.address"       -> {"address"}
    [] scope = "profile.email"         -> {"email"}
    [] scope = "profile.phone"         -> {"phoneNumber"}
    [] scope = "profile.government_id" -> {"governmentIdType", "governmentIdNumber"}
    [] OTHER                           -> {}

CredentialScopes == {"verification.status", "credential.kyc_level"}

\* Mutant: every column, whatever is granted.
AllOf(values, scopes) == values

Disclosed(values, scopes) ==
  [x \in Column \cap UNION {ColumnsOf(s) : s \in scopes} |-> values[x]]

Partial == UNION {[X -> Value] : X \in SUBSET Column}

----------------------------------------------------------------------------

Thing == Profile \cup Doc

Says == {"IDENTITY_CREATED", "IDENTITY_UPDATED", "VERIFICATION_UPDATED",
         "CREDENTIAL_ACCESSED", "DOCUMENT_UPLOADED", "APPROVED", "REJECTED"}

Idle == [step |-> "idle"]

\* who is what the call is about before it has a row; seen is history: every
\* state of the profile a read has overlapped with.
SaveCall   == [step : {"save:insert", "save:update"}, who : User, tab : Tab,
               values : Values, changed : SUBSET Column]
SavedCall  == [step : {"save:record"}, who : User, tab : Tab, values : Values,
               changed : SUBSET Column, profile : Profile, says : Says]
UploadCall == [step : {"upload:put"}, profile : Profile, file : File]
PutCall    == [step : {"upload:insert"}, who : Doc, profile : Profile, file : File]
ReviewCall == [step : {"review:update"}, who : Doc, says : {"APPROVED", "REJECTED"}]
VerifyCall == [step : {"verify:insert"}, profile : Profile,
               status : VerificationStatus]
IssueCall  == [step : {"verify:credential"}, profile : Profile,
               verification : Verification]
RecordCall == [step : {"record"}, who : Thing, says : Says]
ReadCall   == [step : {"read:consents", "read:credentials", "read:record"},
               profile : Profile, values : Values \cup Partial,
               scopes : SUBSET Scope,
               credentials : {None} \cup SUBSET Verification,
               seen : SUBSET Values]

CallState == {Idle} \cup SaveCall \cup SavedCall \cup UploadCall \cup PutCall
               \cup ReviewCall \cup VerifyCall \cup IssueCall \cup RecordCall
               \cup ReadCall

ASSUME NoneAssumption ==
  None \notin User \cup Thing \cup Values \cup ProfileRow \cup DocRow \cup File
             \cup VerificationRow \cup CredentialRow \cup Says \cup Form

At(c, step) == call[c].step = step
Answer(c) == call' = [call EXCEPT ![c] = Idle]
ThenRecord(c, t, says) ==
  call' = [call EXCEPT ![c] = [step |-> "record", who |-> t, says |-> says]]

ProfilesOf(u) == {p \in Profile : profiles[p] # None /\ profiles[p].user = u}

\* A call takes slot c.  Two about one user or document at once cross, and so
\* do those that are late.
Begin(c, record, late) ==
  /\ call[c] = Idle
  /\ begun < MaxBegun
  /\ begun' = begun + 1
  /\ call' = [call EXCEPT ![c] = record]
  /\ crossed' = crossed \cup
       {w \in User \cup Doc :
          /\ "who" \in DOMAIN record /\ w = record.who
          /\ late \/ \E d \in Call : "who" \in DOMAIN call[d] /\ call[d].who = w}

Init ==
  /\ profiles = [p \in Profile |-> None]
  /\ stored = [d \in Doc |-> None]
  /\ docs = [d \in Doc |-> None]
  /\ verifications = [v \in Verification |-> None]
  /\ credentials = [v \in Verification |-> None]
  /\ log = [t \in Thing |-> None]
  /\ form = [t \in Tab |-> None]
  /\ call = [c \in Call |-> Idle]
  /\ edited = [u \in User |-> None]
  /\ crossed = {}
  /\ begun = 0
  /\ failures = 0

----------------------------------------------------------------------------
(* The identity page and the profile.                                      *)

Waiting(t) == \E c \in Call : "tab" \in DOMAIN call[c] /\ call[c].tab = t

Shown(u) ==
  IF ProfilesOf(u) = {} THEN None
  ELSE profiles[CHOOSE p \in ProfilesOf(u) : TRUE].values

\* The page is loaded, with the profile or with an empty form.  (A tab that is
\* left while it waits is a tab of its own.)
Open(t, u) ==
  /\ ~Waiting(t)
  /\ form' = [form EXCEPT ![t] = [user |-> u, existing |-> Shown(u) # None,
                                  values |-> Shown(u)]]
  /\ UNCHANGED <<profiles, stored, docs, verifications, credentials, log, call,
                 edited, crossed, begun, failures>>

Changed(old, new) == {x \in Column : old = None \/ old[x] # new[x]}

\* The profile is not what the form of tab t started from.
Outdated(t) ==
  \E p \in ProfilesOf(form[t].user) : profiles[p].values # form[t].values

\* saveProfile sends the whole form, to create the profile if there was none
\* when the page was loaded; find either way.
Save(c, t, new) ==
  /\ form[t] # None
  /\ ~Waiting(t)
  /\ form[t].existing <=> ProfilesOf(form[t].user) # {}
  /\ Begin(c, [step |-> IF form[t].existing THEN "save:update" ELSE "save:insert",
               who |-> form[t].user, tab |-> t, values |-> new,
               changed |-> Changed(form[t].values, new)], Outdated(t))
  /\ form' = [form EXCEPT ![t].values = new]
  /\ UNCHANGED <<profiles, stored, docs, verifications, credentials, log, edited,
                 failures>>

Saved(c, p, says) ==
  call' = [d \in Call |->
    IF d = c THEN [step |-> "save:record", who |-> call[c].who,
                   tab |-> call[c].tab, values |-> call[c].values,
                   changed |-> call[c].changed, profile |-> p, says |-> says]
    ELSE IF "seen" \in DOMAIN call[d] /\ call[d].profile = p
    THEN [call[d] EXCEPT !.seen = @ \cup {call[c].values}]
    ELSE call[d]]

\* Mutant: no unique index on userId.
InsertAnyway(c) ==
  /\ At(c, "save:insert")
  /\ \E p \in Profile :
       /\ profiles[p] = None
       /\ profiles' = [profiles EXCEPT ![p] =
            [user |-> call[c].who, values |-> call[c].values]]
       /\ Saved(c, p, "IDENTITY_CREATED")
  /\ UNCHANGED <<stored, docs, verifications, credentials, log, form, edited,
                 crossed, begun, failures>>

\* create: inserted, or a violation of the unique index on userId.
SaveInsert(c) ==
  /\ At(c, "save:insert")
  /\ IF ProfilesOf(call[c].who) # {} THEN Answer(c) /\ UNCHANGED profiles
     ELSE \E p \in Profile :
       /\ profiles[p] = None
       /\ profiles' = [profiles EXCEPT ![p] =
            [user |-> call[c].who, values |-> call[c].values]]
       /\ Saved(c, p, "IDENTITY_CREATED")
  /\ UNCHANGED <<stored, docs, verifications, credentials, log, form, edited,
                 crossed, begun, failures>>

\* update: every column the form sends.
SaveUpdate(c) ==
  /\ At(c, "save:update")
  /\ \E p \in ProfilesOf(call[c].who) :
       /\ profiles' = [profiles EXCEPT ![p].values = call[c].values]
       /\ Saved(c, p, "IDENTITY_UPDATED")
  /\ UNCHANGED <<stored, docs, verifications, credentials, log, form, edited,
                 crossed, begun, failures>>

\* The entry is written, the user told, and the page loaded anew: the next save
\* of this form is an update.
SaveRecord(c) ==
  /\ At(c, "save:record")
  /\ LET u == call[c].who
     IN /\ log' = [log EXCEPT ![call[c].profile] = call[c].says]
        /\ edited' = [edited EXCEPT ![u] =
             [x \in Column |-> IF @ = None \/ x \in call[c].changed
                               THEN call[c].values[x] ELSE @[x]]]
        /\ form' = [form EXCEPT ![call[c].tab].existing = TRUE]
  /\ Answer(c)
  /\ UNCHANGED <<profiles, stored, docs, verifications, credentials, crossed,
                 begun, failures>>

----------------------------------------------------------------------------
(* Documents.                                                              *)

\* The file is accepted and the profile found.
Upload(c, p, f) ==
  /\ profiles[p] # None
  /\ Accepted(f)
  /\ Begin(c, [step |-> "upload:put", profile |-> p, file |-> f], FALSE)
  /\ UNCHANGED <<profiles, stored, docs, verifications, credentials, log, form,
                 edited, failures>>

\* Mutant: the row first.
RowFirst(c) ==
  /\ At(c, "upload:put")
  /\ \E d \in Doc :
       /\ docs[d] = None
       /\ docs' = [docs EXCEPT ![d] =
            [profile |-> call[c].profile, file |-> call[c].file,
             status |-> "PENDING"]]
       /\ ThenRecord(c, d, "DOCUMENT_UPLOADED")
  /\ UNCHANGED <<profiles, stored, verifications, credentials, log, form, edited,
                 crossed, begun, failures>>

\* The file goes to the storage, under a fresh id.
UploadPut(c) ==
  /\ At(c, "upload:put")
  /\ \E d \in Doc :
       /\ stored[d] = None
       /\ stored' = [stored EXCEPT ![d] = call[c].file]
       /\ call' = [call EXCEPT ![c] =
            [step |-> "upload:insert", who |-> d, profile |-> call[c].profile,
             file |-> call[c].file]]
  /\ UNCHANGED <<profiles, docs, verifications, credentials, log, form, edited,
                 crossed, begun, failures>>

UploadInsert(c) ==
  /\ At(c, "upload:insert")
  /\ docs' = [docs EXCEPT ![call[c].who] =
       [profile |-> call[c].profile, file |-> call[c].file, status |-> "PENDING"]]
  /\ ThenRecord(c, call[c].who, "DOCUMENT_UPLOADED")
  /\ UNCHANGED <<profiles, stored, verifications, credentials, log, form, edited,
                 crossed, begun, failures>>

\* The document is found, whatever its status is.
Review(c, d, decision) ==
  /\ docs[d] # None
  /\ Begin(c, [step |-> "review:update", who |-> d, says |-> decision], FALSE)
  /\ UNCHANGED <<profiles, stored, docs, verifications, credentials, log, form,
                 edited, failures>>

\* Mutant: a document that was reviewed in the meantime is left as it is.
ReviewIfPending(c) ==
  /\ At(c, "review:update")
  /\ docs' = [docs EXCEPT ![call[c].who].status =
       IF @ = "PENDING" THEN call[c].says ELSE @]
  /\ ThenRecord(c, call[c].who, call[c].says)
  /\ UNCHANGED <<profiles, stored, verifications, credentials, log, form, edited,
                 crossed, begun, failures>>

ReviewUpdate(c) ==
  /\ At(c, "review:update")
  /\ docs' = [docs EXCEPT ![call[c].who].status = call[c].says]
  /\ ThenRecord(c, call[c].who, call[c].says)
  /\ UNCHANGED <<profiles, stored, verifications, credentials, log, form, edited,
                 crossed, begun, failures>>

----------------------------------------------------------------------------
(* Verifications and the credentials they issue.                           *)

Verify(c, p, status) ==
  /\ profiles[p] # None
  /\ Begin(c, [step |-> "verify:insert", profile |-> p, status |-> status], FALSE)
  /\ UNCHANGED <<profiles, stored, docs, verifications, credentials, log, form,
                 edited, failures>>

\* Mutant: every verification issues a credential.
VerifyIssues(c) ==
  /\ At(c, "verify:insert")
  /\ \E v \in Verification :
       /\ verifications[v] = None
       /\ verifications' = [verifications EXCEPT ![v] =
            [profile |-> call[c].profile, status |-> call[c].status]]
       /\ call' = [call EXCEPT ![c] =
            [step |-> "verify:credential", profile |-> call[c].profile,
             verification |-> v]]
  /\ UNCHANGED <<profiles, stored, docs, credentials, log, form, edited, crossed,
                 begun, failures>>

\* A new row every time; an approved one goes on to its credential.
VerifyInsert(c) ==
  /\ At(c, "verify:insert")
  /\ \E v \in Verification :
       /\ verifications[v] = None
       /\ verifications' = [verifications EXCEPT ![v] =
            [profile |-> call[c].profile, status |-> call[c].status]]
       /\ IF call[c].status = "APPROVED"
          THEN call' = [call EXCEPT ![c] =
                 [step |-> "verify:credential", profile |-> call[c].profile,
                  verification |-> v]]
          ELSE ThenRecord(c, call[c].profile, "VERIFICATION_UPDATED")
  /\ UNCHANGED <<profiles, stored, docs, credentials, log, form, edited, crossed,
                 begun, failures>>

\* Mutant: the credential does not say whose it is.
IssueToNobody(c) ==
  /\ At(c, "verify:credential")
  /\ credentials' = [credentials EXCEPT ![call[c].verification] =
       [profile |-> None, verification |-> call[c].verification]]
  /\ ThenRecord(c, call[c].profile, "VERIFICATION_UPDATED")
  /\ UNCHANGED <<profiles, stored, docs, verifications, log, form, edited,
                 crossed, begun, failures>>

IssueCredential(c) ==
  /\ At(c, "verify:credential")
  /\ credentials' = [credentials EXCEPT ![call[c].verification] =
       [profile |-> call[c].profile, verification |-> call[c].verification]]
  /\ ThenRecord(c, call[c].profile, "VERIFICATION_UPDATED")
  /\ UNCHANGED <<profiles, stored, docs, verifications, log, form, edited,
                 crossed, begun, failures>>

----------------------------------------------------------------------------
(* What an anchor reads.                                                   *)

\* The wallet is found, and with it, in one query, the profile.
Read(c, p) ==
  /\ profiles[p] # None
  /\ Begin(c, [step |-> "read:consents", profile |-> p,
               values |-> profiles[p].values, scopes |-> {},
               credentials |-> None, seen |-> {profiles[p].values}], FALSE)
  /\ UNCHANGED <<profiles, stored, docs, verifications, credentials, log, form,
                 edited, failures>>

\* Without consents the read is refused; else it answers what they cover.
ReadConsents(c) ==
  /\ At(c, "read:consents")
  /\ \E S \in SUBSET Scope :
       IF S = {} THEN Answer(c)
       ELSE call' = [call EXCEPT ![c] =
              [@ EXCEPT !.step = IF S \cap CredentialScopes = {} THEN "read:record"
                                 ELSE "read:credentials",
                        !.scopes = S,
                        !.values = Disclosed(call[c].values, S)]]
  /\ UNCHANGED <<profiles, stored, docs, verifications, credentials, log, form,
                 edited, crossed, begun, failures>>

\* Nothing revokes a credential, so the filter on revokedAt keeps them all.
ReadCredentials(c) ==
  /\ At(c, "read:credentials")
  /\ call' = [call EXCEPT
       ![c].step = "read:record",
       ![c].credentials = {v \in Verification :
         /\ credentials[v] # None
         /\ credentials[v].profile = call[c].profile}]
  /\ UNCHANGED <<profiles, stored, docs, verifications, credentials, log, form,
                 edited, crossed, begun, failures>>

ReadRecord(c) ==
  /\ At(c, "read:record")
  /\ log' = [log EXCEPT ![call[c].profile] = "CREDENTIAL_ACCESSED"]
  /\ Answer(c)
  /\ UNCHANGED <<profiles, stored, docs, verifications, credentials, form, edited,
                 crossed, begun, failures>>

----------------------------------------------------------------------------

Record(c) ==
  /\ At(c, "record")
  /\ log' = [log EXCEPT ![call[c].who] = call[c].says]
  /\ Answer(c)
  /\ UNCHANGED <<profiles, stored, docs, verifications, credentials, form, edited,
                 crossed, begun, failures>>

\* The statement a call awaits, or the storage, fails.
Fail(c) ==
  /\ call[c] # Idle
  /\ failures < MaxFailures
  /\ failures' = failures + 1
  /\ crossed' = crossed \cup {w \in User \cup Doc : "who" \in DOMAIN call[c]
                                                    /\ w = call[c].who}
  /\ Answer(c)
  /\ UNCHANGED <<profiles, stored, docs, verifications, credentials, log, form,
                 edited, begun>>

Start(c) ==
  \/ \E t \in Tab, new \in Values : Save(c, t, new)
  \/ \E p \in Profile, f \in File : Upload(c, p, f)
  \/ \E d \in Doc, decision \in {"APPROVED", "REJECTED"} : Review(c, d, decision)
  \/ \E p \in Profile, status \in VerificationStatus : Verify(c, p, status)
  \/ \E p \in Profile : Read(c, p)

Continue(c) ==
  \/ SaveInsert(c) \/ SaveUpdate(c) \/ SaveRecord(c)
  \/ UploadPut(c) \/ UploadInsert(c) \/ ReviewUpdate(c)
  \/ VerifyInsert(c) \/ IssueCredential(c)
  \/ ReadConsents(c) \/ ReadCredentials(c) \/ ReadRecord(c)
  \/ Record(c)

Next ==
  \/ \E t \in Tab, u \in User : Open(t, u)
  \/ \E c \in Call : Start(c) \/ Continue(c) \/ Fail(c)

Spec == Init /\ [][Next]_vars

----------------------------------------------------------------------------
(* Properties.                                                             *)

\* Tables, storage, forms and calls have the shape the schema and the code give.
TypeOK ==
  /\ profiles \in [Profile -> ProfileRow \cup {None}]
  /\ stored \in [Doc -> File \cup {None}]
  /\ docs \in [Doc -> DocRow \cup {None}]
  /\ verifications \in [Verification -> VerificationRow \cup {None}]
  /\ credentials \in [Verification -> CredentialRow \cup {None}]
  /\ log \in [Thing -> Says \cup {None}]
  /\ form \in [Tab -> Form \cup {None}]
  /\ call \in [Call -> CallState]
  /\ edited \in [User -> Values \cup {None}]
  /\ crossed \subseteq User \cup Doc
  /\ begun \in 0..MaxBegun /\ failures \in 0..MaxFailures

Settled(w) ==
  w \notin crossed /\ \A c \in Call : "who" \in DOMAIN call[c] => call[c].who # w

\* A user has one profile at most, however saves race.  It holds, column by
\* column, what the user was last told is saved, unless saves overlapped, one
\* failed, or one came from a form that was filled before another tab's save.
ProfileIsAsSaved ==
  \A u \in User :
    /\ \A p, q \in ProfilesOf(u) : p = q
    /\ Settled(u) => Shown(u) = edited[u]

\* Whoever may open a document finds its file, and it is a file of the type
\* the row says; what a failure leaves is a file without a row.
DocumentsAreStored ==
  \A d \in Doc :
    /\ docs[d] # None =>
         /\ stored[d] = docs[d].file
         /\ stored[d].begins = stored[d].mimetype /\ ~stored[d].large
    /\ stored[d] # None /\ docs[d] = None /\ failures = 0 =>
         \E c \in Call : At(c, "upload:insert") /\ call[c].who = d

\* A credential stands for an approved verification of the same profile; an
\* approved verification goes without one only on its way or after a failure.
CredentialsAreVerified ==
  \A v \in Verification :
    /\ credentials[v] # None =>
         verifications[v] = [profile |-> credentials[v].profile,
                             status |-> "APPROVED"]
    /\ verifications[v] # None /\ credentials[v] = None /\ failures = 0 =>
         \/ verifications[v].status # "APPROVED"
         \/ \E c \in Call : At(c, "verify:credential") /\ call[c].verification = v

\* What a read is about to answer is one state the profile had during the read,
\* cut to the columns of the scopes it found, and credentials of approved
\* verifications of this profile, if a scope asks for them.
ServedIsTrue ==
  \A c \in Call : At(c, "read:record") =>
    /\ \E v \in call[c].seen :
         /\ \A x \in DOMAIN call[c].values :
              /\ call[c].values[x] = v[x]
              /\ \E s \in call[c].scopes : x \in ColumnsOf(s)
    /\ call[c].credentials # None =>
         /\ call[c].scopes \cap CredentialScopes # {}
         /\ \A v \in call[c].credentials :
              verifications[v] = [profile |-> call[c].profile, status |-> "APPROVED"]

\* Where no reviews overlapped and none failed, the latest entry about a
\* document says what its row does.
ReviewIsLogged ==
  \A d \in Doc :
    docs[d] # None /\ Settled(d)
    => log[d] = IF docs[d].status = "PENDING" THEN "DOCUMENT_UPLOADED"
                ELSE docs[d].status
=============================================================================
