--------------------------- MODULE DossierProofs ---------------------------
(***************************************************************************)
(* Proofs about Dossier, for every value of its constants.                 *)
(***************************************************************************)
EXTENDS Dossier, TLAPS

----------------------------------------------------------------------------
(* What the step and the fields of a call tell of it.                      *)

LEMMA CallKinds ==
  ASSUME TypeOK, NEW c \in Call
  PROVE  /\ call[c] \in CallState
         /\ call[c].step \in {"save:insert", "save:update"} <=> call[c] \in SaveCall
         /\ At(c, "save:record") <=> call[c] \in SavedCall
         /\ At(c, "upload:put") <=> call[c] \in UploadCall
         /\ At(c, "upload:insert") <=> call[c] \in PutCall
         /\ At(c, "review:update") <=> call[c] \in ReviewCall
         /\ At(c, "verify:insert") <=> call[c] \in VerifyCall
         /\ At(c, "verify:credential") <=> call[c] \in IssueCall
         /\ At(c, "record") <=> call[c] \in RecordCall
         /\ call[c].step \in {"read:consents", "read:credentials", "read:record"}
              <=> call[c] \in ReadCall
  <1>1. call[c] \in CallState
    BY DEF TypeOK
  <1>. QED
    BY <1>1 DEF CallState, Idle, At, SaveCall, SavedCall, UploadCall, PutCall,
       ReviewCall, VerifyCall, IssueCall, RecordCall, ReadCall

LEMMA Fields ==
  ASSUME TypeOK, NEW c \in Call
  PROVE  /\ "who" \in DOMAIN call[c] <=>
              call[c].step \in {"save:insert", "save:update", "save:record",
                                "upload:insert", "review:update", "record"}
         /\ "tab" \in DOMAIN call[c] <=>
              call[c].step \in {"save:insert", "save:update", "save:record"}
         /\ "seen" \in DOMAIN call[c] <=>
              call[c].step \in {"read:consents", "read:credentials", "read:record"}
  <1>1. call[c] \in CallState
    BY DEF TypeOK
  <1>. QED
    BY <1>1 DEF CallState, Idle, SaveCall, SavedCall, UploadCall, PutCall,
       ReviewCall, VerifyCall, IssueCall, RecordCall, ReadCall
----------------------------------------------------------------------------
(* The invariant.                                                          *)

\* What a read has so far is one state the profile had, cut to the scopes.
OneState(r) ==
  \E v \in r.seen : \A x \in DOMAIN r.values :
    /\ r.values[x] = v[x]
    /\ \E s \in r.scopes : x \in ColumnsOf(s)

VerifiedOnly(r) ==
  r.credentials # None =>
    /\ r.scopes \cap CredentialScopes # {}
    /\ \A v \in r.credentials :
         verifications[v] = [profile |-> r.profile, status |-> "APPROVED"]

\* What a call relies on.
CallInv(c) ==
  /\ "tab" \in DOMAIN call[c] => form[call[c].tab] # None
  /\ At(c, "upload:put") => Accepted(call[c].file)
  /\ At(c, "upload:insert") => /\ Accepted(call[c].file)
                               /\ stored[call[c].who] = call[c].file
  /\ At(c, "review:update") => docs[call[c].who] # None
  /\ At(c, "verify:credential") =>
       verifications[call[c].verification] =
         [profile |-> call[c].profile, status |-> "APPROVED"]
  /\ At(c, "read:consents") => /\ call[c].values \in call[c].seen
                               /\ call[c].values \in Values
                               /\ call[c].credentials = None
  /\ At(c, "read:credentials") => /\ call[c].scopes \cap CredentialScopes # {}
                                  /\ OneState(call[c])
  /\ At(c, "read:record") => OneState(call[c]) /\ VerifiedOnly(call[c])

Inv == /\ TypeOK
       /\ DocumentsAreStored
       /\ CredentialsAreVerified
       /\ \A c \in Call : CallInv(c)

LEMMA InvInit == Init => Inv
  <1>. SUFFICES ASSUME Init PROVE Inv
    OBVIOUS
  <1>1. call \in [Call -> CallState] /\ \A c \in Call : call[c] = Idle
    BY DEF Init, CallState
  <1>2. TypeOK
    BY <1>1, BoundAssumption DEF Init, TypeOK
  <1>. QED
    BY <1>1, <1>2 DEF Init, Inv, DocumentsAreStored, CredentialsAreVerified,
       CallInv, At, Idle

----------------------------------------------------------------------------
(* Type correctness.                                                       *)

LEMMA BeginTypes ==
  ASSUME TypeOK, NEW c \in Call, NEW record \in CallState, NEW late,
         Begin(c, record, late)
  PROVE  /\ call' \in [Call -> CallState]
         /\ crossed' \subseteq User \cup Doc
         /\ begun' \in 0..MaxBegun
  BY BoundAssumption DEF Begin, TypeOK

LEMMA DisclosedType ==
  ASSUME NEW values \in Values, NEW scopes
  PROVE  Disclosed(values, scopes) \in Partial
  <1>. DEFINE X == Column \cap UNION {ColumnsOf(s) : s \in scopes}
  <1>1. X \in SUBSET Column
    OBVIOUS
  <1>2. Disclosed(values, scopes) \in [X -> Value]
    BY DEF Disclosed, Values
  <1>. QED
    BY <1>1, <1>2 DEF Partial

\* A save is seen by the reads of its profile.
LEMMA SavedTypes ==
  ASSUME TypeOK, NEW c \in Call, call[c] \in SaveCall, NEW p \in Profile,
         NEW says \in Says, Saved(c, p, says)
  PROVE  call' \in [Call -> CallState]
  <1>1. ASSUME NEW d \in Call PROVE call'[d] \in CallState
    <2>1. CASE d = c
      <3>1. call'[d] \in SavedCall
        BY <2>1 DEF Saved, SaveCall, SavedCall
      <3>. QED
        BY <3>1 DEF CallState
    <2>2. CASE d # c /\ "seen" \in DOMAIN call[d]
      <3>1. call[d] \in ReadCall
        BY <2>2, CallKinds, Fields
      <3>2. [call[d] EXCEPT !.seen = @ \cup {call[c].values}] \in ReadCall
        BY <3>1 DEF ReadCall, SaveCall
      <3>3. call'[d] \in ReadCall
        BY <2>2, <3>1, <3>2 DEF Saved
      <3>. QED
        BY <3>3 DEF CallState
    <2>3. CASE d # c /\ "seen" \notin DOMAIN call[d]
      BY <2>3 DEF Saved, TypeOK
    <2>. QED
      BY <2>1, <2>2, <2>3
  <1>. QED
    BY <1>1 DEF Saved

LEMMA TypeStep ==
  ASSUME Inv, [Next]_vars PROVE TypeOK'
  <1>. USE NoneAssumption
  <1>0. TypeOK /\ \A c \in Call : CallInv(c)
    BY DEF Inv
  <1>1. ASSUME NEW t \in Tab, NEW u \in User, Open(t, u) PROVE TypeOK'
    <2>1. Shown(u) \in Values \cup {None}
      <3>1. \A p \in ProfilesOf(u) : profiles[p].values \in Values
        BY <1>0 DEF ProfilesOf, TypeOK, ProfileRow
      <3>. QED
        BY <3>1 DEF Shown
    <2>2. [user |-> u, existing |-> Shown(u) # None, values |-> Shown(u)] \in Form
      BY <2>1 DEF Form
    <2>. QED
      BY <1>0, <1>1, <2>2 DEF Open, TypeOK
  <1>2. ASSUME NEW c \in Call, NEW t \in Tab, NEW new \in Values, Save(c, t, new)
        PROVE  TypeOK'
    <2>1. form[t] \in Form
      BY <1>0, <1>2 DEF Save, TypeOK
    <2>2. /\ form' \in [Tab -> Form \cup {None}]
          /\ form[t].user \in User
      BY <1>0, <1>2, <2>1 DEF Save, TypeOK, Form
    <2>3. [step |-> IF form[t].existing THEN "save:update" ELSE "save:insert",
           who |-> form[t].user, tab |-> t, values |-> new,
           changed |-> Changed(form[t].values, new)] \in SaveCall
      BY <2>2 DEF SaveCall, Changed
    <2>4. SaveCall \subseteq CallState
      BY DEF CallState
    <2>5. /\ call' \in [Call -> CallState]
          /\ crossed' \subseteq User \cup Doc
          /\ begun' \in 0..MaxBegun
      BY <1>0, <1>2, <2>3, <2>4, BeginTypes DEF Save
    <2>. QED
      BY <1>0, <1>2, <2>2, <2>5 DEF Save, TypeOK
  <1>3. ASSUME NEW c \in Call, NEW p \in Profile, NEW f \in File, Upload(c, p, f)
        PROVE  TypeOK'
    <2>1. [step |-> "upload:put", profile |-> p, file |-> f] \in CallState
      BY DEF UploadCall, CallState
    <2>2. /\ call' \in [Call -> CallState]
          /\ crossed' \subseteq User \cup Doc
          /\ begun' \in 0..MaxBegun
      BY <1>0, <1>3, <2>1, BeginTypes DEF Upload
    <2>. QED
      BY <1>0, <1>3, <2>2 DEF Upload, TypeOK
  <1>4. ASSUME NEW c \in Call, NEW d \in Doc,
               NEW decision \in {"APPROVED", "REJECTED"}, Review(c, d, decision)
        PROVE  TypeOK'
    <2>1. [step |-> "review:update", who |-> d, says |-> decision] \in CallState
      BY DEF ReviewCall, CallState
    <2>2. /\ call' \in [Call -> CallState]
          /\ crossed' \subseteq User \cup Doc
          /\ begun' \in 0..MaxBegun
      BY <1>0, <1>4, <2>1, BeginTypes DEF Review
    <2>. QED
      BY <1>0, <1>4, <2>2 DEF Review, TypeOK
  <1>5. ASSUME NEW c \in Call, NEW p \in Profile,
               NEW status \in VerificationStatus, Verify(c, p, status)
        PROVE  TypeOK'
    <2>1. [step |-> "verify:insert", profile |-> p, status |-> status] \in CallState
      BY DEF VerifyCall, CallState
    <2>2. /\ call' \in [Call -> CallState]
          /\ crossed' \subseteq User \cup Doc
          /\ begun' \in 0..MaxBegun
      BY <1>0, <1>5, <2>1, BeginTypes DEF Verify
    <2>. QED
      BY <1>0, <1>5, <2>2 DEF Verify, TypeOK
  <1>6. ASSUME NEW c \in Call, NEW p \in Profile, Read(c, p) PROVE TypeOK'
    <2>1. profiles[p].values \in Values
      BY <1>0, <1>6 DEF Read, TypeOK, ProfileRow
    <2>2. [step |-> "read:consents", profile |-> p,
           values |-> profiles[p].values, scopes |-> {},
           credentials |-> None, seen |-> {profiles[p].values}] \in ReadCall
      BY <2>1 DEF ReadCall
    <2>3. ReadCall \subseteq CallState
      BY DEF CallState
    <2>4. /\ call' \in [Call -> CallState]
          /\ crossed' \subseteq User \cup Doc
          /\ begun' \in 0..MaxBegun
      BY <1>0, <1>6, <2>2, <2>3, BeginTypes DEF Read
    <2>. QED
      BY <1>0, <1>6, <2>4 DEF Read, TypeOK
  <1>7. ASSUME NEW c \in Call, SaveInsert(c) PROVE TypeOK'
    <2>1. call[c] \in SaveCall
      BY <1>0, <1>7, CallKinds DEF SaveInsert, At
    <2>2. call' \in [Call -> CallState]
      BY <1>0, <1>7, <2>1, SavedTypes DEF SaveInsert, Answer, TypeOK, CallState, Says
    <2>3. profiles' \in [Profile -> ProfileRow \cup {None}]
      BY <1>0, <1>7, <2>1 DEF SaveInsert, TypeOK, ProfileRow, SaveCall
    <2>. QED
      BY <1>0, <1>7, <2>2, <2>3 DEF SaveInsert, TypeOK
  <1>8. ASSUME NEW c \in Call, SaveUpdate(c) PROVE TypeOK'
    <2>1. call[c] \in SaveCall
      BY <1>0, <1>8, CallKinds DEF SaveUpdate, At
    <2>2. PICK p \in ProfilesOf(call[c].who) :
            /\ profiles' = [profiles EXCEPT ![p].values = call[c].values]
            /\ Saved(c, p, "IDENTITY_UPDATED")
      BY <1>8 DEF SaveUpdate
    <2>3. p \in Profile /\ profiles[p] \in ProfileRow
      BY <1>0 DEF ProfilesOf, TypeOK
    <2>4. call' \in [Call -> CallState]
      BY <1>0, <2>1, <2>2, <2>3, SavedTypes DEF Says
    <2>5. profiles' \in [Profile -> ProfileRow \cup {None}]
      BY <1>0, <2>1, <2>2, <2>3 DEF TypeOK, ProfileRow, SaveCall
    <2>. QED
      BY <1>0, <1>8, <2>4, <2>5 DEF SaveUpdate, TypeOK
  <1>9. ASSUME NEW c \in Call, SaveRecord(c) PROVE TypeOK'
    <2>1. call[c] \in SavedCall /\ form[call[c].tab] # None
      BY <1>0, <1>9, CallKinds, Fields DEF SaveRecord, CallInv, At
    <2>2. /\ call[c].who \in User /\ call[c].values \in Values
          /\ call[c].tab \in Tab /\ call[c].profile \in Profile
          /\ call[c].says \in Says
      BY <2>1 DEF SavedCall
    <2>3. form' \in [Tab -> Form \cup {None}]
      <3>. DEFINE t == call[c].tab
      <3>1. t \in Tab /\ form[t] \in Form
        BY <1>0, <2>1, <2>2 DEF TypeOK
      <3>2. [form[t] EXCEPT !.existing = TRUE] \in Form
        BY <3>1 DEF Form
      <3>3. form' = [form EXCEPT ![t] = [form[t] EXCEPT !.existing = TRUE]]
        BY <1>9 DEF SaveRecord
      <3>. QED
        BY <1>0, <3>1, <3>2, <3>3 DEF TypeOK
    <2>4. edited' \in [User -> Values \cup {None}]
      BY <1>0, <1>9, <2>2 DEF SaveRecord, TypeOK, Values
    <2>5. call' \in [Call -> CallState] /\ log' \in [Thing -> Says \cup {None}]
      BY <1>0, <1>9, <2>2 DEF SaveRecord, Answer, TypeOK, CallState, Thing
    <2>. QED
      BY <1>0, <1>9, <2>3, <2>4, <2>5 DEF SaveRecord, TypeOK
  <1>10. ASSUME NEW c \in Call, UploadPut(c) PROVE TypeOK'
    <2>1. call[c] \in UploadCall
      BY <1>0, <1>10, CallKinds DEF UploadPut
    <2>. QED
      BY <1>0, <1>10, <2>1 DEF UploadPut, TypeOK, CallState, UploadCall, PutCall
  <1>11. ASSUME NEW c \in Call, UploadInsert(c) PROVE TypeOK'
    <2>1. call[c] \in PutCall
      BY <1>0, <1>11, CallKinds DEF UploadInsert
    <2>. QED
      BY <1>0, <1>11, <2>1 DEF UploadInsert, ThenRecord, TypeOK, CallState,
         PutCall, RecordCall, DocRow, Thing, Says
  <1>12. ASSUME NEW c \in Call, ReviewUpdate(c) PROVE TypeOK'
    <2>1. /\ call[c] \in ReviewCall
          /\ docs[call[c].who] # None
      BY <1>0, <1>12, CallKinds DEF ReviewUpdate, CallInv
    <2>2. docs' \in [Doc -> DocRow \cup {None}]
      BY <1>0, <1>12, <2>1 DEF ReviewUpdate, TypeOK, ReviewCall, DocRow
    <2>. QED
      BY <1>0, <1>12, <2>1, <2>2 DEF ReviewUpdate, ThenRecord, TypeOK, CallState,
         ReviewCall, RecordCall, Thing, Says
  <1>13. ASSUME NEW c \in Call, VerifyInsert(c) PROVE TypeOK'
    <2>1. call[c] \in VerifyCall
      BY <1>0, <1>13, CallKinds DEF VerifyInsert
    <2>2. call' \in [Call -> CallState]
      BY <1>0, <1>13, <2>1 DEF VerifyInsert, ThenRecord, TypeOK, CallState,
         VerifyCall, IssueCall, RecordCall, Thing, Says
    <2>. QED
      BY <1>0, <1>13, <2>1, <2>2
         DEF VerifyInsert, TypeOK, VerifyCall, VerificationRow
  <1>14. ASSUME NEW c \in Call, IssueCredential(c) PROVE TypeOK'
    <2>1. call[c] \in IssueCall
      BY <1>0, <1>14, CallKinds DEF IssueCredential
    <2>. QED
      BY <1>0, <1>14, <2>1 DEF IssueCredential, ThenRecord, TypeOK, CallState,
         IssueCall, RecordCall, CredentialRow, Thing, Says
  <1>15. ASSUME NEW c \in Call, ReadConsents(c) PROVE TypeOK'
    <2>1. call[c] \in ReadCall /\ call[c].values \in Values
      BY <1>0, <1>15, CallKinds DEF ReadConsents, CallInv, At
    <2>2. \A S \in SUBSET Scope, step \in {"read:credentials", "read:record"} :
            [call[c] EXCEPT !.step = step, !.scopes = S,
                            !.values = Disclosed(call[c].values, S)] \in ReadCall
      BY <2>1, DisclosedType DEF ReadCall
    <2>3. ReadCall \subseteq CallState /\ Idle \in CallState
      BY DEF CallState
    <2>4. PICK S \in SUBSET Scope :
            IF S = {} THEN Answer(c)
            ELSE call' = [call EXCEPT ![c] =
                   [call[c] EXCEPT
                     !.step = IF S \cap CredentialScopes = {} THEN "read:record"
                              ELSE "read:credentials",
                     !.scopes = S,
                     !.values = Disclosed(call[c].values, S)]]
      BY <1>15 DEF ReadConsents
    <2>5. CASE S = {}
      BY <1>0, <1>15, <2>3, <2>4, <2>5 DEF ReadConsents, Answer, TypeOK
    <2>6. CASE S # {}
      <3>. DEFINE next == IF S \cap CredentialScopes = {} THEN "read:record"
                          ELSE "read:credentials"
                  rec == [call[c] EXCEPT !.step = next, !.scopes = S,
                                         !.values = Disclosed(call[c].values, S)]
      <3>1. next \in {"read:credentials", "read:record"}
        OBVIOUS
      <3>2. rec \in ReadCall
        BY <2>2, <3>1
      <3>3. call' = [call EXCEPT ![c] = rec]
        BY <2>4, <2>6
      <3>. HIDE DEF rec
      <3>4. call' \in [Call -> CallState]
        BY <1>0, <2>3, <3>2, <3>3 DEF TypeOK
      <3>. QED
        BY <1>0, <1>15, <3>4 DEF ReadConsents, TypeOK
    <2>. QED
      BY <2>5, <2>6
  <1>16. ASSUME NEW c \in Call, ReadCredentials(c) PROVE TypeOK'
    <2>1. call[c] \in ReadCall
      BY <1>0, <1>16, CallKinds DEF ReadCredentials, At
    <2>2. \A C \in SUBSET Verification :
            [call[c] EXCEPT !.step = "read:record", !.credentials = C] \in ReadCall
      BY <2>1 DEF ReadCall
    <2>3. ReadCall \subseteq CallState
      BY DEF CallState
    <2>4. call' \in [Call -> CallState]
      BY <1>0, <1>16, <2>2, <2>3 DEF ReadCredentials, TypeOK
    <2>. QED
      BY <1>0, <1>16, <2>4 DEF ReadCredentials, TypeOK
  <1>17. ASSUME NEW c \in Call, ReadRecord(c) PROVE TypeOK'
    <2>1. call[c] \in ReadCall
      BY <1>0, <1>17, CallKinds DEF ReadRecord, At
    <2>. QED
      BY <1>0, <1>17, <2>1
         DEF ReadRecord, Answer, TypeOK, CallState, ReadCall, Thing, Says
  <1>18. ASSUME NEW c \in Call, Record(c) PROVE TypeOK'
    <2>1. call[c] \in RecordCall
      BY <1>0, <1>18, CallKinds DEF Record
    <2>. QED
      BY <1>0, <1>18, <2>1 DEF Record, Answer, TypeOK, CallState, RecordCall
  <1>19. ASSUME NEW c \in Call, Fail(c) PROVE TypeOK'
    BY <1>0, <1>19, BoundAssumption DEF Fail, Answer, TypeOK, CallState
  <1>20. CASE UNCHANGED vars
    BY <1>0, <1>20 DEF vars, TypeOK
  <1>. QED
    BY <1>1, <1>2, <1>3, <1>4, <1>5, <1>6, <1>7, <1>8, <1>9, <1>10, <1>11,
       <1>12, <1>13, <1>14, <1>15, <1>16, <1>17, <1>18, <1>19, <1>20
       DEF Next, Start, Continue
----------------------------------------------------------------------------
(* What every step keeps.                                                  *)

Keeps ==
  /\ \A d \in Doc : docs[d] # None => docs'[d] # None
  /\ \A d \in Doc : stored[d] # None => stored'[d] = stored[d]
  /\ \A v \in Verification :
       verifications[v] # None => verifications'[v] = verifications[v]
  /\ \A t \in Tab : form[t] # None => form'[t] # None

LEMMA StepKeeps ==
  ASSUME Inv, [Next]_vars PROVE Keeps
  <1>. USE NoneAssumption DEF Keeps
  <1>0. TypeOK /\ \A c \in Call : CallInv(c)
    BY DEF Inv
  <1>1. ASSUME NEW t \in Tab, NEW u \in User, Open(t, u) PROVE Keeps
    <2>1. TypeOK'
      BY TypeStep
    <2>2. Shown(u) \in Values \cup {None}
      <3>1. \A p \in ProfilesOf(u) : profiles[p].values \in Values
        BY <1>0 DEF ProfilesOf, TypeOK, ProfileRow
      <3>. QED
        BY <3>1 DEF Shown
    <2>3. [user |-> u, existing |-> Shown(u) # None, values |-> Shown(u)] \in Form
      BY <2>2 DEF Form
    <2>. QED
      BY <1>0, <1>1, <2>3 DEF Open, TypeOK
  <1>2. ASSUME NEW c \in Call, NEW t \in Tab, NEW new \in Values, Save(c, t, new)
        PROVE  Keeps
    <2>1. form[t] \in Form
      BY <1>0, <1>2 DEF Save, TypeOK
    <2>2. [form[t] EXCEPT !.values = new] \in Form
      BY <2>1 DEF Form
    <2>3. form' = [form EXCEPT ![t] = [form[t] EXCEPT !.values = new]]
      BY <1>2 DEF Save
    <2>. QED
      BY <1>0, <1>2, <2>2, <2>3 DEF Save, TypeOK
  <1>3. ASSUME NEW c \in Call, SaveRecord(c) PROVE Keeps
    <2>. DEFINE t == call[c].tab
    <2>1. t \in Tab /\ form[t] \in Form
      BY <1>0, <1>3, CallKinds, Fields DEF SaveRecord, CallInv, At, SavedCall, TypeOK
    <2>2. [form[t] EXCEPT !.existing = TRUE] \in Form
      BY <2>1 DEF Form
    <2>3. form' = [form EXCEPT ![t] = [form[t] EXCEPT !.existing = TRUE]]
      BY <1>3 DEF SaveRecord
    <2>. QED
      BY <1>0, <1>3, <2>2, <2>3 DEF SaveRecord, TypeOK
  <1>4. ASSUME NEW c \in Call,
               \/ \E p \in Profile, f \in File : Upload(c, p, f)
               \/ \E d \in Doc, decision \in {"APPROVED", "REJECTED"} :
                    Review(c, d, decision)
               \/ \E p \in Profile, s \in VerificationStatus : Verify(c, p, s)
               \/ \E p \in Profile : Read(c, p)
        PROVE  Keeps
    BY <1>4 DEF Upload, Review, Verify, Read
  <1>5. ASSUME NEW c \in Call,
               \/ SaveInsert(c) \/ SaveUpdate(c) \/ IssueCredential(c)
               \/ ReadConsents(c) \/ ReadCredentials(c) \/ ReadRecord(c)
               \/ Record(c) \/ Fail(c)
        PROVE  Keeps
    BY <1>5 DEF SaveInsert, SaveUpdate, IssueCredential, ReadConsents,
       ReadCredentials, ReadRecord, Record, Fail
  <1>6. ASSUME NEW c \in Call, UploadPut(c) PROVE Keeps
    BY <1>0, <1>6 DEF UploadPut, TypeOK
  <1>7. ASSUME NEW c \in Call, UploadInsert(c) PROVE Keeps
    <2>1. call[c] \in PutCall
      BY <1>0, <1>7, CallKinds DEF UploadInsert
    <2>2. [profile |-> call[c].profile, file |-> call[c].file,
           status |-> "PENDING"] \in DocRow
      BY <2>1 DEF PutCall, DocRow
    <2>. QED
      BY <1>0, <1>7, <2>2 DEF UploadInsert, TypeOK
  <1>8. ASSUME NEW c \in Call, ReviewUpdate(c) PROVE Keeps
    <2>. DEFINE d == call[c].who
    <2>1. call[c] \in ReviewCall /\ d \in Doc /\ docs[d] \in DocRow
      BY <1>0, <1>8, CallKinds DEF ReviewUpdate, CallInv, TypeOK, ReviewCall
    <2>2. [docs[d] EXCEPT !.status = call[c].says] \in DocRow
      BY <2>1 DEF ReviewCall, DocRow
    <2>3. docs' = [docs EXCEPT ![d] = [docs[d] EXCEPT !.status = call[c].says]]
      BY <1>8 DEF ReviewUpdate
    <2>. QED
      BY <1>0, <1>8, <2>1, <2>2, <2>3 DEF ReviewUpdate, TypeOK
  <1>9. ASSUME NEW c \in Call, VerifyInsert(c) PROVE Keeps
    BY <1>0, <1>9 DEF VerifyInsert, TypeOK
  <1>10. CASE UNCHANGED vars
    BY <1>10 DEF vars
  <1>. QED
    BY <1>1, <1>2, <1>3, <1>4, <1>5, <1>6, <1>7, <1>8, <1>9, <1>10
       DEF Next, Start, Continue

----------------------------------------------------------------------------
(* Documents.                                                              *)

LEMMA DocumentsStep ==
  ASSUME Inv, [Next]_vars PROVE DocumentsAreStored'
  <1>. USE NoneAssumption
  <1>0. TypeOK /\ DocumentsAreStored /\ \A c \in Call : CallInv(c)
    BY DEF Inv
  <1>1. ASSUME NEW c \in Call, UploadPut(c) PROVE DocumentsAreStored'
    <2>1. PICK d \in Doc :
            /\ stored[d] = None
            /\ stored' = [stored EXCEPT ![d] = call[c].file]
            /\ call' = [call EXCEPT ![c] =
                 [step |-> "upload:insert", who |-> d,
                  profile |-> call[c].profile, file |-> call[c].file]]
      BY <1>1 DEF UploadPut
    <2>2. docs[d] = None
      BY <1>0, <2>1 DEF DocumentsAreStored, TypeOK, DocRow
    <2>3. call'[c].step = "upload:insert" /\ call'[c].who = d
      BY <1>0, <2>1 DEF TypeOK
    <2>4. \A e \in Call \ {c} : call'[e] = call[e]
      BY <1>0, <2>1 DEF TypeOK
    <2>5. docs' = docs /\ failures' = failures
      BY <1>1 DEF UploadPut
    <2>6. \A e \in Doc \ {d} : stored'[e] = stored[e]
      BY <1>0, <2>1 DEF TypeOK
    <2>7. call[c].step = "upload:put"
      BY <1>1 DEF UploadPut, At
    <2>. QED
      BY <1>0, <2>2, <2>3, <2>4, <2>5, <2>6, <2>7 DEF DocumentsAreStored, At
  <1>2. ASSUME NEW c \in Call, UploadInsert(c) PROVE DocumentsAreStored'
    <2>. DEFINE d == call[c].who
    <2>1. /\ call[c] \in PutCall /\ d \in Doc
          /\ Accepted(call[c].file) /\ stored[d] = call[c].file
      BY <1>0, <1>2, CallKinds DEF UploadInsert, CallInv, PutCall
    <2>2. /\ docs' = [docs EXCEPT ![d] =
               [profile |-> call[c].profile, file |-> call[c].file,
                status |-> "PENDING"]]
          /\ stored' = stored /\ failures' = failures
          /\ \A e \in Call \ {c} : call'[e] = call[e]
      BY <1>0, <1>2 DEF UploadInsert, ThenRecord, TypeOK
    <2>3. [profile |-> call[c].profile, file |-> call[c].file,
           status |-> "PENDING"] \in DocRow
      BY <2>1 DEF PutCall, DocRow
    <2>4. /\ stored[d].begins = stored[d].mimetype
          /\ ~stored[d].large
      BY <2>1 DEF Accepted, matchesMagicBytes
    <2>5. /\ docs'[d] # None /\ docs'[d].file = stored'[d]
          /\ \A e \in Doc \ {d} : docs'[e] = docs[e]
      BY <1>0, <2>1, <2>2, <2>3 DEF TypeOK
    <2>. QED
      BY <1>0, <2>2, <2>4, <2>5 DEF DocumentsAreStored, At
  <1>3. ASSUME NEW c \in Call, ReviewUpdate(c) PROVE DocumentsAreStored'
    <2>. DEFINE d == call[c].who
    <2>1. call[c] \in ReviewCall /\ d \in Doc /\ docs[d] \in DocRow
      BY <1>0, <1>3, CallKinds DEF ReviewUpdate, CallInv, TypeOK, ReviewCall
    <2>2. docs' = [docs EXCEPT ![d] = [docs[d] EXCEPT !.status = call[c].says]]
      BY <1>3 DEF ReviewUpdate
    <2>3. /\ docs'[d].file = docs[d].file /\ docs[d] # None
          /\ \A e \in Doc \ {d} : docs'[e] = docs[e]
      BY <1>0, <2>1, <2>2 DEF TypeOK, DocRow
    <2>4. docs'[d] # None
      BY <2>1, <2>3, StepKeeps DEF Keeps
    <2>5. /\ stored' = stored /\ failures' = failures
          /\ call[c].step = "review:update"
          /\ \A e \in Call \ {c} : call'[e] = call[e]
      BY <1>0, <1>3 DEF ReviewUpdate, ThenRecord, TypeOK, At
    <2>. QED
      BY <1>0, <2>1, <2>3, <2>4, <2>5 DEF DocumentsAreStored, At
  <1>. DEFINE Aside ==
         /\ docs' = docs /\ stored' = stored
         /\ failures' = 0 => failures = 0
         /\ failures' = 0 => \A e \in Call : At(e, "upload:insert") =>
              call'[e] = call[e]
  <1>4. ASSUME Aside PROVE DocumentsAreStored'
    BY <1>0, <1>4 DEF DocumentsAreStored, At
  <1>5. ASSUME NEW c \in Call, NEW record, NEW late, Begin(c, record, late)
        PROVE  \A e \in Call : At(e, "upload:insert") => call'[e] = call[e]
    BY <1>0, <1>5 DEF Begin, At, Idle, TypeOK
  <1>6. ASSUME NEW c \in Call, Start(c) PROVE Aside
    BY <1>5, <1>6 DEF Start, Save, Upload, Review, Verify, Read
  <1>7. ASSUME NEW c \in Call, SaveInsert(c) \/ SaveUpdate(c) PROVE Aside
    <2>1. ASSUME NEW p, NEW says, Saved(c, p, says)
          PROVE  \A e \in Call : At(e, "upload:insert") => call'[e] = call[e]
      <3>1. \A e \in Call : At(e, "upload:insert") => "seen" \notin DOMAIN call[e]
        BY <1>0, Fields DEF At
      <3>2. ~At(c, "upload:insert")
        BY <1>7 DEF SaveInsert, SaveUpdate, At
      <3>. QED
        BY <2>1, <3>1, <3>2 DEF Saved
    <2>2. Answer(c) => \A e \in Call : At(e, "upload:insert") => call'[e] = call[e]
      BY <1>0, <1>7 DEF SaveInsert, SaveUpdate, At, Answer, TypeOK
    <2>. QED
      BY <1>7, <2>1, <2>2 DEF SaveInsert, SaveUpdate
  <1>8. ASSUME NEW c \in Call,
               \/ SaveRecord(c) \/ VerifyInsert(c) \/ IssueCredential(c)
               \/ ReadRecord(c) \/ Record(c)
        PROVE  Aside
    BY <1>0, <1>8 DEF SaveRecord, VerifyInsert, IssueCredential, ReadRecord,
       Record, Answer, ThenRecord, At, TypeOK
  <1>9. ASSUME NEW c \in Call, ReadConsents(c) \/ ReadCredentials(c) PROVE Aside
    BY <1>0, <1>9 DEF ReadConsents, ReadCredentials, Answer, At, TypeOK
  <1>10. ASSUME NEW c \in Call, Fail(c) PROVE Aside
    BY <1>0, <1>10 DEF Fail, TypeOK
  <1>11. ASSUME NEW t \in Tab, NEW u \in User, Open(t, u) PROVE Aside
    BY <1>11 DEF Open
  <1>12. ASSUME UNCHANGED vars PROVE Aside
    BY <1>12 DEF vars
  <1>. HIDE DEF Aside
  <1>. QED
    BY <1>1, <1>2, <1>3, <1>4, <1>6, <1>7, <1>8, <1>9, <1>10, <1>11, <1>12
       DEF Next, Continue
----------------------------------------------------------------------------
(* Verifications and credentials.                                          *)

LEMMA CredentialsStep ==
  ASSUME Inv, [Next]_vars PROVE CredentialsAreVerified'
  <1>. USE NoneAssumption
  <1>0. TypeOK /\ CredentialsAreVerified /\ \A c \in Call : CallInv(c)
    BY DEF Inv
  <1>1. ASSUME NEW c \in Call, VerifyInsert(c) PROVE CredentialsAreVerified'
    <2>1. PICK v \in Verification :
            /\ verifications[v] = None
            /\ verifications' = [verifications EXCEPT ![v] =
                 [profile |-> call[c].profile, status |-> call[c].status]]
            /\ call[c].status = "APPROVED" => call' = [call EXCEPT ![c] =
                 [step |-> "verify:credential", profile |-> call[c].profile,
                  verification |-> v]]
            /\ call[c].status # "APPROVED" =>
                 ThenRecord(c, call[c].profile, "VERIFICATION_UPDATED")
      BY <1>1 DEF VerifyInsert
    <2>2. credentials[v] = None
      <3>1. ASSUME NEW p \in Profile
            PROVE  [profile |-> p, status |-> "APPROVED"] # None
        <4>1. [profile |-> p, status |-> "APPROVED"] \in VerificationRow
          BY DEF VerificationRow, VerificationStatus
        <4>. QED
          BY <4>1
      <3>2. credentials[v] # None => credentials[v].profile \in Profile
        BY <1>0 DEF TypeOK, CredentialRow
      <3>. QED
        BY <1>0, <2>1, <3>1, <3>2 DEF CredentialsAreVerified
    <2>3. /\ credentials' = credentials /\ failures' = failures
          /\ call[c].step = "verify:insert"
      BY <1>1 DEF VerifyInsert, At
    <2>4. /\ verifications'[v].status = call[c].status
          /\ \A w \in Verification \ {v} : verifications'[w] = verifications[w]
          /\ \A e \in Call \ {c} : call'[e] = call[e]
      BY <1>0, <2>1 DEF TypeOK, ThenRecord
    <2>5. call[c].status = "APPROVED" =>
            call'[c].step = "verify:credential" /\ call'[c].verification = v
      BY <1>0, <2>1 DEF TypeOK
    <2>6. \A w \in Verification \ {v} :
            /\ credentials'[w] # None =>
                 verifications'[w] = [profile |-> credentials'[w].profile,
                                      status |-> "APPROVED"]
            /\ verifications'[w] # None /\ credentials'[w] = None
                 /\ failures' = 0 =>
                 \/ verifications'[w].status # "APPROVED"
                 \/ \E e \in Call : call'[e].step = "verify:credential"
                                    /\ call'[e].verification = w
      BY <1>0, <2>3, <2>4 DEF CredentialsAreVerified, At
    <2>. QED
      BY <2>2, <2>3, <2>4, <2>5, <2>6 DEF CredentialsAreVerified, At
  <1>2. ASSUME NEW c \in Call, IssueCredential(c) PROVE CredentialsAreVerified'
    <2>. DEFINE v == call[c].verification
    <2>1. /\ call[c] \in IssueCall /\ v \in Verification
          /\ verifications[v] = [profile |-> call[c].profile, status |-> "APPROVED"]
      BY <1>0, <1>2, CallKinds DEF IssueCredential, CallInv, IssueCall
    <2>2. /\ credentials' = [credentials EXCEPT ![v] =
               [profile |-> call[c].profile, verification |-> v]]
          /\ verifications' = verifications /\ failures' = failures
          /\ \A e \in Call \ {c} : call'[e] = call[e]
      BY <1>0, <1>2 DEF IssueCredential, ThenRecord, TypeOK
    <2>3. [profile |-> call[c].profile, verification |-> v] \in CredentialRow
      BY <2>1 DEF IssueCall, CredentialRow
    <2>4. /\ credentials'[v] # None /\ credentials'[v].profile = call[c].profile
          /\ \A w \in Verification \ {v} : credentials'[w] = credentials[w]
      BY <1>0, <2>1, <2>2, <2>3 DEF TypeOK
    <2>. QED
      BY <1>0, <2>1, <2>2, <2>4 DEF CredentialsAreVerified, At
  <1>. DEFINE Aside ==
         /\ verifications' = verifications /\ credentials' = credentials
         /\ failures' = 0 => failures = 0
         /\ failures' = 0 => \A e \in Call : At(e, "verify:credential") =>
              call'[e] = call[e]
  <1>4. ASSUME Aside PROVE CredentialsAreVerified'
    BY <1>0, <1>4 DEF CredentialsAreVerified, At
  <1>5. ASSUME NEW c \in Call, NEW record, NEW late, Begin(c, record, late)
        PROVE  \A e \in Call : At(e, "verify:credential") => call'[e] = call[e]
    BY <1>0, <1>5 DEF Begin, At, Idle, TypeOK
  <1>6. ASSUME NEW c \in Call, Start(c) PROVE Aside
    BY <1>5, <1>6 DEF Start, Save, Upload, Review, Verify, Read
  <1>7. ASSUME NEW c \in Call, SaveInsert(c) \/ SaveUpdate(c) PROVE Aside
    <2>1. ASSUME NEW p, NEW says, Saved(c, p, says)
          PROVE  \A e \in Call : At(e, "verify:credential") => call'[e] = call[e]
      <3>1. \A e \in Call : At(e, "verify:credential") => "seen" \notin DOMAIN call[e]
        BY <1>0, Fields DEF At
      <3>2. ~At(c, "verify:credential")
        BY <1>7 DEF SaveInsert, SaveUpdate, At
      <3>. QED
        BY <2>1, <3>1, <3>2 DEF Saved
    <2>2. Answer(c) => \A e \in Call : At(e, "verify:credential") => call'[e] = call[e]
      BY <1>0, <1>7 DEF SaveInsert, SaveUpdate, At, Answer, TypeOK
    <2>. QED
      BY <1>7, <2>1, <2>2 DEF SaveInsert, SaveUpdate
  <1>8. ASSUME NEW c \in Call,
               \/ SaveRecord(c) \/ UploadPut(c) \/ UploadInsert(c)
               \/ ReviewUpdate(c) \/ ReadRecord(c) \/ Record(c)
        PROVE  Aside
    BY <1>0, <1>8 DEF SaveRecord, UploadPut, UploadInsert, ReviewUpdate,
       ReadRecord, Record, Answer, ThenRecord, At, TypeOK
  <1>9. ASSUME NEW c \in Call, ReadConsents(c) \/ ReadCredentials(c) PROVE Aside
    BY <1>0, <1>9 DEF ReadConsents, ReadCredentials, Answer, At, TypeOK
  <1>10. ASSUME NEW c \in Call, Fail(c) PROVE Aside
    BY <1>0, <1>10 DEF Fail, TypeOK
  <1>11. ASSUME NEW t \in Tab, NEW u \in User, Open(t, u) PROVE Aside
    BY <1>11 DEF Open
  <1>12. ASSUME UNCHANGED vars PROVE Aside
    BY <1>12 DEF vars
  <1>. HIDE DEF Aside
  <1>. QED
    BY <1>1, <1>2, <1>4, <1>6, <1>7, <1>8, <1>9, <1>10, <1>11, <1>12
       DEF Next, Continue

----------------------------------------------------------------------------
(* The calls.                                                              *)

\* A call that does not move, but for a read that sees a save, keeps what it
\* relies on.
LEMMA KeptCall ==
  ASSUME Inv, [Next]_vars, NEW c \in Call,
         \/ call'[c] = call[c]
         \/ /\ call[c] \in ReadCall
            /\ \E v \in Values : call'[c] = [call[c] EXCEPT !.seen = @ \cup {v}]
  PROVE  CallInv(c)'
  <1>. USE NoneAssumption
  <1>0. TypeOK /\ CallInv(c) /\ Keeps
    BY StepKeeps DEF Inv
  <1>1. CASE call'[c] = call[c] /\ call[c] \notin ReadCall
    <2>1. /\ ~At(c, "read:consents") /\ ~At(c, "read:credentials")
          /\ ~At(c, "read:record")
      BY <1>0, <1>1, CallKinds DEF At
    <2>2. "tab" \in DOMAIN call[c] => call[c].tab \in Tab
      BY <1>0, CallKinds, Fields DEF SaveCall, SavedCall, At
    <2>3. At(c, "upload:insert") => /\ call[c].who \in Doc
                                    /\ stored[call[c].who] # None
      BY <1>0, CallKinds DEF CallInv, PutCall
    <2>4. At(c, "review:update") => call[c].who \in Doc
      BY <1>0, CallKinds DEF ReviewCall
    <2>5. At(c, "verify:credential") =>
            /\ call[c].verification \in Verification
            /\ verifications[call[c].verification] # None
      BY <1>0, CallKinds DEF CallInv, IssueCall, VerificationRow, VerificationStatus
    <2>. QED
      BY <1>0, <1>1, <2>1, <2>2, <2>3, <2>4, <2>5 DEF CallInv, Keeps, At
  <1>2. CASE call[c] \in ReadCall
    <2>1. /\ call[c].step \in {"read:consents", "read:credentials", "read:record"}
          /\ "tab" \notin DOMAIN call[c]
      BY <1>0, <1>2, CallKinds, Fields
    <2>2. /\ call'[c].step = call[c].step /\ call'[c].values = call[c].values
          /\ call'[c].scopes = call[c].scopes
          /\ call'[c].credentials = call[c].credentials
          /\ call'[c].profile = call[c].profile
          /\ call[c].seen \subseteq call'[c].seen
          /\ DOMAIN call'[c] = DOMAIN call[c]
      <3>1. ASSUME NEW r \in ReadCall, NEW v,
                   NEW q, q = [r EXCEPT !.seen = r.seen \cup {v}]
            PROVE  /\ q.step = r.step /\ q.values = r.values
                   /\ q.scopes = r.scopes /\ q.credentials = r.credentials
                   /\ q.profile = r.profile /\ q.seen = r.seen \cup {v}
                   /\ DOMAIN q = DOMAIN r
        BY <3>1 DEF ReadCall
      <3>2. CASE call'[c] = call[c]
        BY <3>2
      <3>3. ASSUME NEW v \in Values,
                   call'[c] = [call[c] EXCEPT !.seen = call[c].seen \cup {v}]
            PROVE  /\ call'[c].step = call[c].step /\ call'[c].values = call[c].values
                   /\ call'[c].scopes = call[c].scopes
                   /\ call'[c].credentials = call[c].credentials
                   /\ call'[c].profile = call[c].profile
                   /\ call'[c].seen = call[c].seen \cup {v}
                   /\ DOMAIN call'[c] = DOMAIN call[c]
        BY <1>2, <3>1, <3>3
      <3>. QED
        BY <3>2, <3>3
    <2>3. VerifiedOnly(call[c]) => VerifiedOnly(call[c])'
      <3>1. \A v \in Verification :
              verifications[v] = [profile |-> call[c].profile, status |-> "APPROVED"]
              => verifications[v] # None
        BY <1>2 DEF VerificationRow, VerificationStatus, ReadCall
      <3>2. call[c].credentials # None => call[c].credentials \subseteq Verification
        BY <1>2 DEF ReadCall
      <3>. QED
        BY <1>0, <2>2, <3>1, <3>2 DEF VerifiedOnly, Keeps
    <2>4. OneState(call[c]) => OneState(call[c])'
      BY <2>2 DEF OneState
    <2>. QED
      BY <1>0, <2>1, <2>2, <2>3, <2>4 DEF CallInv, At
  <1>. QED
    BY <1>1, <1>2

\* A call that is answered, or only has its entry to write.
LEMMA RestCall ==
  ASSUME NEW c \in Call,
         \/ call'[c] = Idle
         \/ call'[c].step = "record" /\ "tab" \notin DOMAIN call'[c]
  PROVE  CallInv(c)'
  BY DEF CallInv, At, Idle

LEMMA StartedCall ==
  ASSUME Inv, [Next]_vars, NEW c \in Call, Start(c) PROVE CallInv(c)'
  <1>. USE NoneAssumption
  <1>0. TypeOK /\ Keeps
    BY StepKeeps DEF Inv
  <1>1. ASSUME NEW t \in Tab, NEW new \in Values, Save(c, t, new)
        PROVE  CallInv(c)'
    <2>1. /\ call'[c].step \in {"save:insert", "save:update"}
          /\ call'[c].tab = t
          /\ form[t] # None
      BY <1>0, <1>1 DEF Save, Begin, TypeOK
    <2>. QED
      BY <1>0, <2>1 DEF CallInv, At, Keeps
  <1>2. ASSUME NEW p \in Profile, NEW f \in File, Upload(c, p, f)
        PROVE  CallInv(c)'
    <2>1. /\ call'[c] = [step |-> "upload:put", profile |-> p, file |-> f]
          /\ Accepted(f)
      BY <1>0, <1>2 DEF Upload, Begin, TypeOK
    <2>. QED
      BY <2>1 DEF CallInv, At
  <1>3. ASSUME NEW d \in Doc, NEW says \in {"APPROVED", "REJECTED"},
               Review(c, d, says)
        PROVE  CallInv(c)'
    <2>1. /\ call'[c] = [step |-> "review:update", who |-> d, says |-> says]
          /\ docs'[d] # None
      BY <1>0, <1>3 DEF Review, Begin, TypeOK
    <2>. QED
      BY <2>1 DEF CallInv, At
  <1>4. ASSUME NEW p \in Profile, NEW status \in VerificationStatus,
               Verify(c, p, status)
        PROVE  CallInv(c)'
    <2>1. call'[c] = [step |-> "verify:insert", profile |-> p, status |-> status]
      BY <1>0, <1>4 DEF Verify, Begin, TypeOK
    <2>. QED
      BY <2>1 DEF CallInv, At
  <1>5. ASSUME NEW p \in Profile, Read(c, p) PROVE CallInv(c)'
    <2>1. /\ call'[c] = [step |-> "read:consents", profile |-> p,
               values |-> profiles[p].values, scopes |-> {},
               credentials |-> None, seen |-> {profiles[p].values}]
          /\ profiles[p].values \in Values
      BY <1>0, <1>5 DEF Read, Begin, TypeOK, ProfileRow
    <2>. QED
      BY <2>1 DEF CallInv, At
  <1>. QED
    BY <1>1, <1>2, <1>3, <1>4, <1>5 DEF Start

LEMMA ContinuedCall ==
  ASSUME Inv, [Next]_vars, NEW c \in Call, Continue(c) PROVE CallInv(c)'
  <1>. USE NoneAssumption
  <1>0. TypeOK /\ CallInv(c) /\ Keeps /\ CredentialsAreVerified
    BY StepKeeps DEF Inv
  <1>1. CASE SaveInsert(c) \/ SaveUpdate(c)
    <2>1. call[c] \in SaveCall /\ form[call[c].tab] # None
      BY <1>0, <1>1, CallKinds, Fields DEF SaveInsert, SaveUpdate, CallInv, At
    <2>2. CASE call'[c] = Idle
      BY <2>2, RestCall
    <2>3. ASSUME NEW p, NEW says, Saved(c, p, says) PROVE CallInv(c)'
      <3>1. /\ call'[c].step = "save:record" /\ call'[c].tab = call[c].tab
            /\ call[c].tab \in Tab
        BY <2>1, <2>3 DEF Saved, SaveCall
      <3>. QED
        BY <1>0, <2>1, <3>1 DEF CallInv, At, Keeps
    <2>. QED
      BY <1>0, <1>1, <2>2, <2>3 DEF SaveInsert, SaveUpdate, Answer, TypeOK
  <1>2. CASE SaveRecord(c) \/ ReadRecord(c) \/ Record(c)
    BY <1>0, <1>2, RestCall DEF SaveRecord, ReadRecord, Record, Answer, TypeOK
  <1>3. CASE UploadInsert(c) \/ ReviewUpdate(c) \/ IssueCredential(c)
    <2>1. call'[c].step = "record" /\ "tab" \notin DOMAIN call'[c]
      BY <1>0, <1>3 DEF UploadInsert, ReviewUpdate, IssueCredential, ThenRecord,
         TypeOK
    <2>. QED
      BY <2>1, RestCall
  <1>4. CASE UploadPut(c)
    <2>1. PICK d \in Doc :
            /\ stored' = [stored EXCEPT ![d] = call[c].file]
            /\ call' = [call EXCEPT ![c] =
                 [step |-> "upload:insert", who |-> d,
                  profile |-> call[c].profile, file |-> call[c].file]]
      BY <1>4 DEF UploadPut
    <2>2. /\ call'[c].step = "upload:insert" /\ call'[c].who = d
          /\ call'[c].file = call[c].file /\ "tab" \notin DOMAIN call'[c]
          /\ stored'[d] = call[c].file
      BY <1>0, <2>1 DEF TypeOK
    <2>3. Accepted(call[c].file)
      BY <1>0, <1>4 DEF UploadPut, CallInv
    <2>. QED
      BY <2>2, <2>3 DEF CallInv, At, Accepted, isAllowedMimeType, matchesMagicBytes
  <1>5. CASE VerifyInsert(c)
    <2>1. CASE call[c].status = "APPROVED"
      <3>1. PICK v \in Verification :
              /\ verifications' = [verifications EXCEPT ![v] =
                   [profile |-> call[c].profile, status |-> call[c].status]]
              /\ call' = [call EXCEPT ![c] =
                   [step |-> "verify:credential", profile |-> call[c].profile,
                    verification |-> v]]
        BY <1>5, <2>1 DEF VerifyInsert
      <3>2. /\ call'[c].step = "verify:credential" /\ call'[c].verification = v
            /\ call'[c].profile = call[c].profile /\ "tab" \notin DOMAIN call'[c]
            /\ verifications'[v] = [profile |-> call[c].profile,
                                    status |-> "APPROVED"]
        BY <1>0, <2>1, <3>1 DEF TypeOK
      <3>. QED
        BY <3>2 DEF CallInv, At
    <2>2. CASE call[c].status # "APPROVED"
      <3>1. call'[c].step = "record" /\ "tab" \notin DOMAIN call'[c]
        BY <1>0, <1>5, <2>2 DEF VerifyInsert, ThenRecord, TypeOK
      <3>. QED
        BY <3>1, RestCall
    <2>. QED
      BY <2>1, <2>2
  <1>6. CASE ReadConsents(c)
    <2>1. /\ call[c] \in ReadCall
          /\ call[c].values \in Values /\ call[c].values \in call[c].seen
          /\ call[c].credentials = None
      BY <1>0, <1>6, CallKinds DEF ReadConsents, CallInv, At
    <2>2. PICK S \in SUBSET Scope :
            IF S = {} THEN Answer(c)
            ELSE call' = [call EXCEPT ![c] =
                   [call[c] EXCEPT
                     !.step = IF S \cap CredentialScopes = {} THEN "read:record"
                              ELSE "read:credentials",
                     !.scopes = S,
                     !.values = Disclosed(call[c].values, S)]]
      BY <1>6 DEF ReadConsents
    <2>3. CASE S = {}
      BY <1>0, <2>2, <2>3, RestCall DEF Answer, TypeOK
    <2>4. CASE S # {}
      <3>. DEFINE values == call[c].values
                  cut == Disclosed(values, S)
      <3>1. \A x \in DOMAIN cut :
              cut[x] = values[x] /\ \E s \in S : x \in ColumnsOf(s)
        BY DEF Disclosed
      <3>. HIDE DEF cut
      <3>2. /\ call'[c].step = IF S \cap CredentialScopes = {} THEN "read:record"
                               ELSE "read:credentials"
            /\ call'[c].scopes = S /\ call'[c].values = cut
            /\ call'[c].seen = call[c].seen
            /\ call'[c].credentials = None
            /\ "tab" \notin DOMAIN call'[c]
        <4>. DEFINE step == IF S \cap CredentialScopes = {} THEN "read:record"
                            ELSE "read:credentials"
        <4>1. call' = [call EXCEPT ![c] =
                [call[c] EXCEPT !.step = step, !.scopes = S, !.values = cut]]
          BY <2>2, <2>4 DEF cut
        <4>. HIDE DEF step
        <4>2. call'[c] = [call[c] EXCEPT !.step = step, !.scopes = S, !.values = cut]
          BY <1>0, <4>1 DEF TypeOK
        <4>3. /\ call'[c].step = step /\ call'[c].scopes = S
              /\ call'[c].values = cut /\ call'[c].seen = call[c].seen
              /\ call'[c].credentials = call[c].credentials
              /\ "tab" \notin DOMAIN call'[c]
          BY <2>1, <4>2 DEF ReadCall
        <4>. QED
          BY <2>1, <4>3 DEF step
      <3>3. OneState(call[c])'
        BY <2>1, <3>1, <3>2 DEF OneState
      <3>4. VerifiedOnly(call[c])'
        BY <3>2 DEF VerifiedOnly
      <3>. QED
        BY <3>2, <3>3, <3>4 DEF CallInv, At
    <2>. QED
      BY <2>3, <2>4
  <1>7. CASE ReadCredentials(c)
    <2>1. /\ call[c] \in ReadCall
          /\ call[c].scopes \cap CredentialScopes # {}
          /\ OneState(call[c])
      BY <1>0, <1>7, CallKinds DEF ReadCredentials, CallInv, At
    <2>. DEFINE C == {v \in Verification :
                       /\ credentials[v] # None
                       /\ credentials[v].profile = call[c].profile}
    <2>2. /\ call'[c] = [call[c] EXCEPT !.step = "read:record", !.credentials = C]
          /\ verifications' = verifications
      BY <1>0, <1>7 DEF ReadCredentials, TypeOK
    <2>3. \A v \in C : verifications[v] = [profile |-> call[c].profile,
                                           status |-> "APPROVED"]
      BY <1>0 DEF CredentialsAreVerified
    <2>. HIDE DEF C
    <2>4. /\ call'[c].step = "read:record" /\ call'[c].credentials = C
          /\ call'[c].scopes = call[c].scopes /\ call'[c].seen = call[c].seen
          /\ call'[c].values = call[c].values
          /\ call'[c].profile = call[c].profile
          /\ "tab" \notin DOMAIN call'[c]
      BY <2>1, <2>2 DEF ReadCall
    <2>5. OneState(call[c])'
      BY <2>1, <2>4 DEF OneState
    <2>6. VerifiedOnly(call[c])'
      BY <2>1, <2>2, <2>3, <2>4 DEF VerifiedOnly
    <2>. QED
      BY <2>4, <2>5, <2>6 DEF CallInv, At
  <1>. QED
    BY <1>1, <1>2, <1>3, <1>4, <1>5, <1>6, <1>7 DEF Continue

\* The calls that do not move.
LEMMA Others ==
  ASSUME Inv, NEW c \in Call, Start(c) \/ Continue(c) \/ Fail(c),
         NEW d \in Call, d # c
  PROVE  \/ call'[d] = call[d]
         \/ /\ call[d] \in ReadCall
            /\ \E v \in Values : call'[d] = [call[d] EXCEPT !.seen = @ \cup {v}]
  <1>0. TypeOK
    BY DEF Inv
  <1>1. ASSUME NEW record, NEW late, Begin(c, record, late)
        PROVE  call'[d] = call[d]
    BY <1>0, <1>1 DEF Begin, TypeOK
  <1>2. CASE Start(c)
    BY <1>1, <1>2 DEF Start, Save, Upload, Review, Verify, Read
  <1>3. CASE SaveInsert(c) \/ SaveUpdate(c)
    <2>1. call[c].values \in Values
      BY <1>0, <1>3, CallKinds DEF SaveInsert, SaveUpdate, SaveCall, At
    <2>2. ASSUME NEW p, NEW says, Saved(c, p, says)
          PROVE  \/ call'[d] = call[d]
                 \/ /\ call[d] \in ReadCall
                    /\ \E v \in Values :
                         call'[d] = [call[d] EXCEPT !.seen = @ \cup {v}]
      <3>1. "seen" \in DOMAIN call[d] => call[d] \in ReadCall
        BY <1>0, CallKinds, Fields
      <3>. QED
        BY <2>1, <2>2, <3>1 DEF Saved
    <2>. QED
      BY <1>0, <1>3, <2>2 DEF SaveInsert, SaveUpdate, Answer, TypeOK
  <1>4. CASE SaveRecord(c) \/ ReadRecord(c) \/ Record(c) \/ Fail(c)
    BY <1>0, <1>4 DEF SaveRecord, ReadRecord, Record, Fail, Answer, TypeOK
  <1>5. CASE UploadPut(c) \/ UploadInsert(c) \/ ReviewUpdate(c)
             \/ VerifyInsert(c) \/ IssueCredential(c)
    BY <1>0, <1>5 DEF UploadPut, UploadInsert, ReviewUpdate, VerifyInsert,
       IssueCredential, ThenRecord, TypeOK
  <1>6. CASE ReadConsents(c) \/ ReadCredentials(c)
    BY <1>0, <1>6 DEF ReadConsents, ReadCredentials, Answer, TypeOK
  <1>. QED
    BY <1>2, <1>3, <1>4, <1>5, <1>6 DEF Continue

LEMMA InvStep ==
  ASSUME Inv, [Next]_vars PROVE Inv'
  <1>1. ASSUME NEW d \in Call PROVE CallInv(d)'
    <2>1. ASSUME NEW c \in Call, Start(c) \/ Continue(c) \/ Fail(c)
          PROVE  CallInv(d)'
      <3>1. CASE d # c
        BY <2>1, <3>1, Others, KeptCall
      <3>2. CASE d = c /\ Fail(c)
        BY <3>2, RestCall DEF Fail, Answer, Inv, TypeOK
      <3>. QED
        BY <2>1, <3>1, <3>2, StartedCall, ContinuedCall
    <2>2. ASSUME NEW t \in Tab, NEW u \in User, Open(t, u) PROVE CallInv(d)'
      BY <2>2, KeptCall DEF Open
    <2>3. CASE UNCHANGED vars
      BY <2>3, KeptCall DEF vars
    <2>. QED
      BY <2>1, <2>2, <2>3 DEF Next
  <1>. QED
    BY <1>1, TypeStep, DocumentsStep, CredentialsStep DEF Inv

----------------------------------------------------------------------------
(* Theorems.                                                               *)

\* The invariant behind the theorems about rows, files and reads.
THEOREM Invariance == Spec => []Inv
  BY InvInit, InvStep, PTL DEF Spec

\* Tables, storage, forms and calls have the shape the schema and the code give.
THEOREM TypeCorrect == Spec => []TypeOK
  <1>1. Inv => TypeOK
    BY DEF Inv
  <1>. QED
    BY <1>1, Invariance, PTL

\* A document's file is in the storage, of the type its row says, however
\* uploads, reviews and failures interleave.
THEOREM FilesAreThere == Spec => []DocumentsAreStored
  <1>1. Inv => DocumentsAreStored
    BY DEF Inv
  <1>. QED
    BY <1>1, Invariance, PTL

\* A credential stands for an approved verification of its profile.
THEOREM NothingUnverified == Spec => []CredentialsAreVerified
  <1>1. Inv => CredentialsAreVerified
    BY DEF Inv
  <1>. QED
    BY <1>1, Invariance, PTL

\* A read answers one state of the profile, cut to what was granted, and
\* credentials of approved verifications only.
THEOREM ReadsAreTrue == Spec => []ServedIsTrue
  <1>1. Inv => ServedIsTrue
    BY DEF Inv, CallInv, ServedIsTrue, OneState, VerifiedOnly
  <1>. QED
    BY <1>1, Invariance, PTL

----------------------------------------------------------------------------
(* Calls that do not cross: a profile is as it was saved, a review is logged. *)

About(c, w) == "who" \in DOMAIN call[c] /\ call[c].who = w

Step(c) == Start(c) \/ Continue(c) \/ Fail(c)

\* Nobody crosses unnoticed.
Alone ==
  \A w \in User \cup Doc : w \notin crossed =>
    \A c, d \in Call : About(c, w) /\ About(d, w) => c = d

\* A document that a call is about has its file.
HasFile == \A d \in Doc, c \in Call : About(c, d) => stored[d] # None

Word(d) == IF docs[d].status = "PENDING" THEN "DOCUMENT_UPLOADED"
           ELSE docs[d].status

\* The entry that is to be written says what the row does.
Reported ==
  \A d \in Doc : d \notin crossed =>
    \A c \in Call : About(c, d) /\ At(c, "record") =>
      docs[d] # None /\ call[c].says = Word(d)

----------------------------------------------------------------------------
(* Which calls a step makes be about a user or a document.                 *)

LEMMA OthersAbout ==
  ASSUME Inv, NEW c \in Call, Step(c), NEW d \in Call, d # c, NEW w
  PROVE  /\ About(d, w)' <=> About(d, w)
         /\ About(d, w) => call'[d] = call[d]
  <1>1. CASE call'[d] = call[d]
    BY <1>1 DEF About
  <1>2. ASSUME call[d] \in ReadCall, NEW v,
               call'[d] = [call[d] EXCEPT !.seen = @ \cup {v}]
        PROVE  "who" \notin DOMAIN call[d] /\ "who" \notin DOMAIN call'[d]
    <2>1. "who" \notin DOMAIN call[d]
      BY <1>2 DEF ReadCall
    <2>2. ASSUME NEW r \in ReadCall, NEW s, NEW q, q = [r EXCEPT !.seen = s]
          PROVE  DOMAIN q = DOMAIN r
      BY <2>2 DEF ReadCall
    <2>3. \E s : call'[d] = [call[d] EXCEPT !.seen = s]
      BY <1>2
    <2>. QED
      BY <1>2, <2>1, <2>2, <2>3
  <1>. QED
    BY <1>1, <1>2, Others DEF About, Step

LEMMA CrossedStays ==
  ASSUME [Next]_vars PROVE crossed \subseteq crossed'
  <1>1. ASSUME NEW c, NEW record, NEW late, Begin(c, record, late)
        PROVE  crossed \subseteq crossed'
    BY <1>1 DEF Begin
  <1>2. ASSUME NEW c, Start(c) PROVE crossed \subseteq crossed'
    BY <1>1, <1>2 DEF Start, Save, Upload, Review, Verify, Read
  <1>3. ASSUME NEW c, Continue(c) PROVE crossed \subseteq crossed'
    BY <1>3 DEF Continue, SaveInsert, SaveUpdate, SaveRecord, UploadPut,
       UploadInsert, ReviewUpdate, VerifyInsert, IssueCredential, ReadConsents,
       ReadCredentials, ReadRecord, Record
  <1>. QED
    BY <1>2, <1>3 DEF Next, Open, Fail, vars

\* A call becomes about w when it begins, alone or crossing, or when it takes a
\* fresh id for a document.
LEMMA OwnAbout ==
  ASSUME Inv, NEW c \in Call, Step(c), NEW w \in User \cup Doc, About(c, w)'
  PROVE  \/ About(c, w)
         \/ /\ w \notin crossed' => \A d \in Call : ~About(d, w)
            /\ w \in Doc => stored[w] # None
            /\ call[c] = Idle /\ ~At(c, "record")'
         \/ w \in Doc /\ stored[w] = None /\ stored'[w] # None
                      /\ At(c, "upload:put") /\ At(c, "upload:insert")'
  <1>. USE NoneAssumption, IdAssumption
  <1>0. TypeOK /\ DocumentsAreStored
    BY DEF Inv
  <1>. DEFINE Goal ==
         \/ About(c, w)
         \/ /\ w \notin crossed' => \A d \in Call : ~About(d, w)
            /\ w \in Doc => stored[w] # None
            /\ call[c] = Idle /\ ~At(c, "record")'
         \/ w \in Doc /\ stored[w] = None /\ stored'[w] # None
                      /\ At(c, "upload:put") /\ At(c, "upload:insert")'
  <1>1. ASSUME NEW record, NEW late, Begin(c, record, late),
               w \in Doc => stored[w] # None, record.step # "record"
        PROVE  Goal
    <2>1. call'[c] = record /\ call[c] = Idle
      BY <1>0, <1>1 DEF Begin, TypeOK
    <2>2. "who" \in DOMAIN record /\ w = record.who
      BY <2>1 DEF About
    <2>. QED
      BY <1>1, <2>1, <2>2 DEF Begin, About, At
  <1>2. ASSUME NEW t \in Tab, NEW new \in Values, Save(c, t, new) PROVE Goal
    <2>1. form[t].user \in User
      BY <1>0, <1>2 DEF Save, TypeOK, Form
    <2>2. w \notin Doc
      BY <1>0, <1>2, <2>1 DEF Save, Begin, About, TypeOK
    <2>. QED
      BY <1>1, <1>2, <2>2 DEF Save
  <1>3. ASSUME NEW d \in Doc, NEW says, Review(c, d, says) PROVE Goal
    <2>1. docs[d] \in DocRow /\ stored[d] \in File
      BY <1>0, <1>3 DEF Review, TypeOK, DocumentsAreStored, DocRow
    <2>2. w = d
      BY <1>0, <1>3 DEF Review, Begin, About, TypeOK
    <2>. QED
      BY <1>1, <1>3, <2>1, <2>2 DEF Review
  <1>4. ASSUME \/ \E p \in Profile, f \in File : Upload(c, p, f)
               \/ \E p \in Profile, status \in VerificationStatus :
                    Verify(c, p, status)
               \/ \E p \in Profile : Read(c, p)
        PROVE  FALSE
    BY <1>0, <1>4 DEF Upload, Verify, Read, Begin, About, TypeOK
  <1>5. ASSUME SaveInsert(c) \/ SaveUpdate(c) PROVE Goal
    <2>1. call[c] \in SaveCall
      BY <1>0, <1>5, CallKinds DEF SaveInsert, SaveUpdate, At
    <2>2. ASSUME NEW p, NEW says, Saved(c, p, says) PROVE Goal
      BY <2>1, <2>2 DEF Saved, About, SaveCall
    <2>3. ~Answer(c)
      BY <1>0 DEF Answer, About, Idle, TypeOK
    <2>. QED
      BY <1>5, <2>2, <2>3 DEF SaveInsert, SaveUpdate
  <1>6. ASSUME \/ SaveRecord(c) \/ ReadRecord(c) \/ Record(c) \/ Fail(c)
               \/ ReadConsents(c) \/ ReadCredentials(c)
        PROVE  Goal
    <2>1. ~Answer(c)
      BY <1>0 DEF Answer, About, Idle, TypeOK
    <2>2. CASE ReadConsents(c) \/ ReadCredentials(c)
      <3>1. call[c] \in ReadCall
        BY <1>0, <2>2, CallKinds DEF ReadConsents, ReadCredentials, At
      <3>2. call' \in [Call -> CallState] /\ call'[c].step \in
              {"read:credentials", "read:record"}
        <4>1. TypeOK'
          BY <2>2, TypeStep DEF Next, Continue
        <4>2. CASE ReadCredentials(c)
          BY <1>0, <3>1, <4>1, <4>2 DEF ReadCredentials, TypeOK, ReadCall
        <4>3. CASE ReadConsents(c)
          <5>1. PICK S \in SUBSET Scope, step \in {"read:credentials", "read:record"} :
                  call' = [call EXCEPT ![c] =
                    [call[c] EXCEPT !.step = step, !.scopes = S,
                                    !.values = Disclosed(call[c].values, S)]]
            BY <2>1, <4>3 DEF ReadConsents
          <5>. DEFINE cut == Disclosed(call[c].values, S)
          <5>2. call'[c] = [call[c] EXCEPT !.step = step, !.scopes = S,
                                           !.values = cut]
            BY <1>0, <5>1 DEF TypeOK
          <5>. HIDE DEF cut
          <5>3. call'[c].step = step
            BY <3>1, <5>2 DEF ReadCall
          <5>. QED
            BY <4>1, <5>3 DEF TypeOK
        <4>. QED
          BY <2>2, <4>2, <4>3
      <3>3. "who" \notin DOMAIN call'[c]
        BY <3>2 DEF CallState, Idle, SaveCall, SavedCall, UploadCall, PutCall,
           ReviewCall, VerifyCall, IssueCall, RecordCall, ReadCall
      <3>. QED
        BY <3>3 DEF About
    <2>. QED
      BY <1>6, <2>1, <2>2 DEF SaveRecord, ReadRecord, Record, Fail
  <1>7. ASSUME UploadPut(c) PROVE Goal
    <2>1. PICK d \in Doc :
            /\ stored[d] = None
            /\ stored' = [stored EXCEPT ![d] = call[c].file]
            /\ call' = [call EXCEPT ![c] =
                 [step |-> "upload:insert", who |-> d,
                  profile |-> call[c].profile, file |-> call[c].file]]
      BY <1>7 DEF UploadPut
    <2>2. call[c] \in UploadCall
      BY <1>0, <1>7, CallKinds DEF UploadPut
    <2>3. w = d /\ stored'[d] # None /\ call'[c].step = "upload:insert"
      BY <1>0, <2>1, <2>2 DEF About, TypeOK, UploadCall
    <2>. QED
      BY <1>7, <2>1, <2>3 DEF UploadPut, At
  <1>8. ASSUME UploadInsert(c) \/ ReviewUpdate(c) PROVE Goal
    <2>1. call[c] \in PutCall \cup ReviewCall
      BY <1>0, <1>8, CallKinds DEF UploadInsert, ReviewUpdate
    <2>2. call'[c].who = call[c].who
      BY <1>0, <1>8 DEF UploadInsert, ReviewUpdate, ThenRecord, TypeOK
    <2>. QED
      BY <2>1, <2>2 DEF About, PutCall, ReviewCall
  <1>9. ASSUME VerifyInsert(c) \/ IssueCredential(c) PROVE Goal
    <2>1. call[c].profile \in Profile
      BY <1>0, <1>9, CallKinds DEF VerifyInsert, IssueCredential, VerifyCall,
         IssueCall
    <2>2. CASE call'[c].step = "verify:credential"
      <3>1. TypeOK'
        BY <1>9, TypeStep DEF Next, Continue
      <3>2. "who" \notin DOMAIN call'[c]
        BY <2>2, <3>1 DEF TypeOK, CallState, Idle, SaveCall, SavedCall, UploadCall, PutCall,
           ReviewCall, VerifyCall, IssueCall, RecordCall, ReadCall
      <3>. QED
        BY <3>2 DEF About
    <2>3. CASE call'[c].step # "verify:credential"
      <3>1. call'[c].who = call[c].profile
        BY <1>0, <1>9, <2>3 DEF VerifyInsert, IssueCredential, ThenRecord, TypeOK
      <3>. QED
        BY <2>1, <3>1 DEF About
    <2>. QED
      BY <2>2, <2>3
  <1>. HIDE DEF Goal
  <1>10. Goal
    BY <1>2, <1>3, <1>4, <1>5, <1>6, <1>7, <1>8, <1>9
       DEF Step, Start, Continue
  <1>. QED
    BY <1>10 DEF Goal----------------------------------------------------------------------------
(* Calls that do not cross.                                                *)

LEMMA AloneStep ==
  ASSUME Inv, Alone, HasFile, [Next]_vars PROVE Alone' /\ HasFile'
  <1>1. crossed \subseteq crossed' /\ Keeps
    BY CrossedStays, StepKeeps
  <1>2. ASSUME NEW c \in Call, Step(c) PROVE Alone' /\ HasFile'
    <2>1. ASSUME NEW w \in User \cup Doc, w \notin crossed', NEW d \in Call,
                 d # c, About(c, w)', About(d, w)'
          PROVE  FALSE
      <3>1. About(d, w)
        BY <1>2, <2>1, OthersAbout
      <3>2. ~About(c, w)
        BY <1>1, <2>1, <3>1 DEF Alone
      <3>3. ~(w \in Doc /\ stored[w] = None)
        BY <3>1 DEF HasFile
      <3>. QED
        BY <1>2, <2>1, <3>1, <3>2, <3>3, OwnAbout
    <2>2. ASSUME NEW w \in User \cup Doc, w \notin crossed',
                 NEW d \in Call, NEW e \in Call, d # c, e # c,
                 About(d, w)', About(e, w)'
          PROVE  d = e
      BY <1>1, <1>2, <2>2, OthersAbout DEF Alone
    <2>3. Alone'
      BY <2>1, <2>2 DEF Alone
    <2>4. ASSUME NEW d \in Doc, NEW e \in Call, About(e, d)'
          PROVE  stored'[d] # None
      <3>1. CASE e # c
        BY <1>1, <1>2, <2>4, <3>1, OthersAbout DEF HasFile, Keeps
      <3>2. CASE e = c
        BY <1>1, <1>2, <2>4, <3>2, OwnAbout DEF HasFile, Keeps
      <3>. QED
        BY <3>1, <3>2
    <2>. QED
      BY <2>3, <2>4 DEF HasFile
  <1>3. CASE (\E t \in Tab, u \in User : Open(t, u)) \/ UNCHANGED vars
    BY <1>3 DEF Open, vars, Alone, HasFile, About
  <1>. QED
    BY <1>2, <1>3 DEF Next, Step

----------------------------------------------------------------------------
(* Reviews.                                                                *)

\* A step of a call that is not about d leaves its row and its entry alone.
LEMMA DocFootprint ==
  ASSUME Inv, NEW c \in Call, Step(c), NEW d \in Doc, ~About(c, d)
  PROVE  docs'[d] = docs[d] /\ log'[d] = log[d]
  <1>. USE IdAssumption
  <1>0. TypeOK
    BY DEF Inv
  <1>1. CASE Start(c)
    BY <1>1 DEF Start, Save, Upload, Review, Verify, Read
  <1>2. CASE UploadInsert(c) \/ ReviewUpdate(c)
    <2>1. call[c] \in PutCall \cup ReviewCall
      BY <1>0, <1>2, CallKinds DEF UploadInsert, ReviewUpdate
    <2>2. call[c].who # d
      BY <2>1 DEF About, PutCall, ReviewCall
    <2>. QED
      BY <1>0, <1>2, <2>2 DEF UploadInsert, ReviewUpdate, TypeOK
  <1>3. CASE SaveRecord(c) \/ ReadRecord(c)
    <2>1. call[c] \in SavedCall \cup ReadCall
      BY <1>0, <1>3, CallKinds DEF SaveRecord, ReadRecord, At
    <2>2. call[c].profile # d
      BY <2>1 DEF SavedCall, ReadCall
    <2>. QED
      BY <1>0, <1>3, <2>2 DEF SaveRecord, ReadRecord, TypeOK, Thing
  <1>4. CASE Record(c)
    <2>1. call[c] \in RecordCall
      BY <1>0, <1>4, CallKinds DEF Record
    <2>2. call[c].who # d
      BY <2>1 DEF About, RecordCall
    <2>. QED
      BY <1>0, <1>4, <2>2 DEF Record, TypeOK
  <1>5. CASE \/ SaveInsert(c) \/ SaveUpdate(c) \/ UploadPut(c)
             \/ VerifyInsert(c) \/ IssueCredential(c)
             \/ ReadConsents(c) \/ ReadCredentials(c) \/ Fail(c)
    BY <1>5 DEF SaveInsert, SaveUpdate, UploadPut, VerifyInsert,
       IssueCredential, ReadConsents, ReadCredentials, Fail
  <1>. QED
    BY <1>1, <1>2, <1>3, <1>4, <1>5 DEF Step, Continue

\* A step of a call about d fails, writes the row, or writes the entry.
LEMMA DocProgress ==
  ASSUME Inv, NEW c \in Call, Step(c), NEW d \in Doc, About(c, d)
  PROVE  \/ d \in crossed'
         \/ /\ docs'[d] # None /\ At(c, "record")' /\ About(c, d)'
            /\ call'[c].says = Word(d)'
         \/ /\ docs'[d] = docs[d] /\ log'[d] = call[c].says
            /\ At(c, "record") /\ call'[c] = Idle
  <1>. USE IdAssumption, NoneAssumption
  <1>0. TypeOK /\ CallInv(c)
    BY DEF Inv
  <1>1. CASE Start(c)
    <2>1. call[c] = Idle
      BY <1>1 DEF Start, Save, Upload, Review, Verify, Read, Begin
    <2>. QED
      BY <2>1 DEF About, Idle
  <1>2. CASE UploadInsert(c)
    <2>1. call[c] \in PutCall /\ call[c].who = d
      BY <1>0, <1>2, CallKinds DEF UploadInsert, About
    <2>2. [profile |-> call[c].profile, file |-> call[c].file,
           status |-> "PENDING"] \in DocRow
      BY <2>1 DEF PutCall, DocRow
    <2>3. docs'[d] = [profile |-> call[c].profile, file |-> call[c].file,
                      status |-> "PENDING"]
      BY <1>0, <1>2, <2>1 DEF UploadInsert, TypeOK
    <2>4. /\ call'[c].step = "record" /\ call'[c].says = "DOCUMENT_UPLOADED"
          /\ About(c, d)'
      BY <1>0, <1>2, <2>1 DEF UploadInsert, ThenRecord, TypeOK, About
    <2>. QED
      BY <2>2, <2>3, <2>4 DEF At, Word
  <1>3. CASE ReviewUpdate(c)
    <2>1. call[c] \in ReviewCall /\ call[c].who = d /\ docs[d] \in DocRow
      BY <1>0, <1>3, CallKinds DEF ReviewUpdate, CallInv, TypeOK, ReviewCall, About
    <2>2. [docs[d] EXCEPT !.status = call[c].says] \in DocRow
      BY <2>1 DEF ReviewCall, DocRow
    <2>3. docs'[d] = [docs[d] EXCEPT !.status = call[c].says]
      BY <1>0, <1>3, <2>1 DEF ReviewUpdate, TypeOK
    <2>4. /\ call'[c].step = "record" /\ call'[c].says = call[c].says
          /\ About(c, d)'
      BY <1>0, <1>3, <2>1 DEF ReviewUpdate, ThenRecord, TypeOK, About
    <2>5. docs'[d].status = call[c].says /\ call[c].says # "PENDING"
      BY <2>1, <2>3 DEF DocRow, ReviewCall
    <2>. QED
      BY <2>2, <2>3, <2>4, <2>5 DEF At, Word
  <1>4. CASE Record(c)
    BY <1>0, <1>4 DEF Record, Answer, About, TypeOK, Thing
  <1>5. CASE Fail(c)
    BY <1>5 DEF Fail, About
  <1>6. CASE \/ SaveInsert(c) \/ SaveUpdate(c) \/ SaveRecord(c)
    <2>1. call[c] \in SaveCall \cup SavedCall
      BY <1>0, <1>6, CallKinds DEF SaveInsert, SaveUpdate, SaveRecord, At
    <2>2. call[c].who \notin Doc
      BY <2>1 DEF SaveCall, SavedCall
    <2>. QED
      BY <2>2 DEF About
  <1>7. CASE \/ UploadPut(c) \/ VerifyInsert(c) \/ IssueCredential(c)
             \/ ReadConsents(c) \/ ReadCredentials(c) \/ ReadRecord(c)
    <2>1. "who" \notin DOMAIN call[c]
      BY <1>0, <1>7, Fields DEF UploadPut, VerifyInsert, IssueCredential,
         ReadConsents, ReadCredentials, ReadRecord, At
    <2>. QED
      BY <2>1 DEF About
  <1>. QED
    BY <1>1, <1>2, <1>3, <1>4, <1>5, <1>6, <1>7 DEF Step, Continue

LEMMA ReviewStep ==
  ASSUME Inv, Alone, HasFile, Reported, ReviewIsLogged, [Next]_vars
  PROVE  Reported' /\ ReviewIsLogged'
  <1>. USE NoneAssumption
  <1>0. TypeOK
    BY DEF Inv
  <1>1. crossed \subseteq crossed'
    BY CrossedStays
  <1>. DEFINE Fine(d) ==
         /\ \A e \in Call : About(e, d) /\ At(e, "record") =>
              docs[d] # None /\ call[e].says = Word(d)
         /\ docs[d] # None /\ (\A e \in Call : ~About(e, d)) => log[d] = Word(d)
  <1>2. ASSUME NEW c \in Call, Step(c), NEW d \in Doc, d \notin crossed'
        PROVE  Fine(d)'
    <2>0. d \notin crossed /\ Fine(d)
      BY <1>1, <1>2 DEF Reported, ReviewIsLogged, Settled, About, Word
    <2>1. \A e \in Call \ {c} : /\ About(e, d)' <=> About(e, d)
                                /\ About(e, d) => call'[e] = call[e]
      BY <1>2, OthersAbout
    <2>2. CASE About(c, d)
      <3>1. \A e \in Call \ {c} : ~About(e, d) /\ ~About(e, d)'
        BY <1>2, <2>0, <2>1, <2>2 DEF Alone
      <3>2. CASE /\ docs'[d] # None /\ At(c, "record")' /\ About(c, d)'
                 /\ call'[c].says = Word(d)'
        BY <3>1, <3>2
      <3>3. CASE /\ docs'[d] = docs[d] /\ log'[d] = call[c].says
                 /\ At(c, "record") /\ call'[c] = Idle
        <4>1. docs[d] # None /\ call[c].says = Word(d) /\ Word(d)' = Word(d)
          BY <2>0, <2>2, <3>3 DEF Word
        <4>2. ~About(c, d)'
          BY <3>3 DEF About, Idle
        <4>. QED
          BY <3>1, <3>3, <4>1, <4>2
      <3>. QED
        BY <1>2, <2>2, <3>2, <3>3, DocProgress
    <2>3. CASE ~About(c, d)
      <3>1. docs'[d] = docs[d] /\ log'[d] = log[d] /\ Word(d)' = Word(d)
        BY <1>2, <2>3, DocFootprint DEF Word
      <3>2. CASE About(c, d)'
        <4>1. ~At(c, "record")'
          BY <1>2, <2>3, <3>2, OwnAbout DEF At
        <4>. QED
          BY <2>0, <2>1, <3>1, <3>2, <4>1 DEF At
      <3>3. CASE ~About(c, d)'
        BY <2>0, <2>1, <2>3, <3>1, <3>3 DEF At
      <3>. QED
        BY <3>2, <3>3
    <2>. QED
      BY <2>2, <2>3
  <1>3. ASSUME NEW d \in Doc, d \notin crossed',
               (\E t \in Tab, u \in User : Open(t, u)) \/ UNCHANGED vars
        PROVE  Fine(d)'
    <2>1. Fine(d)
      BY <1>1, <1>3 DEF Reported, ReviewIsLogged, Settled, About, Word
    <2>. QED
      BY <1>3, <2>1 DEF Open, vars, About, At, Word
  <1>. HIDE DEF Fine
  <1>4. \A d \in Doc : d \notin crossed' => Fine(d)'
    BY <1>2, <1>3 DEF Next, Step
  <1>. QED
    BY <1>4 DEF Fine, Reported, ReviewIsLogged, Settled, About, Word----------------------------------------------------------------------------
(* Saves.                                                                  *)

One == \A u \in User : \A p, q \in ProfilesOf(u) : p = q

\* A save changes what its user edited, and nothing else.
Rest(r, u) ==
  edited[u] # None => \A x \in Column \ r.changed : r.values[x] = edited[u][x]

\* Nobody saves, or one save is under way, before its statement or after it.
Sound(u) ==
  /\ (\A c \in Call : ~About(c, u)) => Shown(u) = edited[u]
  /\ \A c \in Call : About(c, u) =>
       /\ Rest(call[c], u)
       /\ At(c, "save:insert") \/ At(c, "save:update") => Shown(u) = edited[u]
       /\ At(c, "save:record") => Shown(u) = call[c].values

SavesSound == \A u \in User : u \notin crossed => Sound(u)

LEMMA OnlyOne ==
  ASSUME NEW P, NEW p \in P, \A q \in P : q = p
  PROVE  (CHOOSE q \in P : TRUE) = p
  <1>1. (CHOOSE q \in P : TRUE) \in P
    OBVIOUS
  <1>. QED
    BY <1>1

\* What the statements of a save of u do to the table.
LEMMA SaveStatements ==
  ASSUME Inv, One, NEW c \in Call, SaveInsert(c) \/ SaveUpdate(c),
         NEW u \in User, call[c].who = u
  PROVE  \/ call'[c] = Idle /\ profiles' = profiles
         \/ \E p \in Profile :
              /\ ProfilesOf(u) \subseteq {p} /\ ProfilesOf(u)' = {p}
              /\ profiles'[p].values = call[c].values
              /\ profiles'[p].user = u
              /\ \A q \in Profile \ {p} : profiles'[q] = profiles[q]
              /\ profiles[p] = None \/ profiles[p].user = u
              /\ call'[c].step = "save:record" /\ About(c, u)'
              /\ call'[c].values = call[c].values
              /\ call'[c].changed = call[c].changed
  <1>. USE NoneAssumption
  <1>0. TypeOK
    BY DEF Inv
  <1>1. call[c] \in SaveCall /\ call[c].values \in Values
    <2>1. call[c] \in SaveCall
      BY <1>0, CallKinds DEF SaveInsert, SaveUpdate, At
    <2>. QED
      BY <2>1 DEF SaveCall
  <1>2. ASSUME NEW p, NEW says, Saved(c, p, says)
        PROVE  /\ call'[c].step = "save:record" /\ About(c, u)'
               /\ call'[c].values = call[c].values
               /\ call'[c].changed = call[c].changed
    BY <1>2 DEF Saved, About
  <1>3. CASE SaveInsert(c)
    <2>1. CASE ProfilesOf(u) # {}
      BY <1>0, <1>3, <2>1 DEF SaveInsert, Answer, TypeOK
    <2>2. CASE ProfilesOf(u) = {}
      <3>1. PICK p \in Profile :
              /\ profiles[p] = None
              /\ profiles' = [profiles EXCEPT ![p] =
                   [user |-> u, values |-> call[c].values]]
              /\ Saved(c, p, "IDENTITY_CREATED")
        BY <1>3, <2>2 DEF SaveInsert
      <3>2. [user |-> u, values |-> call[c].values] \in ProfileRow
        BY <1>1 DEF ProfileRow
      <3>3. /\ profiles'[p] = [user |-> u, values |-> call[c].values]
            /\ \A q \in Profile \ {p} : profiles'[q] = profiles[q]
        BY <1>0, <3>1 DEF TypeOK
      <3>4. ProfilesOf(u)' = {p}
        BY <2>2, <3>2, <3>3 DEF ProfilesOf
      <3>. QED
        BY <1>2, <2>2, <3>1, <3>3, <3>4
    <2>. QED
      BY <2>1, <2>2
  <1>4. CASE SaveUpdate(c)
    <2>1. PICK p \in ProfilesOf(u) :
            /\ profiles' = [profiles EXCEPT ![p].values = call[c].values]
            /\ Saved(c, p, "IDENTITY_UPDATED")
      BY <1>4 DEF SaveUpdate
    <2>2. p \in Profile /\ profiles[p] \in ProfileRow /\ profiles[p].user = u
      BY <1>0, <2>1 DEF ProfilesOf, TypeOK
    <2>3. [profiles[p] EXCEPT !.values = call[c].values] \in ProfileRow
      BY <1>1, <2>2 DEF ProfileRow
    <2>4. /\ profiles'[p] = [profiles[p] EXCEPT !.values = call[c].values]
          /\ \A q \in Profile \ {p} : profiles'[q] = profiles[q]
      BY <1>0, <2>1, <2>2 DEF TypeOK
    <2>5. profiles'[p].values = call[c].values /\ profiles'[p].user = u
      BY <2>2, <2>4 DEF ProfileRow
    <2>6. ProfilesOf(u) = {p}
      BY <2>1 DEF One
    <2>7. ProfilesOf(u)' = {p}
      BY <2>2, <2>3, <2>4, <2>5, <2>6 DEF ProfilesOf
    <2>. QED
      BY <1>2, <2>1, <2>2, <2>4, <2>5, <2>6, <2>7
  <1>. QED
    BY <1>3, <1>4

\* Other steps do not write profiles.
LEMMA OtherStatements ==
  ASSUME NEW c \in Call, Step(c), ~SaveInsert(c), ~SaveUpdate(c)
  PROVE  profiles' = profiles
  BY DEF Step, Start, Save, Upload, Review, Verify, Read, Continue, SaveRecord,
     UploadPut, UploadInsert, ReviewUpdate, VerifyInsert, IssueCredential,
     ReadConsents, ReadCredentials, ReadRecord, Record, Fail

\* A step of a call that is not about u leaves the profile of u alone.
LEMMA ProfileFootprint ==
  ASSUME Inv, One, NEW c \in Call, Step(c), NEW u \in User, ~About(c, u)
  PROVE  /\ ProfilesOf(u)' = ProfilesOf(u)
         /\ Shown(u)' = Shown(u)
         /\ edited'[u] = edited[u]
  <1>0. TypeOK
    BY DEF Inv
  <1>1. ProfilesOf(u)' = ProfilesOf(u)
        /\ \A p \in ProfilesOf(u) : profiles'[p] = profiles[p]
    <2>1. CASE SaveInsert(c) \/ SaveUpdate(c)
      <3>1. call[c] \in SaveCall
        BY <1>0, <2>1, CallKinds DEF SaveInsert, SaveUpdate, At
      <3>2. PICK w \in User : call[c].who = w /\ w # u
        BY <3>1 DEF SaveCall, About
      <3>3. CASE profiles' = profiles
        BY <3>3 DEF ProfilesOf
      <3>4. ASSUME NEW p \in Profile,
                   profiles[p] = None \/ profiles[p].user = w,
                   ProfilesOf(w)' = {p}, profiles'[p].user = w,
                   \A q \in Profile \ {p} : profiles'[q] = profiles[q]
            PROVE  /\ ProfilesOf(u)' = ProfilesOf(u)
                   /\ \A q \in ProfilesOf(u) : profiles'[q] = profiles[q]
        <4>1. p \notin ProfilesOf(u) /\ p \notin ProfilesOf(u)'
          BY <3>2, <3>4 DEF ProfilesOf
        <4>. QED
          BY <3>4, <4>1 DEF ProfilesOf
      <3>. QED
        BY <2>1, <3>2, <3>3, <3>4, SaveStatements
    <2>2. CASE ~SaveInsert(c) /\ ~SaveUpdate(c)
      BY <2>2, OtherStatements DEF ProfilesOf
    <2>. QED
      BY <2>1, <2>2
  <1>2. Shown(u)' = Shown(u)
    <2>1. CASE ProfilesOf(u) = {}
      BY <1>1, <2>1 DEF Shown
    <2>2. CASE ProfilesOf(u) # {}
      <3>1. PICK p \in ProfilesOf(u) : \A q \in ProfilesOf(u) : q = p
        BY <2>2 DEF One
      <3>2. Shown(u) = profiles[p].values /\ Shown(u)' = profiles'[p].values
        BY <1>1, <2>2, <3>1, OnlyOne DEF Shown
      <3>. QED
        BY <1>1, <3>2
    <2>. QED
      BY <2>1, <2>2
  <1>3. edited'[u] = edited[u]
    <2>1. CASE SaveRecord(c)
      <3>1. call[c].who # u
        BY <1>0, <2>1, Fields DEF SaveRecord, About, At
      <3>. QED
        BY <1>0, <2>1, <3>1 DEF SaveRecord, TypeOK
    <2>2. CASE ~SaveRecord(c)
      BY <2>2 DEF Step, Start, Save, Upload, Review, Verify, Read, Continue,
         SaveInsert, SaveUpdate, UploadPut, UploadInsert, ReviewUpdate,
         VerifyInsert, IssueCredential, ReadConsents, ReadCredentials,
         ReadRecord, Record, Fail
    <2>. QED
      BY <2>1, <2>2
  <1>. QED
    BY <1>1, <1>2, <1>3

LEMMA OneStep ==
  ASSUME Inv, One, [Next]_vars PROVE One'
  <1>1. ASSUME NEW c \in Call, Step(c), NEW u \in User
        PROVE  \A p, q \in ProfilesOf(u)' : p = q
    <2>1. CASE ~About(c, u)
      BY <1>1, <2>1, ProfileFootprint DEF One
    <2>2. CASE About(c, u)
      <3>1. CASE SaveInsert(c) \/ SaveUpdate(c)
        <4>1. ProfilesOf(u)' = ProfilesOf(u) \/ \E p \in Profile : ProfilesOf(u)' = {p}
          BY <2>2, <3>1, SaveStatements DEF About, ProfilesOf
        <4>. QED
          BY <4>1 DEF One
      <3>2. CASE ~SaveInsert(c) /\ ~SaveUpdate(c)
        BY <1>1, <3>2, OtherStatements DEF One, ProfilesOf
      <3>. QED
        BY <3>1, <3>2
    <2>. QED
      BY <2>1, <2>2
  <1>2. CASE (\E t \in Tab, u \in User : Open(t, u)) \/ UNCHANGED vars
    BY <1>2 DEF Open, vars, One, ProfilesOf
  <1>. QED
    BY <1>1, <1>2 DEF Next, Step, One
\* A save that begins alone, from a form that is not out of date, keeps what
\* its user did not edit.
LEMMA SaveBegins ==
  ASSUME Inv, One, NEW c \in Call, Start(c), NEW u \in User, About(c, u)',
         u \notin crossed', Shown(u) = edited[u]
  PROVE  /\ Rest(call[c], u)'
         /\ ~At(c, "save:record")'
  <1>. USE NoneAssumption, IdAssumption
  <1>0. TypeOK
    BY DEF Inv
  <1>1. PICK t \in Tab, new \in Values : Save(c, t, new)
    <2>1. ASSUME NEW d \in Doc, NEW says, Review(c, d, says) PROVE FALSE
      BY <1>0, <2>1 DEF Review, Begin, About, TypeOK
    <2>2. ASSUME \/ \E p \in Profile, f \in File : Upload(c, p, f)
                 \/ \E p \in Profile, status \in VerificationStatus :
                      Verify(c, p, status)
                 \/ \E p \in Profile : Read(c, p)
          PROVE  FALSE
      BY <1>0, <2>2 DEF Upload, Verify, Read, Begin, About, TypeOK
    <2>. QED
      BY <2>1, <2>2 DEF Start
  <1>2. form[t] \in Form /\ form[t] # None
    BY <1>0, <1>1 DEF Save, TypeOK
  <1>3. /\ form[t].user = u
        /\ call'[c].step \in {"save:update", "save:insert"}
        /\ call'[c].values = new
        /\ call'[c].changed = Changed(form[t].values, new)
    BY <1>0, <1>1, <1>2 DEF Save, Begin, About, TypeOK
  <1>4. ~Outdated(t)
    <2>1. ASSUME Outdated(t) PROVE u \in crossed'
      BY <1>1, <1>3, <2>1 DEF Save, Begin
    <2>. QED
      BY <2>1
  <1>5. edited[u] # None => form[t].values = edited[u]
    <2>1. CASE ProfilesOf(u) = {}
      BY <2>1 DEF Shown
    <2>2. CASE ProfilesOf(u) # {}
      <3>1. PICK p \in ProfilesOf(u) : \A q \in ProfilesOf(u) : q = p
        BY <2>2 DEF One
      <3>2. Shown(u) = profiles[p].values
        BY <2>2, <3>1, OnlyOne DEF Shown
      <3>3. profiles[p].values = form[t].values
        BY <1>3, <1>4, <3>1 DEF Outdated
      <3>. QED
        BY <3>2, <3>3
    <2>. QED
      BY <2>1, <2>2
  <1>6. edited' = edited
    BY <1>1 DEF Save
  <1>7. edited[u] # None =>
          \A x \in Column \ call'[c].changed : call'[c].values[x] = edited[u][x]
    BY <1>3, <1>5 DEF Changed
  <1>. QED
    BY <1>3, <1>6, <1>7 DEF Rest, At

\* A save that goes on: its statement, its entry, or its failure.
LEMMA SaveProgress ==
  ASSUME Inv, One, NEW c \in Call, Step(c), NEW u \in User, About(c, u),
         Rest(call[c], u),
         At(c, "save:insert") \/ At(c, "save:update") => Shown(u) = edited[u],
         At(c, "save:record") => Shown(u) = call[c].values
  PROVE  \/ u \in crossed'
         \/ call'[c] = Idle /\ Shown(u)' = edited'[u]
         \/ /\ At(c, "save:record")' /\ About(c, u)' /\ Rest(call[c], u)'
            /\ Shown(u)' = call'[c].values
  <1>. USE NoneAssumption, IdAssumption
  <1>0. TypeOK
    BY DEF Inv
  <1>1. CASE SaveInsert(c) \/ SaveUpdate(c)
    <2>1. edited' = edited /\ Shown(u) = edited[u]
      BY <1>1 DEF SaveInsert, SaveUpdate
    <2>2. CASE call'[c] = Idle /\ profiles' = profiles
      BY <2>1, <2>2 DEF Shown, ProfilesOf
    <2>3. ASSUME NEW p \in Profile, ProfilesOf(u)' = {p},
                 profiles'[p].values = call[c].values,
                 call'[c].step = "save:record", About(c, u)',
                 call'[c].values = call[c].values,
                 call'[c].changed = call[c].changed
          PROVE  /\ At(c, "save:record")' /\ About(c, u)' /\ Rest(call[c], u)'
                 /\ Shown(u)' = call'[c].values
      <3>1. Shown(u)' = profiles'[p].values
        BY <2>3, OnlyOne DEF Shown
      <3>. QED
        BY <2>1, <2>3, <3>1 DEF Rest, At
    <2>4. call[c].who = u
      BY DEF About
    <2>. QED
      BY <1>1, <2>2, <2>3, <2>4, SaveStatements
  <1>2. CASE SaveRecord(c)
    <2>1. /\ call[c] \in SavedCall /\ call[c].who = u
          /\ Shown(u) = call[c].values /\ profiles' = profiles
          /\ call'[c] = Idle
      BY <1>0, <1>2, CallKinds DEF SaveRecord, About, Answer, TypeOK
    <2>2. Shown(u)' = call[c].values
      BY <2>1 DEF Shown, ProfilesOf
    <2>. DEFINE e == [x \in Column |->
                       IF edited[u] = None \/ x \in call[c].changed
                       THEN call[c].values[x] ELSE edited[u][x]]
    <2>3. edited'[u] = e
      BY <1>0, <1>2, <2>1 DEF SaveRecord, TypeOK
    <2>4. call[c].values \in Values
      BY <2>1 DEF SavedCall
    <2>5. \A x \in Column : e[x] = call[c].values[x]
      BY DEF Rest
    <2>6. e = call[c].values
      BY <2>4, <2>5 DEF Values
    <2>. QED
      BY <2>1, <2>2, <2>3, <2>6
  <1>3. CASE Fail(c)
    BY <1>3 DEF Fail, About
  <1>4. CASE Start(c)
    <2>1. call[c] = Idle
      BY <1>4 DEF Start, Save, Upload, Review, Verify, Read, Begin
    <2>. QED
      BY <2>1 DEF About, Idle
  <1>5. CASE UploadInsert(c) \/ ReviewUpdate(c) \/ Record(c)
    <2>1. call[c] \in PutCall \cup ReviewCall \cup RecordCall
      BY <1>0, <1>5, CallKinds DEF UploadInsert, ReviewUpdate, Record
    <2>2. call[c].who \in Profile \cup Doc
      BY <2>1 DEF PutCall, ReviewCall, RecordCall, Thing
    <2>. QED
      BY <2>2 DEF About
  <1>6. CASE \/ UploadPut(c) \/ VerifyInsert(c) \/ IssueCredential(c)
             \/ ReadConsents(c) \/ ReadCredentials(c) \/ ReadRecord(c)
    <2>1. "who" \notin DOMAIN call[c]
      BY <1>0, <1>6, Fields DEF UploadPut, VerifyInsert, IssueCredential,
         ReadConsents, ReadCredentials, ReadRecord, At
    <2>. QED
      BY <2>1 DEF About
  <1>. QED
    BY <1>1, <1>2, <1>3, <1>4, <1>5, <1>6 DEF Step, Continue

LEMMA SoundStep ==
  ASSUME Inv, One, Alone, HasFile, SavesSound, [Next]_vars
  PROVE  SavesSound'
  <1>. USE IdAssumption
  <1>1. crossed \subseteq crossed'
    BY CrossedStays
  <1>2. ASSUME NEW c \in Call, Step(c), NEW u \in User, u \notin crossed'
        PROVE  Sound(u)'
    <2>0. u \notin crossed /\ Sound(u)
      BY <1>1, <1>2 DEF SavesSound
    <2>1. \A e \in Call \ {c} : /\ About(e, u)' <=> About(e, u)
                                /\ About(e, u) => call'[e] = call[e]
      BY <1>2, OthersAbout
    <2>2. CASE About(c, u)
      <3>1. \A e \in Call \ {c} : ~About(e, u)'
        BY <1>2, <2>0, <2>1, <2>2 DEF Alone
      <3>2. CASE call'[c] = Idle /\ Shown(u)' = edited'[u]
        <4>1. ~About(c, u)'
          BY <3>2 DEF About, Idle
        <4>. QED
          BY <3>1, <3>2, <4>1 DEF Sound
      <3>3. CASE /\ At(c, "save:record")' /\ About(c, u)' /\ Rest(call[c], u)'
                 /\ Shown(u)' = call'[c].values
        BY <3>1, <3>3 DEF Sound, At
      <3>. QED
        BY <1>2, <2>0, <2>2, <3>2, <3>3, SaveProgress DEF Sound
    <2>3. CASE ~About(c, u)
      <3>1. Shown(u)' = Shown(u) /\ edited'[u] = edited[u]
        BY <1>2, <2>3, ProfileFootprint
      <3>2. CASE About(c, u)'
        <4>1. (\A d \in Call : ~About(d, u)) /\ call[c] = Idle
          BY <1>2, <2>3, <3>2, OwnAbout
        <4>2. Start(c)
          <5>1. \A s \in {"save:insert", "save:update", "save:record", "upload:put",
                          "upload:insert", "review:update", "verify:insert",
                          "verify:credential", "read:consents",
                          "read:credentials", "read:record", "record"} : ~At(c, s)
            BY <4>1 DEF At, Idle
          <5>. QED
            BY <1>2, <4>1, <5>1 DEF Step, Continue, Fail, SaveInsert, SaveUpdate,
               SaveRecord, UploadPut, UploadInsert, ReviewUpdate, VerifyInsert,
               IssueCredential, ReadConsents, ReadCredentials, ReadRecord, Record
        <4>3. Shown(u) = edited[u]
          BY <2>0, <4>1 DEF Sound
        <4>4. Rest(call[c], u)' /\ ~At(c, "save:record")'
          BY <1>2, <3>2, <4>2, <4>3, SaveBegins
        <4>5. \A d \in Call \ {c} : ~About(d, u)'
          BY <2>1, <4>1
        <4>. QED
          BY <3>1, <3>2, <4>3, <4>4, <4>5 DEF Sound
      <3>3. CASE ~About(c, u)'
        BY <2>0, <2>1, <2>3, <3>1, <3>3 DEF Sound, Rest, At
      <3>. QED
        BY <3>2, <3>3
    <2>. QED
      BY <2>2, <2>3
  <1>3. CASE (\E t \in Tab, u \in User : Open(t, u)) \/ UNCHANGED vars
    <2>1. /\ call' = call /\ edited' = edited /\ profiles' = profiles
          /\ crossed' = crossed
      BY <1>3 DEF Open, vars
    <2>2. \A u \in User : Shown(u)' = Shown(u)
      BY <2>1 DEF Shown, ProfilesOf
    <2>. QED
      BY <2>1, <2>2 DEF SavesSound, Sound, Rest, About, At
  <1>. QED
    BY <1>2, <1>3 DEF Next, Step, SavesSound

----------------------------------------------------------------------------
(* Theorems.                                                               *)

HistoryInv == Inv /\ Alone /\ HasFile /\ Reported /\ ReviewIsLogged
                  /\ One /\ SavesSound

\* The invariant behind the two theorems below.
THEOREM HistoryInvariance == Spec => []HistoryInv
  <1>1. Init => HistoryInv
    <2>. SUFFICES ASSUME Init PROVE HistoryInv
      OBVIOUS
    <2>1. \A c \in Call : \A w : ~About(c, w)
      BY DEF Init, About, Idle
    <2>2. \A u \in User : ProfilesOf(u) = {} /\ Shown(u) = edited[u]
      BY DEF Init, ProfilesOf, Shown
    <2>3. One /\ SavesSound
      BY <2>1, <2>2 DEF One, SavesSound, Sound
    <2>4. Alone /\ HasFile /\ Reported /\ ReviewIsLogged
      BY <2>1 DEF Init, Alone, HasFile, Reported, ReviewIsLogged
    <2>. QED
      BY <2>3, <2>4, InvInit DEF HistoryInv
  <1>2. HistoryInv /\ [Next]_vars => HistoryInv'
    BY InvStep, AloneStep, ReviewStep, OneStep, SoundStep DEF HistoryInv
  <1>. QED
    BY <1>1, <1>2, PTL DEF Spec

\* A user has one profile at most and, unless saves crossed or failed, it holds
\* what the user was last told is saved: creating and updating interleave with
\* every other call of the service.
THEOREM ProfilesHold == Spec => []ProfileIsAsSaved
  <1>1. HistoryInv => ProfileIsAsSaved
    BY DEF HistoryInv, ProfileIsAsSaved, Settled, SavesSound, Sound, One, About
  <1>. QED
    BY <1>1, HistoryInvariance, PTL

\* Unless reviews crossed or failed, the latest entry about a document says what
\* its row does, however the uploads and reviews of others interleave.
THEOREM ReviewsAreLogged == Spec => []ReviewIsLogged
  <1>1. HistoryInv => ReviewIsLogged
    BY DEF HistoryInv
  <1>. QED
    BY <1>1, HistoryInvariance, PTL
=============================================================================
