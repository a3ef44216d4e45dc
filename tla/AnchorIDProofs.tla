--------------------------- MODULE AnchorIDProofs ---------------------------
(***************************************************************************)
(* Proofs about AnchorID, for every value of its constants, from what is   *)
(* proved of its parts.                                                    *)
(***************************************************************************)
EXTENDS AnchorID, TLAPS

----------------------------------------------------------------------------
(* A step of the whole is a step of each part, or leaves it alone.         *)

\* What c does at each part.
PortalPart(c) ==
  \/ AskForAccess(c) \/ FilingFails(c) \/ InsertRequest(c) \/ StartRead(c)
  \/ PortalStep(c)

LEMMA PortalMoves ==
  ASSUME NEW c \in Call, PortalPart(c)
  PROVE  Portal!Step(c)
  <1>1. CASE AskForAccess(c)
    BY <1>1 DEF AskForAccess, Portal!Step, Portal!Continue
  <1>2. CASE FilingFails(c)
    BY <1>2 DEF FilingFails, Portal!Step
  <1>3. CASE InsertRequest(c)
    BY <1>3 DEF InsertRequest, Portal!Step, Portal!Continue
  <1>4. CASE StartRead(c)
    BY <1>4 DEF StartRead, Portal!Step, Portal!Continue
  <1>5. CASE PortalStep(c)
    BY <1>5 DEF PortalStep, Portal!Step, Portal!Continue
  <1>. QED
    BY <1>1, <1>2, <1>3, <1>4, <1>5 DEF PortalPart

LEMMA PortalNext == [Next]_vars => [Portal!Next]_(Portal!vars)
  <1>. SUFFICES ASSUME [Next]_vars, ~UNCHANGED portalVars PROVE Portal!Next
    BY DEF portalVars, Portal!vars
  <1>1. ASSUME NEW c \in Call, PortalPart(c) PROVE Portal!Next
    BY <1>1, PortalMoves DEF Portal!Step, Portal!Next
  <1>2. CASE PageStep
    BY <1>2 DEF PageStep, Portal!Next
  <1>3. ASSUME NEW c \in Call,
               \/ FindSubject(c) \/ CutToGrants(c) \/ AddCredentials(c)
               \/ AnswerRead(c) \/ ReadFails(c) \/ ConsentStep(c) \/ IdentityStep(c)
        PROVE  UNCHANGED portalVars
    BY <1>3 DEF FindSubject, CutToGrants, AddCredentials, AnswerRead, ReadFails,
       ConsentStep, IdentityStep
  <1>4. CASE TimeStep
    BY <1>4 DEF TimeStep
  <1>. QED
    BY <1>1, <1>2, <1>3, <1>4 DEF Next, PortalPart, vars

THEOREM PortalHolds == Spec => Portal!Spec
  <1>1. Init => Portal!Init
    BY DEF Init
  <1>. QED
    BY <1>1, PortalNext, PTL DEF Spec, Portal!Spec

LEMMA PortalInv == Spec => []Portal!Inv
  BY PortalHolds, PortalAssumption, Portal!Invariance, PTL

\* A decision approves an anchor, takes its approval away, or neither.
LEMMA GoodMoves ==
  ASSUME Portal!Inv, NEW c \in Call, Portal!Step(c)
  PROVE  \/ UNCHANGED Portal!Good
         \/ \E a \in Anchor : \/ a \notin Portal!Good /\ Portal!Good' = Portal!Good \cup {a}
                              \/ a \in Portal!Good /\ Portal!Good' = Portal!Good \ {a}
  <1>0. anchors \in [Anchor -> Portal!AnchorRow \cup {None}]
    BY DEF Portal!Inv, Portal!TypeOK
  <1>1. CASE anchors' = anchors
    BY <1>1 DEF Portal!Good, Portal!Approved, Portal!Exists
  <1>2. ASSUME NEW a \in Anchor, NEW row, anchors' = [anchors EXCEPT ![a] = row]
        PROVE  \/ UNCHANGED Portal!Good
               \/ a \notin Portal!Good /\ Portal!Good' = Portal!Good \cup {a}
               \/ a \in Portal!Good /\ Portal!Good' = Portal!Good \ {a}
    BY <1>0, <1>2 DEF Portal!Good, Portal!Approved, Portal!Exists
  <1>3. ASSUME NEW u \in User, NEW a \in Anchor, Portal!Register(c, u, a)
        PROVE  \E row : anchors' = [anchors EXCEPT ![a] = row]
    BY <1>3 DEF Portal!Register
  <1>4. CASE \E b \in Anchor, row \in Portal!AnchorRow : anchors' = [anchors EXCEPT ![b] = row]
    BY <1>2, <1>4
  <1>5. \/ anchors' = anchors
        \/ \E b \in Anchor, row \in Portal!AnchorRow : anchors' = [anchors EXCEPT ![b] = row]
        \/ \E u \in User, a \in Anchor : Portal!Register(c, u, a)
    <2>1. portalCall[c] \in Portal!StatusCall => portalCall[c].about \in Anchor
      BY DEF Portal!StatusCall
    <2>. QED
      BY <2>1, Portal!TableSteps, PortalAssumption
  <1>. QED
    BY <1>1, <1>2, <1>3, <1>4, <1>5

LEMMA ConsentNext == Portal!Inv /\ [Next]_vars => [Consents!Next]_(Consents!vars)
  <1>. SUFFICES ASSUME Portal!Inv, [Next]_vars PROVE [Consents!Next]_(Consents!vars)
    OBVIOUS
  <1>1. ASSUME UNCHANGED portalVars PROVE UNCHANGED Portal!Good
    BY <1>1 DEF portalVars, Portal!Good, Portal!Approved, Portal!Exists
  <1>2. ASSUME UNCHANGED consentVars, UNCHANGED portalVars PROVE UNCHANGED Consents!vars
    BY <1>1, <1>2 DEF consentVars, Consents!vars
  <1>3. ASSUME NEW c \in Call, Portal!Step(c), UNCHANGED consentVars
        PROVE  [Consents!Next]_(Consents!vars)
    <2>1. CASE UNCHANGED Portal!Good
      BY <1>3, <2>1 DEF consentVars, Consents!vars
    <2>2. ASSUME NEW a \in Anchor,
                 \/ a \notin Portal!Good /\ Portal!Good' = Portal!Good \cup {a}
                 \/ a \in Portal!Good /\ Portal!Good' = Portal!Good \ {a}
          PROVE  Consents!Next
      <3>1. Consents!ApproveAnchor(a) \/ Consents!BlockAnchor(a)
        BY <1>3, <2>2 DEF consentVars, Consents!ApproveAnchor, Consents!BlockAnchor,
           Consents!tables
      <3>. QED
        BY <3>1 DEF Consents!Next
    <2>. QED
      BY <1>3, <2>1, <2>2, GoodMoves
  <1>4. ASSUME NEW c \in Call, AskForAccess(c) PROVE [Consents!Next]_(Consents!vars)
    <2>1. CASE UNCHANGED consentVars
      <3>1. Portal!Step(c)
        BY <1>4, PortalMoves DEF PortalPart
      <3>. QED
        BY <1>3, <2>1, <3>1
    <2>2. ASSUME NEW S \in SUBSET Scope \ {{}}, NEW d \in ExpiryDays,
                 Consents!CreateForAnchor(c, Caller(c), S, d)
          PROVE  Consents!Next
      <3>1. Caller(c) \in Anchor
        BY <2>2 DEF Consents!CreateForAnchor, Portal!Good
      <3>. QED
        BY <2>2, <3>1 DEF Consents!Next, Consents!Start
    <2>. QED
      BY <1>4, <2>1, <2>2 DEF AskForAccess
  <1>5. ASSUME NEW c \in Call, StartRead(c) PROVE Consents!Next
    <2>1. Caller(c) \in Anchor
      <3>1. portalCall[c] \in Portal!KeyCall /\ portalCall[c].for \in secrets
        BY <1>5, Portal!CallKinds, PortalAssumption
           DEF StartRead, Portal!Read, Portal!At, Portal!Inv, Portal!CallInv, Portal!Ground
      <3>2. keys[portalCall[c].for] # None /\ portalCall[c].for \in Key
        BY <3>1 DEF Portal!Inv, Portal!Known, Portal!KeyCall
      <3>. QED
        BY <3>2 DEF Caller, Portal!Inv, Portal!TypeOK, Portal!KeyRow
    <2>. QED
      BY <1>5, <2>1 DEF StartRead, Consents!Next, Consents!Start
  <1>6. ASSUME NEW c \in Call,
               FindSubject(c) \/ FilingFails(c) \/ InsertRequest(c) \/ CutToGrants(c)
                 \/ AddCredentials(c) \/ AnswerRead(c) \/ ReadFails(c)
        PROVE  Consents!Next
    BY <1>6 DEF FindSubject, FilingFails, InsertRequest, CutToGrants, AddCredentials,
       AnswerRead, ReadFails, Consents!Next, Consents!Continue, Consents!CreateSteps,
       Consents!FetchSteps
  <1>7. ASSUME NEW c \in Call, ConsentStep(c) PROVE Consents!Next
    BY <1>7 DEF ConsentStep, ConsentStart, Consents!Next, Consents!Start, Consents!Continue,
       Consents!CreateSteps
  <1>8. CASE TimeStep
    BY <1>8 DEF TimeStep, Consents!Next
  <1>9. ASSUME NEW c \in Call, PortalStep(c) PROVE [Consents!Next]_(Consents!vars)
    <2>1. Portal!Step(c) /\ UNCHANGED consentVars
      BY <1>9, PortalMoves DEF PortalPart, PortalStep
    <2>. QED
      BY <1>3, <2>1
  <1>10. ASSUME NEW c \in Call, IdentityStep(c) PROVE UNCHANGED Consents!vars
    BY <1>2, <1>10 DEF IdentityStep
  <1>11. CASE PageStep
    <2>1. UNCHANGED Portal!Good /\ UNCHANGED consentVars
      BY <1>1, <1>11 DEF PageStep, Portal!Load, Portal!Good, Portal!Approved, Portal!Exists
    <2>. QED
      BY <2>1 DEF consentVars, Consents!vars
  <1>12. CASE UNCHANGED vars
    BY <1>2, <1>12 DEF vars
  <1>. QED
    BY <1>4, <1>5, <1>6, <1>7, <1>8, <1>9, <1>10, <1>11, <1>12 DEF Next

LEMMA IdentityNext == [Next]_vars => [Identity!Next]_(Identity!vars)
  <1>. SUFFICES ASSUME [Next]_vars PROVE [Identity!Next]_(Identity!vars)
    OBVIOUS
  <1>1. ASSUME UNCHANGED identityVars PROVE UNCHANGED Identity!vars
    BY <1>1 DEF identityVars, Identity!vars
  <1>2. ASSUME NEW c \in Call,
               StartRead(c) \/ CutToGrants(c) \/ AddCredentials(c) \/ AnswerRead(c)
                 \/ ReadFails(c)
        PROVE  Identity!Next
    BY <1>2 DEF StartRead, CutToGrants, AddCredentials, AnswerRead, ReadFails,
       Identity!Next, Identity!Start, Identity!Continue
  <1>3. ASSUME NEW c \in Call, IdentityStep(c) PROVE Identity!Next
    BY <1>3 DEF IdentityStep, IdentityStart, Identity!Next, Identity!Start,
       Identity!Continue
  <1>4. ASSUME NEW c \in Call,
               AskForAccess(c) \/ FindSubject(c) \/ FilingFails(c) \/ InsertRequest(c)
                 \/ PortalStep(c) \/ ConsentStep(c)
        PROVE  UNCHANGED identityVars
    BY <1>4 DEF AskForAccess, FindSubject, FilingFails, InsertRequest, PortalStep,
       ConsentStep
  <1>5. CASE TimeStep
    BY <1>1, <1>5 DEF TimeStep
  <1>6. CASE PageStep
    BY <1>1, <1>6 DEF PageStep, Identity!Next
  <1>7. CASE UNCHANGED vars
    BY <1>1, <1>7 DEF vars
  <1>. QED
    BY <1>1, <1>2, <1>3, <1>4, <1>5, <1>6, <1>7 DEF Next

\* The whole is a history of each of its parts: what holds of the portal, of
\* the consents, whose approved anchors are those the portal's decisions leave
\* approved, and of the profiles alone, holds of them together.
THEOREM PartsHold == Spec => Portal!Spec /\ Consents!Spec /\ Identity!Spec
  <1>1. Init => Portal!Init /\ Consents!Init /\ Identity!Init
    BY DEF Init
  <1>. QED
    BY <1>1, PortalHolds, PortalInv, ConsentNext, IdentityNext, PTL
       DEF Spec, Consents!Spec, Identity!Spec

----------------------------------------------------------------------------
(* What the parts say of one handler fits together.                        *)

Base == Portal!Inv /\ Consents!Inv /\ Identity!Inv

LEMMA BaseHolds == Spec => []Base
  <1>1. Portal!Inv /\ Consents!Inv /\ Identity!Inv => Base
    BY DEF Base
  <1>2. Consents!Spec => []Consents!Inv
    BY ConsentAssumption, Consents!Invariance
  <1>3. Identity!Spec => []Identity!Inv
    BY IdentityAssumption, Identity!Invariance
  <1>. QED
    BY <1>1, <1>2, <1>3, PartsHold, PortalInv, PTL

Reading(c) ==
  identityCall[c].step \in {"read:consents", "read:credentials", "read:record"}

\* A read is at the same statement in both parts, about the same profile, for
\* an anchor that came in with a key.
InStep(c) ==
  /\ Consents!At(c, "fetch:consents") <=> Identity!At(c, "read:consents")
  /\ Consents!At(c, "fetch:credentials") <=> Identity!At(c, "read:credentials")
  /\ Consents!At(c, "fetch:audit") <=> Identity!At(c, "read:record")
  /\ Fetching(c) => /\ identityCall[c].profile = grantCall[c].profile
                    /\ profiles[grantCall[c].profile] # None
                    /\ ReadItself(grantCall[c].anchor)

\* Once it has its consents, it has the columns and the credentials they open.
CutToScopes(c) ==
  /\ grantCall[c].step \in {"fetch:credentials", "fetch:audit"} =>
       /\ identityCall[c].scopes = grantCall[c].scopes
       /\ DOMAIN identityCall[c].values =
            Column \cap UNION {Identity!ColumnsOf(s) : s \in grantCall[c].scopes}
  /\ /\ Consents!At(c, "fetch:audit")
     /\ grantCall[c].scopes \cap Identity!CredentialScopes # {}
     => identityCall[c].credentials # None

\* A filing is on its way in both parts, for the anchor of its key.
FilesFor(c) ==
  /\ Portal!At(c, "file:insert") <=> Consents!Reserving(c)
  /\ Consents!Reserving(c) => grantCall[c].anchor = Caller(c)
  /\ Consents!At(c, "create:insert") => profiles[grantCall[c].profile] # None

Fits(c) == InStep(c) /\ CutToScopes(c) /\ FilesFor(c)

\* Requests are for profiles that are there, by anchors with keys.
RowsFit ==
  \A r \in Request : requests[r] # None =>
    profiles[requests[r].profile] # None /\ FiledItself(requests[r].anchor)

Whole == Named /\ RowsFit /\ \A c \in Call : Fits(c)

----------------------------------------------------------------------------
(* What steps leave as it is.                                              *)

\* Keys stay with their anchors and profiles with their users.
Stays ==
  /\ \A a : FiledItself(a) => FiledItself(a)'
  /\ \A a : ReadItself(a) => ReadItself(a)'
  /\ \A p \in Profile : profiles[p] # None => profiles'[p] # None

LEMMA ProfilesStay ==
  ASSUME Identity!Inv, [Identity!Next]_(Identity!vars)
  PROVE  \A p \in Profile : profiles[p] # None =>
           profiles'[p] # None /\ profiles'[p].user = profiles[p].user
  <1>0. Identity!TypeOK
    BY DEF Identity!Inv
  <1>1. CASE profiles' = profiles
    BY <1>1
  <1>2. ASSUME NEW c \in Call, Identity!SaveInsert(c)
        PROVE  \/ profiles' = profiles
               \/ \E p \in Profile : \E row : /\ profiles[p] = None
                                              /\ profiles' = [profiles EXCEPT ![p] = row]
    BY <1>2 DEF Identity!SaveInsert
  <1>3. ASSUME NEW p \in Profile, NEW row, profiles[p] = None,
               profiles' = [profiles EXCEPT ![p] = row]
        PROVE  \A q \in Profile : profiles[q] # None => profiles'[q] = profiles[q]
    BY <1>0, <1>3 DEF Identity!TypeOK
  <1>4. ASSUME NEW c \in Call, Identity!SaveUpdate(c)
        PROVE  \A q \in Profile : profiles[q] # None =>
                 profiles'[q] # None /\ profiles'[q].user = profiles[q].user
    <2>1. PICK p \in Identity!ProfilesOf(identityCall[c].who) :
            profiles' = [profiles EXCEPT ![p].values = identityCall[c].values]
      BY <1>4 DEF Identity!SaveUpdate
    <2>2. p \in Profile /\ profiles[p] \in Identity!ProfileRow
      BY <1>0, <2>1 DEF Identity!ProfilesOf, Identity!TypeOK
    <2>3. /\ profiles'[p] = [profiles[p] EXCEPT !.values = identityCall[c].values]
          /\ \A q \in Profile \ {p} : profiles'[q] = profiles[q]
      BY <1>0, <2>1, <2>2 DEF Identity!TypeOK
    <2>4. identityCall[c].values \in Identity!Values
      BY <1>0, <1>4, Identity!CallKinds, IdentityAssumption
         DEF Identity!SaveUpdate, Identity!SaveCall, Identity!At
    <2>5. profiles'[p] \in Identity!ProfileRow /\ profiles'[p].user = profiles[p].user
      BY <2>2, <2>3, <2>4 DEF Identity!ProfileRow
    <2>. QED
      BY <2>3, <2>5, IdentityAssumption DEF Identity!NoneAssumption
  <1>5. \/ profiles' = profiles
        \/ \E c \in Call : Identity!SaveInsert(c) \/ Identity!SaveUpdate(c)
    BY DEF Identity!Next, Identity!vars, Identity!Open, Identity!Start, Identity!Save,
       Identity!Upload, Identity!Review, Identity!Verify, Identity!Read,
       Identity!Continue, Identity!SaveRecord, Identity!UploadPut,
       Identity!UploadInsert, Identity!ReviewUpdate, Identity!VerifyInsert,
       Identity!IssueCredential, Identity!ReadConsents, Identity!ReadCredentials,
       Identity!ReadRecord, Identity!Record, Identity!Fail
  <1>. QED
    BY <1>1, <1>2, <1>3, <1>4, <1>5

LEMMA KeysStay ==
  ASSUME Portal!Inv, [Portal!Next]_(Portal!vars)
  PROVE  /\ \A k \in filed \cup readWith : keys'[k].anchor = keys[k].anchor
         /\ filed \subseteq filed' /\ readWith \subseteq readWith'
  <1>1. Portal!Keeps
    BY Portal!StepKeeps, PortalAssumption
  <1>2. \A k \in filed \cup readWith : k \in Key /\ keys[k] # None
    BY DEF Portal!Inv, Portal!Known, Portal!TypeOK
  <1>3. filed \subseteq filed' /\ readWith \subseteq readWith'
    BY DEF Portal!Next, Portal!vars, Portal!Load, Portal!Start, Portal!Register,
       Portal!Decide, Portal!AddMember, Portal!RemoveMember, Portal!CreateKey,
       Portal!RevokeKey, Portal!UseKey, Portal!Continue, Portal!DecideUpdate,
       Portal!AddFind, Portal!AddWrite, Portal!RemoveFind, Portal!RemoveUpdate,
       Portal!CreateKeyStatus, Portal!CreateKeyInsert, Portal!RevokeKeyUpdate,
       Portal!GuardTouch, Portal!FileStatus, Portal!FileInsert, Portal!Read,
       Portal!Record, Portal!Fail
  <1>. QED
    BY <1>1, <1>2, <1>3 DEF Portal!Keeps

LEMMA AllStays == ASSUME Base, [Next]_vars PROVE Stays
  <1>1. \A p \in Profile : profiles[p] # None => profiles'[p] # None
    BY ProfilesStay, IdentityNext DEF Base
  <1>2. /\ \A k \in filed \cup readWith : keys'[k].anchor = keys[k].anchor
        /\ filed \subseteq filed' /\ readWith \subseteq readWith'
    BY KeysStay, PortalNext DEF Base
  <1>. QED
    BY <1>1, <1>2 DEF Stays, FiledItself, ReadItself

LEMMA NamedStep == ASSUME Base, Named, [Next]_vars PROVE Named'
  <1>1. CASE UNCHANGED profiles
    BY <1>1 DEF Named
  <1>2. ASSUME NEW c \in Call, Identity!SaveUpdate(c) PROVE Named'
    <2>1. \A p \in Profile : profiles'[p] # None => profiles[p] # None
      <3>1. PICK p \in Identity!ProfilesOf(identityCall[c].who) :
              profiles' = [profiles EXCEPT ![p].values = identityCall[c].values]
        BY <1>2 DEF Identity!SaveUpdate
      <3>. QED
        BY <3>1 DEF Identity!ProfilesOf, Base, Identity!Inv, Identity!TypeOK
    <2>. QED
      BY <2>1, ProfilesStay, IdentityNext DEF Named, Base
  <1>3. ASSUME NEW c \in Call, IdentityStep(c) PROVE Named'
    BY <1>1, <1>2, <1>3 DEF IdentityStep, IdentityStart, Identity!Save, Identity!Upload,
       Identity!Review, Identity!Verify, Identity!SaveRecord, Identity!UploadPut,
       Identity!UploadInsert, Identity!ReviewUpdate, Identity!VerifyInsert,
       Identity!IssueCredential, Identity!Record, Identity!Fail
  <1>4. ASSUME NEW c \in Call,
               StartRead(c) \/ CutToGrants(c) \/ AddCredentials(c) \/ AnswerRead(c)
                 \/ ReadFails(c)
        PROVE  UNCHANGED profiles
    BY <1>4 DEF StartRead, CutToGrants, AddCredentials, AnswerRead, ReadFails,
       Identity!Read, Identity!ReadConsents, Identity!ReadCredentials,
       Identity!ReadRecord, Identity!Fail
  <1>5. ASSUME NEW c \in Call,
               AskForAccess(c) \/ FindSubject(c) \/ FilingFails(c) \/ InsertRequest(c)
                 \/ PortalStep(c) \/ ConsentStep(c)
        PROVE  UNCHANGED profiles
    BY <1>5 DEF AskForAccess, FindSubject, FilingFails, InsertRequest, PortalStep,
       ConsentStep, identityVars
  <1>6. TimeStep \/ PageStep \/ UNCHANGED vars => UNCHANGED profiles
    BY DEF TimeStep, PageStep, Identity!Open, vars, identityVars
  <1>. QED
    BY <1>1, <1>3, <1>4, <1>5, <1>6 DEF Next

----------------------------------------------------------------------------
(* What a step leaves of a slot, part by part.                             *)

FilingStays(d) ==
  /\ Portal!At(d, "file:insert")' <=> Portal!At(d, "file:insert")
  /\ Portal!At(d, "file:insert") => Caller(d)' = Caller(d)

Aside(d) == ~Fetching(d) /\ ~Consents!Reserving(d)

GrantStays(d) == grantCall'[d] = grantCall[d] \/ (Aside(d) /\ Aside(d)')

SameRead(d) ==
  /\ identityCall'[d].step = identityCall[d].step
  /\ identityCall'[d].profile = identityCall[d].profile
  /\ identityCall'[d].scopes = identityCall[d].scopes
  /\ identityCall'[d].values = identityCall[d].values
  /\ identityCall'[d].credentials = identityCall[d].credentials

ReadStays(d) == SameRead(d) \/ (~Reading(d) /\ ~Reading(d)')

\* The slots of calls that fit go on fitting.
LEMMA Frame ==
  ASSUME Base, Stays, NEW d \in Call, Fits(d),
         FilingStays(d), GrantStays(d), ReadStays(d)
  PROVE  Fits(d)'
  <1>1. Fetching(d) => grantCall[d].profile \in Profile
    BY Consents!CallKinds, ConsentAssumption
       DEF Fetching, Base, Consents!Inv, Consents!FetchCall
  <1>2. Consents!At(d, "create:insert") => grantCall[d].profile \in Profile
    BY Consents!CallKinds, ConsentAssumption
       DEF Base, Consents!Inv, Consents!TypeOK, Consents!CreateCall, Consents!At
  <1>3. CASE grantCall'[d] = grantCall[d]
    <2>1. CASE SameRead(d)
      <3>1. InStep(d)'
        BY <1>1, <1>3, <2>1 DEF Fits, InStep, SameRead, Stays, Fetching, Consents!At,
           Identity!At
      <3>2. CutToScopes(d)'
        BY <1>3, <2>1 DEF Fits, CutToScopes, SameRead, Consents!At
      <3>3. FilesFor(d)'
        BY <1>2, <1>3 DEF Fits, FilesFor, FilingStays, Stays, Consents!Reserving,
           Consents!At
      <3>. QED
        BY <3>1, <3>2, <3>3 DEF Fits
    <2>2. CASE ~Reading(d) /\ ~Reading(d)'
      <3>1. ~Fetching(d)
        BY <2>2 DEF Fits, InStep, Reading, Fetching, Consents!At, Identity!At
      <3>2. InStep(d)' /\ CutToScopes(d)'
        BY <1>3, <2>2, <3>1 DEF InStep, CutToScopes, Reading, Fetching, Consents!At,
           Identity!At
      <3>3. FilesFor(d)'
        BY <1>2, <1>3 DEF Fits, FilesFor, FilingStays, Stays, Consents!Reserving,
           Consents!At
      <3>. QED
        BY <3>2, <3>3 DEF Fits
    <2>. QED
      BY <2>1, <2>2 DEF ReadStays
  <1>4. CASE Aside(d) /\ Aside(d)'
    <2>1. ~Reading(d)
      BY <1>4 DEF Fits, InStep, Aside, Reading, Fetching, Consents!At, Identity!At
    <2>2. ~Reading(d)'
      BY <2>1 DEF ReadStays, SameRead, Reading
    <2>3. InStep(d)' /\ CutToScopes(d)'
      BY <1>4, <2>2 DEF InStep, CutToScopes, Aside, Reading, Fetching, Consents!At,
         Identity!At
    <2>4. FilesFor(d)'
      BY <1>4 DEF Fits, FilesFor, FilingStays, Aside, Consents!Reserving, Consents!At
    <2>. QED
      BY <2>3, <2>4 DEF Fits
  <1>. QED
    BY <1>3, <1>4 DEF GrantStays

LEMMA OthersFile ==
  ASSUME Base, NEW d \in Call,
         \/ UNCHANGED portalVars
         \/ \E p \in Page : Portal!Load(p)
         \/ \E c \in Call \ {d} : Portal!Step(c)
  PROVE  FilingStays(d)
  <1>1. CASE UNCHANGED <<keys, portalCall>>
    BY <1>1 DEF FilingStays, Portal!At, Caller
  <1>2. ASSUME NEW c \in Call \ {d}, Portal!Step(c) PROVE FilingStays(d)
    <2>0. Portal!TypeOK /\ [Portal!Next]_(Portal!vars)
      BY <1>2 DEF Base, Portal!Inv, Portal!Next, Portal!Step
    <2>1. Portal!Alike(d)
      BY <1>2, <2>0, Portal!Others, PortalAssumption
    <2>2. Portal!At(d, "file:insert")' <=> Portal!At(d, "file:insert")
      BY <2>0, <2>1, Portal!AlikeKinds, PortalAssumption DEF Portal!At, Portal!Idle
    <2>3. Portal!At(d, "file:insert") =>
            /\ portalCall'[d].for = portalCall[d].for
            /\ portalCall[d].for \in Key
            /\ keys[portalCall[d].for] # None
      <3>1. SUFFICES ASSUME Portal!At(d, "file:insert")
                     PROVE  /\ portalCall'[d].for = portalCall[d].for
                            /\ portalCall[d].for \in Key
                            /\ keys[portalCall[d].for] # None
        OBVIOUS
      <3>2. portalCall[d] \in Portal!KeyCall
        BY <2>0, <3>1, Portal!CallKinds, PortalAssumption DEF Portal!At
      <3>3. portalCall[d].for \in secrets
        BY <3>2 DEF Base, Portal!Inv, Portal!CallInv, Portal!Ground
      <3>. QED
        BY <2>0, <2>1, <3>2, <3>3, Portal!AlikeKinds, PortalAssumption
           DEF Base, Portal!Inv, Portal!Known, Portal!KeyCall
    <2>4. Portal!Keeps
      BY <2>0, Portal!StepKeeps, PortalAssumption DEF Base
    <2>. QED
      BY <2>2, <2>3, <2>4 DEF FilingStays, Caller, Portal!Keeps
  <1>. QED
    BY <1>1, <1>2 DEF portalVars, Portal!Load

LEMMA OthersRead ==
  ASSUME Base, NEW d \in Call,
         \/ UNCHANGED identityVars
         \/ \E t \in Tab, u \in User : Identity!Open(t, u)
         \/ \E c \in Call \ {d} : Identity!Start(c) \/ Identity!Continue(c) \/ Identity!Fail(c)
  PROVE  ReadStays(d)
  <1>1. CASE UNCHANGED identityCall
    BY <1>1 DEF ReadStays, SameRead
  <1>2. ASSUME NEW c \in Call \ {d},
               Identity!Start(c) \/ Identity!Continue(c) \/ Identity!Fail(c)
        PROVE  ReadStays(d)
    <2>1. \/ identityCall'[d] = identityCall[d]
          \/ /\ identityCall[d] \in Identity!ReadCall
             /\ \E v \in Identity!Values :
                  identityCall'[d] = [identityCall[d] EXCEPT !.seen = @ \cup {v}]
      BY <1>2, Identity!Others, IdentityAssumption DEF Base
    <2>2. ASSUME NEW r \in Identity!ReadCall, NEW v, NEW q,
                 q = [r EXCEPT !.seen = r.seen \cup {v}]
          PROVE  /\ q.step = r.step /\ q.profile = r.profile /\ q.scopes = r.scopes
                 /\ q.values = r.values /\ q.credentials = r.credentials
      BY <2>2 DEF Identity!ReadCall
    <2>3. ASSUME NEW v, identityCall[d] \in Identity!ReadCall,
                 identityCall'[d] =
                   [identityCall[d] EXCEPT !.seen = identityCall[d].seen \cup {v}]
          PROVE  SameRead(d)
      BY <2>2, <2>3 DEF SameRead
    <2>. QED
      BY <2>1, <2>3 DEF ReadStays, SameRead
  <1>. QED
    BY <1>1, <1>2 DEF identityVars, Identity!Open

LEMMA OthersGrant ==
  ASSUME Base, NEW d \in Call,
         \/ UNCHANGED consentVars
         \/ TimeStep
         \/ \E c \in Call \ {d} : Consents!Start(c) \/ Consents!Continue(c) \/ Consents!Fail(c)
  PROVE  GrantStays(d)
  <1>0. Consents!TypeOK
    BY DEF Base, Consents!Inv
  <1>1. CASE UNCHANGED grantCall
    BY <1>1 DEF GrantStays
  <1>2. CASE TimeStep
    BY <1>1, <1>2 DEF TimeStep, Consents!ExpireStale, Consents!ExpireAudit,
       Consents!ExpireFail, Consents!Tick
  <1>3. ASSUME NEW c \in Call \ {d}, NEW r, grantCall' = [grantCall EXCEPT ![c] = r]
        PROVE  GrantStays(d)
    BY <1>0, <1>3 DEF GrantStays, Consents!TypeOK
  <1>4. ASSUME NEW c \in Call \ {d}, Consents!Start(c) PROVE GrantStays(d)
    BY <1>3, <1>4 DEF Consents!Start, Consents!CreateForAnchor, Consents!Approve,
       Consents!Deny, Consents!Revoke, Consents!GetScopedDataForAnchor
  <1>5. ASSUME NEW c \in Call \ {d}, Consents!Continue(c) PROVE GrantStays(d)
    BY <1>0, <1>5 DEF GrantStays, Consents!TypeOK, Consents!Continue, Consents!CreateSteps,
       Consents!ApproveSteps, Consents!DenySteps, Consents!RevokeSteps,
       Consents!FetchSteps, Consents!CreateFindProfile, Consents!CreateInsert,
       Consents!CreateAudit, Consents!ApproveUpdate, Consents!GrantFromAccessRequest,
       Consents!GrantConflict, Consents!AuditGrant, Consents!ApproveAudit,
       Consents!DenyUpdate, Consents!DenyAudit, Consents!RevokeUpdate,
       Consents!RevokeAudit, Consents!FindConsents, Consents!FindCredentials,
       Consents!FetchAudit, Consents!Goto, Consents!Answer, Consents!Reject
  <1>6. ASSUME NEW c \in Call \ {d}, Consents!Fail(c) PROVE GrantStays(d)
    BY <1>3, <1>6 DEF Consents!Fail, Consents!Reject, Consents!Answer
  <1>. QED
    BY <1>1, <1>2, <1>4, <1>5, <1>6 DEF consentVars

----------------------------------------------------------------------------
(* The slots that do not take the step, whichever it is.                   *)

ConsentPart(c) ==
  \/ FindSubject(c) \/ FilingFails(c) \/ InsertRequest(c) \/ StartRead(c)
  \/ CutToGrants(c) \/ AddCredentials(c) \/ AnswerRead(c) \/ ReadFails(c)
  \/ ConsentStep(c)

IdentityPart(c) ==
  \/ StartRead(c) \/ CutToGrants(c) \/ AddCredentials(c) \/ AnswerRead(c)
  \/ ReadFails(c) \/ IdentityStep(c)

LEMMA IdentityMoves ==
  ASSUME NEW c \in Call, IdentityPart(c)
  PROVE  Identity!Start(c) \/ Identity!Continue(c) \/ Identity!Fail(c)
  BY DEF IdentityPart, StartRead, CutToGrants, AddCredentials, AnswerRead, ReadFails,
     IdentityStep, IdentityStart, Identity!Start, Identity!Continue

LEMMA CallerIsAnchor ==
  ASSUME Base, NEW c \in Call, portalCall[c] \in Portal!KeyCall
  PROVE  Caller(c) \in Anchor /\ portalCall[c].for \in Key
  <1>1. keys[portalCall[c].for] # None /\ portalCall[c].for \in Key
    BY DEF Base, Portal!Inv, Portal!CallInv, Portal!Ground, Portal!Known, Portal!KeyCall
  <1>. QED
    BY <1>1 DEF Caller, Base, Portal!Inv, Portal!TypeOK, Portal!KeyRow

LEMMA ConsentMoves ==
  ASSUME Base, NEW c \in Call, ConsentPart(c)
  PROVE  Consents!Start(c) \/ Consents!Continue(c) \/ Consents!Fail(c)
  <1>1. CASE StartRead(c)
    <2>1. portalCall[c] \in Portal!KeyCall
      BY <1>1, Portal!CallKinds, PortalAssumption
         DEF StartRead, Portal!Read, Portal!At, Base, Portal!Inv
    <2>. QED
      BY <1>1, <2>1, CallerIsAnchor DEF StartRead, Consents!Start
  <1>2. CASE ConsentStep(c)
    BY <1>2 DEF ConsentStep, ConsentStart, Consents!Start, Consents!Continue,
       Consents!CreateSteps
  <1>. QED
    BY <1>1, <1>2 DEF ConsentPart, FindSubject, FilingFails, InsertRequest, CutToGrants,
       AddCredentials, AnswerRead, ReadFails, Consents!Continue, Consents!CreateSteps,
       Consents!FetchSteps

LEMMA OthersFit ==
  ASSUME Base, Stays, NEW d \in Call, Fits(d),
         \/ \E c \in Call \ {d} :
              \/ AskForAccess(c) \/ FindSubject(c) \/ FilingFails(c) \/ InsertRequest(c)
              \/ StartRead(c) \/ CutToGrants(c) \/ AddCredentials(c)
              \/ AnswerRead(c) \/ ReadFails(c)
              \/ PortalStep(c) \/ ConsentStep(c) \/ IdentityStep(c)
         \/ TimeStep \/ PageStep \/ UNCHANGED vars
  PROVE  Fits(d)'
  <1>1. CASE TimeStep \/ PageStep \/ UNCHANGED vars
    <2>1. FilingStays(d) /\ ReadStays(d) /\ GrantStays(d)
      BY <1>1, OthersFile, OthersRead, OthersGrant DEF TimeStep, PageStep, vars
    <2>. QED
      BY <2>1, Frame
  <1>2. ASSUME NEW c \in Call \ {d}, AskForAccess(c) PROVE Fits(d)'
    <2>1. FilingStays(d)
      BY <1>2, PortalMoves, OthersFile DEF PortalPart
    <2>2. ReadStays(d)
      BY <1>2, OthersRead DEF AskForAccess
    <2>3. GrantStays(d)
      BY <1>2, OthersGrant DEF AskForAccess, Consents!CreateForAnchor, Base,
         Consents!Inv, Consents!TypeOK, GrantStays
    <2>. QED
      BY <2>1, <2>2, <2>3, Frame
  <1>3. ASSUME NEW c \in Call \ {d}, PortalPart(c) \/ UNCHANGED portalVars
        PROVE  FilingStays(d)
    BY <1>3, PortalMoves, OthersFile
  <1>4. ASSUME NEW c \in Call \ {d}, IdentityPart(c) \/ UNCHANGED identityVars
        PROVE  ReadStays(d)
    BY <1>4, IdentityMoves, OthersRead
  <1>5. ASSUME NEW c \in Call \ {d}, ConsentPart(c) \/ UNCHANGED consentVars
        PROVE  GrantStays(d)
    BY <1>5, ConsentMoves, OthersGrant
  <1>6. ASSUME NEW c \in Call \ {d},
               \/ FindSubject(c) \/ FilingFails(c) \/ InsertRequest(c)
               \/ StartRead(c) \/ CutToGrants(c) \/ AddCredentials(c)
               \/ AnswerRead(c) \/ ReadFails(c)
               \/ PortalStep(c) \/ ConsentStep(c) \/ IdentityStep(c)
        PROVE  /\ PortalPart(c) \/ UNCHANGED portalVars
               /\ IdentityPart(c) \/ UNCHANGED identityVars
               /\ ConsentPart(c) \/ UNCHANGED consentVars
    BY <1>6 DEF PortalPart, IdentityPart, ConsentPart, FindSubject, FilingFails,
       InsertRequest, CutToGrants, AddCredentials, AnswerRead, ReadFails, PortalStep,
       ConsentStep, IdentityStep
  <1>. QED
    BY <1>1, <1>2, <1>3, <1>4, <1>5, <1>6, Frame

----------------------------------------------------------------------------
(* The slot that takes a step of one part.                                 *)

LEMMA OwnPortalStep ==
  ASSUME Base, NEW c \in Call, PortalStep(c)
  PROVE  FilingStays(c)
  <1>0. Portal!TypeOK
    BY DEF Base, Portal!Inv
  <1>1. ~Portal!At(c, "file:insert")
    BY <1>0 DEF PortalStep, Vacant, Portal!Idle, Portal!At, Portal!DecideUpdate,
       Portal!AddFind, Portal!AddWrite, Portal!RemoveFind, Portal!RemoveUpdate,
       Portal!CreateKeyStatus, Portal!CreateKeyInsert, Portal!RevokeKeyUpdate,
       Portal!GuardTouch, Portal!Record
  <1>2. ASSUME NEW r, Portal!Begin(c, r), r.step # "file:insert"
        PROVE  ~Portal!At(c, "file:insert")'
    BY <1>0, <1>2 DEF Portal!Begin, Portal!At, Portal!TypeOK
  <1>3. Portal!Start(c) => ~Portal!At(c, "file:insert")'
    BY <1>2 DEF Portal!Start, Portal!Register, Portal!Decide, Portal!AddMember,
       Portal!RemoveMember, Portal!CreateKey, Portal!RevokeKey, Portal!UseKey
  <1>4. Portal!Answer(c) => ~Portal!At(c, "file:insert")'
    BY <1>0 DEF Portal!Answer, Portal!At, Portal!Idle, Portal!TypeOK
  <1>5. \A s : Portal!Goto(c, s) /\ s # "file:insert" => ~Portal!At(c, "file:insert")'
    <2>1. ASSUME NEW s, Portal!Goto(c, s), s # "file:insert"
          PROVE  ~Portal!At(c, "file:insert")'
      <3>1. portalCall'[c] = [portalCall[c] EXCEPT !.step = s]
        BY <1>0, <2>1 DEF Portal!Goto, Portal!TypeOK
      <3>. QED
        BY <1>0, <2>1, <3>1 DEF Portal!At, Portal!TypeOK, Portal!CallState, Portal!Idle,
           Portal!StatusCall, Portal!MemberCall, Portal!RemoveCall, Portal!CreateCall,
           Portal!RevokeCall, Portal!KeyCall, Portal!RecordCall
    <2>. QED
      BY <2>1
  <1>6. \A t, e : Portal!ThenRecord(c, t, e) => ~Portal!At(c, "file:insert")'
    BY <1>0 DEF Portal!ThenRecord, Portal!At, Portal!TypeOK
  <1>7. Portal!GuardTouch(c) => portalCall[c].route # "file:insert"
    BY <1>0, Portal!CallKinds, PortalAssumption
       DEF Portal!GuardTouch, Portal!At, Portal!KeyCall
  <1>8. Portal!DecideUpdate(c) => ~Portal!At(c, "file:insert")'
    <2>1. SUFFICES ASSUME Portal!DecideUpdate(c) PROVE portalCall'[c].step = "record"
      BY DEF Portal!At
    <2>. QED
      BY <2>1 DEF Portal!DecideUpdate
  <1>9. ~Portal!At(c, "file:insert")'
    BY <1>3, <1>4, <1>5, <1>6, <1>7, <1>8
       DEF PortalStep, Portal!AddFind, Portal!AddWrite, Portal!RemoveFind,
       Portal!RemoveUpdate, Portal!CreateKeyStatus, Portal!CreateKeyInsert,
       Portal!RevokeKeyUpdate, Portal!GuardTouch, Portal!Record, Portal!Fail
  <1>. QED
    BY <1>1, <1>9 DEF FilingStays

LEMMA OwnConsentStep ==
  ASSUME Base, NEW c \in Call, ConsentStep(c)
  PROVE  GrantStays(c)
  <1>0. Consents!TypeOK
    BY DEF Base, Consents!Inv
  <1>1. Aside(c)
    BY DEF ConsentStep, Vacant, Aside, Fetching, Consents!Free, Consents!Reserving,
       Consents!At, Consents!CreateAudit, Consents!ApproveSteps, Consents!DenySteps,
       Consents!RevokeSteps, Consents!ApproveUpdate, Consents!GrantFromAccessRequest,
       Consents!GrantConflict, Consents!AuditGrant, Consents!ApproveAudit,
       Consents!DenyUpdate, Consents!DenyAudit, Consents!RevokeUpdate,
       Consents!RevokeAudit
  <1>. SUFFICES Aside(c)'
    BY <1>1 DEF GrantStays
  <1>2. ASSUME NEW r, grantCall' = [grantCall EXCEPT ![c] = r],
               r.step \notin {"fetch:consents", "fetch:credentials", "fetch:audit",
                              "create:wallet", "create:insert"}
        PROVE  Aside(c)'
    BY <1>0, <1>2 DEF Aside, Fetching, Consents!Reserving, Consents!TypeOK
  <1>3. ASSUME NEW s \in {"approve:grant", "approve:auditGrant", "approve:audit",
                          "deny:audit", "revoke:audit"},
               grantCall'[c].step = s
        PROVE  Aside(c)'
    BY <1>3 DEF Aside, Fetching, Consents!Reserving
  <1>4. CASE ConsentStart(c)
    BY <1>2, <1>4 DEF ConsentStart, Consents!Approve, Consents!Deny, Consents!Revoke
  <1>5. CASE Consents!CreateAudit(c) \/ Consents!ApproveAudit(c) \/ Consents!DenyAudit(c)
             \/ Consents!RevokeAudit(c) \/ Consents!GrantConflict(c) \/ Consents!Fail(c)
    BY <1>2, <1>5 DEF Consents!CreateAudit, Consents!ApproveAudit, Consents!DenyAudit,
       Consents!RevokeAudit, Consents!GrantConflict, Consents!Fail, Consents!Reject,
       Consents!Answer, Consents!Idle
  <1>6. CASE Consents!ApproveUpdate(c) \/ Consents!GrantFromAccessRequest(c)
             \/ Consents!AuditGrant(c)
    <2>1. grantCall[c] \in Consents!ApproveCall
      BY <1>0, <1>6, Consents!CallKinds, ConsentAssumption
         DEF Consents!ApproveUpdate, Consents!GrantFromAccessRequest,
         Consents!AuditGrant, Consents!At
    <2>2. grantCall'[c].step \in {"approve:grant", "approve:auditGrant", "approve:audit"}
      BY <1>0, <1>6, <2>1 DEF Consents!ApproveUpdate, Consents!GrantFromAccessRequest,
         Consents!AuditGrant, Consents!Goto, Consents!ApproveCall, Consents!TypeOK
    <2>. QED
      BY <1>3, <2>2
  <1>7. CASE Consents!DenyUpdate(c) \/ Consents!RevokeUpdate(c)
    <2>1. grantCall[c] \in Consents!DenyCall \cup Consents!RevokeCall
      BY <1>0, <1>7, Consents!CallKinds, ConsentAssumption
         DEF Consents!DenyUpdate, Consents!RevokeUpdate, Consents!At
    <2>2. grantCall'[c].step \in {"deny:audit", "revoke:audit"}
      BY <1>0, <1>7, <2>1 DEF Consents!DenyUpdate, Consents!RevokeUpdate,
         Consents!Goto, Consents!DenyCall, Consents!RevokeCall, Consents!TypeOK
    <2>. QED
      BY <1>3, <2>2
  <1>. QED
    BY <1>4, <1>5, <1>6, <1>7 DEF ConsentStep, Consents!ApproveSteps,
       Consents!DenySteps, Consents!RevokeSteps

LEMMA OwnIdentityStep ==
  ASSUME Base, NEW c \in Call, InStep(c), IdentityStep(c)
  PROVE  ReadStays(c)
  <1>0. Identity!TypeOK
    BY DEF Base, Identity!Inv
  <1>1. ~Reading(c)
    BY DEF InStep, IdentityStep, Vacant, Identity!Idle, Reading, Fetching, Consents!At,
       Identity!At, Identity!SaveInsert, Identity!SaveUpdate, Identity!SaveRecord,
       Identity!UploadPut, Identity!UploadInsert, Identity!ReviewUpdate,
       Identity!VerifyInsert, Identity!IssueCredential, Identity!Record
  <1>. SUFFICES ~Reading(c)'
    BY <1>1 DEF ReadStays
  <1>2. ASSUME NEW r, identityCall' = [identityCall EXCEPT ![c] = r],
               r.step \notin {"read:consents", "read:credentials", "read:record"}
        PROVE  ~Reading(c)'
    BY <1>0, <1>2 DEF Reading, Identity!TypeOK
  <1>3. CASE IdentityStart(c)
    BY <1>2, <1>3 DEF IdentityStart, Identity!Save, Identity!Upload, Identity!Review,
       Identity!Verify, Identity!Begin
  <1>4. ASSUME NEW p, NEW s, Identity!Saved(c, p, s) PROVE ~Reading(c)'
    BY <1>4 DEF Identity!Saved, Reading
  <1>5. ASSUME Identity!Answer(c) PROVE ~Reading(c)'
    BY <1>2, <1>5 DEF Identity!Answer, Identity!Idle
  <1>6. ASSUME NEW t, NEW s, Identity!ThenRecord(c, t, s) PROVE ~Reading(c)'
    BY <1>2, <1>6 DEF Identity!ThenRecord
  <1>7. CASE Identity!SaveInsert(c) \/ Identity!SaveUpdate(c)
    BY <1>4, <1>5, <1>7 DEF Identity!SaveInsert, Identity!SaveUpdate
  <1>8. CASE Identity!SaveRecord(c) \/ Identity!Record(c) \/ Identity!Fail(c)
    BY <1>5, <1>8 DEF Identity!SaveRecord, Identity!Record, Identity!Fail
  <1>9. CASE Identity!UploadInsert(c) \/ Identity!ReviewUpdate(c)
             \/ Identity!IssueCredential(c)
    BY <1>6, <1>9 DEF Identity!UploadInsert, Identity!ReviewUpdate,
       Identity!IssueCredential
  <1>10. CASE Identity!UploadPut(c) \/ Identity!VerifyInsert(c)
    BY <1>2, <1>6, <1>10 DEF Identity!UploadPut, Identity!VerifyInsert
  <1>. QED
    BY <1>3, <1>7, <1>8, <1>9, <1>10 DEF IdentityStep

LEMMA OnePartFits ==
  ASSUME Base, Stays, NEW c \in Call, Fits(c),
         PortalStep(c) \/ ConsentStep(c) \/ IdentityStep(c)
  PROVE  Fits(c)'
  <1>1. UNCHANGED portalVars => FilingStays(c)
    BY DEF portalVars, FilingStays, Portal!At, Caller
  <1>2. UNCHANGED consentVars => GrantStays(c)
    BY DEF consentVars, GrantStays
  <1>3. UNCHANGED identityVars => ReadStays(c)
    BY DEF identityVars, ReadStays, SameRead
  <1>4. CASE PortalStep(c)
    BY <1>2, <1>3, <1>4, OwnPortalStep, Frame DEF PortalStep
  <1>5. CASE ConsentStep(c)
    BY <1>1, <1>3, <1>5, OwnConsentStep, Frame DEF ConsentStep
  <1>6. CASE IdentityStep(c)
    BY <1>1, <1>2, <1>6, OwnIdentityStep, Frame DEF IdentityStep, Fits
  <1>. QED
    BY <1>4, <1>5, <1>6

----------------------------------------------------------------------------
(* The slot that takes a step of several parts.                            *)

\* Calls are functions on the slots.
LEMMA Slots ==
  ASSUME Base
  PROVE  /\ portalCall = [c \in Call |-> portalCall[c]]
         /\ grantCall = [c \in Call |-> grantCall[c]]
         /\ identityCall = [c \in Call |-> identityCall[c]]
  BY DEF Base, Portal!Inv, Portal!TypeOK, Consents!Inv, Consents!TypeOK, Identity!Inv,
     Identity!TypeOK

\* A slot whose consent side is aside is not reading.
LEMMA AsideRests ==
  ASSUME NEW c \in Call, InStep(c), ~Fetching(c)
  PROVE  ~Reading(c)
  BY DEF InStep, Fetching, Reading, Consents!At, Identity!At

LEMMA AskFits ==
  ASSUME Base, Stays, NEW c \in Call, Fits(c), AskForAccess(c)
  PROVE  Fits(c)'
  <1>1. Portal!At(c, "file:status") /\ keys' = keys
    BY DEF AskForAccess, Portal!FileStatus
  <1>2. CASE portalCall'[c] = Portal!Idle
    <2>1. FilingStays(c)
      BY <1>1, <1>2 DEF FilingStays, Portal!At, Portal!Idle
    <2>2. GrantStays(c) /\ ReadStays(c)
      BY <1>2 DEF AskForAccess, consentVars, identityVars, GrantStays, ReadStays, SameRead
    <2>. QED
      BY <2>1, <2>2, Frame
  <1>3. CASE portalCall'[c] # Portal!Idle
    <2>1. PICK S \in SUBSET Scope \ {{}}, d \in ExpiryDays :
            Consents!CreateForAnchor(c, Caller(c), S, d)
      BY <1>3 DEF AskForAccess
    <2>2. portalCall[c] \in Portal!KeyCall
      BY <1>1, Portal!CallKinds, PortalAssumption DEF Portal!At, Base, Portal!Inv
    <2>3. portalCall'[c] = [portalCall[c] EXCEPT !.step = "file:insert"]
      BY <1>3, Slots DEF AskForAccess, Portal!FileStatus, Portal!Goto, Portal!Answer
    <2>4. portalCall'[c].step = "file:insert" /\ Caller(c)' = Caller(c)
      BY <1>1, <2>2, <2>3 DEF Caller, Portal!KeyCall
    <2>5. /\ Consents!Free(c)
          /\ grantCall'[c].step = "create:wallet" /\ grantCall'[c].anchor = Caller(c)
      BY <2>1, Slots DEF Consents!CreateForAnchor
    <2>6. ~Fetching(c)
      BY <2>5 DEF Fetching, Consents!Free
    <2>7. ~Reading(c)'
      BY <2>6, AsideRests DEF Fits, AskForAccess, identityVars, Reading
    <2>8. InStep(c)' /\ CutToScopes(c)'
      BY <2>5, <2>7 DEF InStep, CutToScopes, Fetching, Reading, Consents!At, Identity!At
    <2>9. FilesFor(c)'
      BY <2>4, <2>5 DEF FilesFor, Portal!At, Consents!At, Consents!Reserving
    <2>. QED
      BY <2>8, <2>9 DEF Fits
  <1>. QED
    BY <1>2, <1>3

LEMMA SubjectFits ==
  ASSUME Base, Stays, NEW c \in Call, Fits(c), FindSubject(c)
  PROVE  Fits(c)'
  <1>1. Consents!At(c, "create:wallet")
    BY DEF FindSubject, Consents!CreateFindProfile
  <1>2. grantCall[c] \in Consents!CreateCall
    BY <1>1, Consents!CallKinds, ConsentAssumption DEF Base, Consents!Inv, Consents!At
  <1>3. PICK p \in Profile :
          grantCall' = [grantCall EXCEPT ![c].step = "create:insert", ![c].profile = p]
    <2>1. ~Consents!Reject(c)
      BY Slots DEF FindSubject, Consents!InFlight, Consents!Free, Consents!Reject,
         Consents!Answer, Consents!Idle
    <2>. QED
      BY <2>1 DEF FindSubject, Consents!CreateFindProfile
  <1>4. /\ grantCall'[c].step = "create:insert" /\ grantCall'[c].profile = p
        /\ grantCall'[c].anchor = grantCall[c].anchor
    BY <1>2, <1>3, Slots DEF Consents!CreateCall
  <1>5. ~Reading(c)'
    BY <1>1, AsideRests DEF Fits, FindSubject, identityVars, Reading, Fetching,
       Consents!At
  <1>6. InStep(c)' /\ CutToScopes(c)'
    BY <1>4, <1>5 DEF InStep, CutToScopes, Fetching, Reading, Consents!At, Identity!At
  <1>7. FilesFor(c)'
    <2>1. profiles'[grantCall'[c].profile] # None
      BY DEF FindSubject, identityVars
    <2>2. Portal!At(c, "file:insert")' /\ Caller(c)' = Caller(c)
      BY <1>1 DEF Fits, FilesFor, FindSubject, portalVars, Portal!At, Caller,
         Consents!Reserving, Consents!At
    <2>. QED
      BY <1>1, <1>4, <2>1, <2>2 DEF Fits, FilesFor, Consents!Reserving, Consents!At
  <1>. QED
    BY <1>6, <1>7 DEF Fits

LEMMA FilingEndFits ==
  ASSUME Base, Stays, NEW c \in Call, Fits(c), FilingFails(c) \/ InsertRequest(c)
  PROVE  Fits(c)'
  <1>1. Portal!At(c, "file:insert") /\ UNCHANGED identityVars
    BY DEF FilingFails, InsertRequest, Portal!FileInsert
  <1>2. portalCall'[c] = Portal!Idle
    BY Slots DEF FilingFails, InsertRequest, Portal!FileInsert, Portal!Fail, Portal!Answer
  <1>3. Consents!Reserving(c)
    BY <1>1 DEF Fits, FilesFor
  <1>4. Aside(c)'
    <2>1. CASE FilingFails(c)
      BY <2>1, Slots DEF FilingFails, Consents!Fail, Consents!Reject, Consents!Answer,
         Consents!Idle, Consents!Free, Aside, Fetching, Consents!Reserving
    <2>2. CASE InsertRequest(c)
      <3>1. grantCall[c] \in Consents!CreateCall
        BY <1>3, Consents!CallKinds, ConsentAssumption
           DEF Base, Consents!Inv, Consents!Reserving
      <3>2. grantCall'[c].step = "create:audit"
        BY <2>2, <3>1, Slots DEF InsertRequest, Consents!CreateInsert, Consents!Goto,
           Consents!CreateCall
      <3>. QED
        BY <3>2 DEF Aside, Fetching, Consents!Reserving
    <2>. QED
      BY <2>1, <2>2
  <1>5. ~Reading(c)'
    BY <1>1, <1>3, AsideRests DEF Fits, identityVars, Reading, Fetching,
       Consents!Reserving
  <1>6. InStep(c)' /\ CutToScopes(c)'
    BY <1>4, <1>5 DEF InStep, CutToScopes, Aside, Fetching, Reading, Consents!At,
       Identity!At
  <1>7. FilesFor(c)'
    BY <1>2, <1>4 DEF FilesFor, Aside, Portal!At, Portal!Idle, Consents!Reserving,
       Consents!At
  <1>. QED
    BY <1>6, <1>7 DEF Fits

LEMMA StartFits ==
  ASSUME Base, Stays, NEW c \in Call, Fits(c), StartRead(c)
  PROVE  Fits(c)'
  <1>1. /\ Portal!At(c, "read") /\ keys' = keys
        /\ readWith' = readWith \cup {portalCall[c].for}
        /\ portalCall'[c] = Portal!Idle
    BY Slots DEF StartRead, Portal!Read, Portal!Answer
  <1>2. PICK p \in Profile : /\ Consents!GetScopedDataForAnchor(c, Caller(c), p)
                             /\ Identity!Read(c, p)
    BY DEF StartRead
  <1>3. /\ grantCall'[c].step = "fetch:consents" /\ grantCall'[c].profile = p
        /\ grantCall'[c].anchor = Caller(c)
    BY <1>2, Slots DEF Consents!GetScopedDataForAnchor
  <1>4. /\ identityCall'[c].step = "read:consents" /\ identityCall'[c].profile = p
        /\ profiles'[p] # None
    BY <1>2, Slots DEF Identity!Read, Identity!Begin
  <1>5. \E k \in readWith' : keys'[k].anchor = Caller(c)
    BY <1>1 DEF Caller
  <1>6. InStep(c)' /\ CutToScopes(c)'
    BY <1>3, <1>4, <1>5 DEF InStep, CutToScopes, Fetching, Consents!At, Identity!At,
       ReadItself
  <1>7. FilesFor(c)'
    BY <1>1, <1>3 DEF FilesFor, Portal!At, Portal!Idle, Consents!Reserving, Consents!At
  <1>. QED
    BY <1>6, <1>7 DEF Fits

LEMMA StillRead ==
  ASSUME Stays, NEW a, ReadItself(a)
  PROVE  \E k \in readWith' : keys'[k].anchor = a
  BY DEF Stays, ReadItself

LEMMA CutFits ==
  ASSUME Base, Stays, NEW c \in Call, Fits(c), CutToGrants(c)
  PROVE  Fits(c)'
  <1>1. /\ Consents!At(c, "fetch:consents") /\ Identity!At(c, "read:consents")
        /\ UNCHANGED portalVars
    BY DEF CutToGrants, Consents!FindConsents, Identity!ReadConsents
  <1>2. ~Portal!At(c, "file:insert")'
    BY <1>1 DEF Fits, FilesFor, portalVars, Portal!At, Consents!Reserving, Consents!At
  <1>3. CASE Consents!Free(c)'
    <2>1. identityCall'[c] = Identity!Idle
      BY <1>3 DEF CutToGrants
    <2>2. Aside(c)'
      BY <1>3 DEF Consents!Free, Aside, Fetching, Consents!Reserving
    <2>3. InStep(c)' /\ CutToScopes(c)' /\ FilesFor(c)'
      BY <1>2, <2>1, <2>2 DEF InStep, CutToScopes, FilesFor, Aside, Fetching,
         Identity!Idle, Consents!At, Identity!At, Consents!Reserving
    <2>. QED
      BY <2>3 DEF Fits
  <1>4. CASE ~Consents!Free(c)'
    <2>1. grantCall[c] \in Consents!FetchCall /\ identityCall[c] \in Identity!ReadCall
      BY <1>1, Consents!CallKinds, ConsentAssumption, Identity!CallKinds,
         IdentityAssumption
         DEF Base, Consents!Inv, Identity!Inv, Consents!At, Identity!At
    <2>2. PICK found : grantCall'[c] =
            [grantCall[c] EXCEPT !.found = found, !.scopes = Consents!ScopesOf(found),
               !.step = IF Consents!ScopesOf(found)
                             \cap (Scope \cap Identity!CredentialScopes) = {}
                        THEN "fetch:audit" ELSE "fetch:credentials"]
      <3>1. ~Consents!Reject(c)
        BY <1>4, Slots DEF Consents!Reject, Consents!Answer, Consents!Idle, Consents!Free
      <3>2. PICK found : grantCall' = [grantCall EXCEPT ![c] =
              [@ EXCEPT !.found = found, !.scopes = Consents!ScopesOf(found),
                 !.step = IF Consents!ScopesOf(found)
                               \cap (Scope \cap Identity!CredentialScopes) = {}
                          THEN "fetch:audit" ELSE "fetch:credentials"]]
        BY <3>1 DEF CutToGrants, Consents!FindConsents
      <3>. QED
        BY <3>2, Slots
    <2>3. PICK S \in SUBSET Scope : identityCall'[c] =
            [identityCall[c] EXCEPT
               !.step = IF S \cap Identity!CredentialScopes = {} THEN "read:record"
                        ELSE "read:credentials",
               !.scopes = S,
               !.values = Identity!Disclosed(identityCall[c].values, S)]
      BY <1>4, Slots DEF CutToGrants, Identity!ReadConsents, Identity!Answer
    <2>4. /\ grantCall'[c].scopes = Consents!ScopesOf(found)
          /\ grantCall'[c].step =
               IF Consents!ScopesOf(found) \cap (Scope \cap Identity!CredentialScopes) = {}
               THEN "fetch:audit" ELSE "fetch:credentials"
          /\ grantCall'[c].anchor = grantCall[c].anchor
          /\ grantCall'[c].profile = grantCall[c].profile
      BY <2>1, <2>2 DEF Consents!FetchCall
    <2>5. /\ identityCall'[c].scopes = S
          /\ identityCall'[c].step =
               IF S \cap Identity!CredentialScopes = {} THEN "read:record"
               ELSE "read:credentials"
          /\ identityCall'[c].profile = identityCall[c].profile
          /\ DOMAIN identityCall'[c].values =
               Column \cap UNION {Identity!ColumnsOf(s) : s \in S}
      BY <2>1, <2>3 DEF Identity!ReadCall, Identity!Disclosed
    <2>6. S = Consents!ScopesOf(found)
      BY <1>4, <2>4, <2>5 DEF CutToGrants
    <2>7. S \cap (Scope \cap Identity!CredentialScopes) = S \cap Identity!CredentialScopes
      OBVIOUS
    <2>8. /\ identityCall[c].profile = grantCall[c].profile
          /\ profiles'[grantCall[c].profile] # None
          /\ \E k \in readWith' : keys'[k].anchor = grantCall[c].anchor
      <3>1. grantCall[c].profile \in Profile
        BY <2>1 DEF Consents!FetchCall
      <3>2. Fetching(c)
        BY <1>1 DEF Fetching, Consents!At
      <3>. QED
        BY <1>1, <3>1, <3>2, StillRead DEF Fits, InStep, Stays
    <2>9. InStep(c)' /\ CutToScopes(c)' /\ FilesFor(c)'
      BY <1>2, <2>4, <2>5, <2>6, <2>7, <2>8 DEF InStep, CutToScopes, FilesFor, Fetching,
         Consents!At, Identity!At, Consents!Reserving, ReadItself
    <2>. QED
      BY <2>9 DEF Fits
  <1>. QED
    BY <1>3, <1>4

LEMMA AddFits ==
  ASSUME Base, Stays, NEW c \in Call, Fits(c), AddCredentials(c)
  PROVE  Fits(c)'
  <1>1. /\ Consents!At(c, "fetch:credentials") /\ Identity!At(c, "read:credentials")
        /\ UNCHANGED portalVars
    BY DEF AddCredentials, Consents!FindCredentials, Identity!ReadCredentials
  <1>2. grantCall[c] \in Consents!FetchCall /\ identityCall[c] \in Identity!ReadCall
    BY <1>1, Consents!CallKinds, ConsentAssumption, Identity!CallKinds,
       IdentityAssumption
       DEF Base, Consents!Inv, Identity!Inv, Consents!At, Identity!At
  <1>3. /\ grantCall'[c].step = "fetch:audit" /\ grantCall'[c].scopes = grantCall[c].scopes
        /\ grantCall'[c].anchor = grantCall[c].anchor
        /\ grantCall'[c].profile = grantCall[c].profile
    BY <1>2, Slots DEF AddCredentials, Consents!FindCredentials, Consents!Goto,
       Consents!FetchCall
  <1>4. PICK V \in SUBSET Verification :
          identityCall' = [identityCall EXCEPT ![c].step = "read:record",
                                               ![c].credentials = V]
    BY DEF AddCredentials, Identity!ReadCredentials
  <1>5. /\ identityCall'[c].step = "read:record" /\ identityCall'[c].credentials = V
        /\ identityCall'[c].profile = identityCall[c].profile
        /\ identityCall'[c].scopes = identityCall[c].scopes
        /\ identityCall'[c].values = identityCall[c].values
    BY <1>2, <1>4, Slots DEF Identity!ReadCall
  <1>6. V # None
    BY NothingAssumption
  <1>7. /\ identityCall[c].profile = grantCall[c].profile
        /\ profiles'[grantCall[c].profile] # None
        /\ \E k \in readWith' : keys'[k].anchor = grantCall[c].anchor
    <2>1. grantCall[c].profile \in Profile
      BY <1>2 DEF Consents!FetchCall
    <2>2. Fetching(c)
      BY <1>1 DEF Fetching, Consents!At
    <2>. QED
      BY <1>1, <2>1, <2>2, StillRead DEF Fits, InStep, Stays
  <1>8. InStep(c)'
    BY <1>3, <1>5, <1>7 DEF InStep, Fetching, Consents!At, Identity!At, ReadItself
  <1>9. CutToScopes(c)'
    BY <1>1, <1>3, <1>5, <1>6 DEF Fits, CutToScopes, Consents!At
  <1>10. FilesFor(c)'
    BY <1>1, <1>3 DEF Fits, FilesFor, portalVars, Portal!At, Consents!Reserving, Consents!At
  <1>. QED
    BY <1>8, <1>9, <1>10 DEF Fits

LEMMA ReadEndFits ==
  ASSUME Base, Stays, NEW c \in Call, Fits(c), AnswerRead(c) \/ ReadFails(c)
  PROVE  Fits(c)'
  <1>1. Fetching(c) /\ UNCHANGED portalVars
    BY DEF AnswerRead, ReadFails, Consents!FetchAudit, Consents!At, Fetching
  <1>2. Aside(c)'
    BY Slots DEF AnswerRead, ReadFails, Consents!FetchAudit, Consents!Fail,
       Consents!Reject, Consents!Answer, Consents!Idle, Aside, Fetching, Consents!Reserving
  <1>3. identityCall'[c] = Identity!Idle
    BY Slots DEF AnswerRead, ReadFails, Identity!ReadRecord, Identity!Fail, Identity!Answer
  <1>4. ~Portal!At(c, "file:insert")'
    BY <1>1 DEF Fits, FilesFor, portalVars, Portal!At, Consents!Reserving, Fetching
  <1>5. InStep(c)' /\ CutToScopes(c)' /\ FilesFor(c)'
    BY <1>2, <1>3, <1>4 DEF InStep, CutToScopes, FilesFor, Aside, Fetching,
       Identity!Idle, Consents!At, Identity!At, Consents!Reserving
  <1>. QED
    BY <1>5 DEF Fits

LEMMA FitsStep ==
  ASSUME Base, [Next]_vars, \A c \in Call : Fits(c), NEW d \in Call
  PROVE  Fits(d)'
  <1>1. Stays
    BY AllStays
  <1>2. CASE \/ AskForAccess(d) \/ FindSubject(d) \/ FilingFails(d) \/ InsertRequest(d)
             \/ StartRead(d) \/ CutToGrants(d) \/ AddCredentials(d)
             \/ AnswerRead(d) \/ ReadFails(d)
             \/ PortalStep(d) \/ ConsentStep(d) \/ IdentityStep(d)
    BY <1>1, <1>2, AskFits, SubjectFits, FilingEndFits, StartFits, CutFits, AddFits,
       ReadEndFits, OnePartFits
  <1>3. CASE \E c \in Call \ {d} :
               \/ AskForAccess(c) \/ FindSubject(c) \/ FilingFails(c) \/ InsertRequest(c)
               \/ StartRead(c) \/ CutToGrants(c) \/ AddCredentials(c)
               \/ AnswerRead(c) \/ ReadFails(c)
               \/ PortalStep(c) \/ ConsentStep(c) \/ IdentityStep(c)
    BY <1>1, <1>3, OthersFit
  <1>4. CASE TimeStep \/ PageStep \/ UNCHANGED vars
    BY <1>1, <1>4, OthersFit
  <1>. QED
    BY <1>2, <1>3, <1>4 DEF Next

----------------------------------------------------------------------------
(* The rows.                                                               *)

\* Only the filing of a request makes one.
LEMMA NewRows ==
  ASSUME Base, [Next]_vars, \A c \in Call : ~InsertRequest(c), \A c \in Call : Fits(c),
         NEW r \in Request, requests'[r] # None
  PROVE  requests[r] # None
  <1>0. Consents!TypeOK
    BY DEF Base, Consents!Inv
  <1>1. CASE UNCHANGED requests
    BY <1>1
  <1>2. ASSUME NEW c \in Call, Consents!ApproveUpdate(c) \/ Consents!DenyUpdate(c)
        PROVE  requests[r] # None
    <2>1. requests[grantCall[c].request] # None
      BY <1>2 DEF Base, Consents!Inv, Consents!CallInv, Consents!Grounded,
         Consents!ApproveUpdate, Consents!DenyUpdate, Consents!At
    <2>2. r # grantCall[c].request => requests'[r] = requests[r]
      BY <1>0, <1>2 DEF Consents!ApproveUpdate, Consents!DenyUpdate, Consents!TypeOK
    <2>. QED
      BY <2>1, <2>2
  <1>3. ASSUME NEW c \in Call, ConsentStep(c) PROVE requests[r] # None
    BY <1>1, <1>2, <1>3 DEF ConsentStep, ConsentStart, Consents!Approve, Consents!Deny,
       Consents!Revoke, Consents!CreateAudit, Consents!ApproveSteps, Consents!DenySteps,
       Consents!RevokeSteps, Consents!GrantFromAccessRequest, Consents!GrantConflict,
       Consents!AuditGrant, Consents!ApproveAudit, Consents!DenyAudit,
       Consents!RevokeUpdate, Consents!RevokeAudit, Consents!Fail, Consents!tables
  <1>4. ASSUME NEW c \in Call,
               \/ AskForAccess(c) \/ FindSubject(c) \/ FilingFails(c) \/ StartRead(c)
               \/ CutToGrants(c) \/ AddCredentials(c) \/ AnswerRead(c) \/ ReadFails(c)
               \/ PortalStep(c) \/ IdentityStep(c)
        PROVE  UNCHANGED requests
    BY <1>4 DEF AskForAccess, FindSubject, FilingFails, StartRead, CutToGrants,
       AddCredentials, AnswerRead, ReadFails, PortalStep, IdentityStep, consentVars,
       Consents!CreateForAnchor, Consents!CreateFindProfile, Consents!Fail,
       Consents!GetScopedDataForAnchor, Consents!FindConsents,
       Consents!FindCredentials, Consents!FetchAudit, Consents!tables
  <1>5. TimeStep \/ PageStep \/ UNCHANGED vars => UNCHANGED requests
    BY DEF TimeStep, PageStep, vars, consentVars, Consents!ExpireStale,
       Consents!ExpireAudit, Consents!ExpireFail, Consents!Tick, Consents!tables
  <1>. QED
    BY <1>1, <1>3, <1>4, <1>5 DEF Next

LEMMA RowsStep == ASSUME Base, Whole, [Next]_vars PROVE RowsFit'
  <1>0. Consents!TypeOK /\ Stays
    BY AllStays DEF Base, Consents!Inv
  <1>1. Consents!Kept
    BY Consents!StepKeeps, ConsentAssumption, ConsentNext
       DEF Base, Consents!Inv, Consents!CallInv
  <1>2. ASSUME NEW r \in Request, requests[r] # None
        PROVE  /\ profiles'[requests'[r].profile] # None
               /\ \E k \in filed' : keys'[k].anchor = requests'[r].anchor
    <2>1. /\ requests'[r].profile = requests[r].profile
          /\ requests'[r].anchor = requests[r].anchor
      BY <1>1, <1>2 DEF Consents!Kept, Consents!KeptRequest
    <2>2. requests[r].profile \in Profile
      BY <1>0, <1>2 DEF Consents!TypeOK, Consents!RequestRow
    <2>3. profiles[requests[r].profile] # None /\ FiledItself(requests[r].anchor)
      BY <1>2 DEF Whole, RowsFit
    <2>. QED
      BY <1>0, <2>1, <2>2, <2>3 DEF Stays, FiledItself
  <1>3. ASSUME NEW c \in Call, InsertRequest(c) PROVE RowsFit'
    <2>1. /\ Portal!At(c, "file:insert") /\ keys' = keys
          /\ filed' = filed \cup {portalCall[c].for}
          /\ Consents!At(c, "create:insert") /\ profiles' = profiles
      BY <1>3 DEF InsertRequest, Portal!FileInsert, Consents!CreateInsert, identityVars
    <2>2. /\ grantCall[c].anchor = Caller(c)
          /\ profiles[grantCall[c].profile] # None
      BY <2>1 DEF Whole, Fits, FilesFor, Consents!Reserving, Consents!At
    <2>3. \E k \in filed' : keys'[k].anchor = grantCall[c].anchor
      BY <2>1, <2>2 DEF Caller
    <2>4. ASSUME NEW r \in Request, requests'[r] # None, r = grantCall[c].request
          PROVE  /\ requests'[r].profile = grantCall[c].profile
                 /\ requests'[r].anchor = grantCall[c].anchor
      BY <1>0, <1>3, <2>4 DEF InsertRequest, Consents!CreateInsert, Consents!TypeOK
    <2>5. ASSUME NEW r \in Request, requests'[r] # None, r # grantCall[c].request
          PROVE  requests[r] # None
      BY <1>0, <1>3, <2>5 DEF InsertRequest, Consents!CreateInsert, Consents!TypeOK
    <2>. QED
      BY <1>2, <2>1, <2>2, <2>3, <2>4, <2>5 DEF RowsFit, FiledItself
  <1>4. CASE \A c \in Call : ~InsertRequest(c)
    BY <1>2, <1>4, NewRows DEF RowsFit, FiledItself, Whole
  <1>. QED
    BY <1>3, <1>4

LEMMA WholeInit == Init => Whole
  BY DEF Init, Whole, Named, RowsFit, Fits, InStep, CutToScopes, FilesFor, Fetching,
     Portal!Init, Portal!At, Portal!Idle, Consents!Init, Consents!At, Consents!Idle,
     Consents!Reserving, Identity!Init, Identity!At, Identity!Idle

LEMMA WholeStep == Base /\ Whole /\ [Next]_vars => Whole'
  <1>. SUFFICES ASSUME Base, Whole, [Next]_vars PROVE Whole'
    OBVIOUS
  <1>1. Named'
    BY NamedStep DEF Whole
  <1>2. \A c \in Call : Fits(c)'
    BY FitsStep DEF Whole
  <1>. QED
    BY <1>1, <1>2, RowsStep DEF Whole

----------------------------------------------------------------------------
(* What the platform is for.                                               *)

LEMMA GrantedWhole == Base /\ Whole => AnswersAreGranted
  <1>. SUFFICES ASSUME Base, Whole, NEW c \in Call, Consents!At(c, "fetch:audit")
                PROVE  /\ identityCall[c].step = "read:record"
                       /\ ReadItself(grantCall[c].anchor)
                       /\ NoMoreThanGranted(c) /\ NoLessThanGranted(c) /\ AsItWas(c)
    BY DEF AnswersAreGranted
  <1>. DEFINE answer == identityCall[c]
              p == grantCall[c].profile
  <1>1. /\ Identity!At(c, "read:record") /\ answer.step = "read:record"
        /\ answer.profile = p /\ profiles[p] # None
        /\ ReadItself(grantCall[c].anchor)
        /\ answer.scopes = grantCall[c].scopes
        /\ DOMAIN answer.values =
             Column \cap UNION {Identity!ColumnsOf(s) : s \in grantCall[c].scopes}
        /\ grantCall[c].scopes \cap Identity!CredentialScopes # {} =>
             answer.credentials # None
    BY DEF Whole, Fits, InStep, CutToScopes, Fetching, Consents!At, Identity!At
  <1>2. grantCall[c] \in Consents!FetchCall /\ p \in Profile
    BY Consents!CallKinds, ConsentAssumption
       DEF Base, Consents!Inv, Consents!At, Consents!FetchCall
  <1>3. /\ \A s \in grantCall[c].scopes : \E k \in Standing(c) : s \in consents[k].scopes
        /\ \A k \in grantCall[c].liveAtStart :
             Consents!Live(k) => consents[k].scopes \subseteq grantCall[c].scopes
    BY DEF Base, Consents!Inv, Consents!CallInv, Consents!WithinGrants,
       Consents!UnionOfGrants, Consents!Disclosing, Consents!At, Standing
  <1>4. Identity!OneState(answer) /\ Identity!VerifiedOnly(answer)
    BY <1>1 DEF Base, Identity!Inv, Identity!CallInv
  <1>5. NoMoreThanGranted(c)
    <2>1. ASSUME NEW x \in DOMAIN answer.values
          PROVE  \E k \in Standing(c) : OpensColumn(k, x)
      BY <1>1, <1>3 DEF OpensColumn
    <2>2. answer.credentials # None => \E k \in Standing(c) : OpensCredentials(k)
      BY <1>1, <1>3, <1>4 DEF OpensCredentials, Identity!VerifiedOnly
    <2>3. ASSUME NEW k \in Standing(c)
          PROVE  /\ consents[k].user = profiles[answer.profile].user
                 /\ FiledItself(consents[k].anchor)
      <3>1. k \in Consent /\ consents[k] # None /\ consents[k].profile = p
        BY DEF Standing, Consents!Grants
      <3>2. consents[k].request \in Request
        BY <3>1 DEF Base, Consents!Inv, Consents!TypeOK, Consents!ConsentRow
      <3>3. /\ requests[consents[k].request] # None
            /\ consents[k].anchor = requests[consents[k].request].anchor
            /\ consents[k].profile = requests[consents[k].request].profile
            /\ consents[k].user = Owner[requests[consents[k].request].profile]
        BY <3>1 DEF Base, Consents!Inv, Consents!GrantMatchesRequest
      <3>4. profiles[p].user = Owner[p]
        BY <1>1, <1>2 DEF Whole, Named
      <3>5. FiledItself(requests[consents[k].request].anchor)
        BY <3>2, <3>3 DEF Whole, RowsFit
      <3>. QED
        BY <1>1, <3>1, <3>3, <3>4, <3>5
    <2>. QED
      BY <2>1, <2>2, <2>3 DEF NoMoreThanGranted
  <1>6. NoLessThanGranted(c)
    BY <1>1, <1>3 DEF NoLessThanGranted, OpensColumn, OpensCredentials
  <1>7. AsItWas(c)
    BY <1>1, <1>4 DEF AsItWas, Identity!OneState, Identity!VerifiedOnly
  <1>. QED
    BY <1>1, <1>5, <1>6, <1>7

\* What the platform is for: an anchor that has come in with a key of its own
\* is answered with the user's data as it was during the read, all that
\* consents in force throughout it open and nothing that no consent standing
\* at its start opens, each given by that user on a request filed with a key;
\* whatever the other handlers of all three parts do in between.
THEOREM AnchorsSeeWhatIsGranted == Spec => []AnswersAreGranted
  <1>1. Spec => []Whole
    BY BaseHolds, WholeInit, WholeStep, PTL DEF Spec
  <1>. QED
    BY <1>1, BaseHolds, GrantedWhole, PTL
=============================================================================
