------------------------- MODULE AnchorHistoryProofs -------------------------
(***************************************************************************)
(* Proofs about AnchorPortal, for every value of its constants: what holds *)
(* of the anchors, members and keys whose calls did not overlap or fail.   *)
(***************************************************************************)
EXTENDS AnchorPortalProofs

\* Calls about one thing at once leave their mark.
Alone ==
  \A t \in Thing \ disturbed : \A c, d \in Call : About(c, t) /\ About(d, t) => c = d

Decisions == {<<"PENDING", "APPROVED">>, <<"PENDING", "REJECTED">>,
              <<"APPROVED", "SUSPENDED">>}

\* What a call found, or its page showed, is still so.
Sound(c) ==
  /\ call[c] \in MemberCall /\ call[c].about \notin disturbed /\ At(c, "add:update")
       => ~Live(call[c].about)
  /\ call[c] \in StatusCall /\ call[c].about \notin disturbed
       => <<anchors[call[c].about].status, call[c].says>> \in Decisions

\* Entry e, or None, says what the row of t does.
Tells(t, e) ==
  /\ t \in Anchor => (Exists(t) =>
       /\ anchors[t].status = IF e.says = "REGISTERED" THEN "PENDING" ELSE e.says
       /\ Approved(t) => anchors[t].approvedBy = e.by)
  /\ t \in Membership =>
       CASE e = None -> Live(t) => members[t].role = "ANCHOR_ADMIN"
         [] e = [says |-> "REMOVED"] -> ~Live(t)
         [] OTHER -> Live(t) /\ members[t].role = e.says
  /\ t \in Key => (keys[t] # None =>
       e = [says |-> IF keys[t].revoked THEN "REVOKED" ELSE "CREATED"])

\* The log tells of t, or the entry does that is on its way.
Reported(t) ==
  /\ (\A c \in Call : About(c, t) => ~At(c, "record")) => Tells(t, log[t])
  /\ \A c \in Call : About(c, t) /\ At(c, "record") => Tells(t, call[c].entry)

HistoryInv == /\ Inv /\ Alone
              /\ \A c \in Call : Sound(c)
              /\ \A t \in Thing \ disturbed : Reported(t)

----------------------------------------------------------------------------
(* Who is about what.                                                      *)

\* The steps of others leave alone what a call is about.
LEMMA OthersAbout ==
  ASSUME TypeOK, NEW c \in Call, Step(c), NEW d \in Call \ {c}, NEW t \in Thing
  PROVE  /\ About(d, t)' <=> About(d, t)
         /\ About(d, t) => call'[d] = call[d]
  <1>1. Alike(d)
    BY Others
  <1>2. About(d, t)' <=> About(d, t)
    BY <1>1, AlikeKinds DEF About
  <1>3. About(d, t) => call[d] \notin CreateCall \cup KeyCall
    BY NoneAssumption DEF About, CreateCall, KeyCall
  <1>. QED
    BY <1>1, <1>2, <1>3, AlikeKinds

\* What a call that is about something is like.
LEMMA AboutWhat ==
  ASSUME Inv, NEW c \in Call, NEW t \in Thing, About(c, t)
  PROVE  /\ t \in Anchor => call[c] \in StatusCall \cup RecordCall
         /\ t \in Membership => call[c] \in MemberCall \cup RemoveCall \cup RecordCall
         /\ t \in Membership => Exists(t[1])
         /\ t \in Key => keys[t] # None
         /\ t \in Anchor => Exists(t)
  <1>0. TypeOK /\ Known /\ Ground(c)
    BY DEF Inv, CallInv
  <1>1. call[c] \in CallState /\ call[c] # Idle /\ call[c].about = t /\ t # None
    BY <1>0, NoneAssumption DEF TypeOK, About
  <1>2. /\ t \in Anchor => call[c] \in StatusCall \cup RecordCall
        /\ t \in Membership => call[c] \in MemberCall \cup RemoveCall \cup RecordCall
        /\ t \in Key => call[c] \in RevokeCall \cup RecordCall
    BY <1>1, IdAssumption DEF CallState, StatusCall, MemberCall, RemoveCall, CreateCall,
       RevokeCall, KeyCall, RecordCall
  <1>3. t \in Key => keys[t] # None
    BY <1>0, <1>1, <1>2 DEF Ground, There
  <1>4. t \in Anchor => Exists(t)
    BY <1>0, <1>1, <1>2 DEF Ground, There
  <1>5. ASSUME t \in Membership PROVE Exists(t[1])
    <2>1. call[c] \in RemoveCall \cup RecordCall => members[t] # None
      BY <1>0, <1>1, <1>5 DEF Ground, There
    <2>2. members[t] # None => Exists(t[1])
      BY <1>0, <1>5 DEF Known, Membership
    <2>. QED
      BY <1>0, <1>1, <1>2, <1>5, <2>1, <2>2 DEF Ground
  <1>. QED
    BY <1>2, <1>3, <1>4, <1>5

\* A call that comes to be about t is alone with it, or disturbs it.
LEMMA Newcomer ==
  ASSUME Inv, NEW c \in Call, Step(c), NEW t \in Thing, About(c, t)', ~About(c, t)
  PROVE  \/ t \in disturbed'
         \/ \A d \in Call \ {c} : ~About(d, t)
  <1>0. TypeOK
    BY DEF Inv
  <1>1. CASE Start(c)
    <2>1. PICK r \in CallState \ {Idle} : Begin(c, r) /\ r.about \in Thing \cup {None}
      BY <1>0, <1>1, StartCalls
    <2>2. call'[c] = r
      BY <1>0, <2>1, BeginStep
    <2>3. r.about = t /\ t # None
      BY <2>2, NoneAssumption DEF About
    <2>. QED
      BY <2>1, <2>3 DEF Begin, About
  <1>2. CASE CreateKeyInsert(c)
    <2>1. PICK k \in Key : keys[k] = None /\ ThenRecord(c, k, [says |-> "CREATED"])
      BY <1>2 DEF CreateKeyInsert
    <2>2. call'[c].about = k
      BY <1>0, <2>1 DEF ThenRecord, TypeOK
    <2>3. t = k
      BY <2>2 DEF About
    <2>. QED
      BY <2>1, <2>3, AboutWhat
  <1>3. CASE Continue(c) /\ ~CreateKeyInsert(c)
    <2>1. CASE AddFind(c) \/ RemoveFind(c) \/ CreateKeyStatus(c) \/ GuardTouch(c)
               \/ FileStatus(c) \/ FileInsert(c) \/ Read(c) \/ Record(c)
      <3>1. Answer(c) \/ \E s : Goto(c, s)
        BY <2>1 DEF AddFind, RemoveFind, CreateKeyStatus, GuardTouch, FileStatus,
           FileInsert, Read, Record
      <3>2. call[c] # Idle
        BY <1>0, <2>1, CallKinds DEF AddFind, RemoveFind, CreateKeyStatus, GuardTouch,
           FileStatus, FileInsert, Read, Record, At
      <3>3. call[c] \in CallState \ {Idle}
        BY <1>0, <3>2 DEF TypeOK
      <3>4. "about" \in DOMAIN call[c]
        BY <3>3 DEF CallState, StatusCall, MemberCall, RemoveCall, CreateCall, RevokeCall,
           KeyCall, RecordCall
      <3>5. call'[c] = Idle \/ call'[c].about = call[c].about
        BY <1>0, <3>1, <3>4, Moves
      <3>. QED
        BY <3>2, <3>5 DEF About
    <2>2. CASE AddWrite(c) \/ RemoveUpdate(c) \/ RevokeKeyUpdate(c)
      <3>1. Answer(c) \/ \E e : ThenRecord(c, call[c].about, e)
        BY <2>2 DEF AddWrite, RemoveUpdate, RevokeKeyUpdate
      <3>2. call[c] # Idle
        BY <1>0, <2>2, CallKinds DEF AddWrite, RemoveUpdate, RevokeKeyUpdate, At
      <3>3. call'[c] = Idle \/ call'[c].about = call[c].about
        BY <1>0, <3>1, Moves DEF ThenRecord, TypeOK
      <3>. QED
        BY <3>2, <3>3 DEF About
    <2>3. CASE DecideUpdate(c)
      <3>1. /\ call'[c] = [step |-> "record", about |-> call[c].about,
                           entry |-> [says |-> call[c].says, by |-> call[c].by],
                           page |-> call[c].page, against |-> {}]
            /\ call[c] \in StatusCall
        BY <1>0, <2>3, DecideCalls
      <3>. QED
        BY <3>1, Disjoint DEF About
    <2>. QED
      BY <1>3, <2>1, <2>2, <2>3 DEF Continue
  <1>4. CASE Fail(c)
    BY <1>0, <1>4, Moves DEF Fail, About
  <1>. QED
    BY <1>1, <1>2, <1>3, <1>4 DEF Step

LEMMA AloneStep ==
  ASSUME Inv, Alone, Keeps, NEW c \in Call, Step(c) PROVE Alone'
  <1>0. TypeOK /\ Thing \ disturbed' \subseteq Thing \ disturbed
    BY DEF Inv, Keeps
  <1>1. ASSUME NEW t \in Thing \ disturbed', NEW d \in Call, About(d, t)', d # c,
               About(c, t)'
        PROVE  FALSE
    <2>1. About(d, t)
      BY <1>0, <1>1, OthersAbout
    <2>2. ~About(c, t)
      BY <1>0, <1>1, <2>1 DEF Alone
    <2>. QED
      BY <1>1, <2>1, <2>2, Newcomer
  <1>2. ASSUME NEW t \in Thing \ disturbed', NEW d \in Call \ {c}, NEW e \in Call \ {c},
               About(d, t)', About(e, t)'
        PROVE  d = e
    <2>1. About(d, t) /\ About(e, t)
      BY <1>0, <1>2, OthersAbout
    <2>. QED
      BY <1>0, <2>1 DEF Alone
  <1>. QED
    BY <1>1, <1>2 DEF Alone
----------------------------------------------------------------------------
(* Which rows a step changes.                                              *)

\* The row of t and its entry are as before.
Same(t) ==
  /\ t \in Anchor => anchors'[t] = anchors[t]
  /\ t \in Membership => members'[t] = members[t]
  /\ t \in Key => keys'[t] = keys[t]
  /\ log'[t] = log[t]

\* A registration makes a row for the anchor and one for its first member.
Registers(c, t) ==
  \E u \in User, a \in Anchor : Register(c, u, a) /\ (t = a \/ t = <<a, u>>)

\* The statements that write the row a call is about, or its entry.
Writes(c) == \/ DecideUpdate(c) \/ AddWrite(c) \/ RemoveUpdate(c)
             \/ RevokeKeyUpdate(c) \/ Record(c)

LEMMA Changes ==
  ASSUME Inv, NEW c \in Call, Step(c), NEW t \in Thing
  PROVE  \/ Same(t)
         \/ Registers(c, t)
         \/ About(c, t) /\ Writes(c)
         \/ CreateKeyInsert(c) /\ t \in Key /\ keys[t] = None /\ About(c, t)'
  <1>0. TypeOK
    BY DEF Inv
  <1>. DEFINE Own == About(c, t) /\ Writes(c)
  <1>1. ASSUME t \in Anchor, anchors'[t] # anchors[t] PROVE Registers(c, t) \/ Own
    <2>1. ASSUME NEW u \in User, NEW a \in Anchor, Register(c, u, a) PROVE Registers(c, t)
      <3>1. t = a
        BY <1>0, <1>1, <2>1 DEF Register, TypeOK
      <3>. QED
        BY <2>1, <3>1 DEF Registers
    <2>2. ASSUME DecideUpdate(c), call[c] \in StatusCall,
                 \E row : anchors' = [anchors EXCEPT ![call[c].about] = row]
          PROVE  Own
      <3>1. t = call[c].about
        BY <1>0, <1>1, <2>2 DEF TypeOK
      <3>. QED
        BY <2>2, <3>1, Disjoint DEF About, Writes
    <2>. QED
      BY <1>1, <2>1, <2>2, TableSteps
  <1>2. ASSUME t \in Membership, members'[t] # members[t] PROVE Registers(c, t) \/ Own
    <2>1. ASSUME NEW u \in User, NEW a \in Anchor, Register(c, u, a) PROVE Registers(c, t)
      <3>1. t = <<a, u>>
        BY <1>0, <1>2, <2>1 DEF Register, TypeOK, Membership
      <3>. QED
        BY <2>1, <3>1 DEF Registers
    <2>2. ASSUME AddWrite(c) \/ RemoveUpdate(c), call[c] \in MemberCall \cup RemoveCall,
                 \E row : members' = [members EXCEPT ![call[c].about] = row]
          PROVE  Own
      <3>1. t = call[c].about
        BY <1>0, <1>2, <2>2 DEF TypeOK
      <3>. QED
        BY <2>2, <3>1, Disjoint DEF About, Writes
    <2>3. CASE /\ AddWrite(c) /\ call[c] \in MemberCall
               /\ members' = [members EXCEPT ![call[c].about] =
                                [role |-> call[c].role, deleted |-> FALSE]]
      BY <2>2, <2>3
    <2>4. CASE /\ RemoveUpdate(c) /\ call[c] \in RemoveCall
               /\ members' = [members EXCEPT ![call[c].about] =
                                [members[call[c].about] EXCEPT !.deleted = TRUE]]
      BY <2>2, <2>4
    <2>. QED
      BY <1>2, <2>1, <2>3, <2>4, TableSteps
  <1>3. ASSUME t \in Key, keys'[t] # keys[t]
        PROVE  Own \/ (CreateKeyInsert(c) /\ keys[t] = None /\ About(c, t)')
    <2>1. CASE CreateKeyInsert(c)
      <3>1. PICK k \in Key :
              /\ keys[k] = None
              /\ keys' = [keys EXCEPT ![k] = [anchor |-> call[c].for, revoked |-> FALSE]]
              /\ ThenRecord(c, k, [says |-> "CREATED"])
        BY <2>1 DEF CreateKeyInsert
      <3>2. t = k
        BY <1>0, <1>3, <3>1 DEF TypeOK
      <3>3. call'[c].about = k /\ call'[c].step = "record"
        BY <1>0, <3>1 DEF ThenRecord, TypeOK
      <3>. QED
        BY <2>1, <3>1, <3>2, <3>3, Disjoint DEF About, Writes
    <2>2. CASE /\ RevokeKeyUpdate(c) /\ call[c] \in RevokeCall
               /\ keys' = [keys EXCEPT ![call[c].about] =
                             [keys[call[c].about] EXCEPT !.revoked = TRUE]]
      <3>1. t = call[c].about
        BY <1>0, <1>3, <2>2 DEF TypeOK
      <3>. QED
        BY <2>2, <3>1, Disjoint DEF About, Writes
    <2>. QED
      BY <1>3, <2>1, <2>2, TableSteps
  <1>4. ASSUME log'[t] # log[t] PROVE Own
    <2>1. /\ Record(c) /\ call[c] \in RecordCall
          /\ log' = [log EXCEPT ![call[c].about] = call[c].entry]
      BY <1>4, TableSteps
    <2>2. t = call[c].about
      BY <1>0, <1>4, <2>1 DEF TypeOK
    <2>. QED
      BY <2>1, <2>2, Disjoint DEF About, Writes
  <1>. QED
    BY <1>1, <1>2, <1>3, <1>4 DEF Same

\* Registrations are of what nobody has heard of.
LEMMA RegisterFresh ==
  ASSUME Inv, NEW c \in Call, NEW t \in Thing, Registers(c, t)
  PROVE  /\ \A d \in Call : ~About(d, t)
         /\ log[t] = None
         /\ t \in Anchor => ~Exists(t)
         /\ t \in Membership => members[t] = None
  <1>0. TypeOK /\ Known
    BY DEF Inv
  <1>1. PICK u \in User, a \in Anchor : Register(c, u, a) /\ (t = a \/ t = <<a, u>>)
    BY DEF Registers
  <1>2. ~Exists(a)
    BY <1>1 DEF Register
  <1>3. CASE t = a
    <2>1. ~There(t)
      BY <1>2, <1>3 DEF There
    <2>. QED
      BY <1>0, <1>2, <1>3, <2>1, AboutWhat, IdAssumption DEF Known
  <1>4. CASE t = <<a, u>>
    <2>1. t \in Membership /\ t \notin Anchor /\ t[1] = a
      BY <1>4, IdAssumption DEF Membership
    <2>2. members[t] = None
      BY <1>0, <1>2, <1>4 DEF Known
    <2>3. log[t] = None
      BY <1>0, <2>1, <2>2 DEF Known, There
    <2>4. \A d \in Call : ~About(d, t)
      BY <1>2, <2>1, AboutWhat
    <2>. QED
      BY <2>1, <2>2, <2>3, <2>4
  <1>. QED
    BY <1>1, <1>3, <1>4
----------------------------------------------------------------------------
(* The log follows.                                                        *)

LEMMA Carries == ASSUME NEW t \in Thing, NEW e, Same(t), Tells(t, e) PROVE Tells(t, e)'
  BY DEF Same, Tells, Exists, Approved, Live

\* Nobody but c is about t, and the step of c leaves the row and the log.
LEMMA QuietStep ==
  ASSUME NEW c \in Call, NEW t \in Thing, Same(t), Reported(t),
         \A d \in Call \ {c} : ~About(d, t) /\ ~About(d, t)',
         About(c, t) => ~At(c, "record"), About(c, t)' => ~At(c, "record")'
  PROVE  Reported(t)'
  <1>1. PICK e : e = log[t]
    OBVIOUS
  <1>2. Tells(t, e)
    <2>1. \A d \in Call : About(d, t) => ~At(d, "record")
      OBVIOUS
    <2>. QED
      BY <1>1, <2>1 DEF Reported
  <1>3. Tells(t, e)' /\ e = log'[t]
    BY <1>1, <1>2, Carries DEF Same
  <1>4. \A d \in Call : About(d, t)' => ~At(d, "record")'
    OBVIOUS
  <1>. QED
    BY <1>3, <1>4 DEF Reported

\* Nobody but c is about t, and c is on its way to write what is true.
LEMMA EntryStep ==
  ASSUME NEW c \in Call, NEW t \in Thing, NEW e,
         \A d \in Call \ {c} : ~About(d, t)',
         About(c, t)', At(c, "record")', call'[c].entry = e, Tells(t, e)'
  PROVE  Reported(t)'
  BY DEF Reported

LEMMA ReportStep ==
  ASSUME HistoryInv, Keeps, NEW c \in Call, Step(c), NEW t \in Thing \ disturbed'
  PROVE  Reported(t)'
  <1>0. /\ Inv /\ TypeOK /\ Alone /\ Ground(c) /\ t \in Thing \ disturbed /\ Reported(t)
    BY DEF HistoryInv, Inv, CallInv, Keeps
  <1>1. \A d \in Call \ {c} : /\ About(d, t)' <=> About(d, t)
                              /\ About(d, t) => call'[d] = call[d]
    BY <1>0, OthersAbout
  <1>2. CASE ~About(c, t) /\ ~About(c, t)' /\ Same(t)
    <2>1. PICK e : e = log[t]
      OBVIOUS
    <2>2. ASSUME \A d \in Call : About(d, t)' => ~At(d, "record")'
          PROVE  Tells(t, log[t])'
      <3>1. \A d \in Call : About(d, t) => ~At(d, "record")
        BY <1>1, <1>2, <2>2 DEF At
      <3>2. Tells(t, e)
        BY <1>0, <2>1, <3>1 DEF Reported
      <3>3. Tells(t, e)' /\ log'[t] = e
        BY <1>2, <2>1, <3>2, Carries DEF Same
      <3>. QED
        BY <3>3
    <2>3. ASSUME NEW d \in Call, About(d, t)', At(d, "record")'
          PROVE  Tells(t, call[d].entry)'
      <3>1. d # c /\ About(d, t) /\ At(d, "record") /\ call'[d] = call[d]
        BY <1>1, <1>2, <2>3 DEF At
      <3>2. PICK f : f = call[d].entry
        OBVIOUS
      <3>3. Tells(t, f)
        BY <1>0, <3>1, <3>2 DEF Reported
      <3>4. Tells(t, f)' /\ call'[d].entry = f
        BY <1>2, <3>1, <3>2, <3>3, Carries
      <3>. QED
        BY <3>4
    <2>. QED
      BY <2>2, <2>3 DEF Reported
  <1>3. About(c, t) \/ About(c, t)' => \A d \in Call \ {c} : ~About(d, t) /\ ~About(d, t)'
    <2>1. CASE About(c, t)
      BY <1>0, <1>1, <2>1 DEF Alone
    <2>2. CASE About(c, t)' /\ ~About(c, t)
      BY <1>0, <1>1, <2>2, Newcomer
    <2>. QED
      BY <2>1, <2>2
  <1>4. ASSUME Same(t), About(c, t) => ~At(c, "record"), About(c, t)' => ~At(c, "record")'
        PROVE  Reported(t)'
    BY <1>0, <1>2, <1>3, <1>4, QuietStep
  <1>5. CASE Registers(c, t)
    <2>1. PICK u \in User, a \in Anchor : Register(c, u, a) /\ (t = a \/ t = <<a, u>>)
      BY <1>5 DEF Registers
    <2>2. /\ \A d \in Call : ~About(d, t)
          /\ log[t] = None
      BY <1>0, <1>5, RegisterFresh
    <2>3. PICK e : e = [says |-> "REGISTERED", by |-> u]
      OBVIOUS
    <2>4. /\ call'[c] = [step |-> "record", about |-> a, page |-> None, against |-> {},
                         entry |-> e]
          /\ anchors'[a] = [status |-> "PENDING", approvedBy |-> None]
          /\ members'[<<a, u>>] = [role |-> "ANCHOR_ADMIN", deleted |-> FALSE]
          /\ log' = log
      BY <1>0, <2>1, <2>3 DEF Register, Begin, TypeOK, Membership
    <2>5. CASE t = a
      <3>1. About(c, t)' /\ At(c, "record")' /\ call'[c].entry = e
        BY <2>4, <2>5, Disjoint DEF About, At
      <3>2. Tells(t, e)'
        BY <2>3, <2>4, <2>5, IdAssumption DEF Tells, Exists, Approved
      <3>. QED
        BY <1>3, <3>1, <3>2, EntryStep
    <2>6. CASE t = <<a, u>>
      <3>1. t \in Membership /\ t \notin Anchor \cup Key
        BY <2>6, IdAssumption DEF Membership
      <3>2. ~About(c, t)' /\ \A d \in Call : ~About(d, t)'
        BY <1>1, <2>2, <2>4, <3>1 DEF About
      <3>3. Tells(t, None)'
        <4>1. members'[t].role = "ANCHOR_ADMIN"
          BY <2>4, <2>6
        <4>2. None # [says |-> "REMOVED"]
          <5>1. [says |-> "REMOVED"] \in Entry
            BY DEF Entry
          <5>. QED
            BY <5>1, NoneAssumption
        <4>. QED
          BY <3>1, <4>1, <4>2 DEF Tells, Live
      <3>4. log'[t] = None
        BY <2>2, <2>4
      <3>. QED
        BY <3>2, <3>3, <3>4 DEF Reported
    <2>. QED
      BY <2>1, <2>5, <2>6
  <1>6. CASE Start(c) /\ ~Registers(c, t)
    <2>1. PICK r \in CallState \ {Idle} :
            /\ Begin(c, r)
            /\ r \in RecordCall \/ UNCHANGED <<anchors, members, log>>
      BY <1>0, <1>6, StartCalls
    <2>2. call[c] = Idle /\ call'[c] = r
      BY <1>0, <1>6, <2>1, StartCalls DEF Begin, TypeOK
    <2>3. ~About(c, t) /\ ~Writes(c) /\ ~CreateKeyInsert(c)
      BY <1>0, <2>2, CallKinds, Disjoint DEF About, Writes, DecideUpdate, AddWrite,
         RemoveUpdate, RevokeKeyUpdate, Record, CreateKeyInsert, At
    <2>4. Same(t)
      BY <1>0, <1>6, <2>3, Changes
    <2>5. ASSUME About(c, t)', At(c, "record")' PROVE FALSE
      <3>1. ASSUME NEW u \in User, NEW a \in Anchor, Register(c, u, a) PROVE FALSE
        <4>1. call'[c].about = a
          BY <1>0, <3>1 DEF Register, Begin, TypeOK
        <4>. QED
          BY <1>6, <2>5, <3>1, <4>1 DEF About, Registers
      <3>2. call'[c].step = "record"
        BY <2>5 DEF At
      <3>3. ASSUME NEW q, Begin(c, q) PROVE q.step = "record"
        BY <1>0, <3>2, <3>3 DEF Begin, TypeOK
      <3>4. ASSUME NEW d \in Admin, NEW p \in Page, NEW a \in Anchor,
                   NEW decision \in Status, Decide(c, d, p, a, decision)
            PROVE  FALSE
        BY <3>3, <3>4 DEF Decide
      <3>5. ASSUME NEW by \in User, NEW u \in User, NEW a \in Anchor, NEW role \in Role,
                   AddMember(c, by, a, u, role) \/ RemoveMember(c, by, a, u)
            PROVE  FALSE
        BY <3>3, <3>5 DEF AddMember, RemoveMember
      <3>6. ASSUME NEW by \in User, NEW a \in Anchor, CreateKey(c, by, a) PROVE FALSE
        BY <3>3, <3>6 DEF CreateKey
      <3>7. ASSUME NEW by \in User, NEW k \in Key, RevokeKey(c, by, k) PROVE FALSE
        BY <3>3, <3>7 DEF RevokeKey
      <3>8. ASSUME NEW k \in Key, NEW route \in {"file:status", "read"}, UseKey(c, k, route)
            PROVE  FALSE
        BY <3>3, <3>8 DEF UseKey
      <3>9. \E role : role \in Role
        BY DEF Role
      <3>. QED
        BY <1>6, <3>1, <3>4, <3>5, <3>6, <3>7, <3>8, <3>9 DEF Start
    <2>. QED
      BY <1>4, <2>3, <2>4, <2>5
  <1>7. CASE DecideUpdate(c) /\ About(c, t)
    <2>1. /\ call[c] \in StatusCall /\ call[c].about = t
          /\ call'[c] = [step |-> "record", about |-> t,
                         entry |-> [says |-> call[c].says, by |-> call[c].by],
                         page |-> call[c].page, against |-> {}]
          /\ anchors' = [anchors EXCEPT ![t] =
              [status |-> call[c].says,
               approvedBy |-> CASE call[c].says = "APPROVED"  -> call[c].by
                                [] call[c].says = "REJECTED"  -> None
                                [] call[c].says = "SUSPENDED" -> anchors[t].approvedBy]]
      BY <1>0, <1>7, DecideCalls DEF About
    <2>2. t \in Anchor /\ t \notin Membership \cup Key
      BY <2>1, IdAssumption DEF StatusCall
    <2>3. PICK e : e = [says |-> call[c].says, by |-> call[c].by]
      OBVIOUS
    <2>4. About(c, t)' /\ At(c, "record")' /\ call'[c].entry = e
      BY <2>1, <2>3, Disjoint DEF About, At
    <2>5. /\ anchors'[t].status = e.says /\ e.says # "REGISTERED"
          /\ e.says = "APPROVED" => anchors'[t].approvedBy = e.by
      BY <1>0, <2>1, <2>2, <2>3 DEF TypeOK, StatusCall, Status
    <2>6. Tells(t, e)'
      BY <2>2, <2>5 DEF Tells, Approved
    <2>. QED
      BY <1>3, <1>7, <2>4, <2>6, EntryStep
  <1>8. CASE AddWrite(c) /\ About(c, t) /\ ~Answer(c)
    <2>1. call[c] \in MemberCall /\ call[c].about = t
      BY <1>0, <1>8, CallKinds DEF AddWrite, At, About
    <2>2. t \in Membership /\ t \notin Anchor \cup Key
      BY <2>1, IdAssumption DEF MemberCall
    <2>3. PICK e : e = [says |-> call[c].role]
      OBVIOUS
    <2>4. /\ members' = [members EXCEPT ![t] = [role |-> call[c].role, deleted |-> FALSE]]
          /\ ThenRecord(c, t, e)
      BY <1>8, <2>1, <2>3 DEF AddWrite
    <2>5. About(c, t)' /\ At(c, "record")' /\ call'[c].entry = e
      BY <1>0, <2>4, Disjoint DEF ThenRecord, TypeOK, About, At
    <2>6. /\ members'[t] = [role |-> call[c].role, deleted |-> FALSE]
          /\ members'[t] \in MemberRow /\ members'[t] # None
      <3>1. members'[t] = [role |-> call[c].role, deleted |-> FALSE]
        BY <1>0, <2>2, <2>4 DEF TypeOK
      <3>2. [role |-> call[c].role, deleted |-> FALSE] \in MemberRow
        BY <2>1 DEF MemberCall, MemberRow
      <3>. QED
        BY <3>1, <3>2, NoneAssumption
    <2>7. e \in Entry /\ e # None /\ e # [says |-> "REMOVED"] /\ e.says = call[c].role
      <3>1. call[c].role \in Role
        BY <2>1 DEF MemberCall
      <3>2. e \in Entry /\ e.says = call[c].role
        BY <2>3, <3>1 DEF Entry
      <3>3. [says |-> "REMOVED"].says = "REMOVED"
        OBVIOUS
      <3>. QED
        BY <3>1, <3>2, <3>3, NoneAssumption DEF Role
    <2>8. Tells(t, e)'
      BY <2>2, <2>6, <2>7 DEF Tells, Live
    <2>. QED
      BY <1>3, <1>8, <2>5, <2>8, EntryStep
  <1>9. CASE RemoveUpdate(c) /\ About(c, t)
    <2>1. call[c] \in RemoveCall /\ call[c].about = t
      BY <1>0, <1>9, CallKinds DEF RemoveUpdate, At, About
    <2>2. t \in Membership /\ t \notin Anchor \cup Key /\ members[t] # None
      BY <1>0, <2>1, IdAssumption DEF RemoveCall, Ground
    <2>3. PICK e : e = [says |-> "REMOVED"]
      OBVIOUS
    <2>4. ThenRecord(c, t, e)
      BY <1>9, <2>1, <2>3 DEF RemoveUpdate
    <2>5. About(c, t)' /\ At(c, "record")' /\ call'[c].entry = e
      BY <1>0, <2>4, Disjoint DEF ThenRecord, TypeOK, About, At
    <2>6. members'[t].deleted = TRUE
      <3>1. members[t] \in MemberRow
        BY <1>0, <2>2 DEF TypeOK
      <3>2. members'[t] = [members[t] EXCEPT !.deleted = TRUE]
        BY <1>0, <1>9, <2>1, <2>2 DEF RemoveUpdate, TypeOK
      <3>. QED
        BY <3>1, <3>2 DEF MemberRow
    <2>7. e # None
      <3>1. e \in Entry
        BY <2>3 DEF Entry
      <3>. QED
        BY <3>1, NoneAssumption
    <2>8. Tells(t, e)'
      BY <2>2, <2>3, <2>6, <2>7 DEF Tells, Live
    <2>. QED
      BY <1>3, <1>9, <2>5, <2>8, EntryStep
  <1>10. CASE CreateKeyInsert(c)
    <2>1. PICK k \in Key :
            /\ keys[k] = None
            /\ keys' = [keys EXCEPT ![k] = [anchor |-> call[c].for, revoked |-> FALSE]]
            /\ ThenRecord(c, k, [says |-> "CREATED"])
      BY <1>10 DEF CreateKeyInsert
    <2>2. PICK e : e = [says |-> "CREATED"]
      OBVIOUS
    <2>3. call'[c].about = k /\ call'[c].step = "record" /\ call'[c].entry = e
      BY <1>0, <2>1, <2>2 DEF ThenRecord, TypeOK
    <2>4. CASE t = k
      <3>1. About(c, t)' /\ At(c, "record")'
        BY <2>3, <2>4, Disjoint DEF About, At
      <3>2. keys'[t].revoked = FALSE /\ t \notin Anchor \cup Membership
        BY <1>0, <2>1, <2>4, IdAssumption DEF TypeOK
      <3>3. Tells(t, e)'
        BY <2>2, <3>2 DEF Tells
      <3>. QED
        BY <1>3, <2>3, <3>1, <3>3, EntryStep
    <2>5. CASE t # k
      <3>1. ~About(c, t) /\ ~About(c, t)'
        <4>1. call[c].about = None
          BY <1>0, <1>10, CallKinds DEF CreateKeyInsert, At, CreateCall
        <4>. QED
          BY <2>3, <2>5, <4>1, NoneAssumption DEF About
      <3>2. Same(t)
        <4>1. ~Registers(c, t)
          BY <1>0, <1>10, CallKinds, Disjoint DEF Registers, Register, Begin,
             CreateKeyInsert, At
        <4>. QED
          BY <1>0, <3>1, <4>1, Changes
      <3>. QED
        BY <1>2, <3>1, <3>2
    <2>. QED
      BY <2>4, <2>5
  <1>11. CASE RevokeKeyUpdate(c) /\ About(c, t)
    <2>1. call[c] \in RevokeCall /\ call[c].about = t
      BY <1>0, <1>11, CallKinds DEF RevokeKeyUpdate, About
    <2>2. t \in Key /\ t \notin Anchor \cup Membership /\ keys[t] # None
      BY <1>0, <2>1, IdAssumption DEF RevokeCall, Ground
    <2>3. PICK e : e = [says |-> "REVOKED"]
      OBVIOUS
    <2>4. ThenRecord(c, t, e)
      BY <1>11, <2>1, <2>3 DEF RevokeKeyUpdate
    <2>5. About(c, t)' /\ At(c, "record")' /\ call'[c].entry = e
      BY <1>0, <2>4, Disjoint DEF ThenRecord, TypeOK, About, At
    <2>6. keys'[t].revoked = TRUE
      <3>1. keys[t] \in KeyRow
        BY <1>0, <2>2 DEF TypeOK
      <3>2. keys'[t] = [keys[t] EXCEPT !.revoked = TRUE]
        BY <1>0, <1>11, <2>1, <2>2 DEF RevokeKeyUpdate, TypeOK
      <3>. QED
        BY <3>1, <3>2 DEF KeyRow
    <2>7. Tells(t, e)'
      BY <2>2, <2>3, <2>6 DEF Tells
    <2>. QED
      BY <1>3, <1>11, <2>5, <2>7, EntryStep
  <1>12. CASE Record(c) /\ About(c, t)
    <2>1. At(c, "record") /\ call'[c] = Idle
      BY <1>0, <1>12, Moves DEF Record
    <2>2. PICK e : e = call[c].entry
      OBVIOUS
    <2>3. Tells(t, e)
      BY <1>0, <1>12, <2>1, <2>2 DEF Reported
    <2>4. log'[t] = e
      BY <1>0, <1>12, <2>2 DEF Record, TypeOK, About
    <2>5. anchors' = anchors /\ members' = members /\ keys' = keys
      BY <1>12 DEF Record
    <2>6. Tells(t, e)'
      BY <2>3, <2>5 DEF Tells, Exists, Approved, Live
    <2>7. \A d \in Call : ~About(d, t)'
      BY <1>3, <1>12, <2>1 DEF About
    <2>. QED
      BY <2>4, <2>6, <2>7 DEF Reported
  <1>13. CASE Continue(c) /\ ~CreateKeyInsert(c) /\ ~(Writes(c) /\ About(c, t))
    <2>1. call[c] # Idle
      BY <1>0, <1>13, CallKinds, Disjoint DEF Continue, DecideUpdate, AddFind, AddWrite,
         RemoveFind, RemoveUpdate, CreateKeyStatus, CreateKeyInsert, RevokeKeyUpdate,
         GuardTouch, FileStatus, FileInsert, Read, Record, At
    <2>2. ~Registers(c, t)
      BY <2>1 DEF Registers, Register, Begin
    <2>3. Same(t)
      BY <1>0, <1>13, <2>2, Changes
    <2>4. CASE ~About(c, t) /\ ~About(c, t)'
      BY <1>2, <2>3, <2>4
    <2>5. CASE About(c, t)
      <3>1. \/ AddFind(c) \/ RemoveFind(c) \/ CreateKeyStatus(c) \/ GuardTouch(c)
            \/ FileStatus(c) \/ FileInsert(c) \/ Read(c)
        BY <1>13, <2>5 DEF Continue, Writes
      <3>2. ~At(c, "record")
        BY <3>1 DEF AddFind, RemoveFind, CreateKeyStatus, GuardTouch, FileStatus,
           FileInsert, Read, At
      <3>3. call'[c] \notin RecordCall
        <4>1. ASSUME Writes(c) \/ CreateKeyInsert(c) PROVE FALSE
          BY <1>13, <2>5, <4>1
        <4>. QED
          BY <1>0, <1>13, <4>1, OwnCall, Disjoint DEF Writes
      <3>4. At(c, "record")' => call'[c] \in RecordCall
        <4>1. call'[c] \in CallState
          BY <1>0, <1>13, OwnCall DEF CallState
        <4>. QED
          BY <4>1, Disjoint DEF At, CallState
      <3>. QED
        BY <1>4, <2>3, <3>2, <3>3, <3>4
    <2>6. CASE ~About(c, t) /\ About(c, t)'
      <3>1. call'[c].about = call[c].about \/ call'[c] = Idle
        <4>1. CASE DecideUpdate(c)
          <5>1. call'[c] = [step |-> "record", about |-> call[c].about,
                            entry |-> [says |-> call[c].says, by |-> call[c].by],
                            page |-> call[c].page, against |-> {}]
            BY <1>0, <4>1, DecideCalls
          <5>. QED
            BY <5>1
        <4>2. CASE AddWrite(c) \/ RemoveUpdate(c) \/ RevokeKeyUpdate(c)
          <5>1. Answer(c) \/ \E e : ThenRecord(c, call[c].about, e)
            BY <4>2 DEF AddWrite, RemoveUpdate, RevokeKeyUpdate
          <5>2. ASSUME NEW e, ThenRecord(c, call[c].about, e)
                PROVE  call'[c].about = call[c].about
            BY <1>0, <5>2 DEF ThenRecord, TypeOK
          <5>. QED
            BY <1>0, <5>1, <5>2, Moves
        <4>3. CASE ~(DecideUpdate(c) \/ AddWrite(c) \/ RemoveUpdate(c)
                       \/ RevokeKeyUpdate(c))
          BY <1>0, <1>13, <4>3, OwnCall
        <4>. QED
          BY <4>1, <4>2, <4>3
      <3>. QED
        BY <2>1, <2>6, <3>1 DEF About
    <2>. QED
      BY <2>4, <2>5, <2>6
  <1>14. CASE AddWrite(c) /\ About(c, t) /\ Answer(c)
    <2>1. members' = members /\ call'[c] = Idle /\ ~At(c, "record")
      <3>1. call'[c] = Idle
        BY <1>0, <1>14, Moves
      <3>2. ~ThenRecord(c, call[c].about, [says |-> call[c].role])
        <4>1. ASSUME ThenRecord(c, call[c].about, [says |-> call[c].role])
              PROVE  call'[c].step = "record"
          BY <1>0, <4>1 DEF ThenRecord, TypeOK
        <4>. QED
          BY <3>1, <4>1, Disjoint
      <3>. QED
        BY <1>14, <3>1, <3>2 DEF AddWrite, At
    <2>2. Same(t) /\ ~About(c, t)'
      BY <1>14, <2>1 DEF AddWrite, Same, About
    <2>. QED
      BY <1>4, <2>1, <2>2
  <1>15. CASE Fail(c)
    <2>1. About(c, t) => t \in disturbed'
      BY <1>15, NoneAssumption DEF Fail, About
    <2>2. Same(t) /\ ~About(c, t)'
      BY <1>0, <1>15, Moves DEF Fail, Same, About
    <2>. QED
      BY <1>2, <2>1, <2>2
  <1>. QED
    BY <1>5, <1>6, <1>7, <1>8, <1>9, <1>10, <1>11, <1>12, <1>13, <1>14, <1>15
       DEF Step, Writes----------------------------------------------------------------------------
(* What calls go by is still so when they write.                           *)

\* A call that begins has looked at nothing but the page it comes from.
LEMMA SoundStart ==
  ASSUME TypeOK, NEW c \in Call, Start(c) PROVE Sound(c)'
  <1>1. ASSUME NEW q, Begin(c, q) PROVE call'[c] = q
    BY <1>1 DEF Begin, TypeOK
  <1>2. ASSUME call'[c].step \notin {"add:update", "status:update"} PROVE Sound(c)'
    BY <1>2, Disjoint DEF Sound, At
  <1>3. ASSUME NEW d \in Admin, NEW p \in Page, NEW a \in Anchor,
               NEW decision \in Status, Decide(c, d, p, a, decision)
        PROVE  Sound(c)'
    <2>1. PICK r : r = [step |-> "status:update", about |-> a, says |-> decision,
                        by |-> d, page |-> p, against |-> {}]
      OBVIOUS
    <2>2. call'[c] = r /\ Begin(c, r)
      BY <1>1, <1>3, <2>1 DEF Decide
    <2>3. a \notin disturbed' => shown[p][a] = anchors[a].status
      BY <2>1, <2>2 DEF Begin, Outdated
    <2>4. /\ shown[p][a] = "PENDING" => decision \in {"APPROVED", "REJECTED"}
          /\ shown[p][a] # "PENDING" => shown[p][a] = "APPROVED" /\ decision = "SUSPENDED"
      BY <1>3 DEF Decide, Offered
    <2>5. anchors' = anchors
      BY <1>3 DEF Decide
    <2>6. a \notin disturbed' => <<anchors'[a].status, decision>> \in Decisions
      BY <2>3, <2>4, <2>5 DEF Decisions
    <2>7. call'[c] \notin MemberCall
      BY <2>1, <2>2, Disjoint
    <2>8. call'[c].about = a /\ call'[c].says = decision
      BY <2>1, <2>2
    <2>. QED
      BY <2>6, <2>7, <2>8 DEF Sound
  <1>4. ASSUME NEW u \in User, NEW a \in Anchor, Register(c, u, a) PROVE Sound(c)'
    BY <1>1, <1>2, <1>4 DEF Register
  <1>5. ASSUME NEW by \in User, NEW u \in User, NEW a \in Anchor, NEW role \in Role,
               AddMember(c, by, a, u, role)
        PROVE  Sound(c)'
    BY <1>1, <1>2, <1>5 DEF AddMember
  <1>6. ASSUME NEW by \in User, NEW u \in User, NEW a \in Anchor, RemoveMember(c, by, a, u)
        PROVE  Sound(c)'
    BY <1>1, <1>2, <1>6 DEF RemoveMember
  <1>7. ASSUME NEW by \in User, NEW a \in Anchor, CreateKey(c, by, a) PROVE Sound(c)'
    BY <1>1, <1>2, <1>7 DEF CreateKey
  <1>8. ASSUME NEW by \in User, NEW k \in Key, RevokeKey(c, by, k) PROVE Sound(c)'
    BY <1>1, <1>2, <1>8 DEF RevokeKey
  <1>9. ASSUME NEW k \in Key, NEW route \in {"file:status", "read"}, UseKey(c, k, route)
        PROVE  Sound(c)'
    BY <1>1, <1>2, <1>9 DEF UseKey
  <1>. QED
    BY <1>3, <1>4, <1>5, <1>6, <1>7, <1>8, <1>9 DEF Start

\* An addition that found the row of a removed member finds it so when it
\* writes; a decision offered by a page that was right still is one.
LEMMA SoundStep ==
  ASSUME HistoryInv, Keeps, NEW c \in Call, Step(c), NEW d \in Call
  PROVE  Sound(d)'
  <1>0. Inv /\ TypeOK /\ Alone /\ Sound(d) /\ Alone'
    BY AloneStep DEF HistoryInv, Inv
  <1>1. CASE d # c
    <2>1. Alike(d)
      BY <1>0, <1>1, Others
    <2>2. ASSUME call'[d] \in MemberCall \cup StatusCall, call'[d].about \notin disturbed'
          PROVE  Sound(d)'
      <3>1. call[d] \in MemberCall \cup StatusCall
        BY <1>0, <2>1, <2>2, AlikeKinds
      <3>2. call'[d] = call[d]
        BY <1>0, <2>1, <3>1, AlikeKinds, Disjoint
      <3>3. PICK t \in Thing : t = call[d].about
        BY <3>1 DEF MemberCall, StatusCall, Thing
      <3>4. t \in Thing \ disturbed' /\ t \in Thing \ disturbed
        BY <2>2, <3>2, <3>3 DEF Keeps
      <3>5. About(d, t) /\ About(d, t)'
        BY <3>1, <3>2, <3>3, Disjoint DEF About
      <3>6. ~About(c, t) /\ ~About(c, t)'
        BY <1>0, <1>1, <3>4, <3>5 DEF Alone
      <3>7. ~Registers(c, t)
        BY <1>0, <3>5, RegisterFresh
      <3>8. Same(t)
        BY <1>0, <3>6, <3>7, Changes
      <3>9. /\ call[d] \in MemberCall => t \in Membership
            /\ call[d] \in StatusCall => t \in Anchor
        BY <3>3 DEF MemberCall, StatusCall
      <3>. QED
        BY <1>0, <3>2, <3>3, <3>4, <3>8, <3>9 DEF Sound, Same, Live, At
    <2>. QED
      BY <2>2 DEF Sound
  <1>2. CASE d = c /\ Start(c)
    BY <1>0, <1>2, SoundStart
  <1>3. CASE d = c /\ Fail(c)
    <2>1. call'[c] = Idle
      BY <1>0, <1>3, Moves DEF Fail
    <2>. QED
      BY <1>3, <2>1, Disjoint DEF Sound
  <1>4. CASE d = c /\ Continue(c)
    <2>1. call'[c] \notin StatusCall
      BY <1>0, <1>4, OwnCall, Disjoint
    <2>2. ASSUME call'[c] \in MemberCall, At(c, "add:update")' PROVE \A m : m = call'[c].about => ~Live(m)'
      <3>1. AddFind(c) /\ call'[c].about = call[c].about
        BY <1>0, <1>4, <2>2, OwnCall, Disjoint
      <3>2. members' = members
        BY <3>1 DEF AddFind
      <3>3. ~Answer(c)
        BY <1>0, <2>2, Moves, Disjoint
      <3>4. ~Live(call[c].about)
        BY <3>1, <3>3 DEF AddFind
      <3>. QED
        BY <3>1, <3>2, <3>4 DEF Live
    <2>. QED
      BY <1>4, <2>1, <2>2 DEF Sound
  <1>. QED
    BY <1>1, <1>2, <1>3, <1>4 DEF Step
----------------------------------------------------------------------------
(* The invariant is inductive, and what follows from it.                   *)

LEMMA HistoryInit == Init => HistoryInv
  <1>. SUFFICES ASSUME Init PROVE HistoryInv
    OBVIOUS
  <1>1. Inv
    BY InvInit
  <1>2. \A c \in Call : call[c] = Idle
    BY DEF Init
  <1>3. Alone
    BY <1>2 DEF Alone, About
  <1>4. \A c \in Call : Sound(c)
    BY <1>2, Disjoint DEF Sound
  <1>5. ASSUME NEW t \in Thing PROVE Reported(t)
    <2>1. /\ log[t] = None
          /\ t \in Anchor => ~Exists(t)
          /\ t \in Membership => ~Live(t)
          /\ t \in Key => keys[t] = None
      BY <1>5 DEF Init, Exists, Live
    <2>2. t \in Membership =>
            CASE log[t] = None -> Live(t) => members[t].role = "ANCHOR_ADMIN"
              [] log[t] = [says |-> "REMOVED"] -> ~Live(t)
              [] OTHER -> Live(t) /\ members[t].role = log[t].says
      BY <2>1
    <2>3. Tells(t, log[t])
      BY <2>1, <2>2 DEF Tells
    <2>. QED
      BY <1>2, <2>3 DEF Reported, About
  <1>. QED
    BY <1>1, <1>3, <1>4, <1>5 DEF HistoryInv

LEMMA HistoryStep == HistoryInv /\ [Next]_vars => HistoryInv'
  <1>. SUFFICES ASSUME HistoryInv, [Next]_vars PROVE HistoryInv'
    OBVIOUS
  <1>1. Inv /\ Inv' /\ Keeps
    BY InvStep, StepKeeps DEF HistoryInv
  <1>2. ASSUME NEW c \in Call, Step(c) PROVE HistoryInv'
    <2>1. Alone'
      BY <1>1, <1>2, AloneStep DEF HistoryInv
    <2>2. ASSUME NEW d \in Call PROVE Sound(d)'
      BY <1>1, <1>2, SoundStep
    <2>3. ASSUME NEW t \in Thing \ disturbed' PROVE Reported(t)'
      BY <1>1, <1>2, ReportStep
    <2>. QED
      BY <1>1, <2>1, <2>2, <2>3 DEF HistoryInv
  <1>3. ASSUME UNCHANGED <<anchors, members, keys, log, call, disturbed>> PROVE HistoryInv'
    <2>1. Alone'
      BY <1>3 DEF HistoryInv, Alone, About
    <2>2. ASSUME NEW d \in Call PROVE Sound(d)'
      <3>1. Sound(d)
        BY DEF HistoryInv
      <3>. QED
        BY <1>3, <3>1 DEF Sound, Live, At
    <2>3. ASSUME NEW t \in Thing \ disturbed' PROVE Reported(t)'
      <3>1. Reported(t)
        BY <1>3 DEF HistoryInv
      <3>2. Same(t)
        BY <1>3 DEF Same
      <3>3. ASSUME NEW e, Tells(t, e) PROVE Tells(t, e)'
        BY <3>2, <3>3, Carries
      <3>4. (\A c \in Call : About(c, t)' => ~At(c, "record")') => Tells(t, log[t])'
        <4>1. PICK e : e = log[t]
          OBVIOUS
        <4>. QED
          BY <1>3, <3>1, <3>3, <4>1 DEF Reported, About, At
      <3>5. ASSUME NEW c \in Call, About(c, t)', At(c, "record")'
            PROVE  Tells(t, call[c].entry)'
        <4>1. PICK e : e = call[c].entry
          OBVIOUS
        <4>2. About(c, t) /\ At(c, "record")
          BY <1>3, <3>5 DEF About, At
        <4>3. Tells(t, e)'
          BY <3>1, <3>3, <4>1, <4>2 DEF Reported
        <4>. QED
          BY <1>3, <4>1, <4>3
      <3>. QED
        BY <3>4, <3>5 DEF Reported
    <2>. QED
      BY <1>1, <2>1, <2>2, <2>3 DEF HistoryInv
  <1>4. ASSUME NEW p \in Page, Load(p) PROVE HistoryInv'
    BY <1>3, <1>4 DEF Load
  <1>5. CASE UNCHANGED vars
    BY <1>3, <1>5 DEF vars
  <1>. QED
    BY <1>2, <1>4, <1>5 DEF Next, Step

LEMMA RolesStep ==
  ASSUME HistoryInv, [Next]_vars, NEW m \in Membership \ disturbed, Live(m),
         members'[m] # members[m]
  PROVE  members'[m] = [members[m] EXCEPT !.deleted = TRUE]
  <1>0. Inv /\ TypeOK /\ m \in Thing \ disturbed
    BY DEF HistoryInv, Inv, Thing
  <1>1. PICK c \in Call : Step(c)
    BY DEF Next, Step, Load, vars
  <1>2. ASSUME Registers(c, m) PROVE FALSE
    BY <1>0, <1>2, RegisterFresh DEF Live
  <1>3. ASSUME NEW u \in User, NEW a \in Anchor, Register(c, u, a) PROVE FALSE
    <2>1. m = <<a, u>>
      BY <1>0, <1>3 DEF Register, TypeOK, Membership
    <2>. QED
      BY <1>2, <1>3, <2>1 DEF Registers
  <1>4. CASE /\ AddWrite(c) /\ call[c] \in MemberCall
             /\ members' = [members EXCEPT ![call[c].about] =
                              [role |-> call[c].role, deleted |-> FALSE]]
    <2>1. call[c].about = m
      BY <1>0, <1>4 DEF TypeOK
    <2>2. At(c, "add:update")
      <3>1. ~(At(c, "add:create") /\ members[call[c].about] # None)
        BY <1>4 DEF AddWrite
      <3>. QED
        BY <1>4, <2>1, <3>1 DEF AddWrite, Live
    <2>3. ~Live(m)
      BY <1>0, <1>4, <2>1, <2>2 DEF HistoryInv, Sound
    <2>. QED
      BY <2>3
  <1>5. CASE /\ RemoveUpdate(c) /\ call[c] \in RemoveCall
             /\ members' = [members EXCEPT ![call[c].about] =
                              [members[call[c].about] EXCEPT !.deleted = TRUE]]
    <2>1. call[c].about = m
      BY <1>0, <1>5 DEF TypeOK
    <2>. QED
      BY <1>0, <1>5, <2>1 DEF TypeOK
  <1>. QED
    BY <1>0, <1>1, <1>3, <1>4, <1>5, TableSteps

LEMMA DecisionStep ==
  ASSUME HistoryInv, [Next]_vars, NEW a \in Anchor \ disturbed', Exists(a),
         anchors'[a] # anchors[a]
  PROVE  <<anchors[a].status, anchors'[a].status>> \in Decisions
  <1>0. Inv /\ TypeOK /\ Keeps
    BY StepKeeps DEF HistoryInv, Inv
  <1>1. PICK c \in Call : Step(c)
    BY DEF Next, Step, Load, vars
  <1>2. ASSUME NEW u \in User, NEW b \in Anchor, Register(c, u, b) PROVE FALSE
    <2>1. a = b
      BY <1>0, <1>2 DEF Register, TypeOK
    <2>. QED
      BY <1>2, <2>1 DEF Register
  <1>3. ASSUME DecideUpdate(c), call[c] \in StatusCall, NEW row \in AnchorRow,
               row.status = call[c].says,
               anchors' = [anchors EXCEPT ![call[c].about] = row]
        PROVE  <<anchors[a].status, anchors'[a].status>> \in Decisions
    <2>1. call[c].about = a
      BY <1>0, <1>3 DEF TypeOK
    <2>2. anchors'[a].status = call[c].says
      BY <1>0, <1>3, <2>1 DEF TypeOK
    <2>3. a \notin disturbed
      BY <1>0 DEF Keeps
    <2>. QED
      BY <1>3, <2>1, <2>2, <2>3 DEF HistoryInv, Sound
  <1>. QED
    BY <1>0, <1>1, <1>2, <1>3, TableSteps

LEMMA LogFollows == HistoryInv => LogTells
  <1>. SUFFICES ASSUME HistoryInv PROVE LogTells
    OBVIOUS
  <1>1. ASSUME NEW t \in Thing, Settled(t) PROVE Tells(t, log[t])
    BY <1>1 DEF HistoryInv, Settled, Reported, About
  <1>2. ASSUME NEW a \in Anchor, Settled(a), Exists(a)
        PROVE  /\ anchors[a].status = IF log[a].says = "REGISTERED" THEN "PENDING"
                                      ELSE log[a].says
               /\ Approved(a) => anchors[a].approvedBy = log[a].by
    BY <1>1, <1>2 DEF Thing, Tells
  <1>3. ASSUME NEW m \in Membership, Settled(m)
        PROVE  CASE log[m] = None -> Live(m) => members[m].role = "ANCHOR_ADMIN"
                 [] log[m] = [says |-> "REMOVED"] -> ~Live(m)
                 [] OTHER -> Live(m) /\ members[m].role = log[m].says
    BY <1>1, <1>3 DEF Thing, Tells
  <1>4. ASSUME NEW k \in Key, Settled(k), keys[k] # None
        PROVE  log[k] = [says |-> IF keys[k].revoked THEN "REVOKED" ELSE "CREATED"]
    BY <1>1, <1>4 DEF Thing, Tells
  <1>. QED
    BY <1>2, <1>3, <1>4 DEF LogTells

----------------------------------------------------------------------------
(* Theorems.                                                               *)

\* The invariant behind the theorems: calls that are alone with what they are
\* about find it as they left it, and the log follows.
THEOREM HistoryInvariance == Spec => []HistoryInv
  BY HistoryInit, HistoryStep, PTL DEF Spec

\* A live member keeps its role until it is removed, where no calls overlapped.
THEOREM RolesHold == Spec => RolesAreKept
  <1>1. HistoryInv /\ [Next]_vars =>
          [\A m \in Membership \ disturbed :
             Live(m) /\ members'[m] # members[m]
               => members'[m] = [members[m] EXCEPT !.deleted = TRUE]]_vars
    BY RolesStep
  <1>. QED
    BY <1>1, HistoryInvariance, PTL DEF Spec, RolesAreKept

\* Decisions about an anchor stand, where none overlapped and no page that was
\* out of date took part.
THEOREM DecisionsHold == Spec => DecisionsStand
  <1>1. HistoryInv /\ [Next]_vars =>
          [\A a \in Anchor \ disturbed' :
             Exists(a) /\ anchors'[a] # anchors[a]
               => <<anchors[a].status, anchors'[a].status>> \in
                    {<<"PENDING", "APPROVED">>, <<"PENDING", "REJECTED">>,
                     <<"APPROVED", "SUSPENDED">>}]_vars
    BY DecisionStep DEF Decisions
  <1>. QED
    BY <1>1, HistoryInvariance, PTL DEF Spec, DecisionsStand

\* The latest entries of the log say what the tables hold, where no calls
\* overlapped and none failed.
THEOREM LogIsTrue == Spec => []LogTells
  BY HistoryInvariance, LogFollows, PTL
=============================================================================
