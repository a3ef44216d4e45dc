------------------------- MODULE AnchorPortalProofs -------------------------
(***************************************************************************)
(* Proofs about AnchorPortal, for every value of its constants.            *)
(***************************************************************************)
EXTENDS AnchorPortal, TLAPS

Step(c) == Start(c) \/ Continue(c) \/ Fail(c)

\* Call c changes t.
About(c, t) == call[c] # Idle /\ call[c].about = t

----------------------------------------------------------------------------
(* The invariant.                                                          *)

There(t) == /\ t \in Anchor => Exists(t)
            /\ t \in Membership => members[t] # None
            /\ t \in Key => keys[t] # None

\* Pages show and the log tells of what is there; members are an anchor's;
\* secrets, and what was done with them, belong to keys that are logged.
Known ==
  /\ \A p \in Page : \A a \in Anchor : shown[p][a] # None => Exists(a)
  /\ \A a \in Anchor : \A u \in User : members[<<a, u>>] # None => Exists(a)
  /\ \A t \in Thing : log[t] # None => There(t)
  /\ \A k \in secrets \cup requests \cup reads : keys[k] # None /\ log[k] # None

\* What a call is about is there, whoever else is at work.
Ground(c) ==
  /\ call[c] \in StatusCall => Exists(call[c].about)
  /\ call[c] \in MemberCall => Exists(call[c].about[1])
  /\ call[c] \in RemoveCall => members[call[c].about] # None
  /\ call[c] \in RevokeCall => keys[call[c].about] # None
  /\ call[c] \in RecordCall => There(call[c].about)
  /\ call[c] \in KeyCall => call[c].for \in secrets

\* The anchor whose status call c is still to ask for.
Awaits(c, a) ==
  \/ call[c] \in CreateCall /\ At(c, "key:status") /\ call[c].for = a
  \/ /\ call[c] \in KeyCall /\ call[c].step \in {"guard:touch", "file:status"}
     /\ call[c].route = "file:status" /\ keys[call[c].for].anchor = a

\* A call that should be refused will be: it is one whose anchor was not
\* approved, and is not now, and it has not come to ask.
Refused(c) ==
  call[c] # Idle /\ call[c].against # {} =>
    /\ call[c].against = {"status"}
    /\ \E a \in Anchor : Awaits(c, a) /\ ~Approved(a)

CallInv(c) == Ground(c) /\ Refused(c)

Inv == TypeOK /\ Known /\ \A c \in Call : CallInv(c)

----------------------------------------------------------------------------
(* Calls.                                                                  *)

\* The step a call is at tells its fields.
LEMMA CallKinds ==
  ASSUME TypeOK, NEW c \in Call
  PROVE  /\ call[c] \in CallState
         /\ At(c, "status:update") <=> call[c] \in StatusCall
         /\ call[c].step \in {"add:find", "add:update", "add:create"}
              <=> call[c] \in MemberCall
         /\ call[c].step \in {"remove:find", "remove:update"} <=> call[c] \in RemoveCall
         /\ call[c].step \in {"key:status", "key:insert"} <=> call[c] \in CreateCall
         /\ At(c, "revoke:update") <=> call[c] \in RevokeCall
         /\ call[c].step \in {"guard:touch", "file:status", "file:insert", "read"}
              <=> call[c] \in KeyCall
         /\ At(c, "record") <=> call[c] \in RecordCall
         /\ call[c].step # "idle" <=> call[c] # Idle
         /\ "for" \in DOMAIN call[c] <=> call[c] \in CreateCall \cup KeyCall
  <1>1. call[c] \in CallState
    BY DEF TypeOK
  <1>. QED
    BY <1>1 DEF CallState, Idle, At, StatusCall, MemberCall, RemoveCall, CreateCall,
       RevokeCall, KeyCall, RecordCall

\* A call that begins, with the record it begins with.
LEMMA BeginStep ==
  ASSUME TypeOK, NEW c \in Call, NEW r, r \in CallState, Begin(c, r),
         r.about \in Thing \cup {None}
  PROVE  /\ call[c] = Idle /\ call'[c] = r
         /\ \A d \in Call \ {c} : call'[d] = call[d]
         /\ call' \in [Call -> CallState]
         /\ disturbed \subseteq disturbed' /\ disturbed' \subseteq disturbed \cup {r.about}
         /\ disturbed' \in SUBSET Thing
         /\ begun' \in 0..MaxBegun
  <1>1. /\ call[c] = Idle /\ call'[c] = r
        /\ \A d \in Call \ {c} : call'[d] = call[d]
        /\ call' \in [Call -> CallState]
    BY DEF Begin, TypeOK
  <1>2. /\ disturbed \subseteq disturbed' /\ disturbed' \subseteq disturbed \cup {r.about}
    BY DEF Begin
  <1>3. r.about = None => disturbed' = disturbed
    BY NoneAssumption DEF Begin, Outdated, CallState, Idle, StatusCall, MemberCall,
       RemoveCall, CreateCall, RevokeCall, KeyCall, RecordCall, Thing
  <1>4. disturbed' \in SUBSET Thing
    BY <1>2, <1>3 DEF TypeOK
  <1>5. begun' \in 0..MaxBegun
    BY BoundAssumption DEF Begin, TypeOK
  <1>. QED
    BY <1>1, <1>2, <1>4, <1>5

\* The records calls begin with.
LEMMA StartCalls ==
  ASSUME TypeOK, NEW c \in Call, Start(c)
  PROVE  \E r \in CallState \ {Idle} :
           /\ Begin(c, r) /\ r.about \in Thing \cup {None}
           /\ r \in RecordCall \/ UNCHANGED <<anchors, members, log>>
           /\ UNCHANGED <<keys, secrets, requests, reads, log, shown, failures>>
  <1>1. ASSUME NEW u \in User, NEW a \in Anchor, Register(c, u, a)
        PROVE  \E r \in RecordCall : Begin(c, r) /\ r.about \in Thing
    BY <1>1 DEF Register, RecordCall, Thing, Entry, Against
  <1>2. ASSUME NEW d \in Admin, NEW p \in Page, NEW a \in Anchor,
               NEW decision \in Status, Decide(c, d, p, a, decision)
        PROVE  \E r \in StatusCall : Begin(c, r) /\ r.about \in Thing
    BY <1>2, AdminAssumption DEF Decide, Offered, StatusCall, Thing, Status, Against
  <1>3. ASSUME NEW by \in User, NEW u \in User, NEW a \in Anchor, NEW role \in Role,
               AddMember(c, by, a, u, role)
        PROVE  \E r \in MemberCall : Begin(c, r) /\ r.about \in Thing
    BY <1>3 DEF AddMember, NotInCharge, MemberCall, Thing, Membership, Against
  <1>4. ASSUME NEW by \in User, NEW u \in User, NEW a \in Anchor, RemoveMember(c, by, a, u)
        PROVE  \E r \in RemoveCall : Begin(c, r) /\ r.about \in Thing
    BY <1>4 DEF RemoveMember, NotInCharge, RemoveCall, Thing, Membership, Against
  <1>5. ASSUME NEW by \in User, NEW a \in Anchor, CreateKey(c, by, a)
        PROVE  \E r \in CreateCall : Begin(c, r) /\ r.about = None
    BY <1>5 DEF CreateKey, NotInCharge, NotApproved, CreateCall, Against
  <1>6. ASSUME NEW by \in User, NEW k \in Key, RevokeKey(c, by, k)
        PROVE  \E r \in RevokeCall : Begin(c, r) /\ r.about \in Thing
    BY <1>6 DEF RevokeKey, NotInCharge, RevokeCall, Thing, Against
  <1>7. ASSUME NEW k \in Key, NEW route \in {"file:status", "read"}, UseKey(c, k, route)
        PROVE  \E r \in KeyCall : Begin(c, r) /\ r.about = None
    BY <1>7 DEF UseKey, NotValid, NotApproved, KeyCall, Against
  <1>8. /\ RecordCall \cup StatusCall \cup MemberCall \cup RemoveCall \cup CreateCall
             \cup RevokeCall \cup KeyCall \subseteq CallState
        /\ Idle \notin RecordCall \cup StatusCall \cup MemberCall \cup RemoveCall
             \cup CreateCall \cup RevokeCall \cup KeyCall
    BY DEF CallState, Idle, StatusCall, MemberCall, RemoveCall, CreateCall, RevokeCall,
       KeyCall, RecordCall
  <1>9. UNCHANGED <<keys, secrets, requests, reads, log, shown, failures>>
    BY DEF Start, Register, Decide, AddMember, RemoveMember, CreateKey, RevokeKey, UseKey
  <1>10. (\E u \in User, a \in Anchor : Register(c, u, a)) \/ UNCHANGED <<anchors, members>>
    BY DEF Start, Decide, AddMember, RemoveMember, CreateKey, RevokeKey, UseKey
  <1>. QED
    BY <1>1, <1>2, <1>3, <1>4, <1>5, <1>6, <1>7, <1>8, <1>9, <1>10 DEF Start

\* A call that moves on to its entry.
LEMMA RecordCalls ==
  ASSUME TypeOK, NEW c \in Call, NEW t \in Thing, NEW e \in Entry,
         ThenRecord(c, t, e), call[c].against \in Against
  PROVE  /\ call'[c] = [step |-> "record", about |-> t, entry |-> e, page |-> None,
                        against |-> call[c].against]
         /\ call'[c] \in RecordCall
         /\ \A d \in Call \ {c} : call'[d] = call[d]
         /\ call' \in [Call -> CallState]
  <1>. DEFINE r == [step |-> "record", about |-> t, entry |-> e, page |-> None,
                    against |-> call[c].against]
  <1>1. r \in RecordCall
    BY DEF RecordCall
  <1>2. call' = [call EXCEPT ![c] = r]
    BY DEF ThenRecord
  <1>. QED
    BY <1>1, <1>2 DEF TypeOK, CallState

\* A call that ends, or goes on to another step of its handler.
LEMMA Moves ==
  ASSUME TypeOK, NEW c \in Call
  PROVE  /\ Answer(c) =>
              /\ call'[c] = Idle /\ call' \in [Call -> CallState]
              /\ \A d \in Call \ {c} : call'[d] = call[d]
         /\ \A s : Goto(c, s) =>
              /\ call'[c] = [call[c] EXCEPT !.step = s]
              /\ call' = [d \in Call |-> call'[d]]
              /\ \A d \in Call \ {c} : call'[d] = call[d]
  BY DEF Answer, Goto, TypeOK, CallState

\* Every call has reasons to be refused, if only none.
LEMMA AgainstType ==
  ASSUME TypeOK, NEW c \in Call, call[c] # Idle
  PROVE  call[c].against \in Against /\ call[c].about \in Thing \cup {None}
  <1>1. call[c] \in CallState
    BY DEF TypeOK
  <1>. QED
    BY <1>1 DEF CallState, StatusCall, MemberCall, RemoveCall, CreateCall, RevokeCall,
       KeyCall, RecordCall, Thing

\* What a decision makes of its call.
LEMMA DecideCalls ==
  ASSUME TypeOK, NEW c \in Call, DecideUpdate(c)
  PROVE  /\ call[c] \in StatusCall
         /\ call'[c] = [step |-> "record", about |-> call[c].about,
                        entry |-> [says |-> call[c].says, by |-> call[c].by],
                        page |-> call[c].page, against |-> {}]
         /\ call'[c] \in RecordCall
         /\ anchors' = [anchors EXCEPT ![call[c].about] =
              [status |-> call[c].says,
               approvedBy |-> CASE call[c].says = "APPROVED"  -> call[c].by
                                [] call[c].says = "REJECTED"  -> None
                                [] call[c].says = "SUSPENDED" ->
                                     anchors[call[c].about].approvedBy]]
         /\ \A d \in Call \ {c} :
              call'[d] = IF call[c].says = "APPROVED" /\ Concerns(d, call[c].about)
                         THEN [call[d] EXCEPT !.against = @ \ {"status"}] ELSE call[d]
         /\ call' = [d \in Call |-> call'[d]]
  <1>1. call[c] \in StatusCall
    BY CallKinds DEF DecideUpdate
  <1>2. /\ call'[c] = [step |-> "record", about |-> call[c].about,
                        entry |-> [says |-> call[c].says, by |-> call[c].by],
                        page |-> call[c].page, against |-> {}]
        /\ \A d \in Call \ {c} :
              call'[d] = IF call[c].says = "APPROVED" /\ Concerns(d, call[c].about)
                         THEN [call[d] EXCEPT !.against = @ \ {"status"}] ELSE call[d]
        /\ call' = [d \in Call |-> call'[d]]
    BY DEF DecideUpdate
  <1>3. call'[c] \in RecordCall
    BY <1>1, <1>2 DEF StatusCall, RecordCall, Thing, Entry, Status, Against
  <1>4. anchors' = [anchors EXCEPT ![call[c].about] =
              [status |-> call[c].says,
               approvedBy |-> CASE call[c].says = "APPROVED"  -> call[c].by
                                [] call[c].says = "REJECTED"  -> None
                                [] call[c].says = "SUSPENDED" ->
                                     anchors[call[c].about].approvedBy]]
    BY DEF DecideUpdate
  <1>. QED
    BY <1>1, <1>2, <1>3, <1>4

\* Call d is as before, but for a reason to refuse it that may have gone.
Alike(d) ==
  \/ call'[d] = call[d]
  \/ /\ call[d] \in CreateCall \cup KeyCall
     /\ call'[d] = [call[d] EXCEPT !.against = @ \ {"status"}]

LEMMA Others ==
  ASSUME TypeOK, NEW c \in Call, Step(c), NEW d \in Call \ {c}
  PROVE  Alike(d) /\ (call'[d] = call[d] \/ DecideUpdate(c))
  <1>1. CASE Start(c)
    BY <1>1, StartCalls, BeginStep DEF Alike
  <1>2. CASE DecideUpdate(c)
    <2>1. call'[d] = IF call[c].says = "APPROVED" /\ Concerns(d, call[c].about)
                     THEN [call[d] EXCEPT !.against = @ \ {"status"}] ELSE call[d]
      BY <1>2, DecideCalls
    <2>2. Concerns(d, call[c].about) => call[d] \in CreateCall \cup KeyCall
      BY CallKinds DEF Concerns
    <2>. QED
      BY <1>2, <2>1, <2>2 DEF Alike
  <1>3. ASSUME NEW r, call' = [call EXCEPT ![c] = r] PROVE call'[d] = call[d]
    BY <1>3 DEF TypeOK
  <1>4. ASSUME NEW s, Goto(c, s) PROVE call'[d] = call[d]
    BY <1>4, Moves
  <1>5. ASSUME Answer(c) PROVE call'[d] = call[d]
    BY <1>3, <1>5 DEF Answer
  <1>6. ASSUME NEW t, NEW e, ThenRecord(c, t, e) PROVE call'[d] = call[d]
    BY <1>3, <1>6 DEF ThenRecord
  <1>7. CASE AddFind(c) \/ RemoveFind(c) \/ CreateKeyStatus(c) \/ FileStatus(c)
    BY <1>4, <1>5, <1>7 DEF Alike, AddFind, RemoveFind, CreateKeyStatus, FileStatus
  <1>8. CASE GuardTouch(c) \/ FileInsert(c) \/ Read(c) \/ Record(c) \/ Fail(c)
    BY <1>4, <1>5, <1>8 DEF Alike, GuardTouch, FileInsert, Read, Record, Fail
  <1>9. CASE AddWrite(c)
    BY <1>5, <1>6, <1>9 DEF Alike, AddWrite
  <1>10. CASE RemoveUpdate(c) \/ CreateKeyInsert(c) \/ RevokeKeyUpdate(c)
    BY <1>6, <1>10 DEF Alike, RemoveUpdate, CreateKeyInsert, RevokeKeyUpdate
  <1>. QED
    BY <1>1, <1>2, <1>7, <1>8, <1>9, <1>10 DEF Step, Continue

\* What that leaves of it.
LEMMA AlikeKinds ==
  ASSUME TypeOK, NEW d \in Call, Alike(d)
  PROVE  /\ call'[d] \in CallState
         /\ call'[d] = Idle <=> call[d] = Idle
         /\ call[d] # Idle =>
              /\ call'[d].step = call[d].step /\ call'[d].about = call[d].about
              /\ call'[d].against \subseteq call[d].against
         /\ call'[d] \in StatusCall <=> call[d] \in StatusCall
         /\ call'[d] \in MemberCall <=> call[d] \in MemberCall
         /\ call'[d] \in RemoveCall <=> call[d] \in RemoveCall
         /\ call'[d] \in RevokeCall <=> call[d] \in RevokeCall
         /\ call'[d] \in RecordCall <=> call[d] \in RecordCall
         /\ call'[d] \in CreateCall <=> call[d] \in CreateCall
         /\ call'[d] \in KeyCall <=> call[d] \in KeyCall
         /\ call[d] \notin CreateCall \cup KeyCall => call'[d] = call[d]
         /\ call[d] \in CreateCall \cup KeyCall => call'[d].for = call[d].for
         /\ call[d] \in KeyCall => call'[d].route = call[d].route
  <1>1. call[d] \in CallState
    BY DEF TypeOK
  <1>2. CASE call'[d] = call[d]
    BY <1>1, <1>2
  <1>3. CASE /\ call[d] \in CreateCall
             /\ call'[d] = [call[d] EXCEPT !.against = @ \ {"status"}]
    BY <1>3 DEF CallState, Idle, StatusCall, MemberCall, RemoveCall, CreateCall,
       RevokeCall, KeyCall, RecordCall, Against
  <1>4. CASE /\ call[d] \in KeyCall
             /\ call'[d] = [call[d] EXCEPT !.against = @ \ {"status"}]
    BY <1>4 DEF CallState, Idle, StatusCall, MemberCall, RemoveCall, CreateCall,
       RevokeCall, KeyCall, RecordCall, Against
  <1>. QED
    BY <1>2, <1>3, <1>4 DEF Alike

\* The kind of call each step leaves behind.
LEMMA OwnCall ==
  ASSUME TypeOK, NEW c \in Call, Continue(c)
  PROVE  /\ call' = [d \in Call |-> call'[d]]
         /\ \/ call'[c] = Idle
            \/ /\ call[c] \in MemberCall /\ call'[c] \in MemberCall
               /\ call'[c].about = call[c].about /\ call'[c].against = call[c].against
               /\ AddFind(c) /\ call'[c].role = call[c].role
            \/ /\ call[c] \in RemoveCall /\ call'[c] \in RemoveCall
               /\ call'[c].about = call[c].about /\ call'[c].against = call[c].against
               /\ RemoveFind(c) /\ Live(call[c].about)
            \/ /\ call[c] \in CreateCall /\ call'[c] \in CreateCall
               /\ call'[c].about = call[c].about
               /\ call'[c].for = call[c].for /\ call'[c].against = call[c].against
               /\ CreateKeyStatus(c) /\ Approved(call[c].for)
            \/ /\ call[c] \in KeyCall /\ call'[c] \in KeyCall
               /\ call'[c].about = call[c].about
               /\ call'[c].for = call[c].for /\ call'[c].route = call[c].route
               /\ call'[c].against = call[c].against
               /\ \/ GuardTouch(c) /\ call'[c].step = call[c].route
                  \/ FileStatus(c) /\ Approved(keys[call[c].for].anchor)
            \/ /\ call'[c] \in RecordCall /\ call'[c].against = {}
               /\ DecideUpdate(c)
            \/ /\ call'[c] \in RecordCall /\ call'[c].against = call[c].against
               /\ AddWrite(c) \/ RemoveUpdate(c) \/ CreateKeyInsert(c)
                                \/ RevokeKeyUpdate(c)
  <1>. DEFINE Whole == call' = [d \in Call |-> call'[d]]
  <1>1. ASSUME Answer(c) PROVE Whole /\ call'[c] = Idle
    BY <1>1 DEF Answer, TypeOK
  <1>2. ASSUME NEW t \in Thing, NEW e \in Entry, ThenRecord(c, t, e), call[c] # Idle
        PROVE  Whole /\ call'[c] \in RecordCall /\ call'[c].against = call[c].against
    <2>1. call[c].against \in Against
      BY <1>2, AgainstType
    <2>2. /\ call'[c] = [step |-> "record", about |-> t, entry |-> e, page |-> None,
                         against |-> call[c].against]
          /\ call'[c] \in RecordCall /\ call' \in [Call -> CallState]
      BY <1>2, <2>1, RecordCalls
    <2>. QED
      BY <2>2
  <1>3. ASSUME DecideUpdate(c) PROVE Whole /\ call'[c] \in RecordCall /\ call'[c].against = {}
    <2>1. /\ call'[c] = [step |-> "record", about |-> call[c].about,
                         entry |-> [says |-> call[c].says, by |-> call[c].by],
                         page |-> call[c].page, against |-> {}]
          /\ call'[c] \in RecordCall
          /\ Whole
      BY <1>3, DecideCalls
    <2>. QED
      BY <2>1
  <1>4. CASE AddFind(c) /\ ~Answer(c)
    <2>1. call[c] \in MemberCall
      BY <1>4, CallKinds DEF AddFind, At
    <2>2. PICK s \in {"add:create", "add:update"} : Goto(c, s)
      BY <1>4 DEF AddFind
    <2>3. Whole /\ call'[c] = [call[c] EXCEPT !.step = s]
      BY <2>2, Moves
    <2>4. /\ call'[c] \in MemberCall /\ call'[c].about = call[c].about
          /\ call'[c].role = call[c].role /\ call'[c].against = call[c].against
      BY <2>1, <2>3 DEF MemberCall
    <2>. QED
      BY <1>4, <2>1, <2>3, <2>4
  <1>5. CASE RemoveFind(c) /\ ~Answer(c)
    <2>1. call[c] \in RemoveCall
      BY <1>5, CallKinds DEF RemoveFind, At
    <2>2. Goto(c, "remove:update") /\ Live(call[c].about)
      BY <1>5 DEF RemoveFind
    <2>3. Whole /\ call'[c] = [call[c] EXCEPT !.step = "remove:update"]
      BY <2>2, Moves
    <2>4. /\ call'[c] \in RemoveCall /\ call'[c].about = call[c].about
          /\ call'[c].against = call[c].against
      BY <2>1, <2>3 DEF RemoveCall
    <2>. QED
      BY <1>5, <2>1, <2>2, <2>3, <2>4
  <1>6. CASE CreateKeyStatus(c) /\ ~Answer(c)
    <2>1. call[c] \in CreateCall
      BY <1>6, CallKinds DEF CreateKeyStatus, At
    <2>2. Goto(c, "key:insert") /\ Approved(call[c].for)
      BY <1>6 DEF CreateKeyStatus
    <2>3. Whole /\ call'[c] = [call[c] EXCEPT !.step = "key:insert"]
      BY <2>2, Moves
    <2>4. /\ call'[c] \in CreateCall /\ call'[c].about = call[c].about
          /\ call'[c].for = call[c].for /\ call'[c].against = call[c].against
      BY <2>1, <2>3 DEF CreateCall
    <2>. QED
      BY <1>6, <2>1, <2>2, <2>3, <2>4
  <1>7. CASE GuardTouch(c)
    <2>1. call[c] \in KeyCall
      BY <1>7, CallKinds DEF GuardTouch, At
    <2>2. Whole /\ call'[c] = [call[c] EXCEPT !.step = call[c].route]
      BY <1>7, Moves DEF GuardTouch
    <2>3. /\ call'[c] \in KeyCall /\ call'[c].about = call[c].about
          /\ call'[c].for = call[c].for /\ call'[c].route = call[c].route
          /\ call'[c].against = call[c].against /\ call'[c].step = call[c].route
      BY <2>1, <2>2 DEF KeyCall
    <2>. QED
      BY <1>7, <2>1, <2>2, <2>3
  <1>8. CASE FileStatus(c) /\ ~Answer(c)
    <2>1. call[c] \in KeyCall
      BY <1>8, CallKinds DEF FileStatus, At
    <2>2. Goto(c, "file:insert") /\ Approved(keys[call[c].for].anchor)
      BY <1>8 DEF FileStatus
    <2>3. Whole /\ call'[c] = [call[c] EXCEPT !.step = "file:insert"]
      BY <2>2, Moves
    <2>4. /\ call'[c] \in KeyCall /\ call'[c].about = call[c].about
          /\ call'[c].for = call[c].for /\ call'[c].route = call[c].route
          /\ call'[c].against = call[c].against
      BY <2>1, <2>3 DEF KeyCall
    <2>. QED
      BY <1>8, <2>1, <2>2, <2>3, <2>4
  <1>9. CASE AddWrite(c) /\ ~Answer(c)
    <2>1. call[c] \in MemberCall /\ call[c] # Idle
      BY <1>9, CallKinds DEF AddWrite, At
    <2>2. call[c].about \in Thing /\ [says |-> call[c].role] \in Entry
      BY <2>1 DEF MemberCall, Thing, Entry
    <2>. QED
      BY <1>2, <1>9, <2>1, <2>2 DEF AddWrite
  <1>10. CASE RemoveUpdate(c)
    <2>1. call[c] \in RemoveCall /\ call[c] # Idle
      BY <1>10, CallKinds DEF RemoveUpdate, At
    <2>2. call[c].about \in Thing /\ [says |-> "REMOVED"] \in Entry
      BY <2>1 DEF RemoveCall, Thing, Entry
    <2>. QED
      BY <1>2, <1>10, <2>1, <2>2 DEF RemoveUpdate
  <1>11. CASE CreateKeyInsert(c)
    <2>1. call[c] # Idle
      BY <1>11, CallKinds DEF CreateKeyInsert, At
    <2>2. Key \subseteq Thing /\ [says |-> "CREATED"] \in Entry
      BY DEF Thing, Entry
    <2>. QED
      BY <1>2, <1>11, <2>1, <2>2 DEF CreateKeyInsert
  <1>12. CASE RevokeKeyUpdate(c)
    <2>1. call[c] \in RevokeCall /\ call[c] # Idle
      BY <1>12, CallKinds DEF RevokeKeyUpdate, At
    <2>2. call[c].about \in Thing /\ [says |-> "REVOKED"] \in Entry
      BY <2>1 DEF RevokeCall, Thing, Entry
    <2>. QED
      BY <1>2, <1>12, <2>1, <2>2 DEF RevokeKeyUpdate
  <1>13. CASE FileInsert(c) \/ Read(c) \/ Record(c)
    BY <1>1, <1>13 DEF FileInsert, Read, Record
  <1>. HIDE DEF Whole
  <1>. QED
    BY <1>1, <1>3, <1>4, <1>5, <1>6, <1>7, <1>8, <1>9, <1>10, <1>11, <1>12, <1>13
       DEF Continue, Whole

LEMMA CallType ==
  ASSUME TypeOK, NEW c \in Call, Step(c) PROVE call' \in [Call -> CallState]
  <1>1. call'[c] \in CallState /\ call' = [d \in Call |-> call'[d]]
    <2>1. CASE Start(c)
      BY <2>1, StartCalls, BeginStep
    <2>2. CASE Continue(c)
      BY <2>2, OwnCall DEF CallState
    <2>3. CASE Fail(c)
      BY <2>3, Moves DEF Fail
    <2>. QED
      BY <2>1, <2>2, <2>3 DEF Step
  <1>2. ASSUME NEW d \in Call \ {c} PROVE call'[d] \in CallState
    BY Others, AlikeKinds
  <1>3. \A d \in Call : call'[d] \in CallState
    BY <1>1, <1>2
  <1>. QED
    BY <1>1, <1>3
----------------------------------------------------------------------------
(* Type correctness.                                                       *)

LEMMA ShownType == TypeOK => Statuses \in [Anchor -> Status \cup {None}]
  BY DEF TypeOK, Statuses, Exists, AnchorRow

LEMMA TypeStep ==
  ASSUME Inv, [Next]_vars PROVE TypeOK'
  <1>0. TypeOK /\ \A c \in Call : Ground(c)
    BY DEF Inv, CallInv
  <1>1. ASSUME NEW c \in Call, Step(c) PROVE TypeOK'
    <2>1. call' \in [Call -> CallState]
      BY <1>0, <1>1, CallType
    <2>2. CASE Start(c)
      <3>1. /\ begun' \in 0..MaxBegun /\ disturbed' \in SUBSET Thing
            /\ UNCHANGED <<keys, secrets, requests, reads, log, shown, failures>>
        BY <1>0, <2>2, StartCalls, BeginStep
      <3>2. /\ anchors' \in [Anchor -> AnchorRow \cup {None}]
            /\ members' \in [Membership -> MemberRow \cup {None}]
        <4>1. ASSUME NEW u \in User, NEW a \in Anchor, Register(c, u, a)
              PROVE  /\ anchors' \in [Anchor -> AnchorRow \cup {None}]
                     /\ members' \in [Membership -> MemberRow \cup {None}]
          BY <1>0, <4>1 DEF Register, TypeOK, AnchorRow, MemberRow, Status, Role, Membership
        <4>2. CASE UNCHANGED <<anchors, members>>
          BY <1>0, <4>2 DEF TypeOK
        <4>. QED
          BY <2>2, <4>1, <4>2 DEF Start, Decide, AddMember, RemoveMember, CreateKey,
             RevokeKey, UseKey
      <3>. QED
        BY <1>0, <2>1, <3>1, <3>2 DEF TypeOK
    <2>3. CASE DecideUpdate(c)
      <3>1. /\ call[c] \in StatusCall
            /\ anchors' = [anchors EXCEPT ![call[c].about] =
              [status |-> call[c].says,
               approvedBy |-> CASE call[c].says = "APPROVED"  -> call[c].by
                                [] call[c].says = "REJECTED"  -> None
                                [] call[c].says = "SUSPENDED" ->
                                     anchors[call[c].about].approvedBy]]
        BY <1>0, <2>3, DecideCalls
      <3>2. call[c].about \in Anchor /\ anchors[call[c].about] \in AnchorRow
        BY <1>0, <3>1 DEF Ground, Exists, TypeOK, StatusCall
      <3>3. anchors' \in [Anchor -> AnchorRow \cup {None}]
        BY <1>0, <3>1, <3>2 DEF TypeOK, AnchorRow, StatusCall, Status
      <3>. QED
        BY <1>0, <2>1, <2>3, <3>3 DEF DecideUpdate, TypeOK
    <2>4. CASE AddFind(c) \/ RemoveFind(c) \/ CreateKeyStatus(c) \/ GuardTouch(c)
               \/ FileStatus(c)
      BY <1>0, <2>1, <2>4 DEF AddFind, RemoveFind, CreateKeyStatus, GuardTouch,
         FileStatus, TypeOK
    <2>5. CASE AddWrite(c)
      <3>1. call[c].role \in Role
        BY <1>0, <2>5, CallKinds DEF AddWrite, At, MemberCall
      <3>2. members' \in [Membership -> MemberRow \cup {None}]
        <4>1. [role |-> call[c].role, deleted |-> FALSE] \in MemberRow
          BY <3>1 DEF MemberRow
        <4>2. \/ members' = members
              \/ members' = [members EXCEPT ![call[c].about] =
                               [role |-> call[c].role, deleted |-> FALSE]]
          BY <2>5 DEF AddWrite
        <4>. QED
          BY <1>0, <4>1, <4>2 DEF TypeOK
      <3>. QED
        BY <1>0, <2>1, <2>5, <3>2 DEF AddWrite, TypeOK
    <2>6. CASE RemoveUpdate(c)
      <3>1. call[c].about \in Membership /\ members[call[c].about] # None
        BY <1>0, <2>6, CallKinds DEF RemoveUpdate, At, RemoveCall, Ground
      <3>2. members' = [members EXCEPT ![call[c].about] =
                          [members[call[c].about] EXCEPT !.deleted = TRUE]]
        BY <1>0, <2>6, <3>1 DEF RemoveUpdate, TypeOK
      <3>3. members' \in [Membership -> MemberRow \cup {None}]
        BY <1>0, <3>1, <3>2 DEF TypeOK, MemberRow
      <3>. QED
        BY <1>0, <2>1, <2>6, <3>3 DEF RemoveUpdate, TypeOK
    <2>7. CASE CreateKeyInsert(c)
      <3>1. call[c].for \in Anchor
        BY <1>0, <2>7, CallKinds DEF CreateKeyInsert, At, CreateCall
      <3>2. keys' \in [Key -> KeyRow \cup {None}]
        BY <1>0, <2>7, <3>1 DEF CreateKeyInsert, TypeOK, KeyRow
      <3>. QED
        BY <1>0, <2>1, <2>7, <3>2 DEF CreateKeyInsert, TypeOK
    <2>8. CASE RevokeKeyUpdate(c)
      <3>1. call[c].about \in Key /\ keys[call[c].about] # None
        BY <1>0, <2>8, CallKinds DEF RevokeKeyUpdate, RevokeCall, Ground
      <3>2. keys' = [keys EXCEPT ![call[c].about] =
                       [keys[call[c].about] EXCEPT !.revoked = TRUE]]
        BY <1>0, <2>8, <3>1 DEF RevokeKeyUpdate, TypeOK
      <3>3. keys' \in [Key -> KeyRow \cup {None}]
        BY <1>0, <3>1, <3>2 DEF TypeOK, KeyRow
      <3>. QED
        BY <1>0, <2>1, <2>8, <3>3 DEF RevokeKeyUpdate, TypeOK
    <2>9. CASE FileInsert(c) \/ Read(c)
      <3>1. call[c].for \in Key
        BY <1>0, <2>9, CallKinds DEF FileInsert, Read, At, KeyCall
      <3>. QED
        BY <1>0, <2>1, <2>9, <3>1 DEF FileInsert, Read, TypeOK
    <2>10. CASE Record(c)
      <3>1. call[c].about \in Thing /\ call[c].entry \in Entry
        BY <1>0, <2>10, CallKinds DEF Record, RecordCall
      <3>2. log' \in [Thing -> Entry \cup {None}]
        BY <1>0, <2>10, <3>1 DEF Record, TypeOK
      <3>3. shown' \in [Page -> [Anchor -> Status \cup {None}]]
        BY <1>0, <2>10, ShownType DEF Record, TypeOK
      <3>4. secrets' \subseteq Key
        BY <1>0, <2>10 DEF Record, TypeOK
      <3>. QED
        BY <1>0, <2>1, <2>10, <3>2, <3>3, <3>4 DEF Record, TypeOK
    <2>11. CASE Fail(c)
      <3>1. call[c].about \in Thing \cup {None}
        BY <1>0, <2>11, AgainstType DEF Fail
      <3>. QED
        BY <1>0, <2>1, <2>11, <3>1, BoundAssumption DEF Fail, TypeOK
    <2>. QED
      BY <1>1, <2>2, <2>3, <2>4, <2>5, <2>6, <2>7, <2>8, <2>9, <2>10, <2>11
         DEF Step, Continue
  <1>2. ASSUME NEW p \in Page, Load(p) PROVE TypeOK'
    <2>1. shown' \in [Page -> [Anchor -> Status \cup {None}]]
      BY <1>0, <1>2, ShownType DEF Load, TypeOK
    <2>. QED
      BY <1>0, <1>2, <2>1 DEF Load, TypeOK
  <1>3. CASE UNCHANGED vars
    BY <1>0, <1>3 DEF vars, TypeOK
  <1>. QED
    BY <1>1, <1>2, <1>3 DEF Next, Step

LEMMA InvInit == Init => Inv
  <1>. SUFFICES ASSUME Init PROVE Inv
    OBVIOUS
  <1>1. call \in [Call -> CallState] /\ \A c \in Call : call[c] = Idle
    BY DEF Init, CallState
  <1>2. TypeOK
    BY <1>1, BoundAssumption DEF Init, TypeOK
  <1>3. Known
    BY DEF Init, Known, Membership, Thing
  <1>4. ASSUME NEW c \in Call PROVE CallInv(c)
    <2>1. call[c] = Idle
      BY <1>1
    <2>. QED
      BY <2>1 DEF CallInv, Ground, Refused, Idle, StatusCall, MemberCall, RemoveCall,
         RevokeCall, RecordCall, KeyCall
  <1>. QED
    BY <1>2, <1>3, <1>4 DEF Inv
----------------------------------------------------------------------------
(* What a step leaves, and what calls rely on.                             *)

\* Rows stay, and a key stays with its anchor; secrets stay out, entries and
\* disturbances are not forgotten.
Keeps ==
  /\ \A a \in Anchor : Exists(a) => Exists(a)'
  /\ \A m \in Membership : members[m] # None => members'[m] # None
  /\ \A k \in Key : keys[k] # None => /\ keys'[k] # None
                                      /\ keys'[k].anchor = keys[k].anchor
  /\ secrets \subseteq secrets'
  /\ \A t \in Thing : log[t] # None => log'[t] # None
  /\ disturbed \subseteq disturbed'

\* The tables a step may change, and how.
LEMMA TableSteps ==
  ASSUME Inv, NEW c \in Call, Step(c)
  PROVE  /\ \/ anchors' = anchors
            \/ /\ DecideUpdate(c) /\ call[c] \in StatusCall /\ Exists(call[c].about)
               /\ \E row \in AnchorRow : /\ row.status = call[c].says
                                         /\ anchors' = [anchors EXCEPT ![call[c].about] = row]
            \/ \E u \in User, a \in Anchor : Register(c, u, a)
         /\ \/ members' = members
            \/ \E u \in User, a \in Anchor : Register(c, u, a)
            \/ /\ AddWrite(c) /\ call[c] \in MemberCall
               /\ members' = [members EXCEPT ![call[c].about] =
                                [role |-> call[c].role, deleted |-> FALSE]]
            \/ /\ RemoveUpdate(c) /\ call[c] \in RemoveCall
               /\ members' = [members EXCEPT ![call[c].about] =
                                [members[call[c].about] EXCEPT !.deleted = TRUE]]
         /\ \/ keys' = keys
            \/ /\ CreateKeyInsert(c)
               /\ \E k \in Key : /\ keys[k] = None
                                 /\ keys' = [keys EXCEPT ![k] =
                                      [anchor |-> call[c].for, revoked |-> FALSE]]
            \/ /\ RevokeKeyUpdate(c) /\ call[c] \in RevokeCall
               /\ keys' = [keys EXCEPT ![call[c].about] =
                             [keys[call[c].about] EXCEPT !.revoked = TRUE]]
         /\ \/ log' = log
            \/ /\ Record(c) /\ call[c] \in RecordCall
               /\ log' = [log EXCEPT ![call[c].about] = call[c].entry]
  <1>0. TypeOK /\ Ground(c)
    BY DEF Inv, CallInv
  <1>1. CASE Start(c)
    BY <1>1 DEF Start, Register, Decide, AddMember, RemoveMember, CreateKey, RevokeKey,
       UseKey
  <1>2. CASE DecideUpdate(c)
    <2>. DEFINE row == [status |-> call[c].says,
               approvedBy |-> CASE call[c].says = "APPROVED"  -> call[c].by
                                [] call[c].says = "REJECTED"  -> None
                                [] call[c].says = "SUSPENDED" ->
                                     anchors[call[c].about].approvedBy]
    <2>1. /\ call[c] \in StatusCall
          /\ anchors' = [anchors EXCEPT ![call[c].about] = row]
      BY <1>0, <1>2, DecideCalls
    <2>2. call[c].about \in Anchor /\ anchors[call[c].about] \in AnchorRow
            /\ Exists(call[c].about)
      BY <1>0, <2>1 DEF Ground, Exists, TypeOK, StatusCall
    <2>3. row \in AnchorRow /\ row.status = call[c].says
      BY <2>1, <2>2 DEF AnchorRow, StatusCall, Status
    <2>. HIDE DEF row
    <2>. QED
      BY <1>2, <2>1, <2>2, <2>3 DEF DecideUpdate
  <1>3. CASE AddWrite(c)
    <2>1. call[c] \in MemberCall
      BY <1>0, <1>3, CallKinds DEF AddWrite, At
    <2>. QED
      BY <1>3, <2>1 DEF AddWrite
  <1>4. CASE RemoveUpdate(c)
    <2>1. call[c] \in RemoveCall
      BY <1>0, <1>4, CallKinds DEF RemoveUpdate, At
    <2>2. members' = [members EXCEPT ![call[c].about] =
                        [members[call[c].about] EXCEPT !.deleted = TRUE]]
      BY <1>0, <1>4, <2>1 DEF RemoveUpdate, TypeOK
    <2>. QED
      BY <1>4, <2>1, <2>2 DEF RemoveUpdate
  <1>5. CASE CreateKeyInsert(c)
    BY <1>5 DEF CreateKeyInsert
  <1>6. CASE RevokeKeyUpdate(c)
    <2>1. call[c] \in RevokeCall
      BY <1>0, <1>6, CallKinds DEF RevokeKeyUpdate
    <2>2. keys' = [keys EXCEPT ![call[c].about] =
                     [keys[call[c].about] EXCEPT !.revoked = TRUE]]
      BY <1>0, <1>6, <2>1 DEF RevokeKeyUpdate, TypeOK
    <2>. QED
      BY <1>6, <2>1, <2>2 DEF RevokeKeyUpdate
  <1>7. CASE Record(c)
    BY <1>0, <1>7, CallKinds DEF Record
  <1>8. CASE \/ AddFind(c) \/ RemoveFind(c) \/ CreateKeyStatus(c) \/ GuardTouch(c)
             \/ FileStatus(c) \/ FileInsert(c) \/ Read(c) \/ Fail(c)
    BY <1>8 DEF AddFind, RemoveFind, CreateKeyStatus, GuardTouch, FileStatus,
       FileInsert, Read, Fail
  <1>. QED
    BY <1>1, <1>2, <1>3, <1>4, <1>5, <1>6, <1>7, <1>8 DEF Step, Continue

LEMMA StepKeeps == ASSUME Inv, [Next]_vars PROVE Keeps
  <1>0. TypeOK /\ Known /\ \A c \in Call : Ground(c)
    BY DEF Inv, CallInv
  <1>1. ASSUME NEW c \in Call, Step(c) PROVE Keeps
    <2>1. ASSUME NEW u \in User, NEW a \in Anchor, Register(c, u, a)
          PROVE  /\ \A b \in Anchor : Exists(b) => Exists(b)'
                 /\ \A m \in Membership : members[m] # None => members'[m] # None
      <3>1. /\ anchors' = [anchors EXCEPT ![a] = [status |-> "PENDING", approvedBy |-> None]]
            /\ members' = [members EXCEPT ![<<a, u>>] =
                             [role |-> "ANCHOR_ADMIN", deleted |-> FALSE]]
            /\ ~Exists(a)
        BY <2>1 DEF Register
      <3>2. /\ [role |-> "ANCHOR_ADMIN", deleted |-> FALSE] \in MemberRow
            /\ [status |-> "PENDING", approvedBy |-> None] \in AnchorRow
        BY DEF MemberRow, Role, AnchorRow, Status
      <3>3. /\ [role |-> "ANCHOR_ADMIN", deleted |-> FALSE] # None
            /\ [status |-> "PENDING", approvedBy |-> None] # None
        BY <3>2, NoneAssumption
      <3>. QED
        BY <1>0, <3>1, <3>3 DEF Exists, TypeOK
    <2>2. \A b \in Anchor : Exists(b) => Exists(b)'
      <3>1. ASSUME NEW a, NEW row \in AnchorRow, anchors' = [anchors EXCEPT ![a] = row]
            PROVE  \A b \in Anchor : Exists(b) => Exists(b)'
        BY <1>0, <3>1, NoneAssumption DEF Exists, TypeOK
      <3>2. CASE anchors' = anchors
        BY <3>2 DEF Exists
      <3>. QED
        BY <1>1, <2>1, <3>1, <3>2, TableSteps
    <2>3. \A m \in Membership : members[m] # None => members'[m] # None
      <3>1. ASSUME NEW row \in MemberRow, members' = [members EXCEPT ![call[c].about] = row]
            PROVE  \A m \in Membership : members[m] # None => members'[m] # None
        BY <1>0, <3>1, NoneAssumption DEF TypeOK
      <3>2. CASE /\ call[c] \in MemberCall
                 /\ members' = [members EXCEPT ![call[c].about] =
                                [role |-> call[c].role, deleted |-> FALSE]]
        BY <3>1, <3>2 DEF MemberCall, MemberRow
      <3>3. CASE /\ call[c] \in RemoveCall
                 /\ members' = [members EXCEPT ![call[c].about] =
                                [members[call[c].about] EXCEPT !.deleted = TRUE]]
        <4>1. call[c].about \in Membership /\ members[call[c].about] # None
          BY <1>0, <3>3 DEF Ground, RemoveCall
        <4>2. [members[call[c].about] EXCEPT !.deleted = TRUE] \in MemberRow
          BY <1>0, <4>1 DEF TypeOK, MemberRow
        <4>. QED
          BY <3>1, <3>3, <4>2
      <3>. QED
        BY <1>1, <2>1, <3>2, <3>3, TableSteps
    <2>4. \A k \in Key : keys[k] # None => /\ keys'[k] # None
                                           /\ keys'[k].anchor = keys[k].anchor
      <3>1. CASE /\ call[c] \in RevokeCall
                 /\ keys' = [keys EXCEPT ![call[c].about] =
                             [keys[call[c].about] EXCEPT !.revoked = TRUE]]
        <4>1. call[c].about \in Key /\ keys[call[c].about] # None
          BY <1>0, <3>1 DEF Ground, RevokeCall
        <4>2. /\ [keys[call[c].about] EXCEPT !.revoked = TRUE] \in KeyRow
              /\ [keys[call[c].about] EXCEPT !.revoked = TRUE].anchor
                   = keys[call[c].about].anchor
          BY <1>0, <4>1 DEF TypeOK, KeyRow
        <4>. QED
          BY <1>0, <3>1, <4>1, <4>2, NoneAssumption DEF TypeOK
      <3>2. ASSUME NEW k \in Key, NEW row, keys[k] = None, keys' = [keys EXCEPT ![k] = row]
            PROVE  \A l \in Key : keys[l] # None => keys'[l] = keys[l]
        BY <1>0, <3>2 DEF TypeOK
      <3>3. CASE \E k \in Key : /\ keys[k] = None
                                 /\ keys' = [keys EXCEPT ![k] =
                                      [anchor |-> call[c].for, revoked |-> FALSE]]
        BY <3>2, <3>3
      <3>4. CASE keys' = keys
        BY <3>4
      <3>. QED
        BY <1>1, <3>1, <3>3, <3>4, TableSteps
    <2>5. \A t \in Thing : log[t] # None => log'[t] # None
      <3>1. call[c] \in RecordCall => call[c].entry # None
        BY NoneAssumption DEF RecordCall
      <3>. QED
        BY <1>0, <1>1, <3>1, TableSteps DEF TypeOK
    <2>6. secrets \subseteq secrets'
      BY <1>1 DEF Step, Start, Continue, Register, Decide, AddMember, RemoveMember,
         CreateKey, RevokeKey, UseKey, DecideUpdate, AddFind, AddWrite, RemoveFind,
         RemoveUpdate, CreateKeyStatus, CreateKeyInsert, RevokeKeyUpdate, GuardTouch,
         FileStatus, FileInsert, Read, Record, Fail
    <2>7. disturbed \subseteq disturbed'
      <3>1. CASE Start(c)
        BY <1>0, <3>1, StartCalls, BeginStep
      <3>2. CASE Continue(c) \/ Fail(c)
        BY <3>2 DEF Continue, DecideUpdate, AddFind, AddWrite, RemoveFind,
           RemoveUpdate, CreateKeyStatus, CreateKeyInsert, RevokeKeyUpdate, GuardTouch,
           FileStatus, FileInsert, Read, Record, Fail
      <3>. QED
        BY <1>1, <3>1, <3>2 DEF Step
    <2>. QED
      BY <2>2, <2>3, <2>4, <2>5, <2>6, <2>7 DEF Keeps
  <1>2. ASSUME NEW p \in Page, Load(p) PROVE Keeps
    BY <1>2 DEF Load, Keeps, Exists
  <1>3. CASE UNCHANGED vars
    BY <1>3 DEF vars, Keeps, Exists
  <1>. QED
    BY <1>1, <1>2, <1>3 DEF Next, Step

\* Whatever is there stays there.
LEMMA ThereStays == ASSUME Keeps, NEW t \in Thing, There(t) PROVE There(t)'
  BY DEF Keeps, There

LEMMA KnownStep == ASSUME Inv, [Next]_vars PROVE Known'
  <1>0. TypeOK /\ Known /\ Keeps /\ \A c \in Call : Ground(c)
    BY StepKeeps DEF Inv, CallInv
  <1>1. \A p \in Page : \A a \in Anchor : Statuses[a] # None => Exists(a)
    BY DEF Statuses
  <1>2. ASSUME NEW c \in Call, Step(c) PROVE Known'
    <2>1. ASSUME NEW p \in Page, NEW a \in Anchor, shown'[p][a] # None PROVE Exists(a)'
      <3>1. shown' = shown \/ Record(c)
        BY <1>0, <1>2, StartCalls DEF Step, Continue, DecideUpdate, AddFind, AddWrite,
           RemoveFind, RemoveUpdate, CreateKeyStatus, CreateKeyInsert, RevokeKeyUpdate,
           GuardTouch, FileStatus, FileInsert, Read, Fail
      <3>2. shown'[p] \in {shown[p], Statuses}
        BY <3>1 DEF Record
      <3>. QED
        BY <1>0, <1>1, <2>1, <3>2 DEF Known, Keeps
    <2>2. ASSUME NEW a \in Anchor, NEW u \in User, members'[<<a, u>>] # None
          PROVE  Exists(a)'
      <3>1. CASE members[<<a, u>>] # None
        BY <1>0, <3>1 DEF Known, Keeps
      <3>2. ASSUME NEW v \in User, NEW b \in Anchor, Register(c, v, b), a # b
            PROVE  members'[<<a, u>>] = members[<<a, u>>]
        BY <1>0, <3>2 DEF Register, TypeOK, Membership
      <3>3. ASSUME NEW v \in User, Register(c, v, a) PROVE Exists(a)'
        <4>1. anchors'[a] = [status |-> "PENDING", approvedBy |-> None]
          BY <1>0, <3>3 DEF Register, TypeOK
        <4>2. anchors'[a] \in AnchorRow
          BY <4>1 DEF AnchorRow, Status
        <4>. QED
          BY <4>2, NoneAssumption DEF Exists
      <3>4. ASSUME NEW row, members' = [members EXCEPT ![call[c].about] = row],
                   call[c].about # <<a, u>>
            PROVE  members'[<<a, u>>] = members[<<a, u>>]
        BY <1>0, <3>4 DEF TypeOK, Membership
      <3>5. ASSUME call[c].about = <<a, u>>, call[c] \in MemberCall PROVE Exists(a)'
        BY <1>0, <3>5 DEF Ground, Keeps
      <3>6. ASSUME call[c].about = <<a, u>>, call[c] \in RemoveCall
            PROVE  members[<<a, u>>] # None
        BY <1>0, <3>6 DEF Ground
      <3>7. CASE \E v \in User, b \in Anchor : Register(c, v, b)
        BY <2>2, <3>1, <3>2, <3>3, <3>7
      <3>8. CASE /\ call[c] \in MemberCall
                 /\ \E row : members' = [members EXCEPT ![call[c].about] = row]
        BY <2>2, <3>1, <3>4, <3>5, <3>8
      <3>9. CASE /\ call[c] \in RemoveCall
                 /\ \E row : members' = [members EXCEPT ![call[c].about] = row]
        BY <2>2, <3>1, <3>4, <3>6, <3>9
      <3>10. CASE members' = members
        BY <2>2, <3>1, <3>10
      <3>. QED
        BY <1>2, <3>7, <3>8, <3>9, <3>10, TableSteps
    <2>3. ASSUME NEW t \in Thing, log'[t] # None PROVE There(t)'
      <3>1. log[t] # None \/ (t = call[c].about /\ call[c] \in RecordCall)
        BY <1>0, <1>2, <2>3, TableSteps DEF TypeOK
      <3>2. There(t)
        BY <1>0, <3>1 DEF Known, Ground
      <3>. QED
        BY <1>0, <3>2, ThereStays
    <2>4. ASSUME NEW k \in secrets' \cup requests' \cup reads'
          PROVE  keys'[k] # None /\ log'[k] # None
      <3>1. CASE k \in secrets \cup requests \cup reads
        <4>1. k \in Key /\ k \in Thing
          BY <1>0, <3>1 DEF TypeOK, Thing
        <4>. QED
          BY <1>0, <3>1, <4>1 DEF Known, Keeps
      <3>2. CASE (FileInsert(c) \/ Read(c)) /\ k = call[c].for
        <4>1. call[c] \in KeyCall
          BY <1>0, <3>2, CallKinds DEF FileInsert, Read, At
        <4>2. k \in secrets
          BY <1>0, <3>2, <4>1 DEF Ground
        <4>. QED
          BY <3>1, <4>2
      <3>3. CASE Record(c) /\ k \in Key /\ k = call[c].about
        <4>1. call[c] \in RecordCall
          BY <1>0, <3>3, CallKinds DEF Record
        <4>2. There(k) /\ k \in Thing /\ call[c].entry # None
          BY <1>0, <3>3, <4>1, NoneAssumption DEF Ground, Thing, RecordCall
        <4>3. log'[k] = call[c].entry
          BY <1>0, <3>3, <4>2 DEF Record, TypeOK
        <4>. QED
          BY <1>0, <3>3, <4>2, <4>3 DEF There, Keeps
      <3>4. \/ k \in secrets \cup requests \cup reads
            \/ (FileInsert(c) \/ Read(c)) /\ k = call[c].for
            \/ Record(c) /\ k \in Key /\ k = call[c].about
        <4>1. CASE Start(c)
          BY <1>0, <2>4, <4>1, StartCalls
        <4>2. CASE Continue(c) \/ Fail(c)
          BY <2>4, <4>2 DEF Continue, DecideUpdate, AddFind, AddWrite, RemoveFind,
             RemoveUpdate, CreateKeyStatus, CreateKeyInsert, RevokeKeyUpdate, GuardTouch,
             FileStatus, FileInsert, Read, Record, Fail
        <4>. QED
          BY <1>2, <4>1, <4>2 DEF Step
      <3>. QED
        BY <3>1, <3>2, <3>3, <3>4
    <2>. QED
      BY <2>1, <2>2, <2>3, <2>4 DEF Known
  <1>3. ASSUME NEW p \in Page, Load(p) PROVE Known'
    <2>1. \A q \in Page : shown'[q] \in {shown[q], Statuses}
      BY <1>0, <1>3 DEF Load, TypeOK
    <2>. QED
      BY <1>0, <1>1, <1>3, <2>1 DEF Load, Known, Exists, There
  <1>4. CASE UNCHANGED vars
    BY <1>0, <1>4 DEF vars, Known, Exists, There
  <1>. QED
    BY <1>2, <1>3, <1>4 DEF Next, Step

\* Records of different kinds differ.
LEMMA Disjoint ==
  ASSUME NEW r
  PROVE  /\ r = Idle => r.step = "idle"
         /\ r \in StatusCall => r.step = "status:update"
         /\ r \in MemberCall => r.step \in {"add:find", "add:update", "add:create"}
         /\ r \in RemoveCall => r.step \in {"remove:find", "remove:update"}
         /\ r \in CreateCall => r.step \in {"key:status", "key:insert"}
         /\ r \in RevokeCall => r.step = "revoke:update"
         /\ r \in KeyCall =>
              r.step \in {"guard:touch", "file:status", "file:insert", "read"}
         /\ r \in RecordCall => r.step = "record"
  BY DEF Idle, StatusCall, MemberCall, RemoveCall, CreateCall, RevokeCall, KeyCall,
     RecordCall

\* What the record of a call's entry is about is there.
LEMMA RecordGround ==
  ASSUME Inv, NEW c \in Call, Step(c), Keeps,
         \/ DecideUpdate(c) \/ AddWrite(c) \/ RemoveUpdate(c)
         \/ CreateKeyInsert(c) \/ RevokeKeyUpdate(c),
         call'[c] \in RecordCall, NEW t, t = call'[c].about
  PROVE  There(t)'
  <1>0. TypeOK /\ Ground(c)
    BY DEF Inv, CallInv
  <1>. USE IdAssumption
  <1>1. CASE DecideUpdate(c)
    <2>1. /\ call[c] \in StatusCall
          /\ call'[c] = [step |-> "record", about |-> call[c].about,
                         entry |-> [says |-> call[c].says, by |-> call[c].by],
                         page |-> call[c].page, against |-> {}]
      BY <1>0, <1>1, DecideCalls
    <2>2. call'[c].about = call[c].about /\ call[c].about \in Anchor
      BY <2>1 DEF StatusCall
    <2>3. Exists(call[c].about)
      BY <1>0, <2>1 DEF Ground
    <2>. QED
      BY <2>2, <2>3 DEF There, Keeps
  <1>2. CASE AddWrite(c)
    <2>1. call[c] \in MemberCall
      BY <1>0, <1>2, CallKinds DEF AddWrite, At
    <2>2. /\ call[c].about \in Membership
          /\ [role |-> call[c].role, deleted |-> FALSE] \in MemberRow
      BY <2>1 DEF MemberCall, MemberRow
    <2>3. ThenRecord(c, call[c].about, [says |-> call[c].role])
            /\ members' = [members EXCEPT ![call[c].about] =
                             [role |-> call[c].role, deleted |-> FALSE]]
      <3>1. ~Answer(c)
        BY <1>0, Moves, Disjoint
      <3>. QED
        BY <1>2, <3>1 DEF AddWrite
    <2>4. call'[c].about = call[c].about
      BY <1>0, <2>3 DEF ThenRecord, TypeOK
    <2>5. members'[call[c].about] # None
      BY <1>0, <2>2, <2>3, NoneAssumption DEF TypeOK
    <2>. QED
      BY <2>2, <2>4, <2>5 DEF There
  <1>3. CASE RemoveUpdate(c)
    <2>1. call[c] \in RemoveCall
      BY <1>0, <1>3, CallKinds DEF RemoveUpdate, At
    <2>2. call[c].about \in Membership /\ members[call[c].about] # None
      BY <1>0, <2>1 DEF Ground, RemoveCall
    <2>3. call'[c].about = call[c].about
      BY <1>0, <1>3 DEF RemoveUpdate, ThenRecord, TypeOK
    <2>. QED
      BY <2>2, <2>3 DEF There, Keeps
  <1>4. CASE CreateKeyInsert(c)
    <2>1. PICK k \in Key :
            /\ keys' = [keys EXCEPT ![k] = [anchor |-> call[c].for, revoked |-> FALSE]]
            /\ ThenRecord(c, k, [says |-> "CREATED"])
      BY <1>4 DEF CreateKeyInsert
    <2>2. [anchor |-> call[c].for, revoked |-> FALSE] \in KeyRow
      BY <1>0, <1>4, CallKinds DEF CreateKeyInsert, At, CreateCall, KeyRow
    <2>3. keys'[k] # None /\ call'[c].about = k
      BY <1>0, <2>1, <2>2, NoneAssumption DEF ThenRecord, TypeOK
    <2>. QED
      BY <2>3 DEF There
  <1>5. CASE RevokeKeyUpdate(c)
    <2>1. call[c] \in RevokeCall
      BY <1>0, <1>5, CallKinds DEF RevokeKeyUpdate
    <2>2. call[c].about \in Key /\ keys[call[c].about] # None
      BY <1>0, <2>1 DEF Ground, RevokeCall
    <2>3. call'[c].about = call[c].about
      BY <1>0, <1>5 DEF RevokeKeyUpdate, ThenRecord, TypeOK
    <2>. QED
      BY <2>2, <2>3 DEF There, Keeps
  <1>. QED
    BY <1>1, <1>2, <1>3, <1>4, <1>5

LEMMA GroundStep ==
  ASSUME Inv, NEW c \in Call, Step(c), Keeps PROVE \A d \in Call : Ground(d)'
  <1>0. TypeOK /\ Known /\ \A d \in Call : Ground(d)
    BY DEF Inv, CallInv
  <1>1. ASSUME NEW d \in Call \ {c} PROVE Ground(d)'
    <2>1. Alike(d) /\ Ground(d)
      BY <1>0, Others
    <2>2. CASE call[d] \in KeyCall
      <3>1. call'[d] \in KeyCall /\ call'[d].for = call[d].for
        BY <1>0, <2>1, <2>2, AlikeKinds
      <3>. QED
        BY <2>1, <2>2, <3>1, Disjoint DEF Ground, Keeps
    <2>3. CASE call[d] \in CreateCall
      <3>1. call'[d] \in CreateCall
        BY <1>0, <2>1, <2>3, AlikeKinds
      <3>. QED
        BY <3>1, Disjoint DEF Ground
    <2>4. CASE call[d] \notin CreateCall \cup KeyCall
      <3>1. call'[d] = call[d]
        BY <1>0, <2>1, <2>4, AlikeKinds
      <3>2. /\ call[d] \in StatusCall => call[d].about \in Anchor
            /\ call[d] \in MemberCall => call[d].about[1] \in Anchor
            /\ call[d] \in RemoveCall => call[d].about \in Membership
            /\ call[d] \in RevokeCall => call[d].about \in Key
            /\ call[d] \in RecordCall => call[d].about \in Thing
        BY DEF StatusCall, MemberCall, RemoveCall, RevokeCall, RecordCall, Membership
      <3>3. CASE call[d] \in RecordCall
        <4>1. PICK t \in Thing : t = call[d].about
          BY <3>2, <3>3
        <4>2. There(t)
          BY <2>1, <3>3, <4>1 DEF Ground
        <4>3. There(t)'
          BY <4>2, ThereStays
        <4>. QED
          BY <3>1, <3>3, <4>1, <4>3, Disjoint DEF Ground, There, Exists
      <3>4. CASE call[d] \notin RecordCall
        BY <2>1, <2>4, <3>1, <3>2, <3>4 DEF Ground, Keeps
      <3>. QED
        BY <3>3, <3>4
    <2>. QED
      BY <2>2, <2>3, <2>4
  <1>2. Ground(c)'
    <2>1. CASE call'[c] = Idle
      BY <2>1, Disjoint DEF Ground
    <2>2. ASSUME NEW u \in User, NEW a \in Anchor, Register(c, u, a) PROVE Ground(c)'
      <3>1. /\ call'[c].step = "record" /\ call'[c].about = a
            /\ anchors'[a] = [status |-> "PENDING", approvedBy |-> None]
        BY <1>0, <2>2 DEF Register, Begin, TypeOK
      <3>2. anchors'[a] \in AnchorRow
        BY <3>1 DEF AnchorRow, Status
      <3>. QED
        BY <3>1, <3>2, Disjoint, NoneAssumption, IdAssumption DEF Ground, There, Exists
    <2>3. ASSUME NEW d \in Admin, NEW p \in Page, NEW a \in Anchor,
                 NEW decision \in Status, Decide(c, d, p, a, decision)
          PROVE  Ground(c)'
      <3>1. call'[c].step = "status:update" /\ call'[c].about = a
        BY <1>0, <2>3 DEF Decide, Begin, TypeOK
      <3>2. Exists(a)
        BY <1>0, <2>3, NoneAssumption DEF Decide, Offered, Known, Status
      <3>. QED
        BY <3>1, <3>2, Disjoint DEF Ground, Keeps
    <2>4. ASSUME NEW by \in User, NEW u \in User, NEW a \in Anchor, NEW role \in Role,
                 AddMember(c, by, a, u, role)
          PROVE  Ground(c)'
      <3>1. call'[c].step = "add:find" /\ call'[c].about = <<a, u>> /\ Exists(a)
        BY <1>0, <2>4 DEF AddMember, Begin, TypeOK
      <3>. QED
        BY <3>1, Disjoint DEF Ground, Keeps
    <2>5. ASSUME NEW by \in User, NEW u \in User, NEW a \in Anchor, RemoveMember(c, by, a, u)
          PROVE  Ground(c)'
      <3>1. /\ call'[c].step = "remove:find" /\ call'[c].about = <<a, u>>
            /\ members[<<a, u>>] # None /\ <<a, u>> \in Membership
        BY <1>0, <2>5 DEF RemoveMember, Begin, TypeOK, Membership
      <3>. QED
        BY <3>1, Disjoint DEF Ground, Keeps
    <2>6. ASSUME NEW by \in User, NEW a \in Anchor, CreateKey(c, by, a) PROVE Ground(c)'
      <3>1. call'[c].step = "key:status"
        BY <1>0, <2>6 DEF CreateKey, Begin, TypeOK
      <3>. QED
        BY <3>1, Disjoint DEF Ground
    <2>7. ASSUME NEW by \in User, NEW k \in Key, RevokeKey(c, by, k) PROVE Ground(c)'
      <3>1. call'[c].step = "revoke:update" /\ call'[c].about = k /\ keys[k] # None
        BY <1>0, <2>7 DEF RevokeKey, Begin, TypeOK
      <3>. QED
        BY <3>1, Disjoint DEF Ground, Keeps
    <2>8. ASSUME NEW k \in Key, NEW route \in {"file:status", "read"}, UseKey(c, k, route)
          PROVE  Ground(c)'
      <3>1. call'[c].step = "guard:touch" /\ call'[c].for = k /\ k \in secrets
        BY <1>0, <2>8 DEF UseKey, Begin, TypeOK
      <3>. QED
        BY <3>1, Disjoint DEF Ground, Keeps
    <2>9. ASSUME call[c] \in MemberCall, call'[c] \in MemberCall,
                 call'[c].about = call[c].about
          PROVE  Ground(c)'
      <3>1. call[c].about[1] \in Anchor /\ Exists(call[c].about[1])
        BY <1>0, <2>9 DEF Ground, MemberCall, Membership
      <3>. QED
        BY <2>9, <3>1, Disjoint DEF Ground, Keeps
    <2>10. ASSUME call[c] \in RemoveCall, call'[c] \in RemoveCall,
                  call'[c].about = call[c].about
           PROVE  Ground(c)'
      <3>1. call[c].about \in Membership /\ members[call[c].about] # None
        BY <1>0, <2>10 DEF Ground, RemoveCall
      <3>. QED
        BY <2>10, <3>1, Disjoint DEF Ground, Keeps
    <2>11. ASSUME call'[c] \in CreateCall PROVE Ground(c)'
      BY <2>11, Disjoint DEF Ground
    <2>12. ASSUME call[c] \in KeyCall, call'[c] \in KeyCall, call'[c].for = call[c].for
           PROVE  Ground(c)'
      BY <1>0, <2>12, Disjoint DEF Ground, Keeps
    <2>13. ASSUME \/ DecideUpdate(c) \/ AddWrite(c) \/ RemoveUpdate(c)
                  \/ CreateKeyInsert(c) \/ RevokeKeyUpdate(c),
                  call'[c] \in RecordCall
           PROVE  Ground(c)'
      <3>1. \A t : t = call'[c].about => There(t)'
        BY <2>13, RecordGround
      <3>. QED
        BY <2>13, <3>1, Disjoint DEF Ground, There, Exists
    <2>14. CASE Continue(c)
      BY <1>0, <2>1, <2>9, <2>10, <2>11, <2>12, <2>13, <2>14, OwnCall
    <2>15. CASE Fail(c)
      BY <1>0, <2>1, <2>15, Moves DEF Fail
    <2>. QED
      BY <2>2, <2>3, <2>4, <2>5, <2>6, <2>7, <2>8, <2>14, <2>15 DEF Step, Start
  <1>. QED
    BY <1>1, <1>2
----------------------------------------------------------------------------
(* What began in vain stays in vain.                                       *)

\* Whoever passes the check of the caller is in charge, as the check ends.
LEMMA InChargeMeans ==
  ASSUME TypeOK, NEW a \in Anchor, NEW u \in User, InCharge(a, u)
  PROVE  NotInCharge(a, u) = {}
  <1>1. CASE u \in Admin
    BY <1>1 DEF NotInCharge
  <1>2. CASE Live(<<a, u>>) /\ members[<<a, u>>].role = "ANCHOR_ADMIN"
    <2>1. members[<<a, u>>] \in MemberRow /\ members[<<a, u>>].deleted = FALSE
      BY <1>2 DEF Live, TypeOK, Membership, MemberRow
    <2>2. members[<<a, u>>] = [role |-> "ANCHOR_ADMIN", deleted |-> FALSE]
      BY <1>2, <2>1 DEF MemberRow
    <2>. QED
      BY <2>2 DEF NotInCharge
  <1>. QED
    BY <1>1, <1>2 DEF InCharge

\* An anchor becomes approved by a decision, which tells the calls that wait.
LEMMA StillRefused ==
  ASSUME Inv, NEW c \in Call, Step(c), Keeps, NEW d \in Call \ {c} PROVE Refused(d)'
  <1>0. TypeOK /\ Known /\ Refused(d) /\ Ground(d)
    BY DEF Inv, CallInv
  <1>1. Alike(d)
    BY <1>0, Others
  <1>2. SUFFICES ASSUME call'[d] # Idle, call'[d].against # {}
                 PROVE  /\ call'[d].against = {"status"}
                        /\ \E a \in Anchor : Awaits(d, a)' /\ ~Approved(a)'
    BY DEF Refused
  <1>3. call[d] # Idle /\ call[d].against # {} /\ call'[d].against \subseteq call[d].against
    BY <1>0, <1>1, <1>2, AlikeKinds
  <1>4. call[d].against = {"status"}
    BY <1>0, <1>3 DEF Refused
  <1>5. PICK a \in Anchor : Awaits(d, a) /\ ~Approved(a)
    BY <1>0, <1>3 DEF Refused
  <1>6. call'[d].against = {"status"}
    BY <1>2, <1>3, <1>4
  <1>7. call'[d] = call[d]
    <2>1. [call[d] EXCEPT !.against = @ \ {"status"}].against = {}
             \/ "against" \notin DOMAIN call[d]
      BY <1>4
    <2>2. call[d] \in CreateCall \cup KeyCall => "against" \in DOMAIN call[d]
      BY DEF CreateCall, KeyCall
    <2>. QED
      BY <1>1, <1>2, <2>1, <2>2 DEF Alike
  <1>8. Awaits(d, a)'
    <2>1. CASE call[d] \in CreateCall
      BY <1>5, <1>7, <2>1, Disjoint DEF Awaits, At
    <2>2. CASE call[d] \in KeyCall
      <3>1. keys[call[d].for] # None /\ call[d].for \in Key
        BY <1>0, <2>2 DEF Ground, Known, TypeOK
      <3>2. keys'[call[d].for].anchor = keys[call[d].for].anchor
        BY <3>1 DEF Keeps
      <3>. QED
        BY <1>5, <1>7, <2>2, <3>2, Disjoint DEF Awaits
    <2>. QED
      BY <1>5, <2>1, <2>2 DEF Awaits
  <1>9. ~Approved(a)'
    <2>1. CASE anchors' = anchors
      BY <1>5, <2>1 DEF Approved, Exists
    <2>2. ASSUME NEW u \in User, NEW b \in Anchor, Register(c, u, b) PROVE ~Approved(a)'
      <3>1. anchors' = [anchors EXCEPT ![b] = [status |-> "PENDING", approvedBy |-> None]]
        BY <2>2 DEF Register
      <3>. QED
        BY <1>0, <1>5, <3>1 DEF Approved, Exists, TypeOK
    <2>3. ASSUME DecideUpdate(c), call[c] \in StatusCall, NEW row \in AnchorRow,
                 row.status = call[c].says,
                 anchors' = [anchors EXCEPT ![call[c].about] = row]
          PROVE  ~Approved(a)'
      <3>1. CASE call[c].about # a
        BY <1>0, <1>5, <2>3, <3>1 DEF Approved, Exists, TypeOK
      <3>2. CASE call[c].about = a
        <4>1. Concerns(d, a)
          <5>1. "for" \in DOMAIN call[d]
            BY <1>0, <1>5, CallKinds DEF Awaits
          <5>2. CASE call[d] \in CreateCall
            BY <1>5, <5>1, <5>2, Disjoint DEF Awaits, Concerns
          <5>3. CASE call[d] \in KeyCall
            <6>1. keys[call[d].for] # None /\ call[d].for \in Key
              BY <1>0, <5>3 DEF Ground, Known, TypeOK
            <6>. QED
              BY <1>5, <5>1, <5>3, <6>1, Disjoint DEF Awaits, Concerns
          <5>. QED
            BY <1>5, <5>2, <5>3 DEF Awaits
        <4>2. call[c].says # "APPROVED"
          <5>1. call'[d] = IF call[c].says = "APPROVED" /\ Concerns(d, call[c].about)
                           THEN [call[d] EXCEPT !.against = @ \ {"status"}] ELSE call[d]
            BY <1>0, <2>3, DecideCalls
          <5>2. "against" \in DOMAIN call[d]
            BY <1>5 DEF Awaits, CreateCall, KeyCall
          <5>. QED
            BY <1>4, <1>6, <3>2, <4>1, <5>1, <5>2
        <4>3. anchors'[a] = row
          BY <1>0, <2>3, <3>2 DEF TypeOK
        <4>. QED
          BY <2>3, <4>2, <4>3 DEF Approved
      <3>. QED
        BY <3>1, <3>2
    <2>. QED
      BY <2>1, <2>2, <2>3, TableSteps
  <1>. QED
    BY <1>6, <1>8, <1>9

LEMMA RefusedStep ==
  ASSUME Inv, NEW c \in Call, Step(c), Keeps PROVE Refused(c)'
  <1>0. TypeOK /\ Known /\ Refused(c) /\ Ground(c)
    BY DEF Inv, CallInv
  <1>1. ASSUME call'[c] = Idle \/ call'[c].against = {} PROVE Refused(c)'
    BY <1>1 DEF Refused
  <1>2. ASSUME NEW u \in User, NEW a \in Anchor, Register(c, u, a) PROVE call'[c].against = {}
    BY <1>0, <1>2 DEF Register, Begin, TypeOK
  <1>3. ASSUME NEW d \in Admin, NEW p \in Page, NEW a \in Anchor,
               NEW decision \in Status, Decide(c, d, p, a, decision)
        PROVE  call'[c].against = {}
    BY <1>0, <1>3 DEF Decide, Begin, TypeOK
  <1>4. ASSUME NEW by \in User, NEW u \in User, NEW a \in Anchor, NEW role \in Role,
               AddMember(c, by, a, u, role)
        PROVE  call'[c].against = {}
    BY <1>0, <1>4, InChargeMeans DEF AddMember, Begin, TypeOK
  <1>5. ASSUME NEW by \in User, NEW u \in User, NEW a \in Anchor, RemoveMember(c, by, a, u)
        PROVE  call'[c].against = {}
    BY <1>0, <1>5, InChargeMeans DEF RemoveMember, Begin, TypeOK
  <1>6. ASSUME NEW by \in User, NEW a \in Anchor, CreateKey(c, by, a) PROVE Refused(c)'
    <2>1. call'[c] = [step |-> "key:status", about |-> None, for |-> a,
                      against |-> NotApproved(a)]
      BY <1>0, <1>6, InChargeMeans DEF CreateKey, Begin, TypeOK
    <2>2. call'[c] \in CreateCall
      BY <2>1 DEF CreateCall, NotApproved, Against
    <2>3. Approved(a)' <=> Approved(a)
      BY <1>6 DEF CreateKey, Approved, Exists
    <2>4. CASE Approved(a)
      BY <1>1, <2>1, <2>4 DEF NotApproved
    <2>5. CASE ~Approved(a)
      <3>1. call'[c].against = {"status"} /\ Awaits(c, a)'
        BY <2>1, <2>2, <2>5 DEF NotApproved, Awaits, At
      <3>. QED
        BY <2>3, <2>5, <3>1 DEF Refused
    <2>. QED
      BY <2>4, <2>5
  <1>7. ASSUME NEW by \in User, NEW k \in Key, RevokeKey(c, by, k)
        PROVE  call'[c].against = {}
    <2>1. keys[k].anchor \in Anchor
      BY <1>0, <1>7 DEF RevokeKey, TypeOK, KeyRow
    <2>. QED
      BY <1>0, <1>7, <2>1, InChargeMeans DEF RevokeKey, Begin, TypeOK
  <1>8. ASSUME NEW k \in Key, NEW route \in {"file:status", "read"}, UseKey(c, k, route)
        PROVE  Refused(c)'
    <2>1. PICK a \in Anchor : a = keys[k].anchor
      BY <1>0, <1>8 DEF UseKey, Valid, TypeOK, KeyRow
    <2>2. call'[c] = [step |-> "guard:touch", about |-> None, for |-> k, route |-> route,
                      against |-> IF route = "file:status" THEN NotApproved(a) ELSE {}]
      <3>1. NotValid(k) = {}
        BY <1>8 DEF UseKey, Valid, NotValid
      <3>. QED
        BY <1>0, <1>8, <2>1, <3>1 DEF UseKey, Begin, TypeOK
    <2>3. call'[c] \in KeyCall
      BY <2>2 DEF KeyCall, NotApproved, Against
    <2>4. (Approved(a)' <=> Approved(a)) /\ keys' = keys
      BY <1>8 DEF UseKey, Approved, Exists
    <2>5. CASE Approved(a) \/ route # "file:status"
      BY <1>1, <2>2, <2>5 DEF NotApproved
    <2>6. CASE ~Approved(a) /\ route = "file:status"
      <3>1. call'[c].against = {"status"} /\ Awaits(c, a)'
        BY <2>1, <2>2, <2>3, <2>4, <2>6 DEF NotApproved, Awaits
      <3>. QED
        BY <2>4, <2>6, <3>1 DEF Refused
    <2>. QED
      BY <2>5, <2>6
  <1>9. ASSUME call[c] # Idle, ~(\E a \in Anchor : Awaits(c, a) /\ ~Approved(a)),
               call'[c].against = call[c].against
        PROVE  Refused(c)'
    BY <1>0, <1>1, <1>9 DEF Refused
  <1>10. ASSUME call[c] \in KeyCall, call'[c] \in KeyCall,
                call'[c].for = call[c].for, call'[c].route = call[c].route,
                call'[c].against = call[c].against,
                GuardTouch(c), call'[c].step = call[c].route, call[c].against # {}
         PROVE  Refused(c)'
    <2>1. PICK a \in Anchor : Awaits(c, a) /\ ~Approved(a)
      BY <1>0, <1>10, Disjoint DEF Refused
    <2>2. call[c].against = {"status"}
      BY <1>0, <1>10, Disjoint DEF Refused
    <2>3. call[c].route = "file:status" /\ keys[call[c].for].anchor = a
      BY <1>10, <2>1, Disjoint DEF Awaits
    <2>4. UNCHANGED <<anchors, keys>>
      BY <1>10 DEF GuardTouch
    <2>5. Awaits(c, a)' /\ ~Approved(a)'
      BY <1>10, <2>1, <2>3, <2>4 DEF Awaits, Approved, Exists
    <2>. QED
      BY <1>10, <2>2, <2>5 DEF Refused
  <1>11. CASE Continue(c)
    <2>1. CASE AddFind(c) \/ RemoveFind(c) \/ AddWrite(c) \/ RemoveUpdate(c)
               \/ RevokeKeyUpdate(c) \/ CreateKeyInsert(c)
      <3>1. call[c] # Idle /\ \A a \in Anchor : ~Awaits(c, a)
        BY <1>0, <2>1, CallKinds DEF AddFind, RemoveFind, AddWrite, RemoveUpdate,
           RevokeKeyUpdate, CreateKeyInsert, Awaits, At
      <3>2. call'[c] = Idle \/ call'[c].against = call[c].against
                \/ call'[c].against = {}
        BY <1>0, <1>11, OwnCall
      <3>. QED
        BY <1>1, <1>9, <3>1, <3>2
    <2>2. CASE CreateKeyStatus(c)
      <3>1. call[c] \in CreateCall
        BY <1>0, <2>2, CallKinds DEF CreateKeyStatus, At
      <3>2. call'[c] = Idle \/ (Approved(call[c].for) /\ call'[c].against = call[c].against)
        <4>1. Approved(call[c].for) \/ Answer(c)
          BY <2>2 DEF CreateKeyStatus
        <4>. QED
          BY <1>0, <1>11, <2>2, <4>1, OwnCall, Moves, Disjoint, CallKinds
             DEF CreateKeyStatus, At, GuardTouch, FileStatus, DecideUpdate, AddWrite,
             RemoveUpdate, CreateKeyInsert, RevokeKeyUpdate, AddFind, RemoveFind
      <3>3. Approved(call[c].for) => ~(\E a \in Anchor : Awaits(c, a) /\ ~Approved(a))
        BY <3>1, Disjoint DEF Awaits
      <3>. QED
        BY <1>1, <1>9, <3>1, <3>2, <3>3, Disjoint
    <2>3. CASE FileStatus(c)
      <3>1. call[c] \in KeyCall
        BY <1>0, <2>3, CallKinds DEF FileStatus, At
      <3>2. call'[c] = Idle \/ (Approved(keys[call[c].for].anchor)
                                  /\ call'[c].against = call[c].against)
        <4>1. Approved(keys[call[c].for].anchor) \/ Answer(c)
          BY <2>3 DEF FileStatus
        <4>. QED
          BY <1>0, <1>11, <2>3, <4>1, OwnCall, Moves, Disjoint, CallKinds
             DEF CreateKeyStatus, At, GuardTouch, FileStatus, DecideUpdate, AddWrite,
             RemoveUpdate, CreateKeyInsert, RevokeKeyUpdate, AddFind, RemoveFind
      <3>3. Approved(keys[call[c].for].anchor)
              => ~(\E a \in Anchor : Awaits(c, a) /\ ~Approved(a))
        BY <3>1, Disjoint DEF Awaits
      <3>. QED
        BY <1>1, <1>9, <3>1, <3>2, <3>3, Disjoint
    <2>4. CASE GuardTouch(c)
      <3>1. /\ call[c] \in KeyCall /\ call'[c] \in KeyCall
            /\ call'[c].for = call[c].for /\ call'[c].route = call[c].route
            /\ call'[c].against = call[c].against /\ call'[c].step = call[c].route
        <4>1. call[c] \in KeyCall
          BY <1>0, <2>4, CallKinds DEF GuardTouch, At
        <4>2. call'[c] = [call[c] EXCEPT !.step = call[c].route]
          BY <1>0, <2>4, Moves DEF GuardTouch
        <4>. QED
          BY <4>1, <4>2 DEF KeyCall
      <3>. QED
        BY <1>1, <1>10, <2>4, <3>1
    <2>5. CASE DecideUpdate(c)
      <3>1. call'[c] = [step |-> "record", about |-> call[c].about,
                        entry |-> [says |-> call[c].says, by |-> call[c].by],
                        page |-> call[c].page, against |-> {}]
        BY <1>0, <2>5, DecideCalls
      <3>. QED
        BY <1>1, <3>1
    <2>6. CASE FileInsert(c) \/ Read(c) \/ Record(c)
      BY <1>0, <1>1, <2>6, Moves DEF FileInsert, Read, Record
    <2>. QED
      BY <1>11, <2>1, <2>2, <2>3, <2>4, <2>5, <2>6 DEF Continue
  <1>12. CASE Fail(c)
    BY <1>0, <1>1, <1>12, Moves DEF Fail
  <1>. QED
    BY <1>1, <1>2, <1>3, <1>4, <1>5, <1>6, <1>7, <1>8, <1>11, <1>12 DEF Step, Start
LEMMA InvStep == Inv /\ [Next]_vars => Inv'
  <1>. SUFFICES ASSUME Inv, [Next]_vars PROVE Inv'
    OBVIOUS
  <1>1. TypeOK' /\ Known' /\ Keeps
    BY TypeStep, KnownStep, StepKeeps
  <1>2. ASSUME NEW c \in Call, Step(c), NEW d \in Call PROVE CallInv(d)'
    <2>1. Ground(d)'
      BY <1>1, <1>2, GroundStep
    <2>2. Refused(d)'
      BY <1>1, <1>2, RefusedStep, StillRefused
    <2>. QED
      BY <2>1, <2>2 DEF CallInv
  <1>3. ASSUME call' = call, anchors' = anchors, keys' = keys, NEW d \in Call
        PROVE  CallInv(d)'
    <2>1. Ground(d) /\ Refused(d)
      BY DEF Inv, CallInv
    <2>2. Refused(d)'
      BY <1>3, <2>1 DEF Refused, Awaits, At, Approved, Exists
    <2>3. Ground(d)'
      <3>1. /\ call[d] \in StatusCall => call[d].about \in Anchor
            /\ call[d] \in MemberCall => call[d].about[1] \in Anchor
            /\ call[d] \in RemoveCall => call[d].about \in Membership
            /\ call[d] \in RevokeCall => call[d].about \in Key
        BY DEF StatusCall, MemberCall, RemoveCall, RevokeCall, Membership
      <3>2. CASE call[d] \in RecordCall
        BY <1>1, <1>3, <2>1, <3>2, Disjoint DEF Ground, There, Exists, Keeps
      <3>3. CASE call[d] \notin RecordCall
        BY <1>1, <1>3, <2>1, <3>1, <3>3 DEF Ground, Keeps
      <3>. QED
        BY <3>2, <3>3
    <2>. QED
      BY <2>2, <2>3 DEF CallInv
  <1>4. \A d \in Call : CallInv(d)'
    <2>1. ASSUME NEW p \in Page, Load(p)
          PROVE  call' = call /\ anchors' = anchors /\ keys' = keys
      BY <2>1 DEF Load
    <2>2. CASE UNCHANGED vars
      BY <1>3, <2>2 DEF vars
    <2>. QED
      BY <1>2, <1>3, <2>1, <2>2 DEF Next, Step
  <1>. QED
    BY <1>1, <1>4 DEF Inv

LEMMA RefusalsStep ==
  ASSUME Inv, [Next]_vars, NEW c \in Call,
         call[c] # Idle, call[c].against # {}, call'[c] # call[c]
  PROVE  UNCHANGED <<members, keys, requests, reads>>
  <1>0. TypeOK /\ Refused(c)
    BY DEF Inv, CallInv
  <1>1. PICK d \in Call : Step(d)
    BY DEF Next, Step, Load, vars
  <1>2. CASE d # c
    <2>1. DecideUpdate(d)
      BY <1>0, <1>1, <1>2, Others
    <2>. QED
      BY <2>1 DEF DecideUpdate
  <1>3. CASE d = c
    <2>1. PICK a \in Anchor : Awaits(c, a)
      BY <1>0 DEF Refused
    <2>2. call[c].step \in {"key:status", "guard:touch", "file:status"}
      BY <2>1 DEF Awaits, At
    <2>3. ~Start(c)
      BY <1>0, StartCalls, BeginStep
    <2>4. CreateKeyStatus(c) \/ GuardTouch(c) \/ FileStatus(c) \/ Fail(c)
      BY <1>1, <1>3, <2>2, <2>3 DEF Step, Continue, At, DecideUpdate, AddFind, AddWrite,
         RemoveFind, RemoveUpdate, CreateKeyInsert, RevokeKeyUpdate, FileInsert, Read,
         Record
    <2>. QED
      BY <2>4 DEF CreateKeyStatus, GuardTouch, FileStatus, Fail
  <1>. QED
    BY <1>2, <1>3

----------------------------------------------------------------------------
(* Theorems.                                                               *)

\* The invariant behind the theorems: calls are about what is there, and those
\* that should be refused have not come to the check that refuses them.
THEOREM Invariance == Spec => []Inv
  BY InvInit, InvStep, PTL DEF Spec

\* Tables, pages and calls have the shape the schema and the handlers give.
THEOREM TypeCorrect == Spec => []TypeOK
  <1>1. Inv => TypeOK
    BY DEF Inv
  <1>. QED
    BY <1>1, Invariance, PTL

\* No secret is out, and nothing was made with a key, without the entry of its
\* creation, whatever failed on the way.
THEOREM SecretsAreLogged == Spec => []SecretsAreRecorded
  <1>1. Inv => SecretsAreRecorded
    BY DEF Inv, Known, SecretsAreRecorded
  <1>. QED
    BY <1>1, Invariance, PTL

\* A call that should have been refused as it began changes nothing.
THEOREM RefusedInVain == Spec => RefusalsHold
  <1>1. Inv /\ [Next]_vars =>
          [\A c \in Call :
             /\ call[c] # Idle
             /\ call[c].against # {}
             /\ call'[c] # call[c]
             => UNCHANGED <<members, keys, requests, reads>>]_vars
    BY RefusalsStep
  <1>. QED
    BY <1>1, Invariance, PTL DEF Spec, RefusalsHold----------------------------------------------------------------------------
(* The chain of authority.                                                 *)

\* Entries of a key's creation are about keys, the others that are about a key
\* are about one that is revoked.
Meant(c) ==
  call[c] \in RecordCall =>
    /\ call[c].entry.says = "CREATED" => call[c].about \in Key
    /\ call[c].about \in Key =>
         call[c].entry.says = "CREATED" \/ keys[call[c].about].revoked

Meanings == \A c \in Call : Meant(c)

LEMMA RevokedStay ==
  ASSUME Inv, NEW c \in Call, Step(c), NEW k \in Key, keys[k] # None, keys[k].revoked
  PROVE  keys'[k].revoked
  <1>0. TypeOK /\ Ground(c)
    BY DEF Inv, CallInv
  <1>1. CASE /\ call[c] \in RevokeCall
             /\ keys' = [keys EXCEPT ![call[c].about] =
                           [keys[call[c].about] EXCEPT !.revoked = TRUE]]
    <2>1. call[c].about \in Key /\ keys[call[c].about] \in KeyRow
      BY <1>0, <1>1 DEF Ground, RevokeCall, TypeOK
    <2>2. [keys[call[c].about] EXCEPT !.revoked = TRUE].revoked
      BY <2>1 DEF KeyRow
    <2>. QED
      BY <1>0, <1>1, <2>1, <2>2 DEF TypeOK
  <1>2. ASSUME NEW i \in Key, NEW row, keys[i] = None, keys' = [keys EXCEPT ![i] = row]
        PROVE  keys'[k] = keys[k]
    BY <1>0, <1>2 DEF TypeOK
  <1>. QED
    BY <1>1, <1>2, TableSteps

\* What a call that begins, and one that has written, will say.
LEMMA NewRecord ==
  ASSUME Inv, NEW c \in Call, Step(c), call'[c] \in RecordCall
  PROVE  \/ call'[c].about \notin Key /\ call'[c].entry.says # "CREATED"
         \/ call'[c].about \in Key /\ call'[c].entry.says = "CREATED"
         \/ /\ RevokeKeyUpdate(c)
            /\ call'[c].about = call[c].about
            /\ call[c].about \in Key
            /\ keys'[call[c].about].revoked
            /\ call'[c].entry.says # "CREATED"
  <1>0. TypeOK /\ Ground(c)
    BY DEF Inv, CallInv
  <1>. USE IdAssumption
  <1>1. CASE Start(c)
    <2>1. ASSUME NEW u \in User, NEW a \in Anchor, Register(c, u, a)
          PROVE  call'[c].about \notin Key /\ call'[c].entry.says # "CREATED"
      BY <1>0, <2>1 DEF Register, Begin, TypeOK
    <2>2. CASE ~\E u \in User, a \in Anchor : Register(c, u, a)
      <3>1. ASSUME NEW r, Begin(c, r) PROVE call'[c] = r
        BY <1>0, <3>1 DEF Begin, TypeOK
      <3>2. ASSUME NEW d \in Admin, NEW p \in Page, NEW a \in Anchor, NEW s \in Status,
                   Decide(c, d, p, a, s)
            PROVE  call'[c].step # "record"
        BY <3>1, <3>2 DEF Decide
      <3>3. ASSUME NEW by \in User, NEW u \in User, NEW a \in Anchor, NEW role \in Role,
                   AddMember(c, by, a, u, role) \/ RemoveMember(c, by, a, u)
            PROVE  call'[c].step # "record"
        BY <3>1, <3>3 DEF AddMember, RemoveMember
      <3>4. ASSUME NEW by \in User, NEW a \in Anchor, CreateKey(c, by, a)
            PROVE  call'[c].step # "record"
        BY <3>1, <3>4 DEF CreateKey
      <3>5. ASSUME NEW by \in User, NEW k \in Key, RevokeKey(c, by, k)
            PROVE  call'[c].step # "record"
        BY <3>1, <3>5 DEF RevokeKey
      <3>6. ASSUME NEW k \in Key, NEW route \in {"file:status", "read"}, UseKey(c, k, route)
            PROVE  call'[c].step # "record"
        BY <3>1, <3>6 DEF UseKey
      <3>7. Role # {}
        BY DEF Role
      <3>. QED
        BY <1>1, <2>2, <3>2, <3>3, <3>4, <3>5, <3>6, <3>7, Disjoint DEF Start
    <2>. QED
      BY <2>1, <2>2
  <1>2. CASE DecideUpdate(c)
    <2>1. /\ call[c] \in StatusCall
          /\ call'[c] = [step |-> "record", about |-> call[c].about,
                         entry |-> [says |-> call[c].says, by |-> call[c].by],
                         page |-> call[c].page, against |-> {}]
      BY <1>0, <1>2, DecideCalls
    <2>2. call'[c].about = call[c].about /\ call'[c].entry.says = call[c].says
      BY <2>1
    <2>. QED
      BY <2>1, <2>2 DEF StatusCall, Status
  <1>3. CASE AddWrite(c)
    <2>1. call[c] \in MemberCall
      BY <1>0, <1>3, CallKinds DEF AddWrite, At
    <2>2. \/ Answer(c)
          \/ ThenRecord(c, call[c].about, [says |-> call[c].role])
      BY <1>3 DEF AddWrite
    <2>3. ~Answer(c)
      BY <1>0, Moves, Disjoint DEF Idle
    <2>4. call'[c].about = call[c].about /\ call'[c].entry.says = call[c].role
      BY <1>0, <2>2, <2>3 DEF ThenRecord, TypeOK
    <2>. QED
      BY <2>1, <2>4 DEF MemberCall, Role
  <1>4. CASE RemoveUpdate(c)
    <2>1. call[c] \in RemoveCall
      BY <1>0, <1>4, CallKinds DEF RemoveUpdate, At
    <2>2. call'[c].about = call[c].about /\ call'[c].entry.says = "REMOVED"
      BY <1>0, <1>4 DEF RemoveUpdate, ThenRecord, TypeOK
    <2>. QED
      BY <2>1, <2>2 DEF RemoveCall
  <1>5. CASE CreateKeyInsert(c)
    BY <1>0, <1>5 DEF CreateKeyInsert, ThenRecord, TypeOK
  <1>6. CASE RevokeKeyUpdate(c)
    <2>1. call[c] \in RevokeCall
      BY <1>0, <1>6, CallKinds DEF RevokeKeyUpdate
    <2>2. call[c].about \in Key /\ keys[call[c].about] \in KeyRow
      BY <1>0, <2>1 DEF Ground, RevokeCall, TypeOK
    <2>3. keys'[call[c].about].revoked
      BY <1>0, <1>6, <2>2 DEF RevokeKeyUpdate, TypeOK, KeyRow
    <2>4. call'[c].about = call[c].about /\ call'[c].entry.says = "REVOKED"
      BY <1>0, <1>6 DEF RevokeKeyUpdate, ThenRecord, TypeOK
    <2>. QED
      BY <1>6, <2>2, <2>3, <2>4
  <1>7. CASE Fail(c)
    BY <1>0, <1>7, Moves, Disjoint DEF Fail, Idle
  <1>8. CASE Continue(c)
    BY <1>0, <1>2, <1>3, <1>4, <1>5, <1>6, <1>8, OwnCall, Disjoint DEF Idle
  <1>. QED
    BY <1>1, <1>7, <1>8 DEF Step

\* What an entry will say of a key stays true until it is written.
LEMMA MeantStep == Inv /\ Meanings /\ [Next]_vars => Meanings'
  <1>. SUFFICES ASSUME Inv, \A c \in Call : Meant(c), [Next]_vars
                PROVE  \A c \in Call : Meant(c)'
    BY DEF Meanings
  <1>0. TypeOK /\ \A c \in Call : Ground(c)
    BY DEF Inv, CallInv
  <1>1. ASSUME NEW c \in Call, Step(c), NEW d \in Call PROVE Meant(d)'
    <2>1. CASE d = c
      BY <1>1, <2>1, NewRecord DEF Meant
    <2>2. CASE d # c
      <3>1. call'[d] \in RecordCall => call[d] \in RecordCall /\ call'[d] = call[d]
        BY <1>0, <1>1, <2>2, Others, AlikeKinds, Disjoint
      <3>2. ASSUME call[d] \in RecordCall, call[d].about \in Key,
                   keys[call[d].about].revoked
            PROVE  keys'[call[d].about].revoked
        BY <1>0, <1>1, <3>2, RevokedStay DEF Ground, There
      <3>. QED
        BY <3>1, <3>2 DEF Meant
    <2>. QED
      BY <2>1, <2>2
  <1>2. ASSUME UNCHANGED <<call, keys>> PROVE \A c \in Call : Meant(c)'
    BY <1>2 DEF Meant
  <1>. QED
    BY <1>1, <1>2 DEF Next, Step, Load, vars

\* A step turns what its own call may do into something else.
LEMMA MayStep ==
  ASSUME Inv, NEW c \in Call, Step(c), Keeps
  PROVE  May' = [May EXCEPT ![c] = Granted(c)']
  <1>0. TypeOK /\ \A d \in Call : Ground(d)
    BY DEF Inv, CallInv
  <1>1. ASSUME NEW d \in Call \ {c} PROVE Granted(d)' = Granted(d)
    <2>1. Alike(d) /\ call'[d] \in CallState
      BY <1>0, Others, AlikeKinds
    <2>2. CASE call'[d] = call[d] /\ ~At(d, "revoke:update")
      BY <2>2 DEF Granted, At
    <2>3. CASE call'[d] = call[d] /\ At(d, "revoke:update")
      <3>1. call[d].about \in Key /\ keys[call[d].about] # None
        BY <1>0, <2>3, CallKinds DEF Ground, RevokeCall
      <3>2. keys'[call[d].about].anchor = keys[call[d].about].anchor
        BY <3>1 DEF Keeps
      <3>. QED
        BY <2>3, <3>2 DEF Granted, At
    <2>4. CASE call[d] \in CreateCall \cup KeyCall
      <3>1. /\ call'[d].step = call[d].step /\ call'[d].for = call[d].for
            /\ call[d].step \notin {"add:find", "add:update", "add:create", "remove:find",
                                    "remove:update", "revoke:update", "record"}
        BY <1>0, <2>1, <2>4, AlikeKinds, Disjoint
      <3>. QED
        BY <3>1 DEF Granted, At
    <2>. QED
      BY <2>1, <2>2, <2>3, <2>4 DEF Alike
  <1>2. May' = [d \in Call |-> Granted(d)'] /\ May = [d \in Call |-> Granted(d)]
    BY DEF May
  <1>. QED
    BY <1>1, <1>2

LEMMA TurnsBy ==
  ASSUME Inv, NEW c \in Call, Step(c), Keeps, NEW from, NEW to,
         Granted(c) = from, Granted(c)' = to
  PROVE  /\ Chain!Turns(c, from, to)
         /\ from = to => May' = May
  <1>1. May[c] = Granted(c)
    BY DEF May
  <1>2. May = [d \in Call |-> May[d]]
    BY DEF May
  <1>. QED
    BY <1>1, <1>2, MayStep DEF Chain!Turns

\* The parts of the chain are read off one table each.
LEMMA SameTables ==
  /\ anchors' = anchors => Founded' = Founded /\ Good' = Good
  /\ members' = members => Heads' = Heads
  /\ keys' = keys => Ring' = Ring /\ Dead' = Dead
  /\ log' = log => Noted' = Noted
  BY DEF Founded, Good, Exists, Approved, Heads, Live, Ring, Dead, Noted

Still == UNCHANGED <<Founded, Good, Heads, Ring, Dead, Noted, secrets, May, requests, reads>>

\* A call that begins for anchor a has somebody in charge of it behind it.
LEMMA ChainBegin ==
  ASSUME Inv, NEW c \in Call, Keeps, Start(c),
         NEW u \in User, NEW a \in Anchor, InCharge(a, u),
         UNCHANGED <<anchors, members, keys, secrets, requests, reads, log>>,
         Granted(c)' = Chain!Manage(a)
  PROVE  Chain!Begin(c, u, a)
  <1>1. u \in Admin \/ <<a, u>> \in Heads
    BY DEF InCharge, Heads, Membership
  <1>2. call[c] = Idle
    BY StartCalls DEF Inv, Begin
  <1>3. Granted(c) = Chain!Nothing
    BY <1>2 DEF Granted, At, Idle, Chain!Nothing
  <1>4. Chain!Turns(c, Chain!Nothing, Chain!Manage(a))
    BY <1>3, TurnsBy DEF Step
  <1>. QED
    BY <1>1, <1>4, SameTables DEF Chain!Begin, Chain!keyring

\* Registrations, decisions and calls that begin.
LEMMA ChainStart ==
  ASSUME Inv, NEW c \in Call, Keeps, Start(c) PROVE Chain!Next \/ Still
  <1>0. TypeOK /\ Known /\ Step(c)
    BY DEF Inv, Step
  <1>1. call[c] = Idle /\ Granted(c) = Chain!Nothing
    BY <1>0, StartCalls DEF Begin, Granted, At, Idle, Chain!Nothing
  <1>2. ASSUME NEW r, Begin(c, r) PROVE call'[c] = r
    BY <1>0, <1>2 DEF Begin, TypeOK
  <1>3. ASSUME NEW u \in User, NEW a \in Anchor, Register(c, u, a) PROVE Chain!Next
    <2>1. /\ ~Exists(a)
          /\ anchors' = [anchors EXCEPT ![a] = [status |-> "PENDING", approvedBy |-> None]]
          /\ members' = [members EXCEPT ![<<a, u>>] =
                           [role |-> "ANCHOR_ADMIN", deleted |-> FALSE]]
          /\ UNCHANGED <<keys, secrets, requests, reads, log>>
      BY <1>3 DEF Register
    <2>2. May' = May
      <3>1. call'[c] = [step |-> "record", about |-> a, page |-> None, against |-> {},
                        entry |-> [says |-> "REGISTERED", by |-> u]]
        BY <1>2, <1>3 DEF Register
      <3>2. Granted(c)' = Chain!Nothing
        BY <3>1 DEF Granted, At, Chain!Nothing
      <3>. QED
        BY <1>0, <1>1, <3>2, TurnsBy
    <2>3. Founded' = Founded \cup {a} /\ a \notin Founded
      <3>1. [status |-> "PENDING", approvedBy |-> None] # None
        BY NoneAssumption DEF AnchorRow, Status
      <3>. QED
        BY <1>0, <2>1, <3>1 DEF Founded, Exists, TypeOK
    <2>4. Good' = Good
      BY <1>0, <2>1 DEF Good, Approved, Exists, TypeOK
    <2>5. Heads' = Heads \cup {<<a, u>>}
      <3>1. [role |-> "ANCHOR_ADMIN", deleted |-> FALSE] # None
        <4>1. [role |-> "ANCHOR_ADMIN", deleted |-> FALSE] \in MemberRow
          BY DEF MemberRow, Role
        <4>. QED
          BY <4>1, NoneAssumption
      <3>2. members' \in [Membership -> MemberRow \cup {None}] /\ <<a, u>> \in Membership
        BY <1>0, <2>1 DEF TypeOK, MemberRow, Role, Membership
      <3>3. members'[<<a, u>>] = [role |-> "ANCHOR_ADMIN", deleted |-> FALSE]
            /\ \A m \in Membership \ {<<a, u>>} : members'[m] = members[m]
        BY <1>0, <2>1, <3>2 DEF TypeOK
      <3>. QED
        BY <3>1, <3>2, <3>3 DEF Heads, Live
    <2>6. Chain!Found(a, u)
      BY <2>1, <2>2, <2>3, <2>4, <2>5, SameTables DEF Chain!Found, Chain!keyring
    <2>. QED
      BY <2>6 DEF Chain!Next
  <1>4. ASSUME NEW d \in Admin, NEW p \in Page, NEW a \in Anchor, NEW s \in Status,
               Decide(c, d, p, a, s)
        PROVE  Still
    <2>1. call'[c].step = "status:update"
      BY <1>2, <1>4 DEF Decide
    <2>2. Granted(c)' = Chain!Nothing
      BY <2>1 DEF Granted, At, Chain!Nothing
    <2>3. May' = May
      BY <1>0, <1>1, <2>2, TurnsBy
    <2>. QED
      BY <1>4, <2>3, SameTables DEF Still, Decide
  <1>5. ASSUME NEW by \in User, NEW u \in User, NEW a \in Anchor, NEW role \in Role,
               AddMember(c, by, a, u, role) \/ RemoveMember(c, by, a, u)
        PROVE  Chain!Next
    <2>1. /\ call'[c].step \in {"add:find", "remove:find"}
          /\ call'[c].about = <<a, u>>
      BY <1>2, <1>5 DEF AddMember, RemoveMember
    <2>2. Granted(c)' = Chain!Manage(a)
      BY <2>1 DEF Granted, At, Chain!Manage
    <2>3. Chain!Begin(c, by, a)
      BY <1>5, <2>2, ChainBegin DEF AddMember, RemoveMember
    <2>. QED
      BY <2>3 DEF Chain!Next
  <1>6. ASSUME NEW by \in User, NEW a \in Anchor, CreateKey(c, by, a) PROVE Chain!Next
    <2>1. call'[c].step = "key:status" /\ call'[c].for = a
      BY <1>2, <1>6 DEF CreateKey
    <2>2. Granted(c)' = Chain!Manage(a)
      BY <2>1 DEF Granted, At, Chain!Manage
    <2>3. Chain!Begin(c, by, a)
      BY <1>6, <2>2, ChainBegin DEF CreateKey
    <2>. QED
      BY <2>3 DEF Chain!Next
  <1>7. ASSUME NEW by \in User, NEW k \in Key, RevokeKey(c, by, k) PROVE Chain!Next
    <2>. DEFINE a == keys[k].anchor
    <2>1. call'[c].step = "revoke:update" /\ call'[c].about = k
      BY <1>2, <1>7 DEF RevokeKey
    <2>2. a \in Anchor
      BY <1>0, <1>7 DEF RevokeKey, TypeOK, KeyRow
    <2>3. keys' = keys /\ InCharge(a, by)
      BY <1>7 DEF RevokeKey
    <2>4. Granted(c)' = Chain!Manage(a)
      BY <2>1, <2>3 DEF Granted, At, Chain!Manage
    <2>5. Chain!Begin(c, by, a)
      BY <1>7, <2>2, <2>3, <2>4, ChainBegin DEF RevokeKey
    <2>. QED
      BY <2>2, <2>5 DEF Chain!Next
  <1>8. ASSUME NEW k \in Key, NEW route \in {"file:status", "read"}, UseKey(c, k, route)
        PROVE  Chain!Next
    <2>1. call'[c].step = "guard:touch" /\ call'[c].for = k
      BY <1>2, <1>8 DEF UseKey
    <2>2. Granted(c)' = Chain!Use(k)
      BY <2>1 DEF Granted, At, Chain!Use
    <2>3. k \in secrets /\ k \notin Dead
      BY <1>8 DEF UseKey, Valid, Dead
    <2>4. Chain!Turns(c, Chain!Nothing, Chain!Use(k))
      BY <1>0, <1>1, <2>2, TurnsBy
    <2>5. Chain!Enter(c, k)
      BY <1>8, <2>3, <2>4, SameTables DEF UseKey, Chain!Enter, Chain!keyring
    <2>. QED
      BY <2>5 DEF Chain!Next
  <1>9. Role # {}
    BY DEF Role
  <1>. QED
    BY <1>3, <1>4, <1>5, <1>6, <1>7, <1>8, <1>9 DEF Start

\* A decision, whatever it was about to overwrite.
LEMMA ChainDecide ==
  ASSUME Inv, NEW c \in Call, Keeps, DecideUpdate(c) PROVE Chain!Next
  <1>0. TypeOK /\ Step(c) /\ Ground(c)
    BY DEF Inv, Step, Continue, CallInv
  <1>1. /\ call[c] \in StatusCall
        /\ call'[c] = [step |-> "record", about |-> call[c].about,
                       entry |-> [says |-> call[c].says, by |-> call[c].by],
                       page |-> call[c].page, against |-> {}]
    BY <1>0, DecideCalls
  <1>2. call[c].step = "status:update" /\ call[c].says # "CREATED"
    BY <1>1 DEF StatusCall, Status
  <1>3. call'[c].step = "record" /\ call'[c].entry.says # "CREATED"
    BY <1>1, <1>2
  <1>4. Granted(c) = Chain!Nothing /\ Granted(c)' = Chain!Nothing
    BY <1>2, <1>3 DEF Granted, At, Chain!Nothing
  <1>5. May' = May
    BY <1>0, <1>4, TurnsBy
  <1>6. PICK row \in AnchorRow, a \in Anchor :
          /\ Exists(a)
          /\ anchors' = [anchors EXCEPT ![a] = row]
    <2>1. call[c].about \in Anchor /\ Exists(call[c].about)
      BY <1>0, <1>1 DEF StatusCall, Ground
    <2>2. \/ anchors' = anchors
          \/ \E row \in AnchorRow : anchors' = [anchors EXCEPT ![call[c].about] = row]
          \/ \E u \in User, a \in Anchor : Register(c, u, a)
      BY <1>0, TableSteps
    <2>3. ASSUME anchors' = anchors
          PROVE  /\ anchors[call[c].about] \in AnchorRow
                 /\ anchors' = [anchors EXCEPT ![call[c].about] = anchors[call[c].about]]
      BY <1>0, <2>1, <2>3 DEF Exists, TypeOK
    <2>4. ASSUME NEW u \in User, NEW a \in Anchor, Register(c, u, a) PROVE FALSE
      <3>1. call[c] = Idle
        BY <2>4 DEF Register, Begin
      <3>. QED
        BY <1>2, <3>1 DEF Idle
    <2>. QED
      BY <2>1, <2>2, <2>3, <2>4
  <1>7. /\ anchors'[a] = row /\ row # None
        /\ \A b \in Anchor \ {a} : anchors'[b] = anchors[b]
    BY <1>0, <1>6, NoneAssumption DEF TypeOK
  <1>8. Founded' = Founded /\ a \in Founded
    BY <1>6, <1>7 DEF Founded, Exists
  <1>9. Good' \in {Good \cup {a}, Good \ {a}}
    BY <1>6, <1>7 DEF Good, Approved, Exists
  <1>10. Chain!Decide(a)
    BY <1>5, <1>8, <1>9, SameTables DEF DecideUpdate, Chain!Decide, Chain!keyring
  <1>. QED
    BY <1>10 DEF Chain!Next

\* A call whose answer is its last word, though it might have done more.
LEMMA ChainGivesUp ==
  ASSUME Inv, NEW c \in Call, Keeps, Step(c), Answer(c),
         UNCHANGED <<anchors, members, keys, secrets, requests, reads, log>>
  PROVE  Chain!Next
  <1>1. call'[c] = Idle
    BY Moves DEF Inv
  <1>2. Granted(c)' = Chain!Nothing
    BY <1>1 DEF Granted, At, Idle, Chain!Nothing
  <1>3. May' = [May EXCEPT ![c] = Chain!Nothing]
    BY <1>2, MayStep
  <1>4. Chain!GiveUp(c)
    BY <1>3, SameTables DEF Chain!GiveUp, Chain!keyring
  <1>. QED
    BY <1>4 DEF Chain!Next

\* The calls about members.
LEMMA ChainMembers ==
  ASSUME Inv, NEW c \in Call, Keeps,
         AddFind(c) \/ RemoveFind(c) \/ AddWrite(c) \/ RemoveUpdate(c)
  PROVE  Chain!Next \/ Still
  <1>0. TypeOK /\ Step(c) /\ Ground(c)
    BY DEF Inv, Step, Continue, CallInv
  <1>1. call[c] \in MemberCall \cup RemoveCall
    BY <1>0, CallKinds DEF AddFind, RemoveFind, AddWrite, RemoveUpdate, At
  <1>2. PICK a \in Anchor, u \in User : call[c].about = <<a, u>>
    BY <1>1 DEF MemberCall, RemoveCall, Membership
  <1>3. Granted(c) = Chain!Manage(a)
    BY <1>1, <1>2, Disjoint DEF Granted, Chain!Manage
  <1>4. CASE Answer(c) /\ UNCHANGED members
    BY <1>0, <1>4, ChainGivesUp DEF AddFind, RemoveFind, AddWrite, RemoveUpdate
  <1>5. CASE (AddFind(c) \/ RemoveFind(c)) /\ ~Answer(c)
    <2>1. PICK s \in {"add:create", "add:update", "remove:update"} : Goto(c, s)
      BY <1>5 DEF AddFind, RemoveFind
    <2>2. call'[c].step = s /\ call'[c].about = <<a, u>>
      <3>1. call'[c] = [call[c] EXCEPT !.step = s]
        BY <1>0, <2>1, Moves
      <3>2. CASE call[c] \in MemberCall
        BY <1>2, <3>1, <3>2 DEF MemberCall
      <3>3. CASE call[c] \in RemoveCall
        BY <1>2, <3>1, <3>3 DEF RemoveCall
      <3>. QED
        BY <1>1, <3>2, <3>3
    <2>3. Granted(c)' = Chain!Manage(a)
      BY <2>2 DEF Granted, Chain!Manage
    <2>4. May' = May
      BY <1>0, <1>3, <2>3, TurnsBy
    <2>. QED
      BY <1>5, <2>4, SameTables DEF Still, AddFind, RemoveFind
  <1>6. ASSUME NEW row \in MemberRow, NEW says \in Role \cup {"REMOVED"},
               members' = [members EXCEPT ![<<a, u>>] = row],
               ThenRecord(c, call[c].about, [says |-> says]),
               UNCHANGED <<anchors, keys, secrets, requests, reads, log>>
        PROVE  Chain!Next
    <2>1. call'[c].step = "record" /\ call'[c].entry.says = says
      BY <1>0, <1>6 DEF ThenRecord, TypeOK
    <2>2. Granted(c)' = Chain!Nothing
      BY <2>1 DEF Granted, At, Role, Chain!Nothing
    <2>3. Chain!Turns(c, Chain!Manage(a), Chain!Nothing)
      BY <1>0, <1>3, <2>2, TurnsBy
    <2>4. <<a, u>> \in Membership /\ row # None
      BY NoneAssumption DEF Membership
    <2>5. /\ members'[<<a, u>>] = row
          /\ \A m \in Membership \ {<<a, u>>} : members'[m] = members[m]
      BY <1>0, <1>6, <2>4 DEF TypeOK
    <2>6. Heads' \in {Heads \cup {<<a, u>>}, Heads \ {<<a, u>>}}
      BY <2>4, <2>5 DEF Heads, Live
    <2>7. Chain!Appoint(c, a, u)
      BY <1>6, <2>3, <2>6, SameTables DEF Chain!Appoint, Chain!keyring
    <2>. QED
      BY <2>7 DEF Chain!Next
  <1>7. CASE AddWrite(c) /\ ~(Answer(c) /\ UNCHANGED members)
    <2>1. call[c].role \in Role /\ [role |-> call[c].role, deleted |-> FALSE] \in MemberRow
      BY <1>0, <1>7, CallKinds DEF AddWrite, At, MemberCall, MemberRow
    <2>2. /\ members' = [members EXCEPT ![<<a, u>>] =
                           [role |-> call[c].role, deleted |-> FALSE]]
          /\ ThenRecord(c, call[c].about, [says |-> call[c].role])
      BY <1>2, <1>7 DEF AddWrite
    <2>. QED
      BY <1>6, <1>7, <2>1, <2>2 DEF AddWrite
  <1>8. CASE RemoveUpdate(c)
    <2>1. call[c] \in RemoveCall
      BY <1>0, <1>8, CallKinds DEF RemoveUpdate, At
    <2>2. members[<<a, u>>] \in MemberRow
      BY <1>0, <1>2, <2>1 DEF Ground, TypeOK, Membership
    <2>3. [members[<<a, u>>] EXCEPT !.deleted = TRUE] \in MemberRow
      BY <2>2 DEF MemberRow
    <2>4. members' = [members EXCEPT ![<<a, u>>] =
                        [members[<<a, u>>] EXCEPT !.deleted = TRUE]]
      BY <1>0, <1>2, <1>8, <2>2 DEF RemoveUpdate, TypeOK, Membership
    <2>. QED
      BY <1>6, <1>8, <2>3, <2>4 DEF RemoveUpdate
  <1>. QED
    BY <1>4, <1>5, <1>7, <1>8 DEF AddFind, RemoveFind

\* A key is made for an anchor that was found approved, and revoked.
LEMMA ChainKeys ==
  ASSUME Inv, NEW c \in Call, Keeps,
         CreateKeyStatus(c) \/ CreateKeyInsert(c) \/ RevokeKeyUpdate(c)
  PROVE  Chain!Next
  <1>0. TypeOK /\ Step(c) /\ Ground(c)
    BY DEF Inv, Step, Continue, CallInv
  <1>1. CASE Answer(c) /\ CreateKeyStatus(c)
    BY <1>0, <1>1, ChainGivesUp DEF CreateKeyStatus
  <1>2. CASE CreateKeyStatus(c) /\ ~Answer(c)
    <2>. DEFINE a == call[c].for
    <2>1. At(c, "key:status") /\ call[c] \in CreateCall /\ a \in Anchor
      BY <1>0, <1>2, CallKinds DEF CreateKeyStatus, At, CreateCall
    <2>2. Goto(c, "key:insert") /\ a \in Good
      BY <1>2, <2>1 DEF CreateKeyStatus, Good
    <2>3. call'[c].step = "key:insert" /\ call'[c].for = a
      <3>1. call'[c] = [call[c] EXCEPT !.step = "key:insert"]
        BY <1>0, <2>2, Moves
      <3>. QED
        BY <2>1, <3>1 DEF CreateCall
    <2>. HIDE DEF a
    <2>4. Granted(c) = Chain!Manage(a) /\ Granted(c)' = Chain!Issue(a)
      BY <2>1, <2>3 DEF Granted, At, a, Chain!Manage, Chain!Issue
    <2>5. Chain!Turns(c, Chain!Manage(a), Chain!Issue(a))
      BY <1>0, <2>4, TurnsBy
    <2>6. Chain!FindApproved(c, a)
      BY <1>2, <2>2, <2>5, SameTables DEF CreateKeyStatus, Chain!FindApproved, Chain!keyring
    <2>. QED
      BY <2>1, <2>6 DEF Chain!Next
  <1>3. CASE CreateKeyInsert(c)
    <2>. DEFINE a == call[c].for
    <2>1. At(c, "key:insert") /\ a \in Anchor
      BY <1>0, <1>3, CallKinds DEF CreateKeyInsert, At, CreateCall
    <2>2. PICK k \in Key :
            /\ keys[k] = None
            /\ keys' = [keys EXCEPT ![k] = [anchor |-> a, revoked |-> FALSE]]
            /\ ThenRecord(c, k, [says |-> "CREATED"])
      BY <1>3 DEF CreateKeyInsert
    <2>3. /\ call'[c].step = "record" /\ call'[c].about = k
          /\ call'[c].entry.says = "CREATED"
      BY <1>0, <2>2 DEF ThenRecord, TypeOK
    <2>. HIDE DEF a
    <2>4. Granted(c) = Chain!Issue(a) /\ Granted(c)' = Chain!Hand(k)
      BY <2>1, <2>3 DEF Granted, At, a, Chain!Hand, Chain!Issue
    <2>5. Chain!Turns(c, Chain!Issue(a), Chain!Hand(k))
      BY <1>0, <2>4, TurnsBy
    <2>6. /\ keys'[k].anchor = a /\ ~keys'[k].revoked /\ keys'[k] # None
          /\ \A i \in Key \ {k} : keys'[i] = keys[i]
      <3>1. [anchor |-> a, revoked |-> FALSE] \in KeyRow
        BY <2>1 DEF KeyRow
      <3>2. [anchor |-> a, revoked |-> FALSE] # None
        BY <3>1, NoneAssumption
      <3>. QED
        BY <1>0, <2>2, <3>2 DEF TypeOK
    <2>7. Ring' = Ring \cup {<<k, a>>} /\ \A b \in Anchor : <<k, b>> \notin Ring
      BY <2>2, <2>6 DEF Ring
    <2>8. Dead' = Dead
      BY <2>2, <2>6 DEF Dead
    <2>9. Chain!Make(c, a, k)
      BY <1>3, <2>5, <2>7, <2>8, SameTables DEF CreateKeyInsert, Chain!Make
    <2>. QED
      BY <2>1, <2>9 DEF Chain!Next
  <1>4. CASE RevokeKeyUpdate(c)
    <2>. DEFINE k == call[c].about
                a == keys[k].anchor
    <2>1. At(c, "revoke:update") /\ k \in Key /\ keys[k] \in KeyRow /\ keys[k] # None
      BY <1>0, <1>4, CallKinds DEF RevokeKeyUpdate, RevokeCall, Ground, TypeOK
    <2>2. a \in Anchor
      BY <2>1 DEF KeyRow
    <2>3. call'[c].step = "record" /\ call'[c].entry.says = "REVOKED"
      BY <1>0, <1>4 DEF RevokeKeyUpdate, ThenRecord, TypeOK
    <2>4. /\ keys'[k].anchor = a /\ keys'[k].revoked /\ keys'[k] # None
          /\ \A i \in Key \ {k} : keys'[i] = keys[i]
      <3>1. keys' = [keys EXCEPT ![k] = [keys[k] EXCEPT !.revoked = TRUE]]
        BY <1>0, <1>4, <2>1 DEF RevokeKeyUpdate, TypeOK
      <3>2. /\ [keys[k] EXCEPT !.revoked = TRUE].anchor = a
            /\ [keys[k] EXCEPT !.revoked = TRUE].revoked
            /\ [keys[k] EXCEPT !.revoked = TRUE] # None
        BY <2>1, NoneAssumption DEF KeyRow
      <3>. QED
        BY <1>0, <2>1, <3>1, <3>2 DEF TypeOK
    <2>5. Granted(c) = Chain!Manage(a) /\ Granted(c)' = Chain!Nothing
      BY <2>1, <2>3 DEF Granted, At, Chain!Manage, Chain!Nothing
    <2>. HIDE DEF a, k
    <2>6. Chain!Turns(c, Chain!Manage(a), Chain!Nothing)
      BY <1>0, <2>5, TurnsBy
    <2>7. <<k, a>> \in Ring
      BY <2>1 DEF Ring, a
    <2>8. Ring' = Ring /\ Dead' = Dead \cup {k}
      BY <2>1, <2>4 DEF Ring, Dead, a
    <2>9. Chain!Revoke(c, a, k)
      BY <1>4, <2>6, <2>7, <2>8, SameTables DEF RevokeKeyUpdate, Chain!Revoke
    <2>. QED
      BY <2>1, <2>2, <2>9 DEF Chain!Next
  <1>. QED
    BY <1>1, <1>2, <1>3, <1>4

\* A key that was good when the call began is used, once.
LEMMA ChainUse ==
  ASSUME Inv, NEW c \in Call, Keeps,
         GuardTouch(c) \/ FileStatus(c) \/ FileInsert(c) \/ Read(c)
  PROVE  Chain!Next \/ Still
  <1>0. TypeOK /\ Known /\ Step(c) /\ Ground(c)
    BY DEF Inv, Step, Continue, CallInv
  <1>1. PICK k \in Key : call[c] \in KeyCall /\ call[c].for = k /\ k \in secrets
    BY <1>0, CallKinds DEF GuardTouch, FileStatus, FileInsert, Read, At, KeyCall, Ground
  <1>2. At(c, "file:insert") => Granted(c) = Chain!Filing(k)
    BY <1>1 DEF Granted, At, Chain!Filing
  <1>3. call[c].step \in {"guard:touch", "file:status", "read"} => Granted(c) = Chain!Use(k)
    BY <1>1 DEF Granted, At, Chain!Use
  <1>4. CASE FileStatus(c) /\ Answer(c)
    BY <1>0, <1>4, ChainGivesUp DEF FileStatus
  <1>5. CASE GuardTouch(c)
    <2>1. /\ call'[c].step \in {"file:status", "read"}
          /\ call'[c].for = k
      <3>1. call'[c] = [call[c] EXCEPT !.step = call[c].route]
        BY <1>0, <1>5, Moves DEF GuardTouch
      <3>. QED
        BY <1>1, <3>1 DEF KeyCall
    <2>2. Granted(c)' = Chain!Use(k)
      BY <2>1 DEF Granted, At, Chain!Use
    <2>3. May' = May
      BY <1>0, <1>3, <1>5, <2>2, TurnsBy DEF GuardTouch, At
    <2>. QED
      BY <1>5, <2>3, SameTables DEF Still, GuardTouch
  <1>6. CASE FileStatus(c) /\ ~Answer(c)
    <2>. DEFINE a == keys[k].anchor
    <2>1. keys[k] \in KeyRow /\ a \in Anchor /\ <<k, a>> \in Ring
      BY <1>0, <1>1 DEF Known, TypeOK, KeyRow, Ring
    <2>2. Goto(c, "file:insert") /\ a \in Good
      BY <1>1, <1>6, <2>1 DEF FileStatus, Good
    <2>3. call'[c].step = "file:insert" /\ call'[c].for = k
      <3>1. call'[c] = [call[c] EXCEPT !.step = "file:insert"]
        BY <1>0, <2>2, Moves
      <3>. QED
        BY <1>1, <3>1 DEF KeyCall
    <2>. HIDE DEF a
    <2>4. Granted(c)' = Chain!Filing(k)
      BY <2>3 DEF Granted, At, Chain!Filing
    <2>5. Chain!Turns(c, Chain!Use(k), Chain!Filing(k))
      BY <1>0, <1>3, <1>6, <2>4, TurnsBy DEF FileStatus, At
    <2>6. Chain!FindGood(c, a, k)
      BY <1>6, <2>1, <2>2, <2>5, SameTables DEF FileStatus, Chain!FindGood, Chain!keyring
    <2>. QED
      BY <2>1, <2>6 DEF Chain!Next
  <1>7. CASE FileInsert(c) \/ Read(c)
    <2>1. Granted(c)' = Chain!Nothing
      <3>1. call'[c] = Idle
        BY <1>0, <1>7, Moves DEF FileInsert, Read
      <3>. QED
        BY <3>1 DEF Granted, At, Idle, Chain!Nothing
    <2>2. CASE FileInsert(c)
      <3>1. Chain!Turns(c, Chain!Filing(k), Chain!Nothing)
        BY <1>0, <1>2, <2>1, <2>2, TurnsBy DEF FileInsert
      <3>2. Chain!FileWith(c, k)
        BY <1>1, <2>2, <3>1, SameTables DEF FileInsert, Chain!FileWith, Chain!keyring
      <3>. QED
        BY <3>2 DEF Chain!Next
    <2>3. CASE Read(c)
      <3>1. Chain!Turns(c, Chain!Use(k), Chain!Nothing)
        BY <1>0, <1>3, <2>1, <2>3, TurnsBy DEF Read, At
      <3>2. Chain!Read(c, k)
        BY <1>1, <2>3, <3>1, SameTables DEF Read, Chain!Read, Chain!keyring
      <3>. QED
        BY <3>2 DEF Chain!Next
    <2>. QED
      BY <1>7, <2>2, <2>3
  <1>. QED
    BY <1>4, <1>5, <1>6, <1>7

\* The entry of a call, and with it the secret of a new key.
LEMMA ChainRecord ==
  ASSUME Inv, NEW c \in Call, Meant(c), Keeps, Record(c) PROVE Chain!Next \/ Still
  <1>0. TypeOK /\ Step(c) /\ Ground(c)
    BY DEF Inv, Step, Continue, CallInv
  <1>1. At(c, "record") /\ call[c] \in RecordCall /\ call[c].about \in Thing
    BY <1>0, CallKinds DEF Record, RecordCall
  <1>2. /\ Granted(c)' = Chain!Nothing
        /\ UNCHANGED <<Founded, Good, Heads, Ring, Dead, requests, reads>>
    <2>1. call'[c] = Idle
      BY <1>0, Moves DEF Record
    <2>. QED
      BY <2>1, SameTables DEF Record, Granted, At, Idle, Chain!Nothing
  <1>3. Noted' = IF call[c].about \in Key THEN Noted \cup {call[c].about} ELSE Noted
    <2>1. call[c].entry # None
      BY <1>1, NoneAssumption DEF RecordCall
    <2>2. Key \subseteq Thing
      BY DEF Thing
    <2>3. /\ log'[call[c].about] # None
          /\ \A t \in Thing \ {call[c].about} : log'[t] = log[t]
      BY <1>0, <1>1, <2>1 DEF Record, TypeOK
    <2>. QED
      BY <2>2, <2>3 DEF Noted
  <1>4. CASE call[c].entry.says = "CREATED"
    <2>. DEFINE k == call[c].about
    <2>1. k \in Key /\ secrets' = secrets \cup {k} /\ Noted' = Noted \cup {k}
      BY <1>1, <1>3, <1>4 DEF Record, Meant
    <2>2. Granted(c) = Chain!Hand(k)
      BY <1>1, <1>4 DEF Granted, At, Chain!Hand
    <2>. HIDE DEF k
    <2>3. Chain!Turns(c, Chain!Hand(k), Chain!Nothing)
      BY <1>0, <1>2, <2>2, TurnsBy
    <2>4. Chain!HandOut(c, k)
      BY <1>2, <2>1, <2>3 DEF Chain!HandOut
    <2>. QED
      BY <2>1, <2>4 DEF Chain!Next
  <1>5. CASE call[c].entry.says # "CREATED"
    <2>1. Granted(c) = Chain!Nothing
      BY <1>1, <1>5 DEF Granted, At, Chain!Nothing
    <2>2. May' = May
      BY <1>0, <1>2, <2>1, TurnsBy
    <2>3. secrets' = secrets
      BY <1>5 DEF Record
    <2>4. CASE call[c].about \in Key
      <3>. DEFINE k == call[c].about
      <3>1. k \in Key /\ k \in Dead
        BY <1>0, <1>1, <1>5, <2>4 DEF Meant, Dead, Ground, There
      <3>2. Noted' = Noted \cup {k}
        BY <1>3, <2>4
      <3>. HIDE DEF k
      <3>3. Chain!Note(k)
        BY <1>2, <2>2, <2>3, <3>1, <3>2 DEF Chain!Note
      <3>. QED
        BY <3>1, <3>3 DEF Chain!Next
    <2>5. CASE call[c].about \notin Key
      BY <1>2, <1>3, <2>2, <2>3, <2>5 DEF Still
    <2>. QED
      BY <2>4, <2>5
  <1>. QED
    BY <1>4, <1>5

LEMMA ChainStep ==
  Inv /\ Meanings /\ [Next]_vars => [Chain!Next]_(Chain!vars)
  <1>. SUFFICES ASSUME Inv, \A c \in Call : Meant(c), [Next]_vars
                PROVE  Chain!Next \/ Still
    BY DEF Still, Meanings, Chain!vars, Chain!keyring
  <1>0. Keeps
    BY StepKeeps
  <1>1. ASSUME NEW c \in Call, Step(c) PROVE Chain!Next \/ Still
    <2>1. CASE Fail(c)
      BY <1>0, <1>1, <2>1, ChainGivesUp DEF Fail
    <2>. QED
      BY <1>0, <1>1, <2>1, ChainStart, ChainDecide, ChainMembers, ChainKeys, ChainUse,
         ChainRecord DEF Step, Continue
  <1>2. ASSUME UNCHANGED <<anchors, members, keys, secrets, requests, reads, log, call>>
        PROVE  Still
    <2>1. May' = May
      BY <1>2 DEF May, Granted, At
    <2>. QED
      BY <1>2, <2>1, SameTables DEF Still
  <1>. QED
    BY <1>1, <1>2 DEF Next, Step, Load, vars

\* What is done for an anchor goes back to somebody in charge of it, whoever
\* joins, leaves, is approved, suspended or revoked on the way.
THEOREM KeepsTheChain == Spec => ImplementsAuthority
  <1>1. Init => Chain!Init
    BY DEF Init, Chain!Init, Founded, Good, Exists, Approved, Ring, Noted, May, Granted,
       At, Idle, Chain!Nothing
  <1>2. Init => Meanings
    <2>. SUFFICES ASSUME Init, NEW c \in Call
                  PROVE  call[c] \notin RecordCall
      BY DEF Meanings, Meant
    <2>1. call[c] = Idle
      BY DEF Init
    <2>. QED
      BY <2>1, Disjoint
  <1>. QED
    BY <1>1, <1>2, MeantStep, ChainStep, Invariance, PTL
       DEF Spec, ImplementsAuthority, Chain!Spec
=============================================================================
