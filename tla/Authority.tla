------------------------------ MODULE Authority ------------------------------
(***************************************************************************)
(* What anchors, their members and their keys promise: everything that is  *)
(* done for an anchor goes back, grant by grant, to somebody in charge of  *)
(* it.  The first head comes with the anchor, the others by a call that a  *)
(* head, or a platform admin, has begun; such a call may also, once the    *)
(* anchor is found approved, issue a key, and hand out its secret; who has *)
(* the secret of a key that is good may begin to use it, and file with it  *)
(* once the anchor is found approved.                                      *)
(*                                                                         *)
(* A call has at most one thing it may do, what it was let in for or what  *)
(* it has got by giving that up.  What it may do it may do later, whatever *)
(* has become of the head, the approval or the key, or never.              *)
(***************************************************************************)
CONSTANTS User, Admin, Anchor, Key, Call, None

VARIABLES
  anchors,   \* the anchors there are
  approved,  \* those that are approved
  heads,     \* <<a, u>>: u is in charge of a, as a member
  ring,      \* <<k, a>>: k is a key of a
  revoked,   \* the keys that are revoked
  noted,     \* the keys there is a record of
  out,       \* the keys whose secret is out
  may,       \* may[c]: what call c may do
  filed,     \* the keys a request was filed with
  reads      \* the keys data was read with

keyring == <<ring, revoked, noted, out>>
vars == <<anchors, approved, heads, keyring, may, filed, reads>>

Nothing   == [do |-> "nothing", for |-> None]
Manage(a) == [do |-> "manage", for |-> a]
Issue(a)  == [do |-> "issue", for |-> a]
Hand(k)   == [do |-> "hand", for |-> k]
Use(k)    == [do |-> "use", for |-> k]
Filing(k) == [do |-> "file", for |-> k]

\* What is there at first is nobody's call: keys of anchors, and secrets of keys.
Init ==
  /\ approved \subseteq anchors
  /\ \A p, q \in ring : p[1] = q[1] => p = q
  /\ out \subseteq noted
  /\ may = [c \in Call |-> Nothing]
  /\ filed = {} /\ reads = {}

Turns(c, from, to) == may[c] = from /\ may' = [may EXCEPT ![c] = to]

\* An anchor comes with its first head, and its status is decided from then on.
Found(a, u) ==
  /\ a \notin anchors
  /\ anchors' = anchors \cup {a}
  /\ heads' = heads \cup {<<a, u>>}
  /\ UNCHANGED <<approved, keyring, may, filed, reads>>

Decide(a) ==
  /\ a \in anchors
  /\ approved' \in {approved \cup {a}, approved \ {a}}
  /\ UNCHANGED <<anchors, heads, keyring, may, filed, reads>>

\* Somebody in charge of a begins call c.
Begin(c, u, a) ==
  /\ u \in Admin \/ <<a, u>> \in heads
  /\ Turns(c, Nothing, Manage(a))
  /\ UNCHANGED <<anchors, approved, heads, keyring, filed, reads>>

\* It makes u a head of a, or not one any more.
Appoint(c, a, u) ==
  /\ Turns(c, Manage(a), Nothing)
  /\ heads' \in {heads \cup {<<a, u>>}, heads \ {<<a, u>>}}
  /\ UNCHANGED <<anchors, approved, keyring, filed, reads>>

Revoke(c, a, k) ==
  /\ <<k, a>> \in ring
  /\ Turns(c, Manage(a), Nothing)
  /\ revoked' = revoked \cup {k}
  /\ UNCHANGED <<anchors, approved, heads, ring, noted, out, filed, reads>>

FindApproved(c, a) ==
  /\ a \in approved
  /\ Turns(c, Manage(a), Issue(a))
  /\ UNCHANGED <<anchors, approved, heads, keyring, filed, reads>>

Make(c, a, k) ==
  /\ \A b \in Anchor : <<k, b>> \notin ring
  /\ Turns(c, Issue(a), Hand(k))
  /\ ring' = ring \cup {<<k, a>>}
  /\ UNCHANGED <<anchors, approved, heads, revoked, noted, out, filed, reads>>

\* The secret leaves with the record of the key's creation, and only then.
HandOut(c, k) ==
  /\ Turns(c, Hand(k), Nothing)
  /\ noted' = noted \cup {k}
  /\ out' = out \cup {k}
  /\ UNCHANGED <<anchors, approved, heads, ring, revoked, filed, reads>>

\* Revocations leave a record, too.
Note(k) ==
  /\ k \in revoked
  /\ noted' = noted \cup {k}
  /\ UNCHANGED <<anchors, approved, heads, ring, revoked, out, may, filed, reads>>

\* A key is used by somebody who has its secret.
Enter(c, k) ==
  /\ k \in out
  /\ k \notin revoked
  /\ Turns(c, Nothing, Use(k))
  /\ UNCHANGED <<anchors, approved, heads, keyring, filed, reads>>

Read(c, k) ==
  /\ Turns(c, Use(k), Nothing)
  /\ reads' = reads \cup {k}
  /\ UNCHANGED <<anchors, approved, heads, keyring, filed>>

FindGood(c, a, k) ==
  /\ <<k, a>> \in ring
  /\ a \in approved
  /\ Turns(c, Use(k), Filing(k))
  /\ UNCHANGED <<anchors, approved, heads, keyring, filed, reads>>

FileWith(c, k) ==
  /\ Turns(c, Filing(k), Nothing)
  /\ filed' = filed \cup {k}
  /\ UNCHANGED <<anchors, approved, heads, keyring, reads>>

\* Refused, failed, or answered without having done it.
GiveUp(c) ==
  /\ may' = [may EXCEPT ![c] = Nothing]
  /\ UNCHANGED <<anchors, approved, heads, keyring, filed, reads>>

Next ==
  \/ \E a \in Anchor : Decide(a) \/ \E u \in User : Found(a, u)
  \/ \E c \in Call, a \in Anchor, u \in User : Begin(c, u, a) \/ Appoint(c, a, u)
  \/ \E c \in Call, a \in Anchor : FindApproved(c, a)
  \/ \E c \in Call, a \in Anchor, k \in Key :
       Revoke(c, a, k) \/ Make(c, a, k) \/ FindGood(c, a, k)
  \/ \E c \in Call, k \in Key :
       HandOut(c, k) \/ Enter(c, k) \/ Read(c, k) \/ FileWith(c, k)
  \/ \E k \in Key : Note(k)
  \/ \E c \in Call : GiveUp(c)

Spec == Init /\ [][Next]_vars
=============================================================================
