------------------------------ MODULE Entrance ------------------------------
(***************************************************************************)
(* What a login promises, whatever happens on the way: one session at most *)
(* comes of a challenge, for the user of the address that signed it, which *)
(* is the address it was made for, and of a user whose account was looked  *)
(* at after the challenge was redeemed and found active.                   *)
(*                                                                         *)
(* Whatever is under way may be lost at any moment: by expiry, restarts,   *)
(* failures and refusals, or because it is used for something else.        *)
(***************************************************************************)
CONSTANTS Nonce, Address, User

VARIABLES
  made,      \* the challenges made so far
  asked,     \* <<n, a>>: challenge n is made for address a and may be signed
  signed,    \* <<n, a>>: and a has signed it
  good,      \* the challenges that can be redeemed
  proved,    \* <<n, a>>: a has redeemed n, its account is not looked at yet
  admitted,  \* <<n, u>>: the account, of u, was active
  sessions,  \* <<n, u>>: u got a session with n
  book,      \* <<a, u>>: address a leads to user u
  barred     \* the users who are suspended

underway == <<asked, signed, good, proved, admitted>>
vars == <<made, underway, sessions, book, barred>>

Init ==
  /\ made = {}
  /\ underway = <<{}, {}, {}, {}, {}>>
  /\ sessions = {}
  /\ book \subseteq Address \X User
  /\ \A p, q \in book : p[1] = q[1] => p = q
  /\ barred = {}

Make(n, a) ==
  /\ n \notin made
  /\ made' = made \cup {n}
  /\ asked' = asked \cup {<<n, a>>}
  /\ good' = good \cup {n}
  /\ UNCHANGED <<signed, proved, admitted, sessions, book, barred>>

Sign(n, a) ==
  /\ <<n, a>> \in asked
  /\ signed' = signed \cup {<<n, a>>}
  /\ UNCHANGED <<made, asked, good, proved, admitted, sessions, book, barred>>

\* What a redemption leaves of the challenge is forgotten, sooner or later.
Redeem(n, a) ==
  /\ <<n, a>> \in signed
  /\ n \in good
  /\ good' = good \ {n}
  /\ proved' = proved \cup {<<n, a>>}
  /\ asked' \subseteq asked
  /\ signed' \subseteq signed
  /\ UNCHANGED <<made, admitted, sessions, book, barred>>

\* An address that leads to nobody can be given to a user.
Known(a) == \E v \in User : <<a, v>> \in book
Write(a, u) == ~Known(a) /\ book' = book \cup {<<a, u>>}

\* Address a leads to user u, or does from now on.
Admit(n, a, u) ==
  /\ <<n, a>> \in proved
  /\ u \notin barred
  /\ \/ <<a, u>> \in book /\ UNCHANGED book
     \/ Write(a, u)
  /\ proved' = proved \ {<<n, a>>}
  /\ admitted' = admitted \cup {<<n, u>>}
  /\ UNCHANGED <<made, asked, signed, good, sessions, barred>>

Open(n, u) ==
  /\ <<n, u>> \in admitted
  /\ \A v \in User : <<n, v>> \notin sessions
  /\ admitted' = admitted \ {<<n, u>>}
  /\ sessions' = sessions \cup {<<n, u>>}
  /\ UNCHANGED <<made, asked, signed, good, proved, book, barred>>

Link(a, u) ==
  /\ Write(a, u)
  /\ UNCHANGED <<made, underway, sessions, barred>>

Bar(u) ==
  /\ barred' \in {barred \cup {u}, barred \ {u}}
  /\ UNCHANGED <<made, underway, sessions, book>>

Lose ==
  /\ asked' \subseteq asked
  /\ signed' \subseteq signed
  /\ good' \subseteq good
  /\ proved' \subseteq proved
  /\ admitted' \subseteq admitted
  /\ UNCHANGED <<made, sessions, book, barred>>

Next ==
  \/ \E n \in Nonce, a \in Address : Make(n, a) \/ Sign(n, a) \/ Redeem(n, a)
  \/ \E n \in Nonce, a \in Address, u \in User : Admit(n, a, u)
  \/ \E n \in Nonce, u \in User : Open(n, u)
  \/ \E a \in Address, u \in User : Link(a, u)
  \/ \E u \in User : Bar(u)
  \/ Lose

Spec == Init /\ [][Next]_vars
=============================================================================
