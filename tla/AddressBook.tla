----------------------------- MODULE AddressBook -----------------------------
(***************************************************************************)
(* What the wallets promise to whoever logs in, and what a login promises  *)
(* to the wallets: a book of addresses.  An address leads to one user and  *)
(* never to another, not even once it is unlinked, which is for good; a    *)
(* user enters the book with an address of its own, in one step; nobody    *)
(* who is in it drops out.                                                 *)
(***************************************************************************)
CONSTANTS Address, User

VARIABLES
  member,   \* the users there are
  book,     \* <<a, u>>: address a leads to user u
  unlinked  \* the addresses whose user has removed them

vars == <<member, book, unlinked>>

Init == member = {} /\ book = {} /\ unlinked = {}

Write(a, u) == /\ \A v \in User : <<a, v>> \notin book
               /\ book' = book \cup {<<a, u>>}

\* A first login.
Register(a, u) == /\ u \notin member
                  /\ Write(a, u)
                  /\ member' = member \cup {u}
                  /\ UNCHANGED unlinked

Link(a, u) == /\ u \in member
              /\ Write(a, u)
              /\ UNCHANGED <<member, unlinked>>

Unlink(a, u) == /\ <<a, u>> \in book
                /\ unlinked' = unlinked \cup {a}
                /\ UNCHANGED <<member, book>>

Next == \E a \in Address, u \in User : Register(a, u) \/ Link(a, u) \/ Unlink(a, u)

Spec == Init /\ [][Next]_vars
=============================================================================
