---------------------------- MODULE ConsentLedger ----------------------------
(***************************************************************************)
(* What the consent subsystem promises, without tables, statements or      *)
(* calls in pieces: a ledger of grants.  A grant is entered once, on one   *)
(* account (an anchor's standing with a profile), is over once and for     *)
(* all, and is never struck out.  A reader of an account answers with      *)
(* grants of that account only, with none that was over when it opened,    *)
(* and with all those that were in force the whole time.                   *)
(***************************************************************************)
CONSTANTS Account, Grant, Reader, None

VARIABLES
  account,   \* account[g]: the account grant g is on, None before it is entered
  over,      \* the grants that no longer count
  reader     \* reader[c]: None, or what an open reader saw and selected

vars == <<account, over, reader>>

OnAccount(x) == {g \in Grant : account[g] = x}

\* The book may hold entries from before.
Init == /\ account \in [Grant -> Account \cup {None}]
        /\ over \subseteq {g \in Grant : account[g] # None}
        /\ reader = [c \in Reader |-> None]

\* A grant's term starts when the approval reads the clock, so one that is
\* entered late enough is over when it is entered.
Enter(g, x) == /\ account[g] = None
               /\ account' = [account EXCEPT ![g] = x]
               /\ over' \in {over, over \cup {g}}
               /\ UNCHANGED reader

\* Revocation ends one grant; the clock and the hourly job may end many.
End(G) == /\ G # {}
          /\ G \subseteq {g \in Grant : account[g] # None} \ over
          /\ over' = over \cup G
          /\ UNCHANGED <<account, reader>>

Open(c, x) ==
  /\ reader' = [reader EXCEPT ![c] =
       [account |-> x, barred |-> OnAccount(x) \cap over,
        owed |-> OnAccount(x) \ over, selected |-> {}]]
  /\ UNCHANGED <<account, over>>

Select(c, G) ==
  /\ reader[c] # None
  /\ reader[c].selected = {}
  /\ G # {}
  /\ G \subseteq OnAccount(reader[c].account) \ reader[c].barred
  /\ reader[c].owed \ over \subseteq G
  /\ reader' = [reader EXCEPT ![c].selected = G]
  /\ UNCHANGED <<account, over>>

\* An answer, a refusal or a failure.
Close(c) == /\ reader[c] # None
            /\ reader' = [reader EXCEPT ![c] = None]
            /\ UNCHANGED <<account, over>>

Next == \/ \E g \in Grant, x \in Account : Enter(g, x)
        \/ \E G \in SUBSET Grant : End(G)
        \/ \E c \in Reader :
             \/ \E x \in Account : Open(c, x)
             \/ \E G \in SUBSET Grant : Select(c, G)
             \/ Close(c)

Spec == Init /\ [][Next]_vars
=============================================================================
