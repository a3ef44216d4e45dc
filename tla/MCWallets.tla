----------------------------- MODULE MCWallets -----------------------------
(* Wallets on small instances.                                             *)
EXTENDS Wallets, TLC

CONSTANTS u1, w1, w2, a1, a2

\* Users, wallets, addresses and call slots are interchangeable names.
Symmetry == Permutations(User) \cup Permutations(Wallet)
              \cup Permutations(Address) \cup Permutations(Call)

\* The run about locks starts when a user has registered and linked a second
\* wallet.
LinkedInit ==
  /\ users = {u1}
  /\ wallets = (w1 :> [user |-> u1, address |-> a1] @@
                w2 :> [user |-> u1, address |-> a2])
  /\ primary = {w1}
  /\ removed = {}
  /\ lock = [w \in Wallet |-> None]
  /\ call = [c \in Call |-> Idle]
  /\ raced = {}
  /\ failures = 0

FairLinkedSpec == LinkedInit /\ [][Next]_vars /\ Fairness
=============================================================================
