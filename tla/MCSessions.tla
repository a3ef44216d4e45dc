---------------------------- MODULE MCSessions -----------------------------
(* Sessions on small instances.                                            *)
EXTENDS Sessions, TLC

\* Users, addresses, nonces, tokens and call slots are interchangeable names.
Symmetry == Permutations(User) \cup Permutations(Address)
              \cup Permutations(Nonce) \cup Permutations(Token)
              \cup Permutations(Call)
=============================================================================
