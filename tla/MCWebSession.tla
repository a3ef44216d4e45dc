---------------------------- MODULE MCWebSession ----------------------------
(***************************************************************************)
(* WebSession for TLC: two tabs, an administrator and a user who log in    *)
(* twice between them, on a clock of half seconds.                         *)
(***************************************************************************)
EXTENDS WebSession, TLC

\* One page of each kind: any account's own, the one with the form that links
\* a wallet, and the administrator's one that changes accounts.
OneOfAKind == {"/dashboard/wallets", "/admin/users"}

Symmetry == {p @@ q : p \in Permutations(Tab), q \in Permutations(Nonce)}
=============================================================================
