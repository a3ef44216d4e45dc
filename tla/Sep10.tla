-------------------------------- MODULE Sep10 --------------------------------
(***************************************************************************)
(* The challenge transaction of a login (packages/stellar/src/sep10.ts and *)
(* StellarService): what the server puts into it and signs, and what it    *)
(* looks at when the transaction comes back.                               *)
(*                                                                         *)
(* Time is counted in ticks; the transaction's bounds are whole seconds.   *)
(* The envelope, its second operation and the home domain, which is the    *)
(* same for all challenges of a deployment, are left out.                  *)
(***************************************************************************)
EXTENDS Integers

CONSTANTS
  Second,            \* ticks in a second
  ChallengeSeconds,  \* timeoutSeconds of a challenge: 300 in the code
  Configured         \* whether a secret key of the server is configured

ASSUME SecondAssumption == Second \in Nat \ {0}
ASSUME ChallengeAssumption == ChallengeSeconds \in Nat \ {0}
ASSUME ConfiguredAssumption == Configured \in BOOLEAN

Seconds(t) == t \div Second

\* The key pair of the process's boot-th start: the configured one, or one
\* made at random.
ServerKey(boot) == IF Configured THEN 0 ELSE boot

\* minTime is 0.
BuildChallenge(client, key, now) ==
  [source |-> key, client |-> client,
   maxTime |-> Seconds(now) + ChallengeSeconds]

\* Mutant: the last second is left out.
VerifyBefore(tx, signer, client, key, now) ==
  /\ tx.source = key
  /\ Seconds(now) < tx.maxTime
  /\ tx.client = client
  /\ signer = client

\* The checks in the code's order; the first that fails gives the reason of
\* the refusal.  A transaction that comes back is one that was built, so it is
\* well-formed, has a time bound and its server's signature.
VerifyChallenge(tx, signer, client, key, now) ==
  /\ tx.source = key
  /\ Seconds(now) <= tx.maxTime
  /\ tx.client = client
  /\ signer = client
=============================================================================
