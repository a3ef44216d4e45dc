--------------------------- MODULE MCConsentFlow ---------------------------
(* ConsentFlow on small instances.                                         *)
EXTENDS ConsentFlow, TLC

CONSTANTS a1, a2, u1, u2, p1, p2, r1, r2, k1

OneOwner  == p1 :> u1
TwoOwners == p1 :> u1 @@ p2 :> u2

\* The runs about what follows a request start in reachable states in which
\* the requests of the instance are filed already: the anchor was approved,
\* its calls came and went.
Filed(S, d, status) ==
  [anchor |-> a1, profile |-> p1, scopes |-> S, days |-> d, status |-> status]

FiledInit(requestRows, consentRows, entries) ==
  /\ now = 0
  /\ approved = {a1}
  /\ requests = requestRows
  /\ consents = consentRows
  /\ audit = entries
  /\ call = [c \in Call |-> Idle]
  /\ cron = "idle"
  /\ failures = 0

\* One pending request.
PendingInit ==
  FiledInit(r1 :> Filed(Scope, 1, "PENDING"),
            [k \in Consent |-> None],
            {Entry("ACCESS_REQUEST_CREATED", None, r1)})
PendingSpec     == PendingInit /\ [][Next]_vars
FairPendingSpec == PendingSpec /\ Fairness

\* Call slots are interchangeable names; consents and requests are where the
\* initial state names none, and so are the anchors; the two owners are, each
\* with the profile that is theirs.
ConsentSymmetry == Permutations(Call) \cup Permutations(Consent)
OwnerSwap       == u1 :> u2 @@ u2 :> u1 @@ p1 :> p2 @@ p2 :> p1
FullSymmetry    == ConsentSymmetry \cup Permutations(Request)
                     \cup Permutations(Anchor) \cup {OwnerSwap}
=============================================================================
