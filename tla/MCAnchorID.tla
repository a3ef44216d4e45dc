----------------------------- MODULE MCAnchorID -----------------------------
(* AnchorID on a small instance.                                           *)
EXTENDS AnchorID, TLC

CONSTANTS u1, a1, k1, p1, r1, r2, g1, g2, n1, v1

OneOwner == p1 :> u1

\* Three reachable states of an approved anchor with a key and of a user with a
\* profile.  In two the anchor has filed a request a day ago, which was denied,
\* the profile is verified, and there is room for two calls at the portal, or
\* for a failure.  In the third two requests were granted, one a day ago and
\* one just now, and there is room for two calls about the profile.
Row(S, status) ==
  [anchor |-> a1, profile |-> p1, scopes |-> S, days |-> 2, status |-> status]
Old == [x \in Column |-> v1]

Denied ==
  /\ requests = r1 :> Row({"profile.name"}, "DENIED") @@ [r \in Request |-> None]
  /\ consents = [k \in Consent |-> None]
  /\ audit = {Consents!Entry("ACCESS_REQUEST_CREATED", None, r1),
              Consents!Entry("ACCESS_REQUEST_DENIED", u1, r1)}

Grant(r, scope, end) ==
  [request |-> r, user |-> u1, profile |-> p1, anchor |-> a1,
   scopes |-> {scope}, expiresAt |-> end, status |-> "ACTIVE"]

Granted ==
  /\ requests = r1 :> Row({"profile.name"}, "APPROVED")
                @@ r2 :> Row({"credential.kyc_level"}, "APPROVED")
  /\ consents = g1 :> Grant(r1, "profile.name", 2)
                @@ g2 :> Grant(r2, "credential.kyc_level", 3)
  /\ audit = {Consents!Entry("ACCESS_REQUEST_CREATED", None, r) : r \in {r1, r2}}
            \cup {Consents!Entry("ACCESS_REQUEST_APPROVED", u1, r) : r \in {r1, r2}}
            \cup {Consents!Entry("CONSENT_GRANTED", u1, g) : g \in {g1, g2}}

Verified ==
  /\ verifications = [v \in Verification |->
                        IF v = n1 THEN [profile |-> p1, status |-> "APPROVED"] ELSE None]
  /\ credentials = [v \in Verification |->
                      IF v = n1 THEN [profile |-> p1, verification |-> n1] ELSE None]
  /\ identityLog = [t \in Identity!Thing |->
                      IF t = p1 THEN "VERIFICATION_UPDATED" ELSE None]

Unverified ==
  /\ verifications = [v \in Verification |-> None]
  /\ credentials = [v \in Verification |-> None]
  /\ identityLog = [t \in Identity!Thing |->
                      IF t = p1 THEN "IDENTITY_CREATED" ELSE None]

\* How much of the bounds is spent: what came and went before is not repeated.
Spent(time, portal, identity, failed) ==
  /\ now = time
  /\ portalBegun = portal
  /\ identityBegun = identity
  /\ portalFailures = failed
  /\ grantFailures = failed
  /\ identityFailures = failed

ReadyInit ==
  /\ \/ Denied /\ Verified /\ Spent(2, 0, 1, 1)
     \/ Denied /\ Verified /\ Spent(2, 1, 1, 0)
     \/ Granted /\ Unverified /\ Spent(1, 1, 0, 1)
  /\ anchors = [a \in Anchor |-> [status |-> "APPROVED", approvedBy |-> u1]]
  /\ members = [m \in Anchor \X User |-> [role |-> "ANCHOR_ADMIN", deleted |-> FALSE]]
  /\ keys = (k1 :> [anchor |-> a1, revoked |-> FALSE] @@ [k \in Key |-> None])
  /\ secrets = {k1}
  /\ filed = {k1}
  /\ readWith = {}
  /\ portalLog = (a1 :> [says |-> "APPROVED", by |-> u1] @@ k1 :> [says |-> "CREATED"]
                  @@ [t \in Portal!Thing |-> None])
  /\ shown = [p \in Page |-> [a \in Anchor |-> "APPROVED"]]
  /\ portalCall = [c \in Call |-> Portal!Idle]
  /\ disturbed = {}
  /\ grantCall = [c \in Call |-> Consents!Idle]
  /\ cron = "idle"
  /\ profiles = [p \in Profile |-> [user |-> u1, values |-> Old]]
  /\ stored = [d \in Doc |-> None]
  /\ docs = [d \in Doc |-> None]
  /\ form = [t \in Tab |-> [user |-> u1, existing |-> TRUE, values |-> Old]]
  /\ identityCall = [c \in Call |-> Identity!Idle]
  /\ edited = [u \in User |-> Old]
  /\ crossed = {}

ReadySpec == ReadyInit /\ [][Next]_vars

Symmetry == Permutations(Call)

\* The logs and the history variables of the parts are read by no action and
\* by no property checked here, so states that differ in them alone are one.
Watched ==
  <<anchors, members, keys, secrets, filed, readWith, shown, portalCall,
    portalBegun, portalFailures, now, requests, consents, grantCall, cron,
    grantFailures, profiles, stored, docs, verifications, credentials, form,
    identityCall, identityBegun, identityFailures>>
=============================================================================
