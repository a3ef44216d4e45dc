\* Violated: DeniedHasNoGrant.
SPECIFICATION PendingSpec
CONSTANTS
  a1 = a1  a2 = a2  u1 = u1  u2 = u2  p1 = p1  p2 = p2  r1 = r1  r2 = r2  k1 = k1
  None = None
  Anchor = {a1}  User = {u1}  Profile = {p1}  Owner <- OneOwner
  Scope = {"profile.name", "credential.kyc_level"}
  CredentialScope = {"credential.kyc_level"}
  ExpiryDays = {1}  Request = {r1}  Consent = {k1}  Call = {c1, c2}
  MaxTime = 0  MaxFailures = 0
INVARIANTS DeniedHasNoGrant
