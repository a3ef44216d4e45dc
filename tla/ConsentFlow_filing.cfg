\* From an empty database: two anchors, two owners, a request filed and resolved
\* by whoever tries, three calls at once.
SPECIFICATION Spec
CONSTANTS
  a1 = a1  a2 = a2  u1 = u1  u2 = u2  p1 = p1  p2 = p2  r1 = r1  r2 = r2  k1 = k1
  None = None
  Anchor = {a1, a2}  User = {u1, u2}  Profile = {p1, p2}  Owner <- TwoOwners
  Scope = {"profile.name"}
  CredentialScope = {}
  ExpiryDays = {1}  Request = {r1}  Consent = {k1, k2}  Call = {c1, c2, c3}
  MaxTime = 0  MaxFailures = 1
SYMMETRY FullSymmetry
INVARIANTS TypeOK GrantMatchesRequest OneGrantPerRequest
