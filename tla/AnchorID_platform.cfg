SPECIFICATION ReadySpec
CONSTANTS
  u1 = u1  a1 = a1  k1 = k1  p1 = p1  r1 = r1  r2 = r2  g1 = g1  g2 = g2  n1 = n1  v1 = v1
  None = None
  User = {u1}  Admin = {u1}  Anchor = {a1}  Key = {k1}  Page = {b1}
  Profile = {p1}  Owner <- OneOwner  Scope = {"profile.name", "credential.kyc_level"}
  ExpiryDays = {2}  Request = {r1, r2}  Consent = {g1, g2}
  Column = {"lastName", "address"}  Value = {v1, v2}  Doc = {}  File = {}
  Verification = {n1}  Tab = {t1}
  Call = {c1, c2}  MaxTime = 2  MaxBegun = 2  MaxFailures = 1
SYMMETRY Symmetry
INVARIANTS AnswersAreGranted
VIEW Watched
