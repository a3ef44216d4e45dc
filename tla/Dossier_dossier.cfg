\* From an empty database: two tabs, four calls, two at once.
SPECIFICATION Spec
CONSTANTS
  None = None
  User = {u1}  Profile = {p1, p2}  Column = {"lastName", "address"}
  Value = {v1, v2}  Doc = {d1}  File <- Files  Verification = {n1, n2}
  Scope = {"profile.name", "credential.kyc_level"}
  Tab = {t1, t2}  Call = {c1, c2}  MaxBegun = 4  MaxFailures = 1
SYMMETRY Symmetry
INVARIANTS TypeOK ProfileIsAsSaved DocumentsAreStored CredentialsAreVerified ServedIsTrue ReviewIsLogged
