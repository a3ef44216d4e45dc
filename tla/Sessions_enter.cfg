\* Two users, two addresses, two challenges, three tokens.
SPECIFICATION Spec
CONSTANTS
  None = None
  User = {u1, u2}  Address = {a1, a2}  Nonce = {n1, n2}
  Token = {t1, t2, t3}  Call = {c1, c2}  MaxFailures = 1
SYMMETRY Symmetry
INVARIANTS TypeOK SessionsAreProved InIsRecorded RotationReplaces
PROPERTIES SuspensionHolds ImplementsEntrance
