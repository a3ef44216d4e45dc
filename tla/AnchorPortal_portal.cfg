\* An approved anchor with a key, an admin of it and a platform admin.
SPECIFICATION ReadySpec
CONSTANTS
  u1 = u1  u2 = u2  a1 = a1  a2 = a2  k1 = k1  None = None
  User = {u1, u2}  Admin = {u2}  Anchor = {a1, a2}  Key = {k1, k2}
  Page = {p1, p2}  Call = {c1, c2, c3}  MaxBegun = 3  MaxFailures = 1
SYMMETRY Symmetry
INVARIANTS TypeOK LogTells
PROPERTIES RefusalsHold RolesAreKept DecisionsStand ImplementsAuthority
