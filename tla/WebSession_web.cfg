\* Two tabs of one browser, an administrator and a user, two challenges.
CONSTANTS
  Second = 2
  ChallengeSeconds = 1
  Configured = FALSE
  User = {u1, u2}
  Admin = {u1}
  Nonce = {n1, n2}
  Tab = {t1, t2}
  Visited <- OneOfAKind
  AccessSeconds = 1
  RefreshSeconds = 1
  MaxTime = 3
  MaxFailures = 1
  None = None
SPECIFICATION Spec
INVARIANTS TypeOK NeverForbidden
PROPERTIES SuspensionBites WindowIsWhole ImplementsEntrance
SYMMETRY Symmetry
