\* Two users, three addresses, three calls in any order.
SPECIFICATION Spec
CONSTANTS
  u1 = u1  w1 = w1  w2 = w2  a1 = a1  a2 = a2  None = None
  User = {u1, u2}  Wallet = {w1, w2, w3}  Address = {a1, a2, a3}  Call = {c1, c2, c3}
  MaxFailures = 1
SYMMETRY Symmetry
INVARIANTS TypeOK OneWalletPerAddress OneLinkedPrimary
PROPERTIES ImplementsAddressBook
