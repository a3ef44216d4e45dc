\* Overlapping calls of a user with two wallets, under fairness.
SPECIFICATION FairLinkedSpec
CONSTANTS
  u1 = u1  w1 = w1  w2 = w2  a1 = a1  a2 = a2  None = None
  User = {u1}  Wallet = {w1, w2}  Address = {a1, a2}  Call = {c1, c2, c3}
  MaxFailures = 0
PROPERTIES EveryCallReturns
