SPECIFICATION Spec
CONSTANTS
  User = {u1}
  Client = {c1, c2}
  p1 = p1
  p2 = p2
  blank = blank
  Password <- MCPassword
  Trim <- MCTrim
  Empty = Empty
  Secret = {s1, s2, s3}
  Caller = {r1, r2}
  MaxHashes = 2
  None = None
SYMMETRY Symmetry
INVARIANTS TypeOK PasswordIsHashedOnce
PROPERTIES ClientSecretStays ConsentsAreKept
