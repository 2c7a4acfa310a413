SPECIFICATION GCSpec
CONSTANTS
  v = v
  j = j
  Digest = {v, j}
  None = None
  Sweeper = sweeper
  Core = {c1, c2}
  Upload = {u1, u2}
  Deleter = {}
  Reader = {}
  ThumbOf <- NoThumbs
  Request <- Plain
  Faults = {"put", "erase", "insert", "sql", "cancel"}
  BatchLimit = 1
  User = {a}
  Ext = {png, jpg}
  Painter = {p1}
SYMMETRY Sym
INVARIANTS
  ReclaimsUncounted
  LeavesClean
  AvatarStored
