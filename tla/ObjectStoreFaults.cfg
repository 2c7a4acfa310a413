SPECIFICATION Spec
CONSTANTS
  v = v
  j = j
  Digest = {v, j}
  None = None
  Sweeper = sweeper
  Core = {c1, c2}
  Upload = {u1, u2}
  Deleter = {d1}
  Reader = {r1, r2}
  ThumbOf <- MCThumbOf
  Request <- VideoAndBurningFrame
  Faults = {"put", "erase", "insert", "sql", "cancel"}
  BatchLimit = 1
SYMMETRY Sym
INVARIANTS
  TypeOK
  ReferencesCounted
  ContentIntegrity
  BurnOnce
  RemovesWhatItLoaded
  OwnBytesStay
PROPERTIES
  EraseUnlisted
  KeepsVault
