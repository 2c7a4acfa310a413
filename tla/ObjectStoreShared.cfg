SPECIFICATION Spec
CONSTANTS
  v = v
  j = j
  Digest = {v, j}
  None = None
  Sweeper = sweeper
  Core = {c1, c2, c3}
  Upload = {u1, u2, u3}
  Deleter = {d1, d2}
  Reader = {}
  ThumbOf <- MCThumbOf
  Request <- VideoAndFrame
  Faults = {"insert"}
  BatchLimit = 2
SYMMETRY Sym
INVARIANTS
  BytesBehindRows
  NothingLeftBehind
