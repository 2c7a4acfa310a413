SPECIFICATION Spec
CONSTANTS
  v = v
  j = j
  Digest = {v, j}
  None = None
  Sweeper = sweeper
  Core = {c1, c2}
  Upload = {u1, u2}
  Deleter = {d1}
  Reader = {}
  ThumbOf <- NoThumbs
  Request <- OneContent
  Faults = {}
  BatchLimit = 1
SYMMETRY Sym
INVARIANTS
  ObjectOutlivesFiles
