SPECIFICATION Spec
CONSTANTS
  v = v
  j = j
  Digest = {v, j}
  None = None
  Sweeper = sweeper
  Core = {c1}
  Upload = {u1}
  Deleter = {}
  Reader = {r1}
  ThumbOf <- NoThumbs
  Request <- BurnAndPlain
  Faults = {"erase"}
  BatchLimit = 1
SYMMETRY Sym
PROPERTIES
  RemovedIsDelivered
