SPECIFICATION GCSpec
CONSTANTS
  v = v
  j = j
  Digest = {v, j}
  None = None
  Sweeper = sweeper
  Core = {c1}
  Upload = {}
  Deleter = {}
  Reader = {}
  ThumbOf <- NoThumbs
  Request <- Plain
  Faults = {}
  BatchLimit = 1
  User = {a}
  Ext = {png}
  Painter = {p1}
INVARIANT
  ReclaimsUnreferenced
