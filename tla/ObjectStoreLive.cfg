SPECIFICATION FairSpec
CONSTANTS
  v = v
  j = j
  Digest = {v, j}
  None = None
  Sweeper = sweeper
  Core = {c1, c2}
  Upload = {u1, u2}
  Deleter = {d1}
  Reader = {r1}
  ThumbOf <- MCThumbOf
  Request <- VideoAndBurningFrame
  Faults = {"put", "erase"}
  BatchLimit = 1
PROPERTIES
  ExpiredIsSwept
  HandlersFinish
