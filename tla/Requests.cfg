\* The parts of MCRequests, with the fairness of the tasks.
SPECIFICATION Spec
\* A part ends when its requests are answered.
CHECK_DEADLOCK FALSE
CONSTANTS
  None = None
  Holder = {a1} Link = {l1, l2} Poster = {x1, x2}
  Member = {a1} Role = {1, 2} Group = {g} Priority = {0, 1} Login = {r1, r2} Post = {p1}
  Core = {c1} Author = {u1} Visitor = {v1, v2} Note = {n1}
  Item = {i1, i2, i3} Title = {t1} Caller = {h1, h2} Top = 2
  Pieces = 5 PipeDepth = 1 Concurrency = 2
  Longest = 5 Chunk = 2 Single = 2 Magic = 1 Header = 2 Tag = 1
  Editor = {e1, e2} Amount = {0, 1, 2}
  Items = 4 PerPage = 1 Removals = 1
  Uploader = {h1, h2} Files = 2 Quota = {1, 3} FileCap = {1, 3} AnonCap = 2 Piece = {1, 2}
  LongestLife = 3
  Filler = {f1, f2, f3} Cleaner = {d1} Mishaps = 1
INVARIANTS
  TypeOK BurnOnce CommentsKeepTheirSubject LockedForStrangers
  StoredWhole PartsEndFirst SentPrefix EndsWhole ConfigValid FeedComplete LifetimeInLimits ThumbnailOnce
PROPERTIES ResetSupersedes KeepsCores KeepsList RolesSticky QuotaKept TasksEnd CapFollows
