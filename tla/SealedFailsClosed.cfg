\* One download at a time, of objects of five bytes at most.
SPECIFICATION ReadsSpec
\* A download ends.
CHECK_DEADLOCK FALSE
CONSTANTS
  None = None
  Longest = 5 Chunk = 2 Single = 2 Magic = 1 Header = 2 Tag = 1
INVARIANT FailsClosed
