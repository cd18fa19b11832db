SPECIFICATION Spec
CONSTANTS
  SegmentLen = 4
  Chunks <- AllChunks
  MaxChunks = 3
  NameOrder <- Names
  WalkFrom = "root"
\* A caller appends no more and its walk ends.
CHECK_DEADLOCK FALSE
INVARIANTS
  WalkIsDepthFirst
