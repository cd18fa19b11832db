SPECIFICATION Spec
CONSTANTS
  SegmentLen = 4
  Chunks <- AllChunks
  MaxChunks = 4
  NameOrder <- Names
  WalkFrom = "document"
\* A caller appends no more and its walk ends.
CHECK_DEADLOCK FALSE
INVARIANTS
  TypeOK
  BuilderFollowsParser
  TreeIsSound
  CutsDoNotMatter
  WalkIsDepthFirst
  HandlesCountRightly
  WritesReadBack
PROPERTIES
  WalkEnds
