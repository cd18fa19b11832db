\* Every part ends where its input does.
CHECK_DEADLOCK FALSE
CONSTANTS
  Datas <- MCDatas
  Tables <- MCTables
  Filled <- MCFilled
  Codes = {183, 20013}
  PastEnd = {0, 65}
  OutMax = 8
  Texts <- MCTexts
  Codings = {0, 19, 21, 22}
  ChunkWidth = 2
  MaxLength = 16
  NameWidth = 2
  Items = {"a", "b"}
  NoItem = "none"
  FirstMax = 2
  MaxItems = 6
  Names = {"a", "b", "c"}
  Values = {"u", "v"}
  Chars = {"x", "y"}
  Before <- MCBefore
  MaxAttrs = 4
  MaxChars = 12
  Objects = {1, 2}
  Less <- MCLess
  Addresses = {1, 2, 3}
  Block = 4
  ReadBlock = 8
  WordMod = 16
  MaxMessage = 36
  LastYear = 2038
  Zones <- MCZones
  Summers <- MCSummers
  Hours <- MCHours
  Durations <- MCDurations
SPECIFICATION Spec
INVARIANTS
  ConversionRight ChunksRight DescriptionReadsBack BuffersSound ListSound DigestRight
  TimesSurvive TextsSound  CodesFound
PROPERTIES QueueIsFifo ConvertEnds CutEnds
