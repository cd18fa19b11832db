SPECIFICATION FileSpec
CONSTANTS
  LenMod = 16
  RefMod = 3
  ChunkWidth = 3
  Keys = {1, 2, 9}
  InvalidKey = 9
  Stamps = {"t1", "t1 +0800", "t2"}
  TimeOf <- MCTimeOf
  Times = {}
  IdMod = 4
  FileIds = {}
  XmlIds <- MCXmlIds
  Channels = {1, 2}
  Names <- MCNames
  Titles <- MCTitles
  Descs <- MCDescs
  V5Data = {}
  Statuses = {}
  Beyond = {}
  V7Data = {}
  TableIds = {}
  TableBytes = {}
  TableCounts = {}
  TableFiles <- XmlTables
  Formats = {"XMLTV"}
  MaxItems = 3
  MaxEvents = 0
INVARIANT
  TsonidChannelStored
CHECK_DEADLOCK FALSE
