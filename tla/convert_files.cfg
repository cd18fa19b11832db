SPECIFICATION FileSpec
CONSTANTS
  LenMod = 16
  RefMod = 3
  ChunkWidth = 3
  Keys = {1, 9}
  InvalidKey = 9
  Stamps = {"t1"}
  TimeOf <- MCTimeOf
  Times = {1, 2}
  IdMod = 4
  FileIds = {1, 3}
  XmlIds = {}
  Channels = {}
  Names = {}
  Titles = {}
  Descs = {}
  V5Data <- MCV5Data
  Statuses = {0, 2, 3}
  Beyond <- MCBeyond
  V7Data <- MCV7Data
  TableIds <- MCTableIds
  TableBytes <- MCTableBytes
  TableCounts = {1}
  TableFiles <- FileTables
  Formats = {"V5", "V7"}
  MaxItems = 2
  MaxEvents = 2
INVARIANTS
  MapsAgree
  TargetCountsExact
PROPERTIES
  ConversionKeepsPromise
CHECK_DEADLOCK FALSE
