\* convertDVBUTF8 returns: a converted text is the end.
CHECK_DEADLOCK FALSE
CONSTANTS
  Datas <- MCDatas
  Tables <- MCCodings
  Filled = {{}}
  Codes = {8364}
  PastEnd = {0}
  OutMax = 4095
SPECIFICATION ConvertSpec
PROPERTY TextsConverted
