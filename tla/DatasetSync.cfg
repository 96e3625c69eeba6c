SPECIFICATION SyncSpec
CONSTANTS
  Groups <- AllGroups
  Owner = "o"
  Foreign = "x"
  Sheets <- FewSheets
  MaxSyncs <- Rounds
  MaxDays <- Dates
  MaxPrunes = 1
  MaxPurges = 1
INVARIANT GatesHideNothing
PROPERTIES StoredAsPlain EventsTell TablesHold
CHECK_DEADLOCK FALSE
