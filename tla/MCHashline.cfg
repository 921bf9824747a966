SPECIFICATION PatchSpec
CONSTANTS
  Documents <- MCDocuments
  Patches <- MCPatches
  MaxSize = 3
  MaxLine = 4
  Rows = {0, 2}
  ChunksOfThree = TRUE
CHECK_DEADLOCK FALSE
INVARIANTS EarlierLinesInPlace AppliesAsWritten
