CONSTANTS
  Byte = 4
  Ulong = 4
  Vec = 4
  Blocks = {2, 4, 8}
  Span = 48
  Pending = Pending
  Calls <- MCCalls
  ShortSizes = {0, 3, 4, 7, 8}
  ShortHints = {0, 3, 6}
  LongSizes = {20, 35}
  LongNums = {1, 3, 6, 7, 15}
  LongHints = {0, 21}
  FillNums = {0, 11, 21, 28}
  Cuts = {0, 1, 7, 8, 11, 13, 16, 22, 26, 34, 36}
SPECIFICATION MCSpec
INVARIANTS TypeOK NothingMissed InsideBuffer OthersKept
PROPERTIES KeepsContract Returns
