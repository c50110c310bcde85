CONSTANTS
  Size = 25
  Byte <- MCByte
  Zero = 0
  W = 4
  Widths <- MCWidths
  Erms = 18
  MaxRoom = 3
  MaxLen = 20
  Subjects <- MCSubjects
  Sizes = {0, 1, 2, 3, 4, 6}
  Names <- MCNames
  Values <- MCValues
  Lane = 4
  Aligns = {0, 3}
  Room = 8
  Untouched = Untouched
  Pending = Pending
  None = None
  MaxExpands = 2
  MaxChanges = 1
  Queries <- MCQueries
  Bits = 2
  Undecided = Undecided
  MaxExpr = 3
  MaxName = 4
  MaxGreedy = 4
SPECIFICATION MCSpec
INVARIANTS TypeOK CopiesAsMemmove OutsideUntouched
INVARIANTS ExpandTypeOK InsideSize WholeOrTooLong AnswerIgnoresSize
INVARIANTS NameTypeOK NothingLost
PROPERTIES ExpandImplements DecidesRight
