CONSTANTS
  ntdll = ntdll
  ucrtbase = ucrtbase
  old = old
  new = new
  Absent = Absent
  NoFile = NoFile
  task = task
  person = person
  Dlls = {ntdll, ucrtbase}
  Versions = {old, new}
  NumChanges = 3
  NumLive = 2
  DllsOf <- TwoDllsOf
  Style <- HardStyle
  Wording <- Words
  NeedsAvx512 = {5}
  Avx512 = FALSE
  Flaky = {"crash", "hang"}
  MayBreak <- NewBreaks
  Runs = {task}
  ByHand = {}
  Unrecorded = FALSE
  MaxUpdates = 2
  MaxKills = 1
  MaxFixes = 1
  MaxRecords = 1
SPECIFICATION Spec
INVARIANTS TypeOK PassMeansRight BaselineProved
PROPERTY QuietIsProved
