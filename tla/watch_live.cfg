CONSTANTS
  ntdll = ntdll
  ucrtbase = ucrtbase
  old = old
  new = new
  Absent = Absent
  NoFile = NoFile
  task = task
  person = person
  Dlls = {ntdll}
  Versions = {old, new}
  NumChanges = 1
  NumLive = 1
  DllsOf <- OneDllOf
  Style <- OneStyle
  Wording <- OneWords
  NeedsAvx512 = {}
  Avx512 = FALSE
  Flaky = {"crash", "hang", "nobuild"}
  MayBreak <- NewBreaks
  Runs = {task}
  ByHand = {}
  Unrecorded = FALSE
  MaxUpdates = 3
  MaxKills = 2
  MaxFixes = 1
  MaxRecords = 1
SPECIFICATION FairSpec
PROPERTIES ServicedIsSettled BrokenIsReported
