CONSTANTS
  ntdll = ntdll
  ucrtbase = ucrtbase
  old = old
  new = new
  Absent = Absent
  NoFile = NoFile
  task = task
  person = person
  Dlls = {ntdll}
  Versions = {old, new}
  NumChanges = 1
  NumLive = 1
  DllsOf <- OneDllOf
  Style <- OneStyle
  Wording <- OneWords
  NeedsAvx512 = {}
  Avx512 = FALSE
  Flaky = {}
  MayBreak <- NewBreaks
  Runs = {task, person}
  ByHand = {person}
  Unrecorded = FALSE
  MaxUpdates = 2
  MaxKills = 1
  MaxFixes = 1
  MaxRecords = 0
SPECIFICATION Spec

PROPERTIES AlertIsSticky QuietIsProved
