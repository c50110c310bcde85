CONSTANTS
  ntdll = ntdll
  ucrtbase = ucrtbase
  old = old
  new = new
  Absent = Absent
  NoFile = NoFile
  task = task
  person = person
  Dlls = {ntdll}
  Versions = {old, new}
  NumChanges = 1
  NumLive = 1
  DllsOf <- OneDllOf
  Style <- DropsStyle
  Wording <- DropsWords
  NeedsAvx512 = {}
  Avx512 = FALSE
  Flaky = {}
  MayBreak <- NewBreaks
  Runs = {task}
  ByHand = {}
  Unrecorded = FALSE
  MaxUpdates = 2
  MaxKills = 0
  MaxFixes = 0
  MaxRecords = 0
SPECIFICATION Spec
INVARIANT PassMeansRight
