CONSTANTS
  NumTargets = 3
  StubLen = 2
  SaveLen = 3
  Size = 9
  Layouts <- AlignedLayouts
  Calls = 2
  MaxNested = 2
SPECIFICATION Spec
INVARIANTS TypeOK PassIsHonest CleanWhenDone NeverTorn
PROPERTY KeepsPromise
