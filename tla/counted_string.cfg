CONSTANTS
  long = long
  short = short
  odd = odd
  ragged = ragged
  view = view
  Owned = {long, short, odd, ragged}
  Views = {view}
  Clean = {long, short, view}
  Literals <- MCLiterals
  MaxOf <- MCMaxOf
  Guard = 6
  Word = 16
  Junk = 9
  MaxCalls = 4
  ctx1 = ctx1
  ctx2 = ctx2
  Idle = Idle
  Requests <- MCRequests
  Contexts = {ctx1, ctx2}
  Arrays <- MCArrays
  Memories <- MCMemories
  Block = 4
  Page = 8
  Truncate = 99
  MaxAsked = 4
SPECIFICATION MCSpec
INVARIANTS TypeOK InBounds ReadsBack
INVARIANTS CrtTypeOK LoadsAllowed RefusedIsEmpty LiveContextEnds RestIntact
PROPERTIES KeepsText CrtImplements
