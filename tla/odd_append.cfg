CONSTANTS
  long = long
  short = short
  odd = odd
  ragged = ragged
  view = view
  Owned = {long, short, odd, ragged}
  Views = {view}
  Clean = {long, short, odd, ragged, view}
  Literals <- MCLiterals
  MaxOf <- MCMaxOf
  Guard = 6
  Word = 16
  Junk = 9
  MaxCalls = 4
SPECIFICATION Spec
INVARIANT InBounds
