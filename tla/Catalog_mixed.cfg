SPECIFICATION Spec
CONSTANTS
  i1 = i1
  i2 = i2
  i3 = i3
  syn1 = syn1
  Null = Null
  Keep = Keep
  Order <- Three
  Fuzzy <- Similar
  Writers = {w1, w2}
  Walkers = {u1}
  Searchers = {s1}
  Names = {syn1, i3}
  Targets = {i1, i2}
  Writes <- Asked
  Starts <- Begin
  MaxLapses = 1
  w1 = w1
  w2 = w2
  u1 = u1
  s1 = s1
CHECK_DEADLOCK FALSE
INVARIANTS
  CyclesAreUnchecked
  StaleOnlyByRace
