SPECIFICATION Spec
CONSTANTS
  i1 = i1
  i2 = i2
  i3 = i3
  i4 = i4
  syn1 = syn1
  Null = Null
  None = Null
  Order <- Four
  Fuzzy <- Similar
  Inside <- Parted
  Rank <- Names4
  Scenes <- All
  MaxIterations = 5
  MaxLocal = 3
  MaxStock = 3
  MaxChanges = 1
CHECK_DEADLOCK FALSE
INVARIANTS
  RelativesRight
  PromisesKept
  FiltersAgree
  PagesAddUp
  AnswersFit
