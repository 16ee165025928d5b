SPECIFICATION Spec
CONSTANTS
  o1 = o1  o2 = o2
  r1 = r1  r2 = r2  r3 = r3
  i1 = i1  i2 = i2
  nil = nil  Nil = nil
  Orders = {o1, o2}
  Rows = {r1, r2, r3}
  Ingredients = {i1, i2}
  Supplies = {0, 1}
  Kind <- MCKind
  Recipe <- MCRecipe
  Below <- MCNoSubs
  Subs <- MCNoSubs
  InitIng <- MCInitIng
  InitQty <- MCInitQty
  MaxErrors = 1
  MaxCrashes = 0
  MaxCancels = 0
  MaxUndos = 2
  MaxAdmin = 2
  MaxAge = 2
INVARIANT TypeOK
INVARIANT StockAccounted
INVARIANT FailedTookNothing
PROPERTY ImplementsLedger
CHECK_DEADLOCK FALSE
