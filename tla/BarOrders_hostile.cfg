SPECIFICATION Spec
CONSTANTS
  o1 = o1  o2 = o2
  r1 = r1  r2 = r2  r3 = r3
  i1 = i1  i2 = i2
  nil = nil  Nil = nil
  Orders = {o1}
  Rows = {r1, r2, r3}
  Ingredients = {i1, i2}
  Supplies = {1}
  Kind <- MCKind
  Recipe <- MCSubRecipe
  Below <- MCSubs
  Subs <- MCSubs
  InitIng <- MCInitIng
  InitQty <- MCInitQty
  MaxErrors = 1
  MaxCrashes = 3
  MaxCancels = 2
  MaxUndos = 2
  MaxAdmin = 1
  MaxAge = 1
INVARIANT RemainingIsStock
INVARIANT FullyServed
INVARIANT UndoneOnce
INVARIANT TakenPerDelivery
CHECK_DEADLOCK FALSE
