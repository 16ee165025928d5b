SPECIFICATION FairSpec
CONSTANTS
  o1 = o1  o2 = o2
  r1 = r1  r2 = r2  r3 = r3
  i1 = i1  i2 = i2
  nil = nil  Nil = nil
  Orders = {o1, o2}
  Rows = {r1, r2, r3}
  Ingredients = {i1, i2}
  Supplies = {1}
  Kind <- MCKind
  Recipe <- MCRecipe
  Below <- MCNoSubs
  Subs <- MCNoSubs
  InitIng <- MCInitIng
  InitQty <- MCInitQty
  MaxErrors = 0
  MaxCrashes = 0
  MaxCancels = 1
  MaxUndos = 2
  MaxAdmin = 1
  MaxAge = 1
PROPERTY OrdersSettle
PROPERTY QueueDrains
CHECK_DEADLOCK FALSE
