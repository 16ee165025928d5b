SPECIFICATION Spec
CONSTANTS
  bulk1 = bulk1  bulk2 = bulk2  set2 = set2  add3 = add3
  order = order  undo = undo  merge = merge  move = move
  Txs = {bulk1, order}
  Ingredients = {1, 2, 3}
  Request <- MCRequest
  InitStock <- MCInitStock
  MaxRows = 3
  Absent = Absent
  Nobody = Nobody
INVARIANT NoDeadlock
CHECK_DEADLOCK FALSE
