SPECIFICATION FairSpec
CONSTANTS
  bulk1 = bulk1  bulk2 = bulk2  set2 = set2  add3 = add3
  order = order  undo = undo  merge = merge  move = move
  Txs = {bulk2, order, undo, move}
  Ingredients = {1, 2, 3}
  Request <- MCRequest
  InitStock <- MCInitStock
  MaxRows = 3
  Absent = Absent
  Nobody = Nobody
PROPERTY CommitsApply
PROPERTY AllEnd
CHECK_DEADLOCK FALSE
