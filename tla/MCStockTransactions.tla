------------------------ MODULE MCStockTransactions ------------------------
(* Small instances of StockTransactions for TLC: ingredients 1 and 2 are in *)
(* stock, 3 is known and not in stock.  Each run chooses its transactions.  *)
EXTENDS StockTransactions, TLC

CONSTANTS bulk1, bulk2, set2, add3, order, undo, merge, move

Of(i, n) == [ing |-> i, amount |-> n]
Ask(kind, items) == [kind |-> kind, items |-> items]

\* bulk1, bulk2 and the order ask for their items in crossing orders.
AllRequests ==
  bulk1 :> Ask("bulk-add", <<Of(2, 1), Of(1, 2)>>) @@
  bulk2 :> Ask("bulk-add", <<Of(1, 1), Of(3, 1), Of(2, 1)>>) @@
  set2  :> Ask("set", <<Of(2, 4)>>) @@
  add3  :> Ask("add", <<Of(3, 2)>>) @@
  order :> Ask("order", <<Of(2, 1), Of(1, 1), Of(2, 1)>>) @@
  undo  :> Ask("undo", <<Of(2, 1), Of(3, 1)>>) @@
  merge :> Ask("merge", <<Of(1, 0), Of(2, 0)>>) @@
  move  :> Ask("merge", <<Of(2, 0), Of(3, 0)>>)
MCRequest == [t \in Txs |-> AllRequests[t]]

MCInitStock == 1 :> 2 @@ 2 :> 3 @@ 3 :> Absent
=============================================================================
