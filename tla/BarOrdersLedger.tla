-------------------------- MODULE BarOrdersLedger --------------------------
(***************************************************************************)
(* The refinement mapping from the order pipeline to OrderLedger: the      *)
(* state of an order is read off its log, what it took off the deductions  *)
(* its log records, and the stock off the rows of each ingredient.         *)
(***************************************************************************)
EXTENDS BarOrders

\* What an order may take: the sums of its lines, lenient ones at will.
ServingsOf(o) == {[i \in Ingredients |-> Asked(o, S, i)] : S \in Servable(o)}

LedgerState(o) ==
  CASE log[o].status = "none" -> "none"
    [] log[o].status \in Failed \cup {"cancelled"} -> "refused"
    [] Live(o) -> "served"
    [] log[o].status = "completed" /\ log[o].undone -> "undone"
    [] OTHER -> "open"

Ledger == INSTANCE OrderLedger WITH
  Servings <- [o \in Orders |-> ServingsOf(o)],
  state <- [o \in Orders |-> LedgerState(o)],
  took <- [o \in Orders |-> [i \in Ingredients |-> IF Live(o) THEN Recorded(o, i) ELSE 0]],
  stock <- [i \in Ingredients |-> Total(qty, {r \in Rows : ing[r] = i})]

\* Orders are served, refused and undone atomically and exactly, with admins
\* at work in between.
ImplementsLedger == Ledger!Spec
=============================================================================
