---------------------------- MODULE MCBarOrders ----------------------------
(* Small instances of BarOrders for TLC: two orders, two ingredients, three *)
(* row ids of which r3 is free.                                             *)
EXTENDS BarOrdersLedger, TLC

CONSTANTS o1, o2, r1, r2, r3, i1, i2, nil

Req(i, n, lenient) == [ing |-> i, amount |-> n, lenient |-> lenient]

MCKind == [o \in Orders |-> IF o = o1 THEN "prepare" ELSE "batch-prepare"]
\* The stock covers either order, not both; the second line of o2 is optional.
MCRecipe == [o \in Orders |->
  IF o = o1 THEN <<Req(i1, 2, FALSE), Req(i2, 1, FALSE)>>
            ELSE <<Req(i1, 1, FALSE), Req(i2, 2, TRUE)>>]
MCInitIng == r1 :> i1 @@ r2 :> i2 @@ r3 :> nil
MCInitQty == r1 :> 2 @@ r2 :> 2 @@ r3 :> 0

\* No substitution: a row is used for its own ingredient only.
MCNoSubs == i1 :> {i1} @@ i2 :> {i2}
\* i2 is a kind of i1: a recipe that asks for i1 may be served from i2.
MCSubs == i1 :> {i1, i2} @@ i2 :> {i2}
MCSubRecipe == [o \in Orders |-> <<Req(i1, IF o = o1 THEN 3 ELSE 1, FALSE)>>]
=============================================================================
