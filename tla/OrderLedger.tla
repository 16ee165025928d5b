---------------------------- MODULE OrderLedger ----------------------------
(***************************************************************************)
(* What the order pipeline promises (use cases 4.1, 4.4, 4.12 and 4.17 of  *)
(* docs/product/use-cases/cocktail-preparation.md): an order is served in  *)
(* one step that takes its ingredients from the shared stock, or refused   *)
(* without an effect, and an undo gives back exactly what was taken, on    *)
(* top of whatever admins did meanwhile.                                   *)
(***************************************************************************)
EXTENDS Integers

CONSTANTS
  Orders,
  Ingredients,
  Servings      \* [Orders -> set of functions [Ingredients -> Nat]]

VARIABLES
  state,        \* [Orders -> {"none", "open", "served", "refused", "undone"}]
  took,         \* [Orders -> [Ingredients -> Nat]]: taken and not given back
  stock,        \* [Ingredients -> Int]
  supplied      \* [Ingredients -> Int]: net effect of the admins

vars == <<state, took, stock, supplied>>

Nothing == [i \in Ingredients |-> 0]

Init ==
  /\ state = [o \in Orders |-> "none"]
  /\ took = [o \in Orders |-> Nothing]
  /\ stock \in [Ingredients -> Nat]
  /\ supplied = Nothing

Place(o) ==
  /\ state[o] = "none"
  /\ state' = [state EXCEPT ![o] = "open"]
  /\ UNCHANGED <<took, stock, supplied>>

\* All ingredients of one of the order's servings leave the stock at once.
Serve(o) ==
  /\ state[o] = "open"
  /\ \E d \in Servings[o] :
       /\ \A i \in Ingredients : d[i] <= stock[i]
       /\ took' = [took EXCEPT ![o] = d]
       /\ stock' = [i \in Ingredients |-> stock[i] - d[i]]
  /\ state' = [state EXCEPT ![o] = "served"]
  /\ UNCHANGED supplied

Refuse(o) ==
  /\ state[o] = "open"
  /\ state' = [state EXCEPT ![o] = "refused"]
  /\ UNCHANGED <<took, stock, supplied>>

GiveBack(o) ==
  /\ state[o] = "served"
  /\ state' = [state EXCEPT ![o] = "undone"]
  /\ stock' = [i \in Ingredients |-> stock[i] + took[o][i]]
  /\ took' = [took EXCEPT ![o] = Nothing]
  /\ UNCHANGED supplied

\* An admin puts stock in, corrects it or takes it away.
Supply ==
  /\ supplied' \in [Ingredients -> Int]
  /\ stock' = [i \in Ingredients |-> stock[i] + supplied'[i] - supplied[i]]
  /\ \A i \in Ingredients : stock'[i] >= 0
  /\ UNCHANGED <<state, took>>

Next == Supply \/ \E o \in Orders : Place(o) \/ Serve(o) \/ Refuse(o) \/ GiveBack(o)

Spec == Init /\ [][Next]_vars
=============================================================================
