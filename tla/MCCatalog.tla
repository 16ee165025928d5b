------------------------------ MODULE MCCatalog ------------------------------
(***************************************************************************)
(* Small instances of Catalog: three ingredients in every forest, one of    *)
(* them with a synonym, or two and one to be created.                       *)
(***************************************************************************)
EXTENDS Catalog

CONSTANTS i1, i2, i3, syn1, w1, w2, u1, s1
Three == <<i1, i2, i3>>
Row(i, p) == [parent |-> p, unit |-> "ml", syn |-> IF i = i2 THEN <<syn1>> ELSE <<>>]
Forests ==
  {t \in [Ids -> {Null} \cup {Row(i, p) : i \in Ids, p \in Ids \cup {Null}}] :
     /\ \A i \in Ids : t[i] # Null => t[i] \in {Row(i, p) : p \in Present(t) \cup {Null}}
     /\ {i1, i2} \subseteq Present(t)
     /\ Acyclic(t)}
Similar == [n \in Ids \cup {syn1} |-> IF n = i3 THEN [id |-> i1, score |-> 70] ELSE Null]
Asked == {[parent |-> p, unit |-> Keep] : p \in Ids \cup {Null}} \cup {[parent |-> Keep, unit |-> "g"]}
\* Two requests over any forest, three over two ingredients without parents.
Flat == [i \in Ids |-> IF i = i3 THEN Null ELSE Row(i, Null)]
Begin == [rows : Forests, cast : {{w1, w2}, {w1, u1}, {w1, s1}}] \cup [rows : {Flat}, cast : {{w1, w2, u1}}]
=============================================================================
