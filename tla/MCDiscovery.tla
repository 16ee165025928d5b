----------------------------- MODULE MCDiscovery -----------------------------
(***************************************************************************)
(* Small instances of Discovery: every table of four ingredients, cycles    *)
(* included; every recipe of up to two lines over one table and every stock *)
(* it can be made from; pairs of searches; every list of verdicts.          *)
(***************************************************************************)
EXTENDS Discovery

CONSTANTS i1, i2, i3, i4, syn1
Four == <<i1, i2, i3, i4>>
Row4(p, unit, convertible) ==
  [parent |-> p, unit |-> unit, syn |-> <<>>, massVolume |-> convertible, density |-> 100]
\* A parent with a child that has a synonym, one by weight, one by number.
Bar == [i \in Ids |-> CASE i = i1 -> Row4(Null, "cl", FALSE)
                        [] i = i2 -> [Row4(i1, "cl", FALSE) EXCEPT !.syn = <<syn1>>]
                        [] i = i3 -> Row4(Null, "cl", TRUE)
                        [] i = i4 -> Row4(Null, "count", FALSE)]
Similar == [n \in Ids \cup {syn1} |-> IF n = syn1 THEN [id |-> i2, score |-> 70] ELSE Null]
Parted == {<<n, n>> : n \in Ids \cup {syn1}} \cup {<<i3, i4>>, <<"t", "two">>, <<"t", "three">>}
Nothing == [kind |-> "tree", rows |-> Bar, local |-> <<>>, remote |-> <<>>, searches |-> <<>>,
            verdicts |-> <<>>, limit |-> 1, lines |-> <<>>, stock |-> [i \in Ids |-> Null]]

Trees == {[Nothing EXCEPT !.rows = [i \in Ids |->
              [Row4(t[i], IF i = i4 THEN "count" ELSE "cl", FALSE)
                 EXCEPT !.syn = IF i = i3 THEN <<i2, syn1>> ELSE <<>>]]] :
            t \in [Ids -> Ids \cup {Null}]}

Line(n, m) == [name |-> n, amount |-> <<m[1], 1>>, unit |-> m[2], local |-> TRUE, optional |-> FALSE]
Lines == {Line(n, m) : n \in Ids, m \in {<<10, "ml">>, <<2, "cl">>, <<1, "parts">>,
                                         <<10, "g">>, <<0, "rinse">>, <<1, "count">>}}
Kin(n) == IF n \in {i1, i2} THEN {i1, i2} ELSE {n}
Only(set) == [i \in Ids |-> IF i \in set THEN Bar[i] ELSE Null]
Recipes == {[Nothing EXCEPT !.kind = "bar", !.lines = l, !.rows = Only(UNION {Kin(p.name) : p \in Range(l)})] :
              l \in {<<p>> : p \in Lines} \cup (Lines \X Lines)}

Verdicts == UNION {[1..n -> {"makeable", "almost", "unmakeable"}] : n \in 0..6}
Walks == {[Nothing EXCEPT !.kind = "pages", !.verdicts = v, !.limit = n] : v \in Verdicts, n \in 1..3}

Cocktail(id, name, names) ==
  [id |-> id, name |-> name, source |-> "local", alcoholic |-> TRUE, ratings |-> id % 3,
   lines |-> [k \in DOMAIN names |-> Line(names[k], <<10, "ml">>)]]
Drink(id, name, names) ==
  [id |-> id, name |-> name, alcoholic |-> FALSE,
   lines |-> [k \in DOMAIN names |-> [name |-> names[k],
     measure |-> IF k = 1 THEN Null ELSE [form |-> "decimal", amount |-> <<2, 1>>, unit |-> "cl", text |-> "cl"]]]]
Menu == <<Cocktail(1, "one", <<i1, i3>>), Cocktail(2, "two", <<i2>>), Cocktail(3, "three", <<i4>>)>>
Abroad == <<Drink(4, "four", <<syn1, i3>>), Drink(5, "two", <<i1>>)>>
Names4 == <<"one", "two", "three", "four">>
Plainly == [name |-> "t", local |-> Null, external |-> TRUE, sort |-> "name", desc |-> FALSE,
            filters |-> Null, all |-> {}, without |-> {}, any |-> {}]
With(n) == [ingredient |-> n, alcoholic |-> Null, min |-> Null, max |-> 2]
Options ==
  {Plainly, [Plainly EXCEPT !.desc = TRUE], [Plainly EXCEPT !.sort = "makeability"],
   [Plainly EXCEPT !.sort = "complexity"], [Plainly EXCEPT !.filters = With(i1)],
   [Plainly EXCEPT !.without = {i2}], [Plainly EXCEPT !.all = {i3}, !.local = TRUE],
   [Plainly EXCEPT !.without = {i3}, !.local = FALSE],
   [Plainly EXCEPT !.any = {i2, i4}, !.sort = "complexity"],
   [Plainly EXCEPT !.sort = "popularity"],
   [Plainly EXCEPT !.name = Null, !.sort = "makeability"],
   [Plainly EXCEPT !.name = Null, !.without = {i1}]}
Stocked == [i \in Ids |-> IF i \in {i2, i3} THEN <<9, 1>> ELSE Null]
Searches == {[Nothing EXCEPT !.kind = "search", !.local = Menu, !.remote = Abroad, !.stock = Stocked,
                             !.searches = <<[opt |-> o, limit |-> 2], [opt |-> p, limit |-> 3]>>] :
               o \in Options, p \in Options}
All == Trees \cup Recipes \cup Walks \cup Searches
=============================================================================
