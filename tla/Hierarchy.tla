------------------------------ MODULE Hierarchy ------------------------------
(***************************************************************************)
(* hierarchical-ingredient.service.ts as functions of the ingredient table: *)
(* relatives, substitutions, common ancestors, the search for a name.       *)
(* A row is [parent, unit, syn]; an ingredient is its own name, so a name   *)
(* is found among the rows, the synonyms, or by similarity.                 *)
(***************************************************************************)
EXTENDS Integers, SequencesExt

CONSTANTS Order,    \* the ingredients, in the order a query lists them
          Fuzzy,    \* name to its most similar ingredient and score, or Null (pg_trgm)
          Null

Ids == Range(Order)
ASSUME OrderAssumption == Order \in Seq(Ids) /\ Null \notin Ids
Present(rows) == {i \in Ids : rows[i] # Null}
Listed(rows) == SelectSeq(Order, LAMBDA i : rows[i] # Null)
\* The column parentId: what relatives are a function of.
ParentsOf(rows) == [k \in Ids |-> IF rows[k] = Null THEN Null ELSE rows[k].parent]
Under(up, i) == SelectSeq(Order, LAMBDA k : up[k] = i)
Children(rows, i) == Under(ParentsOf(rows), i)

(******************************** relatives ********************************)
\* getAncestors: up to a row without a parent, or one seen before.
AncestorsBy(up, i) ==
  LET walk[n \in 0..Len(Order)] ==
        IF n = 0 THEN <<i>>
        ELSE LET c == walk[n - 1]
                 p == up[Last(c)]
             IN  IF p = Null \/ Contains(c, p) THEN c ELSE Append(c, p)
  IN  Tail(walk[Len(Order)])
Ancestors(rows, i) == AncestorsBy(ParentsOf(rows), i)

\* Variant: the start counts as visited.
DescendantsProper(up, i) ==
  LET walk[n \in 0..2 * Len(Order)] ==
        IF n = 0 THEN [queue |-> Under(up, i), out |-> <<>>]
        ELSE LET w == walk[n - 1]
             IN  IF w.queue = <<>> THEN w
                 ELSE LET k == Head(w.queue)
                      IN  IF k = i \/ Contains(w.out, k) THEN [w EXCEPT !.queue = Tail(@)]
                          ELSE [queue |-> Tail(w.queue) \o Under(up, k),
                                out   |-> Append(w.out, k)]
  IN  walk[2 * Len(Order)].out
\* getDescendants: breadth first; the start is not marked as visited.
DescendantsBy(up, i) ==
  LET walk[n \in 0..2 * Len(Order)] ==
        IF n = 0 THEN [queue |-> Under(up, i), out |-> <<>>]
        ELSE LET w == walk[n - 1]
             IN  IF w.queue = <<>> THEN w
                 ELSE LET k == Head(w.queue)
                      IN  IF Contains(w.out, k) THEN [w EXCEPT !.queue = Tail(@)]
                          ELSE [queue |-> Tail(w.queue) \o Under(up, k),
                                out   |-> Append(w.out, k)]
  IN  walk[2 * Len(Order)].out
Descendants(rows, i) == DescendantsBy(ParentsOf(rows), i)
Siblings(rows, i) ==
  IF rows[i].parent = Null THEN <<>>
  ELSE SelectSeq(Children(rows, rows[i].parent), LAMBDA k : k # i)
Relatives(rows, i) == Range(Ancestors(rows, i)) \cup Range(Descendants(rows, i))

\* detectCircularReference, as validateIngredientHierarchy calls it.
ReportsCircular(rows, i) == i \in Relatives(rows, i)
\* checkUnitConsistency.
UnitsAgree(rows, i) ==
  \A k \in Relatives(rows, i) \cup Range(Siblings(rows, i)) : rows[k].unit = rows[i].unit
\* validateIngredientHierarchy: no cycle, at most five levels, one unit.
IsValid(rows, i) ==
  /\ ~ReportsCircular(rows, i)
  /\ Len(Ancestors(rows, i)) <= 5
  /\ UnitsAgree(rows, i)

\* findCommonAncestor: of the first's ancestors, the first all others have.
CommonAncestor(rows, i, j) ==
  LET both == SelectSeq(Ancestors(rows, i), LAMBDA a : Contains(Ancestors(rows, j), a))
  IN  IF both = <<>> THEN Null ELSE both[1]

(****************************** substitutions ******************************)
Sub(k, confidence) == [id |-> k, confidence |-> confidence]
Fit(subs, min) == SelectSeq(subs, LAMBDA s : s.confidence >= min)
As(ids, confidence) == [k \in DOMAIN ids |-> Sub(ids[k], confidence)]
\* findHierarchicalSubstitutions: the parent, what is below, what is beside.
HierarchicalSubs(rows, i, min) ==
  Fit((IF rows[i].parent = Null THEN <<>> ELSE <<Sub(rows[i].parent, 90)>>)
      \o As(Descendants(rows, i), 80) \o As(Siblings(rows, i), 70), min)
\* findSynonymSubstitutions: rows of their own that bear one of the synonyms.
SynonymSubs(rows, i, min) ==
  Fit(As(SelectSeq(rows[i].syn, LAMBDA s : s \in Present(rows) \ {i}), 85), min)
FirstOf(s, n) == SubSeq(s, 1, IF n < Len(s) THEN n ELSE Len(s))
\* findSubstitutions: the synonyms get the places the hierarchy leaves; best first.
Substitutions(rows, i, max, min) ==
  LET above == FirstOf(HierarchicalSubs(rows, i, min), max)
      all   == above \o FirstOf(SynonymSubs(rows, i, min), max - Len(above))
  IN  SortSeq(all, LAMBDA s, t : s.confidence > t.confidence)

(********************************* matching ********************************)
Match(k, how, confidence) == [id |-> k, how |-> how, confidence |-> confidence]
\* calculateHierarchicalConfidence, in hundredths.
Confidence(distance) == IF 100 - 10 * distance < 10 THEN 10 ELSE 100 - 10 * distance
\* The length of a path from the foot of a chain up to k.
PathLength(chain, k) == 1 + SelectInSeq(chain, LAMBDA a : a = k)
\* The walk up from i comes to no end: unlike the others, this one has no
\* record of where it has been.
Chain(rows, i) == <<i>> \o Ancestors(rows, i)
Closes(rows, chain) == Contains(chain, rows[Last(chain)].parent)
Endless(rows, i) == Closes(rows, Chain(rows, i))
\* findHierarchicalMatch: the first row that bears the name, or is below or
\* above the one that does.  An endless walk before that hangs the process.
MatchAt(rows, name, chain) ==
  LET i == chain[1]
  IN  IF i = name THEN Match(i, "exact", 100)
      ELSE IF Contains(chain, name)
           THEN Match(name, "hierarchical", Confidence(PathLength(Tail(chain), name)))
      ELSE IF Closes(rows, chain) THEN Match(i, "hangs", 0)
      ELSE Match(name, "hierarchical", Confidence(PathLength(Ancestors(rows, name), i)))
HierarchicalMatch(rows, name) ==
  LET stop(i) == /\ rows[i] # Null
                 /\ \/ Contains(Chain(rows, i), name) \/ Endless(rows, i)
                    \/ Contains(Descendants(rows, i), name)
      hits == {k \in DOMAIN Order : stop(Order[k])}
  IN  IF hits = {} THEN Null ELSE MatchAt(rows, name, Chain(rows, Order[Min(hits)]))
\* findSynonymMatch: the first row that bears the name or lists it.
SynonymMatch(rows, name) ==
  LET hits == SelectSeq(Listed(rows), LAMBDA i : i = name \/ Contains(rows[i].syn, name))
  IN  IF hits = <<>> THEN Null
      ELSE IF hits[1] = name THEN Match(name, "exact", 100)
      ELSE Match(hits[1], "synonym", 90)
\* findFuzzyMatch: above 0.4, and the row still there.
FuzzyMatch(rows, name) ==
  LET f == Fuzzy[name]
  IN  IF f = Null \/ f.score <= 40 \/ rows[f.id] = Null THEN Null
      ELSE Match(f.id, "fuzzy", f.score)
\* findBestMatch for a name no row has: by the cached catalogue, then by
\* similarity in the table.
FirstGood(min, h, s, f) ==
  LET good(match) == match # Null /\ match.confidence >= min
  IN  IF good(h) \/ (h # Null /\ h.how = "hangs") THEN h
      ELSE IF good(s) THEN s
      ELSE IF good(f) THEN f
      ELSE Null
LooseMatch(rows, catalog, name, min) ==
  FirstGood(min, HierarchicalMatch(catalog, name), SynonymMatch(catalog, name), FuzzyMatch(rows, name))
BestMatch(rows, name, min) ==
  IF name \in Present(rows) THEN Match(name, "exact", 100) ELSE LooseMatch(rows, rows, name, min)
\* expandIngredientQuery: the names a filter on the name accepts.
NamesOf(rows, i) == {i} \cup Range(rows[i].syn)
Meant(rows, m) ==
  IF m = Null THEN {} ELSE UNION {NamesOf(rows, k) : k \in {m.id} \cup Relatives(rows, m.id)}
Expand(rows, name) == {name} \cup Meant(rows, BestMatch(rows, name, 60))

(********************************* reference *******************************)
\* Parents of parents, as a relation.
Above(rows) ==
  LET step == {<<i, rows[i].parent>> : i \in {k \in Present(rows) : rows[k].parent # Null}}
      up[n \in 1..Len(Order)] ==
        IF n = 1 THEN step
        ELSE step \cup {<<z[1][1], z[2][2]>> : z \in {w \in up[n - 1] \X step : w[1][2] = w[2][1]}}
  IN  up[Len(Order)]
Acyclic(rows) == \A i \in Ids : <<i, i>> \notin Above(rows)
=============================================================================
