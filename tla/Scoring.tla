------------------------------- MODULE Scoring -------------------------------
(***************************************************************************)
(* What the bar can make: the score of a cocktail against the stock and the *)
(* pages of scored cocktails (makeability.service.ts), the answer of the    *)
(* MCP tool check_makeability (mcp-server.service.ts), and, to compare them *)
(* with, whether an order for one serving would be filled                   *)
(* (bar-orders.processor.ts).                                               *)
(* A line is [name, amount, unit, local, optional]: that of a local recipe  *)
(* refers to a row of the ingredient table, that of a remote one only names *)
(* an ingredient.  stock maps ingredients to fractions, or Null.            *)
(***************************************************************************)
EXTENDS Hierarchy, Measures

CONSTANT MaxIterations   \* cocktails one request scores (200)

ASSUME ScoringAssumption == MaxIterations \in Nat \ {0}

Parts == {"part", "parts"}
PartSize(amount) == <<30 * amount[1], amount[2]>>
Base(rows, line) == IF line.local THEN rows[line.name].unit ELSE Null
Row(rows, i) == IF i \in Ids THEN rows[i] ELSE Null

(********************************* scores **********************************)
\* Variant: the amount is compared as it is written.
NeededRaw(line, base, ing) ==
  IF line.unit \in Parts THEN Convert(PartSize(line.amount), "ml", base, ing)
  ELSE line.amount
\* The amount a line needs of an ingredient, in that one's unit: Null where
\* the code throws (parts), infinite where normalizeAmount catches.
Needed(line, base, ing) ==
  IF line.unit \in Parts THEN Convert(PartSize(line.amount), "ml", base, ing)
  ELSE IF Null \in {line.unit, base} \/ line.unit = base THEN line.amount
  ELSE LET q == Convert(line.amount, line.unit, base, ing)
       IN  IF q = Null THEN Infinite ELSE q
InStock(stock, i) == i \in Ids /\ stock[i] # Null
\* What a line adds to the score, in hundredths: by a row of its own name, or
\* by the best match of that name; nothing where the name was not loaded, and
\* Null where scoreCocktail throws.
OwnScore(stock, i, need) ==
  IF need = Null THEN Null ELSE IF AtLeast(stock[i], need) THEN 100 ELSE 0
Suits(stock, m) == m # Null /\ m.confidence >= 80 /\ InStock(stock, m.id)
Holds(stock, i, need) == need # Null /\ AtLeast(stock[i], need)
MatchScore(rows, stock, line, m) ==
  IF Suits(stock, m) /\ Holds(stock, m.id, Needed(line, rows[m.id].unit, rows[m.id]))
  THEN m.confidence ELSE 0
LineScore(rows, stock, line) ==
  IF line.name = Null THEN 0
  ELSE IF InStock(stock, line.name)
  THEN OwnScore(stock, line.name, Needed(line, Base(rows, line), Row(rows, line.name)))
  ELSE MatchScore(rows, stock, line, BestMatch(rows, line.name, 70))
Sum(s) == FoldLeft(LAMBDA x, y : x + y, 0, s)
Scores(rows, stock, lines) == [k \in DOMAIN lines |-> LineScore(rows, stock, lines[k])]
Crashes(rows, stock, lines) == Null \in Range(Scores(rows, stock, lines))
\* scoreCocktail: the verdict on the mean.
Verdict(rows, stock, lines) ==
  LET sum   == Sum(Scores(rows, stock, lines))
      total == IF lines = <<>> THEN 1 ELSE Len(lines)
  IN  IF sum >= 100 * total THEN "makeable"
      ELSE IF 2 * sum >= 100 * total THEN "almost"
      ELSE "unmakeable"

(******************************** MCP tool *********************************)
\* handleCheckMakeability, line by line: an amount that cannot be converted
\* is compared as it is, and one that is short is looked for elsewhere.
InUnitOf(line, row) == Convert(line.amount, line.unit, row.unit, row)
Enough(stock, line, q) == AtLeast(stock[line.name], IF q = Null THEN line.amount ELSE q)
MatchChecked(rows, stock, line, m) ==
  IF Suits(stock, m) /\ Holds(stock, m.id, InUnitOf(line, rows[m.id])) THEN m.confidence ELSE 0
LineChecked(rows, stock, line) ==
  IF /\ InStock(stock, line.name)
     /\ Enough(stock, line, InUnitOf(line, rows[line.name]))
  THEN 100 ELSE MatchChecked(rows, stock, line, BestMatch(rows, line.name, 70))
Checked(rows, stock, lines) ==
  Sum([k \in DOMAIN lines |-> LineChecked(rows, stock, lines[k])])
    >= 100 * (IF lines = <<>> THEN 1 ELSE Len(lines))

(********************************* orders **********************************)
\* The amount an order for one serving takes; Null where the worker throws.
Taken(rows, line) ==
  LET row == rows[line.name]
  IN  IF line.unit = "rinse" THEN Convert(<<3, 1>>, "ml", row.unit, row)
      ELSE IF line.unit \in Parts THEN Convert(PartSize(line.amount), "ml", row.unit, row)
      ELSE IF ~Compatible(line.unit, row.unit) THEN Zero
      ELSE Convert(line.amount, line.unit, row.unit, row)
Below(rows, i) == {i} \cup Range(Descendants(rows, i))
\* Rows the worker may take for a line, of those it has locked.
Eligible(rows, stock, line, lines) ==
  LET locked == UNION {Below(rows, l.name) : l \in Range(lines)}
      names  == UNION {NamesOf(rows, k) : k \in Below(rows, line.name)}
  IN  {k \in locked : /\ InStock(stock, k)
                      /\ k \in Below(rows, line.name) \/ NamesOf(rows, k) \cap names # {}}
Plus(x, y) == Reduced(<<x[1] * y[2] + y[1] * x[2], x[2] * y[2]>>)
Less(x, y) == Reduced(<<x[1] * y[2] - y[1] * x[2], x[2] * y[2]>>)
\* From the fullest row to the emptiest, until the line has its amount.
TakeFrom(stock, from, amount) ==
  FoldLeft(LAMBDA st, k :
             LET part == IF AtLeast(st.stock[k], st.left) THEN st.left ELSE st.stock[k]
             IN  [stock |-> [st.stock EXCEPT ![k] = Less(@, part)],
                  left  |-> Less(st.left, part)],
           [stock |-> stock, left |-> amount],
           SortSeq(SetToSeq(from), LAMBDA j, k : ~AtLeast(stock[k], stock[j]))).stock
\* Whether an order is filled, line after line, and with what is left.
Fill(rows, stock, lines) ==
  FoldLeft(LAMBDA st, line :
             LET need == Taken(rows, line)
                 from == Eligible(rows, st.stock, line, lines)
                 all  == FoldSet(LAMBDA k, x : Plus(st.stock[k], x), Zero, from)
             IN  IF need = Null THEN [st EXCEPT !.ok = FALSE]
                 ELSE IF ~AtLeast(all, need) THEN [st EXCEPT !.ok = @ /\ line.optional]
                 ELSE [st EXCEPT !.stock = TakeFrom(@, from, need)],
           [ok |-> TRUE, stock |-> stock], lines)
Filled(rows, stock, lines) == Fill(rows, stock, lines).ok

(********************************** pages **********************************)
Candidates(verdicts) == SelectSeq(verdicts, LAMBDA v : v # "unmakeable")
Scanned(verdicts) == SubSeq(verdicts, 1, IF Len(verdicts) < MaxIterations THEN Len(verdicts) ELSE MaxIterations)
\* Variant: as many candidates as a page holds are enough for any page.
IterationsOnePage(verdicts, page, limit) ==
  LET full == {n \in DOMAIN Scanned(verdicts) : Len(Candidates(SubSeq(verdicts, 1, n))) >= limit}
  IN  IF full = {} THEN Len(Scanned(verdicts)) ELSE CHOOSE n \in full : \A k \in full : n <= k
\* How many cocktails a request scores before it has filled its page.
Iterations(verdicts, page, limit) ==
  LET full == {n \in DOMAIN Scanned(verdicts) :
                 Len(Candidates(SubSeq(verdicts, 1, n))) >= page * limit}
  IN  IF full = {} THEN Len(Scanned(verdicts)) ELSE CHOOSE n \in full : \A k \in full : n <= k
\* getMakeableCocktails: a page of the candidates found, the makeable ones
\* first, and the number of the next; or an overshoot.
Page(verdicts, page, limit) ==
  LET its    == Iterations(verdicts, page, limit)
      those(v) == SelectSeq([n \in 1..its |-> n], LAMBDA n : verdicts[n] = v)
      found  == those("makeable") \o those("almost")
      offset == (page - 1) * limit
  IN  [ok   |-> ~(its >= MaxIterations /\ found # <<>> /\ Len(found) <= offset),
       data |-> FirstOf(SubSeq(found, offset + 1, Len(found)), limit),
       next |-> IF Len(found) >= page * limit /\ its < MaxIterations THEN page + 1 ELSE Null]
=============================================================================
