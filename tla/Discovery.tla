------------------------------ MODULE Discovery ------------------------------
(***************************************************************************)
(* The unified search of cocktail-aggregator.service.ts: local and remote   *)
(* cocktails merged, filtered, scored and sorted, the list cached for a     *)
(* minute under a key made from some of the options, and paged.  Beside it, *)
(* a client that pages through the makeable cocktails, and a bar whose      *)
(* stock and ingredient table the algorithms of Scoring are checked on.     *)
(***************************************************************************)
EXTENDS Scoring, FiniteSets

CONSTANTS Inside,     \* pairs of names of which the first is part of the second
          Rank,       \* cocktail names in the order they are sorted by
          Scenes,     \* what a behaviour starts from
          MaxLocal,   \* local cocktails asked for (100)
          MaxStock,   \* bound: of what deliveries raise a row to
          MaxChanges  \* bound: admin decisions on remote cocktails, and expired entries

VARIABLES scene,    \* kind, tables and requests of this behaviour
          stock,    \* ingredient to amount, or Null
          hidden,   \* remote cocktails an admin has hidden
          changes,  \* how many such decisions and expired entries there were
          cache,    \* search key to list, or Null
          search,   \* searchers: options, next step, list fetched, pages seen
          walk      \* the client of the makeable list: next page, seen, error

vars == <<scene, stock, hidden, changes, cache, search, walk>>

(********************************* filters *********************************)
\* The names each query stands for; one of them is to be part of a line's name.
Meanings(rows, queries) == [q \in queries |-> Expand(rows, q)]
Uses(c, names) == \E k \in DOMAIN c.lines : \E n \in names : <<n, c.lines[k].name>> \in Inside
\* applyStrictInclusionFilter, applyExclusionFilter, applyIngredientsAnyFilter.
KeepWithAll(rows, list, queries) ==
  LET of == Meanings(rows, queries) IN SelectSeq(list, LAMBDA c : \A q \in queries : Uses(c, of[q]))
\* Variant: a query stands for itself.
KeepWithoutPlain(rows, list, queries) ==
  SelectSeq(list, LAMBDA c : ~\E q \in queries : Uses(c, {q}))
KeepWithout(rows, list, queries) ==
  LET of == Meanings(rows, queries) IN SelectSeq(list, LAMBDA c : ~\E q \in queries : Uses(c, of[q]))
KeepWithAny(rows, list, queries) ==
  LET of == Meanings(rows, queries)
  IN  IF queries = {} THEN list ELSE SelectSeq(list, LAMBDA c : \E q \in queries : Uses(c, of[q]))
\* applyFilters: every filter that is set.
KeepFiltered(rows, list, f) ==
  LET of == Meanings(rows, {f.ingredient} \ {Null})
  IN  SelectSeq(list, LAMBDA c : /\ f.ingredient = Null \/ Uses(c, of[f.ingredient])
                                 /\ f.alcoholic \in {Null, c.alcoholic}
                                 /\ f.min = Null \/ Len(c.lines) >= f.min
                                 /\ f.max = Null \/ Len(c.lines) <= f.max)

(********************************* search **********************************)
\* mapExternalToLocal: parsed measures, names instead of rows.
Mapped(drink) ==
  [name |-> drink.name, id |-> drink.id, source |-> "api", alcoholic |-> drink.alcoholic,
   lines |-> [k \in DOMAIN drink.lines |->
     LET m == Parse(drink.lines[k].measure)
     IN  [name |-> drink.lines[k].name, amount |-> m.amount, unit |-> m.unit,
          local |-> FALSE, optional |-> FALSE]]]
\* findAll: one page of the cocktails, whoever may see them, however many.
FindAll == FirstOf(scene.local, MaxLocal)
\* searchByName joins the lines of a cocktail, but not the ingredients they
\* refer to, which only a find loads by itself.
Nameless(c) == [c EXCEPT !.lines = [k \in DOMAIN c.lines |-> [c.lines[k] EXCEPT !.name = Null]]]
ByName(name) ==
  LET hits == FirstOf(SelectSeq(scene.local, LAMBDA c : <<name, c.name>> \in Inside), MaxLocal)
  IN  [n \in DOMAIN hits |-> Nameless(hits[n])]
\* What the local source answers: a search by name that fails falls back on
\* the names in a page of all, and a search that fails again finds nothing.
LocalList(opt, tries) ==
  CASE opt.local = FALSE -> <<>>
    [] opt.local # FALSE /\ opt.name = Null -> IF tries = 1 THEN FindAll ELSE <<>>
    [] opt.local # FALSE /\ opt.name # Null ->
         IF tries = 1 THEN ByName(opt.name)
         ELSE IF tries = 2
              THEN SelectSeq(FindAll, LAMBDA c : <<opt.name, c.name>> \in Inside \/ Uses(c, {opt.name}))
              ELSE <<>>
\* A remote search that fails answers nothing.
RemoteList(opt, up) ==
  IF up /\ opt.external # FALSE /\ opt.name # Null /\ opt.sort # "makeability"
  THEN [k \in DOMAIN scene.remote |-> Mapped(scene.remote[k])] ELSE <<>>
\* Neither hidden nor shadowed by a local cocktail of that name.
Merged(local, remote) ==
  local \o SelectSeq(remote, LAMBDA c : /\ c.id \notin hidden
                                        /\ c.name \notin {d.name : d \in Range(local)})
Filtered(list, opt) ==
  LET rows  == scene.rows
      first == IF opt.filters = Null THEN list ELSE KeepFiltered(rows, list, opt.filters)
  IN  KeepWithAny(rows, KeepWithout(rows, KeepWithAll(rows, first, opt.all), opt.without), opt.any)
\* calculateMakeabilityScores: the mean, rounded to hundredths; a cocktail whose
\* score throws gets none.
Mean(scores) ==
  IF scores = <<>> \/ Null \in Range(scores) THEN 0
  ELSE (2 * Sum(scores) + Len(scores)) \div (2 * Len(scores))
Scored(c) == Mean(Scores(scene.rows, stock, c.lines))
\* How often it was rated, or, if it is a remote one, its lines.
Popularity(c) == IF c.source = "api" THEN Len(c.lines) ELSE c.ratings
\* sortCocktails: by name upwards, by all else downwards, or reversed.
Before(c, d, opt) ==
  LET first  == IF opt.desc THEN d ELSE c
      second == IF opt.desc THEN c ELSE d
  IN  CASE opt.sort = "makeability" -> Scored(first) > Scored(second)
        [] opt.sort = "complexity"  -> Len(first.lines) > Len(second.lines)
        [] opt.sort = "popularity"  -> Popularity(first) > Popularity(second)
        [] OTHER -> SelectInSeq(Rank, LAMBDA n : n = first.name)
                      < SelectInSeq(Rank, LAMBDA n : n = second.name)
\* fetchSearchResults.
Fetch(opt, tries, up) ==
  SortSeq(Filtered(Merged(LocalList(opt, tries), RemoteList(opt, up)), opt),
          LAMBDA c, d : Before(c, d, opt))
\* Variant: the order is left out, too.
KeyUnsorted(opt) == <<opt.name, opt.local = TRUE, opt.external = TRUE, opt.filters>>
\* generateSearchCacheKey: the lists of ingredients are not in it, and a source
\* not mentioned counts as one refused.
Key(opt) ==
  <<opt.name, opt.local = TRUE, opt.external = TRUE, opt.sort, opt.desc, opt.filters>>
Keys == {Key(s.opt) : s \in Range(scene.searches)}

(******************************** requests *********************************)
Searchers == DOMAIN scene.searches
NewSearch == [pc |-> "new", list |-> <<>>, page |-> 1, shown |-> <<>>]
Idle == UNCHANGED <<scene, stock, hidden, changes, walk>>
\* searchUnified with a list: a page of it, and whether there is a next one.
Shown(s, list) ==
  LET q     == search[s]
      limit == scene.searches[s].limit
      first == (q.page - 1) * limit + 1
  IN  [q EXCEPT !.pc    = IF q.page * limit < Len(list) THEN "new" ELSE "done",
                !.list  = <<>>,
                !.page  = @ + 1,
                !.shown = @ \o FirstOf(SubSeq(list, first, Len(list)), limit)]
SearchCached(s) ==
  LET list == cache[Key(scene.searches[s].opt)]
  IN  /\ search[s].pc = "new"
      /\ list # Null
      /\ search' = [search EXCEPT ![s] = Shown(s, list)]
      /\ Idle /\ UNCHANGED cache
SearchFetch(s) ==
  \E tries \in 1..3, up \in BOOLEAN :
    /\ search[s].pc = "new"
    /\ cache[Key(scene.searches[s].opt)] = Null
    /\ search' = [search EXCEPT ![s].pc = "fill", ![s].list = Fetch(scene.searches[s].opt, tries, up)]
    /\ Idle /\ UNCHANGED cache
SearchFill(s) ==
  /\ search[s].pc = "fill"
  /\ cache' = [cache EXCEPT ![Key(scene.searches[s].opt)] = search[s].list]
  /\ search' = [search EXCEPT ![s] = Shown(s, search[s].list)]
  /\ Idle
Lapse(key) ==
  /\ cache[key] # Null
  /\ changes < MaxChanges
  /\ changes' = changes + 1
  /\ cache' = [cache EXCEPT ![key] = Null]
  /\ UNCHANGED <<scene, stock, hidden, search, walk>>
\* hideExternalCocktail, unhideExternalCocktail: the cached lists stay.
Hide(id) ==
  /\ changes < MaxChanges
  /\ changes' = changes + 1
  /\ hidden' = IF id \in hidden THEN hidden \ {id} ELSE hidden \cup {id}
  /\ UNCHANGED <<scene, stock, cache, search, walk>>
\* reviewReport: so does a report that is found right, once.
HideReported(id) ==
  /\ changes < MaxChanges
  /\ changes' = changes + 1
  /\ hidden' = hidden \cup {id}
  /\ UNCHANGED <<scene, stock, cache, search, walk>>

\* A client follows nextPage through the makeable cocktails.
Turn ==
  LET answer == Page(scene.verdicts, walk.page, scene.limit)
  IN  /\ walk.pc = "go"
      /\ walk' = IF ~answer.ok THEN [walk EXCEPT !.pc = "overshoot"]
                 ELSE [pc   |-> IF answer.next = Null THEN "done" ELSE "go",
                       page |-> walk.page + 1,
                       seen |-> walk.seen \o answer.data]
      /\ UNCHANGED <<scene, stock, hidden, changes, cache, search>>
\* A delivery of an ingredient.
Deliver(i) ==
  /\ scene.rows[i] # Null
  /\ (IF stock[i] = Null THEN 0 ELSE stock[i][1]) < MaxStock
  /\ stock' = [stock EXCEPT ![i] = IF @ = Null THEN <<1, 1>> ELSE <<@[1] + 1, 1>>]
  /\ UNCHANGED <<scene, hidden, changes, cache, search, walk>>

Init ==
  /\ scene \in Scenes
  /\ stock = scene.stock
  /\ hidden = {} /\ changes = 0
  /\ cache = [k \in Keys |-> Null]
  /\ search = [s \in Searchers |-> NewSearch]
  /\ walk = [pc |-> "go", page |-> 1, seen |-> <<>>]
Next ==
  \/ scene.kind = "search" /\ \/ \E s \in Searchers : \/ SearchCached(s)
                                                        \/ SearchFetch(s)
                                                        \/ SearchFill(s)
                              \/ \E k \in Keys : Lapse(k)
                              \/ \E c \in Range(scene.remote) : Hide(c.id) \/ HideReported(c.id)
  \/ scene.kind = "pages" /\ Turn
  \/ scene.kind = "bar" /\ \E i \in Ids : Deliver(i)
Spec == Init /\ [][Next]_vars

(******************************** properties *******************************)
\* Whatever the parents are, cycles included: ancestors and descendants mirror
\* each other, they are what the table implies, validation reports a cycle to
\* every ingredient on one and to no other, and in a table without cycles the
\* common ancestor found has no nearer one below it, nothing substitutes for
\* itself, and all that is validated has the unit of what is above it.
RelativesRight ==
  LET rows == scene.rows IN
  \A i, j \in Present(rows) :
    /\ ReportsCircular(rows, i) <=> <<i, i>> \in Above(rows)
    /\ i # j => /\ Contains(Ancestors(rows, i), j) <=> <<i, j>> \in Above(rows)
                /\ Contains(Descendants(rows, j), i) <=> <<i, j>> \in Above(rows)
    /\ i # j /\ Acyclic(rows) =>
         LET both == Range(Ancestors(rows, i)) \cap Range(Ancestors(rows, j))
             c    == CommonAncestor(rows, i, j)
         IN  /\ c = Null <=> both = {}
             /\ \A b \in both : b = c \/ <<c, b>> \in Above(rows)
             /\ i \notin {s.id : s \in Range(Substitutions(rows, i, 9, 0))}
             /\ <<i, j>> \in Above(rows) /\ IsValid(rows, i) => rows[i].unit = rows[j].unit

\* A recipe in which no line can be served from the rows of another one, if it
\* is said to be makeable, is filled when it is ordered; and where every line
\* can be converted, the MCP tool says so whenever the list does, and only
\* then (scoreCocktail, handleCheckMakeability and processPrepare each compute
\* what a line needs on their own).
PromisesKept ==
  scene.kind = "bar" =>
    LET rows  == scene.rows
        lines == scene.lines
        apart == \A j, k \in DOMAIN lines : j # k =>
                   Below(rows, lines[j].name) \cap Below(rows, lines[k].name) = {}
        plain == \A k \in DOMAIN lines : LET row == rows[lines[k].name] IN
                   lines[k].unit \notin Parts /\ CanConvert(lines[k].unit, row.unit, row)
        good  == ~Crashes(rows, stock, lines) /\ Verdict(rows, stock, lines) = "makeable"
    IN  /\ apart /\ good => Filled(rows, stock, lines)
        /\ plain => (Checked(rows, stock, lines) <=> good)

\* Excluding is what including leaves, any of two is either, all of two is both:
\* four filters with an expansion each agree on what a query stands for (it
\* does not depend on the searches, so it is asked before they start).
FiltersAgree ==
  scene.kind = "search" /\ (\A s \in Searchers : search[s] = NewSearch) =>
    LET rows == scene.rows
        all  == Merged(scene.local, [k \in DOMAIN scene.remote |-> Mapped(scene.remote[k])])
        with == [q \in DOMAIN Fuzzy |-> Range(KeepWithAll(rows, all, {q}))]
    IN  \A p, q \in DOMAIN Fuzzy :
          /\ Range(KeepWithout(rows, all, {p, q})) = Range(all) \ (with[p] \cup with[q])
          /\ Range(KeepWithAny(rows, all, {p, q})) = with[p] \cup with[q]
          /\ Range(KeepWithAll(rows, all, {p, q})) = with[p] \cap with[q]
          /\ Range(KeepFiltered(rows, all, [ingredient |-> p, alcoholic |-> Null,
                                            min |-> Null, max |-> Null])) = with[p]

\* Paging through the makeable cocktails shows as many of them as there are
\* among those scored, and overshoots only when they fill their pages exactly
\* (getMakeableCocktails stops scanning when its page is full).
PagesAddUp ==
  scene.kind = "pages" =>
    LET n == Len(Candidates(Scanned(scene.verdicts)))
    IN  /\ walk.pc # "go" => Len(walk.seen) = n
        /\ walk.pc = "overshoot" => n > 0 /\ n % scene.limit = 0

\* What a search shows satisfies its own filters and is in its own order on
\* every page, as long as no search with other lists of ingredients shares its
\* key (generateSearchCacheKey).  Local cocktails that were found by their names
\* are shown without those of their ingredients: what is excluded is not
\* noticed in them, and they all score nothing (searchByName).
Recipe(c) ==
  IF c.source = "api" THEN c ELSE CHOOSE d \in Range(scene.local) : d.id = c.id
Blank(c) == \E k \in DOMAIN c.lines : c.lines[k].name = Null
Fits(opt, c) ==
  LET uses(q) == Uses(Recipe(c), Expand(scene.rows, q)) IN
  /\ \A q \in opt.all : uses(q)
  /\ \A q \in opt.without : uses(q) => Blank(c)
  /\ opt.any = {} \/ \E q \in opt.any : uses(q)
  /\ opt.filters = Null \/ KeepFiltered(scene.rows, <<Recipe(c)>>, opt.filters) # <<>>
InOrder(opt, c, d) == Before(Recipe(d), Recipe(c), opt) => opt.sort = "makeability" /\ Blank(c)
Lists(opt) == <<opt.all, opt.without, opt.any>>
AnswersFit ==
  \A s \in Searchers :
    LET opt   == scene.searches[s].opt
        shown == search[s].shown
    IN  (\A t \in Searchers : LET other == scene.searches[t].opt IN
            Key(other) = Key(opt) => Lists(other) = Lists(opt))
        => /\ \A n \in DOMAIN shown : Fits(opt, shown[n])
           /\ \A n \in 1..Len(shown) - 1 : n % scene.searches[s].limit # 0
                => InOrder(opt, shown[n], shown[n + 1])
=============================================================================
