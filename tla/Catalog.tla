------------------------------- MODULE Catalog -------------------------------
(***************************************************************************)
(* Ingredients while requests overlap.  ingredients.service.ts, merges and  *)
(* promotions of admin.service.ts write the table and clear the cache       *)
(* behind it; synonyms and the rows a generated recipe adds do not clear.   *)
(* detectCycle and getAncestors walk up through that cache, row by row.     *)
(***************************************************************************)
EXTENDS Hierarchy, FiniteSets

CONSTANTS Writers,   \* requests that write
          Walkers,   \* requests for an ingredient's relatives
          Searchers, \* requests that look a name up
          Names,     \* the names they look up
          Targets,   \* ingredients the writers are about
          Writes,    \* what they ask for
          Starts,    \* [rows, cast]: a table and the requests that may overlap
          MaxLapses, \* bound: entries that run out
          Keep       \* a field an update leaves alone

\* determineBaseUnit: millilitres, or one of the units that are counted.
GeneratedUnits == {"ml", "count"}
\* The base unit is what a request says, or one of these.
Units == STRING \cup GeneratedUnits
\* A promotion leaves parent and unit alone.
Promotion == [parent |-> Keep, unit |-> Keep]
\* A table has the parents of all its rows: the column is a foreign key.
Rows == [parent : Ids \cup {Null}, unit : Units, syn : Seq(Names \cup Ids)]
Tables == {t \in [Ids -> Rows \cup {Null}] :
             \A i \in Present(t) : t[i].parent # Null => t[t[i].parent] # Null}
Requests == Writers \cup Walkers \cup Searchers
ASSUME RequestsAssumption ==
  /\ Writers \cap (Walkers \cup Searchers) = {} /\ Walkers \cap Searchers = {}
  /\ \A dto \in Writes : dto.parent \in Ids \cup {Null, Keep} /\ dto.unit \in Units \cup {Keep}
\* What the table holds at first has no cycle.
ASSUME StartsAssumption ==
  /\ Null \notin Rows /\ Keep \notin Ids \cup {Null}
  /\ \A s \in Starts : s.rows \in Tables /\ Acyclic(s.rows) /\ s.cast \subseteq Requests

VARIABLES rows,      \* the table: ingredient to row, or Null
          used,      \* ingredients a recipe or a stock row refers to
          cache,     \* what Entries hold, or Null
          req,       \* requests in progress
          cast,      \* the requests of this behaviour
          lapses,    \* entries that ran out
          version,   \* history: writes to the table
          unchecked, \* history: a parent was set on what was no longer so, or
                     \* by a merge into an ingredient below the one merged
          late,      \* history: entries that the request which put them there, or
                     \* wrote a row back, made wrong from what it had read before
          added      \* history: ingredients that came with a generated recipe

vars == <<rows, used, cache, req, cast, lapses, version, unchecked, late, added>>

Entries == ({"row", "name", "up", "down"} \X Ids) \cup {<<"all">>}
\* Two reads of a row, but for its synonyms.
Agree(row, was) ==
  IF row = Null \/ was = Null THEN row = was
  ELSE row.parent = was.parent /\ row.unit = was.unit
\* An entry holds what is in table t, but for what is written without clearing:
\* synonyms, and ingredients new.
Alike(t, new, e, val) ==
  IF e = <<"all">> THEN \A i \in Ids : Agree(t[i], val[i]) \/ (val[i] = Null /\ i \in new)
  ELSE CASE e[1] = "up"   -> val = Ancestors(t, e[2])
         [] e[1] = "down" -> val = Descendants(t, e[2])
         [] e[1] \in {"row", "name"} -> Agree(t[e[2]], val)

NewReq == [pc |-> "new", id |-> Null, dto |-> Null, row |-> Null, at |-> Null,
           seen |-> {}, list |-> <<>>, ver |-> 0, stale |-> FALSE,
           match |-> Null]
Step(r, pc) == req' = [req EXCEPT ![r].pc = pc]
Stage == <<cast, lapses>>
Quiet == UNCHANGED <<rows, used, version, unchecked, cast, lapses, added>>

(****************************** the walk up ********************************)
\* Variant: the ingredient itself does not count as visited.
WalkFromOutside(q, parent) == [q EXCEPT !.pc = "ask", !.at = parent, !.seen = {parent}]
\* detectCycle: from the new parent, the ingredient itself being visited.
WalkFrom(q, parent) ==
  IF parent = q.id THEN [q EXCEPT !.pc = "refused"]
  ELSE [q EXCEPT !.pc = "ask", !.at = parent, !.seen = {q.id, parent}]
\* What the walk of q does with the row found.
AfterCheck(q, row) ==
  IF row = Null \/ row.parent = Null THEN [q EXCEPT !.pc = "units"]
  ELSE IF row.parent \in q.seen THEN [q EXCEPT !.pc = "refused"]
  ELSE [q EXCEPT !.pc = "ask", !.at = row.parent, !.seen = @ \cup {row.parent}]
\* getAncestors asks for an ingredient, then for its parent.
AfterUp(q, row) ==
  IF q.at = Last(<<q.id>> \o q.list)
  THEN IF row = Null \/ row.parent = Null THEN [q EXCEPT !.pc = "store"]
       ELSE [q EXCEPT !.pc = "ask", !.at = row.parent]
  ELSE IF row = Null \/ q.at \in q.seen THEN [q EXCEPT !.pc = "store"]
  ELSE [q EXCEPT !.pc = "ask", !.seen = @ \cup {q.at}, !.list = Append(@, q.at)]
After(r, row) == IF r \in Writers THEN AfterCheck(req[r], row) ELSE AfterUp(req[r], row)

\* getIngredientById answered from the cache ...
AskHit(r) ==
  LET e == <<"row", req[r].at>>
  IN  /\ req[r].pc = "ask"
      /\ cache[e] # Null
      /\ req' = [req EXCEPT ![r] = [After(r, cache[e]) EXCEPT
                   !.stale = @ \/ ~Agree(rows[req[r].at], cache[e])]]
      /\ Quiet /\ UNCHANGED <<cache, late>>
\* ... or from the table, to be put in the cache if there is a row.
AskMiss(r) ==
  LET row == rows[req[r].at]
  IN  /\ req[r].pc = "ask"
      /\ cache[<<"row", req[r].at>>] = Null
      /\ req' = [req EXCEPT ![r] =
           IF row = Null THEN After(r, Null) ELSE [@ EXCEPT !.pc = "fill", !.row = row]]
      /\ Quiet /\ UNCHANGED <<cache, late>>
Put(e, val) ==
  /\ cache' = [cache EXCEPT ![e] = val]
  /\ late' = IF Alike(rows, added, e, val) THEN late \ {e} ELSE late \cup {e}
AskFill(r) ==
  /\ req[r].pc = "fill"
  /\ Put(<<"row", req[r].at>>, req[r].row)
  /\ req' = [req EXCEPT ![r] = After(r, req[r].row)]
  /\ Quiet
Lapse(e) ==
  /\ cache[e] # Null /\ lapses < MaxLapses
  /\ lapses' = lapses + 1
  /\ cache' = [cache EXCEPT ![e] = Null]
  /\ late' = late \ {e}
  /\ UNCHANGED <<rows, used, req, cast, version, unchecked, added>>

(******************************** relatives ********************************)
UpStart(r) ==
  \E i \in Present(rows) :
    /\ req[r].pc = "new"
    /\ cache[<<"up", i>>] = Null
    /\ req' = [req EXCEPT ![r] =
         [NewReq EXCEPT !.pc = "ask", !.id = i, !.at = i, !.seen = {i}]]
    /\ Quiet /\ UNCHANGED <<cache, late>>
UpStore(r) ==
  /\ req[r].pc = "store"
  /\ Put(<<"up", req[r].id>>, req[r].list)
  /\ Step(r, "done")
  /\ Quiet
\* getDescendants: from one read of the whole table.
DownStart(r) ==
  \E i \in Present(rows) :
    /\ req[r].pc = "new"
    /\ cache[<<"down", i>>] = Null
    /\ req' = [req EXCEPT ![r] =
         [NewReq EXCEPT !.pc = "store down", !.id = i, !.list = Descendants(rows, i)]]
    /\ Quiet /\ UNCHANGED <<cache, late>>
DownStore(r) ==
  /\ req[r].pc = "store down"
  /\ Put(<<"down", req[r].id>>, req[r].list)
  /\ Step(r, "done")
  /\ Quiet

(******************************** searches *********************************)
\* findBestMatch: the entry of the name or its row ...
SearchName(r) ==
  \E n \in Names :
    LET known == n \in Ids
        held  == IF known THEN cache[<<"name", n>>] ELSE Null
        row   == IF known THEN rows[n] ELSE Null
        q     == [NewReq EXCEPT !.id = n, !.row = row]
    IN  /\ req[r].pc = "new"
        /\ req' = [req EXCEPT ![r] =
             IF held # Null THEN [q EXCEPT !.pc = "done", !.match = Match(n, "exact", 100)]
             ELSE IF row # Null THEN [q EXCEPT !.pc = "fill name"]
             ELSE [q EXCEPT !.pc = "catalog"]]
        /\ Quiet /\ UNCHANGED <<cache, late>>
SearchFillName(r) ==
  /\ req[r].pc = "fill name"
  /\ Put(<<"name", req[r].id>>, req[r].row)
  /\ req' = [req EXCEPT ![r] = [@ EXCEPT !.pc = "done", !.match = Match(req[r].id, "exact", 100)]]
  /\ Quiet
\* ... or the catalogue, cached or read now and then put there.
Found(r, catalog) ==
  LET m == LooseMatch(rows, catalog, req[r].id, 70)
  IN  [req[r] EXCEPT !.pc = IF m # Null /\ m.how = "hangs" THEN "hangs" ELSE "done", !.match = m]
SearchCached(r) ==
  /\ req[r].pc = "catalog"
  /\ cache[<<"all">>] # Null
  /\ req' = [req EXCEPT ![r] = Found(r, cache[<<"all">>])]
  /\ Quiet /\ UNCHANGED <<cache, late>>
SearchRead(r) ==
  /\ req[r].pc = "catalog"
  /\ cache[<<"all">>] = Null
  /\ req' = [req EXCEPT ![r] = [@ EXCEPT !.pc = "fill all", !.row = rows]]
  /\ Quiet /\ UNCHANGED <<cache, late>>
SearchFill(r) ==
  /\ req[r].pc = "fill all"
  /\ Put(<<"all">>, req[r].row)
  /\ req' = [req EXCEPT ![r] = Found(r, req[r].row)]
  /\ Quiet

(********************************* writes **********************************)
\* update: the row, then the cycle check if the parent changes.
UpdateRead(r) ==
  \E i \in Targets \cap Present(rows), dto \in Writes :
    LET q == [NewReq EXCEPT !.pc = "units", !.id = i, !.dto = dto, !.list = <<rows[i]>>,
                            !.ver = version]
    IN  /\ req[r].pc = "new"
        /\ req' = [req EXCEPT ![r] =
             IF dto.parent \in {Keep, Null, rows[i].parent} THEN q ELSE WalkFrom(q, dto.parent)]
        /\ Quiet /\ UNCHANGED <<cache, late>>
\* Another unit only for an ingredient nothing refers to.
UpdateUnits(r) ==
  /\ req[r].pc = "units"
  /\ Step(r, IF /\ req[r].dto.unit \notin {Keep, req[r].list[1].unit}
                /\ req[r].id \in used
             THEN "refused" ELSE "save")
  /\ Quiet /\ UNCHANGED <<cache, late>>
Wanted(old, new) == IF new = Keep THEN old ELSE new
\* save writes back every column that was read, and inserts a row that is gone.
UpdateSave(r) ==
  LET q   == req[r]
      row == [q.list[1] EXCEPT !.parent = Wanted(@, q.dto.parent), !.unit = Wanted(@, q.dto.unit)]
  IN  /\ q.pc = "save"
      /\ IF row.parent # Null /\ rows[row.parent] = Null   \* the foreign key refuses
         THEN /\ Step(r, "refused") /\ UNCHANGED <<rows, version, unchecked>>
         ELSE /\ Step(r, "clear")
              /\ rows' = [rows EXCEPT ![q.id] = row]
              /\ version' = version + 1
              /\ unchecked' = (unchecked \/ q.stale \/ version # q.ver)
      /\ UNCHANGED <<used, cache, late, added, Stage>>
\* validateParentChain: what is above p comes round to a row again.
Looped(p) == Endless(rows, p)
\* create: the parent is looked up, its chain walked in the table; then the row.
CreateCheck(r) ==
  \E i \in Ids \ Present(rows), p \in Ids \cup {Null} :
    /\ req[r].pc = "new"
    /\ req' = [req EXCEPT ![r] = [NewReq EXCEPT
         !.pc = IF p # Null /\ (rows[p] = Null \/ Looped(p)) THEN "refused" ELSE "insert",
         !.id = i, !.at = p]]
    /\ Quiet /\ UNCHANGED <<cache, late>>
CreateSave(r) ==
  LET q == req[r]
  IN  /\ q.pc = "insert"
      /\ IF rows[q.id] # Null \/ (q.at # Null /\ rows[q.at] = Null)
         THEN Step(r, "refused") /\ UNCHANGED <<rows, version>>
         ELSE /\ Step(r, "clear")
              /\ rows' = [rows EXCEPT ![q.id] = [parent |-> q.at, unit |-> "ml", syn |-> <<>>]]
              /\ version' = version + 1
      /\ UNCHANGED <<used, cache, late, unchecked, added, Stage>>
RemoveRead(r) ==
  \E i \in Targets \cap Present(rows) :
    /\ req[r].pc = "new"
    /\ req' = [req EXCEPT ![r] = [NewReq EXCEPT !.pc = "delete", !.id = i]]
    /\ Quiet /\ UNCHANGED <<cache, late>>
\* A recipe keeps its ingredient; children lose their parent.
RemoveRow(r) ==
  LET i == req[r].id
  IN  /\ req[r].pc = "delete"
      /\ IF i \in used
         THEN Step(r, "refused") /\ UNCHANGED <<rows, version>>
         ELSE /\ Step(r, "clear")
              /\ rows' = [k \in Ids |->
                   IF k = i THEN Null
                   ELSE IF rows[k] # Null /\ rows[k].parent = i
                        THEN [rows[k] EXCEPT !.parent = Null] ELSE rows[k]]
              /\ version' = version + 1
      /\ UNCHANGED <<used, cache, late, unchecked, added, Stage>>
\* promoteIngredient: refused for a global one, else the row as it was read.
PromoteRead(r) ==
  \E i \in Targets \cap Present(rows), pc \in {"refused", "save"} :
    /\ req[r].pc = "new"
    /\ req' = [req EXCEPT ![r] = [NewReq EXCEPT
         !.pc = pc, !.id = i, !.dto = Promotion, !.list = <<rows[i]>>, !.ver = version]]
    /\ Quiet /\ UNCHANGED <<cache, late>>
\* mergeIngredients: of i into j, which has to have the same unit ...
MergeRead(r) ==
  \E i, j \in Targets \cap Present(rows) :
    /\ req[r].pc = "new"
    /\ req' = [req EXCEPT ![r] = [NewReq EXCEPT
         !.pc = IF rows[i].unit = rows[j].unit THEN "merge" ELSE "refused", !.id = i, !.at = j]]
    /\ Quiet /\ UNCHANGED <<cache, late>>
\* What is below i comes below j, and i goes.
Merged(i, j) ==
  [k \in Ids |-> IF k = i THEN Null
                 ELSE IF rows[k] # Null /\ rows[k].parent = i
                      THEN [rows[k] EXCEPT !.parent = IF i = j THEN Null ELSE j]
                 ELSE rows[k]]
\* ... and in one transaction what refers to i comes to refer to j.  Merged
\* with itself, i is kept by a recipe but not by a stock row alone.
MergeCommit(r) ==
  LET i == req[r].id
      j == req[r].at
      dangling == rows[j] = Null /\ (i \in used \/ \E k \in Present(rows) : rows[k].parent = i)
  IN  /\ req[r].pc = "merge"
      /\ \/ /\ dangling \/ (i = j /\ i \in used)
            /\ Step(r, "refused") /\ UNCHANGED <<rows, used, version, unchecked>>
         \/ /\ ~dangling
            /\ Step(r, "clear")
            /\ rows' = Merged(i, j)
            /\ used' = IF i \in used /\ i # j THEN (used \ {i}) \cup {j} ELSE used \ {i}
            /\ version' = version + 1
            /\ unchecked' = (unchecked \/ (i # j /\ Contains(Ancestors(rows, j), i)))
      /\ UNCHANGED <<cache, late, added, Stage>>
\* mapSynonym: the row is read and written back with one name more, uncleared.
SynonymRead(r) ==
  \E i \in Targets \cap Present(rows), n \in Names :
    /\ req[r].pc = "new"
    /\ req' = [req EXCEPT ![r] = [NewReq EXCEPT
         !.pc = IF Contains(rows[i].syn, n) THEN "refused" ELSE "save synonym",
         !.id = i, !.list = <<[rows[i] EXCEPT !.syn = Append(@, n)]>>]]
    /\ Quiet /\ UNCHANGED <<cache, late>>
SynonymSave(r) ==
  LET i    == req[r].id
      row  == req[r].list[1]
      back == ~Agree(rows[i], row)   \* another's write is undone
  IN  /\ req[r].pc = "save synonym"
      /\ IF row.parent # Null /\ rows[row.parent] = Null
         THEN Step(r, "refused") /\ UNCHANGED <<rows, version, unchecked, late>>
         ELSE /\ Step(r, "done")
              /\ rows' = [rows EXCEPT ![i] = row]
              /\ version' = version + 1
              /\ unchecked' = (unchecked \/ back)
              /\ late' = IF back THEN late \cup {e \in Entries : cache[e] # Null /\ ~Alike(rows', added, e, cache[e])}
                         ELSE late
      /\ UNCHANGED <<used, cache, added, Stage>>
\* mapIngredientsToEntities: a name of a generated recipe that no row has gets one.
GeneratedRead(r) ==
  \E i \in Ids \ Present(rows) :
    /\ req[r].pc = "new"
    /\ req' = [req EXCEPT ![r] = [NewReq EXCEPT !.pc = "generated", !.id = i]]
    /\ Quiet /\ UNCHANGED <<cache, late>>
GeneratedInsert(r) ==
  LET i == req[r].id
  IN  /\ req[r].pc = "generated"
      /\ IF rows[i] # Null
         THEN Step(r, "refused") /\ UNCHANGED <<rows, version, added>>
         ELSE /\ Step(r, "done")
              /\ \E unit \in GeneratedUnits : rows' = [rows EXCEPT ![i] = [parent |-> Null, unit |-> unit, syn |-> <<>>]]
              /\ version' = version + 1
              /\ added' = added \cup {i}
      /\ UNCHANGED <<used, cache, late, unchecked, Stage>>
\* Variant: the lists of relatives stay.
ClearCacheRows(r) ==
  /\ req[r].pc = "clear"
  /\ Step(r, "done")
  /\ cache' = [e \in Entries |-> IF e[1] \in {"up", "down"} THEN cache[e] ELSE Null]
  /\ late' = {e \in late : e[1] \in {"up", "down"}}
  /\ Quiet
\* clearCache, behind a write of ingredients.service.ts, a merge or a promotion.
ClearCache(r) ==
  /\ req[r].pc = "clear"
  /\ Step(r, "done")
  /\ cache' = [e \in Entries |-> Null]
  /\ late' = {}
  /\ Quiet
\* A recipe comes to use an ingredient.
Use(i) ==
  /\ i \in Present(rows) \ used
  /\ used' = used \cup {i}
  /\ UNCHANGED <<rows, cache, req, version, unchecked, late, added, Stage>>

Init ==
  /\ \E start \in Starts : rows = start.rows /\ cast = start.cast
  /\ lapses = 0
  /\ used = {}
  /\ cache = [e \in Entries |-> Null]
  /\ req = [r \in Requests |-> NewReq]
  /\ version = 0 /\ unchecked = FALSE /\ late = {} /\ added = {}
Next ==
  \/ \E r \in cast : AskHit(r) \/ AskMiss(r) \/ AskFill(r)
  \/ \E r \in cast \cap Walkers : UpStart(r) \/ UpStore(r) \/ DownStart(r) \/ DownStore(r)
  \/ \E r \in cast \cap Searchers :
       \/ SearchName(r) \/ SearchFillName(r) \/ SearchCached(r)
       \/ SearchRead(r) \/ SearchFill(r)
  \/ \E r \in cast \cap Writers :
       \/ UpdateRead(r) \/ UpdateUnits(r) \/ UpdateSave(r) \/ CreateCheck(r)
       \/ CreateSave(r) \/ RemoveRead(r) \/ RemoveRow(r) \/ ClearCache(r)
       \/ PromoteRead(r) \/ MergeRead(r) \/ MergeCommit(r)
       \/ SynonymRead(r) \/ SynonymSave(r) \/ GeneratedRead(r) \/ GeneratedInsert(r)
  \/ \E e \in Entries : Lapse(e)
  \/ \E i \in Targets : Use(i)
Spec == Init /\ [][Next]_vars

(******************************** properties *******************************)
\* A cycle in the table, or a search that walks up one for ever, takes a row
\* written back over another write, a parent checked against a stale entry
\* (detectCycle reads through the cache, and nothing locks the chain), or the
\* merge of an ingredient into one below it, which nothing checks.
CyclesAreUnchecked ==
  ~unchecked => Acyclic(rows) /\ \A r \in Searchers : req[r].pc # "hangs"

\* An entry that differs from the table is about to be cleared, or a request
\* that a write had overtaken made it wrong: put it there, or wrote a row back
\* with a synonym.  Only synonyms, and in the list of all the rows that came
\* with generated recipes, are missed longer: nothing clears for them.
StaleOnlyByRace ==
  \A e \in Entries :
    cache[e] # Null /\ ~Alike(rows, added, e, cache[e])
      => e \in late \/ \E r \in Writers : req[r].pc = "clear"
=============================================================================
