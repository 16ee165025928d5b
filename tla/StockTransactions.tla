------------------------- MODULE StockTransactions -------------------------
(***************************************************************************)
(* The transactions on bar_inventory, statement by statement, under        *)
(* PostgreSQL's row locks at READ COMMITTED: what admins add, set and merge *)
(* (bar-inventory.service.ts, admin.service.ts) against the order and the   *)
(* undo of the worker (bar-orders.processor.ts).                            *)
(*                                                                         *)
(* The table has one row an ingredient (@Unique), so rows are named by      *)
(* their ingredients.  The lock of an ingredient stands for its stock row,  *)
(* for the entry of the unique index that an INSERT holds until it commits, *)
(* and for the ingredient row that a foreign key or a DELETE locks.         *)
(***************************************************************************)
EXTENDS Integers, Sequences, FiniteSets, Functions

CONSTANTS
  Txs,          \* transactions
  Ingredients,  \* a set of numbers: the order of the ids
  Request,      \* [Txs -> requests]
  InitStock,    \* [Ingredients -> Nat \cup {Absent}]
  MaxRows,      \* 10,000 in the code
  Absent,       \* no row
  Nobody        \* no owner, nothing awaited, nothing written

Kinds == {"add", "bulk-add", "set", "order", "undo", "merge"}
\* The items of a merge are its source and its target; one ingredient at a time is
\* added or set.
Item == [ing: Ingredients, amount: Nat]
Quantity == Nat \cup {Absent}

ASSUME IngredientsAssumption == Ingredients \subseteq Nat /\ IsFiniteSet(Ingredients)
ASSUME NamesAssumption == Absent \notin Int \cup {Nobody} /\ Nobody \notin Txs \cup Int
ASSUME RequestAssumption ==
  /\ Request \in [Txs -> [kind: Kinds, items: Seq(Item)]]
  /\ \A t \in Txs : /\ Request[t].items # <<>>
                    /\ Request[t].kind \in {"add", "set"} => Len(Request[t].items) = 1
                    /\ Request[t].kind = "merge" =>
                         /\ Len(Request[t].items) = 2
                         /\ Request[t].items[1].ing # Request[t].items[2].ing
ASSUME InitAssumption == InitStock \in [Ingredients -> Quantity] /\ MaxRows \in Nat

VARIABLES
  stock,     \* committed quantities
  catalog,   \* committed ingredients
  owner,     \* who holds the lock of each ingredient
  pc,        \* next statement of each transaction, or how it ended
  item,      \* index of the item it is at
  want,      \* the lock it waits for
  seen,      \* the quantities it has read
  dirty,     \* its uncommitted quantities, Nobody where it wrote nothing
  skipped    \* the items that an undo passed over

data == <<stock, catalog>>
private == <<seen, dirty, skipped>>
vars == <<data, owner, pc, item, want, private>>

Ended == {"committed", "refused", "duplicate", "deadlock"}
Running(t) == pc[t] \notin Ended \cup {"new"}

Kind(t) == Request[t].kind
\* Variant: bulkAdd takes its items as they come.
ItemsUnsorted(t) == Request[t].items
\* The order in which a sort by ingredient puts the items s; equal ones stay as they are.
Sorting(s, p) == \A j, k \in DOMAIN s : j < k =>
  s[p[j]].ing <= s[p[k]].ing /\ (s[p[j]].ing = s[p[k]].ing => p[j] < p[k])
Sorted(s) == LET p == CHOOSE p \in Bijection(DOMAIN s, DOMAIN s) : Sorting(s, p)
             IN  [k \in DOMAIN s |-> s[p[k]]]
\* bulkAdd sorts its items by ingredient, the others take them as they come.
Items(t) == IF Kind(t) = "bulk-add" THEN Sorted(Request[t].items) ELSE Request[t].items
This(t) == Items(t)[item[t]]
Source(t) == Items(t)[1].ing
Target(t) == Items(t)[2].ing
Wanted(t) == {Items(t)[k].ing : k \in DOMAIN Items(t)}
\* What the first n items ask for of an ingredient, and what all of them do.
AmountTo(t, i) ==
  LET sum[n \in 0..Len(Items(t))] ==
        IF n = 0 THEN 0
        ELSE sum[n - 1] + (IF Items(t)[n].ing = i THEN Items(t)[n].amount ELSE 0)
  IN  sum
Amount(t, i) == AmountTo(t, i)[Len(Items(t))]

Init ==
  /\ stock = InitStock
  /\ catalog = Ingredients
  /\ owner = [i \in Ingredients |-> Nobody]
  /\ pc = [t \in Txs |-> "new"]
  /\ item = [t \in Txs |-> 1]
  /\ want = [t \in Txs |-> Nobody]
  /\ seen = [t \in Txs |-> [i \in Ingredients |-> Absent]]
  /\ dirty = [t \in Txs |-> [i \in Ingredients |-> Nobody]]
  /\ skipped = [t \in Txs |-> {}]

Owned(t) == {i \in Ingredients : owner[i] = t}
View(t, i) == IF dirty[t][i] # Nobody THEN dirty[t][i] ELSE stock[i]
Present(S) == {i \in S : stock[i] # Absent}

\* Variant: admins read the row without FOR UPDATE.
LocksNoSelect(t) ==
  CASE pc[t] = "lock" /\ Kind(t) = "undo" -> Present({This(t).ing})
    [] pc[t] = "scan" -> Present(Wanted(t))
    [] pc[t] \in {"save", "assign", "restore", "take"} -> {This(t).ing}
    [] pc[t] = "into" /\ seen[t][Source(t)] # Absent ->
         IF seen[t][Target(t)] # Absent THEN {Target(t)} ELSE {Source(t), Target(t)}
    [] pc[t] \in {"drop", "unlist"} -> {Source(t)}
    [] OTHER -> {}
\* The locks that the next statement of t takes.  SELECT ... FOR UPDATE finds
\* only committed rows; an INSERT waits for an uncommitted one.
Locks(t) ==
  CASE pc[t] = "lock" -> Present({This(t).ing})
    [] pc[t] = "scan" -> Present(Wanted(t))
    [] pc[t] \in {"save", "assign", "restore", "take"} -> {This(t).ing}
    [] pc[t] = "into" /\ seen[t][Source(t)] # Absent ->
         IF seen[t][Target(t)] # Absent THEN {Target(t)} ELSE {Source(t), Target(t)}
    [] pc[t] \in {"drop", "unlist"} -> {Source(t)}
    [] OTHER -> {}

-----------------------------------------------------------------------------
(* Statements, locks and the end of a transaction                          *)

\* A transaction waits no more when the row it waits for has gone away.
Waits(t) == want[t] \in Locks(t)

\* A statement takes its locks one by one, in the order of its scan, and waits
\* where somebody else is the owner.
Acquire(t, i) ==
  /\ i \in Locks(t) \ Owned(t)
  /\ Waits(t) => want[t] = i
  /\ \/ /\ owner[i] = Nobody
        /\ owner' = [owner EXCEPT ![i] = t]
        /\ want' = [want EXCEPT ![t] = Nobody]
     \/ /\ owner[i] # Nobody /\ want[t] # i
        /\ want' = [want EXCEPT ![t] = i]
        /\ UNCHANGED owner
  /\ UNCHANGED <<data, pc, item, private>>

\* A statement runs when it has its locks.
At(t, statement) == pc[t] = statement /\ Locks(t) \subseteq Owned(t)

\* Where a transaction goes on with its next item.
Loop(t) == IF Kind(t) = "order" THEN "take" ELSE "find"

\* On to another statement, or to the next item and to the commit after the last.
Proceed(t, next) ==
  LET more == next = "next" /\ item[t] < Len(Items(t))
  IN  /\ pc' = [pc EXCEPT ![t] = CASE next # "next" -> next
                                   [] more -> Loop(t)
                                   [] OTHER -> "commit"]
      /\ item' = IF more THEN [item EXCEPT ![t] = @ + 1] ELSE item
      /\ want' = [want EXCEPT ![t] = Nobody]
      /\ UNCHANGED <<data, owner>>

Write(t, new, next) ==
  /\ dirty' = [dirty EXCEPT ![t] = new]
  /\ Proceed(t, next)
  /\ UNCHANGED <<seen, skipped>>

\* Variant: a transaction that fails keeps its locks.
EndHolding(t, how) ==
  /\ pc' = [pc EXCEPT ![t] = how]
  /\ want' = [want EXCEPT ![t] = Nobody]
  /\ owner' = [i \in Ingredients |->
                 IF owner[i] = t /\ how = "committed" THEN Nobody ELSE owner[i]]
  /\ dirty' = [dirty EXCEPT ![t] = [i \in Ingredients |-> Nobody]]
  /\ UNCHANGED <<item, seen, skipped>>
\* The end of a transaction lets its locks go and drops what it has written.
End(t, how) ==
  /\ pc' = [pc EXCEPT ![t] = how]
  /\ want' = [want EXCEPT ![t] = Nobody]
  /\ owner' = [i \in Ingredients |-> IF owner[i] = t THEN Nobody ELSE owner[i]]
  /\ dirty' = [dirty EXCEPT ![t] = [i \in Ingredients |-> Nobody]]
  /\ UNCHANGED <<item, seen, skipped>>

Rollback(t, reason) == End(t, reason) /\ UNCHANGED data

Commit(t) ==
  /\ pc[t] = "commit"
  /\ stock' = [i \in Ingredients |-> View(t, i)]
  /\ catalog' = IF Kind(t) = "merge" THEN catalog \ {Source(t)} ELSE catalog
  /\ End(t, "committed")

\* An INSERT fails if the ingredient is gone, or if another transaction has
\* committed the row since it was looked for.
Insert(t, i, q, next) ==
  IF i \notin catalog THEN Rollback(t, "refused")
  ELSE IF View(t, i) # Absent THEN Rollback(t, "duplicate")
  ELSE Write(t, [dirty[t] EXCEPT ![i] = q], next)

\* Everyone in S waits for a lock of another one in S.
Entangled(S) == \A t \in S : Waits(t) /\ owner[want[t]] \in S \ {t}
InCycle(t) ==
  \E S \in SUBSET Txs :
    /\ t \in S /\ Entangled(S)
    /\ \A R \in SUBSET S : Entangled(R) => R \in {{}, S}

\* The deadlock detector breaks a cycle by an error in one of its transactions.
Detect(t) == InCycle(t) /\ Rollback(t, "deadlock")

\* The worker runs one job at a time, admins come as they like.
ByWorker(t) == Kind(t) \in {"order", "undo"}
Begin(t) ==
  /\ pc[t] = "new"
  /\ ByWorker(t) => ~\E u \in Txs : ByWorker(u) /\ Running(u)
  /\ Proceed(t, CASE Kind(t) = "order" -> "scan" [] Kind(t) = "set" -> "lock"
                  [] Kind(t) = "merge" -> "check" [] OTHER -> "find")
  /\ UNCHANGED private

-----------------------------------------------------------------------------
(* addToInventory, bulkAdd, updateInventoryItem, and processBatchUndo      *)

\* The ingredient is read first; an undo passes over an item without one.
Find(t) ==
  /\ At(t, "find")
  /\ IF This(t).ing \in catalog
     THEN Proceed(t, "lock") /\ UNCHANGED private
     ELSE IF Kind(t) = "undo"
     THEN /\ Proceed(t, "next")
          /\ skipped' = [skipped EXCEPT ![t] = @ \cup {item[t]}]
          /\ UNCHANGED <<seen, dirty>>
     ELSE Rollback(t, "refused")

\* SELECT ... FOR UPDATE of one row.
LockRow(t) ==
  LET q == View(t, This(t).ing)
  IN  /\ At(t, "lock")
      /\ IF Kind(t) = "set" /\ q = Absent
         THEN Rollback(t, "refused")
         ELSE /\ seen' = [seen EXCEPT ![t][This(t).ing] = q]
              /\ Proceed(t, CASE Kind(t) = "set" -> "assign"
                              [] Kind(t) = "undo" -> "restore" [] OTHER -> "count")
              /\ UNCHANGED <<dirty, skipped>>

\* A new row is counted against the limit first.
CountRows(t) ==
  /\ At(t, "count")
  /\ IF /\ seen[t][This(t).ing] = Absent
        /\ Cardinality({i \in Ingredients : View(t, i) # Absent}) >= MaxRows
     THEN Rollback(t, "refused")
     ELSE Proceed(t, "save") /\ UNCHANGED private

\* The sum is made in memory from the quantity that was read.
Save(t) ==
  LET i == This(t).ing
  IN  /\ At(t, "save")
      /\ IF seen[t][i] = Absent
         THEN Insert(t, i, This(t).amount, "next")
         ELSE Write(t, [dirty[t] EXCEPT ![i] = seen[t][i] + This(t).amount], "next")

Assign(t) ==
  /\ At(t, "assign")
  /\ Write(t, [dirty[t] EXCEPT ![This(t).ing] = This(t).amount], "commit")

\* The sum is made by the UPDATE.
Restore(t) ==
  LET i == This(t).ing
  IN  /\ At(t, "restore")
      /\ IF seen[t][i] = Absent
         THEN Insert(t, i, This(t).amount, "next")
         ELSE Write(t, [dirty[t] EXCEPT ![i] = View(t, i) + This(t).amount], "next")

-----------------------------------------------------------------------------
(* The order of the worker                                                 *)

\* One SELECT ... FOR UPDATE locks all rows, and the order is planned on them.
Scan(t) ==
  /\ At(t, "scan")
  /\ IF \A i \in Wanted(t) : stock[i] # Absent /\ stock[i] >= Amount(t, i)
     THEN Proceed(t, "take") /\ UNCHANGED private
     ELSE Rollback(t, "refused")

\* The UPDATE takes nothing where there is not enough, and the order fails.
Take(t) ==
  LET i == This(t).ing
      q == View(t, i)
  IN  /\ At(t, "take")
      /\ IF q = Absent THEN Rollback(t, "refused")
         ELSE IF q < This(t).amount THEN Rollback(t, "refused")
         ELSE Write(t, [dirty[t] EXCEPT ![i] = q - This(t).amount], "next")

-----------------------------------------------------------------------------
(* mergeIngredients                                                        *)

CheckMerge(t) ==
  /\ At(t, "check")
  /\ IF {Source(t), Target(t)} \subseteq catalog
     THEN Proceed(t, "source") /\ UNCHANGED private
     ELSE Rollback(t, "refused")

\* A row is read without a lock.
Read(t, i, next) ==
  /\ seen' = [seen EXCEPT ![t][i] = stock[i]]
  /\ Proceed(t, next)
  /\ UNCHANGED <<dirty, skipped>>
ReadSource(t) == At(t, "source") /\ Read(t, Source(t), "target")
ReadTarget(t) == At(t, "target") /\ Read(t, Target(t), "into")

\* The target gets the sum of what was read, or the source's row itself.  save
\* compares with the row as it is now: a quantity that has changed since is
\* written back, unless it changes after that comparison.
MergeInto(t) ==
  LET s == Source(t)
      d == Target(t)
      sum == seen[t][s] + seen[t][d]
  IN  /\ At(t, "into")
      /\ CASE seen[t][s] = Absent ->
                Proceed(t, "unlist") /\ UNCHANGED private
           [] seen[t][s] # Absent /\ seen[t][d] # Absent ->
                IF stock[d] # Absent THEN Write(t, [dirty[t] EXCEPT ![d] = sum], "drop")
                                     ELSE Insert(t, d, sum, "drop")
           [] seen[t][s] # Absent /\ seen[t][d] = Absent ->
                IF d \notin catalog THEN Rollback(t, "refused")
                ELSE IF stock[d] # Absent THEN Rollback(t, "duplicate")
                ELSE \E q \in {seen[t][s]} \cup ({stock[s]} \ {Absent}) :
                       Write(t, [dirty[t] EXCEPT ![d] = q, ![s] = Absent], "unlist")

DropSource(t) ==
  /\ At(t, "drop")
  /\ Write(t, [dirty[t] EXCEPT ![Source(t)] = Absent], "unlist")

\* Deleting the ingredient deletes its stock row, whoever put it there.
Unlist(t) ==
  /\ At(t, "unlist")
  /\ Write(t, [dirty[t] EXCEPT ![Source(t)] = Absent], "commit")

-----------------------------------------------------------------------------
Statement(t) ==
  \/ Begin(t) \/ Find(t) \/ LockRow(t) \/ CountRows(t) \/ Save(t) \/ Assign(t)
  \/ Restore(t) \/ Scan(t) \/ Take(t) \/ CheckMerge(t)
  \/ ReadSource(t) \/ ReadTarget(t)
  \/ MergeInto(t) \/ DropSource(t) \/ Unlist(t) \/ Commit(t)
  \/ \E i \in Ingredients : Acquire(t, i)

Next == \E t \in Txs : Statement(t) \/ Detect(t)

Spec == Init /\ [][Next]_vars

\* A transaction that has been asked for goes on while it is not waiting, and
\* the deadlock detector looks again and again.
FairSpec ==
  Spec /\ \A t \in Txs : WF_vars(Statement(t)) /\ WF_vars(Detect(t))

-----------------------------------------------------------------------------
(* Properties                                                              *)

\* What a transaction other than a merge is for, run alone on the stock s.
Plus(q, n) == IF q = Absent THEN n ELSE q + n
Effect(t, s) ==
  [i \in Ingredients |->
     IF i \notin Wanted(t) THEN s[i]
     ELSE CASE Kind(t) = "set" -> This(t).amount
            [] Kind(t) = "order" -> s[i] - Amount(t, i)
            [] OTHER -> Plus(s[i], Amount(t, i))]

Commits(t) == pc[t] # "committed" /\ pc'[t] = "committed"

\* No update is lost: an addition, a correction, an order or an undo (of all its
\* items) that commits changes the stock as if it had run alone at that moment,
\* whatever was committed since it began to read.
CommitsApply ==
  [][\A t \in Txs : Commits(t) /\ Kind(t) # "merge" /\ skipped[t] = {}
                      => stock' = Effect(t, stock)]_vars

\* Nobody waits in a circle.
NoDeadlock == \A t \in Txs : ~InCycle(t)

\* Every transaction comes to an end, by commit or by an error.
AllEnd == \A t \in Txs : <>(pc[t] \in Ended)
=============================================================================
