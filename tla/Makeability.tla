----------------------------- MODULE Makeability ----------------------------
(***************************************************************************)
(* The cached pages of makeability.service.ts against the stock they are    *)
(* computed from.  An inventory edit clears the pages inside its            *)
(* transaction, before the commit; the order worker changes the stock and   *)
(* clears nothing; an entry lives for a minute.  The stock is its version.  *)
(***************************************************************************)
EXTENDS RedisCache

CONSTANTS Editors,    \* inventory edits, one transaction each
          Orders,     \* how many orders the worker commits
          Readers,    \* requests for a page, one each
          PageTime    \* life of a cached page (60 seconds)

ASSUME MakeabilityAssumption == Orders \in Nat /\ PageTime \in Nat \ {0}

VARIABLES version,   \* of the committed stock
          replaced,  \* history: when each earlier version was replaced
          served,    \* orders committed
          edit,      \* editors: "new", "cleared", "done"
          reader,    \* readers: next step, page and version read
          answer     \* history: the last answer given, version and time

pageVars == <<version, replaced, served, edit, reader, answer>>

CommitStock ==
  /\ version' = version + 1
  /\ replaced' = Append(replaced, now)

\* addToInventory, updateInventoryItem, ...: the write waits for its commit
\* while clearMakeabilityCache runs.
EditClear(e) ==
  /\ edit[e] = "new"
  /\ edit' = [edit EXCEPT ![e] = "cleared"]
  /\ \E whole \in BOOLEAN : cache' = Invalidated(whole)
  /\ UNCHANGED <<now, version, replaced, served, reader, answer>>
EditCommit(e) ==
  /\ edit[e] = "cleared"
  /\ edit' = [edit EXCEPT ![e] = "done"]
  /\ CommitStock
  /\ UNCHANGED <<cacheVars, served, reader, answer>>
OrderCommit ==
  /\ served < Orders
  /\ served' = served + 1
  /\ CommitStock
  /\ UNCHANGED <<cacheVars, edit, reader, answer>>

\* Variant: a hit puts the entry back with a new lifetime.
ReadCachedSliding(r) ==
  \E p \in PageKeys :
    /\ reader[r].pc = "new"
    /\ Get(p) # Null
    /\ cache' = Put(p, Get(p), PageTime)
    /\ reader' = [reader EXCEPT ![r].pc = "done"]
    /\ answer' = [ver |-> Get(p), at |-> now]
    /\ UNCHANGED <<now, version, replaced, served, edit>>
\* getMakeableCocktails: a hit is answered from the cache ...
ReadCached(r) ==
  \E p \in PageKeys :
    /\ reader[r].pc = "new"
    /\ Get(p) # Null
    /\ reader' = [reader EXCEPT ![r].pc = "done"]
    /\ answer' = [ver |-> Get(p), at |-> now]
    /\ UNCHANGED <<cacheVars, version, replaced, served, edit>>
\* ... a miss reads the stock, computes, and puts the page there.
ReadStock(r) ==
  \E p \in PageKeys :
    /\ reader[r].pc = "new"
    /\ Get(p) = Null
    /\ reader' = [reader EXCEPT ![r] = [pc |-> "fill", page |-> p, ver |-> version]]
    /\ UNCHANGED <<cacheVars, version, replaced, served, edit, answer>>
FillPage(r) ==
  /\ reader[r].pc = "fill"
  /\ cache' = Put(reader[r].page, reader[r].ver, PageTime)
  /\ reader' = [reader EXCEPT ![r].pc = "done"]
  /\ answer' = [ver |-> reader[r].ver, at |-> now]
  /\ UNCHANGED <<now, version, replaced, served, edit>>

PageInit ==
  /\ version = 0 /\ replaced = <<>> /\ served = 0
  /\ edit = [e \in Editors |-> "new"]
  /\ reader = [r \in Readers |-> [pc |-> "new", page |-> Null, ver |-> 0]]
  /\ answer = [ver |-> 0, at |-> 0]
\* The steps of the editors E, the readers R and, if there are any, the worker.
PageNext(E, R) ==
  \/ \E e \in E : EditClear(e) \/ EditCommit(e)
  \/ R # {} /\ OrderCommit
  \/ \E r \in R : ReadCached(r) \/ ReadStock(r) \/ FillPage(r)
\* Computing a page takes less than a unit of the clock.
PageQuiet == \A r \in Readers : reader[r].pc # "fill"

\* Whatever is cleared too early or not at all, an answer shows a stock that
\* was in force at most PageTime ago (getMakeableCocktails against edits that
\* clear before they commit, and the worker that never clears).
AnswersBounded ==
  LET v == answer.ver
  IN  v < version => answer.at <= replaced[v + 1] + PageTime
=============================================================================
