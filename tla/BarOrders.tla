----------------------------- MODULE BarOrders -----------------------------
(***************************************************************************)
(* The order pipeline of MixologyHub: the HTTP handlers that create,       *)
(* cancel and undo preparations (cocktails.service.ts), the single BullMQ  *)
(* worker that executes them as PostgreSQL transactions                    *)
(* (bar-orders.processor.ts), and the admin handlers that change the same  *)
(* bar_inventory rows directly (bar-inventory.service.ts).                 *)
(*                                                                         *)
(* PostgreSQL runs at READ COMMITTED.  A variable of the section "database *)
(* tables" is committed state; what an open transaction has written is in  *)
(* the section "worker process" until it commits, and "held" are the rows  *)
(* it has locked.  An admin transaction touches its rows under one lock    *)
(* statement, so it is one action that waits for the worker's locks; so is *)
(* the autocommitted UPDATE of a cancellation.                             *)
(***************************************************************************)
EXTENDS Integers, Sequences, FiniteSets, FiniteSetsExt

CONSTANTS
  Orders,         \* preparation log ids
  Rows,           \* ids of bar_inventory rows, past and future
  Ingredients,    \* the ingredient catalog
  Nil,            \* no ingredient, no row
  Kind,           \* [Orders -> JobKinds]: single order or batch
  Recipe,         \* [Orders -> Seq(Requirement)], amounts in base units
  Below,          \* [Ingredients -> SUBSET Ingredients]: an ingredient and its descendants
  Subs,           \* [Ingredients -> SUBSET Ingredients]: those, and the synonyms
  InitIng,        \* [Rows -> Ingredients \cup {Nil}]
  InitQty,        \* [Rows -> Nat]
  Supplies,       \* the quantities an admin types in
  MaxErrors,      \* bound: statements that fail
  MaxCrashes,     \* bound: crashes of the process
  MaxCancels,     \* bound: cancel requests
  MaxUndos,       \* bound: undo requests
  MaxAdmin,       \* bound: admin requests
  MaxAge          \* bound: 0 fresh, 1 past 15 minutes, 2 past 16 minutes

JobKinds == {"prepare", "batch-prepare"}
Failed == {"failed_insufficient_stock", "failed_other"}
Terminal == Failed \cup {"completed", "cancelled"}
\* "none": the row of the log is not inserted yet.
Statuses == Terminal \cup {"none", "queued", "evaluating", "preparing"}

\* One recipe line.  lenient: garnish, rinse, optional or a forced order.
Requirement == [ing: Ingredients, amount: Nat, lenient: BOOLEAN]

ASSUME RowsAssumption == IsFiniteSet(Rows) /\ Nil \notin Ingredients \cup Rows
ASSUME RecipeAssumption ==
  /\ Kind \in [Orders -> JobKinds]
  /\ Recipe \in [Orders -> Seq(Requirement)]
  /\ Below \in [Ingredients -> SUBSET Ingredients] /\ Subs \in [Ingredients -> SUBSET Ingredients]
  /\ \A i \in Ingredients : i \in Below[i] /\ Below[i] \subseteq Subs[i]
ASSUME StockAssumption ==
  /\ InitIng \in [Rows -> Ingredients \cup {Nil}]
  /\ InitQty \in [Rows -> Nat]
  /\ \A r \in Rows : InitIng[r] = Nil => InitQty[r] = 0
  /\ \A r, s \in Rows : InitIng[r] = InitIng[s] /\ InitIng[r] # Nil => r = s
  /\ Supplies \subseteq Nat
ASSUME BoundsAssumption ==
  /\ {MaxErrors, MaxCrashes, MaxCancels, MaxUndos, MaxAdmin} \subseteq Nat
  /\ MaxAge \in 0..2

\* An element of deductedIngredients.  ing is the ingredient the recipe asks
\* for, actual and row say what was taken from where.
Taken == [ing: Ingredients, actual: Ingredients, row: Rows, amount: Nat,
          skipped: {FALSE}]
Skipped == [ing: Ingredients, actual: {Nil}, row: {Nil}, amount: {0},
            skipped: {TRUE}]
Entry == Taken \cup Skipped
LogRow == [status: Statuses, undone: BOOLEAN, deductions: Seq(Entry)]
Job == [type: JobKinds \cup {"batch-undo"}, order: Orders, stalls: Nat]
Columns == {"status", "undone", "deductions"}

EmptyLog == [status |-> "none", undone |-> FALSE, deductions |-> <<>>]
NoJob == [type |-> "none"]
Actors == {"error", "crash", "cancel", "undo", "admin"}
Limit == [error |-> MaxErrors, crash |-> MaxCrashes, cancel |-> MaxCancels,
          undo |-> MaxUndos, admin |-> MaxAdmin]

\* maxStalledCount of BullMQ, left at its default by queue.module.ts.
MaxStalledCount == 1

VARIABLES
  \* database tables
  log,        \* preparation_logs
  ing,        \* bar_inventory.ingredient_id
  qty,        \* bar_inventory.quantity
  \* the bar-orders queue in Redis
  waiting,    \* jobs to do
  orphans,    \* active jobs whose worker process died
  \* worker process
  pc,         \* next statement of the processor
  job,        \* the job it runs
  draft,      \* the PreparationLog entity in memory
  entries,    \* the deductions collected so far
  held,       \* inventory rows locked or written by its transaction
  rem,        \* remainingStock: quantities read when the rows were locked
  drawn,      \* uncommitted decrease of each row's quantity
  made,       \* uncommitted ingredient of rows the transaction inserted
  step,       \* requirement or deduction being processed
  need,       \* remainingToDeduct
  failure,    \* status to record after a rollback
  \* HTTP handlers in flight
  enqueuing,  \* orders whose log is saved and whose job is not added yet
  undoing,    \* undo requests that passed their checks
  cancel,     \* cancel requests: snapshot read and columns to write
  deleting,   \* rows a bulk delete is about to remove
  \* environment and history
  born,       \* row ids ever allocated
  age,        \* time since createdAt of each log
  used,       \* how often each bounded actor has acted
  supplied,   \* net quantity admins put in, by ingredient
  tally       \* per order: deliveries of its job, commits of a deduction, of a restoration

tables == <<log, ing, qty>>
queue == <<waiting, orphans>>
tx == <<draft, entries, held, rem, drawn, made, step, need>>
worker == <<pc, job, tx, failure>>
handlers == <<enqueuing, undoing, cancel, deleting>>
history == <<born, age, used, supplied, tally>>
vars == <<tables, queue, worker, handlers, history>>

IdleCancel == [pc |-> "idle", row |-> EmptyLog, cols |-> {}]

Init ==
  /\ log = [o \in Orders |-> EmptyLog]
  /\ ing = InitIng /\ qty = InitQty
  /\ waiting = <<>> /\ orphans = <<>>
  /\ pc = "idle" /\ job = NoJob
  /\ draft = EmptyLog /\ entries = <<>> /\ held = {}
  /\ rem = [r \in Rows |-> 0] /\ drawn = [r \in Rows |-> 0]
  /\ made = [r \in Rows |-> Nil]
  /\ step = 0 /\ need = 0 /\ failure = "none"
  /\ enqueuing = {} /\ undoing = {} /\ deleting = {}
  /\ cancel = [o \in Orders |-> IdleCancel]
  /\ born = {r \in Rows : InitIng[r] # Nil}
  /\ age = [o \in Orders |-> 0]
  /\ used = [a \in Actors |-> 0]
  /\ supplied = [i \in Ingredients |-> 0]
  /\ tally = [o \in Orders |-> [delivered |-> 0, taken |-> 0, restored |-> 0]]

Spend(a) == used[a] < Limit[a] /\ used' = [used EXCEPT ![a] = @ + 1]

\* The rows as the worker's transaction sees them.
SeenIng(r) == IF made[r] # Nil THEN made[r] ELSE ing[r]
Exists(r) == ing[r] # Nil
RowOf(i) == {r \in Rows : SeenIng(r) = i}
\* Variant: the rows are read without FOR UPDATE.
FreeUnlocked(r) == TRUE
\* Nobody else writes a row that the worker has locked FOR UPDATE or written.
Free(r) == r \notin held

-----------------------------------------------------------------------------
(* HTTP handlers of cocktails.service.ts                                   *)

\* prepare and batchPrepare first save the log with status queued ...
SaveLog(o) ==
  /\ log[o].status = "none"
  /\ log' = [log EXCEPT ![o].status = "queued"]
  /\ enqueuing' = enqueuing \cup {o}
  /\ UNCHANGED <<ing, qty, queue, worker, undoing, cancel, deleting, history>>

\* ... and add the job to the queue in a second step.
AddPrepareJob(o) ==
  /\ o \in enqueuing
  /\ enqueuing' = enqueuing \ {o}
  /\ waiting' = Append(waiting, [type |-> Kind[o], order |-> o, stalls |-> 0])
  /\ UNCHANGED <<tables, orphans, worker, undoing, cancel, deleting, history>>

\* undo: status, undone flag and the 16-minute window are checked ...
UndoCheck(o) ==
  /\ o \notin undoing
  /\ log[o].status = "completed" /\ ~log[o].undone
  /\ age[o] < 2
  /\ Spend("undo")
  /\ undoing' = undoing \cup {o}
  /\ UNCHANGED <<tables, queue, worker, enqueuing, cancel, deleting,
                 born, age, supplied, tally>>

\* ... then the job is added.  Its type is batch-undo for every order: the
\* cocktail_id column is declared insert: false, update: false and is NULL.
AddUndoJob(o) ==
  /\ o \in undoing
  /\ undoing' = undoing \ {o}
  /\ waiting' = Append(waiting, [type |-> "batch-undo", order |-> o, stalls |-> 0])
  /\ UNCHANGED <<tables, orphans, worker, enqueuing, cancel, deleting, history>>

\* cancelPreparation reads the log without a lock and rejects final states.
CancelRead(o) ==
  /\ cancel[o].pc = "idle"
  /\ log[o].status \notin Terminal \cup {"none", "preparing"}
  /\ Spend("cancel")
  /\ cancel' = [cancel EXCEPT ![o] = [pc |-> "save", row |-> log[o], cols |-> {}]]
  /\ UNCHANGED <<tables, queue, worker, enqueuing, undoing, deleting,
                 born, age, supplied, tally>>

\* repository.save loads the row again and keeps the columns that differ
\* from the entity in memory ...
CancelDiff(o) ==
  LET entity == [cancel[o].row EXCEPT !.status = "cancelled"]
  IN  /\ cancel[o].pc = "save"
      /\ cancel' = [cancel EXCEPT ![o] =
                      [pc |-> "update", row |-> entity,
                       cols |-> {c \in Columns : entity[c] # log[o][c]}]]
      /\ UNCHANGED <<tables, queue, worker, enqueuing, undoing, deleting, history>>

\* The log row is locked by the worker's own first UPDATE until it commits.
LogLocked(o) == pc \in {"lock", "require", "deduct"} /\ job.order = o

\* ... and writes exactly those columns, waiting for the row lock.
CancelUpdate(o) ==
  /\ cancel[o].pc = "update"
  /\ ~LogLocked(o)
  /\ LET new == cancel[o].row
         cols == cancel[o].cols
     IN  log' = [log EXCEPT
           ![o].status = IF "status" \in cols THEN new.status ELSE @,
           ![o].undone = IF "undone" \in cols THEN new.undone ELSE @,
           ![o].deductions = IF "deductions" \in cols THEN new.deductions ELSE @]
  /\ cancel' = [cancel EXCEPT ![o] = IdleCancel]
  /\ UNCHANGED <<ing, qty, queue, worker, enqueuing, undoing, deleting, history>>

-----------------------------------------------------------------------------
(* The worker: common parts of the four job processors                     *)

\* The end of the transaction, by commit or by rollback.
CloseTx ==
  /\ draft' = EmptyLog /\ entries' = <<>> /\ held' = {}
  /\ rem' = [r \in Rows |-> 0] /\ drawn' = [r \in Rows |-> 0]
  /\ made' = [r \in Rows |-> Nil]
  /\ step' = 0 /\ need' = 0

\* Commit: the written rows and the log become visible, the locks go.
Commit(row) ==
  /\ log' = [log EXCEPT ![job.order] = row]
  /\ qty' = [r \in Rows |-> qty[r] - drawn[r]]
  /\ ing' = [r \in Rows |-> SeenIng(r)]
  /\ CloseTx
  /\ pc' = "ack"

\* A thrown error rolls the transaction back.  A preparation then records the
\* failure in a statement of its own; an undo only rethrows.
Abort(status) ==
  /\ CloseTx
  /\ pc' = IF job.type = "batch-undo" THEN "ack" ELSE "record"
  /\ failure' = IF job.type = "batch-undo" THEN "none" ELSE status

\* Variant: the catch handler also sees what is thrown after the commit.
InTxPastCommit == pc \in {"read", "save", "lock", "require", "deduct",
                          "check", "restore", "create", "ack"}
InTx == pc \in {"read", "save", "lock", "require", "deduct",
                "check", "restore", "create"}

\* BullMQ hands the oldest waiting job to the idle worker (concurrency 1).
Take ==
  /\ pc = "idle" /\ waiting # <<>>
  /\ job' = Head(waiting)
  /\ waiting' = Tail(waiting)
  /\ pc' = IF job'.type = "batch-undo" THEN "check" ELSE "read"
  /\ tally' = IF job'.type = "batch-undo" THEN tally
              ELSE [tally EXCEPT ![job'.order].delivered = @ + 1]
  /\ UNCHANGED <<tables, orphans, tx, failure, handlers, born, age, used, supplied>>

\* A statement fails (connection lost, cocktail gone, recipe corrupt).
Throw ==
  /\ InTx
  /\ Spend("error")
  /\ Abort("failed_other")
  /\ UNCHANGED <<tables, queue, job, handlers, born, age, supplied, tally>>

\* Variant: the failure is logged and not recorded.
RecordFailureLost ==
  /\ pc = "record"
  /\ pc' = "ack" /\ failure' = "none"
  /\ UNCHANGED <<tables, queue, job, tx, handlers, history>>

\* The catch handler's UPDATE, whatever the log says by now.  It is best
\* effort: an error in it is swallowed.
RecordFailure ==
  /\ pc = "record"
  /\ pc' = "ack" /\ failure' = "none"
  /\ \/ /\ log' = [log EXCEPT ![job.order].status = failure]
        /\ UNCHANGED used
     \/ Spend("error") /\ UNCHANGED log
  /\ UNCHANGED <<ing, qty, queue, job, tx, handlers, born, age, supplied, tally>>

\* Variant: undo jobs are tried again without end.
AckRequeued ==
  /\ pc = "ack"
  /\ pc' = "idle" /\ job' = NoJob
  /\ waiting' = IF job.type = "batch-undo" THEN Append(waiting, job) ELSE waiting
  /\ UNCHANGED <<tables, orphans, tx, failure, handlers, history>>

\* The processor has returned or thrown: BullMQ removes the job (attempts 1).
Ack ==
  /\ pc = "ack"
  /\ pc' = "idle" /\ job' = NoJob
  /\ UNCHANGED <<tables, queue, tx, failure, handlers, history>>

-----------------------------------------------------------------------------
(* processPrepare and processBatchPrepare                                  *)

ReadLog ==
  /\ pc = "read"
  /\ IF log[job.order].status = "cancelled"
     THEN pc' = "ack" /\ UNCHANGED draft
     ELSE pc' = "save" /\ draft' = log[job.order]
  /\ UNCHANGED <<tables, queue, job, entries, held, rem, drawn, made, step, need,
                 failure, handlers, history>>

\* save(log) with status evaluating: the row is locked from here on, and all
\* columns that differ by now are written over.
SaveEvaluating ==
  /\ pc = "save"
  /\ pc' = "lock"
  /\ draft' = [draft EXCEPT !.status = "evaluating"]
  /\ UNCHANGED <<tables, queue, job, entries, held, rem, drawn, made, step, need,
                 failure, handlers, history>>

Lines == Recipe[job.order]

\* A single order locks the rows of every descendant of what it needs, a
\* batch only the rows of the ingredients its recipes name.
LockScope ==
  UNION {IF job.type = "prepare" THEN Below[Lines[k].ing] ELSE {Lines[k].ing} :
           k \in DOMAIN Lines}

\* SELECT ... FOR UPDATE.
LockStock ==
  /\ pc = "lock"
  /\ pc' = "require" /\ step' = 1
  /\ held' = {r \in Rows : ing[r] \in LockScope}
  /\ rem' = [r \in Rows |-> IF r \in held' THEN qty[r] ELSE 0]
  /\ UNCHANGED <<tables, queue, job, draft, entries, drawn, made, need,
                 failure, handlers, history>>

Line == Lines[step]
\* Variant: any row with stock serves any ingredient.
EligibleAny == {r \in held : rem[r] > 0}
Eligible == {r \in held : ing[r] \in Subs[Line.ing]}
Available == MapThenSumSet(LAMBDA r : rem[r], Eligible)

\* Variant: lines are skipped without leave.
SkipLineAlways ==
  /\ pc = "require" /\ step \in DOMAIN Lines
  /\ Available < Line.amount
  /\ entries' = Append(entries, [ing |-> Line.ing, actual |-> Nil, row |-> Nil,
                                 amount |-> 0, skipped |-> TRUE])
  /\ step' = step + 1
  /\ UNCHANGED <<tables, queue, pc, job, draft, held, rem, drawn, made, need,
                 failure, handlers, history>>

\* A line the stock cannot cover is skipped if it is optional or forced.
SkipLine ==
  /\ pc = "require" /\ step \in DOMAIN Lines
  /\ Available < Line.amount /\ Line.lenient
  /\ entries' = Append(entries, [ing |-> Line.ing, actual |-> Nil, row |-> Nil,
                                 amount |-> 0, skipped |-> TRUE])
  /\ step' = step + 1
  /\ UNCHANGED <<tables, queue, pc, job, draft, held, rem, drawn, made, need,
                 failure, handlers, history>>

\* Any other line it cannot cover aborts the order.
RefuseLine ==
  /\ pc = "require" /\ step \in DOMAIN Lines
  /\ Available < Line.amount /\ ~Line.lenient
  /\ Abort("failed_insufficient_stock")
  /\ UNCHANGED <<tables, queue, job, handlers, history>>

\* A covered line is allocated.  The first allocation saves status preparing;
\* the status re-check just before it reads the transaction's own write.
AllocateLine ==
  /\ pc = "require" /\ step \in DOMAIN Lines
  /\ Available >= Line.amount
  /\ pc' = "deduct"
  /\ need' = Line.amount
  /\ draft' = IF Line.amount > 0 THEN [draft EXCEPT !.status = "preparing"] ELSE draft
  /\ UNCHANGED <<tables, queue, job, entries, held, rem, drawn, made, step,
                 failure, handlers, history>>

\* Variant: a row is emptied whatever is needed of it.
PortionWholeRow(r) == rem[r]
\* What is taken from one row: what is needed, or all it has.
Portion(r) == IF need < rem[r] THEN need ELSE rem[r]

\* One guarded UPDATE, on the fullest eligible row first.  The guard is on the
\* quantity in the database; remainingStock is only the worker's copy of it.
Deduct(r) ==
  LET amount == Portion(r)
  IN  /\ pc = "deduct" /\ need > 0
      /\ r \in Eligible /\ rem[r] > 0
      /\ \A s \in Eligible : rem[s] <= rem[r]
      /\ IF qty[r] - drawn[r] >= amount
         THEN /\ drawn' = [drawn EXCEPT ![r] = @ + amount]
              /\ rem' = [rem EXCEPT ![r] = @ - amount]
              /\ need' = need - amount
              /\ entries' = Append(entries,
                   [ing |-> Line.ing, actual |-> ing[r], row |-> r,
                    amount |-> amount, skipped |-> FALSE])
              /\ UNCHANGED <<pc, draft, held, made, step, failure>>
         ELSE Abort("failed_insufficient_stock")
      /\ UNCHANGED <<tables, queue, job, handlers, history>>

NextLine ==
  /\ pc = "deduct" /\ need = 0
  /\ pc' = "require" /\ step' = step + 1
  /\ UNCHANGED <<tables, queue, job, draft, entries, held, rem, drawn, made, need,
                 failure, handlers, history>>

\* Variant: completing an order clears its undone flag.
CompleteUnmarked ==
  /\ pc = "require" /\ step \notin DOMAIN Lines
  /\ Commit([status |-> "completed", undone |-> FALSE, deductions |-> entries])
  /\ tally' = [tally EXCEPT ![job.order].taken = @ + 1]
  /\ UNCHANGED <<queue, job, failure, handlers, born, age, used, supplied>>

\* The last save and the commit.  undone keeps the value read at the start.
Complete ==
  /\ pc = "require" /\ step \notin DOMAIN Lines
  /\ Commit([draft EXCEPT !.status = "completed", !.deductions = entries])
  /\ tally' = [tally EXCEPT ![job.order].taken = @ + 1]
  /\ UNCHANGED <<queue, job, failure, handlers, born, age, used, supplied>>

-----------------------------------------------------------------------------
(* processBatchUndo                                                        *)

\* Variant: the undone flag is not looked at.
UndoRefusedUnflagged(row) == row.status # "completed" \/ row.deductions = <<>>
UndoRefused(row) == row.status # "completed" \/ row.undone \/ row.deductions = <<>>

\* The log is read without a lock and checked again.
CheckUndo ==
  /\ pc = "check"
  /\ IF UndoRefused(log[job.order])
     THEN pc' = "ack" /\ UNCHANGED <<draft, step>>
     ELSE pc' = "restore" /\ draft' = log[job.order] /\ step' = 1
  /\ UNCHANGED <<tables, queue, job, entries, held, rem, drawn, made, need,
                 failure, handlers, history>>

Deduction == draft.deductions[step]

\* The stock row is looked up by the ingredient of the recipe line, whatever
\* row the deduction was taken from; without one it has to be created.
Restore ==
  /\ pc = "restore" /\ step \in DOMAIN draft.deductions
  /\ LET rows == RowOf(Deduction.ing)
         found == ~Deduction.skipped /\ rows # {}
     IN  /\ held' = IF found THEN held \cup rows ELSE held
         /\ drawn' = IF found
                     THEN [r \in Rows |-> IF r \in rows THEN drawn[r] - Deduction.amount
                                                        ELSE drawn[r]]
                     ELSE drawn
         /\ IF found \/ Deduction.skipped
            THEN step' = step + 1 /\ UNCHANGED pc
            ELSE pc' = "create" /\ UNCHANGED step
  /\ UNCHANGED <<tables, queue, job, draft, entries, rem, made, need,
                 failure, handlers, history>>

\* save({id: inventoryRowId, ingredient, quantity}) inserts that row, or writes
\* over it if it exists.  A row of the same ingredient that an admin committed
\* since the lookup violates the unique constraint.
CreateRow ==
  LET r == Deduction.row
  IN  /\ pc = "create"
      /\ IF RowOf(Deduction.ing) # {}
         THEN Abort("failed_other")
         ELSE /\ made' = [made EXCEPT ![r] = Deduction.ing]
              /\ drawn' = [drawn EXCEPT ![r] = qty[r] - Deduction.amount]
              /\ held' = held \cup {r}
              /\ step' = step + 1
              /\ pc' = "restore"
              /\ UNCHANGED <<draft, entries, rem, need, failure>>
      /\ UNCHANGED <<tables, queue, job, handlers, history>>

FinishUndo ==
  /\ pc = "restore" /\ step \notin DOMAIN draft.deductions
  /\ Commit([draft EXCEPT !.undone = TRUE])
  /\ tally' = [tally EXCEPT ![job.order].restored = @ + 1]
  /\ UNCHANGED <<queue, job, failure, handlers, born, age, used, supplied>>

-----------------------------------------------------------------------------
(* Process crash and BullMQ's recovery of the stalled job                  *)

\* API and worker are one Node process: the open transaction is rolled back,
\* handlers in flight are gone, the active job stays in Redis without a lock.
Crash ==
  /\ Spend("crash")
  /\ CloseTx
  /\ pc' = "idle" /\ job' = NoJob /\ failure' = "none"
  /\ orphans' = IF pc = "idle" THEN orphans ELSE Append(orphans, job)
  /\ enqueuing' = {} /\ undoing' = {} /\ deleting' = {}
  /\ cancel' = [o \in Orders |-> IdleCancel]
  /\ UNCHANGED <<tables, waiting, born, age, supplied, tally>>

\* Variant: stalls are not counted.
RecoverUncounted ==
  /\ orphans # <<>>
  /\ orphans' = Tail(orphans)
  /\ waiting' = <<Head(orphans)>> \o waiting
  /\ UNCHANGED <<tables, worker, handlers, history>>

\* The stalled check puts a job back in front once, then fails it for good.
Recover ==
  /\ orphans # <<>>
  /\ orphans' = Tail(orphans)
  /\ waiting' = IF Head(orphans).stalls < MaxStalledCount
                THEN <<[Head(orphans) EXCEPT !.stalls = @ + 1]>> \o waiting
                ELSE waiting
  /\ UNCHANGED <<tables, worker, handlers, history>>

-----------------------------------------------------------------------------
(* Admin handlers of bar-inventory.service.ts                              *)

\* A completed, not undone log of the last 15 minutes names the ingredient.
RecentlyUsed(i) ==
  \E o \in Orders :
    /\ log[o].status = "completed" /\ ~log[o].undone /\ age[o] = 0
    /\ \E k \in DOMAIN log[o].deductions : log[o].deductions[k].ing = i

\* addToInventory: add to the ingredient's row, or insert one with a new id.
AddStock(r, i, q) ==
  /\ Free(r)
  /\ ~\E s \in held : made[s] = i
  /\ \/ ing[r] = i /\ UNCHANGED <<ing, born>>
     \/ /\ ~\E s \in Rows : ing[s] = i
        /\ r \notin born
        /\ born' = born \cup {r}
        /\ ing' = [ing EXCEPT ![r] = i]
  /\ Spend("admin")
  /\ qty' = [qty EXCEPT ![r] = @ + q]
  /\ supplied' = [supplied EXCEPT ![i] = @ + q]
  /\ UNCHANGED <<log, queue, worker, handlers, age, tally>>

\* updateInventoryItem sets the quantity outright.
SetStock(r, q) ==
  /\ Free(r) /\ Exists(r)
  /\ Spend("admin")
  /\ qty' = [qty EXCEPT ![r] = q]
  /\ supplied' = [supplied EXCEPT ![ing[r]] = @ + q - qty[r]]
  /\ UNCHANGED <<log, ing, queue, worker, handlers, born, age, tally>>

\* What the rows S hold of ingredient i; the table has one row an ingredient.
HeldBy(S, i) ==
  IF \E r \in S : ing[r] = i THEN qty[CHOOSE r \in S : ing[r] = i] ELSE 0

Removed(S) ==
  /\ ing' = [r \in Rows |-> IF r \in S THEN Nil ELSE ing[r]]
  /\ qty' = [r \in Rows |-> IF r \in S THEN 0 ELSE qty[r]]
  /\ supplied' = [i \in Ingredients |-> supplied[i] - HeldBy(S, i)]

\* removeFromInventory checks for recent use with the row locked.
RemoveStock(r) ==
  /\ Free(r) /\ Exists(r)
  /\ ~RecentlyUsed(ing[r])
  /\ Spend("admin")
  /\ Removed({r})
  /\ UNCHANGED <<log, queue, worker, handlers, born, age, tally>>

\* bulkDelete checks the rows without locking them ...
BulkDeleteCheck(S) ==
  /\ deleting = {} /\ S # {}
  /\ \A r \in S : Exists(r) /\ ~RecentlyUsed(ing[r])
  /\ Spend("admin")
  /\ deleting' = S
  /\ UNCHANGED <<tables, queue, worker, enqueuing, undoing, cancel,
                 born, age, supplied, tally>>

\* ... and deletes what is there of them, waiting for row locks.
BulkDelete ==
  LET S == {r \in deleting : Exists(r)}
  IN  /\ deleting # {}
      /\ \A r \in S : Free(r)
      /\ Removed(S)
      /\ deleting' = {}
      /\ UNCHANGED <<log, queue, worker, enqueuing, undoing, cancel,
                     born, age, used, tally>>

\* Time passes for one order.
GrowOld(o) ==
  /\ log[o].status # "none" /\ age[o] < MaxAge
  /\ age' = [age EXCEPT ![o] = @ + 1]
  /\ UNCHANGED <<tables, queue, worker, handlers, born, used, supplied, tally>>

-----------------------------------------------------------------------------
Handlers ==
  \E o \in Orders : \/ SaveLog(o) \/ AddPrepareJob(o)
                    \/ UndoCheck(o) \/ AddUndoJob(o)
                    \/ CancelRead(o) \/ CancelDiff(o) \/ CancelUpdate(o)

WorkerStep ==
  \/ Take \/ Ack \/ RecordFailure
  \/ ReadLog \/ SaveEvaluating \/ LockStock
  \/ SkipLine \/ RefuseLine \/ AllocateLine \/ NextLine \/ Complete
  \/ \E r \in Rows : Deduct(r)
  \/ CheckUndo \/ Restore \/ CreateRow \/ FinishUndo

Admin ==
  \/ \E r \in Rows, i \in Ingredients, q \in Supplies : AddStock(r, i, q)
  \/ \E r \in Rows, q \in Supplies : SetStock(r, q)
  \/ \E r \in Rows : RemoveStock(r)
  \/ \E S \in SUBSET Rows : BulkDeleteCheck(S)
  \/ BulkDelete

Environment == Throw \/ Crash \/ Recover \/ \E o \in Orders : GrowOld(o)

Next == Handlers \/ WorkerStep \/ Admin \/ Environment

Spec == Init /\ [][Next]_vars

\* The worker loop runs, a handler that has started goes on, and BullMQ's
\* stalled check is periodic.  Nobody has to send a request.
Fairness ==
  /\ WF_vars(WorkerStep)
  /\ WF_vars(Recover)
  /\ \A o \in Orders : WF_vars(AddPrepareJob(o)) /\ WF_vars(AddUndoJob(o))

FairSpec == Spec /\ Fairness
-----------------------------------------------------------------------------
(* Properties                                                              *)

\* Every variable keeps its type, whatever the interleaving.
TypeOK ==
  /\ log \in [Orders -> LogRow]
  /\ ing \in [Rows -> Ingredients \cup {Nil}]
  /\ qty \in [Rows -> Int]
  /\ waiting \in Seq(Job) /\ orphans \in Seq(Job)
  /\ pc \in {"idle", "ack", "record", "read", "save", "lock", "require",
             "deduct", "check", "restore", "create"}
  /\ job \in Job \cup {NoJob} /\ (pc # "idle" => job \in Job)
  /\ draft \in LogRow
  /\ entries \in Seq(Entry)
  /\ held \in SUBSET Rows
  /\ rem \in [Rows -> Int] /\ drawn \in [Rows -> Int]
  /\ made \in [Rows -> Ingredients \cup {Nil}]
  /\ step \in Nat /\ need \in Nat
  /\ failure \in Failed \cup {"none"}
  /\ enqueuing \in SUBSET Orders /\ undoing \in SUBSET Orders
  /\ cancel \in [Orders -> [pc: {"idle", "save", "update"}, row: LogRow,
                            cols: SUBSET Columns]]
  /\ deleting \in SUBSET Rows
  /\ born \in SUBSET Rows
  /\ age \in [Orders -> 0..2]
  /\ used \in [Actors -> Nat]
  /\ supplied \in [Ingredients -> Int]
  /\ tally \in [Orders -> [delivered: Nat, taken: Nat, restored: Nat]]

\* The worker's remainingStock is what the database holds, less what its own
\* transaction has drawn: nobody changes a row between SELECT ... FOR UPDATE and
\* the commit, so "Stock changed during deduction" is never thrown.
RemainingIsStock ==
  pc \in {"require", "deduct"} =>
    \A r \in held : /\ rem[r] = qty[r] - drawn[r]
                    /\ rem[r] >= 0
                    /\ ing[r] # Nil

\* An order gives its ingredients back at most once, however many undo
\* requests, redelivered jobs and stale cancellations there are.
UndoneOnce == \A o \in Orders : tally[o].restored <= 1

\* An order takes stock at most once per delivery of its job: once, and once
\* more for each redelivery that BullMQ's stalled limit allows.
TakenPerDelivery ==
  \A o \in Orders : /\ tally[o].taken <= tally[o].delivered
                    /\ tally[o].delivered <= 1 + MaxStalledCount

Total(f, S) == MapThenSumSet(LAMBDA x : f[x], S)
\* What the deductions d took of ingredient i, or for it.
Took(d, i) == Total([k \in DOMAIN d |-> d[k].amount], {k \in DOMAIN d : d[k].actual = i})
TookFor(d, i) == Total([k \in DOMAIN d |-> d[k].amount], {k \in DOMAIN d : d[k].ing = i})
Recorded(o, i) == Took(log[o].deductions, i)
Live(o) == log[o].status = "completed" /\ ~log[o].undone

\* Conservation: what is on hand of an ingredient is what there was, plus what
\* admins put in, less what the completed and not undone orders record.
StockAccounted ==
  \A i \in Ingredients :
    Total(qty, {r \in Rows : ing[r] = i})
      = Total(InitQty, {r \in Rows : InitIng[r] = i}) + supplied[i]
        - Total([o \in Orders |-> Recorded(o, i)], {o \in Orders : Live(o)})

\* The lines an order may be served: all, lenient ones at will.
Servable(o) ==
  {S \in SUBSET (DOMAIN Recipe[o]) :
     \A k \in DOMAIN Recipe[o] : ~Recipe[o][k].lenient => k \in S}
\* What the lines S ask of ingredient i.
Asked(o, S, i) ==
  Total([k \in DOMAIN Recipe[o] |-> Recipe[o][k].amount], {k \in S : Recipe[o][k].ing = i})

\* A completed order has every line in full, or skipped it by leave.
FullyServed ==
  \A o \in Orders : log[o].status = "completed" =>
    \E S \in Servable(o) : \A i \in Ingredients :
      TookFor(log[o].deductions, i) = Asked(o, S, i)

\* An order that is reported as failed has taken nothing.
FailedTookNothing ==
  \A o \in Orders : log[o].status \in Failed => tally[o].taken = 0

\* No order takes its ingredients twice.
TakenOnce == \A o \in Orders : tally[o].taken <= 1

\* An order whose log is saved is settled in the end.
OrdersSettle ==
  \A o \in Orders : log[o].status = "queued" ~> log[o].status \in Terminal

\* The worker gets to every job: the queue runs empty again and again.
QueueDrains == []<>(waiting = <<>> /\ pc = "idle")
=============================================================================
