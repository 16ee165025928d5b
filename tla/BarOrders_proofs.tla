-------------------------- MODULE BarOrders_proofs --------------------------
(***************************************************************************)
(* Theorems about the order pipeline, for every set of orders, rows and    *)
(* ingredients, every recipe and every bound: types, the inventory rows a  *)
(* transaction holds, how often an order takes and gives back; and about   *)
(* what the orders take and give back together: the stock is accounted     *)
(* for, a completed order is served, and the pipeline implements           *)
(* OrderLedger.                                                            *)
(***************************************************************************)
EXTENDS BarOrdersLedger, FiniteSetTheorems, WellFoundedInduction, TLAPS

PreparePhases == {"read", "save", "lock", "require", "deduct"}
UndoPhases == {"check", "restore", "create"}

\* What the worker's program counter says about its other variables.
Control ==
  /\ pc \in PreparePhases \cup {"record"} => job.type \in JobKinds
  /\ pc \in UndoPhases => job.type = "batch-undo"
  /\ pc = "deduct" => step \in DOMAIN Lines
  /\ pc = "create" => /\ step \in DOMAIN draft.deductions
                      /\ ~draft.deductions[step].skipped
  /\ pc = "record" => failure \in Failed

TypeInv == TypeOK /\ Control

LEMMA InitType == Init => TypeInv
  BY RowsAssumption, RecipeAssumption, StockAssumption, BoundsAssumption
  DEF Init, TypeInv, TypeOK, Control, EmptyLog, LogRow, Statuses, Terminal, Failed,
      IdleCancel, NoJob, Columns, PreparePhases, UndoPhases

\* A log row whose status changes to another status is a log row.
LEMMA LogStatusType ==
  ASSUME NEW row \in LogRow, NEW s \in Statuses
  PROVE  [row EXCEPT !.status = s] \in LogRow
  BY DEF LogRow

\* A bounded actor acts once more.
LEMMA SpendType ==
  ASSUME used \in [Actors -> Nat], NEW a \in Actors, Spend(a)
  PROVE  used' \in [Actors -> Nat]
  BY DEF Spend

LEMMA HandlersType ==
  ASSUME TypeInv, Handlers PROVE TypeInv'
<1> SUFFICES ASSUME NEW o \in Orders,
               \/ SaveLog(o) \/ AddPrepareJob(o) \/ UndoCheck(o) \/ AddUndoJob(o)
               \/ CancelRead(o) \/ CancelDiff(o) \/ CancelUpdate(o)
             PROVE TypeInv'
  BY DEF Handlers
<1> USE DEF TypeInv
<1>1. CASE SaveLog(o)
  <2>1. log' \in [Orders -> LogRow]
    BY <1>1 DEF SaveLog, TypeOK, LogRow, Statuses
  <2>2. QED
    BY <1>1, <2>1 DEF SaveLog, TypeOK, Control, queue, worker, tx, history, Lines
<1>2. CASE AddPrepareJob(o)
  <2>1. [type |-> Kind[o], order |-> o, stalls |-> 0] \in Job
    BY RecipeAssumption DEF Job
  <2>2. QED
    BY <1>2, <2>1 DEF AddPrepareJob, TypeOK, Control, tables, worker, tx, history, Lines
<1>3. CASE UndoCheck(o)
  <2>1. used' \in [Actors -> Nat]
    BY <1>3, SpendType DEF UndoCheck, TypeOK, Actors
  <2>2. QED
    BY <1>3, <2>1 DEF UndoCheck, TypeOK, Control, tables, queue, worker, tx, Lines
<1>4. CASE AddUndoJob(o)
  <2>1. [type |-> "batch-undo", order |-> o, stalls |-> 0] \in Job
    BY DEF Job
  <2>2. QED
    BY <1>4, <2>1 DEF AddUndoJob, TypeOK, Control, tables, worker, tx, history, Lines
<1>5. CASE CancelRead(o)
  <2>1. used' \in [Actors -> Nat]
    BY <1>5, SpendType DEF CancelRead, TypeOK, Actors
  <2>2. cancel' \in [Orders -> [pc: {"idle", "save", "update"}, row: LogRow,
                               cols: SUBSET Columns]]
    BY <1>5 DEF CancelRead, TypeOK
  <2>3. QED
    BY <1>5, <2>1, <2>2 DEF CancelRead, TypeOK, Control, tables, queue, worker, tx, Lines
<1>6. CASE CancelDiff(o)
  <2> DEFINE entity == [cancel[o].row EXCEPT !.status = "cancelled"]
             cols == {c \in Columns : entity[c] # log[o][c]}
  <2>1. entity \in LogRow
    BY <1>6, LogStatusType DEF TypeOK, Statuses, Terminal
  <2>2. cols \in SUBSET Columns
    OBVIOUS
  <2>3. cancel' = [cancel EXCEPT ![o] = [pc |-> "update", row |-> entity, cols |-> cols]]
    BY <1>6 DEF CancelDiff
  <2> HIDE DEF entity, cols
  <2>4. cancel' \in [Orders -> [pc: {"idle", "save", "update"}, row: LogRow,
                               cols: SUBSET Columns]]
    BY <2>1, <2>2, <2>3 DEF TypeOK
  <2>5. QED
    BY <1>6, <2>4 DEF CancelDiff, TypeOK, Control, tables, queue, worker, tx, history, Lines
<1>7. CASE CancelUpdate(o)
  <2>1. log' \in [Orders -> LogRow]
    BY <1>7 DEF CancelUpdate, TypeOK, LogRow
  <2>2. IdleCancel \in [pc: {"idle", "save", "update"}, row: LogRow, cols: SUBSET Columns]
    BY DEF IdleCancel, EmptyLog, LogRow, Statuses, Columns
  <2>3. QED
    BY <1>7, <2>1, <2>2 DEF CancelUpdate, TypeOK, Control, queue, worker, tx, history, Lines
<1>8. QED
  BY <1>1, <1>2, <1>3, <1>4, <1>5, <1>6, <1>7

\* After a transaction has ended, its variables have their types.
LEMMA CloseTxType ==
  ASSUME CloseTx
  PROVE  /\ draft' \in LogRow
         /\ entries' \in Seq(Entry)
         /\ held' \in SUBSET Rows
         /\ rem' \in [Rows -> Int] /\ drawn' \in [Rows -> Int]
         /\ made' \in [Rows -> Ingredients \cup {Nil}]
         /\ step' \in Nat /\ need' \in Nat
  BY DEF CloseTx, EmptyLog, LogRow, Statuses

\* A commit of a well-typed log row leaves the state well typed.
LEMMA CommitType ==
  ASSUME TypeInv, job \in Job, NEW row \in LogRow, Commit(row),
         UNCHANGED <<queue, job, failure, handlers, born, age, used, supplied>>,
         tally' \in [Orders -> [delivered: Nat, taken: Nat, restored: Nat]]
  PROVE  TypeInv'
<1> USE DEF TypeInv
<1>1. log' \in [Orders -> LogRow]
  BY DEF Commit, TypeOK, Job
<1>2. ing' \in [Rows -> Ingredients \cup {Nil}]
  BY DEF Commit, SeenIng, TypeOK
<1>3. qty' \in [Rows -> Int]
  BY DEF Commit, TypeOK
<1>4. CloseTx /\ pc' = "ack"
  BY DEF Commit
<1>5. QED
  BY <1>1, <1>2, <1>3, <1>4, CloseTxType
  DEF TypeOK, Control, queue, handlers, PreparePhases, UndoPhases

\* So does a rollback.
LEMMA AbortType ==
  ASSUME TypeInv, job \in Job, NEW s \in Failed, Abort(s),
         job.type # "batch-undo" <=> job.type \in JobKinds,
         UNCHANGED <<tables, queue, job, handlers, born, age, supplied, tally>>,
         used' \in [Actors -> Nat]
  PROVE  TypeInv'
<1>1. CloseTx /\ pc' \in {"ack", "record"} /\ failure' \in Failed \cup {"none"}
  BY DEF Abort
<1>2. pc' = "record" => failure' = s /\ job.type # "batch-undo"
  BY DEF Abort
<1>3. QED
  BY <1>1, <1>2, CloseTxType
  DEF TypeInv, TypeOK, Control, tables, queue, handlers, PreparePhases, UndoPhases

\* The line being processed is a requirement.
LEMMA LineType ==
  ASSUME job.order \in Orders, step \in DOMAIN Lines
  PROVE  Line \in Requirement /\ Line.ing \in Ingredients /\ Line.amount \in Nat
<1>1. Lines \in Seq(Requirement)
  BY RecipeAssumption DEF Lines
<1>2. Line \in Requirement
  BY <1>1 DEF Line
<1>3. QED
  BY <1>2 DEF Requirement

\* Counting one more event of an order.
LEMMA TallyType ==
  ASSUME tally \in [Orders -> [delivered: Nat, taken: Nat, restored: Nat]],
         NEW o \in Orders
  PROVE  /\ [tally EXCEPT ![o].delivered = @ + 1]
              \in [Orders -> [delivered: Nat, taken: Nat, restored: Nat]]
         /\ [tally EXCEPT ![o].taken = @ + 1]
              \in [Orders -> [delivered: Nat, taken: Nat, restored: Nat]]
         /\ [tally EXCEPT ![o].restored = @ + 1]
              \in [Orders -> [delivered: Nat, taken: Nat, restored: Nat]]
  OBVIOUS

LEMMA PrepareType ==
  ASSUME TypeInv,
         \/ ReadLog \/ SaveEvaluating \/ LockStock
         \/ SkipLine \/ RefuseLine \/ AllocateLine \/ NextLine \/ Complete
         \/ \E r \in Rows : Deduct(r)
  PROVE  TypeInv'
<1> USE DEF TypeInv
<1>0. /\ job \in Job /\ job.type \in JobKinds /\ job.order \in Orders
      /\ Lines \in Seq(Requirement)
  BY RecipeAssumption DEF TypeOK, Control, Job, Lines, PreparePhases, ReadLog,
     SaveEvaluating, LockStock, SkipLine, RefuseLine, AllocateLine, NextLine,
     Complete, Deduct
<1>1. CASE ReadLog
  BY <1>1, <1>0 DEF ReadLog, TypeOK, Control, tables, queue, handlers, history,
     PreparePhases, UndoPhases
<1>2. CASE SaveEvaluating
  <2>1. draft' \in LogRow
    BY <1>2, LogStatusType DEF SaveEvaluating, TypeOK, Statuses
  <2>2. QED
    BY <1>2, <1>0, <2>1 DEF SaveEvaluating, TypeOK, Control, tables, queue, handlers,
       history, PreparePhases, UndoPhases
<1>3. CASE LockStock
  BY <1>3, <1>0 DEF LockStock, TypeOK, Control, tables, queue, handlers, history,
     PreparePhases, UndoPhases
<1>4. CASE SkipLine
  <2>1. Line.ing \in Ingredients
    BY <1>4, <1>0, LineType DEF SkipLine
  <2>2. entries' \in Seq(Entry)
    BY <1>4, <2>1 DEF SkipLine, TypeOK, Entry, Skipped
  <2>3. step' \in Nat
    BY <1>4 DEF SkipLine, TypeOK
  <2>4. QED
    BY <1>4, <1>0, <2>2, <2>3 DEF SkipLine, TypeOK, Control, tables, queue, handlers,
       history, PreparePhases, UndoPhases
<1>5. CASE RefuseLine
  BY <1>5, <1>0, AbortType DEF RefuseLine, Failed, JobKinds, history, TypeOK
<1>6. CASE AllocateLine
  <2>1. Line.amount \in Nat
    BY <1>6, <1>0, LineType DEF AllocateLine
  <2>2. draft' \in LogRow
    BY <1>6, LogStatusType DEF AllocateLine, TypeOK, Statuses
  <2>3. QED
    BY <1>6, <1>0, <2>1, <2>2 DEF AllocateLine, TypeOK, Control, tables, queue, handlers,
       history, PreparePhases, UndoPhases, Lines
<1>7. CASE NextLine
  <2>1. step' \in Nat
    BY <1>7 DEF NextLine, TypeOK
  <2>2. QED
    BY <1>7, <1>0, <2>1 DEF NextLine, TypeOK, Control, tables, queue, handlers, history,
       PreparePhases, UndoPhases
<1>8. CASE Complete
  <2> DEFINE row == [draft EXCEPT !.status = "completed", !.deductions = entries]
  <2>1. row \in LogRow
    BY DEF TypeOK, LogRow, Statuses, Terminal
  <2>2. tally' \in [Orders -> [delivered: Nat, taken: Nat, restored: Nat]]
    BY <1>8, <1>0, TallyType DEF Complete, TypeOK
  <2>3. QED
    BY <1>8, <1>0, <2>1, <2>2, CommitType DEF Complete
<1>9. CASE \E r \in Rows : Deduct(r)
  <2> PICK r \in Rows : Deduct(r)
    BY <1>9
  <2> DEFINE amount == Portion(r)
  <2>1. CASE qty[r] - drawn[r] >= amount
    <3>1. amount \in Nat /\ need - amount \in Nat
      BY DEF Deduct, Portion, TypeOK
    <3>2. step \in DOMAIN Lines /\ Line.ing \in Ingredients
      BY <1>0, LineType DEF Deduct, Control
    <3>3. ing[r] \in Ingredients
      BY <3>2, RecipeAssumption DEF Deduct, Eligible
    <3>4. /\ drawn' = [drawn EXCEPT ![r] = @ + amount]
          /\ rem' = [rem EXCEPT ![r] = @ - amount]
          /\ need' = need - amount
          /\ entries' = Append(entries,
               [ing |-> Line.ing, actual |-> ing[r], row |-> r,
                amount |-> amount, skipped |-> FALSE])
          /\ UNCHANGED <<pc, draft, held, made, step, failure>>
      BY <2>1 DEF Deduct
    <3> HIDE DEF amount
    <3>5. entries' \in Seq(Entry)
      BY <3>1, <3>2, <3>3, <3>4 DEF TypeOK, Entry, Taken
    <3>6. drawn' \in [Rows -> Int] /\ rem' \in [Rows -> Int] /\ need' \in Nat
      BY <3>1, <3>4 DEF TypeOK
    <3>7. UNCHANGED <<tables, queue, job, handlers, history>> /\ pc = "deduct"
      BY DEF Deduct
    <3>8. QED
      BY <1>0, <3>2, <3>4, <3>5, <3>6, <3>7 DEF TypeOK, Control, tables, queue, handlers,
         history, PreparePhases, UndoPhases, Lines
  <2>2. CASE ~(qty[r] - drawn[r] >= amount)
    BY <1>0, <2>2, AbortType DEF Deduct, Failed, JobKinds, history, TypeOK
  <2>3. QED
    BY <2>1, <2>2
<1>10. QED
  BY <1>1, <1>2, <1>3, <1>4, <1>5, <1>6, <1>7, <1>8, <1>9

\* What a recorded deduction holds.
LEMMA EntryType ==
  ASSUME NEW e \in Entry
  PROVE  /\ e.ing \in Ingredients /\ e.amount \in Nat
         /\ ~e.skipped => e \in Taken /\ e.row \in Rows /\ e.actual \in Ingredients
<1>1. CASE e \in Taken
  BY <1>1 DEF Taken
<1>2. CASE e \in Skipped
  <2>1. e.ing \in Ingredients /\ e.amount = 0
    BY <1>2 DEF Skipped
  <2>2. e.skipped = TRUE
    BY <1>2 DEF Skipped
  <2>3. e.skipped
    BY <2>2, Zenon
  <2>4. QED
    BY <2>1, <2>3
<1>3. QED
  BY <1>1, <1>2 DEF Entry

LEMMA UndoType ==
  ASSUME TypeInv, CheckUndo \/ Restore \/ CreateRow \/ FinishUndo
  PROVE  TypeInv'
<1> USE DEF TypeInv
<1>0. job \in Job /\ job.type = "batch-undo" /\ job.order \in Orders
  BY DEF TypeOK, Control, Job, UndoPhases, CheckUndo, Restore, CreateRow, FinishUndo
<1>1. CASE CheckUndo
  BY <1>1, <1>0 DEF CheckUndo, TypeOK, Control, tables, queue, handlers, history,
     PreparePhases, UndoPhases
<1>2. CASE Restore
  <2> DEFINE rows == RowOf(Deduction.ing)
             found == ~Deduction.skipped /\ rows # {}
  <2>1. Deduction \in Entry
    BY <1>2 DEF Restore, Deduction, TypeOK, LogRow
  <2>2. Deduction.amount \in Nat /\ rows \subseteq Rows
    BY <2>1, EntryType DEF RowOf
  <2>3. /\ held' = IF found THEN held \cup rows ELSE held
        /\ drawn' = IF found
                    THEN [r \in Rows |-> IF r \in rows THEN drawn[r] - Deduction.amount
                                                       ELSE drawn[r]]
                    ELSE drawn
        /\ IF found \/ Deduction.skipped
           THEN step' = step + 1 /\ UNCHANGED pc
           ELSE pc' = "create" /\ UNCHANGED step
    BY <1>2 DEF Restore
  <2>4. ~(found \/ Deduction.skipped) => ~draft.deductions[step].skipped
    BY DEF Deduction
  <2> HIDE DEF rows, found
  <2>5. held' \in SUBSET Rows /\ drawn' \in [Rows -> Int] /\ step' \in Nat
    BY <2>2, <2>3 DEF TypeOK
  <2>6. /\ UNCHANGED <<tables, queue, job, draft, entries, rem, made, need,
                       failure, handlers, history>>
        /\ pc = "restore" /\ step \in DOMAIN draft.deductions
    BY <1>2 DEF Restore
  <2>7. pc' = "restore" \/ (pc' = "create" /\ step' = step /\ ~draft.deductions[step].skipped)
    BY <2>3, <2>4, <2>6
  <2>8. QED
    BY <1>0, <2>5, <2>6, <2>7 DEF TypeOK, Control, tables, queue, handlers, history,
       PreparePhases, UndoPhases
<1>3. CASE CreateRow
  <2>1. CASE RowOf(Deduction.ing) # {}
    BY <1>0, <1>3, <2>1, AbortType DEF CreateRow, Failed, JobKinds, history, TypeOK
  <2>2. CASE RowOf(Deduction.ing) = {}
    <3>1. Deduction \in Entry /\ ~Deduction.skipped
      BY <1>3 DEF CreateRow, Control, Deduction, TypeOK, LogRow
    <3>2. /\ Deduction.row \in Rows /\ Deduction.ing \in Ingredients
          /\ Deduction.amount \in Nat
      BY <3>1, EntryType
    <3>3. /\ made' = [made EXCEPT ![Deduction.row] = Deduction.ing]
          /\ drawn' = [drawn EXCEPT ![Deduction.row] = qty[Deduction.row] - Deduction.amount]
          /\ held' = held \cup {Deduction.row}
          /\ step' = step + 1 /\ pc' = "restore"
          /\ UNCHANGED <<draft, entries, rem, need, failure, tables, queue, job,
                         handlers, history>>
      BY <1>3, <2>2 DEF CreateRow
    <3>4. /\ made' \in [Rows -> Ingredients \cup {Nil}] /\ drawn' \in [Rows -> Int]
          /\ held' \in SUBSET Rows /\ step' \in Nat
      BY <3>2, <3>3 DEF TypeOK
    <3>5. QED
      BY <1>0, <3>3, <3>4 DEF TypeOK, Control, tables, queue, handlers, history,
         PreparePhases, UndoPhases
  <2>3. QED
    BY <2>1, <2>2
<1>4. CASE FinishUndo
  <2>1. [draft EXCEPT !.undone = TRUE] \in LogRow
    BY DEF TypeOK, LogRow
  <2>2. tally' \in [Orders -> [delivered: Nat, taken: Nat, restored: Nat]]
    BY <1>4, <1>0, TallyType DEF FinishUndo, TypeOK
  <2>3. QED
    BY <1>4, <1>0, <2>1, <2>2, CommitType DEF FinishUndo
<1>5. QED
  BY <1>1, <1>2, <1>3, <1>4

LEMMA DispatchType ==
  ASSUME TypeInv, Take \/ Ack \/ RecordFailure
  PROVE  TypeInv'
<1> USE DEF TypeInv
<1>1. CASE Take
  <2>1. Head(waiting) \in Job /\ Tail(waiting) \in Seq(Job)
    BY <1>1 DEF Take, TypeOK
  <2>2. /\ job' = Head(waiting) /\ waiting' = Tail(waiting)
        /\ pc' = IF job'.type = "batch-undo" THEN "check" ELSE "read"
        /\ tally' = IF job'.type = "batch-undo" THEN tally
                    ELSE [tally EXCEPT ![job'.order].delivered = @ + 1]
        /\ UNCHANGED <<tables, orphans, tx, failure, handlers, born, age, used, supplied>>
    BY <1>1 DEF Take
  <2>3. job' \in Job /\ waiting' \in Seq(Job)
    BY <2>1, <2>2
  <2>4. job'.order \in Orders /\ job'.type \in JobKinds \cup {"batch-undo"}
    BY <2>3 DEF Job
  <2>5. tally' \in [Orders -> [delivered: Nat, taken: Nat, restored: Nat]]
    BY <2>2, <2>4, TallyType DEF TypeOK
  <2>6. QED
    BY <2>2, <2>3, <2>4, <2>5 DEF TypeOK, Control, tables, tx, handlers, PreparePhases,
       UndoPhases
<1>2. CASE Ack
  BY <1>2 DEF Ack, TypeOK, Control, tables, queue, tx, handlers, history, PreparePhases,
     UndoPhases
<1>3. CASE RecordFailure
  <2>0. job \in Job /\ job.order \in Orders /\ failure \in Failed
    BY <1>3 DEF RecordFailure, TypeOK, Control, Job
  <2>1. log' \in [Orders -> LogRow]
    <3>1. [log[job.order] EXCEPT !.status = failure] \in LogRow
      BY <2>0, LogStatusType DEF TypeOK, Statuses, Terminal
    <3>2. QED
      BY <1>3, <2>0, <3>1 DEF RecordFailure, TypeOK
  <2>2. used' \in [Actors -> Nat]
    BY <1>3, SpendType DEF RecordFailure, TypeOK, Actors
  <2>3. QED
    BY <1>3, <2>0, <2>1, <2>2 DEF RecordFailure, TypeOK, Control, queue, tx, handlers,
       PreparePhases, UndoPhases
<1>4. QED
  BY <1>1, <1>2, <1>3

LEMMA EnvironmentType ==
  ASSUME TypeInv, Environment
  PROVE  TypeInv'
<1> USE DEF TypeInv
<1>1. CASE Throw
  <2>1. job \in Job /\ (job.type # "batch-undo" <=> job.type \in JobKinds)
    BY <1>1 DEF Throw, InTx, TypeOK, Job, JobKinds
  <2>2. used' \in [Actors -> Nat]
    BY <1>1, SpendType DEF Throw, TypeOK, Actors
  <2>3. QED
    BY <1>1, <2>1, <2>2, AbortType DEF Throw, Failed
<1>2. CASE Crash
  <2>1. used' \in [Actors -> Nat]
    BY <1>2, SpendType DEF Crash, TypeOK, Actors
  <2>2. orphans' \in Seq(Job)
    BY <1>2 DEF Crash, TypeOK
  <2>3. IdleCancel \in [pc: {"idle", "save", "update"}, row: LogRow, cols: SUBSET Columns]
    BY DEF IdleCancel, EmptyLog, LogRow, Statuses
  <2>4. CloseTx
    BY <1>2 DEF Crash
  <2>5. QED
    BY <1>2, <2>1, <2>2, <2>3, <2>4, CloseTxType DEF Crash, TypeOK, Control, tables,
       PreparePhases, UndoPhases
<1>3. CASE Recover
  <2>1. Head(orphans) \in Job /\ Tail(orphans) \in Seq(Job)
    BY <1>3 DEF Recover, TypeOK
  <2>2. [Head(orphans) EXCEPT !.stalls = @ + 1] \in Job
    BY <2>1 DEF Job
  <2>3. waiting' \in Seq(Job) /\ orphans' \in Seq(Job)
    BY <1>3, <2>1, <2>2 DEF Recover, TypeOK
  <2>4. QED
    BY <1>3, <2>3 DEF Recover, TypeOK, Control, tables, worker, tx, handlers, history, Lines
<1>4. CASE \E o \in Orders : GrowOld(o)
  <2> PICK o \in Orders : GrowOld(o)
    BY <1>4
  <2>1. age[o] \in 0..2 /\ age[o] < MaxAge /\ MaxAge \in 0..2
    BY BoundsAssumption DEF GrowOld, TypeOK
  <2>2. age[o] + 1 \in 0..2
    BY <2>1
  <2>3. age' \in [Orders -> 0..2]
    BY <2>2 DEF GrowOld, TypeOK
  <2>4. QED
    BY <2>3 DEF GrowOld, TypeOK, Control, tables, queue, worker, tx, handlers, Lines
<1>5. QED
  BY <1>1, <1>2, <1>3, <1>4 DEF Environment

\* Rows that are deleted leave well-typed tables.
LEMMA RemovedType ==
  ASSUME TypeOK, NEW S \in SUBSET Rows, Removed(S)
  PROVE  /\ ing' \in [Rows -> Ingredients \cup {Nil}]
         /\ qty' \in [Rows -> Int]
         /\ supplied' \in [Ingredients -> Int]
<1>1. \A i \in Ingredients : HeldBy(S, i) \in Int
  BY DEF HeldBy, TypeOK
<1>2. QED
  BY <1>1 DEF Removed, TypeOK

LEMMA AdminType ==
  ASSUME TypeInv, Admin
  PROVE  TypeInv'
<1> USE DEF TypeInv
<1>1. ASSUME NEW r \in Rows, NEW i \in Ingredients, NEW q \in Supplies, AddStock(r, i, q)
      PROVE  TypeInv'
  <2>1. used' \in [Actors -> Nat]
    BY <1>1, SpendType DEF AddStock, TypeOK, Actors
  <2>2. /\ qty' = [qty EXCEPT ![r] = @ + q] /\ supplied' = [supplied EXCEPT ![i] = @ + q]
        /\ ing' \in {ing, [ing EXCEPT ![r] = i]} /\ born' \in {born, born \cup {r}}
        /\ q \in Int
    BY <1>1, StockAssumption DEF AddStock
  <2>3. qty' \in [Rows -> Int] /\ supplied' \in [Ingredients -> Int]
    BY <2>2 DEF TypeOK
  <2>4. ing' \in [Rows -> Ingredients \cup {Nil}] /\ born' \in SUBSET Rows
    BY <2>2 DEF TypeOK
  <2>5. QED
    BY <1>1, <2>1, <2>3, <2>4 DEF AddStock, TypeOK, Control, queue, worker, tx, handlers, Lines
<1>2. ASSUME NEW r \in Rows, NEW q \in Supplies, SetStock(r, q)
      PROVE  TypeInv'
  <2>1. used' \in [Actors -> Nat]
    BY <1>2, SpendType DEF SetStock, TypeOK, Actors
  <2>2. q \in Int /\ ing[r] \in Ingredients
    BY <1>2, StockAssumption DEF SetStock, Exists, TypeOK
  <2>3. qty' \in [Rows -> Int]
    BY <1>2, <2>2 DEF SetStock, TypeOK
  <2>4. supplied' \in [Ingredients -> Int]
    BY <1>2, <2>2 DEF SetStock, TypeOK
  <2>5. QED
    BY <1>2, <2>1, <2>3, <2>4 DEF SetStock, TypeOK, Control, queue, worker, tx, handlers, Lines
<1>3. ASSUME NEW r \in Rows, RemoveStock(r)
      PROVE  TypeInv'
  <2>1. used' \in [Actors -> Nat]
    BY <1>3, SpendType DEF RemoveStock, TypeOK, Actors
  <2>2. Removed({r})
    BY <1>3 DEF RemoveStock
  <2>3. QED
    BY <1>3, <2>1, <2>2, RemovedType
    DEF RemoveStock, TypeOK, Control, queue, worker, tx, handlers, Lines
<1>4. ASSUME NEW S \in SUBSET Rows, BulkDeleteCheck(S)
      PROVE  TypeInv'
  <2>1. used' \in [Actors -> Nat]
    BY <1>4, SpendType DEF BulkDeleteCheck, TypeOK, Actors
  <2>2. QED
    BY <1>4, <2>1 DEF BulkDeleteCheck, TypeOK, Control, tables, queue, worker, tx, Lines
<1>5. CASE BulkDelete
  <2> DEFINE S == {r \in deleting : Exists(r)}
  <2>1. S \in SUBSET Rows /\ Removed(S)
    BY <1>5 DEF BulkDelete, TypeOK
  <2>2. QED
    BY <1>5, <2>1, RemovedType
    DEF BulkDelete, TypeOK, Control, queue, worker, tx, Lines
<1>6. QED
  BY <1>1, <1>2, <1>3, <1>4, <1>5 DEF Admin

LEMMA StutterType ==
  ASSUME TypeInv, UNCHANGED vars
  PROVE  TypeInv'
  BY DEF TypeInv, TypeOK, Control, vars, tables, queue, worker, tx, handlers, history, Lines

\* Every step of the system keeps the types and the worker's control state.
LEMMA TypeStep ==
  ASSUME TypeInv, [Next]_vars
  PROVE  TypeInv'
  BY HandlersType, PrepareType, UndoType, DispatchType, EnvironmentType, AdminType,
     StutterType DEF Next, WorkerStep

\* The worker is always where its job allows: a preparation phase runs a
\* preparation, an undo phase an undo, and the line or deduction exists.
LEMMA TypeInvariant == Spec => []TypeInv
  BY InitType, TypeStep, PTL DEF Spec

\* Every variable keeps its type, in every interleaving of handlers, worker,
\* admins, failed statements and crashes.
THEOREM TypeCorrect == Spec => []TypeOK
<1>1. TypeInv => TypeOK
  BY DEF TypeInv
<1>2. QED
  BY TypeInvariant, <1>1, PTL

(***************************************************************************)
(* The inventory rows a transaction of the worker holds: nobody else       *)
(* changes them, so what the worker remembers of them is true, its guarded *)
(* UPDATE never misses, and no quantity goes below zero.                   *)
(***************************************************************************)

\* No quantity is negative, and none is once the transaction commits; a row
\* outside "held" is not touched by it; before the lock nothing is held.
StockInv ==
  /\ \A r \in Rows : qty[r] >= 0 /\ qty[r] - drawn[r] >= 0
  /\ \A r \in Rows \ held : drawn[r] = 0 /\ made[r] = Nil
  /\ pc \notin {"require", "deduct", "restore", "create"} => held = {}
  /\ pc \in {"require", "deduct"} => \A r \in Rows : made[r] = Nil
  /\ RemainingIsStock

LEMMA InitStock == Init => StockInv
  BY StockAssumption DEF Init, StockInv, RemainingIsStock

\* The end of a transaction leaves nothing held and nothing drawn.
LEMMA CloseTxStock ==
  ASSUME CloseTx, pc' \in {"idle", "ack", "record"}, qty' \in [Rows -> Int],
         \A r \in Rows : qty'[r] >= 0
  PROVE  StockInv'
  BY DEF CloseTx, StockInv, RemainingIsStock

LEMMA CommitStock ==
  ASSUME TypeOK, StockInv, NEW row, Commit(row)
  PROVE  StockInv'
<1>1. qty' \in [Rows -> Int] /\ \A r \in Rows : qty'[r] >= 0
  BY DEF Commit, StockInv, TypeOK
<1>2. QED
  BY <1>1, CloseTxStock DEF Commit

LEMMA AbortStock ==
  ASSUME TypeOK, StockInv, NEW s, Abort(s), UNCHANGED qty
  PROVE  StockInv'
<1>1. CloseTx /\ pc' \in {"ack", "record"}
  BY DEF Abort
<1>2. QED
  BY <1>1, CloseTxStock DEF StockInv, TypeOK

\* Steps that leave the rows and the transaction's part of them alone.
LEMMA QuietStock ==
  ASSUME StockInv, UNCHANGED <<ing, qty, held, rem, drawn, made>>,
         \/ pc' = pc
         \/ /\ pc \notin {"require", "deduct", "restore", "create"}
            /\ pc' \notin {"require", "deduct", "create"}
         \/ pc \in {"require", "deduct"} /\ pc' \in {"require", "deduct"}
         \/ pc \in {"restore", "create"} /\ pc' \in {"restore", "create"}
  PROVE  StockInv'
  BY DEF StockInv, RemainingIsStock

\* Admins change rows the worker does not hold.
LEMMA UnheldStock ==
  ASSUME TypeOK, StockInv, NEW S \in SUBSET Rows, S \cap held = {},
         \A r \in Rows \ S : ing'[r] = ing[r] /\ qty'[r] = qty[r],
         \A r \in S : qty'[r] \in Nat,
         UNCHANGED <<pc, held, rem, drawn, made>>
  PROVE  StockInv'
<1>1. \A r \in held : r \in Rows \ S
  BY DEF TypeOK
<1>2. \A r \in Rows : qty'[r] >= 0 /\ qty'[r] - drawn'[r] >= 0
  <2> SUFFICES ASSUME NEW r \in Rows PROVE qty'[r] >= 0 /\ qty'[r] - drawn'[r] >= 0
    OBVIOUS
  <2>1. CASE r \in S
    BY <2>1 DEF StockInv
  <2>2. CASE r \notin S
    BY <2>2 DEF StockInv
  <2>3. QED
    BY <2>1, <2>2
<1>3. QED
  BY <1>1, <1>2 DEF StockInv, RemainingIsStock

LEMMA UnheldRowStock ==
  ASSUME TypeOK, StockInv, NEW r \in Rows, r \notin held, qty'[r] \in Nat,
         \A s \in Rows \ {r} : ing'[s] = ing[s] /\ qty'[s] = qty[s],
         UNCHANGED <<pc, held, rem, drawn, made>>
  PROVE  StockInv'
<1> DEFINE S == {r}
<1>1. S \in SUBSET Rows /\ S \cap held = {} /\ \A s \in S : qty'[s] \in Nat
  OBVIOUS
<1> HIDE DEF S
<1>2. \A s \in Rows \ S : ing'[s] = ing[s] /\ qty'[s] = qty[s]
  BY DEF S
<1>3. QED
  BY <1>1, <1>2, UnheldStock

\* SELECT ... FOR UPDATE locks rows of ingredients the catalog knows.
LEMMA LockScopeType ==
  ASSUME job.order \in Orders
  PROVE  LockScope \subseteq Ingredients
<1>1. Lines \in Seq(Requirement)
  BY RecipeAssumption DEF Lines
<1>2. ASSUME NEW k \in DOMAIN Lines
      PROVE  Lines[k].ing \in Ingredients
  <2>1. Lines[k] \in Requirement
    BY <1>1
  <2>2. QED
    BY <2>1 DEF Requirement
<1>3. ASSUME NEW k \in DOMAIN Lines
      PROVE  /\ Below[Lines[k].ing] \subseteq Ingredients
             /\ {Lines[k].ing} \subseteq Ingredients
  BY <1>2, RecipeAssumption
<1>4. QED
  BY <1>3 DEF LockScope

LEMMA PrepareStock ==
  ASSUME TypeInv, StockInv,
         \/ ReadLog \/ SaveEvaluating \/ LockStock
         \/ SkipLine \/ RefuseLine \/ AllocateLine \/ NextLine \/ Complete
         \/ \E r \in Rows : Deduct(r)
  PROVE  StockInv'
<1> USE DEF TypeInv
<1>1. CASE ReadLog \/ SaveEvaluating \/ SkipLine \/ AllocateLine \/ NextLine
  BY <1>1, QuietStock DEF ReadLog, SaveEvaluating, SkipLine, AllocateLine, NextLine, tables
<1>2. CASE LockStock
  <2>1. job \in Job /\ job.order \in Orders
    BY <1>2 DEF LockStock, TypeOK, Job
  <2>2. \A r \in held' : r \in Rows /\ rem'[r] = qty[r] /\ ing[r] \in Ingredients
    BY <1>2, <2>1, LockScopeType DEF LockStock
  <2>3. \A r \in Rows : drawn[r] = 0 /\ made[r] = Nil
    BY <1>2 DEF LockStock, StockInv
  <2>4. UNCHANGED <<tables, drawn, made>> /\ pc' = "require"
    BY <1>2 DEF LockStock
  <2>5. \A r \in held' : rem'[r] = qty[r] - drawn[r] /\ rem'[r] >= 0 /\ ing[r] # Nil
    BY <2>2, <2>3, RowsAssumption DEF StockInv, TypeOK
  <2>6. QED
    BY <2>3, <2>4, <2>5 DEF StockInv, RemainingIsStock, tables
<1>3. CASE RefuseLine
  BY <1>3, AbortStock DEF RefuseLine, tables
<1>4. CASE Complete
  BY <1>4, CommitStock DEF Complete
<1>5. CASE \E r \in Rows : Deduct(r)
  <2> PICK r \in Rows : Deduct(r)
    BY <1>5
  <2> DEFINE amount == Portion(r)
  <2>1. CASE qty[r] - drawn[r] >= amount
    <3>1. /\ drawn' = [drawn EXCEPT ![r] = @ + amount]
          /\ rem' = [rem EXCEPT ![r] = @ - amount]
          /\ UNCHANGED <<pc, held, made, tables>>
          /\ pc = "deduct" /\ r \in held
      BY <2>1 DEF Deduct, Eligible
    <3>2. amount \in Int /\ amount <= rem[r]
      BY DEF TypeOK, Portion
    <3> HIDE DEF amount
    <3>3. \A s \in held : rem'[s] = qty[s] - drawn'[s] /\ rem'[s] >= 0 /\ ing[s] # Nil
      BY <3>1, <3>2 DEF StockInv, RemainingIsStock, TypeOK
    <3>4. \A s \in Rows : qty[s] >= 0 /\ qty[s] - drawn'[s] >= 0
      BY <2>1, <3>1, <3>2 DEF StockInv, TypeOK
    <3>5. \A s \in Rows \ held : drawn'[s] = 0 /\ made[s] = Nil
      BY <3>1 DEF StockInv, TypeOK
    <3>6. QED
      BY <3>1, <3>3, <3>4, <3>5 DEF StockInv, RemainingIsStock, tables
  <2>2. CASE ~(qty[r] - drawn[r] >= amount)
    BY <2>2, AbortStock DEF Deduct, tables
  <2>3. QED
    BY <2>1, <2>2
<1>6. QED
  BY <1>1, <1>2, <1>3, <1>4, <1>5

LEMMA UndoStock ==
  ASSUME TypeInv, StockInv, CheckUndo \/ Restore \/ CreateRow \/ FinishUndo
  PROVE  StockInv'
<1> USE DEF TypeInv
<1>1. CASE CheckUndo
  BY <1>1, QuietStock DEF CheckUndo, tables
<1>2. CASE Restore
  <2> DEFINE rows == RowOf(Deduction.ing)
             found == ~Deduction.skipped /\ rows # {}
  <2>1. Deduction \in Entry
    BY <1>2 DEF Restore, Deduction, TypeOK, LogRow
  <2>2. Deduction.amount \in Nat /\ rows \subseteq Rows
    BY <2>1, EntryType DEF RowOf
  <2>3. /\ held' = IF found THEN held \cup rows ELSE held
        /\ drawn' = IF found
                    THEN [r \in Rows |-> IF r \in rows THEN drawn[r] - Deduction.amount
                                                       ELSE drawn[r]]
                    ELSE drawn
        /\ UNCHANGED <<tables, made>> /\ pc = "restore" /\ pc' \in {"restore", "create"}
    BY <1>2 DEF Restore
  <2> HIDE DEF rows, found
  <2>4. \A r \in Rows : qty[r] >= 0 /\ qty[r] - drawn'[r] >= 0
    BY <2>2, <2>3 DEF StockInv, TypeOK
  <2>5. \A r \in Rows \ held' : drawn'[r] = 0 /\ made[r] = Nil
    BY <2>2, <2>3 DEF StockInv, TypeOK
  <2>6. QED
    BY <2>3, <2>4, <2>5 DEF StockInv, RemainingIsStock, tables
<1>3. CASE CreateRow
  <2>1. CASE RowOf(Deduction.ing) # {}
    BY <1>3, <2>1, AbortStock DEF CreateRow, tables
  <2>2. CASE RowOf(Deduction.ing) = {}
    <3> DEFINE r == Deduction.row
    <3>1. Deduction \in Entry /\ ~Deduction.skipped
      BY <1>3 DEF CreateRow, Control, Deduction, TypeOK, LogRow
    <3>2. r \in Rows /\ Deduction.amount \in Nat
      BY <3>1, EntryType
    <3>3. /\ made' = [made EXCEPT ![r] = Deduction.ing]
          /\ drawn' = [drawn EXCEPT ![r] = qty[r] - Deduction.amount]
          /\ held' = held \cup {r}
          /\ pc' = "restore" /\ UNCHANGED tables
      BY <1>3, <2>2 DEF CreateRow
    <3> HIDE DEF r
    <3>4. \A s \in Rows : qty[s] >= 0 /\ qty[s] - drawn'[s] >= 0
      BY <3>2, <3>3 DEF StockInv, TypeOK
    <3>5. \A s \in Rows \ held' : drawn'[s] = 0 /\ made'[s] = Nil
      BY <3>2, <3>3 DEF StockInv, TypeOK
    <3>6. QED
      BY <3>3, <3>4, <3>5 DEF StockInv, RemainingIsStock, tables
  <2>3. QED
    BY <2>1, <2>2
<1>4. CASE FinishUndo
  BY <1>4, CommitStock DEF FinishUndo
<1>5. QED
  BY <1>1, <1>2, <1>3, <1>4

LEMMA AdminStock ==
  ASSUME TypeInv, StockInv, Admin
  PROVE  StockInv'
<1> USE DEF TypeInv
<1>1. ASSUME NEW r \in Rows, NEW i \in Ingredients, NEW q \in Supplies, AddStock(r, i, q)
      PROVE  StockInv'
  <2>1. qty[r] + q \in Nat
    BY StockAssumption DEF StockInv, TypeOK
  <2>2. qty'[r] \in Nat /\ \A s \in Rows \ {r} : ing'[s] = ing[s] /\ qty'[s] = qty[s]
    BY <1>1, <2>1 DEF AddStock, TypeOK
  <2>3. r \notin held /\ UNCHANGED <<pc, held, rem, drawn, made>>
    BY <1>1 DEF AddStock, Free, worker, tx
  <2>4. QED
    BY <2>2, <2>3, UnheldRowStock
<1>2. ASSUME NEW r \in Rows, NEW q \in Supplies, SetStock(r, q)
      PROVE  StockInv'
  <2>1. qty'[r] \in Nat /\ \A s \in Rows \ {r} : ing'[s] = ing[s] /\ qty'[s] = qty[s]
    BY <1>2, StockAssumption DEF SetStock, TypeOK
  <2>2. r \notin held /\ UNCHANGED <<pc, held, rem, drawn, made>>
    BY <1>2 DEF SetStock, Free, worker, tx
  <2>3. QED
    BY <2>1, <2>2, UnheldRowStock
<1>3. ASSUME NEW r \in Rows, RemoveStock(r)
      PROVE  StockInv'
  <2>1. qty'[r] \in Nat /\ \A s \in Rows \ {r} : ing'[s] = ing[s] /\ qty'[s] = qty[s]
    BY <1>3 DEF RemoveStock, Removed, TypeOK
  <2>2. r \notin held /\ UNCHANGED <<pc, held, rem, drawn, made>>
    BY <1>3 DEF RemoveStock, Free, worker, tx
  <2>3. QED
    BY <2>1, <2>2, UnheldRowStock
<1>4. CASE \E S \in SUBSET Rows : BulkDeleteCheck(S)
  BY <1>4, QuietStock DEF BulkDeleteCheck, tables, worker, tx
<1>5. CASE BulkDelete
  <2> DEFINE S == {r \in deleting : Exists(r)}
  <2>1. S \in SUBSET Rows
    BY DEF TypeOK
  <2>2. /\ \A s \in S : qty'[s] \in Nat
        /\ \A s \in Rows \ S : ing'[s] = ing[s] /\ qty'[s] = qty[s]
    BY <1>5, <2>1 DEF BulkDelete, Removed, TypeOK
  <2>3. S \cap held = {} /\ UNCHANGED <<pc, held, rem, drawn, made>>
    BY <1>5 DEF BulkDelete, Free, worker, tx
  <2> HIDE DEF S
  <2>4. QED
    BY <2>1, <2>2, <2>3, UnheldStock
<1>6. QED
  BY <1>1, <1>2, <1>3, <1>4, <1>5 DEF Admin

LEMMA OtherStock ==
  ASSUME TypeInv, StockInv,
         \/ Handlers \/ Environment \/ Take \/ Ack \/ RecordFailure \/ UNCHANGED vars
  PROVE  StockInv'
<1> USE DEF TypeInv
<1>1. CASE Handlers
  BY <1>1, QuietStock DEF Handlers, SaveLog, AddPrepareJob, UndoCheck, AddUndoJob,
     CancelRead, CancelDiff, CancelUpdate, tables, worker, tx
<1>2. CASE Take \/ Ack \/ RecordFailure
  BY <1>2, QuietStock DEF Take, Ack, RecordFailure, tables, tx
<1>3. CASE Throw
  BY <1>3, AbortStock DEF Throw, tables
<1>4. CASE Crash
  BY <1>4, CloseTxStock DEF Crash, tables, StockInv, TypeOK
<1>5. CASE Recover \/ \E o \in Orders : GrowOld(o)
  BY <1>5, QuietStock DEF Recover, GrowOld, tables, worker, tx
<1>6. CASE UNCHANGED vars
  BY <1>6, QuietStock DEF vars, tables, worker, tx
<1>7. QED
  BY <1>1, <1>2, <1>3, <1>4, <1>5, <1>6 DEF Environment

LEMMA StockInvariant == Spec => []StockInv
<1>1. TypeInv /\ StockInv /\ [Next]_vars => StockInv'
  BY PrepareStock, UndoStock, AdminStock, OtherStock DEF Next, WorkerStep
<1>2. QED
  BY InitStock, TypeInvariant, <1>1, PTL DEF Spec

\* What the worker remembers of a row it has locked is what the table holds,
\* less its own uncommitted deductions, and the row still exists.
THEOREM RemainingStock == Spec => []RemainingIsStock
<1>1. StockInv => RemainingIsStock
  BY DEF StockInv
<1>2. QED
  BY StockInvariant, <1>1, PTL

\* No interleaving of orders, undos, crashes and admins makes a quantity negative.
THEOREM StockNeverNegative == Spec => [](\A r \in Rows : qty[r] >= 0)
<1>1. StockInv => \A r \in Rows : qty[r] >= 0
  BY DEF StockInv
<1>2. QED
  BY StockInvariant, <1>1, PTL

\* The guarded UPDATE of a deduction always finds enough: with the rows locked,
\* "Stock changed during deduction" (its else branch) is dead code.
THEOREM DeductNeverRefused ==
  ASSUME TypeInv, StockInv, NEW r \in Rows, Deduct(r)
  PROVE  pc' = "deduct"
<1>1. r \in held /\ rem[r] = qty[r] - drawn[r]
  BY DEF Deduct, Eligible, StockInv, RemainingIsStock
<1>2. QED
  BY <1>1 DEF Deduct, Portion, TypeInv, TypeOK

(***************************************************************************)
(* How often an order takes and gives back its ingredients, although       *)
(* crashes deliver its job again and cancellations write over its log.     *)
(***************************************************************************)

\* j is the job that prepares order o.
IsPrep(j, o) == j.order = o /\ j.type \in JobKinds
In(s, o) == \E k \in DOMAIN s : IsPrep(s[k], o)
Unique(s, o) ==
  \A j, k \in DOMAIN s : IsPrep(s[j], o) /\ IsPrep(s[k], o) => j = k
Running(o) == pc # "idle" /\ IsPrep(job, o)
\* The prepare job of o runs and has not committed yet.
Open(o) == Running(o) /\ pc \in PreparePhases \cup {"record"}

\* The prepare job of an order is in one place, and its stall count tells how
\* often it was delivered; each delivery commits at most once.
Placed(o) ==
  /\ log[o].status = "none" => o \notin enqueuing
  /\ log[o].status = "none" \/ o \in enqueuing =>
       /\ ~In(waiting, o) /\ ~In(orphans, o) /\ ~Running(o)
       /\ tally[o].delivered = 0
  /\ Unique(waiting, o) /\ Unique(orphans, o)
  /\ In(waiting, o) => ~In(orphans, o) /\ ~Running(o)
  /\ In(orphans, o) => ~Running(o)
  /\ \A k \in DOMAIN waiting : IsPrep(waiting[k], o) =>
       tally[o].delivered = waiting[k].stalls /\ waiting[k].stalls <= MaxStalledCount
  /\ \A k \in DOMAIN orphans : IsPrep(orphans[k], o) =>
       tally[o].delivered = orphans[k].stalls + 1 /\ orphans[k].stalls <= MaxStalledCount
  /\ Running(o) => /\ tally[o].delivered = job.stalls + 1
                   /\ job.stalls <= MaxStalledCount
  /\ tally[o].delivered <= 1 + MaxStalledCount
  /\ tally[o].taken <= tally[o].delivered
  /\ Open(o) => tally[o].taken < tally[o].delivered

\* A cancellation in flight still has the status to write.
Cancelling(o) ==
  /\ cancel[o].pc # "idle" => log[o].status # "cancelled"
  /\ cancel[o].pc = "update" => /\ cancel[o].row.status = "cancelled"
                                /\ "status" \in cancel[o].cols

\* After its restoration an order is marked undone; where a stale cancellation
\* has erased the mark, no delivery is left that could complete it again.
Restorable(o) ==
  /\ tally[o].restored <= 1
  /\ tally[o].restored >= 1 => tally[o].taken >= 1
  /\ log[o].status = "completed" => tally[o].taken >= 1
  /\ tally[o].restored >= 1 =>
       \/ log[o].undone
       \/ log[o].status = "cancelled"
       \/ /\ log[o].status \in Failed
          /\ tally[o].delivered = 1 + MaxStalledCount /\ ~Open(o)
  /\ Open(o) /\ pc \notin {"read", "record"} /\ tally[o].restored >= 1 => draft.undone
  /\ pc \in {"restore", "create"} =>
       /\ draft.status = "completed"
       /\ job.order = o => tally[o].restored = 0 /\ tally[o].taken >= 1

DeliveryInv == \A o \in Orders : Placed(o) /\ Cancelling(o) /\ Restorable(o)

LEMMA InitDelivery == Init => DeliveryInv
  BY DEF Init, DeliveryInv, Placed, Cancelling, Restorable, In, Unique, Running, Open,
     EmptyLog, IdleCancel, MaxStalledCount

-----------------------------------------------------------------------------
(* Steps that do not concern the queue, the tally or the log of an order   *)

LEMMA QuietPlaced ==
  ASSUME NEW o \in Orders, Placed(o), UNCHANGED <<waiting, orphans, job>>,
         tally'[o].delivered = tally[o].delivered, tally'[o].taken = tally[o].taken,
         pc = "idle" <=> pc' = "idle",
         pc' \in PreparePhases \cup {"record"} => pc \in PreparePhases \cup {"record"},
         log'[o].status = "none" => log[o].status = "none",
         o \in enqueuing' => o \in enqueuing
  PROVE  Placed(o)'
  BY DEF Placed, In, Unique, Running, Open, IsPrep

LEMMA QuietCancelling ==
  ASSUME NEW o \in Orders, Cancelling(o), UNCHANGED cancel,
         log'[o].status = "cancelled" => log[o].status = "cancelled"
  PROVE  Cancelling(o)'
  BY DEF Cancelling

LEMMA QuietRestorable ==
  ASSUME NEW o \in Orders, Restorable(o), UNCHANGED job,
         log'[o] = log[o], tally'[o] = tally[o],
         Open(o)' => Open(o),
         Open(o)' /\ pc' \notin {"read", "record"} =>
           pc \notin {"read", "record"} /\ (draft.undone => draft'.undone),
         pc' \in {"restore", "create"} =>
           pc \in {"restore", "create"} /\ UNCHANGED draft
  PROVE  Restorable(o)'
  BY DEF Restorable

-----------------------------------------------------------------------------
(* What the queue operations do to the place of a job                      *)

LEMMA AppendPlace ==
  ASSUME NEW s \in Seq(Job), NEW j \in Job, NEW o
  PROVE  /\ In(Append(s, j), o) <=> In(s, o) \/ IsPrep(j, o)
         /\ Unique(s, o) /\ (IsPrep(j, o) => ~In(s, o)) => Unique(Append(s, j), o)
         /\ \A k \in DOMAIN Append(s, j) :
              \/ k \in DOMAIN s /\ Append(s, j)[k] = s[k]
              \/ Append(s, j)[k] = j
<1> DEFINE t == Append(s, j)
<1>1. /\ DOMAIN t = DOMAIN s \cup {Len(s) + 1} /\ Len(s) + 1 \notin DOMAIN s
      /\ \A k \in DOMAIN s : t[k] = s[k]
      /\ t[Len(s) + 1] = j
  OBVIOUS
<1> HIDE DEF t
<1>2. In(t, o) <=> In(s, o) \/ IsPrep(j, o)
  BY <1>1 DEF In
<1>3. Unique(s, o) /\ (IsPrep(j, o) => ~In(s, o)) => Unique(t, o)
  BY <1>1 DEF In, Unique
<1>4. QED
  BY <1>1, <1>2, <1>3 DEF t

LEMMA TailPlace ==
  ASSUME NEW s \in Seq(Job), s # <<>>, NEW o, Unique(s, o)
  PROVE  /\ In(Tail(s), o) => In(s, o) /\ ~IsPrep(Head(s), o)
         /\ IsPrep(Head(s), o) => In(s, o)
         /\ Unique(Tail(s), o)
         /\ \A k \in DOMAIN Tail(s) : k + 1 \in DOMAIN s /\ Tail(s)[k] = s[k + 1]
<1>1. /\ Head(s) = s[1] /\ 1 \in DOMAIN s
      /\ \A k \in DOMAIN Tail(s) : /\ k \in Nat /\ k >= 1 /\ k + 1 \in DOMAIN s
                                   /\ Tail(s)[k] = s[k + 1]
  OBVIOUS
<1>2. IsPrep(Head(s), o) => In(s, o)
  BY <1>1 DEF In
<1>3. In(Tail(s), o) => In(s, o) /\ ~IsPrep(Head(s), o)
  <2> SUFFICES ASSUME NEW k \in DOMAIN Tail(s), IsPrep(Tail(s)[k], o)
               PROVE  In(s, o) /\ ~IsPrep(Head(s), o)
    BY DEF In
  <2>1. IsPrep(s[k + 1], o) /\ k + 1 # 1
    BY <1>1
  <2>2. QED
    BY <1>1, <2>1 DEF In, Unique
<1>4. Unique(Tail(s), o)
  <2> SUFFICES ASSUME NEW j \in DOMAIN Tail(s), NEW k \in DOMAIN Tail(s),
                      IsPrep(Tail(s)[j], o), IsPrep(Tail(s)[k], o)
               PROVE  j = k
    BY DEF Unique
  <2>1. j + 1 = k + 1
    BY <1>1 DEF Unique
  <2>2. QED
    BY <1>1, <2>1
<1>5. QED
  BY <1>1, <1>2, <1>3, <1>4

LEMMA ConsPlace ==
  ASSUME NEW s \in Seq(Job), NEW j \in Job, NEW o
  PROVE  /\ In(<<j>> \o s, o) <=> In(s, o) \/ IsPrep(j, o)
         /\ Unique(s, o) /\ (IsPrep(j, o) => ~In(s, o)) => Unique(<<j>> \o s, o)
         /\ \A k \in DOMAIN (<<j>> \o s) :
              \/ k - 1 \in DOMAIN s /\ (<<j>> \o s)[k] = s[k - 1]
              \/ (<<j>> \o s)[k] = j
<1> DEFINE t == <<j>> \o s
<1>1. /\ 1 \in DOMAIN t /\ t[1] = j
      /\ \A k \in DOMAIN s : k + 1 \in DOMAIN t /\ t[k + 1] = s[k]
      /\ \A k \in DOMAIN t : k = 1 \/ (k - 1 \in DOMAIN s /\ t[k] = s[k - 1])
  OBVIOUS
<1>2. DOMAIN t \subseteq Nat
  OBVIOUS
<1> HIDE DEF t
<1>3. In(t, o) <=> In(s, o) \/ IsPrep(j, o)
  BY <1>1 DEF In
<1>4. Unique(s, o) /\ (IsPrep(j, o) => ~In(s, o)) => Unique(t, o)
  <2> SUFFICES ASSUME Unique(s, o), IsPrep(j, o) => ~In(s, o),
                      NEW m \in DOMAIN t, NEW k \in DOMAIN t,
                      IsPrep(t[m], o), IsPrep(t[k], o)
               PROVE  m = k
    BY DEF Unique
  <2>1. CASE m = 1 \/ k = 1
    BY <1>1, <2>1 DEF In
  <2>2. CASE m # 1 /\ k # 1
    <3>1. m - 1 = k - 1
      BY <1>1, <2>2 DEF Unique
    <3>2. m \in Nat /\ k \in Nat
      BY <1>2
    <3>3. QED
      BY <3>1, <3>2
  <2>3. QED
    BY <2>1, <2>2
<1>5. QED
  BY <1>1, <1>3, <1>4 DEF t

-----------------------------------------------------------------------------
(* The handlers                                                            *)

LEMMA HandlersDelivery ==
  ASSUME TypeInv, DeliveryInv, Handlers, NEW o \in Orders
  PROVE  Placed(o)' /\ Cancelling(o)' /\ Restorable(o)'
<1> USE DEF TypeInv
<1>0. Placed(o) /\ Cancelling(o) /\ Restorable(o)
  BY DEF DeliveryInv
<1>t. /\ log[o].status \in Statuses
      /\ tally[o].delivered \in Nat /\ tally[o].taken \in Nat /\ tally[o].restored \in Nat
  BY DEF TypeOK, LogRow
<1> PICK p \in Orders :
      \/ SaveLog(p) \/ AddPrepareJob(p) \/ UndoCheck(p) \/ AddUndoJob(p)
      \/ CancelRead(p) \/ CancelDiff(p) \/ CancelUpdate(p)
  BY DEF Handlers
<1>1. CASE SaveLog(p)
  <2>1. /\ UNCHANGED <<waiting, orphans, job, pc, draft, cancel, tally>>
        /\ enqueuing' = enqueuing \cup {p} /\ log[p].status = "none"
    BY <1>1 DEF SaveLog, queue, worker, tx, history
  <2>2. CASE o = p
    <3>1. log'[o].status = "queued"
      BY <1>1, <2>2 DEF SaveLog, TypeOK, LogRow
    <3>2. tally[o].restored = 0
      BY <1>0, <1>t, <2>1, <2>2 DEF Placed, Restorable
    <3>3. QED
      BY <1>0, <2>1, <2>2, <3>1, <3>2
      DEF Placed, Cancelling, Restorable, In, Unique, Running, Open, IsPrep
  <2>3. CASE o # p
    <3>1. log'[o] = log[o] /\ (o \in enqueuing' <=> o \in enqueuing)
      BY <1>1, <2>1, <2>3 DEF SaveLog, TypeOK
    <3>2. QED
      BY <1>0, <2>1, <3>1, QuietPlaced, QuietCancelling, QuietRestorable
      DEF Running, Open, IsPrep
  <2>4. QED
    BY <2>2, <2>3
<1>2. CASE AddPrepareJob(p)
  <2> DEFINE j == [type |-> Kind[p], order |-> p, stalls |-> 0]
  <2>1. j \in Job /\ (IsPrep(j, o) <=> o = p) /\ j.stalls = 0
    BY RecipeAssumption DEF Job, IsPrep
  <2>2. /\ UNCHANGED <<log, orphans, job, pc, draft, cancel, tally>>
        /\ enqueuing' = enqueuing \ {p} /\ p \in enqueuing
        /\ waiting' = Append(waiting, j)
    BY <1>2 DEF AddPrepareJob, tables, worker, tx, history
  <2> HIDE DEF j
  <2>3. waiting \in Seq(Job)
    BY DEF TypeOK
  <2>4. /\ In(waiting, o)' <=> In(waiting, o) \/ o = p
        /\ Unique(waiting, o) /\ (o = p => ~In(waiting, o)) => Unique(waiting, o)'
        /\ \A k \in DOMAIN waiting' :
              \/ k \in DOMAIN waiting /\ waiting'[k] = waiting[k]
              \/ waiting'[k] = j
    BY <2>1, <2>2, <2>3, AppendPlace DEF In, Unique
  <2>5. Cancelling(o)' /\ Restorable(o)'
    BY <1>0, <2>2, QuietCancelling, QuietRestorable DEF Running, Open, IsPrep
  <2>6. CASE o = p
    BY <1>0, <2>1, <2>2, <2>4, <2>5, <2>6
    DEF Placed, Running, Open, IsPrep, MaxStalledCount, In, Unique
  <2>7. CASE o # p
    <3>1. \A k \in DOMAIN waiting' : IsPrep(waiting'[k], o) =>
            k \in DOMAIN waiting /\ waiting'[k] = waiting[k]
      BY <2>1, <2>4, <2>7
    <3>2. o \in enqueuing' <=> o \in enqueuing
      BY <2>2, <2>7
    <3>3. UNCHANGED <<In(orphans, o), Unique(orphans, o), Running(o), Open(o)>>
      BY <2>2 DEF In, Unique, Running, Open, IsPrep
    <3>4. Placed(o)'
      BY <1>0, <2>2, <2>4, <2>7, <3>1, <3>2, <3>3 DEF Placed
    <3>5. QED
      BY <2>5, <3>4
  <2>8. QED
    BY <2>6, <2>7
<1>3. CASE UndoCheck(p)
  BY <1>0, <1>3, QuietPlaced, QuietCancelling, QuietRestorable
  DEF UndoCheck, tables, queue, worker, tx, Running, Open, IsPrep
<1>4. CASE AddUndoJob(p)
  <2> DEFINE j == [type |-> "batch-undo", order |-> p, stalls |-> 0]
  <2>1. j \in Job /\ ~IsPrep(j, o)
    BY DEF Job, IsPrep, JobKinds
  <2>2. /\ UNCHANGED <<log, orphans, job, pc, draft, cancel, tally, enqueuing>>
        /\ waiting' = Append(waiting, j)
    BY <1>4 DEF AddUndoJob, tables, worker, tx, history
  <2> HIDE DEF j
  <2>3. waiting \in Seq(Job)
    BY DEF TypeOK
  <2>4. /\ In(waiting, o)' <=> In(waiting, o)
        /\ Unique(waiting, o) => Unique(waiting, o)'
        /\ \A k \in DOMAIN waiting' : IsPrep(waiting'[k], o) =>
              k \in DOMAIN waiting /\ waiting'[k] = waiting[k]
    BY <2>1, <2>2, <2>3, AppendPlace DEF In, Unique
  <2>5. Cancelling(o)' /\ Restorable(o)'
    BY <1>0, <2>2, QuietCancelling, QuietRestorable DEF Running, Open, IsPrep
  <2>6. UNCHANGED <<In(orphans, o), Unique(orphans, o), Running(o), Open(o)>>
    BY <2>2 DEF In, Unique, Running, Open, IsPrep
  <2>7. Placed(o)'
    BY <1>0, <2>2, <2>4, <2>6 DEF Placed
  <2>8. QED
    BY <2>5, <2>7
<1>5. CASE CancelRead(p)
  <2>1. Placed(o)' /\ Restorable(o)'
    BY <1>0, <1>5, QuietPlaced, QuietRestorable
    DEF CancelRead, tables, queue, worker, tx, Running, Open, IsPrep
  <2>2. Cancelling(o)'
    BY <1>0, <1>5 DEF CancelRead, Cancelling, TypeOK, tables, Terminal
  <2>3. QED
    BY <2>1, <2>2
<1>6. CASE CancelDiff(p)
  <2>1. Placed(o)' /\ Restorable(o)'
    BY <1>0, <1>6, QuietPlaced, QuietRestorable
    DEF CancelDiff, tables, queue, worker, tx, history, Running, Open, IsPrep
  <2>2. Cancelling(o)'
    <3> DEFINE entity == [cancel[p].row EXCEPT !.status = "cancelled"]
               cols == {c \in Columns : entity[c] # log[p][c]}
    <3>1. entity.status = "cancelled"
      BY DEF TypeOK, LogRow
    <3>2. log[p].status # "cancelled"
      BY <1>6 DEF CancelDiff, DeliveryInv, Cancelling
    <3>3. "status" \in cols
      BY <3>1, <3>2 DEF Columns
    <3>4. /\ cancel' = [cancel EXCEPT ![p] = [pc |-> "update", row |-> entity, cols |-> cols]]
          /\ UNCHANGED log
      BY <1>6 DEF CancelDiff, tables
    <3> HIDE DEF entity, cols
    <3>5. QED
      BY <1>0, <3>1, <3>2, <3>3, <3>4 DEF Cancelling, TypeOK
  <2>3. QED
    BY <2>1, <2>2
<1>7. CASE CancelUpdate(p)
  <2>1. /\ UNCHANGED <<waiting, orphans, job, pc, draft, tally, enqueuing>>
        /\ cancel' = [cancel EXCEPT ![p] = IdleCancel]
    BY <1>7 DEF CancelUpdate, queue, worker, tx, history
  <2>2. CASE o = p
    <3>1. cancel[o].row.status = "cancelled" /\ "status" \in cancel[o].cols
      BY <1>0, <1>7, <2>2 DEF CancelUpdate, Cancelling
    <3>2. log'[o].status = "cancelled"
      BY <1>7, <2>2, <3>1 DEF CancelUpdate, TypeOK, LogRow
    <3>3. Placed(o)'
      BY <1>0, <2>1, <3>2, QuietPlaced
    <3>4. Cancelling(o)'
      BY <2>1, <2>2 DEF Cancelling, IdleCancel, TypeOK
    <3>5. Restorable(o)'
      BY <1>0, <2>1, <3>2 DEF Restorable, Open, Running, IsPrep
    <3>6. QED
      BY <3>3, <3>4, <3>5
  <2>3. CASE o # p
    <3>1. log'[o] = log[o] /\ cancel'[o] = cancel[o]
      BY <1>7, <2>1, <2>3 DEF CancelUpdate, TypeOK
    <3>2. Cancelling(o)'
      BY <1>0, <3>1 DEF Cancelling
    <3>3. QED
      BY <1>0, <2>1, <3>1, <3>2, QuietPlaced, QuietRestorable DEF Running, Open, IsPrep
  <2>4. QED
    BY <2>2, <2>3
<1>8. QED
  BY <1>1, <1>2, <1>3, <1>4, <1>5, <1>6, <1>7

-----------------------------------------------------------------------------
(* The worker                                                              *)

\* A rollback ends a delivery without a commit.
LEMMA AbortDelivery ==
  ASSUME TypeInv, DeliveryInv, InTx, NEW s, Abort(s),
         UNCHANGED <<tables, queue, job, handlers, tally>>, NEW o \in Orders
  PROVE  Placed(o)' /\ Cancelling(o)' /\ Restorable(o)'
<1>0. Placed(o) /\ Cancelling(o) /\ Restorable(o)
  BY DEF DeliveryInv
<1>1. /\ pc' \in {"ack", "record"} /\ pc # "idle"
      /\ pc' = "record" => pc \in PreparePhases
  BY DEF Abort, InTx, TypeInv, Control, PreparePhases, UndoPhases
<1>2. UNCHANGED <<log, waiting, orphans, enqueuing, cancel, job, tally>>
  BY DEF tables, queue, handlers
<1>3. Open(o)' => Open(o)
  BY <1>1, <1>2 DEF Open, Running, IsPrep, PreparePhases
<1>4. Placed(o)'
  BY <1>0, <1>1, <1>2, QuietPlaced DEF PreparePhases
<1>5. Cancelling(o)'
  BY <1>0, <1>2, QuietCancelling
<1>6. Restorable(o)'
  BY <1>0, <1>1, <1>2, <1>3, QuietRestorable DEF Open, PreparePhases
<1>7. QED
  BY <1>4, <1>5, <1>6

LEMMA PrepareDelivery ==
  ASSUME TypeInv, DeliveryInv, NEW o \in Orders,
         \/ ReadLog \/ SaveEvaluating \/ LockStock
         \/ SkipLine \/ RefuseLine \/ AllocateLine \/ NextLine \/ Complete
         \/ \E r \in Rows : Deduct(r)
  PROVE  Placed(o)' /\ Cancelling(o)' /\ Restorable(o)'
<1> USE DEF TypeInv
<1>0. Placed(o) /\ Cancelling(o) /\ Restorable(o)
  BY DEF DeliveryInv
<1>t. /\ tally[o].delivered \in Nat /\ tally[o].taken \in Nat /\ tally[o].restored \in Nat
      /\ draft \in LogRow /\ log[o] \in LogRow
  BY DEF TypeOK
<1>1. CASE ReadLog
  <2>1. /\ UNCHANGED <<log, waiting, orphans, enqueuing, cancel, job, tally>>
        /\ pc = "read" /\ pc' \in {"ack", "save"}
        /\ pc' = "save" => draft' = log[job.order] /\ log[job.order].status # "cancelled"
    BY <1>1 DEF ReadLog, tables, queue, handlers, history
  <2>2. Placed(o)' /\ Cancelling(o)'
    BY <1>0, <2>1, QuietPlaced, QuietCancelling DEF PreparePhases
  <2>3. Open(o)' => Open(o) /\ job.order = o /\ pc' = "save"
    BY <2>1 DEF Open, Running, IsPrep, PreparePhases
  <2>4. Restorable(o)'
    BY <1>0, <2>1, <2>3 DEF Restorable
  <2>5. QED
    BY <2>2, <2>4
<1>2. CASE SaveEvaluating \/ LockStock \/ SkipLine \/ AllocateLine \/ NextLine
  <2>1. /\ UNCHANGED <<log, waiting, orphans, enqueuing, cancel, job, tally>>
        /\ pc \in {"save", "lock", "require", "deduct"}
        /\ pc' \in {"lock", "require", "deduct"}
    BY <1>2 DEF SaveEvaluating, LockStock, SkipLine, AllocateLine, NextLine, tables, queue,
       handlers, history
  <2>2. draft'.undone = draft.undone
    BY <1>2, <1>t DEF SaveEvaluating, LockStock, SkipLine, AllocateLine, NextLine, LogRow
  <2>3. Open(o)' => Open(o)
    BY <2>1 DEF Open, Running, IsPrep, PreparePhases
  <2>4. Placed(o)' /\ Cancelling(o)'
    BY <1>0, <2>1, QuietPlaced, QuietCancelling DEF PreparePhases
  <2>5. Restorable(o)'
    BY <1>0, <2>1, <2>2, <2>3, QuietRestorable
  <2>6. QED
    BY <2>4, <2>5
<1>3. CASE RefuseLine
  BY <1>3, AbortDelivery DEF RefuseLine, InTx, history
<1>4. CASE Complete
  <2> DEFINE row == [draft EXCEPT !.status = "completed", !.deductions = entries]
  <2>1. row.status = "completed" /\ row.undone = draft.undone
    BY <1>t DEF LogRow
  <2>2. /\ UNCHANGED <<waiting, orphans, enqueuing, cancel, job>>
        /\ pc = "require" /\ pc' = "ack"
        /\ log' = [log EXCEPT ![job.order] = row]
        /\ tally' = [tally EXCEPT ![job.order].taken = @ + 1]
    BY <1>4 DEF Complete, Commit, queue, handlers
  <2> HIDE DEF row
  <2>3. Running(o) <=> job.order = o
    BY <2>2 DEF Running, IsPrep, Control, PreparePhases
  <2>4. CASE job.order = o
    <3>1. Open(o)
      BY <2>2, <2>3, <2>4 DEF Open, PreparePhases
    <3>2. /\ log'[o] = row
          /\ tally'[o].taken = tally[o].taken + 1
          /\ tally'[o].delivered = tally[o].delivered
          /\ tally'[o].restored = tally[o].restored
      BY <2>2, <2>4 DEF TypeOK
    <3>3. /\ ~Open(o)' /\ (Running(o)' <=> Running(o))
          /\ UNCHANGED <<In(waiting, o), In(orphans, o), Unique(waiting, o), Unique(orphans, o)>>
      BY <2>2 DEF Open, Running, PreparePhases, IsPrep, In, Unique
    <3>4. Placed(o)'
      BY <1>0, <1>t, <2>1, <2>2, <3>1, <3>2, <3>3 DEF Placed
    <3>5. Cancelling(o)'
      BY <1>0, <2>1, <2>2, <3>2 DEF Cancelling
    <3>6. Restorable(o)'
      BY <1>0, <1>t, <2>1, <2>2, <3>1, <3>2, <3>3 DEF Restorable
    <3>7. QED
      BY <3>4, <3>5, <3>6
  <2>5. CASE job.order # o
    <3>1. log'[o] = log[o] /\ tally'[o] = tally[o]
      BY <2>2, <2>5 DEF TypeOK
    <3>2. ~Open(o)'
      BY <2>2 DEF Open, PreparePhases
    <3>3. QED
      BY <1>0, <2>2, <3>1, <3>2, QuietPlaced, QuietCancelling, QuietRestorable
      DEF PreparePhases
  <2>6. QED
    BY <2>4, <2>5
<1>5. CASE \E r \in Rows : Deduct(r)
  <2> PICK r \in Rows : Deduct(r)
    BY <1>5
  <2> DEFINE amount == Portion(r)
  <2>1. CASE qty[r] - drawn[r] >= amount
    <3>1. UNCHANGED <<pc, draft, job, log, waiting, orphans, enqueuing, cancel, tally>>
      BY <2>1 DEF Deduct, tables, queue, handlers, history
    <3>2. QED
      BY <1>0, <3>1, QuietPlaced, QuietCancelling, QuietRestorable DEF Open, Running, IsPrep
  <2>2. CASE ~(qty[r] - drawn[r] >= amount)
    BY <2>2, AbortDelivery DEF Deduct, InTx, history
  <2>3. QED
    BY <2>1, <2>2
<1>6. QED
  BY <1>1, <1>2, <1>3, <1>4, <1>5

LEMMA UndoDelivery ==
  ASSUME TypeInv, DeliveryInv, NEW o \in Orders,
         CheckUndo \/ Restore \/ CreateRow \/ FinishUndo
  PROVE  Placed(o)' /\ Cancelling(o)' /\ Restorable(o)'
<1> USE DEF TypeInv
<1>0. Placed(o) /\ Cancelling(o) /\ Restorable(o)
  BY DEF DeliveryInv
<1>t. /\ tally[o].delivered \in Nat /\ tally[o].taken \in Nat /\ tally[o].restored \in Nat
      /\ draft \in LogRow /\ job.order \in Orders /\ job.type = "batch-undo"
  BY DEF TypeOK, Control, Job, UndoPhases, CheckUndo, Restore, CreateRow, FinishUndo
<1>r. ~Running(o)
  BY <1>t DEF Running, IsPrep, JobKinds
<1>1. CASE CheckUndo
  <2>1. /\ UNCHANGED <<log, waiting, orphans, enqueuing, cancel, job, tally>>
        /\ pc = "check" /\ pc' \in {"ack", "restore"}
        /\ pc' = "restore" => /\ draft' = log[job.order]
                              /\ log[job.order].status = "completed"
                              /\ ~log[job.order].undone
    BY <1>1 DEF CheckUndo, UndoRefused, tables, queue, handlers, history
  <2>2. Placed(o)' /\ Cancelling(o)' /\ ~Open(o)'
    BY <1>0, <2>1, QuietPlaced, QuietCancelling DEF PreparePhases, Open
  <2>3. Restorable(o)'
    BY <1>0, <1>t, <2>1, <2>2 DEF Restorable, Failed
  <2>4. QED
    BY <2>2, <2>3
<1>2. CASE Restore
  <2>1. /\ UNCHANGED <<log, waiting, orphans, enqueuing, cancel, job, tally, draft>>
        /\ pc = "restore" /\ pc' \in {"restore", "create"}
    BY <1>2 DEF Restore, tables, queue, handlers, history
  <2>2. QED
    BY <1>0, <2>1, QuietPlaced, QuietCancelling, QuietRestorable DEF PreparePhases, Open
<1>3. CASE CreateRow
  <2>1. CASE RowOf(Deduction.ing) # {}
    BY <1>3, <2>1, AbortDelivery DEF CreateRow, InTx, history
  <2>2. CASE RowOf(Deduction.ing) = {}
    <3>1. /\ UNCHANGED <<log, waiting, orphans, enqueuing, cancel, job, tally, draft>>
          /\ pc = "create" /\ pc' = "restore"
      BY <1>3, <2>2 DEF CreateRow, tables, queue, handlers, history
    <3>2. QED
      BY <1>0, <3>1, QuietPlaced, QuietCancelling, QuietRestorable DEF PreparePhases, Open
  <2>3. QED
    BY <2>1, <2>2
<1>4. CASE FinishUndo
  <2> DEFINE row == [draft EXCEPT !.undone = TRUE]
  <2>1. row.status = "completed" /\ row.undone
    BY <1>0, <1>4, <1>t DEF Restorable, FinishUndo, LogRow
  <2>2. /\ UNCHANGED <<waiting, orphans, enqueuing, cancel, job>>
        /\ pc = "restore" /\ pc' = "ack"
        /\ log' = [log EXCEPT ![job.order] = row]
        /\ tally' = [tally EXCEPT ![job.order].restored = @ + 1]
    BY <1>4 DEF FinishUndo, Commit, queue, handlers
  <2> HIDE DEF row
  <2>3. ~Open(o)'
    BY <2>2 DEF Open, PreparePhases
  <2>4. /\ tally'[o].taken = tally[o].taken /\ tally'[o].delivered = tally[o].delivered
        /\ job.order = o => log'[o] = row /\ tally'[o].restored = tally[o].restored + 1
        /\ job.order # o => log'[o] = log[o] /\ tally'[o] = tally[o]
    BY <1>t, <2>2 DEF TypeOK
  <2>5. log'[o].status \in {log[o].status, "completed"}
    BY <2>1, <2>4
  <2>6. Placed(o)' /\ Cancelling(o)'
    BY <1>0, <2>2, <2>4, <2>5, QuietPlaced, QuietCancelling DEF PreparePhases
  <2>7. CASE job.order = o
    <3>1. Restorable(o)'
      BY <1>0, <1>t, <2>1, <2>2, <2>3, <2>4, <2>7 DEF Restorable
    <3>2. QED
      BY <2>6, <3>1
  <2>8. CASE job.order # o
    BY <1>0, <2>2, <2>3, <2>4, <2>6, <2>8, QuietRestorable
  <2>9. QED
    BY <2>7, <2>8
<1>5. QED
  BY <1>1, <1>2, <1>3, <1>4

LEMMA DispatchDelivery ==
  ASSUME TypeInv, DeliveryInv, NEW o \in Orders, Take \/ Ack \/ RecordFailure
  PROVE  Placed(o)' /\ Cancelling(o)' /\ Restorable(o)'
<1> USE DEF TypeInv
<1>0. Placed(o) /\ Cancelling(o) /\ Restorable(o)
  BY DEF DeliveryInv
<1>t. /\ tally[o].delivered \in Nat /\ tally[o].taken \in Nat /\ tally[o].restored \in Nat
      /\ log[o] \in LogRow /\ waiting \in Seq(Job)
  BY DEF TypeOK
<1>1. CASE Take
  <2>1. /\ pc = "idle" /\ waiting # <<>> /\ pc' \in {"check", "read"}
        /\ job' = Head(waiting) /\ waiting' = Tail(waiting)
        /\ pc' = IF job'.type = "batch-undo" THEN "check" ELSE "read"
        /\ tally' = IF job'.type = "batch-undo" THEN tally
                    ELSE [tally EXCEPT ![job'.order].delivered = @ + 1]
        /\ UNCHANGED <<log, orphans, enqueuing, cancel, draft>>
    BY <1>1 DEF Take, tables, tx, handlers
  <2>2. job' \in Job
    BY <1>t, <2>1
  <2>3. job'.order \in Orders /\ job'.stalls \in Nat
        /\ (job'.type # "batch-undo" <=> job'.type \in JobKinds)
    BY <2>2 DEF Job, JobKinds
  <2>4. /\ In(waiting, o)' => In(waiting, o) /\ ~IsPrep(job', o)
        /\ IsPrep(job', o) => In(waiting, o)
        /\ Unique(waiting, o)'
        /\ \A k \in DOMAIN waiting' : k + 1 \in DOMAIN waiting /\ waiting'[k] = waiting[k + 1]
    BY <1>0, <1>t, <2>1, TailPlace DEF Placed, In, Unique
  <2>5. /\ Running(o)' <=> IsPrep(job', o)
        /\ Open(o)' => Running(o)'
        /\ ~Running(o)
        /\ UNCHANGED <<In(orphans, o), Unique(orphans, o)>>
    BY <2>1 DEF Running, Open, IsPrep, In, Unique
  <2>6. Cancelling(o)'
    BY <1>0, <2>1, QuietCancelling
  <2>7. CASE IsPrep(job', o)
    <3>1. 1 \in DOMAIN waiting /\ waiting[1] = job'
      BY <1>t, <2>1
    <3>2. tally[o].delivered = job'.stalls /\ job'.stalls <= MaxStalledCount
      BY <1>0, <2>7, <3>1 DEF Placed
    <3>3. /\ tally'[o].delivered = tally[o].delivered + 1
          /\ tally'[o].taken = tally[o].taken
          /\ tally'[o].restored = tally[o].restored
      BY <2>1, <2>3, <2>7 DEF TypeOK, IsPrep
    <3>4. Placed(o)'
      <4>1. ~In(waiting, o)' /\ In(waiting, o)
        BY <2>4, <2>7
      <4>2. \A k \in DOMAIN waiting' : ~IsPrep(waiting'[k], o)
        BY <4>1 DEF In
      <4>3. \A k \in DOMAIN orphans : ~IsPrep(orphans[k], o)
        BY <1>0, <4>1 DEF Placed, In
      <4>4. tally'[o].delivered = job'.stalls + 1 /\ tally'[o].taken < tally'[o].delivered
        BY <1>0, <1>t, <2>3, <3>2, <3>3 DEF Placed
      <4>5. QED
        BY <1>0, <1>t, <2>1, <2>3, <2>4, <2>5, <3>2, <3>3, <4>1, <4>2, <4>3, <4>4
        DEF Placed, MaxStalledCount
    <3>5. Restorable(o)'
      BY <1>0, <1>t, <2>1, <2>3, <3>2, <3>3 DEF Restorable, MaxStalledCount
    <3>6. QED
      BY <2>6, <3>4, <3>5
  <2>8. CASE ~IsPrep(job', o)
    <3>1. tally'[o] = tally[o]
      BY <2>1, <2>3, <2>8 DEF TypeOK, IsPrep
    <3>2. Placed(o)'
      BY <1>0, <2>1, <2>4, <2>5, <2>8, <3>1 DEF Placed
    <3>3. Restorable(o)'
      BY <1>0, <2>1, <2>5, <2>8, <3>1 DEF Restorable
    <3>4. QED
      BY <2>6, <3>2, <3>3
  <2>9. QED
    BY <2>7, <2>8
<1>2. CASE Ack
  <2>1. /\ UNCHANGED <<log, waiting, orphans, enqueuing, cancel, tally>>
        /\ pc' = "idle"
    BY <1>2 DEF Ack, tables, queue, handlers, history
  <2>2. /\ ~Running(o)' /\ ~Open(o)'
        /\ UNCHANGED <<In(waiting, o), In(orphans, o), Unique(waiting, o), Unique(orphans, o)>>
    BY <2>1 DEF Running, Open, In, Unique, IsPrep
  <2>3. Placed(o)'
    BY <1>0, <2>1, <2>2 DEF Placed
  <2>4. QED
    BY <1>0, <2>1, <2>2, <2>3, QuietCancelling DEF Restorable
<1>3. CASE RecordFailure
  <2>1. /\ UNCHANGED <<waiting, orphans, job, enqueuing, cancel, tally>>
        /\ pc = "record" /\ pc' = "ack" /\ failure \in Failed
        /\ \/ log' = [log EXCEPT ![job.order].status = failure]
           \/ log' = log
        /\ job \in Job /\ job.type \in JobKinds /\ job.order \in Orders
    BY <1>3 DEF RecordFailure, queue, handlers, Control, TypeOK, Job
  <2>2. ~Open(o)'
    BY <2>1 DEF Open, PreparePhases
  <2>3. CASE log'[o] = log[o]
    BY <1>0, <2>1, <2>2, <2>3, QuietPlaced, QuietCancelling, QuietRestorable
    DEF PreparePhases
  <2>4. CASE log'[o] # log[o]
    <3>1. /\ job.order = o /\ log'[o].status \in Failed
          /\ log'[o].undone = log[o].undone
      <4>1. log' = [log EXCEPT ![job.order].status = failure]
        BY <2>1, <2>4
      <4>2. job.order = o
        BY <2>1, <2>4, <4>1 DEF TypeOK
      <4>3. log'[o] = [log[o] EXCEPT !.status = failure]
        BY <4>1, <4>2 DEF TypeOK
      <4>4. QED
        BY <1>t, <2>1, <4>2, <4>3 DEF LogRow
    <3>2. Open(o) /\ tally[o].taken < tally[o].delivered
      BY <1>0, <2>1, <3>1 DEF Open, Running, IsPrep, Placed
    <3>3. Placed(o)'
      BY <1>0, <2>1, <3>1, QuietPlaced DEF PreparePhases, Failed
    <3>4. Cancelling(o)'
      BY <1>0, <2>1, <3>1, QuietCancelling DEF Failed
    <3>5. tally[o].restored >= 1 => tally[o].delivered = 1 + MaxStalledCount
      BY <1>0, <1>t, <3>2 DEF Restorable, Placed, MaxStalledCount
    <3>6. Restorable(o)'
      BY <1>0, <2>1, <2>2, <3>1, <3>2, <3>5 DEF Restorable, Failed
    <3>7. QED
      BY <3>3, <3>4, <3>6
  <2>5. QED
    BY <2>3, <2>4
<1>4. QED
  BY <1>1, <1>2, <1>3

-----------------------------------------------------------------------------
(* Crashes, recovery, admins                                               *)

LEMMA CrashDelivery ==
  ASSUME TypeInv, DeliveryInv, NEW o \in Orders, Crash
  PROVE  Placed(o)' /\ Cancelling(o)' /\ Restorable(o)'
<1> USE DEF TypeInv
<1>0. Placed(o) /\ Cancelling(o) /\ Restorable(o)
  BY DEF DeliveryInv
<1>1. /\ pc' = "idle" /\ enqueuing' = {}
      /\ orphans' = IF pc = "idle" THEN orphans ELSE Append(orphans, job)
      /\ cancel'[o] = IdleCancel
      /\ UNCHANGED <<log, waiting, tally>>
  BY DEF Crash, tables
<1>2. /\ ~Running(o)' /\ ~Open(o)'
      /\ UNCHANGED <<In(waiting, o), Unique(waiting, o)>>
  BY <1>1 DEF Running, Open, In, Unique, IsPrep
<1>3. Cancelling(o)' /\ Restorable(o)'
  BY <1>0, <1>1, <1>2 DEF Cancelling, IdleCancel, Restorable
<1>4. CASE pc = "idle"
  <2>1. orphans' = orphans
    BY <1>1, <1>4
  <2>2. Placed(o)'
    BY <1>0, <1>1, <1>2, <2>1 DEF Placed, In, Unique
  <2>3. QED
    BY <1>3, <2>2
<1>5. CASE pc # "idle"
  <2>1. job \in Job /\ orphans \in Seq(Job)
    BY <1>5 DEF TypeOK
  <2>2. Running(o) <=> IsPrep(job, o)
    BY <1>5 DEF Running
  <2>3. /\ In(orphans, o)' <=> In(orphans, o) \/ IsPrep(job, o)
        /\ Unique(orphans, o) /\ (IsPrep(job, o) => ~In(orphans, o)) => Unique(orphans, o)'
        /\ \A k \in DOMAIN orphans' :
             \/ k \in DOMAIN orphans /\ orphans'[k] = orphans[k]
             \/ orphans'[k] = job
    BY <1>1, <1>5, <2>1, AppendPlace DEF In, Unique
  <2>4. Placed(o)'
    BY <1>0, <1>1, <1>2, <2>2, <2>3 DEF Placed
  <2>5. QED
    BY <1>3, <2>4
<1>6. QED
  BY <1>4, <1>5

LEMMA RecoverDelivery ==
  ASSUME TypeInv, DeliveryInv, NEW o \in Orders, Recover
  PROVE  Placed(o)' /\ Cancelling(o)' /\ Restorable(o)'
<1> USE DEF TypeInv
<1> DEFINE j == [Head(orphans) EXCEPT !.stalls = @ + 1]
<1>0. Placed(o) /\ Cancelling(o) /\ Restorable(o)
  BY DEF DeliveryInv
<1>1. /\ UNCHANGED <<log, pc, job, draft, tally, enqueuing, cancel>>
      /\ orphans # <<>> /\ orphans' = Tail(orphans)
      /\ waiting' = IF Head(orphans).stalls < MaxStalledCount THEN <<j>> \o waiting ELSE waiting
  BY DEF Recover, tables, worker, tx, handlers, history
<1>2. Head(orphans) \in Job /\ orphans \in Seq(Job) /\ waiting \in Seq(Job)
  BY <1>1 DEF TypeOK
<1>3. /\ j \in Job /\ (IsPrep(j, o) <=> IsPrep(Head(orphans), o))
      /\ j.stalls = Head(orphans).stalls + 1 /\ Head(orphans).stalls \in Nat
  BY <1>2 DEF Job, IsPrep
<1>4. 1 \in DOMAIN orphans /\ orphans[1] = Head(orphans)
  BY <1>1, <1>2
<1> HIDE DEF j
<1>5. /\ In(orphans, o)' => In(orphans, o) /\ ~IsPrep(Head(orphans), o)
      /\ IsPrep(Head(orphans), o) => In(orphans, o)
      /\ Unique(orphans, o)'
      /\ \A k \in DOMAIN orphans' : k + 1 \in DOMAIN orphans /\ orphans'[k] = orphans[k + 1]
  BY <1>0, <1>1, <1>2, TailPlace DEF Placed, In, Unique
<1>6. UNCHANGED <<Running(o), Open(o)>>
  BY <1>1 DEF Running, Open, IsPrep
<1>7. Cancelling(o)' /\ Restorable(o)'
  BY <1>0, <1>1, <1>6, QuietCancelling, QuietRestorable
<1>8. CASE Head(orphans).stalls < MaxStalledCount
  <2>1. /\ In(waiting, o)' <=> In(waiting, o) \/ IsPrep(j, o)
        /\ Unique(waiting, o) /\ (IsPrep(j, o) => ~In(waiting, o)) => Unique(waiting, o)'
        /\ \A k \in DOMAIN waiting' :
             \/ k - 1 \in DOMAIN waiting /\ waiting'[k] = waiting[k - 1]
             \/ waiting'[k] = j
    <3>1. waiting' = <<j>> \o waiting /\ j \in Job /\ waiting \in Seq(Job)
      BY <1>1, <1>2, <1>3, <1>8
    <3>2. QED
      BY <3>1, ConsPlace DEF In, Unique
  <2>2. j.stalls <= MaxStalledCount
    BY <1>3, <1>8 DEF MaxStalledCount
  <2>3. \A k \in DOMAIN waiting' : IsPrep(waiting'[k], o) =>
          tally[o].delivered = waiting'[k].stalls /\ waiting'[k].stalls <= MaxStalledCount
    BY <1>0, <1>3, <1>4, <2>1, <2>2 DEF Placed
  <2>4. Placed(o)'
    BY <1>0, <1>1, <1>3, <1>5, <1>6, <2>1, <2>3 DEF Placed
  <2>5. QED
    BY <1>7, <2>4
<1>9. CASE ~(Head(orphans).stalls < MaxStalledCount)
  <2>1. UNCHANGED <<waiting, In(waiting, o), Unique(waiting, o)>>
    BY <1>1, <1>9 DEF In, Unique
  <2>2. Placed(o)'
    BY <1>0, <1>1, <1>5, <1>6, <2>1 DEF Placed
  <2>3. QED
    BY <1>7, <2>2
<1>10. QED
  BY <1>8, <1>9

LEMMA OtherDelivery ==
  ASSUME TypeInv, DeliveryInv, NEW o \in Orders,
         Throw \/ (\E p \in Orders : GrowOld(p)) \/ Admin \/ UNCHANGED vars
  PROVE  Placed(o)' /\ Cancelling(o)' /\ Restorable(o)'
<1>0. Placed(o) /\ Cancelling(o) /\ Restorable(o)
  BY DEF DeliveryInv
<1>1. CASE Throw
  BY <1>1, AbortDelivery DEF Throw
<1>2. CASE (\E p \in Orders : GrowOld(p)) \/ Admin \/ UNCHANGED vars
  <2>1. UNCHANGED <<log, waiting, orphans, pc, job, draft, enqueuing, cancel, tally>>
    BY <1>2 DEF GrowOld, Admin, AddStock, SetStock, RemoveStock, BulkDeleteCheck, BulkDelete,
       vars, tables, queue, worker, tx, handlers, history
  <2>2. QED
    BY <1>0, <2>1, QuietPlaced, QuietCancelling, QuietRestorable DEF Open, Running, IsPrep
<1>3. QED
  BY <1>1, <1>2

LEMMA DeliveryInvariant == Spec => []DeliveryInv
<1>1. TypeInv /\ DeliveryInv /\ [Next]_vars => DeliveryInv'
  <2> SUFFICES ASSUME TypeInv, DeliveryInv, [Next]_vars, NEW o \in Orders
               PROVE  Placed(o)' /\ Cancelling(o)' /\ Restorable(o)'
    BY DEF DeliveryInv
  <2>1. QED
    BY HandlersDelivery, PrepareDelivery, UndoDelivery, DispatchDelivery, CrashDelivery,
       RecoverDelivery, OtherDelivery DEF Next, WorkerStep, Environment
<1>2. QED
  BY InitDelivery, TypeInvariant, <1>1, PTL DEF Spec

\* An order takes stock at most once for each delivery of its job, and BullMQ's
\* stalled limit allows two deliveries.
THEOREM TakenPerDeliveryHolds == Spec => []TakenPerDelivery
<1>1. DeliveryInv => TakenPerDelivery
  BY DEF DeliveryInv, Placed, TakenPerDelivery
<1>2. QED
  BY DeliveryInvariant, <1>1, PTL

\* No order gives its ingredients back twice, for any number of undo requests,
\* cancellations and crashes: the check in processBatchUndo is enough because a
\* single worker runs the jobs.
THEOREM UndoneOnceHolds == Spec => []UndoneOnce
<1>1. DeliveryInv => UndoneOnce
  BY DEF DeliveryInv, Restorable, UndoneOnce
<1>2. QED
  BY DeliveryInvariant, <1>1, PTL

-----------------------------------------------------------------------------
(* A process that never crashes: every job is delivered once               *)

NoCrashInv ==
  /\ used["crash"] = 0 /\ orphans = <<>>
  /\ \A k \in DOMAIN waiting : waiting[k].stalls = 0
  /\ pc # "idle" => job.stalls = 0
  /\ \A o \in Orders : /\ tally[o].delivered <= 1
                       /\ log[o].status \in Failed => tally[o].taken = 0

LEMMA InitNoCrash == Init => NoCrashInv
  BY DEF Init, NoCrashInv, EmptyLog, Failed, Actors

\* The queue and the tally are left alone and no failure is recorded.
LEMMA QuietNoCrash ==
  ASSUME NoCrashInv, UNCHANGED <<waiting, orphans, tally>>,
         used'["crash"] = used["crash"],
         pc' # "idle" => pc # "idle" /\ job' = job,
         \A o \in Orders : log'[o].status \in Failed => log[o].status \in Failed
  PROVE  NoCrashInv'
  BY DEF NoCrashInv

LEMMA StepNoCrash ==
  ASSUME MaxCrashes = 0, TypeInv, DeliveryInv, NoCrashInv, [Next]_vars
  PROVE  NoCrashInv'
<1> USE DEF TypeInv
<1>1. CASE Handlers
  <2> PICK p \in Orders :
        \/ SaveLog(p) \/ AddPrepareJob(p) \/ UndoCheck(p) \/ AddUndoJob(p)
        \/ CancelRead(p) \/ CancelDiff(p) \/ CancelUpdate(p)
    BY <1>1 DEF Handlers
  <2>1. /\ UNCHANGED <<orphans, pc, job, tally>>
        /\ used'["crash"] = used["crash"]
    BY DEF SaveLog, AddPrepareJob, UndoCheck, AddUndoJob, CancelRead, CancelDiff, CancelUpdate,
       Spend, queue, worker, tx, history, TypeOK, Actors
  <2>2. CASE SaveLog(p) \/ UndoCheck(p) \/ CancelRead(p) \/ CancelDiff(p)
    <3>1. UNCHANGED waiting /\ \A o \in Orders : log'[o].status \in {log[o].status, "queued"}
      <4>1. log \in [Orders -> LogRow]
        BY DEF TypeOK
      <4> HIDE DEF TypeInv
      <4>2. CASE SaveLog(p)
        BY <4>1, <4>2 DEF SaveLog, queue, LogRow
      <4>3. CASE UndoCheck(p) \/ CancelRead(p) \/ CancelDiff(p)
        BY <4>3 DEF UndoCheck, CancelRead, CancelDiff, queue, tables
      <4>4. QED
        BY <2>2, <4>2, <4>3
    <3>2. QED
      BY <2>1, <3>1, QuietNoCrash DEF Failed
  <2>3. CASE CancelUpdate(p)
    <3>1. cancel[p].row.status = "cancelled" /\ "status" \in cancel[p].cols
      BY <2>3 DEF CancelUpdate, DeliveryInv, Cancelling
    <3>2. UNCHANGED waiting /\ \A o \in Orders : log'[o].status \in {log[o].status, "cancelled"}
      BY <2>3, <3>1 DEF CancelUpdate, queue, TypeOK, LogRow
    <3>3. QED
      BY <2>1, <3>2, QuietNoCrash DEF Failed
  <2>4. CASE AddPrepareJob(p) \/ AddUndoJob(p)
    <3>1. PICK j \in Job : j.stalls = 0 /\ waiting' = Append(waiting, j)
      BY <2>4, RecipeAssumption DEF AddPrepareJob, AddUndoJob, Job
    <3>2. waiting \in Seq(Job) /\ UNCHANGED log
      BY <2>4 DEF AddPrepareJob, AddUndoJob, tables, TypeOK
    <3>3. \A k \in DOMAIN waiting' : \/ k \in DOMAIN waiting /\ waiting'[k] = waiting[k]
                                    \/ waiting'[k] = j
      BY <3>1, <3>2, AppendPlace
    <3>4. QED
      BY <2>1, <3>1, <3>2, <3>3 DEF NoCrashInv
  <2>5. QED
    BY <2>2, <2>3, <2>4
<1>2. CASE Take
  <2>1. /\ job' = Head(waiting) /\ waiting' = Tail(waiting) /\ waiting # <<>>
        /\ tally' = IF job'.type = "batch-undo" THEN tally
                    ELSE [tally EXCEPT ![job'.order].delivered = @ + 1]
        /\ UNCHANGED <<log, orphans, used>>
    BY <1>2 DEF Take, tables
  <2>2. waiting \in Seq(Job)
    BY DEF TypeOK
  <2>3. /\ 1 \in DOMAIN waiting /\ waiting[1] = job' /\ job' \in Job
        /\ \A k \in DOMAIN waiting' : k + 1 \in DOMAIN waiting /\ waiting'[k] = waiting[k + 1]
    BY <2>1, <2>2
  <2>4. job'.stalls = 0 /\ \A k \in DOMAIN waiting' : waiting'[k].stalls = 0
    BY <2>3 DEF NoCrashInv
  <2>5. ASSUME NEW o \in Orders
        PROVE  /\ tally'[o].delivered <= 1
               /\ log'[o].status \in Failed => tally'[o].taken = 0
    <3>1. CASE tally'[o] = tally[o]
      BY <2>1, <3>1 DEF NoCrashInv
    <3>2. CASE tally'[o] # tally[o]
      <4>1. /\ job'.type # "batch-undo"
            /\ tally' = [tally EXCEPT ![job'.order].delivered = @ + 1]
        BY <2>1, <3>2
      <4>2. job'.order = o /\ job'.type \in JobKinds
        BY <2>3, <3>2, <4>1 DEF TypeOK, Job
      <4>3. tally[o].delivered = 0
        BY <2>3, <2>4, <4>2 DEF DeliveryInv, Placed, IsPrep
      <4>4. tally'[o].delivered = 1 /\ tally'[o].taken = tally[o].taken
        BY <4>1, <4>2, <4>3 DEF TypeOK
      <4>5. QED
        BY <2>1, <4>4 DEF NoCrashInv
    <3>3. QED
      BY <3>1, <3>2
  <2>6. QED
    BY <2>1, <2>4, <2>5 DEF NoCrashInv
<1>3. CASE RecordFailure
  <2>1. /\ UNCHANGED <<waiting, orphans, job, tally>> /\ pc # "idle"
        /\ used'["crash"] = used["crash"]
        /\ \/ log' = [log EXCEPT ![job.order].status = failure]
           \/ log' = log
        /\ job \in Job /\ job.type \in JobKinds /\ job.order \in Orders
    BY <1>3 DEF RecordFailure, Spend, queue, Control, TypeOK, Job, Actors
  <2>2. tally[job.order].taken = 0
    <3>1. Open(job.order)
      BY <1>3, <2>1 DEF RecordFailure, Open, Running, IsPrep
    <3>2. tally[job.order].taken < tally[job.order].delivered
      BY <2>1, <3>1 DEF DeliveryInv, Placed
    <3>3. QED
      BY <2>1, <3>2 DEF NoCrashInv, TypeOK
  <2>3. \A o \in Orders : log'[o].status \in Failed => tally[o].taken = 0
    <3> SUFFICES ASSUME NEW o \in Orders, o # job.order
                 PROVE  log'[o].status \in Failed => tally[o].taken = 0
      BY <2>2
    <3>1. log'[o] = log[o]
      BY <2>1 DEF TypeOK
    <3>2. QED
      BY <3>1 DEF NoCrashInv
  <2>4. QED
    BY <2>1, <2>3 DEF NoCrashInv
<1>4. CASE Complete
  <2> DEFINE row == [draft EXCEPT !.status = "completed", !.deductions = entries]
  <2>1. row.status = "completed"
    BY DEF TypeOK, LogRow
  <2>2. /\ UNCHANGED <<waiting, orphans, job, used>> /\ pc # "idle"
        /\ log' = [log EXCEPT ![job.order] = row]
        /\ tally' = [tally EXCEPT ![job.order].taken = @ + 1]
    BY <1>4 DEF Complete, Commit, queue
  <2> HIDE DEF row
  <2>3. \A o \in Orders :
          /\ tally'[o].delivered = tally[o].delivered
          /\ log'[o].status \in Failed => /\ log[o].status \in Failed
                                         /\ tally'[o].taken = tally[o].taken
    <3> SUFFICES ASSUME NEW o \in Orders
                 PROVE  /\ tally'[o].delivered = tally[o].delivered
                        /\ log'[o].status \in Failed => /\ log[o].status \in Failed
                                                       /\ tally'[o].taken = tally[o].taken
      OBVIOUS
    <3>1. CASE o = job.order
      BY <2>1, <2>2, <3>1 DEF TypeOK, Failed
    <3>2. CASE o # job.order
      BY <2>2, <3>2 DEF TypeOK
    <3>3. QED
      BY <3>1, <3>2
  <2>4. QED
    BY <2>2, <2>3 DEF NoCrashInv
<1>5. CASE FinishUndo
  <2> DEFINE row == [draft EXCEPT !.undone = TRUE]
  <2>0. job.order \in Orders
    BY <1>5 DEF FinishUndo, TypeOK, Job
  <2>1. row.status = "completed"
    BY <1>5, <2>0 DEF FinishUndo, DeliveryInv, Restorable, TypeOK, LogRow
  <2>2. /\ UNCHANGED <<waiting, orphans, job, used>> /\ pc # "idle"
        /\ log' = [log EXCEPT ![job.order] = row]
        /\ tally' = [tally EXCEPT ![job.order].restored = @ + 1]
    BY <1>5 DEF FinishUndo, Commit, queue
  <2> HIDE DEF row
  <2>3. \A o \in Orders :
          /\ tally'[o].delivered = tally[o].delivered /\ tally'[o].taken = tally[o].taken
          /\ log'[o].status \in Failed => log[o].status \in Failed
    BY <2>0, <2>1, <2>2 DEF TypeOK, Failed
  <2>4. QED
    BY <2>2, <2>3 DEF NoCrashInv
<1>6. CASE \/ Ack \/ ReadLog \/ SaveEvaluating \/ LockStock \/ SkipLine \/ RefuseLine
            \/ AllocateLine \/ NextLine \/ (\E r \in Rows : Deduct(r))
            \/ CheckUndo \/ Restore \/ CreateRow
  <2>1. UNCHANGED <<log, waiting, orphans, tally, used>>
    BY <1>6 DEF Ack, ReadLog, SaveEvaluating, LockStock, SkipLine, RefuseLine, AllocateLine,
       NextLine, Deduct, CheckUndo, Restore, CreateRow, tables, queue, history
  <2>2. pc # "idle" /\ (pc' # "idle" => job' = job)
    BY <1>6 DEF Ack, ReadLog, SaveEvaluating, LockStock, SkipLine, RefuseLine, AllocateLine,
       NextLine, Deduct, CheckUndo, Restore, CreateRow
  <2>3. QED
    BY <2>1, <2>2, QuietNoCrash
<1>7. CASE Throw \/ (\E o \in Orders : GrowOld(o)) \/ Admin
  <2>1. UNCHANGED <<log, waiting, orphans, job, tally>>
    BY <1>7 DEF Throw, GrowOld, Admin, AddStock, SetStock, RemoveStock, BulkDeleteCheck,
       BulkDelete, tables, queue, worker
  <2>2. used'["crash"] = used["crash"]
    BY <1>7 DEF Throw, GrowOld, Admin, AddStock, SetStock, RemoveStock, BulkDeleteCheck,
       BulkDelete, Spend, TypeOK, Actors
  <2>3. pc' # "idle" => pc # "idle"
    BY <1>7 DEF Throw, InTx, GrowOld, Admin, AddStock, SetStock, RemoveStock, BulkDeleteCheck,
       BulkDelete, worker
  <2>4. QED
    BY <2>1, <2>2, <2>3, QuietNoCrash
<1>8. CASE Crash
  BY <1>8 DEF Crash, Spend, Limit, NoCrashInv
<1>9. CASE Recover
  BY <1>9 DEF Recover, NoCrashInv
<1>10. CASE UNCHANGED vars
  BY <1>10, QuietNoCrash DEF vars, tables, queue, worker, history
<1>11. QED
  BY <1>1, <1>2, <1>3, <1>4, <1>5, <1>6, <1>7, <1>8, <1>9, <1>10
  DEF Next, WorkerStep, Environment

\* Without a crash an order that is reported as failed has taken nothing, and no
\* order takes its ingredients twice, whatever handlers, admins and failing
\* statements do: only a redelivered job can break the two.
THEOREM FailedTookNothingHolds ==
  ASSUME MaxCrashes = 0
  PROVE  Spec => [](FailedTookNothing /\ TakenOnce)
<1>1. TypeInv /\ DeliveryInv /\ NoCrashInv => FailedTookNothing /\ TakenOnce
  BY DEF TypeInv, TypeOK, DeliveryInv, Placed, NoCrashInv, FailedTookNothing, TakenOnce
<1>2. TypeInv /\ DeliveryInv /\ NoCrashInv /\ [Next]_vars => NoCrashInv'
  BY StepNoCrash
<1>3. QED
  BY InitNoCrash, TypeInvariant, DeliveryInvariant, <1>1, <1>2, PTL DEF Spec

-----------------------------------------------------------------------------
(* Sums over finite sets.  Total is a fold, that is a recursive function    *)
(* over the subsets of a set; what is used of it are the lemmas TotalEmpty, *)
(* TotalInt, TotalSame, TotalAdd and TotalBeside.                          *)

\* The element that the fold takes first.
Part(s) == CHOOSE x \in s : TRUE
\* g gives the sum of f over every subset of S.
Sums(f, g, S) == g = [s \in SUBSET S |-> IF s = {} THEN 0 ELSE f[Part(s)] + g[s \ {Part(s)}]]

LEMMA TotalChosen ==
  ASSUME NEW f, NEW S
  PROVE  Total(f, S) = (CHOOSE g : Sums(f, g, S))[S]
BY DEF Total, MapThenSumSet, MapThenFoldSet, Part, Sums

\* A set of naturals that has 0, and with a number the next one, has them all.
LEMMA NatClosed ==
  ASSUME NEW A, 0 \in A, \A n \in Nat : n \in A => n + 1 \in A
  PROVE  Nat \subseteq A
<1> SUFFICES ASSUME Nat \ A # {} PROVE FALSE
  OBVIOUS
<1>1. PICK n \in Nat \ A : \A m \in Nat \ A : ~ (<<m, n>> \in OpToRel(<, Nat))
  BY NatLessThanWellFounded, WFMin, Nat \ A \subseteq Nat
<1>2. n # 0 /\ n - 1 \in Nat /\ n - 1 < n /\ (n - 1) + 1 = n
  OBVIOUS
<1>3. <<n - 1, n>> \in OpToRel(<, Nat)
  BY <1>2 DEF OpToRel
<1>4. n - 1 \in A
  BY <1>1, <1>2, <1>3
<1>5. QED
  BY <1>2, <1>4

\* A family of sets that has a subset of a finite set as soon as it has all the
\* smaller ones, has all subsets.
LEMMA SubsetsClosed ==
  ASSUME NEW S, IsFiniteSet(S), NEW A,
         \A T \in SUBSET S : (\A U \in SUBSET T : U # T => U \in A) => T \in A
  PROVE  SUBSET S \subseteq A
<1> SUFFICES ASSUME (SUBSET S) \ A # {} PROVE FALSE
  OBVIOUS
<1>1. IsWellFoundedOn(StrictSubsetOrdering(S), FiniteSubsetsOf(S)) /\ FiniteSubsetsOf(S) = SUBSET S
  BY FS_StrictSubsetOrderingWellFounded, FS_FiniteSubsetsOfFinite
<1> DEFINE Bad == (SUBSET S) \ A
<1>b. Bad \subseteq FiniteSubsetsOf(S) /\ Bad # {}
  BY <1>1
<1> HIDE DEF Bad
<1>c. PICK T \in Bad : \A U \in Bad : ~ (<<U, T>> \in StrictSubsetOrdering(S))
  BY <1>1, <1>b, WFMin
<1>2. T \in (SUBSET S) \ A /\ \A U \in (SUBSET S) \ A : ~ (<<U, T>> \in StrictSubsetOrdering(S))
  BY <1>c DEF Bad
<1>3. ASSUME NEW U \in SUBSET T, U # T
      PROVE  U \in A
  BY <1>2, <1>3 DEF StrictSubsetOrdering
<1>4. QED
  BY <1>2, <1>3

\* A family that has the empty set, and with a set what it becomes by one more
\* element of S, has S.
LEMMA SetClosed ==
  ASSUME NEW S, IsFiniteSet(S), NEW A, {} \in A,
         \A T \in SUBSET S : \A x \in S \ T : T \in A => T \cup {x} \in A
  PROVE  S \in A
<1>1. ASSUME NEW T \in SUBSET S, \A U \in SUBSET T : U # T => U \in A
      PROVE  T \in A
  <2> SUFFICES ASSUME T # {} PROVE T \in A
    OBVIOUS
  <2> PICK x \in T : TRUE
    OBVIOUS
  <2>1. T \ {x} \in A /\ T \ {x} \in SUBSET S /\ x \in S \ (T \ {x}) /\ T = (T \ {x}) \cup {x}
    BY <1>1
  <2>2. QED
    BY <2>1
<1>2. SUBSET S \subseteq A
  BY <1>1, SubsetsClosed
<1>3. QED
  BY <1>2

LEMMA PartIn == \A s : s # {} => Part(s) \in s
  BY DEF Part

\* There are sums: they are found by the size of the subsets.
LEMMA SumsExist ==
  ASSUME NEW f, NEW S, IsFiniteSet(S)
  PROVE  \E g : Sums(f, g, S)
<1> DEFINE Small(n) == {s \in SUBSET S : Cardinality(s) <= n}
           Body(g, s) == IF s = {} THEN 0 ELSE f[Part(s)] + g[s \ {Part(s)}]
           B == {n \in Nat : \E g : g = [s \in Small(n) |-> Body(g, s)]}
<1>0. ASSUME NEW s \in SUBSET S
      PROVE  /\ Cardinality(s) \in Nat
             /\ (Cardinality(s) = 0 <=> s = {})
             /\ s # {} => Cardinality(s \ {Part(s)}) = Cardinality(s) - 1
  <2>1. IsFiniteSet(s)
    BY FS_Subset
  <2>2. QED
    BY <2>1, FS_EmptySet, FS_CardinalityType, FS_RemoveElement, PartIn
<1>1. 0 \in B
  <2> DEFINE g == [s \in Small(0) |-> 0]
  <2>1. ASSUME NEW s \in Small(0) PROVE s = {}
    <3>1. s \in SUBSET S /\ Cardinality(s) <= 0
      OBVIOUS
    <3>2. Cardinality(s) \in Nat /\ (Cardinality(s) = 0 <=> s = {})
      BY <1>0, <3>1
    <3> HIDE DEF Small
    <3>3. QED
      BY <3>1, <3>2
  <2>2. g = [s \in Small(0) |-> Body(g, s)]
    BY <2>1
  <2> HIDE DEF g
  <2>3. QED
    BY <2>2
<1>2. ASSUME NEW n \in Nat, n \in B
      PROVE  n + 1 \in B
  <2> PICK g : g = [s \in Small(n) |-> Body(g, s)]
    BY <1>2
  <2> DEFINE h == [s \in Small(n + 1) |-> IF s \in Small(n) THEN g[s] ELSE f[Part(s)] + g[s \ {Part(s)}]]
  <2>1. ASSUME NEW s \in Small(n + 1)
        PROVE  h[s] = Body(h, s)
    <3>1. CASE s = {}
      <4>1. s \in SUBSET S /\ Cardinality(s) = 0
        BY <1>0, <3>1
      <4>2. s \in Small(n)
        BY <4>1
      <4>3. QED
        BY <3>1, <4>2
    <3>2. CASE s # {}
      <4>1. s \ {Part(s)} \in Small(n) /\ s \ {Part(s)} \in Small(n + 1)
        BY <1>0, <3>2
      <4>2. h[s \ {Part(s)}] = g[s \ {Part(s)}]
        BY <4>1
      <4>3. h[s] = f[Part(s)] + g[s \ {Part(s)}]
        BY <3>2
      <4>4. QED
        BY <3>2, <4>2, <4>3
    <3>3. QED
      BY <3>1, <3>2
  <2>2. h = [s \in Small(n + 1) |-> Body(h, s)]
    <3>1. h = [s \in Small(n + 1) |-> h[s]]
      OBVIOUS
    <3> HIDE DEF h, Body, Small
    <3>2. QED
      BY <2>1, <3>1
  <2> HIDE DEF h, Body, Small
  <2>3. \E k : k = [s \in Small(n + 1) |-> Body(k, s)]
    BY <2>2
  <2>4. QED
    BY <2>3
<1>3. Nat \subseteq B
  <2> HIDE DEF B
  <2>1. QED
    BY <1>1, <1>2, NatClosed
<1>4. Cardinality(S) \in B
  BY <1>3, FS_CardinalityType
<1>5. Small(Cardinality(S)) = SUBSET S
  BY FS_Subset
<1>6. QED
  BY <1>4, <1>5 DEF Sums

LEMMA TotalSums ==
  ASSUME NEW f, NEW S, IsFiniteSet(S)
  PROVE  \E g : Sums(f, g, S) /\ Total(f, S) = g[S]
  BY SumsExist, TotalChosen

LEMMA SumsAt ==
  ASSUME NEW f, NEW g, NEW S, Sums(f, g, S)
  PROVE  /\ g[{}] = 0
         /\ \A s \in SUBSET S : s # {} => g[s] = f[Part(s)] + g[s \ {Part(s)}]
  BY DEF Sums

LEMMA TotalEmpty ==
  ASSUME NEW f
  PROVE  Total(f, {}) = 0
<1>1. IsFiniteSet({})
  BY FS_EmptySet
<1>2. QED
  BY <1>1, TotalSums, SumsAt

\* The order in which the elements are added does not matter.
LEMMA SumsAdd ==
  ASSUME NEW f, NEW g, NEW S, IsFiniteSet(S), \A x \in S : f[x] \in Int, Sums(f, g, S)
  PROVE  \A s \in SUBSET S : g[s] \in Int /\ \A x \in s : g[s] = f[x] + g[s \ {x}]
<1> DEFINE Good(s) == g[s] \in Int /\ \A x \in s : g[s] = f[x] + g[s \ {x}]
           A == {s \in SUBSET S : Good(s)}
<1>1. ASSUME NEW s \in SUBSET S, \A t \in SUBSET s : t # s => t \in A
      PROVE  Good(s)
  <2>1. CASE s = {}
    BY <2>1, SumsAt
  <2>2. CASE s # {}
    <3>0. Part(s) \in s /\ g[s] = f[Part(s)] + g[s \ {Part(s)}]
      BY <2>2, PartIn, SumsAt
    <3>1. PICK c \in s : g[s] = f[c] + g[s \ {c}]
      BY <3>0
    <3>2. \A x \in s : s \ {x} \in SUBSET s /\ s \ {x} # s
      OBVIOUS
    <3>3. \A x \in s : Good(s \ {x})
      BY <1>1, <3>2
    <3>4. g[s \ {c}] \in Int /\ f[c] \in Int
      BY <3>3
    <3>5. ASSUME NEW x \in s, x # c
          PROVE  g[s] = f[x] + g[s \ {x}]
      <4>1. g[s \ {c}] = f[x] + g[(s \ {c}) \ {x}]
        BY <3>3, <3>5
      <4>2. g[s \ {x}] = f[c] + g[(s \ {x}) \ {c}]
        BY <3>3, <3>5
      <4>3. (s \ {c}) \ {x} = (s \ {x}) \ {c} /\ (s \ {c}) \ {x} \in SUBSET s /\ (s \ {c}) \ {x} # s
        OBVIOUS
      <4>4. g[(s \ {c}) \ {x}] \in Int /\ f[x] \in Int
        BY <1>1, <4>3
      <4> DEFINE rest == g[(s \ {c}) \ {x}]
      <4>5. g[s \ {x}] = f[c] + rest /\ g[s \ {c}] = f[x] + rest
        BY <4>1, <4>2, <4>3
      <4> HIDE DEF rest
      <4>6. rest \in Int
        BY <4>4 DEF rest
      <4>7. QED
        BY <3>1, <3>4, <4>4, <4>5, <4>6
    <3>6. g[s] \in Int
      BY <3>1, <3>4
    <3>7. QED
      BY <3>1, <3>5, <3>6
  <2>3. QED
    BY <2>1, <2>2
<1>2. SUBSET S \subseteq A
  <2>1. \A s \in SUBSET S : (\A t \in SUBSET s : t # s => t \in A) => s \in A
    BY <1>1
  <2> HIDE DEF A
  <2>2. QED
    BY <2>1, SubsetsClosed
<1>3. QED
  BY <1>2

\* Sums of two functions that agree on a set agree.
LEMMA SumsSame ==
  ASSUME NEW S, NEW T, IsFiniteSet(T), T \in SUBSET S, NEW f1, NEW f2, NEW g1, NEW g2,
         \A x \in T : f1[x] = f2[x], Sums(f1, g1, S), Sums(f2, g2, T)
  PROVE  g1[T] = g2[T]
<1> DEFINE A == {s \in SUBSET T : g1[s] = g2[s]}
<1>1. ASSUME NEW s \in SUBSET T, \A t \in SUBSET s : t # s => t \in A
      PROVE  s \in A
  <2>1. CASE s = {}
    BY <2>1, SumsAt
  <2>2. CASE s # {}
    <3> DEFINE c == Part(s)
    <3>1. c \in s
      BY <2>2, PartIn
    <3>2. g1[s \ {c}] = g2[s \ {c}]
      BY <1>1, <3>1
    <3>3. g1[s] = f1[c] + g1[s \ {c}]
      <4>1. s \in SUBSET S
        OBVIOUS
      <4>2. QED
        BY <2>2, <4>1, SumsAt
    <3>4. g2[s] = f2[c] + g2[s \ {c}]
      BY <2>2, SumsAt
    <3>5. QED
      BY <3>1, <3>2, <3>3, <3>4
  <2>3. QED
    BY <2>1, <2>2
<1>2. SUBSET T \subseteq A
  <2> HIDE DEF A
  <2>1. QED
    BY <1>1, SubsetsClosed
<1>3. QED
  BY <1>2

\* What a total is worth knowing of: its type, one element more or less, ...
LEMMA TotalInt ==
  ASSUME NEW f, NEW S, IsFiniteSet(S), \A x \in S : f[x] \in Int
  PROVE  Total(f, S) \in Int
  BY TotalSums, SumsAdd

LEMMA TotalSame ==
  ASSUME NEW f, NEW h, NEW S, IsFiniteSet(S), \A x \in S : f[x] = h[x]
  PROVE  Total(f, S) = Total(h, S)
<1> PICK g1 : Sums(f, g1, S) /\ Total(f, S) = g1[S]
  BY TotalSums
<1> PICK g2 : Sums(h, g2, S) /\ Total(h, S) = g2[S]
  BY TotalSums
<1>1. QED
  BY SumsSame

LEMMA TotalAdd ==
  ASSUME NEW f, NEW S, IsFiniteSet(S), NEW x, x \notin S, f[x] \in Int,
         \A y \in S : f[y] \in Int
  PROVE  Total(f, S \cup {x}) = Total(f, S) + f[x]
<1> DEFINE T == S \cup {x}
<1>1. IsFiniteSet(T) /\ S \in SUBSET T /\ T \ {x} = S /\ \A y \in T : f[y] \in Int
  BY FS_AddElement
<1> HIDE DEF T
<1> PICK g1 : Sums(f, g1, T) /\ Total(f, T) = g1[T]
  BY <1>1, TotalSums
<1> PICK g2 : Sums(f, g2, S) /\ Total(f, S) = g2[S]
  BY TotalSums
<1>2. g1[S] = g2[S]
  BY <1>1, SumsSame
<1>3. x \in T /\ T \in SUBSET T
  BY DEF T
<1>4. g1[T] = f[x] + g1[S] /\ g1[S] \in Int
  BY <1>1, <1>3, SumsAdd
<1>5. Total(f, T) = Total(f, S) + f[x]
  BY <1>2, <1>4
<1>6. QED
  BY <1>5 DEF T

\* ... and elements that add nothing.
LEMMA TotalBeside ==
  ASSUME NEW f, NEW S, NEW T, IsFiniteSet(T), S \subseteq T,
         \A x \in S : f[x] \in Int, \A x \in T \ S : f[x] = 0
  PROVE  Total(f, T) = Total(f, S)
<1> DEFINE A == {U \in SUBSET T : Total(f, U) = Total(f, U \cap S)}
<1>1. {} \in A
  OBVIOUS
<1>2. ASSUME NEW U \in SUBSET T, NEW x \in T \ U, U \in A
      PROVE  U \cup {x} \in A
  <2>1. IsFiniteSet(U) /\ IsFiniteSet(U \cap S)
    BY FS_Subset
  <2>2. Total(f, U \cup {x}) = Total(f, U) + f[x] /\ Total(f, U) \in Int
    BY <2>1, TotalAdd, TotalInt
  <2>3. CASE x \in S
    <3>1. (U \cup {x}) \cap S = (U \cap S) \cup {x} /\ x \notin U \cap S
      BY <2>3
    <3>2. Total(f, (U \cap S) \cup {x}) = Total(f, U \cap S) + f[x]
      BY <2>1, <2>3, <3>1, TotalAdd
    <3>3. QED
      BY <1>2, <2>2, <3>1, <3>2
  <2>4. CASE x \notin S
    <3>1. (U \cup {x}) \cap S = U \cap S /\ f[x] = 0
      BY <2>4
    <3>2. Total(f, U \cup {x}) = Total(f, U)
      BY <2>2, <3>1
    <3>3. U \cup {x} \in SUBSET T
      OBVIOUS
    <3>4. QED
      BY <1>2, <3>1, <3>2, <3>3
  <2>5. QED
    BY <2>3, <2>4
<1>3. T \in A
  <2> HIDE DEF A
  <2>1. QED
    BY <1>1, <1>2, SetClosed
<1>4. T \cap S = S
  OBVIOUS
<1>5. QED
  BY <1>3, <1>4

-----------------------------------------------------------------------------
(* What a list of deductions takes                                         *)

Amounts(d) == [k \in DOMAIN d |-> d[k].amount]

LEMMA AmountType ==
  ASSUME NEW d \in Seq(Entry)
  PROVE  /\ IsFiniteSet(DOMAIN d)
         /\ \A k \in DOMAIN d : d[k] \in Entry /\ Amounts(d)[k] = d[k].amount
                                /\ Amounts(d)[k] \in Nat
<1>1. DOMAIN d = 1..Len(d) /\ Len(d) \in Nat
  OBVIOUS
<1>2. IsFiniteSet(DOMAIN d)
  BY <1>1, FS_Interval
<1>3. ASSUME NEW k \in DOMAIN d
      PROVE  d[k] \in Entry /\ Amounts(d)[k] = d[k].amount
  BY DEF Amounts
<1>4. QED
  BY <1>2, <1>3, EntryType

LEMMA AppendAmounts ==
  ASSUME NEW d \in Seq(Entry), NEW e \in Entry, NEW K \in SUBSET DOMAIN d
  PROVE  /\ Total(Amounts(Append(d, e)), K) = Total(Amounts(d), K)
         /\ Total(Amounts(Append(d, e)), K \cup {Len(d) + 1}) = Total(Amounts(d), K) + e.amount
<1> DEFINE c == Append(d, e)
           n == Len(d) + 1
<1>1. /\ c \in Seq(Entry) /\ DOMAIN c = DOMAIN d \cup {n} /\ n \notin DOMAIN d
      /\ \A k \in DOMAIN d : c[k] = d[k]
      /\ c[n] = e
  OBVIOUS
<1> HIDE DEF c, n
<1>2. IsFiniteSet(K) /\ n \notin K
  BY <1>1, AmountType, FS_Subset
<1>3. \A k \in K : Amounts(c)[k] = Amounts(d)[k] /\ Amounts(c)[k] \in Int
  BY <1>1, AmountType
<1>4. Total(Amounts(c), K) = Total(Amounts(d), K)
  BY <1>2, <1>3, TotalSame
<1>5. Amounts(c)[n] = e.amount /\ e.amount \in Int
  BY <1>1, AmountType
<1>6. Total(Amounts(c), K \cup {n}) = Total(Amounts(c), K) + e.amount
  BY <1>2, <1>3, <1>5, TotalAdd
<1>7. QED
  BY <1>4, <1>6 DEF c, n

LEMMA TookAppend ==
  ASSUME NEW d \in Seq(Entry), NEW e \in Entry, NEW i
  PROVE  /\ Took(Append(d, e), i) = IF e.actual = i THEN Took(d, i) + e.amount ELSE Took(d, i)
         /\ TookFor(Append(d, e), i) = IF e.ing = i THEN TookFor(d, i) + e.amount ELSE TookFor(d, i)
<1> DEFINE c == Append(d, e)
           K == {k \in DOMAIN d : d[k].actual = i}
           L == {k \in DOMAIN d : d[k].ing = i}
<1>1. /\ DOMAIN c = DOMAIN d \cup {Len(d) + 1} /\ Len(d) + 1 \notin DOMAIN d
      /\ \A k \in DOMAIN d : c[k] = d[k]
      /\ c[Len(d) + 1] = e
  OBVIOUS
<1>2. {k \in DOMAIN c : c[k].actual = i} = IF e.actual = i THEN K \cup {Len(d) + 1} ELSE K
  BY <1>1
<1>3. {k \in DOMAIN c : c[k].ing = i} = IF e.ing = i THEN L \cup {Len(d) + 1} ELSE L
  BY <1>1
<1> HIDE DEF c, K, L
<1>4. /\ Took(d, i) = Total(Amounts(d), K) /\ TookFor(d, i) = Total(Amounts(d), L)
      /\ Took(c, i) = Total(Amounts(c), {k \in DOMAIN c : c[k].actual = i})
      /\ TookFor(c, i) = Total(Amounts(c), {k \in DOMAIN c : c[k].ing = i})
  BY DEF Took, TookFor, Amounts, K, L
<1>5. K \in SUBSET DOMAIN d /\ L \in SUBSET DOMAIN d
  BY DEF K, L
<1>6. /\ Total(Amounts(c), K) = Total(Amounts(d), K)
      /\ Total(Amounts(c), K \cup {Len(d) + 1}) = Total(Amounts(d), K) + e.amount
      /\ Total(Amounts(c), L) = Total(Amounts(d), L)
      /\ Total(Amounts(c), L \cup {Len(d) + 1}) = Total(Amounts(d), L) + e.amount
  BY <1>5, AppendAmounts DEF c
<1>7. /\ Took(c, i) = IF e.actual = i THEN Took(d, i) + e.amount ELSE Took(d, i)
      /\ TookFor(c, i) = IF e.ing = i THEN TookFor(d, i) + e.amount ELSE TookFor(d, i)
  BY <1>2, <1>3, <1>4, <1>6
<1>8. QED
  BY <1>7 DEF c

LEMMA TookType ==
  ASSUME NEW d \in Seq(Entry), NEW i
  PROVE  Took(d, i) \in Int /\ TookFor(d, i) \in Int
<1>1. /\ IsFiniteSet({k \in DOMAIN d : d[k].actual = i})
      /\ IsFiniteSet({k \in DOMAIN d : d[k].ing = i})
  BY AmountType, FS_Subset
<1>2. \A k \in DOMAIN d : Amounts(d)[k] \in Int
  BY AmountType
<1>3. QED
  BY <1>1, <1>2, TotalInt DEF Took, TookFor, Amounts

LEMMA TookNothing ==
  ASSUME NEW i
  PROVE  Took(<<>>, i) = 0 /\ TookFor(<<>>, i) = 0
<1>1. {k \in DOMAIN <<>> : <<>>[k].actual = i} = {} /\ {k \in DOMAIN <<>> : <<>>[k].ing = i} = {}
  OBVIOUS
<1>2. QED
  BY <1>1, TotalEmpty DEF Took, TookFor

\* What the rows of an ingredient hold, where it has at most one row.
LEMMA OnHand ==
  ASSUME NEW q, NEW g, NEW i, \A r, s \in Rows : g[r] = i /\ g[s] = i => r = s
  PROVE  /\ (~ \E r \in Rows : g[r] = i) => Total(q, {r \in Rows : g[r] = i}) = 0
         /\ \A r \in Rows : g[r] = i /\ q[r] \in Int => Total(q, {s \in Rows : g[s] = i}) = q[r]
<1>1. ASSUME ~ \E r \in Rows : g[r] = i
      PROVE  Total(q, {r \in Rows : g[r] = i}) = 0
  <2>1. {r \in Rows : g[r] = i} = {}
    BY <1>1
  <2>2. QED
    BY <2>1, TotalEmpty
<1>2. ASSUME NEW r \in Rows, g[r] = i, q[r] \in Int
      PROVE  Total(q, {s \in Rows : g[s] = i}) = q[r]
  <2>1. {s \in Rows : g[s] = i} = {} \cup {r}
    BY <1>2
  <2>2. IsFiniteSet({}) /\ Total(q, {}) = 0
    BY FS_EmptySet, TotalEmpty
  <2> DEFINE none == {}
  <2>3. r \notin none /\ IsFiniteSet(none) /\ \A y \in none : q[y] \in Int
    BY <2>2
  <2> HIDE DEF none
  <2>4. Total(q, none \cup {r}) = Total(q, none) + q[r]
    BY <1>2, <2>3, TotalAdd
  <2>5. Total(q, none) = 0 /\ none \cup {r} = {s \in Rows : g[s] = i}
    BY <2>1, <2>2 DEF none
  <2>6. Total(q, {s \in Rows : g[s] = i}) = 0 + q[r]
    BY <2>4, <2>5, Zenon
  <2>7. 0 + q[r] = q[r]
    BY <1>2
  <2>8. QED
    BY <2>6, <2>7, Zenon
<1>3. QED
  BY <1>1, <1>2

-----------------------------------------------------------------------------
(* The stock is accounted for where the process does not crash, nobody      *)
(* cancels, and no ingredient is served for another.  A crash after the     *)
(* commit takes an order's stock again, a stale cancellation forgets what   *)
(* an order took, and an undo gives a substitute back as what the recipe    *)
(* asked for: outside this scope the property does not hold.                *)

LedgerScope ==
  MaxCrashes = 0 /\ MaxCancels = 0 /\ \A i \in Ingredients : Subs[i] = {i}

\* The deductions d took ingredient i from row r.
Names(d, r, i) == \E k \in DOMAIN d : d[k].row = r /\ d[k].actual = i
\* Row r is the row of ingredient i, or was when an order took i from it.
Knows(r, i) == \/ ing[r] = i
               \/ Names(entries, r, i)
               \/ \E o \in Orders : Names(log[o].deductions, r, i)

\* An id that was ever the row of an ingredient is never that of another, which
\* is why an undo may insert a row under the id its deduction recorded.
RowsInv ==
  /\ \A r \in Rows : \A i, j \in Ingredients : Knows(r, i) /\ Knows(r, j) => i = j
  /\ \A r \in Rows : \A i \in Ingredients : Knows(r, i) => r \in born
  /\ \A r \in Rows : made[r] # Nil => ing[r] = Nil /\ Knows(r, made[r])
  /\ \A r, s \in Rows : SeenIng(r) = SeenIng(s) /\ SeenIng(r) # Nil => r = s
  /\ \A r \in Rows : ing[r] = Nil => qty[r] = 0
  /\ \A r \in Rows : SeenIng(r) = Nil => drawn[r] = 0

\* What was taken is what the recipe asked for.
Exact(d) == \A k \in DOMAIN d : ~d[k].skipped => d[k].actual = d[k].ing

OrdersInv ==
  /\ \A o \in Orders : /\ cancel[o].pc = "idle"
                       /\ log[o].undone => log[o].status = "completed"
                       /\ Exact(log[o].deductions)
  /\ IsFiniteSet({o \in Orders : Live(o)})
  /\ pc \in {"save", "lock", "require", "deduct"} => ~draft.undone
  /\ Exact(entries)
  /\ pc \notin {"require", "deduct"} => entries = <<>>

\* While an order is prepared: each row has given what the entries took of its
\* ingredient, and an entry names the locked row of its ingredient.
PrepareInv ==
  pc \in {"require", "deduct"} =>
    /\ \A r \in Rows : ing[r] # Nil => drawn[r] = Took(entries, ing[r])
    /\ \A k \in DOMAIN entries : ~entries[k].skipped =>
         entries[k].row \in held /\ ing[entries[k].row] = entries[k].actual

\* What the first n of the deductions d took of ingredient i.
Back(d, n, i) == Total(Amounts(d), {k \in DOMAIN d : k <= n /\ d[k].actual = i})

\* While an order is undone: each row has got back what the deductions before
\* "step" took of its ingredient, and each of these has its row.
UndoInv ==
  pc \in {"restore", "create"} =>
    /\ draft = log[job.order] /\ Live(job.order)
    /\ step \in 1..Len(draft.deductions) + 1
    /\ \A r \in Rows : SeenIng(r) # Nil => drawn[r] = 0 - Back(draft.deductions, step - 1, SeenIng(r))
    /\ \A k \in DOMAIN draft.deductions : k < step /\ ~draft.deductions[k].skipped =>
         \E r \in held : SeenIng(r) = draft.deductions[k].actual

LedgerInv == RowsInv /\ OrdersInv /\ PrepareInv /\ UndoInv

\* What a step starts from.
Known ==
  LedgerScope /\ TypeInv /\ StockInv /\ DeliveryInv /\ NoCrashInv /\ LedgerInv

\* The two sides of the account.
Hand(i) == Total(qty, {r \in Rows : ing[r] = i})
Out(i) == Total([o \in Orders |-> Recorded(o, i)], {o \in Orders : Live(o)})

LEMMA Accounts ==
  StockAccounted <=> \A i \in Ingredients :
    Hand(i) = Total(InitQty, {r \in Rows : InitIng[r] = i}) + supplied[i] - Out(i)
  BY DEF StockAccounted, Hand, Out

LEMMA AccountTypes ==
  ASSUME TypeOK, OrdersInv, NEW i \in Ingredients
  PROVE  /\ Hand(i) \in Int /\ Out(i) \in Int /\ supplied[i] \in Int
         /\ Total(InitQty, {r \in Rows : InitIng[r] = i}) \in Int
<1>1. IsFiniteSet({r \in Rows : ing[r] = i}) /\ IsFiniteSet({r \in Rows : InitIng[r] = i})
  BY RowsAssumption, FS_Subset
<1>2. \A r \in Rows : qty[r] \in Int /\ InitQty[r] \in Int
  BY StockAssumption DEF TypeOK
<1>3. Hand(i) \in Int /\ Total(InitQty, {r \in Rows : InitIng[r] = i}) \in Int
  BY <1>1, <1>2, TotalInt DEF Hand
<1>4. \A o \in Orders : log[o].deductions \in Seq(Entry)
  BY DEF TypeOK, LogRow
<1> DEFINE f == [o \in Orders |-> Recorded(o, i)]
           L == {o \in Orders : Live(o)}
<1>5. IsFiniteSet(L) /\ \A o \in L : f[o] \in Int
  BY <1>4, TookType DEF OrdersInv, Recorded
<1> HIDE DEF f, L
<1>6. Total(f, L) \in Int
  BY <1>5, TotalInt
<1>7. QED
  BY <1>3, <1>6 DEF TypeOK, Out, f, L

AccountsTyped == \A i \in Ingredients : Hand(i) \in Int /\ Out(i) \in Int /\ supplied[i] \in Int

LEMMA AccountsTypedNow == TypeOK /\ OrdersInv => AccountsTyped
  BY AccountTypes DEF AccountsTyped

LEMMA AccountsTypedNext == TypeOK' /\ OrdersInv' => AccountsTyped'
  BY AccountsTypedNow, PTL

\* Nothing is taken or given back.
LEMMA OutSame ==
  ASSUME \A o \in Orders : log'[o].deductions = log[o].deductions /\ (Live(o)' <=> Live(o)),
         NEW i
  PROVE  Out(i)' = Out(i) /\ {o \in Orders : Live(o)}' = {o \in Orders : Live(o)}
<1>1. [o \in Orders |-> Recorded(o, i)]' = [o \in Orders |-> Recorded(o, i)]
  BY DEF Recorded
<1>2. {o \in Orders : Live(o)}' = {o \in Orders : Live(o)}
  OBVIOUS
<1>3. QED
  BY <1>1, <1>2 DEF Out

\* One order takes its stock ...
LEMMA OutMore ==
  ASSUME TypeOK, TypeOK', OrdersInv, NEW p \in Orders, ~Live(p), Live(p)',
         \A o \in Orders \ {p} : log'[o] = log[o], NEW i
  PROVE  /\ Out(i)' = Out(i) + Recorded(p, i)'
         /\ IsFiniteSet({o \in Orders : Live(o)}')
<1> DEFINE f == [o \in Orders |-> Recorded(o, i)]
           g == [o \in Orders |-> Recorded(o, i)']
           L == {o \in Orders : Live(o)}
<1>1. \A o \in Orders : log[o].deductions \in Seq(Entry) /\ log'[o].deductions \in Seq(Entry)
  BY DEF TypeOK, LogRow
<1>2. {o \in Orders : Live(o)}' = L \cup {p}
  BY DEF Live
<1>3. IsFiniteSet(L) /\ p \notin L /\ \A o \in L : f[o] = g[o]
  BY DEF OrdersInv, Recorded
<1>4. g[p] = Recorded(p, i)' /\ \A o \in L \cup {p} : g[o] \in Int
  BY <1>1, TookType DEF Recorded
<1>5. Out(i) = Total(f, L) /\ Out(i)' = Total(g, {o \in Orders : Live(o)}')
  BY DEF Out
<1> HIDE DEF f, g, L
<1>6. Total(f, L) = Total(g, L)
  BY <1>3, TotalSame
<1>7. Total(g, L \cup {p}) = Total(g, L) + g[p]
  BY <1>3, <1>4, TotalAdd
<1>8. IsFiniteSet(L \cup {p})
  BY <1>3, FS_AddElement
<1>9. QED
  BY <1>2, <1>4, <1>5, <1>6, <1>7, <1>8

\* ... or gives it back.
LEMMA OutLess ==
  ASSUME TypeOK, OrdersInv, NEW p \in Orders, Live(p), ~Live(p)',
         \A o \in Orders \ {p} : log'[o] = log[o], NEW i
  PROVE  /\ Out(i)' = Out(i) - Recorded(p, i)
         /\ IsFiniteSet({o \in Orders : Live(o)}')
<1> DEFINE f == [o \in Orders |-> Recorded(o, i)]
           g == [o \in Orders |-> Recorded(o, i)']
           L == {o \in Orders : Live(o)}
           M == L \ {p}
<1>1. \A o \in Orders : log[o].deductions \in Seq(Entry)
  BY DEF TypeOK, LogRow
<1>2. {o \in Orders : Live(o)}' = M
  BY DEF Live
<1>3. IsFiniteSet(L) /\ p \in L /\ \A o \in M : f[o] = g[o]
  BY DEF OrdersInv, Recorded
<1>4. f[p] = Recorded(p, i) /\ \A o \in L : f[o] \in Int
  BY <1>1, TookType DEF Recorded
<1>5. Out(i) = Total(f, L) /\ Out(i)' = Total(g, {o \in Orders : Live(o)}')
  BY DEF Out
<1> HIDE DEF f, g, L
<1>6. IsFiniteSet(M) /\ L = M \cup {p} /\ p \notin M /\ \A o \in M : f[o] \in Int
  BY <1>3, <1>4, FS_Subset
<1> HIDE DEF M
<1>7. Total(f, M) = Total(g, M) /\ Total(f, M) \in Int
  BY <1>3, <1>6, TotalSame, TotalInt
<1>8. Total(f, M \cup {p}) = Total(f, M) + f[p]
  BY <1>3, <1>4, <1>6, TotalAdd
<1>9. f[p] \in Int
  BY <1>3, <1>4
<1>10. Total(f, L) = Total(f, M) + f[p]
  BY <1>6, <1>8
<1>11. Total(f, M) = Total(f, L) - f[p]
  BY <1>7, <1>9, <1>10
<1>12. Out(i)' = Total(g, M) /\ IsFiniteSet({o \in Orders : Live(o)}')
  BY <1>2, <1>5, <1>6
<1>13. QED
  BY <1>4, <1>5, <1>7, <1>11, <1>12

\* A step that changes the two sides alike keeps the account.
LEMMA KeepsAccount ==
  ASSUME TypeOK, TypeOK', OrdersInv, OrdersInv', StockAccounted,
         \A i \in Ingredients :
           Hand(i)' + Out(i)' - supplied'[i] = Hand(i) + Out(i) - supplied[i]
  PROVE  StockAccounted'
<1>1. ASSUME NEW i \in Ingredients
      PROVE  Hand(i)' = Total(InitQty, {r \in Rows : InitIng[r] = i}) + supplied'[i] - Out(i)'
  <2>1. /\ Hand(i) \in Int /\ Out(i) \in Int /\ supplied[i] \in Int
        /\ Total(InitQty, {r \in Rows : InitIng[r] = i}) \in Int
    BY AccountTypes
  <2>2. Hand(i)' \in Int /\ Out(i)' \in Int /\ supplied'[i] \in Int
    BY AccountsTypedNext DEF AccountsTyped
  <2>3. Hand(i) = Total(InitQty, {r \in Rows : InitIng[r] = i}) + supplied[i] - Out(i)
    BY Accounts
  <2> DEFINE h == Hand(i)  h1 == Hand(i)'  t == Out(i)  t1 == Out(i)'
             b == Total(InitQty, {r \in Rows : InitIng[r] = i})
  <2>4. /\ h \in Int /\ h1 \in Int /\ t \in Int /\ t1 \in Int /\ b \in Int
        /\ h = b + supplied[i] - t /\ supplied[i] \in Int /\ supplied'[i] \in Int
        /\ h1 + t1 - supplied'[i] = h + t - supplied[i]
    BY <2>1, <2>2, <2>3
  <2> HIDE DEF h, h1, t, t1, b
  <2>5. h1 = b + supplied'[i] - t1
    BY <2>4
  <2>6. QED
    BY <2>5 DEF h1, b, t1
<1>2. QED
  BY <1>1 DEF StockAccounted, Hand, Out

-----------------------------------------------------------------------------
(* Steps outside the worker's transaction                                  *)

\* Nobody's deductions change, and no order is completed or undone.
SameLogs ==
  \A o \in Orders :
    /\ log'[o].deductions = log[o].deductions /\ log'[o].undone = log[o].undone
    /\ \/ log'[o] = log[o]
       \/ log[o].status # "completed" /\ log'[o].status # "completed"

SameRows == UNCHANGED <<ing, qty, entries, held, drawn, made, born>>

Apart == pc \notin {"require", "deduct", "restore", "create"}

LEMMA SameLogsLive ==
  ASSUME SameLogs
  PROVE  \A o \in Orders : Live(o)' <=> Live(o)
  BY DEF SameLogs, Live

LEMMA SameRowsInv ==
  ASSUME RowsInv, SameRows, SameLogs
  PROVE  RowsInv'
<1>1. \A r, i : Knows(r, i)' <=> Knows(r, i)
  BY DEF Knows, Names, SameRows, SameLogs
<1>2. \A r : SeenIng(r)' = SeenIng(r)
  BY DEF SeenIng, SameRows
<1>3. QED
  BY <1>1, <1>2 DEF RowsInv, SameRows

LEMMA OutsideLedger ==
  ASSUME Known, SameRows, SameLogs, UNCHANGED <<cancel, supplied>>,
         \/ UNCHANGED <<pc, job, draft, step>>
         \/ Apart /\ Apart' /\ (pc' \in {"save", "lock"} => ~draft'.undone)
  PROVE  LedgerInv' /\ (StockAccounted => StockAccounted')
<1> USE DEF Known, LedgerInv
<1>1. RowsInv'
  BY SameRowsInv
<1>2. \A o \in Orders : Live(o)' <=> Live(o)
  BY SameLogsLive
<1>3. \A i : Out(i)' = Out(i) /\ {o \in Orders : Live(o)}' = {o \in Orders : Live(o)}
  BY <1>2, OutSame DEF SameLogs
<1>4. \A o \in Orders : /\ cancel'[o].pc = "idle"
                        /\ log'[o].undone => log'[o].status = "completed"
                        /\ Exact(log[o].deductions)'
  BY DEF OrdersInv, SameLogs, Exact
<1>5. entries' = entries /\ (Exact(entries)' <=> Exact(entries))
  BY DEF SameRows, Exact
<1>6. OrdersInv'
  BY <1>3, <1>4, <1>5 DEF OrdersInv, Apart
<1>7. PrepareInv'
  BY DEF PrepareInv, Took, SameRows, Apart
<1>8. UndoInv'
  <2> SUFFICES ASSUME pc' \in {"restore", "create"}
               PROVE  UndoInv'
    BY DEF UndoInv
  <2>1. UNCHANGED <<pc, job, draft, step>> /\ pc \in {"restore", "create"}
    BY DEF Apart
  <2>2. job.order \in Orders
    BY <2>1 DEF TypeInv, TypeOK, Job
  <2>3. log'[job.order] = log[job.order]
    BY <2>1, <2>2 DEF UndoInv, Live, SameLogs
  <2>5. \A r : SeenIng(r)' = SeenIng(r)
    BY DEF SeenIng, SameRows
  <2>6. QED
    BY <1>2, <2>1, <2>2, <2>3, <2>5 DEF UndoInv, SameRows
<1>9. ASSUME StockAccounted
      PROVE  StockAccounted'
  <2>1. \A i : Hand(i)' = Hand(i)
    BY DEF Hand, SameRows
  <2>2. QED
    BY <1>3, <1>9, <2>1 DEF StockAccounted, Hand, Out
<1>10. QED
  BY <1>1, <1>6, <1>7, <1>8, <1>9

\* The handlers of the API, the queue, and time.
LEMMA HandlersLedger ==
  ASSUME Known, Handlers
  PROVE  LedgerInv' /\ (StockAccounted => StockAccounted')
<1> PICK o \in Orders : \/ SaveLog(o) \/ AddPrepareJob(o) \/ UndoCheck(o) \/ AddUndoJob(o)
                        \/ CancelRead(o) \/ CancelDiff(o) \/ CancelUpdate(o)
  BY DEF Handlers
<1>1. cancel[o].pc = "idle"
  BY DEF Known, LedgerInv, OrdersInv
<1>2. ~ CancelRead(o)
  BY DEF CancelRead, Spend, Known, LedgerScope, Limit, TypeInv, TypeOK, Actors
<1>3. SaveLog(o) \/ AddPrepareJob(o) \/ UndoCheck(o) \/ AddUndoJob(o)
  BY <1>1, <1>2 DEF CancelDiff, CancelUpdate
<1>4. SameLogs
  <2>1. CASE SaveLog(o)
    BY <2>1 DEF SaveLog, SameLogs, Known, TypeInv, TypeOK, LogRow
  <2>2. CASE AddPrepareJob(o) \/ UndoCheck(o) \/ AddUndoJob(o)
    BY <2>2 DEF AddPrepareJob, UndoCheck, AddUndoJob, tables, SameLogs
  <2>3. QED
    BY <1>3, <2>1, <2>2
<1>5. SameRows /\ UNCHANGED <<cancel, supplied, pc, job, draft, step>>
  BY <1>3 DEF SaveLog, AddPrepareJob, UndoCheck, AddUndoJob, tables, queue, worker, tx,
     history, SameRows
<1>6. QED
  BY <1>4, <1>5, OutsideLedger

\* An order whose preparation has not ended has taken nothing yet.
LEMMA OpenFresh ==
  ASSUME Known, pc \in PreparePhases \cup {"record"}
  PROVE  /\ job.order \in Orders /\ tally[job.order].taken = 0
         /\ log[job.order].status # "completed" /\ ~log[job.order].undone
<1>1. job \in Job /\ job.order \in Orders /\ job.type \in JobKinds
  BY DEF Known, TypeInv, TypeOK, Control, Job, PreparePhases
<1>2. Open(job.order)
  BY <1>1 DEF Open, Running, IsPrep, PreparePhases
<1>3. tally[job.order].taken = 0
  BY <1>1, <1>2 DEF Known, DeliveryInv, Placed, NoCrashInv, TypeInv, TypeOK
<1>4. log[job.order].status # "completed"
  BY <1>1, <1>3 DEF Known, DeliveryInv, Restorable
<1>5. QED
  BY <1>1, <1>3, <1>4 DEF Known, LedgerInv, OrdersInv

\* The worker between its transactions, and before the transaction locks rows.
LEMMA QuietWorkerLedger ==
  ASSUME Known, Take \/ Ack \/ RecordFailure \/ ReadLog \/ SaveEvaluating
  PROVE  LedgerInv' /\ (StockAccounted => StockAccounted')
<1>1. SameRows /\ UNCHANGED <<cancel, supplied>>
  BY DEF Take, Ack, RecordFailure, ReadLog, SaveEvaluating, tables, queue, tx, handlers,
     history, SameRows
<1>2. SameLogs
  <2>1. CASE RecordFailure
    <3>1. log' = log \/ log' = [log EXCEPT ![job.order].status = failure]
      BY <2>1 DEF RecordFailure
    <3>2. job.order \in Orders /\ log[job.order].status # "completed"
      BY <2>1, OpenFresh DEF RecordFailure
    <3>3. failure # "completed"
      BY <2>1 DEF RecordFailure, Known, TypeInv, Control, Failed
    <3>4. log \in [Orders -> LogRow]
      BY DEF Known, TypeInv, TypeOK
    <3>5. QED
      BY <3>1, <3>2, <3>3, <3>4 DEF SameLogs, LogRow
  <2>2. CASE Take \/ Ack \/ ReadLog \/ SaveEvaluating
    BY <2>2 DEF Take, Ack, ReadLog, SaveEvaluating, tables, SameLogs
  <2>3. QED
    BY <2>1, <2>2
<1>3. Apart /\ Apart'
  BY DEF Take, Ack, RecordFailure, ReadLog, SaveEvaluating, Apart
<1>4. pc' \in {"save", "lock"} => ~draft'.undone
  <2>1. CASE ReadLog
    BY <2>1, OpenFresh DEF ReadLog, PreparePhases
  <2>2. CASE SaveEvaluating
    <3>1. draft' = [draft EXCEPT !.status = "evaluating"] /\ draft \in LogRow /\ ~draft.undone
      BY <2>2 DEF SaveEvaluating, Known, LedgerInv, OrdersInv, TypeInv, TypeOK
    <3>2. QED
      BY <3>1 DEF LogRow
  <2>3. CASE Take \/ Ack \/ RecordFailure
    BY <2>3 DEF Take, Ack, RecordFailure
  <2>4. QED
    BY <2>1, <2>2, <2>3
<1>5. QED
  BY <1>1, <1>2, <1>3, <1>4, OutsideLedger

\* A rollback leaves the tables as they were.
LEMMA CloseLedger ==
  ASSUME Known, CloseTx, pc' \in {"idle", "ack", "record"},
         UNCHANGED <<log, ing, qty, born, cancel, supplied>>
  PROVE  LedgerInv' /\ (StockAccounted => StockAccounted')
<1> USE DEF Known, LedgerInv
<1>1. /\ made' = [r \in Rows |-> Nil] /\ drawn' = [r \in Rows |-> 0] /\ entries' = <<>>
      /\ held' = {}
  BY DEF CloseTx
<1>2. \A r, i : Knows(r, i)' => Knows(r, i)
  BY <1>1 DEF Knows, Names
<1>3. \A r \in Rows : SeenIng(r)' = ing[r] /\ (ing[r] # Nil => SeenIng(r) = ing[r])
  BY <1>1 DEF SeenIng, RowsInv
<1>4. RowsInv'
  BY <1>1, <1>2, <1>3 DEF RowsInv
<1>5. SameLogs
  BY DEF SameLogs
<1>6. \A i : Out(i)' = Out(i) /\ {o \in Orders : Live(o)}' = {o \in Orders : Live(o)}
  BY <1>5, SameLogsLive, OutSame DEF SameLogs
<1>7. Exact(entries)' /\ \A o \in Orders : Exact(log[o].deductions)' <=> Exact(log[o].deductions)
  BY <1>1 DEF Exact
<1>8. OrdersInv'
  BY <1>1, <1>6, <1>7 DEF OrdersInv
<1>9. PrepareInv' /\ UndoInv'
  BY DEF PrepareInv, UndoInv
<1>10. ASSUME StockAccounted
       PROVE  StockAccounted'
  BY <1>6, <1>10 DEF StockAccounted, Hand, Out
<1>11. QED
  BY <1>4, <1>8, <1>9, <1>10

LEMMA AbortLedger ==
  ASSUME Known, NEW s, Abort(s), UNCHANGED <<tables, born, cancel, supplied>>
  PROVE  LedgerInv' /\ (StockAccounted => StockAccounted')
<1>1. CloseTx /\ pc' \in {"ack", "record"} /\ UNCHANGED <<log, ing, qty>>
  BY DEF Abort, tables
<1>2. QED
  BY <1>1, CloseLedger

LEMMA EnvironmentLedger ==
  ASSUME Known, Environment \/ UNCHANGED vars
  PROVE  LedgerInv' /\ (StockAccounted => StockAccounted')
<1>1. CASE Throw
  BY <1>1, AbortLedger DEF Throw, handlers
<1>2. ~ Crash
  BY DEF Crash, Spend, Limit, Known, LedgerScope, TypeInv, TypeOK, Actors
<1>3. CASE Recover \/ (\E o \in Orders : GrowOld(o)) \/ UNCHANGED vars
  <2>1. SameRows /\ SameLogs /\ UNCHANGED <<cancel, supplied, pc, job, draft, step>>
    BY <1>3 DEF Recover, GrowOld, vars, tables, queue, worker, tx, handlers, history,
       SameRows, SameLogs
  <2>2. QED
    BY <2>1, OutsideLedger
<1>4. QED
  BY <1>1, <1>2, <1>3 DEF Environment

-----------------------------------------------------------------------------
(* Admins                                                                  *)

\* No two rows are of one ingredient, and what is on hand is what its row holds.
LEMMA OneRow ==
  ASSUME RowsInv, TypeOK, NEW i \in Ingredients
  PROVE  /\ \A r, s \in Rows : ing[r] = i /\ ing[s] = i => r = s
         /\ (~ \E r \in Rows : ing[r] = i) => Hand(i) = 0
         /\ \A r \in Rows : ing[r] = i => Hand(i) = qty[r]
<1>1. i # Nil
  BY RowsAssumption
<1>2. \A r \in Rows : ing[r] = i => SeenIng(r) = i
  BY <1>1 DEF RowsInv, SeenIng
<1>3. \A r, s \in Rows : ing[r] = i /\ ing[s] = i => r = s
  BY <1>1, <1>2 DEF RowsInv
<1>4. \A r \in Rows : qty[r] \in Int
  BY DEF TypeOK
<1>5. /\ (~ \E r \in Rows : ing[r] = i) => Total(qty, {r \in Rows : ing[r] = i}) = 0
      /\ \A r \in Rows : ing[r] = i /\ qty[r] \in Int => Total(qty, {s \in Rows : ing[s] = i}) = qty[r]
  BY <1>3, OnHand
<1>6. QED
  BY <1>3, <1>4, <1>5 DEF Hand

HandOfRow ==
  \A i \in Ingredients :
    /\ (~ \E r \in Rows : ing[r] = i) => Hand(i) = 0
    /\ \A r \in Rows : ing[r] = i => Hand(i) = qty[r]

LEMMA OneRowNow == RowsInv /\ TypeOK => HandOfRow
  BY OneRow DEF HandOfRow

LEMMA OneRowNext == RowsInv' /\ TypeOK' => HandOfRow'
  BY OneRowNow, PTL

\* The worker's part of the invariant does not depend on rows it does not hold,
\* as long as a new row's ingredient was nobody's.
LEMMA UnheldLedger ==
  ASSUME Known, UNCHANGED <<log, cancel, worker>>, RowsInv',
         NEW S \in SUBSET Rows, S \cap held = {},
         \A r \in Rows \ S : ing'[r] = ing[r],
         \A r \in S : ing'[r] \in {Nil, ing[r]} \/ \A s \in Rows : SeenIng(s) # ing'[r]
  PROVE  /\ OrdersInv' /\ PrepareInv' /\ UndoInv'
         /\ \A i : Out(i)' = Out(i)
<1> USE DEF Known, LedgerInv
<1>0. UNCHANGED <<pc, job, draft, entries, held, rem, drawn, made, step>>
  BY DEF worker, tx
<1>1. SameLogs
  BY DEF SameLogs
<1>2. \A i : Out(i)' = Out(i) /\ {o \in Orders : Live(o)}' = {o \in Orders : Live(o)}
  BY <1>1, SameLogsLive, OutSame DEF SameLogs
<1>3. Exact(entries)' = Exact(entries) /\ \A o \in Orders : Exact(log[o].deductions)' <=> Exact(log[o].deductions)
  BY <1>0 DEF Exact
<1>4. OrdersInv'
  BY <1>0, <1>2, <1>3 DEF OrdersInv
<1>5. \A r \in held : r \in Rows /\ ing'[r] = ing[r] /\ SeenIng(r)' = SeenIng(r)
  BY <1>0 DEF TypeInv, TypeOK, SeenIng
<1>6. \A r \in S : drawn[r] = 0 /\ made[r] = Nil /\ SeenIng(r) = ing[r] /\ SeenIng(r)' = ing'[r]
  BY <1>0 DEF StockInv, SeenIng
<1>8. PrepareInv'
  <2> SUFFICES ASSUME pc \in {"require", "deduct"}
               PROVE  PrepareInv'
    BY <1>0 DEF PrepareInv
  <2>1. ASSUME NEW r \in Rows, ing'[r] # Nil
        PROVE  drawn'[r] = Took(entries, ing'[r])
    <3>1. CASE ing'[r] = ing[r]
      BY <1>0, <2>1, <3>1 DEF PrepareInv
    <3>2. CASE ing'[r] # ing[r]
      <4>1. r \in S /\ (\A s \in Rows : SeenIng(s) # ing'[r]) /\ drawn'[r] = 0
        BY <1>0, <1>6, <2>1, <3>2
      <4>2. ~ \E k \in DOMAIN entries : entries[k].actual = ing'[r]
        <5> SUFFICES ASSUME NEW k \in DOMAIN entries, entries[k].actual = ing'[r]
                     PROVE  FALSE
          OBVIOUS
        <5>1. entries[k] \in Entry
          BY DEF TypeInv, TypeOK
        <5>2. ~ entries[k].skipped
          BY <2>1, <5>1 DEF Entry, Taken, Skipped
        <5>3. entries[k].row \in held /\ ing[entries[k].row] = ing'[r]
          BY <5>2 DEF PrepareInv
        <5>4. SeenIng(entries[k].row) = ing'[r]
          BY <2>1, <5>3 DEF SeenIng, RowsInv, TypeInv, TypeOK
        <5>5. QED
          BY <4>1, <5>3, <5>4 DEF TypeInv, TypeOK
      <4>3. Took(entries, ing'[r]) = 0
        <5>1. {k \in DOMAIN entries : entries[k].actual = ing'[r]} = {}
          BY <4>2
        <5>2. QED
          BY <5>1, TotalEmpty DEF Took
      <4>4. QED
        BY <4>1, <4>3
    <3>3. QED
      BY <3>1, <3>2
  <2>2. \A r \in Rows : (ing[r] # Nil => drawn[r] = Took(entries, ing[r]))'
    BY <1>0, <2>1 DEF Took
  <2>3. QED
    BY <1>0, <1>5, <2>2 DEF PrepareInv
<1>9. UndoInv'
  <2> SUFFICES ASSUME pc \in {"restore", "create"}
               PROVE  UndoInv'
    BY <1>0 DEF UndoInv
  <2>1. ASSUME NEW r \in Rows, SeenIng(r)' # Nil
        PROVE  drawn'[r] = 0 - Back(draft.deductions, step - 1, SeenIng(r)')
    <3>1. CASE SeenIng(r)' = SeenIng(r)
      BY <1>0, <2>1, <3>1 DEF UndoInv
    <3>2. CASE SeenIng(r)' # SeenIng(r)
      <4>0. r \in S
        BY <1>0, <3>2 DEF SeenIng
      <4>1. (\A s \in Rows : SeenIng(s) # SeenIng(r)') /\ drawn'[r] = 0
        BY <1>0, <1>6, <2>1, <3>2, <4>0
      <4>2. ~ \E k \in DOMAIN draft.deductions :
                 k <= step - 1 /\ draft.deductions[k].actual = SeenIng(r)'
        <5> SUFFICES ASSUME NEW k \in DOMAIN draft.deductions, k <= step - 1,
                            draft.deductions[k].actual = SeenIng(r)'
                     PROVE  FALSE
          OBVIOUS
        <5>1. draft.deductions[k] \in Entry /\ k < step
          BY DEF TypeInv, TypeOK, LogRow
        <5>2. ~ draft.deductions[k].skipped
          BY <2>1, <5>1 DEF Entry, Taken, Skipped
        <5>3. \E s \in held : SeenIng(s) = SeenIng(r)'
          BY <5>1, <5>2 DEF UndoInv
        <5>4. QED
          BY <4>1, <5>3 DEF TypeInv, TypeOK
      <4>3. Back(draft.deductions, step - 1, SeenIng(r)') = 0
        <5>1. {k \in DOMAIN draft.deductions :
                 k <= step - 1 /\ draft.deductions[k].actual = SeenIng(r)'} = {}
          BY <4>2
        <5>2. QED
          BY <5>1, TotalEmpty DEF Back
      <4>4. QED
        BY <4>1, <4>3
    <3>3. QED
      BY <3>1, <3>2
  <2>2. \A k \in DOMAIN draft.deductions : k < step /\ ~draft.deductions[k].skipped =>
          \E r \in held : SeenIng(r)' = draft.deductions[k].actual
    BY <1>5 DEF UndoInv
  <2>3. Live(job.order)' <=> Live(job.order)
    BY <1>0 DEF Live
  <2>4. \A r \in Rows : (SeenIng(r) # Nil => drawn[r] = 0 - Back(draft.deductions, step - 1, SeenIng(r)))'
    BY <1>0, <2>1 DEF Back, Amounts
  <2>5. QED
    BY <1>0, <2>2, <2>3, <2>4 DEF UndoInv
<1>10. QED
  BY <1>2, <1>4, <1>8, <1>9

LEMMA HandSame ==
  ASSUME HandOfRow, HandOfRow', NEW j \in Ingredients,
         \A s \in Rows : ing[s] = j \/ ing'[s] = j => ing'[s] = ing[s] /\ qty'[s] = qty[s]
  PROVE  Hand(j)' = Hand(j)
<1>1. CASE \E s \in Rows : ing[s] = j
  BY <1>1 DEF HandOfRow
<1>2. CASE ~ \E s \in Rows : ing[s] = j
  <2>1. ~ \E s \in Rows : ing'[s] = j
    BY <1>2
  <2>2. QED
    BY <1>2, <2>1 DEF HandOfRow
<1>3. QED
  BY <1>1, <1>2

LEMMA AddStockLedger ==
  ASSUME Known, StockAccounted, NEW r \in Rows, NEW i \in Ingredients, NEW q \in Supplies,
         AddStock(r, i, q)
  PROVE  LedgerInv' /\ StockAccounted'
<1> USE DEF Known, LedgerInv
<1>0. /\ UNCHANGED <<log, cancel, worker, made, drawn, entries>> /\ r \notin held
      /\ q \in Int /\ i # Nil
      /\ qty' = [qty EXCEPT ![r] = @ + q] /\ supplied' = [supplied EXCEPT ![i] = @ + q]
  BY RowsAssumption, StockAssumption DEF AddStock, Free, worker, tx, handlers
<1>t. TypeOK /\ TypeOK' /\ ing \in [Rows -> Ingredients \cup {Nil}] /\ qty \in [Rows -> Int]
      /\ supplied \in [Ingredients -> Int]
  BY AdminType DEF Admin, TypeInv, TypeOK
<1>h. drawn[r] = 0 /\ made[r] = Nil /\ SeenIng(r) = ing[r]
  BY <1>0 DEF StockInv, SeenIng
<1> HIDE DEF Known, LedgerInv
<1>l. RowsInv /\ OrdersInv
  BY DEF Known, LedgerInv
<1> DEFINE Fits ==
      /\ RowsInv'
      /\ \A s \in Rows : s # r => ing'[s] = ing[s] /\ qty'[s] = qty[s]
      /\ ing'[r] = i
      /\ \/ ing[r] = i /\ qty'[r] = qty[r] + q
         \/ /\ ing[r] = Nil /\ qty'[r] = q
            /\ \A s \in Rows : SeenIng(s) # i /\ ing[s] # i
<1>1. ASSUME ing[r] = i /\ UNCHANGED <<ing, born>>
      PROVE  Fits
  <2>1. \A s, j : (Knows(s, j)' <=> Knows(s, j)) /\ SeenIng(s)' = SeenIng(s)
    BY <1>0, <1>1 DEF Knows, Names, SeenIng
  <2>2. \A s \in Rows : s # r => qty'[s] = qty[s]
    BY <1>0, <1>t
  <2>3. RowsInv'
    BY <1>0, <1>1, <1>l, <2>1, <2>2 DEF RowsInv
  <2>4. ing'[r] = ing[r] /\ qty'[r] = qty[r] + q
    BY <1>0, <1>1, <1>t
  <2>5. QED
    BY <1>1, <2>2, <2>3, <2>4
<1>2. ASSUME /\ ~\E s \in Rows : ing[s] = i
             /\ r \notin born
             /\ born' = born \cup {r}
             /\ ing' = [ing EXCEPT ![r] = i]
      PROVE  Fits
  <2>1. \A j \in Ingredients : ~ Knows(r, j)
    BY <1>2, <1>l DEF RowsInv
  <2>2. ing[r] = Nil /\ SeenIng(r) = Nil
    BY <1>h, <1>t, <2>1 DEF Knows
  <2>3. ing'[r] = i /\ SeenIng(r)' = i /\ \A s \in Rows : s # r => ing'[s] = ing[s] /\ qty'[s] = qty[s]
    BY <1>0, <1>2, <1>h, <1>t DEF SeenIng
  <2>4. \A s \in Rows : s # r => SeenIng(s)' = SeenIng(s)
    BY <1>0, <2>3 DEF SeenIng
  <2>5. \A s \in Rows, j \in Ingredients : Knows(s, j)' <=> Knows(s, j) \/ (s = r /\ j = i)
    BY <1>0, <2>1, <2>2, <2>3 DEF Knows, Names
  <2>6. \A s \in Rows : SeenIng(s) # i
    <3> SUFFICES ASSUME NEW s \in Rows, SeenIng(s) = i
                 PROVE  FALSE
      OBVIOUS
    <3>1. made[s] = i
      BY <1>2 DEF SeenIng
    <3>2. s \in held
      BY <1>0, <3>1 DEF Known, StockInv
    <3>3. QED
      BY <3>1, <3>2 DEF AddStock
  <2>7. qty[r] = 0 /\ qty'[r] = q
    BY <1>0, <1>l, <1>t, <2>2 DEF RowsInv
  <2>8. RowsInv'
    <3>1. \A s \in Rows : \A j, k \in Ingredients : Knows(s, j)' /\ Knows(s, k)' => j = k
      BY <1>l, <2>1, <2>5 DEF RowsInv
    <3>2. \A s \in Rows : \A j \in Ingredients : Knows(s, j)' => s \in born'
      BY <1>2, <1>l, <2>5 DEF RowsInv
    <3>3. \A s \in Rows : (made[s] # Nil => ing[s] = Nil /\ Knows(s, made[s]))'
      <4> SUFFICES ASSUME NEW s \in Rows, made'[s] # Nil
                   PROVE  ing'[s] = Nil /\ Knows(s, made[s])'
        OBVIOUS
      <4>1. s # r /\ made[s] # Nil
        BY <1>0, <1>h
      <4>2. ing'[s] = Nil /\ Knows(s, made[s])
        BY <1>l, <2>3, <4>1 DEF RowsInv
      <4>3. QED
        BY <1>0, <2>3, <4>1, <4>2 DEF Knows, Names
    <3>4. \A s, t \in Rows : SeenIng(s)' = SeenIng(t)' /\ SeenIng(s)' # Nil => s = t
      BY <1>l, <2>3, <2>4, <2>6 DEF RowsInv
    <3>5. \A s \in Rows : ing'[s] = Nil => qty'[s] = 0
      BY <1>0, <1>l, <2>3 DEF RowsInv
    <3>6. \A s \in Rows : SeenIng(s)' = Nil => drawn'[s] = 0
      BY <1>0, <1>l, <2>3, <2>4 DEF RowsInv
    <3>7. QED
      BY <1>0, <3>1, <3>2, <3>3, <3>4, <3>5, <3>6 DEF RowsInv
  <2>9. QED
    BY <1>2, <2>2, <2>3, <2>6, <2>7, <2>8
<1>f. Fits
  BY <1>1, <1>2 DEF AddStock
<1> HIDE DEF Fits
<1>3. /\ RowsInv'
      /\ \A s \in Rows : s # r => ing'[s] = ing[s] /\ qty'[s] = qty[s]
      /\ ing'[r] = i
      /\ ing'[r] = ing[r] \/ \A s \in Rows : SeenIng(s) # ing'[r]
  BY <1>f DEF Fits
<1> DEFINE S == {r}
<1>4. /\ S \in SUBSET Rows /\ S \cap held = {} /\ (\A s \in Rows \ S : ing'[s] = ing[s])
      /\ \A s \in S : ing'[s] \in {Nil, ing[s]} \/ \A t \in Rows : SeenIng(t) # ing'[s]
  BY <1>0, <1>3
<1> HIDE DEF S
<1>5. OrdersInv' /\ PrepareInv' /\ UndoInv' /\ \A j : Out(j)' = Out(j)
  BY <1>0, <1>3, <1>4, UnheldLedger
<1>6. HandOfRow /\ HandOfRow'
  BY <1>l, <1>t, <1>3, OneRowNow, OneRowNext
<1>7. ASSUME NEW j \in Ingredients
      PROVE  Hand(j)' + Out(j)' - supplied'[j] = Hand(j) + Out(j) - supplied[j]
  <2>1. Hand(j) \in Int /\ Out(j) \in Int /\ supplied[j] \in Int /\ Out(j)' = Out(j)
    BY <1>t, <1>l, <1>5, AccountTypes
  <2>2. CASE j = i
    <3>1. Hand(j)' = qty'[r]
      BY <1>3, <1>6, <2>2 DEF HandOfRow
    <3>2. Hand(j)' = Hand(j) + q
      BY <1>0, <1>t, <1>f, <1>6, <2>2, <3>1 DEF HandOfRow, Fits
    <3>3. supplied'[j] = supplied[j] + q
      BY <1>0, <1>t, <2>2
    <3>4. QED
      BY <1>0, <2>1, <3>2, <3>3
  <2>3. CASE j # i
    <3>1. ing[r] # j
      BY <1>f, <2>3, RowsAssumption DEF Fits
    <3>2. Hand(j)' = Hand(j)
      BY <1>3, <1>6, <2>3, <3>1, HandSame
    <3>3. supplied'[j] = supplied[j]
      BY <1>0, <1>t, <2>3
    <3>4. QED
      BY <2>1, <3>2, <3>3
  <2>4. QED
    BY <2>2, <2>3
<1>8. StockAccounted'
  BY <1>t, <1>l, <1>5, <1>7, KeepsAccount
<1>9. QED
  BY <1>3, <1>5, <1>8 DEF LedgerInv

LEMMA SetStockLedger ==
  ASSUME Known, StockAccounted, NEW r \in Rows, NEW q \in Supplies, SetStock(r, q)
  PROVE  LedgerInv' /\ StockAccounted'
<1> USE DEF Known, LedgerInv
<1>0. /\ UNCHANGED <<log, cancel, worker, made, drawn, entries, ing, born>> /\ r \notin held
      /\ q \in Int /\ ing[r] # Nil
      /\ qty' = [qty EXCEPT ![r] = q]
      /\ supplied' = [supplied EXCEPT ![ing[r]] = @ + q - qty[r]]
  BY StockAssumption DEF SetStock, Free, Exists, worker, tx, handlers
<1>t. TypeOK /\ TypeOK' /\ ing \in [Rows -> Ingredients \cup {Nil}] /\ qty \in [Rows -> Int]
      /\ supplied \in [Ingredients -> Int]
  BY AdminType DEF Admin, TypeInv, TypeOK
<1>1. /\ \A s \in Rows : s # r => qty'[s] = qty[s]
      /\ qty'[r] = q /\ ing[r] \in Ingredients
  BY <1>0, <1>t
<1>2. RowsInv'
  <2>1. \A s, j : (Knows(s, j)' <=> Knows(s, j)) /\ SeenIng(s)' = SeenIng(s)
    BY <1>0 DEF Knows, Names, SeenIng
  <2>2. QED
    BY <1>0, <1>1, <2>1 DEF RowsInv
<1> DEFINE S == {r}
<1>3. /\ S \in SUBSET Rows /\ S \cap held = {} /\ (\A s \in Rows \ S : ing'[s] = ing[s])
      /\ \A s \in S : ing'[s] \in {Nil, ing[s]} \/ \A t \in Rows : SeenIng(t) # ing'[s]
  BY <1>0
<1> HIDE DEF S
<1>4. OrdersInv' /\ PrepareInv' /\ UndoInv' /\ \A j : Out(j)' = Out(j)
  BY <1>0, <1>2, <1>3, UnheldLedger
<1>5. HandOfRow /\ HandOfRow'
  BY <1>t, <1>2, OneRowNow, OneRowNext
<1>6. ASSUME NEW j \in Ingredients
      PROVE  Hand(j)' + Out(j)' - supplied'[j] = Hand(j) + Out(j) - supplied[j]
  <2>1. Hand(j) \in Int /\ Out(j) \in Int /\ supplied[j] \in Int /\ Out(j)' = Out(j)
    BY <1>t, <1>4, AccountTypes
  <2>2. CASE j = ing[r]
    <3>1. Hand(j)' = q /\ Hand(j) = qty[r] /\ qty[r] \in Int
      BY <1>0, <1>1, <1>5, <1>t, <2>2 DEF HandOfRow
    <3>2. supplied'[j] = supplied[j] + q - qty[r]
      BY <1>0, <1>t, <2>2
    <3>3. QED
      BY <1>0, <2>1, <3>1, <3>2
  <2>3. CASE j # ing[r]
    <3>1. Hand(j)' = Hand(j)
      BY <1>0, <1>1, <1>5, <2>3, HandSame
    <3>2. supplied'[j] = supplied[j]
      BY <1>0, <1>t, <2>3
    <3>3. QED
      BY <2>1, <3>1, <3>2
  <2>4. QED
    BY <2>2, <2>3
<1>7. StockAccounted'
  BY <1>t, <1>4, <1>6, KeepsAccount
<1>8. QED
  BY <1>2, <1>4, <1>7

LEMMA RemovedLedger ==
  ASSUME Known, StockAccounted, TypeOK', NEW S \in SUBSET Rows, S \cap held = {}, Removed(S),
         UNCHANGED <<log, cancel, worker, born>>
  PROVE  LedgerInv' /\ StockAccounted'
<1> USE DEF Known, LedgerInv
<1>0. UNCHANGED <<made, drawn, entries>>
  BY DEF worker, tx
<1>t. TypeOK /\ ing \in [Rows -> Ingredients \cup {Nil}] /\ qty \in [Rows -> Int]
      /\ supplied \in [Ingredients -> Int]
  BY DEF TypeInv, TypeOK
<1>1. /\ \A s \in S : ing'[s] = Nil /\ qty'[s] = 0 /\ made[s] = Nil /\ drawn[s] = 0
      /\ \A s \in Rows \ S : ing'[s] = ing[s] /\ qty'[s] = qty[s]
      /\ \A j \in Ingredients : supplied'[j] = supplied[j] - HeldBy(S, j)
  BY DEF Removed, StockInv
<1>2. RowsInv'
  <2>1. \A s \in Rows, j \in Ingredients : Knows(s, j)' => Knows(s, j)
    BY <1>0, <1>1, RowsAssumption DEF Knows, Names
  <2>2. \A s \in Rows : SeenIng(s)' = IF s \in S THEN Nil ELSE SeenIng(s)
    BY <1>0, <1>1 DEF SeenIng
  <2>3. \A s \in Rows : (made[s] # Nil => ing[s] = Nil /\ Knows(s, made[s]))'
    <3> SUFFICES ASSUME NEW s \in Rows, made'[s] # Nil
                 PROVE  ing'[s] = Nil /\ Knows(s, made[s])'
      OBVIOUS
    <3>1. s \in Rows \ S /\ ing[s] = Nil /\ Knows(s, made[s])
      BY <1>0, <1>1 DEF RowsInv
    <3>2. QED
      BY <1>0, <1>1, <3>1 DEF Knows, Names
  <2>4. \A s \in Rows : ing'[s] = Nil => qty'[s] = 0
    BY <1>1 DEF RowsInv
  <2>5. \A s \in Rows : SeenIng(s)' = Nil => drawn'[s] = 0
    BY <1>0, <1>1, <2>2 DEF RowsInv
  <2>6. \A s, t \in Rows : SeenIng(s)' = SeenIng(t)' /\ SeenIng(s)' # Nil => s = t
    BY <2>2 DEF RowsInv
  <2>7. QED
    BY <2>1, <2>3, <2>4, <2>5, <2>6 DEF RowsInv
<1>3. OrdersInv' /\ PrepareInv' /\ UndoInv' /\ \A j : Out(j)' = Out(j)
  BY <1>1, <1>2, UnheldLedger
<1>4. HandOfRow /\ HandOfRow'
  BY <1>t, <1>2, OneRowNow, OneRowNext
<1>5. ASSUME NEW j \in Ingredients
      PROVE  Hand(j)' + Out(j)' - supplied'[j] = Hand(j) + Out(j) - supplied[j]
  <2>0. j # Nil
    BY RowsAssumption
  <2>1. Hand(j) \in Int /\ Out(j) \in Int /\ supplied[j] \in Int /\ Out(j)' = Out(j)
    BY <1>t, <1>3, AccountTypes
  <2>2. CASE \E r \in S : ing[r] = j
    <3> PICK r \in S : r = (CHOOSE s \in S : ing[s] = j) /\ ing[r] = j
      BY <2>2
    <3>1. HeldBy(S, j) = qty[r] /\ qty[r] \in Int
      BY <1>t, <2>2 DEF HeldBy
    <3>2. Hand(j) = qty[r]
      BY <1>4 DEF HandOfRow
    <3>3. ~ \E s \in Rows : ing'[s] = j
      <4>1. \A s \in Rows \ S : ing[s] # j
        BY <1>t, OneRow
      <4>2. QED
        BY <1>1, <2>0, <4>1
    <3>4. Hand(j)' = 0
      BY <1>4, <3>3 DEF HandOfRow
    <3>5. supplied'[j] = supplied[j] - qty[r]
      BY <1>1, <3>1
    <3>6. QED
      BY <2>1, <3>1, <3>2, <3>4, <3>5
  <2>3. CASE ~ \E r \in S : ing[r] = j
    <3>1. Hand(j)' = Hand(j)
      BY <1>1, <1>4, <2>0, <2>3, HandSame
    <3>2. HeldBy(S, j) = 0
      BY <2>3 DEF HeldBy
    <3>3. supplied'[j] = supplied[j]
      BY <1>1, <2>1, <3>2
    <3>4. QED
      BY <2>1, <3>1, <3>3
  <2>4. QED
    BY <2>2, <2>3
<1>6. StockAccounted'
  BY <1>t, <1>3, <1>5, KeepsAccount
<1>7. QED
  BY <1>2, <1>3, <1>6

LEMMA AdminLedger ==
  ASSUME Known, StockAccounted, Admin
  PROVE  LedgerInv' /\ StockAccounted'
<1>t. TypeOK'
  BY AdminType DEF Known, TypeInv
<1>1. CASE \E r \in Rows, i \in Ingredients, q \in Supplies : AddStock(r, i, q)
  BY <1>1, AddStockLedger
<1>2. CASE \E r \in Rows, q \in Supplies : SetStock(r, q)
  BY <1>2, SetStockLedger
<1>3. ASSUME NEW r \in Rows, RemoveStock(r)
      PROVE  LedgerInv' /\ StockAccounted'
  <2> DEFINE S == {r}
  <2>1. S \in SUBSET Rows /\ S \cap held = {} /\ Removed(S) /\ UNCHANGED <<log, cancel, worker, born>>
    BY <1>3 DEF RemoveStock, Free, handlers
  <2> HIDE DEF S
  <2>2. QED
    BY <1>t, <2>1, RemovedLedger
<1>4. CASE \E S \in SUBSET Rows : BulkDeleteCheck(S)
  <2>1. SameRows /\ SameLogs /\ UNCHANGED <<cancel, supplied, pc, job, draft, step>>
    BY <1>4 DEF BulkDeleteCheck, tables, worker, tx, SameRows, SameLogs
  <2>2. QED
    BY <2>1, OutsideLedger
<1>5. CASE BulkDelete
  <2> DEFINE S == {r \in deleting : Exists(r)}
  <2>1. S \in SUBSET Rows /\ S \cap held = {} /\ Removed(S) /\ UNCHANGED <<log, cancel, worker, born>>
    BY <1>5 DEF BulkDelete, Free, Known, TypeInv, TypeOK
  <2> HIDE DEF S
  <2>2. QED
    BY <1>t, <2>1, RemovedLedger
<1>6. QED
  BY <1>1, <1>2, <1>3, <1>4, <1>5 DEF Admin

-----------------------------------------------------------------------------
(* The transaction that prepares an order                                  *)

\* Until it commits, the tables stay as they are.
LEMMA InTxLedger ==
  ASSUME Known, UNCHANGED <<log, ing, qty, born, cancel, supplied>>, Exact(entries'),
         pc' \in {"save", "lock", "require", "deduct"} => ~draft'.undone,
         pc' \notin {"require", "deduct"} => entries' = <<>>
  PROVE  OrdersInv' /\ (StockAccounted => StockAccounted')
<1> USE DEF Known, LedgerInv
<1>1. SameLogs
  BY DEF SameLogs
<1>2. \A i : Out(i)' = Out(i) /\ {o \in Orders : Live(o)}' = {o \in Orders : Live(o)}
  BY <1>1, SameLogsLive, OutSame DEF SameLogs
<1>3. \A o \in Orders : Exact(log[o].deductions)' <=> Exact(log[o].deductions)
  BY DEF Exact
<1>4. Exact(entries)'
  BY DEF Exact
<1>5. OrdersInv'
  BY <1>2, <1>3, <1>4 DEF OrdersInv
<1>6. ASSUME StockAccounted
      PROVE  StockAccounted'
  BY <1>2, <1>6 DEF StockAccounted, Hand, Out
<1>7. QED
  BY <1>5, <1>6

LEMMA LockStockLedger ==
  ASSUME Known, LockStock
  PROVE  LedgerInv' /\ (StockAccounted => StockAccounted')
<1> USE DEF Known, LedgerInv
<1>1. /\ SameLogs /\ UNCHANGED <<log, ing, qty, born, cancel, supplied, draft, entries, drawn, made>>
      /\ pc = "lock" /\ pc' = "require" /\ entries = <<>> /\ held = {}
  BY DEF LockStock, tables, handlers, history, SameLogs, OrdersInv, StockInv
<1>2. OrdersInv' /\ (StockAccounted => StockAccounted')
  BY <1>1, InTxLedger DEF OrdersInv, Exact
<1>3. RowsInv'
  <2>1. \A s, j : (Knows(s, j)' <=> Knows(s, j)) /\ SeenIng(s)' = SeenIng(s)
    BY <1>1 DEF Knows, Names, SeenIng
  <2>2. QED
    BY <1>1, <2>1 DEF RowsInv
<1>4. PrepareInv'
  <2>1. \A r \in Rows : drawn'[r] = 0
    BY <1>1 DEF StockInv
  <2>2. \A i : Took(entries', i) = 0
    BY <1>1, TookNothing
  <2>3. entries' = <<>>
    BY <1>1
  <2>4. QED
    BY <2>1, <2>2, <2>3 DEF PrepareInv, Took
<1>5. UndoInv'
  BY <1>1 DEF UndoInv
<1>6. QED
  BY <1>2, <1>3, <1>4, <1>5

\* A line that is skipped takes nothing.
LEMMA SkipLineLedger ==
  ASSUME Known, SkipLine
  PROVE  LedgerInv' /\ (StockAccounted => StockAccounted')
<1> USE DEF Known, LedgerInv
<1> DEFINE e == [ing |-> Line.ing, actual |-> Nil, row |-> Nil, amount |-> 0, skipped |-> TRUE]
<1>1. /\ SameLogs /\ UNCHANGED <<log, ing, qty, born, cancel, supplied, draft, drawn, made, held, pc>>
      /\ pc = "require" /\ entries' = Append(entries, e) /\ job.order \in Orders
      /\ step \in DOMAIN Lines
  BY DEF SkipLine, tables, handlers, history, SameLogs, TypeInv, TypeOK, Job
<1>2. e \in Entry /\ e.actual = Nil /\ e.row = Nil /\ e.skipped
  BY <1>1, LineType DEF Entry, Skipped
<1> HIDE DEF e
<1>4. /\ DOMAIN entries' = DOMAIN entries \cup {Len(entries) + 1}
      /\ \A k \in DOMAIN entries : entries'[k] = entries[k]
      /\ entries'[Len(entries) + 1] = e /\ entries \in Seq(Entry)
  BY <1>1, <1>2 DEF TypeInv, TypeOK
<1>5. Exact(entries')
  BY <1>2, <1>4 DEF Exact, OrdersInv
<1>6. OrdersInv' /\ (StockAccounted => StockAccounted')
  BY <1>1, <1>5, InTxLedger DEF OrdersInv
<1>7. RowsInv'
  <2>1. \A s \in Rows, j \in Ingredients : Names(entries', s, j) <=> Names(entries, s, j)
    BY <1>2, <1>4, RowsAssumption DEF Names
  <2>2. \A s \in Rows, j \in Ingredients : Knows(s, j)' <=> Knows(s, j)
    BY <1>1, <2>1 DEF Knows, Names
  <2>3. (\A s \in Rows : SeenIng(s)' = SeenIng(s)) /\ \A s \in Rows : made'[s] = Nil
    BY <1>1 DEF SeenIng, StockInv
  <2>4. QED
    BY <1>1, <2>2, <2>3 DEF RowsInv
<1>8. PrepareInv'
  <2>1. \A r \in Rows : ing[r] # Nil => Took(entries', ing[r]) = Took(entries, ing[r])
    BY <1>1, <1>2, <1>4, TookAppend
  <2>2. \A r \in Rows : (ing[r] # Nil => drawn[r] = Took(entries, ing[r]))'
    BY <1>1, <2>1 DEF PrepareInv, Took
  <2>3. QED
    BY <1>1, <1>2, <1>4, <2>2 DEF PrepareInv
<1>9. UndoInv'
  BY <1>1 DEF UndoInv
<1>10. QED
  BY <1>6, <1>7, <1>8, <1>9

LEMMA LinesLedger ==
  ASSUME Known, AllocateLine \/ NextLine
  PROVE  LedgerInv' /\ (StockAccounted => StockAccounted')
<1> USE DEF Known, LedgerInv
<1>1. /\ SameLogs
      /\ UNCHANGED <<log, ing, qty, born, cancel, supplied, entries, drawn, made, held>>
      /\ pc \in {"require", "deduct"} /\ pc' \in {"require", "deduct"}
  BY DEF AllocateLine, NextLine, tables, handlers, history, SameLogs
<1>2. ~draft'.undone
  <2>1. ~draft.undone /\ draft \in LogRow
    BY <1>1 DEF OrdersInv, TypeInv, TypeOK
  <2>2. draft' = draft \/ draft' = [draft EXCEPT !.status = "preparing"]
    BY DEF AllocateLine, NextLine
  <2>3. QED
    BY <2>1, <2>2 DEF LogRow
<1>3. OrdersInv' /\ (StockAccounted => StockAccounted')
  BY <1>1, <1>2, InTxLedger DEF OrdersInv
<1>4. SameRows
  BY <1>1 DEF SameRows
<1>5. RowsInv'
  BY <1>1, <1>4, SameRowsInv
<1>6. PrepareInv'
  BY <1>1 DEF PrepareInv, Took
<1>7. UndoInv'
  BY <1>1 DEF UndoInv
<1>8. QED
  BY <1>3, <1>5, <1>6, <1>7

\* A deduction takes from the one row of its ingredient.
LEMMA DeductLedger ==
  ASSUME Known, NEW r \in Rows, Deduct(r)
  PROVE  LedgerInv' /\ (StockAccounted => StockAccounted')
<1> USE DEF Known, LedgerInv
<1> DEFINE a == Portion(r)
           e == [ing |-> Line.ing, actual |-> ing[r], row |-> r, amount |-> a, skipped |-> FALSE]
<1>0. pc' = "deduct"
  BY DeductNeverRefused
<1>1. /\ SameLogs /\ UNCHANGED <<log, ing, qty, born, cancel, supplied, draft, made, held, pc>>
      /\ pc = "deduct" /\ entries' = Append(entries, e)
      /\ drawn' = [drawn EXCEPT ![r] = @ + a]
      /\ r \in held /\ ing[r] \in Subs[Line.ing] /\ step \in DOMAIN Lines
  BY <1>0 DEF Deduct, Abort, Eligible, tables, handlers, history, SameLogs, TypeInv, Control
<1>2. job.order \in Orders /\ Line.ing \in Ingredients /\ ing[r] = Line.ing /\ ing[r] # Nil
  BY <1>1, LineType, RowsAssumption DEF TypeInv, TypeOK, Job, LedgerScope
<1>3. a \in Nat
  BY <1>1 DEF Portion, StockInv, RemainingIsStock, TypeInv, TypeOK
<1>4. e \in Entry /\ e.actual = ing[r] /\ e.ing = ing[r] /\ e.row = r /\ ~e.skipped /\ e.amount = a
  BY <1>2, <1>3 DEF Entry, Taken
<1> HIDE DEF e, a
<1>5. /\ DOMAIN entries' = DOMAIN entries \cup {Len(entries) + 1}
      /\ \A k \in DOMAIN entries : entries'[k] = entries[k]
      /\ entries'[Len(entries) + 1] = e /\ entries \in Seq(Entry)
  BY <1>1, <1>4 DEF TypeInv, TypeOK
<1>6. Exact(entries')
  BY <1>4, <1>5 DEF Exact, OrdersInv
<1>7. OrdersInv' /\ (StockAccounted => StockAccounted')
  BY <1>1, <1>6, InTxLedger DEF OrdersInv
<1>d. drawn'[r] = drawn[r] + a /\ \A s \in Rows : s # r => drawn'[s] = drawn[s]
  BY <1>1 DEF TypeInv, TypeOK
<1>8. RowsInv'
  <2>1. \A s \in Rows, j \in Ingredients :
          Names(entries', s, j) <=> Names(entries, s, j) \/ (s = r /\ j = ing[r])
    BY <1>4, <1>5 DEF Names
  <2>2. \A s \in Rows, j \in Ingredients : Knows(s, j)' <=> Knows(s, j)
    BY <1>1, <2>1 DEF Knows, Names
  <2>3. (\A s \in Rows : SeenIng(s)' = SeenIng(s)) /\ \A s \in Rows : made'[s] = Nil
    BY <1>1 DEF SeenIng, StockInv
  <2>4. \A s \in Rows : SeenIng(s)' = Nil => drawn'[s] = 0
    <3>1. SeenIng(r) # Nil
      BY <1>2 DEF RowsInv, SeenIng
    <3>2. QED
      BY <1>d, <2>3, <3>1 DEF RowsInv
  <2>5. QED
    BY <1>1, <2>2, <2>3, <2>4 DEF RowsInv
<1>9. PrepareInv'
  <2>1. ASSUME NEW s \in Rows, ing[s] # Nil
        PROVE  drawn'[s] = Took(entries', ing[s])
    <3>1. drawn[s] = Took(entries, ing[s]) /\ Took(entries, ing[s]) \in Int
      BY <1>1, <1>5, <2>1, TookType DEF PrepareInv
    <3>2. Took(entries', ing[s]) = IF ing[r] = ing[s] THEN Took(entries, ing[s]) + a ELSE Took(entries, ing[s])
      BY <1>1, <1>4, <1>5, TookAppend
    <3>3. ing[r] = ing[s] <=> s = r
      BY <1>2, OneRow DEF TypeInv
    <3>4. QED
      BY <1>d, <3>1, <3>2, <3>3
  <2>2. \A s \in Rows : (ing[s] # Nil => drawn[s] = Took(entries, ing[s]))'
    BY <1>1, <2>1 DEF Took
  <2>3. QED
    BY <1>1, <1>4, <1>5, <2>2 DEF PrepareInv
<1>10. UndoInv'
  BY <1>1 DEF UndoInv
<1>11. QED
  BY <1>7, <1>8, <1>9, <1>10

\* The commit of an order: what its entries took leaves the rows, and is what
\* the log records from now on.
LEMMA CompleteLedger ==
  ASSUME Known, StockAccounted, Complete
  PROVE  LedgerInv' /\ StockAccounted'
<1> USE DEF Known, LedgerInv
<1> PICK o \in Orders : o = job.order
  BY DEF Complete, TypeInv, TypeOK, Job
<1> DEFINE row == [draft EXCEPT !.status = "completed", !.deductions = entries]
<1>t. TypeOK /\ TypeOK'
  BY PrepareType DEF TypeInv
<1>0. /\ pc = "require" /\ pc' = "ack" /\ CloseTx
      /\ log' = [log EXCEPT ![o] = row] /\ UNCHANGED <<born, cancel, supplied>>
      /\ ing' = [r \in Rows |-> SeenIng(r)] /\ qty' = [r \in Rows |-> qty[r] - drawn[r]]
  BY DEF Complete, Commit, handlers, TypeInv, TypeOK, Job
<1>1. log[o].status # "completed"
  BY <1>0, OpenFresh DEF PreparePhases
<1>2. row \in LogRow /\ row.status = "completed" /\ ~row.undone /\ row.deductions = entries
  BY <1>0 DEF TypeInv, TypeOK, LogRow, Statuses, Terminal, OrdersInv
<1> HIDE DEF row
<1>3. log'[o] = row /\ \A p \in Orders \ {o} : log'[p] = log[p]
  BY <1>0 DEF TypeInv, TypeOK
<1>4. /\ \A r \in Rows : made'[r] = Nil /\ drawn'[r] = 0 /\ ing'[r] = ing[r] /\ SeenIng(r)' = ing[r]
                         /\ SeenIng(r) = ing[r] /\ qty'[r] = qty[r] - drawn[r]
      /\ entries' = <<>>
  BY <1>0 DEF CloseTx, SeenIng, StockInv
<1>5. RowsInv'
  <2>1. \A s \in Rows, j \in Ingredients : Knows(s, j)' => Knows(s, j)
    <3> SUFFICES ASSUME NEW s \in Rows, NEW j \in Ingredients, Knows(s, j)'
                 PROVE  Knows(s, j)
      OBVIOUS
    <3>1. CASE ing'[s] = j
      BY <1>4, <3>1 DEF Knows
    <3>2. CASE Names(entries', s, j)
      BY <1>4, <3>2 DEF Names
    <3>3. ASSUME NEW p \in Orders, Names(log'[p].deductions, s, j)
          PROVE  Knows(s, j)
      BY <1>2, <1>3, <3>3 DEF Knows
    <3>4. QED
      BY <3>1, <3>2, <3>3 DEF Knows, Names
  <2>2. \A s \in Rows : ing'[s] = Nil => qty'[s] = 0
    BY <1>4 DEF RowsInv
  <2>3. \A r, s \in Rows : SeenIng(r)' = SeenIng(s)' /\ SeenIng(r)' # Nil => r = s
    BY <1>4 DEF RowsInv
  <2>4. \A s \in Rows : made'[s] = Nil /\ drawn'[s] = 0
    BY <1>4
  <2>5. QED
    BY <1>0, <2>1, <2>2, <2>3, <2>4 DEF RowsInv
<1>6. ~Live(o) /\ Live(o)'
  <2>1. ~Live(o)
    BY <1>1 DEF Live
  <2>2. log'[o].status = "completed" /\ ~log'[o].undone
    BY <1>2, <1>3
  <2>3. QED
    BY <2>1, <2>2 DEF Live
<1>7. ASSUME NEW i
      PROVE  Out(i)' = Out(i) + Took(entries, i) /\ IsFiniteSet({p \in Orders : Live(p)}')
  BY <1>0, <1>2, <1>3, <1>6, <1>t, OutMore DEF Recorded
<1>8. \A k \in DOMAIN entries : ~entries[k].skipped =>
        entries[k].row \in held /\ ing[entries[k].row] = entries[k].actual
  BY <1>0 DEF PrepareInv
<1>9. OrdersInv'
  <2>1. Exact(entries') /\ \A p \in Orders : Exact(log'[p].deductions)
    BY <1>2, <1>3, <1>4 DEF OrdersInv, Exact
  <2>2. \A p \in Orders : cancel'[p].pc = "idle" /\ (log'[p].undone => log'[p].status = "completed")
    BY <1>0, <1>2, <1>3 DEF OrdersInv
  <2>3. IsFiniteSet({p \in Orders : Live(p)}')
    BY <1>7
  <2>4. QED
    BY <1>0, <1>4, <2>1, <2>2, <2>3 DEF OrdersInv, Exact
<1>10. PrepareInv' /\ UndoInv'
  BY <1>0 DEF PrepareInv, UndoInv
<1>11. HandOfRow /\ HandOfRow'
  BY <1>t, <1>5, OneRowNow, OneRowNext
<1>12. ASSUME NEW i \in Ingredients
       PROVE  Hand(i)' + Out(i)' - supplied'[i] = Hand(i) + Out(i) - supplied[i]
  <2>0. i # Nil
    BY RowsAssumption
  <2>1. /\ Hand(i) \in Int /\ Out(i) \in Int /\ supplied[i] \in Int /\ Took(entries, i) \in Int
        /\ supplied'[i] = supplied[i] /\ Out(i)' = Out(i) + Took(entries, i)
    BY <1>0, <1>7, <1>t, AccountTypes, TookType DEF TypeOK
  <2>2. CASE \E r \in Rows : ing[r] = i
    <3> PICK r \in Rows : ing[r] = i
      BY <2>2
    <3>1. Hand(i) = qty[r] /\ Hand(i)' = qty[r] - drawn[r]
      BY <1>4, <1>11 DEF HandOfRow
    <3>2. drawn[r] = Took(entries, i)
      BY <1>0, <2>0 DEF PrepareInv
    <3>3. QED
      BY <2>1, <3>1, <3>2
  <2>3. CASE ~ \E r \in Rows : ing[r] = i
    <3>1. Hand(i) = 0 /\ Hand(i)' = 0
      BY <1>4, <1>11, <2>3 DEF HandOfRow
    <3>2. {k \in DOMAIN entries : entries[k].actual = i} = {}
      <4> SUFFICES ASSUME NEW k \in DOMAIN entries, entries[k].actual = i
                   PROVE  FALSE
        OBVIOUS
      <4>1. entries[k] \in Entry
        BY <1>t DEF TypeOK
      <4>2. ~ entries[k].skipped
        BY <2>0, <4>1 DEF Entry, Taken, Skipped
      <4>3. QED
        BY <1>8, <1>t, <2>3, <4>2 DEF TypeOK
    <3>3. Took(entries, i) = 0
      BY <3>2, TotalEmpty DEF Took
    <3>4. QED
      BY <2>1, <3>1, <3>3
  <2>4. QED
    BY <2>2, <2>3
<1>13. StockAccounted'
  BY <1>t, <1>9, <1>12, KeepsAccount
<1>14. QED
  BY <1>5, <1>9, <1>10, <1>13

LEMMA PrepareLedger ==
  ASSUME Known, StockAccounted,
         \/ LockStock \/ SkipLine \/ RefuseLine \/ AllocateLine \/ NextLine \/ Complete
         \/ \E r \in Rows : Deduct(r)
  PROVE  LedgerInv' /\ StockAccounted'
<1>1. CASE RefuseLine
  BY <1>1, AbortLedger DEF RefuseLine, handlers, history
<1>2. QED
  BY <1>1, LockStockLedger, SkipLineLedger, LinesLedger, DeductLedger, CompleteLedger

-----------------------------------------------------------------------------
(* The transaction that undoes an order                                    *)

LEMMA BackSums ==
  ASSUME NEW d \in Seq(Entry), NEW i
  PROVE  /\ Back(d, 0, i) = 0
         /\ Back(d, Len(d), i) = Took(d, i)
         /\ \A n \in 0..Len(d) : Back(d, n, i) \in Int
         /\ \A n \in 1..Len(d) :
              Back(d, n, i) = Back(d, n - 1, i) + (IF d[n].actual = i THEN d[n].amount ELSE 0)
<1> DEFINE K(n) == {k \in DOMAIN d : k <= n /\ d[k].actual = i}
<1>0. DOMAIN d = 1..Len(d) /\ Len(d) \in Nat
  OBVIOUS
<1>1. K(0) = {}
  BY <1>0
<1>2. K(Len(d)) = {k \in DOMAIN d : d[k].actual = i}
  BY <1>0
<1>3. \A n : Back(d, n, i) = Total(Amounts(d), K(n)) /\ K(n) \subseteq DOMAIN d
  BY DEF Back
<1>4. ASSUME NEW n \in 1..Len(d)
      PROVE  /\ K(n) = IF d[n].actual = i THEN K(n - 1) \cup {n} ELSE K(n - 1)
             /\ n \notin K(n - 1) /\ n \in DOMAIN d
  <2>1. \A k \in DOMAIN d : k <= n <=> k <= n - 1 \/ k = n
    BY <1>0
  <2>2. QED
    BY <1>0, <2>1
<1> HIDE DEF K
<1>5. \A n : IsFiniteSet(K(n))
  BY <1>3, AmountType, FS_Subset
<1>6. \A k \in DOMAIN d : Amounts(d)[k] = d[k].amount /\ Amounts(d)[k] \in Int
  BY AmountType
<1>7. \A n : Back(d, n, i) \in Int
  <2> TAKE n
  <2>1. IsFiniteSet(K(n)) /\ \A k \in K(n) : Amounts(d)[k] \in Int
    BY <1>3, <1>5, <1>6
  <2>2. Total(Amounts(d), K(n)) \in Int
    BY <2>1, TotalInt
  <2>3. QED
    BY <1>3, <2>2
<1>8. ASSUME NEW n \in 1..Len(d)
      PROVE  Back(d, n, i) = Back(d, n - 1, i) + (IF d[n].actual = i THEN d[n].amount ELSE 0)
  <2>1. CASE d[n].actual = i
    <3> DEFINE L == K(n - 1)
    <3>1. IsFiniteSet(L) /\ n \notin L /\ Amounts(d)[n] \in Int /\ \A k \in L : Amounts(d)[k] \in Int
      BY <1>3, <1>4, <1>5, <1>6
    <3>2. K(n) = L \cup {n} /\ Amounts(d)[n] = d[n].amount
      BY <1>4, <1>6, <2>1
    <3> HIDE DEF L
    <3>3. Total(Amounts(d), L \cup {n}) = Total(Amounts(d), L) + Amounts(d)[n]
      BY <3>1, TotalAdd
    <3>4. Back(d, n, i) = Total(Amounts(d), L \cup {n}) /\ Back(d, n - 1, i) = Total(Amounts(d), L)
      BY <1>3, <3>2 DEF L
    <3>5. QED
      BY <2>1, <3>2, <3>3, <3>4
  <2>2. CASE d[n].actual # i
    <3>1. Back(d, n, i) = Back(d, n - 1, i) /\ Back(d, n - 1, i) \in Int
      BY <1>3, <1>4, <1>7, <2>2
    <3>2. QED
      BY <2>2, <3>1
  <2>3. QED
    BY <2>1, <2>2
<1>9. Back(d, 0, i) = 0
  BY <1>1, <1>3, TotalEmpty
<1>10. Back(d, Len(d), i) = Took(d, i)
  BY <1>2, <1>3 DEF Took, Amounts
<1>11. QED
  BY <1>7, <1>8, <1>9, <1>10

LEMMA BackStep ==
  ASSUME NEW d \in Seq(Entry), NEW n \in 1..Len(d), NEW i
  PROVE  /\ Back(d, n - 1, i) \in Int
         /\ d[n].actual = i => Back(d, n, i) = Back(d, n - 1, i) + d[n].amount
         /\ d[n].actual # i => Back(d, n, i) = Back(d, n - 1, i)
<1>1. n - 1 \in 0..Len(d)
  OBVIOUS
<1>2. Back(d, n - 1, i) \in Int
  BY <1>1, BackSums
<1>3. Back(d, n, i) = Back(d, n - 1, i) + (IF d[n].actual = i THEN d[n].amount ELSE 0)
  BY BackSums
<1>4. QED
  BY <1>2, <1>3

LEMMA CheckUndoLedger ==
  ASSUME Known, CheckUndo
  PROVE  LedgerInv' /\ (StockAccounted => StockAccounted')
<1> USE DEF Known, LedgerInv
<1>1. /\ SameLogs /\ SameRows /\ UNCHANGED <<log, ing, qty, born, cancel, supplied, job, entries, drawn, made, held>>
      /\ pc = "check" /\ pc' \in {"ack", "restore"} /\ entries = <<>> /\ held = {}
      /\ job.order \in Orders /\ log[job.order] \in LogRow
  BY DEF CheckUndo, tables, handlers, history, SameLogs, SameRows, OrdersInv, StockInv, TypeInv, TypeOK, Job
<1>2. OrdersInv' /\ (StockAccounted => StockAccounted')
  BY <1>1, InTxLedger DEF OrdersInv, Exact
<1>3. RowsInv'
  BY <1>1, SameRowsInv
<1>4. PrepareInv'
  BY <1>1 DEF PrepareInv
<1>5. UndoInv'
  <2> SUFFICES ASSUME pc' = "restore"
               PROVE  UndoInv'
    BY <1>1 DEF UndoInv
  <2>1. draft' = log[job.order] /\ step' = 1 /\ Live(job.order)
    BY DEF CheckUndo, UndoRefused, Live
  <2>2. \A r \in Rows : drawn'[r] = 0
    BY <1>1 DEF StockInv
  <2>3. draft'.deductions \in Seq(Entry)
    BY <1>1, <2>1 DEF LogRow
  <2>4. \A i : Back(draft'.deductions, step' - 1, i) = 0
    BY <2>1, <2>3, BackSums
  <2>5. \A r \in Rows : (SeenIng(r) # Nil => drawn[r] = 0 - Back(draft.deductions, step - 1, SeenIng(r)))'
    BY <2>2, <2>4
  <2>6. Live(job.order)'
    BY <1>1, <2>1 DEF Live
  <2>7. step' \in 1..Len(draft'.deductions) + 1
    BY <2>1, <2>3
  <2>8. QED
    BY <1>1, <2>1, <2>3, <2>5, <2>6, <2>7 DEF UndoInv
<1>6. QED
  BY <1>2, <1>3, <1>4, <1>5

\* The deduction being undone.
LEMMA DeductionType ==
  ASSUME Known, pc \in {"restore", "create"}, step \in DOMAIN draft.deductions
  PROVE  /\ draft.deductions \in Seq(Entry) /\ step \in 1..Len(draft.deductions)
         /\ Deduction \in Entry /\ Deduction = draft.deductions[step]
         /\ Deduction.ing \in Ingredients /\ Deduction.ing # Nil /\ Deduction.amount \in Nat
         /\ Deduction.skipped => Deduction.actual = Nil
         /\ ~Deduction.skipped => Deduction.actual = Deduction.ing /\ Deduction.row \in Rows
         /\ job.order \in Orders /\ draft = log[job.order]
<1>1. draft.deductions \in Seq(Entry) /\ job.order \in Orders /\ draft = log[job.order]
  BY DEF Known, TypeInv, TypeOK, LogRow, Job, LedgerInv, UndoInv
<1>2. step \in 1..Len(draft.deductions) /\ Deduction \in Entry /\ Deduction = draft.deductions[step]
  BY <1>1 DEF Deduction
<1>3. Deduction.skipped => Deduction.actual = Nil
  BY <1>2 DEF Entry, Taken, Skipped
<1>4. ~Deduction.skipped => Deduction.actual = Deduction.ing
  BY <1>1, <1>2 DEF Known, LedgerInv, OrdersInv, Exact
<1>5. QED
  BY <1>1, <1>2, <1>3, <1>4, EntryType, RowsAssumption

LEMMA RestoreLedger ==
  ASSUME Known, Restore
  PROVE  LedgerInv' /\ (StockAccounted => StockAccounted')
<1> USE DEF Known, LedgerInv
<1> PICK d : d = draft.deductions
  OBVIOUS
<1> PICK e : e = Deduction
  OBVIOUS
<1> DEFINE rows == RowOf(e.ing)
<1>1. /\ SameLogs /\ UNCHANGED <<log, ing, qty, born, cancel, supplied, job, draft, entries, made>>
      /\ pc = "restore" /\ pc' \in {"restore", "create"} /\ entries = <<>>
      /\ step \in DOMAIN draft.deductions
  BY DEF Restore, tables, handlers, history, SameLogs, OrdersInv
<1>2. /\ d \in Seq(Entry) /\ step \in 1..Len(d) /\ e = d[step] /\ e.amount \in Nat /\ e.ing # Nil
      /\ e.skipped => e.actual = Nil
      /\ ~e.skipped => e.actual = e.ing
  BY <1>1, DeductionType
<1>3. OrdersInv' /\ (StockAccounted => StockAccounted')
  BY <1>1, InTxLedger DEF OrdersInv, Exact
<1>4. \A s, j : (Knows(s, j)' <=> Knows(s, j)) /\ SeenIng(s)' = SeenIng(s)
  BY <1>1 DEF Knows, Names, SeenIng
<1>5. Live(job.order)' /\ draft' = log'[job'.order] /\ draft'.deductions = d
  BY <1>1 DEF UndoInv, Live
<1>6. PrepareInv'
  BY <1>1 DEF PrepareInv
<1>t. drawn \in [Rows -> Int] /\ held \in SUBSET Rows
  BY DEF TypeInv, TypeOK
<1>7. CASE e.skipped
  <2>1. held' = held /\ drawn' = drawn /\ step' = step + 1
    BY <1>7 DEF Restore
  <2>2. \A i : i # Nil => Back(d, step' - 1, i) = Back(d, step - 1, i)
    <3> SUFFICES ASSUME NEW i, i # Nil
                 PROVE  Back(d, step' - 1, i) = Back(d, step - 1, i)
      OBVIOUS
    <3>1. Back(d, step, i) = Back(d, step - 1, i)
      BY <1>2, <1>7, BackStep
    <3>2. step' - 1 = step
      BY <1>2, <2>1
    <3>3. QED
      BY <3>1, <3>2
  <2>3. RowsInv'
    BY <1>1, <1>4, <2>1 DEF RowsInv
  <2>4. \A s \in Rows : (SeenIng(s) # Nil => drawn[s] = 0 - Back(draft.deductions, step - 1, SeenIng(s)))'
    BY <1>1, <1>4, <2>1, <2>2 DEF UndoInv
  <2>5. \A k \in DOMAIN d : k < step' /\ ~d[k].skipped => \E s \in held' : SeenIng(s)' = d[k].actual
    BY <1>1, <1>2, <1>4, <1>7, <2>1 DEF UndoInv
  <2>6. step' \in 1..Len(d) + 1
    BY <1>2, <2>1
  <2>7. UndoInv'
    BY <1>5, <2>4, <2>5, <2>6 DEF UndoInv
  <2>8. QED
    BY <1>3, <1>6, <2>3, <2>7
<1>8. CASE ~e.skipped /\ rows = {}
  <2>1. held' = held /\ drawn' = drawn /\ step' = step
    BY <1>8 DEF Restore
  <2>2. RowsInv'
    BY <1>1, <1>4, <2>1 DEF RowsInv
  <2>3. UndoInv'
    BY <1>1, <1>4, <1>5, <2>1 DEF UndoInv
  <2>4. QED
    BY <1>3, <1>6, <2>2, <2>3
<1>9. CASE ~e.skipped /\ rows # {}
  <2> PICK r \in Rows : SeenIng(r) = e.ing
    BY <1>9 DEF RowOf
  <2>1. rows = {r}
    BY <1>2 DEF RowOf, RowsInv
  <2>2. /\ held' = held \cup {r} /\ step' = step + 1
        /\ drawn' = [s \in Rows |-> IF s = r THEN drawn[s] - e.amount ELSE drawn[s]]
    BY <1>9, <2>1 DEF Restore
  <2>3. ASSUME NEW s \in Rows, SeenIng(s) # Nil
        PROVE  drawn'[s] = 0 - Back(d, step' - 1, SeenIng(s))
    <3>1. drawn[s] = 0 - Back(d, step - 1, SeenIng(s))
      BY <1>1, <2>3 DEF UndoInv
    <3>2. /\ Back(d, step - 1, SeenIng(s)) \in Int
          /\ e.actual = SeenIng(s) =>
               Back(d, step, SeenIng(s)) = Back(d, step - 1, SeenIng(s)) + e.amount
          /\ e.actual # SeenIng(s) => Back(d, step, SeenIng(s)) = Back(d, step - 1, SeenIng(s))
      BY <1>2, BackStep
    <3>3. e.actual = SeenIng(s) <=> s = r
      BY <1>2, <1>9, <2>3 DEF RowsInv
    <3>4. step' - 1 = step
      BY <1>2, <2>2
    <3>5. QED
      BY <1>2, <2>2, <3>1, <3>2, <3>3, <3>4
  <2>4. RowsInv'
    <3>1. \A s \in Rows : SeenIng(s)' = Nil => drawn'[s] = 0
      BY <1>2, <1>4, <2>2 DEF RowsInv
    <3>2. QED
      BY <1>1, <1>4, <3>1 DEF RowsInv
  <2>5. \A s \in Rows : (SeenIng(s) # Nil => drawn[s] = 0 - Back(draft.deductions, step - 1, SeenIng(s)))'
    BY <1>1, <1>4, <2>3
  <2>6. \A k \in DOMAIN d : k < step' /\ ~d[k].skipped => \E s \in held' : SeenIng(s)' = d[k].actual
    <3> SUFFICES ASSUME NEW k \in DOMAIN d, k < step', ~d[k].skipped
                 PROVE  \E s \in held' : SeenIng(s)' = d[k].actual
      OBVIOUS
    <3>1. CASE k < step
      BY <1>1, <1>4, <2>2, <3>1 DEF UndoInv
    <3>2. CASE k = step
      BY <1>2, <1>4, <1>9, <2>2, <3>2
    <3>3. QED
      BY <1>2, <2>2, <3>1, <3>2
  <2>7. step' \in 1..Len(d) + 1
    BY <1>2, <2>2
  <2>8. UndoInv'
    BY <1>5, <2>5, <2>6, <2>7 DEF UndoInv
  <2>9. QED
    BY <1>3, <1>6, <2>4, <2>8
<1>10. QED
  BY <1>7, <1>8, <1>9

\* A row that is inserted gets the id under which the deduction was recorded:
\* it is free, and was never the row of another ingredient.
LEMMA CreateRowLedger ==
  ASSUME Known, CreateRow
  PROVE  LedgerInv' /\ (StockAccounted => StockAccounted')
<1> USE DEF Known, LedgerInv
<1> PICK d : d = draft.deductions
  OBVIOUS
<1> PICK e : e = Deduction
  OBVIOUS
<1> PICK r : r = e.row
  OBVIOUS
<1>1. CASE RowOf(e.ing) # {}
  BY <1>1, AbortLedger DEF CreateRow, handlers, history
<1>2. CASE RowOf(e.ing) = {}
  <2>1. /\ SameLogs /\ UNCHANGED <<log, ing, qty, born, cancel, supplied, job, draft, entries>>
        /\ pc = "create" /\ pc' = "restore" /\ entries = <<>>
        /\ step \in DOMAIN draft.deductions /\ ~e.skipped
    BY <1>2 DEF CreateRow, tables, handlers, history, SameLogs, OrdersInv, TypeInv, Control, Deduction
  <2>r. /\ made' = [made EXCEPT ![r] = e.ing]
        /\ drawn' = [drawn EXCEPT ![r] = qty[r] - e.amount]
        /\ held' = held \cup {r} /\ step' = step + 1
    BY <1>2 DEF CreateRow
  <2>2. /\ d \in Seq(Entry) /\ step \in 1..Len(d) /\ e = d[step] /\ e.amount \in Nat
        /\ e.ing # Nil /\ e.ing \in Ingredients /\ e.actual = e.ing /\ r \in Rows
        /\ job.order \in Orders /\ draft = log[job.order]
    BY <2>1, DeductionType
  <2>t. drawn \in [Rows -> Int] /\ held \in SUBSET Rows /\ made \in [Rows -> Ingredients \cup {Nil}]
        /\ ing \in [Rows -> Ingredients \cup {Nil}]
    BY DEF TypeInv, TypeOK
  <2>3. Knows(r, e.ing)
    BY <2>1, <2>2 DEF Knows, Names
  <2>4. \A s \in Rows : SeenIng(s) # e.ing
    BY <1>2 DEF RowOf
  <2>5. ing[r] = Nil /\ made[r] = Nil
    <3>1. made[r] = Nil
      <4> SUFFICES ASSUME made[r] # Nil
                   PROVE  FALSE
        OBVIOUS
      <4>1. Knows(r, made[r]) /\ SeenIng(r) = made[r] /\ made[r] \in Ingredients
        BY <2>2, <2>t DEF RowsInv, SeenIng
      <4>2. QED
        BY <2>2, <2>3, <2>4, <4>1 DEF RowsInv
    <3>2. ing[r] = Nil
      <4> SUFFICES ASSUME ing[r] # Nil
                   PROVE  FALSE
        OBVIOUS
      <4>1. Knows(r, ing[r]) /\ SeenIng(r) = ing[r] /\ ing[r] \in Ingredients
        BY <2>2, <2>t, <3>1 DEF Knows, SeenIng
      <4>2. QED
        BY <2>2, <2>3, <2>4, <4>1 DEF RowsInv
    <3>3. QED
      BY <3>1, <3>2
  <2>6. /\ made'[r] = e.ing /\ drawn'[r] = 0 - e.amount /\ SeenIng(r)' = e.ing
        /\ \A s \in Rows : s # r => made'[s] = made[s] /\ drawn'[s] = drawn[s] /\ SeenIng(s)' = SeenIng(s)
    <3>1. qty[r] = 0
      BY <2>2, <2>5 DEF RowsInv
    <3>2. /\ made'[r] = e.ing /\ drawn'[r] = 0 - e.amount
          /\ \A s \in Rows : s # r => made'[s] = made[s] /\ drawn'[s] = drawn[s]
      BY <2>r, <2>2, <2>t, <3>1
    <3>3. QED
      BY <2>1, <2>2, <3>2 DEF SeenIng
  <2>7. \A s, j : Knows(s, j)' <=> Knows(s, j)
    BY <2>1 DEF Knows, Names
  <2>8. RowsInv'
    <3>1. \A s \in Rows : (made[s] # Nil => ing[s] = Nil /\ Knows(s, made[s]))'
      BY <2>1, <2>3, <2>5, <2>6, <2>7 DEF RowsInv
    <3>2. \A s, t \in Rows : SeenIng(s)' = SeenIng(t)' /\ SeenIng(s)' # Nil => s = t
      BY <2>4, <2>6 DEF RowsInv
    <3>3. \A s \in Rows : SeenIng(s)' = Nil => drawn'[s] = 0
      BY <2>2, <2>6 DEF RowsInv
    <3>4. QED
      BY <2>1, <2>7, <3>1, <3>2, <3>3 DEF RowsInv
  <2>9. OrdersInv' /\ (StockAccounted => StockAccounted')
    BY <2>1, InTxLedger DEF OrdersInv, Exact
  <2>10. PrepareInv'
    BY <2>1 DEF PrepareInv
  <2>11. ASSUME NEW s \in Rows, SeenIng(s)' # Nil
         PROVE  drawn'[s] = 0 - Back(d, step' - 1, SeenIng(s)')
    <3>0. step' - 1 = step
      BY <2>1, <2>r, <2>2
    <3>1. CASE s # r
      <4>1. SeenIng(s)' = SeenIng(s) /\ SeenIng(s) # e.actual /\ drawn'[s] = drawn[s]
        BY <2>2, <2>4, <2>6, <3>1
      <4>2. drawn[s] = 0 - Back(d, step - 1, SeenIng(s))
        BY <2>1, <2>11, <4>1 DEF UndoInv
      <4>3. Back(d, step, SeenIng(s)) = Back(d, step - 1, SeenIng(s))
        BY <2>2, <4>1, BackStep
      <4>4. QED
        BY <3>0, <4>1, <4>2, <4>3
    <3>2. CASE s = r
      <4>1. ~ \E k \in DOMAIN d : k <= step - 1 /\ d[k].actual = e.ing
        <5> SUFFICES ASSUME NEW k \in DOMAIN d, k <= step - 1, d[k].actual = e.ing
                     PROVE  FALSE
          OBVIOUS
        <5>1. d[k] \in Entry /\ k < step
          BY <2>2
        <5>2. ~ d[k].skipped
          BY <2>2, <5>1 DEF Entry, Taken, Skipped
        <5>3. \E q \in held : SeenIng(q) = e.ing
          BY <2>1, <5>1, <5>2 DEF UndoInv
        <5>4. QED
          BY <2>4, <2>t, <5>3
      <4>2. Back(d, step - 1, e.ing) = 0
        <5>1. {k \in DOMAIN d : k <= step - 1 /\ d[k].actual = e.ing} = {}
          BY <4>1
        <5>2. QED
          BY <5>1, TotalEmpty DEF Back
      <4>3. Back(d, step, e.ing) = Back(d, step - 1, e.ing) + e.amount
        BY <2>2, BackStep
      <4>4. SeenIng(s)' = e.ing /\ drawn'[s] = 0 - e.amount
        BY <2>6, <3>2
      <4>5. Back(d, step, e.ing) = e.amount
        BY <2>2, <4>2, <4>3
      <4>6. QED
        BY <3>0, <4>4, <4>5
    <3>3. QED
      BY <3>1, <3>2
  <2>12. \A s \in Rows : (SeenIng(s) # Nil => drawn[s] = 0 - Back(draft.deductions, step - 1, SeenIng(s)))'
    BY <2>1, <2>11
  <2>13. \A k \in DOMAIN d : k < step' /\ ~d[k].skipped => \E s \in held' : SeenIng(s)' = d[k].actual
    <3> SUFFICES ASSUME NEW k \in DOMAIN d, k < step', ~d[k].skipped
                 PROVE  \E s \in held' : SeenIng(s)' = d[k].actual
      OBVIOUS
    <3>1. CASE k < step
      <4> PICK s \in held : SeenIng(s) = d[k].actual
        BY <2>1, <3>1 DEF UndoInv
      <4>1. d[k].actual # Nil
        <5>1. d[k] \in Entry
          BY <2>2
        <5>2. QED
          BY <5>1, EntryType, RowsAssumption
      <4>s. s # r
        BY <2>5, <4>1 DEF SeenIng
      <4>2. QED
        BY <2>r, <2>6, <2>t, <4>s
    <3>2. CASE k = step
      BY <2>r, <2>2, <2>6, <3>2
    <3>3. QED
      BY <2>r, <2>2, <3>1, <3>2
  <2>14. step' \in 1..Len(d) + 1
    BY <2>1, <2>r, <2>2
  <2>15. Live(job.order)' /\ draft' = log'[job'.order]
    BY <2>1 DEF UndoInv, Live
  <2>16. UndoInv'
    BY <2>1, <2>r, <2>12, <2>13, <2>14, <2>15 DEF UndoInv
  <2>17. QED
    BY <2>8, <2>9, <2>10, <2>16
<1>3. QED
  BY <1>1, <1>2

\* The commit of an undo: the rows get back what the log records, and the log
\* counts no more.
LEMMA FinishUndoLedger ==
  ASSUME Known, StockAccounted, FinishUndo
  PROVE  LedgerInv' /\ StockAccounted'
<1> USE DEF Known, LedgerInv
<1> PICK o \in Orders : o = job.order
  BY DEF FinishUndo, TypeInv, TypeOK, Job
<1> PICK d : d = draft.deductions
  OBVIOUS
<1> DEFINE row == [draft EXCEPT !.undone = TRUE]
<1>t. TypeOK /\ TypeOK'
  BY UndoType DEF TypeInv
<1>0. /\ pc = "restore" /\ pc' = "ack" /\ CloseTx /\ step \notin DOMAIN d
      /\ log' = [log EXCEPT ![o] = row] /\ UNCHANGED <<born, cancel, supplied>>
      /\ ing' = [r \in Rows |-> SeenIng(r)] /\ qty' = [r \in Rows |-> qty[r] - drawn[r]]
  BY DEF FinishUndo, Commit, handlers
<1>1. /\ draft = log[o] /\ Live(o) /\ log[o].status = "completed" /\ d \in Seq(Entry)
      /\ step = Len(d) + 1 /\ step - 1 = Len(d)
      /\ \A r \in Rows : SeenIng(r) # Nil => drawn[r] = 0 - Back(d, step - 1, SeenIng(r))
      /\ \A k \in DOMAIN d : ~d[k].skipped => \E r \in held : SeenIng(r) = d[k].actual
  <2>1. draft = log[o] /\ Live(o) /\ step \in 1..Len(d) + 1 /\ d \in Seq(Entry)
    BY <1>0 DEF UndoInv, TypeInv, TypeOK, LogRow
  <2>2. step = Len(d) + 1
    BY <1>0, <2>1
  <2>3. \A k \in DOMAIN d : k < step
    BY <2>1, <2>2
  <2>4. QED
    BY <1>0, <2>1, <2>2, <2>3 DEF UndoInv, Live
<1>2. row \in LogRow /\ row.status = "completed" /\ row.undone = TRUE /\ row.deductions = d
  BY <1>1, <1>t DEF TypeOK, LogRow
<1> HIDE DEF row
<1>3. log'[o] = row /\ \A p \in Orders \ {o} : log'[p] = log[p]
  BY <1>0, <1>t DEF TypeOK
<1>4. /\ \A r \in Rows : made'[r] = Nil /\ drawn'[r] = 0 /\ ing'[r] = SeenIng(r)
                         /\ SeenIng(r)' = SeenIng(r) /\ qty'[r] = qty[r] - drawn[r]
      /\ entries' = <<>>
  BY <1>0 DEF CloseTx, SeenIng
<1>5. \A p \in Orders : log'[p].deductions = log[p].deductions
  BY <1>1, <1>2, <1>3
<1>6. RowsInv'
  <2>1. \A s \in Rows, j \in Ingredients : Knows(s, j)' => Knows(s, j)
    <3> SUFFICES ASSUME NEW s \in Rows, NEW j \in Ingredients, Knows(s, j)'
                 PROVE  Knows(s, j)
      OBVIOUS
    <3>1. CASE ing'[s] = j
      <4>1. SeenIng(s) = j /\ j # Nil
        BY <1>4, <3>1, RowsAssumption
      <4>2. CASE made[s] = Nil
        BY <4>1, <4>2 DEF SeenIng, Knows
      <4>3. CASE made[s] # Nil
        BY <4>1, <4>3 DEF SeenIng, RowsInv
      <4>4. QED
        BY <4>2, <4>3
    <3>2. CASE Names(entries', s, j)
      BY <1>4, <3>2 DEF Names
    <3>3. ASSUME NEW p \in Orders, Names(log'[p].deductions, s, j)
          PROVE  Knows(s, j)
      BY <1>5, <3>3 DEF Knows
    <3>4. QED
      BY <3>1, <3>2, <3>3 DEF Knows, Names
  <2>2. \A s \in Rows : ing'[s] = Nil => qty'[s] = 0
    <3> SUFFICES ASSUME NEW s \in Rows, ing'[s] = Nil
                 PROVE  qty'[s] = 0
      OBVIOUS
    <3>1. SeenIng(s) = Nil /\ ing[s] = Nil
      BY <1>4 DEF SeenIng
    <3>2. qty[s] = 0 /\ drawn[s] = 0
      BY <3>1 DEF RowsInv
    <3>3. QED
      BY <1>4, <3>2
  <2>3. \A r, s \in Rows : SeenIng(r)' = SeenIng(s)' /\ SeenIng(r)' # Nil => r = s
    BY <1>4 DEF RowsInv
  <2>4. \A s \in Rows : made'[s] = Nil /\ drawn'[s] = 0
    BY <1>4
  <2>5. QED
    BY <1>0, <2>1, <2>2, <2>3, <2>4 DEF RowsInv
<1>7. Live(o) /\ ~Live(o)'
  <2>1. log'[o].undone = TRUE
    BY <1>2, <1>3
  <2>2. log'[o].undone
    BY <2>1, Zenon
  <2>3. QED
    BY <1>1, <2>2 DEF Live
<1>8. ASSUME NEW i
      PROVE  Out(i)' = Out(i) - Took(d, i) /\ IsFiniteSet({p \in Orders : Live(p)}')
  BY <1>1, <1>3, <1>7, <1>t, OutLess DEF Recorded
<1>9. OrdersInv'
  <2>1. Exact(entries') /\ \A p \in Orders : Exact(log'[p].deductions)
    BY <1>4, <1>5 DEF OrdersInv, Exact
  <2>2. \A p \in Orders : cancel'[p].pc = "idle" /\ (log'[p].undone => log'[p].status = "completed")
    BY <1>0, <1>2, <1>3 DEF OrdersInv
  <2>3. IsFiniteSet({p \in Orders : Live(p)}')
    BY <1>8
  <2>4. QED
    BY <1>0, <1>4, <2>1, <2>2, <2>3 DEF OrdersInv, Exact
<1>10. PrepareInv' /\ UndoInv'
  BY <1>0 DEF PrepareInv, UndoInv
<1>11. HandOfRow /\ HandOfRow'
  BY <1>t, <1>6, OneRowNow, OneRowNext
<1>12. ASSUME NEW i \in Ingredients
       PROVE  Hand(i)' + Out(i)' - supplied'[i] = Hand(i) + Out(i) - supplied[i]
  <2>0. i # Nil
    BY RowsAssumption
  <2>1. /\ Hand(i) \in Int /\ Out(i) \in Int /\ supplied[i] \in Int /\ Took(d, i) \in Int
        /\ supplied'[i] = supplied[i] /\ Out(i)' = Out(i) - Took(d, i)
    BY <1>0, <1>1, <1>8, <1>t, AccountTypes, TookType
  <2>2. CASE \E r \in Rows : SeenIng(r) = i
    <3> PICK r \in Rows : SeenIng(r) = i
      BY <2>2
    <3>1. drawn[r] = 0 - Took(d, i)
      BY <1>1, <2>0, BackSums
    <3>2. qty[r] \in Int /\ Hand(i)' = qty[r] - drawn[r]
      BY <1>4, <1>11, <1>t DEF HandOfRow, TypeOK
    <3>3. Hand(i) = qty[r]
      <4>1. CASE ing[r] = i
        BY <1>11, <4>1 DEF HandOfRow
      <4>2. CASE ing[r] # i
        <5>1. ing[r] = Nil /\ qty[r] = 0
          BY <4>2 DEF SeenIng, RowsInv
        <5>2. ~ \E s \in Rows : ing[s] = i
          <6>1. \A s \in Rows : ing[s] = i => SeenIng(s) = i
            BY <2>0 DEF SeenIng, RowsInv
          <6>2. QED
            BY <2>0, <4>2, <6>1 DEF RowsInv
        <5>3. QED
          BY <1>11, <5>1, <5>2 DEF HandOfRow
      <4>3. QED
        BY <4>1, <4>2
    <3>4. QED
      BY <2>1, <3>1, <3>2, <3>3
  <2>3. CASE ~ \E r \in Rows : SeenIng(r) = i
    <3>1. Hand(i)' = 0
      BY <1>4, <1>11, <2>3 DEF HandOfRow
    <3>2. Hand(i) = 0
      <4>1. \A s \in Rows : ing[s] # i
        BY <2>0, <2>3 DEF SeenIng, RowsInv
      <4>2. QED
        BY <1>11, <4>1 DEF HandOfRow
    <3>3. {k \in DOMAIN d : d[k].actual = i} = {}
      <4> SUFFICES ASSUME NEW k \in DOMAIN d, d[k].actual = i
                   PROVE  FALSE
        OBVIOUS
      <4>1. d[k] \in Entry
        BY <1>1
      <4>2. ~ d[k].skipped
        BY <2>0, <4>1 DEF Entry, Taken, Skipped
      <4>3. QED
        BY <1>1, <1>t, <2>3, <4>2 DEF TypeOK
    <3>4. Took(d, i) = 0
      BY <3>3, TotalEmpty DEF Took
    <3>5. QED
      BY <2>1, <3>1, <3>2, <3>4
  <2>4. QED
    BY <2>2, <2>3
<1>13. StockAccounted'
  BY <1>t, <1>9, <1>12, KeepsAccount
<1>14. QED
  BY <1>6, <1>9, <1>10, <1>13

-----------------------------------------------------------------------------
LEMMA InitLedger == Init => LedgerInv /\ StockAccounted
<1> SUFFICES ASSUME Init
             PROVE  LedgerInv /\ StockAccounted
  OBVIOUS
<1> USE DEF Init
<1>1. \A o \in Orders : ~Live(o) /\ log[o] = EmptyLog /\ cancel[o] = IdleCancel
  BY DEF Live, EmptyLog
<1>2. {o \in Orders : Live(o)} = {}
  BY <1>1
<1>3. \A r \in Rows : made[r] = Nil /\ SeenIng(r) = InitIng[r] /\ drawn[r] = 0 /\ qty[r] = InitQty[r]
                      /\ ing[r] = InitIng[r]
  BY DEF SeenIng
<1>4. \A r, i : Knows(r, i) <=> ing[r] = i
  BY <1>1 DEF Knows, Names, EmptyLog
<1>5. RowsInv
  <2>1. \A r \in Rows : \A i \in Ingredients : Knows(r, i) => r \in born
    BY <1>4, RowsAssumption
  <2>2. \A r, s \in Rows : SeenIng(r) = SeenIng(s) /\ SeenIng(r) # Nil => r = s
    BY <1>3, StockAssumption
  <2>3. \A r \in Rows : ing[r] = Nil => qty[r] = 0
    BY StockAssumption
  <2>4. QED
    BY <1>3, <1>4, <2>1, <2>2, <2>3 DEF RowsInv
<1>6. OrdersInv
  <2>1. IsFiniteSet({o \in Orders : Live(o)})
    BY <1>2, FS_EmptySet
  <2>2. \A o \in Orders : Exact(log[o].deductions) /\ ~log[o].undone /\ cancel[o].pc = "idle"
    BY <1>1 DEF EmptyLog, IdleCancel, Exact
  <2>3. Exact(entries) /\ entries = <<>> /\ pc = "idle"
    BY DEF Exact
  <2>4. QED
    BY <2>1, <2>2, <2>3 DEF OrdersInv
<1>7. PrepareInv /\ UndoInv
  BY DEF PrepareInv, UndoInv
<1>8. ASSUME NEW i \in Ingredients
      PROVE  Hand(i) = Total(InitQty, {r \in Rows : InitIng[r] = i}) + supplied[i] - Out(i)
  <2>1. Out(i) = 0
    BY <1>2, TotalEmpty DEF Out
  <2>2. Hand(i) = Total(InitQty, {r \in Rows : InitIng[r] = i}) /\ supplied[i] = 0
    BY DEF Hand
  <2>3. Total(InitQty, {r \in Rows : InitIng[r] = i}) \in Int
    BY <1>6, InitType, AccountTypes DEF TypeInv
  <2>4. QED
    BY <2>1, <2>2, <2>3
<1>9. StockAccounted
  BY <1>8, Accounts
<1>10. QED
  BY <1>5, <1>6, <1>7, <1>9 DEF LedgerInv

LEMMA LedgerStep ==
  ASSUME Known, StockAccounted, [Next]_vars
  PROVE  LedgerInv' /\ StockAccounted'
<1>1. CASE Take \/ Ack \/ RecordFailure \/ ReadLog \/ SaveEvaluating
  BY <1>1, QuietWorkerLedger
<1>2. CASE \/ LockStock \/ SkipLine \/ RefuseLine \/ AllocateLine \/ NextLine \/ Complete
           \/ \E r \in Rows : Deduct(r)
  BY <1>2, PrepareLedger
<1>3. CASE CheckUndo \/ Restore \/ CreateRow \/ FinishUndo
  BY <1>3, CheckUndoLedger, RestoreLedger, CreateRowLedger, FinishUndoLedger
<1>4. CASE Handlers \/ Admin \/ Environment \/ UNCHANGED vars
  BY <1>4, HandlersLedger, AdminLedger, EnvironmentLedger
<1>5. QED
  BY <1>1, <1>2, <1>3, <1>4 DEF Next, WorkerStep

LEMMA NoCrashInvariant ==
  ASSUME MaxCrashes = 0
  PROVE  Spec => []NoCrashInv
<1>1. TypeInv /\ DeliveryInv /\ NoCrashInv /\ [Next]_vars => NoCrashInv'
  BY StepNoCrash
<1>2. QED
  BY InitNoCrash, TypeInvariant, DeliveryInvariant, <1>1, PTL DEF Spec

LEMMA LedgerInvariant ==
  ASSUME LedgerScope
  PROVE  Spec => [](LedgerInv /\ StockAccounted)
<1>1. /\ TypeInv /\ StockInv /\ DeliveryInv /\ NoCrashInv
      /\ LedgerInv /\ StockAccounted /\ [Next]_vars
      => LedgerInv' /\ StockAccounted'
  BY LedgerStep DEF Known
<1>2. Spec => []NoCrashInv
  BY NoCrashInvariant DEF LedgerScope
<1>3. QED
  BY InitLedger, TypeInvariant, StockInvariant, DeliveryInvariant, <1>1, <1>2, PTL DEF Spec

\* What is on hand of every ingredient is what there was, plus what admins put
\* in, less what the completed orders that are not undone record, at every
\* moment and for any number of orders, undos, failing statements and admins
\* that delete and create the rows in between.
THEOREM StockAccountedHolds ==
  ASSUME MaxCrashes = 0, MaxCancels = 0, \A i \in Ingredients : Subs[i] = {i}
  PROVE  Spec => []StockAccounted
<1>1. LedgerScope
  BY DEF LedgerScope
<1>2. QED
  BY <1>1, LedgerInvariant, PTL

(***************************************************************************)
(* A completed order is served, whatever crashes, cancellations and        *)
(* substitutes there are: the deductions it records add up to its recipe.  *)
(***************************************************************************)

\* The lines that may be served when the first n are dealt with.
ServableTo(o, n) ==
  {S \in SUBSET (DOMAIN Recipe[o]) :
     /\ \A k \in S : k <= n
     /\ \A k \in DOMAIN Recipe[o] : k <= n /\ ~Recipe[o][k].lenient => k \in S}

\* The deductions d are what the recipe of o asks for.
Serves(o, d) ==
  \E S \in Servable(o) : \A i \in Ingredients : TookFor(d, i) = Asked(o, S, i)

\* What the entries took so far, and what is still needed of the line at hand,
\* is what the lines dealt with ask for.
ServedSoFar ==
  /\ pc = "require" =>
       \E S \in ServableTo(job.order, step - 1) : \A i \in Ingredients :
         TookFor(entries, i) = Asked(job.order, S, i)
  /\ pc = "deduct" =>
       \E S \in ServableTo(job.order, step) : \A i \in Ingredients :
         TookFor(entries, i) + (IF i = Line.ing THEN need ELSE 0) = Asked(job.order, S, i)

ServedInv ==
  /\ \A o \in Orders : log[o].status = "completed" => Serves(o, log[o].deductions)
  /\ pc \in {"restore", "create"} => Serves(job.order, draft.deductions)
  /\ pc \in {"require", "deduct"} => step \in 1..Len(Lines) + 1
  /\ pc \notin {"require", "deduct"} => entries = <<>>
  /\ ServedSoFar

LEMMA RecipeLine ==
  ASSUME NEW o \in Orders
  PROVE  /\ Recipe[o] \in Seq(Requirement) /\ IsFiniteSet(DOMAIN Recipe[o])
         /\ \A k \in DOMAIN Recipe[o] : Recipe[o][k].amount \in Nat /\ Recipe[o][k].ing \in Ingredients
<1>1. Recipe[o] \in Seq(Requirement)
  BY RecipeAssumption
<1>2. DOMAIN Recipe[o] = 1..Len(Recipe[o]) /\ Len(Recipe[o]) \in Nat
  BY <1>1
<1>3. IsFiniteSet(DOMAIN Recipe[o])
  BY <1>2, FS_Interval
<1>4. ASSUME NEW k \in DOMAIN Recipe[o]
      PROVE  Recipe[o][k].amount \in Nat /\ Recipe[o][k].ing \in Ingredients
  <2>1. Recipe[o][k] \in Requirement
    BY <1>1
  <2>2. QED
    BY <2>1 DEF Requirement
<1>5. QED
  BY <1>1, <1>3, <1>4

LEMMA AskedNothing ==
  ASSUME NEW o, NEW i
  PROVE  Asked(o, {}, i) = 0
<1>1. {k \in {} : Recipe[o][k].ing = i} = {}
  OBVIOUS
<1>2. QED
  BY <1>1, TotalEmpty DEF Asked

\* What a line adds to what is asked for.
LEMMA AskedMore ==
  ASSUME NEW o \in Orders, NEW S \in SUBSET (DOMAIN Recipe[o]), NEW n \in DOMAIN Recipe[o],
         n \notin S, NEW i
  PROVE  /\ Asked(o, S, i) \in Int
         /\ Recipe[o][n].ing = i => Asked(o, S \cup {n}, i) = Asked(o, S, i) + Recipe[o][n].amount
         /\ Recipe[o][n].ing # i => Asked(o, S \cup {n}, i) = Asked(o, S, i)
<1> DEFINE f == [k \in DOMAIN Recipe[o] |-> Recipe[o][k].amount]
           K == {k \in S : Recipe[o][k].ing = i}
<1>1. {k \in S \cup {n} : Recipe[o][k].ing = i} = IF Recipe[o][n].ing = i THEN K \cup {n} ELSE K
  OBVIOUS
<1>2. IsFiniteSet(K) /\ n \notin K /\ f[n] = Recipe[o][n].amount /\ f[n] \in Int /\ \A k \in K : f[k] \in Int
  BY RecipeLine, FS_Subset
<1>3. /\ Asked(o, S, i) = Total(f, K)
      /\ Asked(o, S \cup {n}, i) = Total(f, IF Recipe[o][n].ing = i THEN K \cup {n} ELSE K)
  BY <1>1 DEF Asked
<1> HIDE DEF f, K
<1>4. Total(f, K) \in Int /\ Total(f, K \cup {n}) = Total(f, K) + f[n]
  BY <1>2, TotalInt, TotalAdd
<1>5. QED
  BY <1>2, <1>3, <1>4

\* Steps that complete no order, and that leave the worker's transaction alone
\* or find it closed.
LEMMA ServedOutside ==
  ASSUME ServedInv,
         \A o \in Orders : log'[o].status = "completed" =>
           log[o].status = "completed" /\ log'[o].deductions = log[o].deductions,
         \/ UNCHANGED <<pc, job, draft, entries, step, need>>
         \/ pc' \notin {"require", "deduct", "restore", "create"} /\ entries' = <<>>
  PROVE  ServedInv'
<1>1. \A o \in Orders : log'[o].status = "completed" => Serves(o, log'[o].deductions)
  BY DEF ServedInv
<1>2. CASE UNCHANGED <<pc, job, draft, entries, step, need>>
  <2>1. ServedSoFar'
    BY <1>2 DEF ServedInv, ServedSoFar, Line, Lines
  <2>2. QED
    BY <1>1, <1>2, <2>1 DEF ServedInv, Lines
<1>3. CASE pc' \notin {"require", "deduct", "restore", "create"} /\ entries' = <<>>
  BY <1>1, <1>3 DEF ServedInv, ServedSoFar
<1>4. QED
  BY <1>2, <1>3

LEMMA OtherServed ==
  ASSUME TypeInv, DeliveryInv, ServedInv,
         \/ Handlers \/ Admin \/ Environment \/ UNCHANGED vars
         \/ Take \/ Ack \/ RecordFailure \/ ReadLog \/ SaveEvaluating \/ RefuseLine
  PROVE  ServedInv'
<1> USE DEF TypeInv
<1> DEFINE NoneCompleted ==
      \A o \in Orders : log'[o].status = "completed" =>
        log[o].status = "completed" /\ log'[o].deductions = log[o].deductions
<1>l. log \in [Orders -> LogRow]
  BY DEF TypeOK
<1>1. CASE Handlers
  <2> PICK o \in Orders : \/ SaveLog(o) \/ AddPrepareJob(o) \/ UndoCheck(o) \/ AddUndoJob(o)
                          \/ CancelRead(o) \/ CancelDiff(o) \/ CancelUpdate(o)
    BY <1>1 DEF Handlers
  <2>1. UNCHANGED <<pc, job, draft, entries, step, need>>
    BY DEF SaveLog, AddPrepareJob, UndoCheck, AddUndoJob, CancelRead, CancelDiff, CancelUpdate,
       worker, tx
  <2>2. NoneCompleted
    <3>1. CASE SaveLog(o)
      BY <1>l, <3>1 DEF SaveLog, LogRow
    <3>2. CASE CancelUpdate(o)
      <4>1. cancel[o].row.status = "cancelled" /\ "status" \in cancel[o].cols
        BY <3>2 DEF CancelUpdate, DeliveryInv, Cancelling
      <4>2. log'[o].status = "cancelled" /\ \A p \in Orders \ {o} : log'[p] = log[p]
        BY <1>l, <3>2, <4>1 DEF CancelUpdate, LogRow
      <4>3. QED
        BY <4>2
    <3>3. CASE AddPrepareJob(o) \/ UndoCheck(o) \/ AddUndoJob(o) \/ CancelRead(o) \/ CancelDiff(o)
      BY <3>3 DEF AddPrepareJob, UndoCheck, AddUndoJob, CancelRead, CancelDiff, tables
    <3>4. QED
      BY <3>1, <3>2, <3>3
  <2>3. QED
    BY <2>1, <2>2, ServedOutside
<1>2. CASE Admin
  <2>1. UNCHANGED <<log, pc, job, draft, entries, step, need>>
    BY <1>2 DEF Admin, AddStock, SetStock, RemoveStock, BulkDeleteCheck, BulkDelete, tables,
       worker, tx
  <2>2. QED
    BY <2>1, ServedOutside
<1>3. CASE Recover \/ (\E o \in Orders : GrowOld(o)) \/ UNCHANGED vars
  <2>1. UNCHANGED <<log, pc, job, draft, entries, step, need>>
    BY <1>3 DEF Recover, GrowOld, vars, tables, worker, tx
  <2>2. QED
    BY <2>1, ServedOutside
<1>4. CASE Crash \/ Throw \/ RefuseLine
  <2>1. log' = log /\ pc' \in {"idle", "ack", "record"} /\ entries' = <<>>
    BY <1>4 DEF Crash, Throw, RefuseLine, Abort, CloseTx, tables
  <2>2. QED
    BY <2>1, ServedOutside
<1>5. CASE Take \/ Ack \/ ReadLog \/ SaveEvaluating
  <2>1. /\ log' = log /\ pc' \notin {"require", "deduct", "restore", "create"}
        /\ entries' = entries /\ pc \notin {"require", "deduct"}
    BY <1>5 DEF Take, Ack, ReadLog, SaveEvaluating, tables, tx
  <2>2. entries' = <<>>
    BY <2>1 DEF ServedInv
  <2>3. QED
    BY <2>1, <2>2, ServedOutside
<1>6. CASE RecordFailure
  <2>1. /\ pc' = "ack" /\ entries' = entries /\ pc = "record" /\ failure \in Failed
        /\ job.order \in Orders
    BY <1>6 DEF RecordFailure, tx, Control, TypeOK, Job
  <2>2. entries' = <<>>
    BY <2>1 DEF ServedInv
  <2>3. log' = log \/ log' = [log EXCEPT ![job.order].status = failure]
    BY <1>6 DEF RecordFailure
  <2>4. NoneCompleted
    BY <1>l, <2>1, <2>3 DEF Failed, LogRow
  <2>5. QED
    BY <2>1, <2>2, <2>4, ServedOutside
<1>7. QED
  BY <1>1, <1>2, <1>3, <1>4, <1>5, <1>6 DEF Environment

\* Steps of the transaction that prepares an order: the logs stay.
LEMMA ServedInside ==
  ASSUME ServedInv, UNCHANGED log, pc' \in {"require", "deduct"}, ServedSoFar',
         step' \in 1..Len(Recipe[job'.order]) + 1
  PROVE  ServedInv'
  BY DEF ServedInv, Lines

LEMMA PrepareServed ==
  ASSUME TypeInv, StockInv, ServedInv,
         \/ LockStock \/ SkipLine \/ AllocateLine \/ NextLine
         \/ \E r \in Rows : Deduct(r)
  PROVE  ServedInv'
<1> USE DEF TypeInv
<1> PICK o \in Orders : o = job.order
  BY DEF LockStock, SkipLine, AllocateLine, NextLine, Deduct, TypeOK, Job
<1> PICK n \in Nat : n = step
  BY DEF TypeOK
<1>0. /\ Recipe[o] \in Seq(Requirement) /\ Lines = Recipe[o]
      /\ \A k \in DOMAIN Recipe[o] : Recipe[o][k].amount \in Nat /\ Recipe[o][k].ing \in Ingredients
  BY RecipeLine DEF Lines
<1>d. DOMAIN Recipe[o] = 1..Len(Recipe[o]) /\ Len(Recipe[o]) \in Nat
  BY <1>0
<1>1. CASE LockStock
  <2>1. log' = log /\ job' = job /\ pc' = "require" /\ step' = 1 /\ entries' = <<>>
    BY <1>1 DEF LockStock, tables, ServedInv
  <2>2. {} \in ServableTo(o, 0)
    BY <1>d DEF ServableTo
  <2>3. \A i : TookFor(<<>>, i) = 0 /\ Asked(o, {}, i) = 0
    BY TookNothing, AskedNothing
  <2>4. ServedSoFar'
    BY <2>1, <2>2, <2>3 DEF ServedSoFar
  <2>5. QED
    BY <1>d, <2>1, <2>4, ServedInside
<1>2. CASE SkipLine
  <2> DEFINE e == [ing |-> Line.ing, actual |-> Nil, row |-> Nil, amount |-> 0, skipped |-> TRUE]
  <2>1. /\ log' = log /\ job' = job /\ pc = "require" /\ pc' = "require" /\ step' = n + 1
        /\ entries' = Append(entries, e) /\ n \in DOMAIN Recipe[o] /\ Recipe[o][n].lenient
    BY <1>2 DEF SkipLine, tables, Lines, Line
  <2>2. e \in Entry /\ e.amount = 0 /\ e.ing = Recipe[o][n].ing
    BY <1>0, <2>1 DEF Entry, Skipped, Line
  <2>3. PICK S \in ServableTo(o, n - 1) : \A i \in Ingredients : TookFor(entries, i) = Asked(o, S, i)
    BY <2>1 DEF ServedInv, ServedSoFar
  <2>4. S \in ServableTo(o, n)
    BY <1>d, <2>1 DEF ServableTo
  <2> HIDE DEF e
  <2>5. ASSUME NEW i \in Ingredients
        PROVE  TookFor(entries', i) = Asked(o, S, i)
    <3>1. entries \in Seq(Entry)
      BY DEF TypeOK
    <3>2. TookFor(entries, i) \in Int /\ TookFor(entries', i) = IF e.ing = i THEN TookFor(entries, i) + e.amount ELSE TookFor(entries, i)
      BY <2>1, <2>2, <3>1, TookAppend, TookType
    <3>3. TookFor(entries', i) = TookFor(entries, i)
      BY <2>2, <3>2
    <3>4. QED
      BY <2>3, <3>3
  <2>6. step' - 1 = n
    BY <2>1
  <2>7. ServedSoFar'
    BY <2>1, <2>4, <2>5, <2>6 DEF ServedSoFar
  <2>8. QED
    BY <1>d, <2>1, <2>7, ServedInside
<1>3. CASE AllocateLine
  <2>1. /\ log' = log /\ job' = job /\ pc = "require" /\ pc' = "deduct" /\ step' = n
        /\ entries' = entries /\ n \in DOMAIN Recipe[o] /\ need' = Recipe[o][n].amount
    BY <1>3 DEF AllocateLine, tables, Lines, Line
  <2>2. PICK S \in ServableTo(o, n - 1) : \A i \in Ingredients : TookFor(entries, i) = Asked(o, S, i)
    BY <2>1 DEF ServedInv, ServedSoFar
  <2>3. S \cup {n} \in ServableTo(o, n) /\ n \notin S /\ S \in SUBSET (DOMAIN Recipe[o])
    BY <1>d, <2>1 DEF ServableTo
  <2>4. ASSUME NEW i \in Ingredients
        PROVE  TookFor(entries', i) + (IF i = Recipe[o][n].ing THEN need' ELSE 0) = Asked(o, S \cup {n}, i)
    <3>1. /\ Asked(o, S, i) \in Int
          /\ Recipe[o][n].ing = i => Asked(o, S \cup {n}, i) = Asked(o, S, i) + Recipe[o][n].amount
          /\ Recipe[o][n].ing # i => Asked(o, S \cup {n}, i) = Asked(o, S, i)
      <4>1. S \in SUBSET (DOMAIN Recipe[o]) /\ n \in DOMAIN Recipe[o] /\ n \notin S
        BY <2>1, <2>3
      <4>2. QED
        BY ONLY <4>1, AskedMore, o \in Orders
    <3>2. TookFor(entries', i) = Asked(o, S, i)
      BY <2>1, <2>2
    <3>3. QED
      BY <2>1, <3>1, <3>2
  <2>5. Line' = Recipe[o][n]
    BY <2>1 DEF Line, Lines
  <2>6. ServedSoFar'
    BY <2>1, <2>3, <2>4, <2>5 DEF ServedSoFar
  <2>7. QED
    BY <1>d, <2>1, <2>6, ServedInside
<1>4. CASE NextLine
  <2>1. /\ log' = log /\ job' = job /\ pc = "deduct" /\ pc' = "require" /\ step' = n + 1
        /\ entries' = entries /\ n \in DOMAIN Recipe[o] /\ need = 0
    BY <1>0, <1>4 DEF NextLine, tables, Control
  <2>2. PICK S \in ServableTo(o, n) : \A i \in Ingredients :
          TookFor(entries, i) + (IF i = Line.ing THEN need ELSE 0) = Asked(o, S, i)
    BY <2>1 DEF ServedInv, ServedSoFar
  <2>3. \A i \in Ingredients : TookFor(entries', i) = Asked(o, S, i)
    <3> TAKE i \in Ingredients
    <3>1. TookFor(entries, i) \in Int
      BY TookType DEF TypeOK
    <3>2. TookFor(entries, i) + 0 = Asked(o, S, i)
      BY <2>1, <2>2
    <3>3. QED
      BY <2>1, <3>1, <3>2
  <2>4. step' - 1 = n
    BY <2>1
  <2>5. ServedSoFar'
    BY <2>1, <2>3, <2>4 DEF ServedSoFar
  <2>6. QED
    BY <1>d, <2>1, <2>5, ServedInside
<1>5. ASSUME NEW r \in Rows, Deduct(r)
      PROVE  ServedInv'
  <2> PICK a : a = Portion(r)
    OBVIOUS
  <2> DEFINE e == [ing |-> Line.ing, actual |-> ing[r], row |-> r, amount |-> a, skipped |-> FALSE]
  <2>0. pc' = "deduct"
    BY <1>5, DeductNeverRefused
  <2>1. /\ log' = log /\ job' = job /\ pc = "deduct" /\ step' = n /\ need' = need - a
        /\ entries' = Append(entries, e) /\ n \in DOMAIN Recipe[o] /\ Line = Recipe[o][n]
        /\ r \in held /\ ing[r] # Nil
    BY <1>0, <1>5, <2>0 DEF Deduct, Abort, tables, Control, Eligible, Line, StockInv, RemainingIsStock
  <2>2. a \in Nat /\ need \in Nat
    BY <2>1 DEF Portion, StockInv, RemainingIsStock, TypeOK
  <2>3. e \in Entry /\ e.amount = a /\ e.ing = Recipe[o][n].ing
    BY <1>0, <2>1, <2>2 DEF Entry, Taken, TypeOK
  <2>4. PICK S \in ServableTo(o, n) : \A i \in Ingredients :
          TookFor(entries, i) + (IF i = Line.ing THEN need ELSE 0) = Asked(o, S, i)
    BY <2>1 DEF ServedInv, ServedSoFar
  <2> HIDE DEF e
  <2>5. ASSUME NEW i \in Ingredients
        PROVE  TookFor(entries', i) + (IF i = Recipe[o][n].ing THEN need' ELSE 0) = Asked(o, S, i)
    <3>1. entries \in Seq(Entry)
      BY DEF TypeOK
    <3>2. TookFor(entries, i) \in Int /\ TookFor(entries', i) = IF e.ing = i THEN TookFor(entries, i) + e.amount ELSE TookFor(entries, i)
      BY <2>1, <2>3, <3>1, TookAppend, TookType
    <3>3. TookFor(entries, i) + (IF i = Recipe[o][n].ing THEN need ELSE 0) = Asked(o, S, i)
      BY <2>1, <2>4
    <3>4. QED
      BY <2>1, <2>2, <2>3, <3>2, <3>3
  <2>6. Line' = Recipe[o][n]
    BY <2>1 DEF Line, Lines
  <2>7. ServedSoFar'
    BY <2>0, <2>1, <2>5, <2>6 DEF ServedSoFar
  <2>8. QED
    BY <1>d, <2>0, <2>1, <2>7, ServedInside
<1>6. QED
  BY <1>1, <1>2, <1>3, <1>4, <1>5

LEMMA CompleteServed ==
  ASSUME TypeInv, ServedInv, Complete
  PROVE  ServedInv'
<1> USE DEF TypeInv
<1> PICK o \in Orders : o = job.order
  BY DEF Complete, TypeOK, Job
<1> DEFINE row == [draft EXCEPT !.status = "completed", !.deductions = entries]
<1>1. /\ log' = [log EXCEPT ![o] = row] /\ pc = "require" /\ pc' = "ack" /\ entries' = <<>>
      /\ step \notin DOMAIN Recipe[o] /\ step \in 1..Len(Recipe[o]) + 1 /\ step \in Nat
  BY DEF Complete, Commit, CloseTx, Lines, TypeOK, ServedInv
<1>2. row.deductions = entries
  BY DEF TypeOK, LogRow
<1> HIDE DEF row
<1>3. log'[o] = row /\ \A p \in Orders \ {o} : log'[p] = log[p]
  BY <1>1 DEF TypeOK
<1>4. PICK S \in ServableTo(o, step - 1) : \A i \in Ingredients : TookFor(entries, i) = Asked(o, S, i)
  BY <1>1 DEF ServedInv, ServedSoFar
<1>5. DOMAIN Recipe[o] = 1..Len(Recipe[o]) /\ Len(Recipe[o]) \in Nat
  BY RecipeLine
<1>6. S \in Servable(o)
  <2>1. step - 1 = Len(Recipe[o])
    BY <1>1, <1>5
  <2>2. QED
    BY <1>5, <2>1 DEF ServableTo, Servable
<1>7. Serves(o, entries)
  BY <1>4, <1>6 DEF Serves
<1>8. \A p \in Orders : log'[p].status = "completed" => Serves(p, log'[p].deductions)
  BY <1>2, <1>3, <1>7 DEF ServedInv
<1>9. QED
  BY <1>1, <1>8 DEF ServedInv, ServedSoFar

LEMMA UndoServed ==
  ASSUME TypeInv, DeliveryInv, ServedInv, CheckUndo \/ Restore \/ CreateRow \/ FinishUndo
  PROVE  ServedInv'
<1> USE DEF TypeInv
<1>1. CASE CheckUndo
  <2>1. /\ log' = log /\ job' = job /\ entries' = entries /\ pc = "check"
        /\ pc' \in {"ack", "restore"} /\ job.order \in Orders
    BY <1>1 DEF CheckUndo, tables, TypeOK, Job
  <2>2. pc' = "restore" => draft' = log[job.order] /\ log[job.order].status = "completed"
    BY <1>1 DEF CheckUndo, UndoRefused
  <2>3. QED
    BY <2>1, <2>2 DEF ServedInv, ServedSoFar
<1>2. CASE Restore
  <2>1. log' = log /\ job' = job /\ draft' = draft /\ entries' = entries /\ pc = "restore"
        /\ pc' \in {"restore", "create"}
    BY <1>2 DEF Restore, tables
  <2>2. QED
    BY <2>1 DEF ServedInv, ServedSoFar
<1>3. CASE CreateRow
  <2>1. CASE Abort("failed_other")
    <3>1. log' = log /\ entries' = <<>> /\ pc' \in {"ack", "record"}
      BY <1>3, <2>1 DEF CreateRow, Abort, CloseTx, tables
    <3>2. QED
      BY <3>1, ServedOutside
  <2>2. CASE UNCHANGED <<draft, entries>> /\ pc' = "restore"
    <3>1. log' = log /\ job' = job /\ draft' = draft /\ entries' = entries /\ pc = "create"
      BY <1>3, <2>2 DEF CreateRow, tables
    <3>2. QED
      BY <2>2, <3>1 DEF ServedInv, ServedSoFar
  <2>3. QED
    BY <1>3, <2>1, <2>2 DEF CreateRow
<1>4. CASE FinishUndo
  <2> PICK o \in Orders : o = job.order
    BY <1>4 DEF FinishUndo, TypeOK, Job
  <2> DEFINE row == [draft EXCEPT !.undone = TRUE]
  <2>1. log' = [log EXCEPT ![o] = row] /\ pc = "restore" /\ pc' = "ack" /\ entries' = <<>>
    BY <1>4 DEF FinishUndo, Commit, CloseTx
  <2>2. row.deductions = draft.deductions
    BY DEF TypeOK, LogRow
  <2> HIDE DEF row
  <2>3. log'[o] = row /\ \A p \in Orders \ {o} : log'[p] = log[p]
    BY <2>1 DEF TypeOK
  <2>4. \A p \in Orders : log'[p].status = "completed" => Serves(p, log'[p].deductions)
    BY <2>1, <2>2, <2>3 DEF ServedInv
  <2>5. QED
    BY <2>1, <2>4 DEF ServedInv, ServedSoFar
<1>5. QED
  BY <1>1, <1>2, <1>3, <1>4

LEMMA InitServed == Init => ServedInv
  BY DEF Init, ServedInv, ServedSoFar, EmptyLog

LEMMA ServedInvariant == Spec => []ServedInv
<1>1. TypeInv /\ StockInv /\ DeliveryInv /\ ServedInv /\ [Next]_vars => ServedInv'
  BY OtherServed, PrepareServed, CompleteServed, UndoServed DEF Next, WorkerStep
<1>2. QED
  BY InitServed, TypeInvariant, StockInvariant, DeliveryInvariant, <1>1, PTL DEF Spec

\* What a completed order records to have taken is its recipe: every line in
\* full, whatever rows and substitutes it was served from, except lenient lines
\* that were skipped; so it stays after an undo, a crash and a redelivery.
THEOREM FullyServedHolds == Spec => []FullyServed
<1>1. ServedInv => FullyServed
  BY DEF ServedInv, Serves, FullyServed
<1>2. QED
  BY ServedInvariant, <1>1, PTL

(***************************************************************************)
(* The pipeline implements OrderLedger: every step is one of its steps, or *)
(* changes nothing that it sees.                                           *)
(***************************************************************************)

\* An order whose prepare job has not ended is neither settled nor cancelled.
Pending(o) ==
  \/ o \in enqueuing
  \/ In(waiting, o)
  \/ pc \in PreparePhases \cup {"record"} /\ IsPrep(job, o)

PendingInv == \A o \in Orders : Pending(o) => log[o].status = "queued"

LEMMA PendingQuiet ==
  ASSUME PendingInv,
         \A o \in Orders : Pending(o)' => Pending(o) /\ log'[o] = log[o]
  PROVE  PendingInv'
  BY DEF PendingInv

\* The worker has ended an order: nothing of it is pending.
LEMMA EndedNotPending ==
  ASSUME TypeInv, DeliveryInv, NEW o \in Orders, o = job.order,
         pc \in PreparePhases \cup {"record"}, pc' = "ack",
         UNCHANGED <<enqueuing, waiting>>
  PROVE  ~Pending(o)'
<1>1. Running(o)
  BY DEF Running, IsPrep, TypeInv, Control, PreparePhases
<1>2. ~In(waiting, o) /\ o \notin enqueuing
  BY <1>1 DEF DeliveryInv, Placed
<1>3. QED
  BY <1>2 DEF Pending, PreparePhases, In, IsPrep

LEMMA WorkerPending ==
  ASSUME Known, PendingInv, WorkerStep
  PROVE  PendingInv'
<1> USE DEF Known, TypeInv
<1>l. log \in [Orders -> LogRow] /\ waiting \in Seq(Job) /\ (pc # "idle" => job.order \in Orders)
  BY DEF TypeOK, Job
<1>1. CASE Take
  <2>1. waiting # <<>> /\ job' = Head(waiting) /\ waiting' = Tail(waiting) /\ log' = log /\ enqueuing' = enqueuing
    BY <1>1 DEF Take, tables, handlers
  <2>2. ASSUME NEW o \in Orders, Pending(o)'
        PROVE  Pending(o)
    <3>1. CASE o \in enqueuing'
      BY <2>1, <3>1 DEF Pending
    <3>2. CASE In(waiting', o)
      <4> PICK k \in DOMAIN Tail(waiting) : IsPrep(Tail(waiting)[k], o)
        BY <2>1, <3>2 DEF In
      <4>1. k + 1 \in DOMAIN waiting /\ waiting[k + 1] = Tail(waiting)[k]
        BY <1>l, <2>1
      <4>2. QED
        BY <4>1 DEF Pending, In
    <3>3. CASE IsPrep(job', o)
      <4>1. 1 \in DOMAIN waiting /\ waiting[1] = job'
        BY <1>l, <2>1
      <4>2. QED
        BY <3>3, <4>1 DEF Pending, In, IsPrep
    <3>4. QED
      BY <2>2, <3>1, <3>2, <3>3 DEF Pending, In, IsPrep
  <2>3. QED
    BY <2>1, <2>2, PendingQuiet
<1>2. CASE Ack
  BY <1>2, PendingQuiet DEF Ack, tables, queue, handlers, Pending, In, IsPrep, PreparePhases
<1>3. CASE \/ ReadLog \/ SaveEvaluating \/ LockStock \/ SkipLine \/ AllocateLine \/ NextLine
  <2>1. /\ UNCHANGED <<log, waiting, enqueuing, job>> /\ pc \in PreparePhases
    BY <1>3 DEF ReadLog, SaveEvaluating, LockStock, SkipLine, AllocateLine, NextLine, tables,
       queue, handlers, PreparePhases
  <2>2. QED
    BY <2>1, PendingQuiet DEF Pending, In, IsPrep
<1>4. CASE RefuseLine \/ \E r \in Rows : Deduct(r)
  <2>1. /\ UNCHANGED <<log, waiting, enqueuing, job>> /\ pc \in PreparePhases
    BY <1>4 DEF RefuseLine, Deduct, tables, queue, handlers, PreparePhases
  <2>2. QED
    BY <2>1, PendingQuiet DEF Pending, In, IsPrep
<1>5. CASE CheckUndo \/ Restore \/ CreateRow
  <2>1. /\ UNCHANGED <<log, waiting, enqueuing, job>> /\ pc \in UndoPhases
    BY <1>5 DEF CheckUndo, Restore, CreateRow, tables, queue, handlers, UndoPhases
  <2>2. job.type = "batch-undo"
    BY <2>1 DEF Control
  <2>3. QED
    BY <2>1, <2>2, PendingQuiet DEF Pending, In, IsPrep, JobKinds
<1>6. CASE RecordFailure \/ Complete
  <2> PICK p \in Orders : p = job.order
    BY <1>l, <1>6 DEF RecordFailure, Complete
  <2>1. /\ UNCHANGED <<waiting, enqueuing, job>> /\ pc' = "ack" /\ pc \in PreparePhases \cup {"record"}
        /\ \A o \in Orders \ {p} : log'[o] = log[o]
    BY <1>l, <1>6 DEF RecordFailure, Complete, Commit, queue, handlers, PreparePhases
  <2>2. ~Pending(p)'
    BY <2>1, EndedNotPending
  <2>3. \A o \in Orders : Pending(o)' => Pending(o)
    BY <2>1 DEF Pending, In, IsPrep, PreparePhases
  <2>4. QED
    BY <2>1, <2>2, <2>3, PendingQuiet
<1>7. CASE FinishUndo
  <2> PICK p \in Orders : p = job.order
    BY <1>l, <1>7 DEF FinishUndo
  <2>1. /\ UNCHANGED <<waiting, enqueuing, job>> /\ pc' = "ack" /\ pc = "restore"
        /\ \A o \in Orders \ {p} : log'[o] = log[o]
    BY <1>l, <1>7 DEF FinishUndo, Commit, queue, handlers
  <2>2. \A o \in Orders : Pending(o)' => Pending(o)
    BY <2>1 DEF Pending, In, IsPrep, PreparePhases
  <2>3. log[p].status = "completed"
    BY <2>1 DEF LedgerInv, UndoInv, Live
  <2>4. ~Pending(p)
    BY <2>3 DEF PendingInv
  <2>5. QED
    BY <2>1, <2>2, <2>4, PendingQuiet
<1>8. QED
  BY <1>1, <1>2, <1>3, <1>4, <1>5, <1>6, <1>7 DEF WorkerStep

LEMMA AppendIn ==
  ASSUME waiting \in Seq(Job), NEW j \in Job, waiting' = Append(waiting, j), NEW o \in Orders
  PROVE  In(waiting, o)' => In(waiting, o) \/ IsPrep(j, o)
  BY DEF In, IsPrep

LEMMA OtherPending ==
  ASSUME Known, PendingInv, Handlers \/ Admin \/ Environment \/ UNCHANGED vars
  PROVE  PendingInv'
<1> USE DEF Known, TypeInv
<1>l. log \in [Orders -> LogRow] /\ waiting \in Seq(Job)
  BY DEF TypeOK
<1>1. CASE Handlers
  <2> PICK p \in Orders : \/ SaveLog(p) \/ AddPrepareJob(p) \/ UndoCheck(p) \/ AddUndoJob(p)
                          \/ CancelRead(p) \/ CancelDiff(p) \/ CancelUpdate(p)
    BY <1>1 DEF Handlers
  <2>0. UNCHANGED <<pc, job>>
    BY DEF SaveLog, AddPrepareJob, UndoCheck, AddUndoJob, CancelRead, CancelDiff, CancelUpdate,
       worker
  <2>1. SaveLog(p) \/ AddPrepareJob(p) \/ UndoCheck(p) \/ AddUndoJob(p)
    <3>1. cancel[p].pc = "idle"
      BY DEF LedgerInv, OrdersInv
    <3>2. ~ CancelRead(p)
      BY DEF CancelRead, Spend, LedgerScope, Limit, TypeOK, Actors
    <3>3. QED
      BY <3>1, <3>2 DEF CancelDiff, CancelUpdate
  <2>2. CASE SaveLog(p)
    <3>1. /\ waiting' = waiting /\ enqueuing' = enqueuing \cup {p} /\ log'[p].status = "queued"
          /\ \A o \in Orders \ {p} : log'[o] = log[o]
      BY <1>l, <2>2 DEF SaveLog, queue, LogRow
    <3>2. \A o \in Orders \ {p} : Pending(o)' => Pending(o)
      BY <2>0, <3>1 DEF Pending, In, IsPrep
    <3>3. QED
      BY <3>1, <3>2 DEF PendingInv
  <2>3. CASE AddPrepareJob(p)
    <3> DEFINE j == [type |-> Kind[p], order |-> p, stalls |-> 0]
    <3>1. /\ waiting' = Append(waiting, j) /\ enqueuing' = enqueuing \ {p} /\ p \in enqueuing
          /\ log' = log
      BY <2>3 DEF AddPrepareJob, tables
    <3>2. j \in Job /\ j.order = p
      BY RecipeAssumption DEF Job
    <3> HIDE DEF j
    <3>3. \A o \in Orders : In(waiting, o)' => In(waiting, o) \/ IsPrep(j, o)
      BY <1>l, <3>1, <3>2, AppendIn
    <3>4. \A o \in Orders : Pending(o)' => Pending(o)
      BY <2>0, <3>1, <3>2, <3>3 DEF Pending, IsPrep
    <3>5. QED
      BY <3>1, <3>4, PendingQuiet
  <2>4. CASE AddUndoJob(p)
    <3> DEFINE j == [type |-> "batch-undo", order |-> p, stalls |-> 0]
    <3>1. waiting' = Append(waiting, j) /\ enqueuing' = enqueuing /\ log' = log
      BY <2>4 DEF AddUndoJob, tables
    <3>2. j \in Job /\ j.type \notin JobKinds
      BY DEF Job, JobKinds
    <3> HIDE DEF j
    <3>3. \A o \in Orders : In(waiting, o)' => In(waiting, o) \/ IsPrep(j, o)
      BY <1>l, <3>1, <3>2, AppendIn
    <3>4. \A o \in Orders : Pending(o)' => Pending(o)
      BY <2>0, <3>1, <3>2, <3>3 DEF Pending, IsPrep
    <3>5. QED
      BY <3>1, <3>4, PendingQuiet
  <2>5. CASE UndoCheck(p)
    BY <2>0, <2>5, PendingQuiet DEF UndoCheck, tables, queue, Pending, In, IsPrep
  <2>6. QED
    BY <2>1, <2>2, <2>3, <2>4, <2>5
<1>2. CASE Admin
  <2>1. UNCHANGED <<log, waiting, pc, job, enqueuing>>
    BY <1>2 DEF Admin, AddStock, SetStock, RemoveStock, BulkDeleteCheck, BulkDelete, tables,
       queue, worker, handlers
  <2>2. QED
    BY <2>1, PendingQuiet DEF Pending, In, IsPrep
<1>3. CASE Throw
  <2>1. UNCHANGED <<log, waiting, job, enqueuing>> /\ pc \in PreparePhases \cup UndoPhases
    BY <1>3 DEF Throw, tables, queue, handlers, InTx, PreparePhases, UndoPhases
  <2>2. pc \in UndoPhases => job.type = "batch-undo"
    BY DEF Control
  <2>3. QED
    BY <2>1, <2>2, PendingQuiet DEF Pending, In, IsPrep, JobKinds
<1>4. ~ Crash
  BY DEF Crash, Spend, Limit, LedgerScope, TypeOK, Actors
<1>5. ~ Recover
  BY DEF Recover, NoCrashInv
<1>6. CASE (\E o \in Orders : GrowOld(o)) \/ UNCHANGED vars
  <2>1. UNCHANGED <<log, waiting, pc, job, enqueuing>>
    BY <1>6 DEF GrowOld, vars, tables, queue, worker, handlers
  <2>2. QED
    BY <2>1, PendingQuiet DEF Pending, In, IsPrep
<1>7. QED
  BY <1>1, <1>2, <1>3, <1>4, <1>5, <1>6 DEF Environment

LEMMA PendingInvariant ==
  ASSUME LedgerScope
  PROVE  Spec => []PendingInv
<1>1. Init => PendingInv
  BY DEF Init, PendingInv, Pending, In, PreparePhases
<1>2. /\ TypeInv /\ StockInv /\ DeliveryInv /\ NoCrashInv /\ LedgerInv /\ PendingInv
      /\ [Next]_vars
      => PendingInv'
  <2> SUFFICES ASSUME Known, PendingInv, [Next]_vars
               PROVE  PendingInv'
    BY DEF Known
  <2>1. CASE WorkerStep
    BY <2>1, WorkerPending
  <2>2. CASE Handlers \/ Admin \/ Environment \/ UNCHANGED vars
    BY <2>2, OtherPending
  <2>3. QED
    BY <2>1, <2>2 DEF Next
<1>3. Spec => []NoCrashInv
  BY NoCrashInvariant DEF LedgerScope
<1>4. QED
  BY <1>1, <1>2, <1>3, TypeInvariant, StockInvariant, DeliveryInvariant, LedgerInvariant, PTL DEF Spec

-----------------------------------------------------------------------------
(* The state of the ledger, and how a step moves it                        *)

LState == [o \in Orders |-> LedgerState(o)]
LTook == [o \in Orders |-> [i \in Ingredients |-> IF Live(o) THEN Recorded(o, i) ELSE 0]]
LStock == [i \in Ingredients |-> Hand(i)]

\* All that is known of a state.
Sound == Known /\ StockAccounted /\ ServedInv /\ PendingInv

LStockFits == LStock \in [Ingredients -> Nat]

LEMMA LStockNat == RowsInv /\ TypeOK /\ StockInv => LStockFits
<1> SUFFICES ASSUME RowsInv, TypeOK, StockInv, NEW i \in Ingredients
             PROVE  Hand(i) \in Nat
  BY DEF LStockFits, LStock
<1>1. HandOfRow
  BY OneRowNow
<1>2. CASE \E r \in Rows : ing[r] = i
  BY <1>1, <1>2 DEF HandOfRow, StockInv, TypeOK
<1>3. CASE ~ \E r \in Rows : ing[r] = i
  BY <1>1, <1>3 DEF HandOfRow
<1>4. QED
  BY <1>2, <1>3

LEMMA LStockNatNext == RowsInv' /\ TypeOK' /\ StockInv' => LStockFits'
  BY LStockNat, PTL

\* The stock moves by what admins put in and what orders take or give back.
LEMMA HandMoves ==
  ASSUME TypeOK, TypeOK', OrdersInv, OrdersInv', StockAccounted, StockAccounted',
         NEW i \in Ingredients
  PROVE  /\ Hand(i)' = Hand(i) + supplied'[i] - supplied[i] - Out(i)' + Out(i)
         /\ Hand(i) \in Int /\ Hand(i)' \in Int /\ Out(i) \in Int /\ Out(i)' \in Int
         /\ supplied[i] \in Int /\ supplied'[i] \in Int
<1> PICK b : b = Total(InitQty, {r \in Rows : InitIng[r] = i})
  OBVIOUS
<1>1. Hand(i) = b + supplied[i] - Out(i)
  BY DEF StockAccounted, Hand, Out
<1>2. Hand(i)' = b + supplied'[i] - Out(i)'
  BY DEF StockAccounted, Hand, Out
<1>3. b \in Int /\ Hand(i) \in Int /\ Out(i) \in Int /\ supplied[i] \in Int
  BY AccountTypes
<1>4. Hand(i)' \in Int /\ Out(i)' \in Int /\ supplied'[i] \in Int
  BY AccountsTypedNext DEF AccountsTyped
<1>5. QED
  BY <1>1, <1>2, <1>3, <1>4

LEMMA StateOf ==
  ASSUME NEW o \in Orders
  PROVE  /\ log[o].status = "none" => LedgerState(o) = "none"
         /\ log[o].status \in Failed \cup {"cancelled"} => LedgerState(o) = "refused"
         /\ Live(o) => LedgerState(o) = "served"
         /\ log[o].status = "completed" /\ log[o].undone => LedgerState(o) = "undone"
         /\ log[o].status \in {"queued", "evaluating", "preparing"} => LedgerState(o) = "open"
  BY DEF LedgerState, Live, Failed

LEMMA LedgerTuple ==
  /\ Ledger!vars = <<LState, LTook, LStock, supplied>>
  /\ Ledger!vars' = <<LState', LTook', LStock', supplied'>>
  BY DEF Ledger!vars, LState, LTook, LStock, Hand

LEMMA LedgerPlace ==
  ASSUME NEW o \in Orders, LState[o] = "none", LState' = [LState EXCEPT ![o] = "open"],
         UNCHANGED <<LTook, LStock, supplied>>
  PROVE  Ledger!Place(o)
  BY DEF Ledger!Place, LState, LTook, LStock, Hand

LEMMA LedgerRefuse ==
  ASSUME NEW o \in Orders, LState[o] = "open", LState' = [LState EXCEPT ![o] = "refused"],
         UNCHANGED <<LTook, LStock, supplied>>
  PROVE  Ledger!Refuse(o)
  BY DEF Ledger!Refuse, LState, LTook, LStock, Hand

LEMMA LedgerGiveBack ==
  ASSUME NEW o \in Orders, LState[o] = "served", LState' = [LState EXCEPT ![o] = "undone"],
         LStock' = [i \in Ingredients |-> LStock[i] + LTook[o][i]],
         LTook' = [LTook EXCEPT ![o] = [i \in Ingredients |-> 0]],
         UNCHANGED supplied
  PROVE  Ledger!GiveBack(o)
  BY DEF Ledger!GiveBack, Ledger!Nothing, LState, LTook, LStock, Hand

LEMMA LedgerServe ==
  ASSUME NEW o \in Orders, LState[o] = "open", LState' = [LState EXCEPT ![o] = "served"],
         NEW d \in ServingsOf(o), \A i \in Ingredients : d[i] <= LStock[i],
         LTook' = [LTook EXCEPT ![o] = d],
         LStock' = [i \in Ingredients |-> LStock[i] - d[i]],
         UNCHANGED supplied
  PROVE  Ledger!Serve(o)
<1>1. d \in [p \in Orders |-> ServingsOf(p)][o]
  OBVIOUS
<1>2. QED
  BY <1>1 DEF Ledger!Serve, LState, LTook, LStock, Hand

LEMMA LedgerSupply ==
  ASSUME supplied' \in [Ingredients -> Int],
         LStock' = [i \in Ingredients |-> LStock[i] + supplied'[i] - supplied[i]],
         \A i \in Ingredients : LStock'[i] >= 0,
         UNCHANGED <<LState, LTook>>
  PROVE  Ledger!Supply
  BY DEF Ledger!Supply, LState, LTook, LStock, Hand

LEMMA LedgerInit == Init => Ledger!Init
<1> SUFFICES ASSUME Init
             PROVE  Ledger!Init
  OBVIOUS
<1>1. LStock \in [Ingredients -> Nat]
  BY InitLedger, InitType, InitStock, LStockNat DEF LedgerInv, TypeInv, LStockFits
<1>2. \A o \in Orders : LedgerState(o) = "none" /\ ~Live(o)
  BY StateOf DEF Init, Live, EmptyLog
<1>3. QED
  BY <1>1, <1>2 DEF Ledger!Init, Ledger!Nothing, Init, LStock, Hand

\* Where nothing is served for another, what is taken is what is asked for.
LEMMA ExactTook ==
  ASSUME NEW d \in Seq(Entry), Exact(d), NEW i \in Ingredients
  PROVE  Took(d, i) = TookFor(d, i)
<1> DEFINE S == {k \in DOMAIN d : d[k].actual = i}
           T == {k \in DOMAIN d : d[k].ing = i}
<1>1. \A k \in DOMAIN d : d[k] \in Entry /\ Amounts(d)[k] = d[k].amount /\ Amounts(d)[k] \in Int
  BY AmountType
<1>2. IsFiniteSet(T)
  BY AmountType, FS_Subset
<1>3. S \subseteq T
  BY <1>1, RowsAssumption DEF Exact, Entry, Taken, Skipped
<1>4. \A k \in T \ S : Amounts(d)[k] = 0
  BY <1>1 DEF Exact, Entry, Taken, Skipped
<1>5. \A k \in S : Amounts(d)[k] \in Int
  BY <1>1
<1>6. Took(d, i) = Total(Amounts(d), S) /\ TookFor(d, i) = Total(Amounts(d), T)
  BY DEF Took, TookFor, Amounts
<1> HIDE DEF S, T
<1>7. QED
  BY <1>2, <1>3, <1>4, <1>5, <1>6, TotalBeside

States ==
  \A o \in Orders :
    /\ Live(o) => LState[o] = "served"
    /\ log[o].status \in Failed \cup {"cancelled"} => LState[o] = "refused"
    /\ log[o].status = "completed" /\ log[o].undone => LState[o] = "undone"
    /\ log[o].status = "queued" => LState[o] = "open"
    /\ log[o].status = "none" => LState[o] = "none"

LEMMA StatesNow == States
  BY StateOf DEF States, LState

LEMMA StatesNext == States'
  BY StatesNow, PTL

\* The states of the other orders stay as they are.
LEMMA StateMoves ==
  ASSUME NEW o \in Orders, \A p \in Orders \ {o} : log'[p] = log[p]
  PROVE  LState' = [LState EXCEPT ![o] = LState'[o]]
<1>1. \A p \in Orders \ {o} : LState'[p] = LState[p]
  BY DEF LState, LedgerState, Live
<1>2. LState = [p \in Orders |-> LState[p]] /\ LState' = [p \in Orders |-> LState'[p]]
  BY DEF LState
<1>3. QED
  BY <1>1, <1>2

\* No deduction is recorded: the stock moves by what admins put in.
LEMMA LedgerSame ==
  ASSUME Sound, Sound', SameLogs
  PROVE  /\ LTook' = LTook
         /\ LStock' = [i \in Ingredients |-> LStock[i] + supplied'[i] - supplied[i]]
         /\ supplied' = supplied => LStock' = LStock
<1>1. \A o \in Orders : (Live(o)' <=> Live(o)) /\ log'[o].deductions = log[o].deductions
  BY SameLogsLive DEF SameLogs
<1>2. LTook' = LTook
  BY <1>1 DEF LTook, Recorded
<1>3. ASSUME NEW i \in Ingredients
      PROVE  /\ Hand(i)' = Hand(i) + supplied'[i] - supplied[i]
             /\ supplied' = supplied => Hand(i)' = Hand(i)
  <2>1. Out(i)' = Out(i)
    BY <1>1, OutSame
  <2>2. /\ Hand(i)' = Hand(i) + supplied'[i] - supplied[i] - Out(i)' + Out(i)
        /\ Hand(i) \in Int /\ Hand(i)' \in Int /\ Out(i) \in Int /\ Out(i)' \in Int
        /\ supplied[i] \in Int /\ supplied'[i] \in Int
    BY HandMoves DEF Sound, Known, TypeInv, LedgerInv
  <2>3. QED
    BY <2>1, <2>2
<1>4. QED
  BY <1>2, <1>3 DEF LStock

\* Steps that leave the logs alone: the admins, and all that stays inside the
\* queue, the handlers and the worker's transaction.
LEMMA TablesStep ==
  ASSUME Sound, Sound', log' = log
  PROVE  Ledger!Supply
<1>1. SameLogs
  BY DEF SameLogs
<1>2. LState' = LState
  BY DEF LState, LedgerState, Live
<1>3. LStockFits' /\ supplied' \in [Ingredients -> Int]
  BY LStockNatNext DEF Sound, Known, TypeInv, LedgerInv, TypeOK
<1>4. \A i \in Ingredients : LStock'[i] >= 0
  BY <1>3 DEF LStockFits
<1>5. QED
  BY <1>1, <1>2, <1>3, <1>4, LedgerSame, LedgerSupply

\* An order is placed when its log is saved ...
LEMMA PlaceStep ==
  ASSUME Sound, Sound', NEW o \in Orders, SaveLog(o)
  PROVE  Ledger!Place(o)
<1>1. log \in [Orders -> LogRow] /\ log[o].status = "none" /\ supplied' = supplied
  BY DEF Sound, Known, TypeInv, TypeOK, SaveLog, history
<1>2. /\ log'[o] = [log[o] EXCEPT !.status = "queued"] /\ log'[o].status = "queued"
      /\ \A p \in Orders \ {o} : log'[p] = log[p]
  BY <1>1 DEF SaveLog, LogRow
<1>3. SameLogs
  BY <1>1, <1>2 DEF SameLogs, LogRow
<1>4. LState[o] = "none" /\ LState'[o] = "open"
  BY <1>1, <1>2, StatesNow, StatesNext DEF States
<1>5. LState' = [LState EXCEPT ![o] = "open"]
  BY <1>2, <1>4, StateMoves
<1>6. UNCHANGED <<LTook, LStock, supplied>>
  BY <1>1, <1>3, LedgerSame
<1>7. QED
  BY <1>4, <1>5, <1>6, LedgerPlace

\* ... and refused when its failure is recorded.
LEMMA RefuseStep ==
  ASSUME Sound, Sound', RecordFailure, log' # log
  PROVE  \E o \in Orders : Ledger!Refuse(o)
<1> USE DEF Sound, Known, TypeInv
<1> PICK o \in Orders : o = job.order
  BY DEF RecordFailure, TypeOK, Job
<1>1. /\ pc = "record" /\ log \in [Orders -> LogRow] /\ supplied' = supplied
      /\ log' = [log EXCEPT ![o].status = failure] /\ failure \in Failed
  BY DEF RecordFailure, TypeOK, Control, history
<1>2. log[o].status = "queued"
  BY <1>1 DEF PendingInv, Pending, IsPrep, Control
<1>3. /\ log'[o] = [log[o] EXCEPT !.status = failure] /\ log'[o].status = failure
      /\ \A p \in Orders \ {o} : log'[p] = log[p]
  BY <1>1 DEF LogRow
<1>4. SameLogs
  BY <1>1, <1>2, <1>3 DEF SameLogs, LogRow, Failed
<1>5. LState[o] = "open" /\ LState'[o] = "refused"
  BY <1>1, <1>2, <1>3, StatesNow, StatesNext DEF States
<1>6. LState' = [LState EXCEPT ![o] = "refused"]
  BY <1>3, <1>5, StateMoves
<1>7. UNCHANGED <<LTook, LStock, supplied>>
  BY <1>1, <1>4, LedgerSame
<1>8. QED
  BY <1>5, <1>6, <1>7, LedgerRefuse

\* It is served when its transaction commits: what its entries took off the
\* rows is one of its servings.
LEMMA ServeStep ==
  ASSUME Sound, Sound', Complete
  PROVE  \E o \in Orders : Ledger!Serve(o)
<1> USE DEF Sound, Known, TypeInv, LedgerInv
<1> PICK o \in Orders : o = job.order
  BY DEF Complete, TypeOK, Job
<1> DEFINE row == [draft EXCEPT !.status = "completed", !.deductions = entries]
           d == [i \in Ingredients |-> Took(entries, i)]
<1>1. /\ pc = "require" /\ log \in [Orders -> LogRow] /\ log' = [log EXCEPT ![o] = row]
      /\ supplied' = supplied /\ entries \in Seq(Entry) /\ Exact(entries) /\ ~draft.undone
  BY DEF Complete, Commit, TypeOK, OrdersInv
<1>2. row.status = "completed" /\ ~row.undone /\ row.deductions = entries
  BY <1>1 DEF TypeOK, LogRow
<1> HIDE DEF row
<1>3. log'[o] = row /\ \A p \in Orders \ {o} : log'[p] = log[p]
  BY <1>1
<1>4. log[o].status = "queued"
  BY <1>1 DEF PendingInv, Pending, IsPrep, Control, PreparePhases
<1>5. ~Live(o) /\ Live(o)'
  BY <1>2, <1>3, <1>4 DEF Live
<1>6. LState[o] = "open" /\ LState' = [LState EXCEPT ![o] = "served"]
  <2>1. LState[o] = "open" /\ LState'[o] = "served"
    BY <1>4, <1>5, StatesNow, StatesNext DEF States
  <2>2. QED
    BY <1>3, <2>1, StateMoves
<1>7. d \in ServingsOf(o)
  <2>1. log'[o].status = "completed" /\ log'[o].deductions = entries
    BY <1>2, <1>3
  <2>2. Serves(o, entries)
    BY <2>1 DEF ServedInv
  <2>3. PICK S \in Servable(o) : \A i \in Ingredients : TookFor(entries, i) = Asked(o, S, i)
    BY <2>2 DEF Serves
  <2>4. d = [i \in Ingredients |-> Asked(o, S, i)]
    BY <1>1, <2>3, ExactTook
  <2>5. QED
    BY <2>4 DEF ServingsOf
<1>8. LTook' = [LTook EXCEPT ![o] = d]
  <2>1. \A i : Recorded(o, i)' = Took(entries, i)
    BY <1>2, <1>3 DEF Recorded
  <2>2. LTook'[o] = d
    BY <1>5, <2>1 DEF LTook
  <2>3. \A p \in Orders \ {o} : LTook'[p] = LTook[p]
    BY <1>3 DEF LTook, Live, Recorded
  <2> HIDE DEF d
  <2>4. LTook = [p \in Orders |-> LTook[p]] /\ LTook' = [p \in Orders |-> LTook'[p]]
    BY DEF LTook
  <2>5. QED
    BY <2>2, <2>3, <2>4
<1>9. ASSUME NEW i \in Ingredients
      PROVE  Hand(i)' = Hand(i) - d[i] /\ d[i] <= Hand(i)
  <2>1. Out(i)' = Out(i) + Recorded(o, i)'
    BY <1>3, <1>5, OutMore
  <2>2. Recorded(o, i)' = d[i] /\ d[i] \in Int
    <3>1. Recorded(o, i)' = Took(entries, i)
      BY <1>2, <1>3 DEF Recorded
    <3>2. d[i] = Took(entries, i) /\ Took(entries, i) \in Int
      BY <1>1, TookType
    <3> HIDE DEF d
    <3>3. QED
      BY <3>1, <3>2, Zenon
  <2>3. /\ Hand(i)' = Hand(i) + supplied'[i] - supplied[i] - Out(i)' + Out(i)
        /\ Hand(i) \in Int /\ Hand(i)' \in Int /\ Out(i) \in Int /\ Out(i)' \in Int
        /\ supplied[i] \in Int
    BY HandMoves
  <2>4. LStock'[i] >= 0 /\ LStock'[i] = Hand(i)'
    BY LStockNatNext DEF LStockFits, LStock
  <2> HIDE DEF d
  <2> PICK a : a = d[i]
    OBVIOUS
  <2>5. Out(i)' = Out(i) + a /\ a \in Int
    BY <2>1, <2>2, Zenon
  <2>6. Hand(i)' = Hand(i) - a /\ Hand(i)' >= 0
    BY <1>1, <2>3, <2>4, <2>5
  <2>7. QED
    BY <2>3, <2>5, <2>6
<1>10. /\ LStock' = [i \in Ingredients |-> LStock[i] - d[i]]
       /\ \A i \in Ingredients : d[i] <= LStock[i]
  <2> HIDE DEF d
  <2>1. QED
    BY <1>9 DEF LStock
<1> HIDE DEF d
<1>11. QED
  BY <1>1, <1>6, <1>7, <1>8, <1>10, LedgerServe

\* An undo gives back what the order took, when its transaction commits.
LEMMA GiveBackStep ==
  ASSUME Sound, Sound', FinishUndo
  PROVE  \E o \in Orders : Ledger!GiveBack(o)
<1> USE DEF Sound, Known, TypeInv, LedgerInv
<1> PICK o \in Orders : o = job.order
  BY DEF FinishUndo, TypeOK, Job
<1> DEFINE row == [draft EXCEPT !.undone = TRUE]
<1>1. /\ pc = "restore" /\ log \in [Orders -> LogRow] /\ log' = [log EXCEPT ![o] = row]
      /\ supplied' = supplied
  BY DEF FinishUndo, Commit, TypeOK
<1>2. draft = log[o] /\ Live(o)
  BY <1>1 DEF UndoInv
<1>3. row.status = "completed" /\ row.undone = TRUE /\ row.undone
  <2>1. row.status = "completed" /\ row.undone = TRUE
    BY <1>1, <1>2 DEF Live, LogRow
  <2>2. QED
    BY <2>1, Zenon
<1> HIDE DEF row
<1>4. log'[o] = row /\ \A p \in Orders \ {o} : log'[p] = log[p]
  BY <1>1
<1>5. ~Live(o)'
  BY <1>3, <1>4 DEF Live
<1>6. LState[o] = "served" /\ LState' = [LState EXCEPT ![o] = "undone"]
  <2>1. log'[o].status = "completed" /\ log'[o].undone
    BY <1>3, <1>4, Zenon
  <2>2. LState[o] = "served" /\ LState'[o] = "undone"
    BY <1>2, <2>1, StatesNow, StatesNext DEF States
  <2>3. QED
    BY <1>4, <2>2, StateMoves
<1>7. LTook' = [LTook EXCEPT ![o] = [i \in Ingredients |-> 0]]
  <2>1. LTook'[o] = [i \in Ingredients |-> 0]
    BY <1>5 DEF LTook
  <2>2. \A p \in Orders \ {o} : LTook'[p] = LTook[p]
    BY <1>4 DEF LTook, Live, Recorded
  <2>3. LTook = [p \in Orders |-> LTook[p]] /\ LTook' = [p \in Orders |-> LTook'[p]]
    BY DEF LTook
  <2>4. QED
    BY <2>1, <2>2, <2>3
<1>8. ASSUME NEW i \in Ingredients
      PROVE  Hand(i)' = Hand(i) + LTook[o][i]
  <2>1. Out(i)' = Out(i) - Recorded(o, i)
    BY <1>2, <1>4, <1>5, OutLess
  <2>2. LTook[o][i] = Recorded(o, i) /\ Recorded(o, i) \in Int
    BY <1>1, <1>2, TookType DEF LTook, Recorded, LogRow
  <2>3. /\ Hand(i)' = Hand(i) + supplied'[i] - supplied[i] - Out(i)' + Out(i)
        /\ Hand(i) \in Int /\ Hand(i)' \in Int /\ Out(i) \in Int /\ Out(i)' \in Int
        /\ supplied[i] \in Int
    BY HandMoves
  <2> PICK a : a = Recorded(o, i)
    OBVIOUS
  <2>4. Out(i)' = Out(i) - a /\ a \in Int
    BY <2>1, <2>2
  <2>5. Hand(i)' = Hand(i) + a
    BY <1>1, <2>3, <2>4
  <2>6. QED
    BY <2>2, <2>5
<1>9. LStock' = [i \in Ingredients |-> LStock[i] + LTook[o][i]]
  BY <1>8 DEF LStock
<1>10. QED
  BY <1>1, <1>6, <1>7, <1>9, LedgerGiveBack

\* Every step of the pipeline is a step of the ledger, or stutters in it.
LEMMA RefinementStep ==
  ASSUME Sound, Sound', [Next]_vars
  PROVE  [Ledger!Next]_(Ledger!vars)
<1>1. CASE \E o \in Orders : SaveLog(o)
  BY <1>1, PlaceStep DEF Ledger!Next
<1>2. CASE RecordFailure /\ log' # log
  BY <1>2, RefuseStep DEF Ledger!Next
<1>3. CASE Complete
  BY <1>3, ServeStep DEF Ledger!Next
<1>4. CASE FinishUndo
  BY <1>4, GiveBackStep DEF Ledger!Next
<1>5. CASE log' = log
  BY <1>5, TablesStep DEF Ledger!Next
<1>6. \/ \E o \in Orders : SaveLog(o)
      \/ RecordFailure /\ log' # log
      \/ Complete \/ FinishUndo
      \/ log' = log
  <2>1. CASE WorkerStep
    BY <2>1 DEF WorkerStep, Take, Ack, ReadLog, SaveEvaluating, LockStock, SkipLine, RefuseLine,
       AllocateLine, NextLine, Deduct, CheckUndo, Restore, CreateRow, tables
  <2>2. CASE Handlers
    <3> PICK o \in Orders : \/ SaveLog(o) \/ AddPrepareJob(o) \/ UndoCheck(o) \/ AddUndoJob(o)
                            \/ CancelRead(o) \/ CancelDiff(o) \/ CancelUpdate(o)
      BY <2>2 DEF Handlers
    <3>1. ~ CancelUpdate(o)
      BY DEF CancelUpdate, Sound, Known, LedgerInv, OrdersInv
    <3>2. QED
      BY <3>1 DEF AddPrepareJob, UndoCheck, AddUndoJob, CancelRead, CancelDiff, tables
  <2>3. CASE Admin
    BY <2>3 DEF Admin, AddStock, SetStock, RemoveStock, BulkDeleteCheck, BulkDelete, tables
  <2>4. CASE Environment \/ UNCHANGED vars
    BY <2>4 DEF Environment, Throw, Crash, Recover, GrowOld, tables, vars
  <2>5. QED
    BY <2>1, <2>2, <2>3, <2>4 DEF Next
<1>7. QED
  BY <1>1, <1>2, <1>3, <1>4, <1>5, <1>6

\* Seen through the committed tables the pipeline serves every order at once and
\* in full, refuses it without a trace, and undoes it exactly, however the steps
\* of its transactions fall between those of other orders and of the admins.
THEOREM ImplementsLedgerHolds ==
  ASSUME MaxCrashes = 0, MaxCancels = 0, \A i \in Ingredients : Subs[i] = {i}
  PROVE  Spec => ImplementsLedger
<1>0. LedgerScope
  BY DEF LedgerScope
<1>1. Spec => []Sound
  <2>1. TypeInv /\ StockInv /\ DeliveryInv /\ NoCrashInv /\ LedgerInv /\ StockAccounted
        /\ ServedInv /\ PendingInv
        => Sound
    BY <1>0 DEF Sound, Known
  <2>2. Spec => []NoCrashInv /\ [](LedgerInv /\ StockAccounted) /\ []PendingInv
    BY <1>0, NoCrashInvariant, LedgerInvariant, PendingInvariant DEF LedgerScope
  <2>3. QED
    BY <2>1, <2>2, TypeInvariant, StockInvariant, DeliveryInvariant, ServedInvariant, PTL
<1>2. Sound /\ Sound' /\ [Next]_vars => [Ledger!Next]_(Ledger!vars)
  BY RefinementStep
<1>3. QED
  BY LedgerInit, <1>1, <1>2, PTL DEF Spec, ImplementsLedger, Ledger!Spec
=============================================================================
