--------------------------- MODULE Sessions_proofs ----------------------------
(***************************************************************************)
(* Theorems about accounts and sessions, for any users, requests, menus and*)
(* periods of Sessions.                                                    *)
(***************************************************************************)
EXTENDS Sessions, FiniteSetTheorems, WellFoundedInduction, TLAPS

(***************************************************************************)
(* A handler touches the users table in four ways: it reads a row and goes *)
(* on (Steps), saves the entity it read (Saves), inserts a user, or        *)
(* anonymises a set of them; a cron updates rows in place (Cleans).  Every *)
(* action of the specification is put into one of these classes once, and  *)
(* the invariants about accounts are shown for the classes.                *)
(***************************************************************************)

(******************************** accounts *********************************)
Founds == UNION {[D -> Rows] : D \in SUBSET Users}
Ops == {"none"} \cup AccountOps \cup SessionOps
Statements == {"new", "insert", "pass", "fail", "save", "revoke", "salt", "insertToken",
               "list", "evict", "find", "user", "family", "rotate", "blacklist", "logout",
               "saveSalt", "dropCache", "update", "fill", "done"}
Handlers == [op : Ops, pc : Statements, user : Users \cup {Null},
             copy : Rows \cup {Null}, arg : Mail \cup Emails \cup Founds]

AccountTypes ==
  /\ now \in Nat
  /\ row \in [Users -> Rows \cup {Null}]
  /\ req \in [Requests -> Handlers]
  /\ overtaken \in SUBSET Users
  /\ lockout \in [Users -> [fails : Nat, till : Nat]]

\* Whom the nightly job has found: users who were inactive and still are, in
\* the entities it holds.
FoundInactive(found) ==
  /\ found \in Founds
  /\ \A u \in DOMAIN found : /\ u \in Users /\ row[u] \in Rows
                             /\ found[u].seen \in Nat /\ found[u].seen + IdleTime < now

\* What the next statement of a handler relies on.
Ready(q) ==
  /\ q.pc = "new" => q = Fresh
  /\ q.user = Null => \/ q.pc \in {"new", "done", "saveSalt", "dropCache", "update"}
                      \/ q.op = "retain" /\ q.pc = "save"
  /\ (q.user # Null /\ q.pc \notin {"new", "insert", "done"})
       => row[q.user] \in Rows /\ q.copy \in Rows
  /\ q.pc = "insert" => /\ q.op = "register" /\ q.user \in Users /\ q.arg \in Emails
                        /\ row[q.user] = Null
  /\ (q.op = "askEmail" /\ q.pc = "save") => q.arg \in Emails
  /\ (q.op = "email" /\ q.pc = "save") => q.copy.temp \in Emails
  /\ (q.op = "retain" /\ q.pc = "save") => FoundInactive(q.arg)

\* While a registration waits for its insert nobody else is at work on the user.
OneInsert ==
  \A r, s \in Requests :
    (r # s /\ req[r].pc = "insert" /\ req[s].user = req[r].user) => req[s].pc = "done"

AccountInv ==
  /\ AccountTypes
  /\ \A r \in Requests : Ready(req[r])
  /\ OneInsert

(*************************** classes of actions ****************************)
\* r reads, decides and goes on: no row changes.
Steps(r) ==
  \E q \in Handlers :
    /\ req' = [req EXCEPT ![r] = q]
    /\ q.pc # "new" /\ Ready(q)
    /\ req[r].pc \notin {"new"} => q.user = req[r].user /\ q.pc # "insert"
    /\ q.pc = "insert" => \A s \in Requests : req[s].user = q.user => req[s].pc = "done"
    /\ UNCHANGED <<now, row, overtaken, lockout>>

\* The entity e takes the counter and the lock of copy to those of lock l.
Tracks(copy, e, was, l) ==
  (copy.failed = was.fails /\ copy.locked = was.till /\ copy.failed < MaxFails)
    => (e.failed = l.fails /\ e.locked = l.till /\ e.failed < MaxFails)

\* r saves the entity e made of the one it read.
Saves(r) ==
  \E e \in Rows, l \in [fails : Nat, till : Nat], pc \in {"done", "salt", "revoke"} :
    /\ req[r].user \in Users /\ req[r].copy \in Rows
    /\ req[r].pc \in {"save", "pass", "fail"} /\ req[r].op # "retain"
    /\ row' = [row EXCEPT ![req[r].user] = e]
    /\ overtaken' = IF row[req[r].user] # req[r].copy THEN overtaken \cup {req[r].user}
                                                    ELSE overtaken
    /\ lockout' = [lockout EXCEPT ![req[r].user] = l]
    /\ req' = [req EXCEPT ![r].pc = pc]
    /\ e.anon = req[r].copy.anon
    /\ Tracks(req[r].copy, e, lockout[req[r].user], l)
    /\ now' = now

\* A statement of a cron over the table.
Cleans ==
  /\ row' \in [Users -> Rows \cup {Null}]
  /\ \A u \in Users :
       /\ row[u] = Null => row'[u] = Null
       /\ row[u] # Null => /\ row'[u] \in Rows
                           /\ row'[u].failed = row[u].failed
                           /\ row'[u].locked = row[u].locked
                           /\ row'[u].anon = row[u].anon
  /\ UNCHANGED <<now, req, overtaken, lockout>>

-----------------------------------------------------------------------------
(* Every action belongs to a class                                         *)

LEMMA RowFacts ==
  ASSUME AccountTypes, NEW u \in Users, row[u] # Null
  PROVE  row[u] \in Rows
BY DEF AccountTypes

\* What Start makes of a request.
LEMMA StartSteps ==
  ASSUME AccountInv, NEW r \in Requests, NEW op \in Ops, NEW pc \in Statements,
         NEW u \in Users \cup {Null}, NEW arg \in Mail \cup Emails \cup Founds,
         Start(r, op, pc, u, arg),
         pc # "new",
         u = Null => pc \in {"done", "saveSalt"} \/ (op = "retain" /\ pc = "save"),
         (u # Null /\ pc \notin {"insert", "done"}) => row[u] # Null,
         pc = "insert" => /\ op = "register" /\ u \in Users /\ arg \in Emails
                          /\ row[u] = Null
                          /\ \A s \in Requests : req[s].user = u => req[s].pc = "done",
         (op = "askEmail" /\ pc = "save") => arg \in Emails,
         (op = "email" /\ pc = "save") => u \in Users /\ row[u].temp \in Emails,
         (op = "retain" /\ pc = "save") => FoundInactive(arg)
  PROVE  Steps(r)
<1> DEFINE q == [op |-> op, pc |-> pc, user |-> u, arg |-> arg,
                 copy |-> IF u = Null THEN Null ELSE row[u]]
<1>1. req[r].pc = "new" /\ req' = [req EXCEPT ![r] = q]
      /\ UNCHANGED <<menu, now, row, overtaken, lockout>>
  BY DEF Start
<1>2. u # Null => u \in Users /\ row[u] \in Rows \cup {Null}
  BY DEF AccountInv, AccountTypes
<1>3. q \in Handlers
  BY <1>2 DEF Handlers
<1>4. Ready(q)
  BY <1>2 DEF Ready
<1>5. QED
  BY <1>1, <1>3, <1>4 DEF Steps

\* What a save of an entity made of the one read is.
LEMMA SaveSaves ==
  ASSUME AccountInv, NEW r \in Requests, NEW e \in Rows,
         NEW pc \in {"done", "salt", "revoke"}, NEW l \in [fails : Nat, till : Nat],
         req[r].pc \in {"save", "pass", "fail"}, req[r].op # "retain",
         Save(r, e), Goto(r, pc),
         lockout' = [lockout EXCEPT ![req[r].user] = l],
         e.anon = req[r].copy.anon,
         Tracks(req[r].copy, e, lockout[req[r].user], l)
  PROVE  Saves(r)
<1>1. req[r] \in Handlers /\ Ready(req[r])
  BY DEF AccountInv, AccountTypes
<1>2. req[r].user \in Users /\ req[r].copy \in Rows
  BY <1>1 DEF Ready, Handlers
<1>3. QED
  BY <1>2 DEF Saves, Save, Goto

\* The entity of a handler that is about to save.
LEMMA EntityType ==
  ASSUME AccountInv, NEW r \in Requests,
         req[r].pc \in {"save", "pass", "fail"}, req[r].op # "retain"
  PROVE  /\ req[r] \in Handlers /\ req[r].user \in Users /\ req[r].copy \in Rows
         /\ lockout[req[r].user] \in [fails : Nat, till : Nat] /\ now \in Nat
         /\ lockout = [lockout EXCEPT ![req[r].user] = lockout[req[r].user]]
         /\ Unlocked \in [fails : Nat, till : Nat]
         /\ req[r].op = "askEmail" /\ req[r].pc = "save" => req[r].arg \in Emails
         /\ req[r].op = "email" /\ req[r].pc = "save" => req[r].copy.temp \in Emails
<1>1. req[r] \in Handlers /\ Ready(req[r])
  BY DEF AccountInv, AccountTypes
<1>2. req[r].user \in Users /\ req[r].copy \in Rows
  BY <1>1 DEF Ready, Handlers
<1>3. QED
  BY <1>1, <1>2 DEF AccountInv, AccountTypes, Ready, Unlocked

\* A handler that starts on a registered user.
LEMMA StartOn ==
  ASSUME AccountInv, NEW r \in Requests, NEW u \in Registered, NEW op \in Ops,
         NEW pc \in Statements \ {"new", "insert"}, NEW arg \in Mail \cup Emails,
         Start(r, op, pc, u, arg),
         op # "retain",
         (op = "askEmail" /\ pc = "save") => arg \in Emails,
         (op = "email" /\ pc = "save") => row[u].temp \in Emails
  PROVE  Steps(r)
<1>1. u \in Users /\ row[u] # Null /\ u # Null
  BY NullAssumption DEF Registered
<1>2. arg \in Mail \cup Emails \cup Founds /\ pc \in Statements /\ u \in Users \cup {Null}
  BY <1>1 DEF Statements
<1>3. pc \notin {"new", "insert"}
  OBVIOUS
<1>4. QED
  BY <1>1, <1>2, <1>3, StartSteps

LEMMA ReadsStep ==
  ASSUME AccountInv, NEW r \in Requests,
         \/ RegisterCheck(r) \/ LoginRead(r) \/ UpdateRead(r) \/ AskResetRead(r)
         \/ ResetRead(r) \/ AskUnlockRead(r) \/ UnlockRead(r) \/ VerifyRead(r)
         \/ AskEmailRead(r) \/ EmailRead(r)
  PROVE  Steps(r)
<1>a. Null \in Mail /\ Reachable \subseteq Registered
  BY DEF Mail, Reachable
<1>b. \A u \in Registered : /\ {row[u].reset, row[u].unlock, row[u].verify, row[u].change} \subseteq Mail
                            /\ row[u].temp \in Emails \cup {Null}
  BY RowFacts DEF AccountInv, Rows, Registered
<1>1. CASE RegisterCheck(r)
  <2>1. PICK u \in Users, e \in Emails :
          /\ row[u] = Null
          /\ \A s \in Requests : req[s].user = u => req[s].pc = "done"
          /\ Start(r, "register", IF EmailTaken(e) THEN "done" ELSE "insert", u, e)
    BY <1>1 DEF RegisterCheck
  <2> DEFINE pc == IF EmailTaken(e) THEN "done" ELSE "insert"
  <2>2. pc \in {"done", "insert"} /\ Start(r, "register", pc, u, e)
    BY <2>1
  <2>3. u # Null
    BY NullAssumption
  <2> HIDE DEF pc
  <2> QED
    BY <2>1, <2>2, <2>3, StartSteps DEF Ops, AccountOps, Statements
<1>2. CASE LoginRead(r)
  <2>1. PICK u \in Reachable, right \in BOOLEAN :
          Start(r, "login", IF Locked(u) THEN "done" ELSE IF right THEN "pass" ELSE "fail",
                u, Null)
    BY <1>2 DEF LoginRead
  <2> DEFINE pc == IF Locked(u) THEN "done" ELSE IF right THEN "pass" ELSE "fail"
  <2>2. pc \in {"done", "pass", "fail"} /\ Start(r, "login", pc, u, Null)
    BY <2>1
  <2> HIDE DEF pc
  <2> QED
    BY <1>a, <2>1, <2>2, StartOn DEF Ops, AccountOps, Statements
<1>3. CASE UpdateRead(r)
  <2>1. PICK u \in Registered : Start(r, "update", "save", u, Null)
    BY <1>3 DEF UpdateRead
  <2> QED
    BY <1>a, <2>1, StartOn DEF Ops, AccountOps, Statements
<1>4. CASE AskResetRead(r)
  <2>1. PICK u \in Registered : Start(r, "askReset", "save", u, Null)
    BY <1>4, <1>a DEF AskResetRead
  <2> QED
    BY <1>a, <2>1, StartOn DEF Ops, AccountOps, Statements
<1>5. CASE ResetRead(r)
  <2>1. PICK u \in Registered, pc \in {"save", "done"} : Start(r, "reset", pc, u, row[u].reset)
    BY <1>5 DEF ResetRead
  <2> QED
    BY <1>b, <2>1, StartOn DEF Ops, AccountOps, Statements
<1>6. CASE UnlockRead(r)
  <2>1. PICK u \in Registered : Start(r, "unlock", "save", u, row[u].unlock)
    BY <1>6 DEF UnlockRead
  <2> QED
    BY <1>b, <2>1, StartOn DEF Ops, AccountOps, Statements
<1>7. CASE VerifyRead(r)
  <2>1. PICK u \in Registered : Start(r, "verify", "save", u, row[u].verify)
    BY <1>7 DEF VerifyRead
  <2> QED
    BY <1>b, <2>1, StartOn DEF Ops, AccountOps, Statements
<1>8. CASE AskUnlockRead(r)
  <2>1. PICK u \in Reachable :
          Start(r, "askUnlock", IF Locked(u) THEN "save" ELSE "done", u, Null)
    BY <1>8 DEF AskUnlockRead
  <2> DEFINE pc == IF Locked(u) THEN "save" ELSE "done"
  <2>2. pc \in {"done", "save"} /\ Start(r, "askUnlock", pc, u, Null)
    BY <2>1
  <2> HIDE DEF pc
  <2> QED
    BY <1>a, <2>1, <2>2, StartOn DEF Ops, AccountOps, Statements
<1>9. CASE AskEmailRead(r)
  <2>1. PICK u \in Registered, e \in Emails :
          Start(r, "askEmail", IF EmailTaken(e) THEN "done" ELSE "save", u, e)
    BY <1>9 DEF AskEmailRead
  <2> DEFINE pc == IF EmailTaken(e) THEN "done" ELSE "save"
  <2>2. pc \in {"done", "save"} /\ Start(r, "askEmail", pc, u, e)
    BY <2>1
  <2> HIDE DEF pc
  <2> QED
    BY <2>1, <2>2, StartOn DEF Ops, AccountOps, Statements
<1>10. CASE EmailRead(r)
  <2>1. PICK u \in Registered :
          Start(r, "email", IF row[u].temp = Null THEN "done" ELSE "save", u, row[u].change)
    BY <1>10 DEF EmailRead
  <2> DEFINE pc == IF row[u].temp = Null THEN "done" ELSE "save"
  <2>2. /\ pc \in {"done", "save"} /\ (pc = "save" => row[u].temp \in Emails)
        /\ Start(r, "email", pc, u, row[u].change)
    BY <1>b, <2>1
  <2> HIDE DEF pc
  <2> QED
    BY <1>b, <2>1, <2>2, StartOn DEF Ops, AccountOps, Statements
<1>11. QED
  BY <1>1, <1>2, <1>3, <1>4, <1>5, <1>6, <1>7, <1>8, <1>9, <1>10

LEMMA SavesSave ==
  ASSUME AccountInv, NEW r \in Requests,
         \/ LoginFail(r) \/ LoginPass(r) \/ UpdateSave(r) \/ AskResetSave(r)
         \/ ResetSave(r) \/ AskUnlockSave(r) \/ UnlockSave(r) \/ VerifySave(r)
         \/ AskEmailSave(r) \/ (EmailSave(r) /\ ~EmailRefused(r))
  PROVE  Saves(r)
<1> DEFINE x == req[r].copy
           u == req[r].user
<1>1. req[r].pc \in {"save", "pass", "fail"} /\ req[r].op # "retain"
  BY DEF At, LoginFail, LoginPass, UpdateSave, AskResetSave, ResetSave, AskUnlockSave,
         UnlockSave, VerifySave, AskEmailSave, EmailSave
<1>2. /\ x \in Rows /\ now \in Nat /\ u \in Users
      /\ lockout[u] \in [fails : Nat, till : Nat] /\ Unlocked \in [fails : Nat, till : Nat]
      /\ lockout = [lockout EXCEPT ![u] = lockout[u]]
  BY <1>1, EntityType
<1>3. MaxFails \in Nat \ {0} /\ LockTime \in Nat /\ TokenTime \in Nat
  BY NumbersAssumption
<1> HIDE DEF x, u
<1>a. /\ now + TokenTime \in Nat /\ now + LockTime \in Nat /\ 0 \in Nat
      /\ x.ver + 1 \in Nat /\ x.failed + 1 \in Nat /\ x.failed \in Nat
      /\ 0 < MaxFails
  <2>1. x.ver \in Nat /\ x.failed \in Nat
    BY <1>2 DEF Rows
  <2> QED
    BY <1>2, <1>3, <2>1
<1>b. r \in Mail /\ Null \in Mail
  BY DEF Mail
<1>4. CASE LoginFail(r)
  <2> DEFINE e == Counted(x)
             l == IF e.failed = 0 THEN [fails |-> 0, till |-> e.locked]
                  ELSE [fails |-> lockout[u].fails + 1, till |-> lockout[u].till]
             full == x.failed + 1 >= MaxFails
  <2>1. ASSUME full PROVE e \in Rows /\ e.anon = x.anon /\ e.failed = 0
    <3>1. e = [x EXCEPT !.failed = 0, !.locked = now + LockTime]
      BY <2>1 DEF Counted
    <3> HIDE DEF e
    <3> QED
      BY <1>2, <1>a, <3>1, Zenon DEF Rows
  <2>2. ASSUME ~full
        PROVE  /\ e \in Rows /\ e.anon = x.anon
               /\ e.failed = x.failed + 1 /\ e.locked = x.locked
    <3>1. e = [x EXCEPT !.failed = @ + 1]
      BY <2>2 DEF Counted
    <3> HIDE DEF e
    <3> QED
      BY <1>2, <1>a, <3>1, Zenon DEF Rows
  <2>3. /\ e \in Rows /\ e.anon = x.anon /\ e.locked \in Nat
        /\ full => e.failed = 0
        /\ ~full => e.failed = x.failed + 1 /\ e.locked = x.locked
    <3> HIDE DEF e, full
    <3>1. e \in Rows => e.locked \in Nat
      BY Zenon DEF Rows
    <3> QED
      BY <2>1, <2>2, <3>1
  <2>4. Save(r, e) /\ Goto(r, "done") /\ lockout' = [lockout EXCEPT ![u] = l]
    BY <1>4, Zenon DEF LoginFail, x, u
  <2> HIDE DEF e
  <2>5. l \in [fails : Nat, till : Nat] /\ Tracks(x, e, lockout[u], l)
    BY <1>2, <1>3, <1>a, <2>3 DEF Tracks
  <2> HIDE DEF l
  <2> QED
    BY <1>1, <2>3, <2>4, <2>5, SaveSaves DEF x, u
\* The saves that open the account.
<1>5. ASSUME NEW e \in Rows, NEW pc \in {"done", "salt", "revoke"}, e.anon = x.anon,
             e.failed = 0, e.locked = 0, Save(r, e), Goto(r, pc),
             lockout' = [lockout EXCEPT ![u] = Unlocked]
      PROVE  Saves(r)
  <2>1. Tracks(x, e, lockout[u], Unlocked)
    BY <1>5, <1>a DEF Tracks, Unlocked
  <2> QED
    BY <1>1, <1>2, <1>5, <2>1, SaveSaves DEF x, u
<1>6. CASE LoginPass(r)
  <2> DEFINE e == [x EXCEPT !.failed = 0, !.locked = 0, !.seen = now]
  <2>1. e \in Rows
    BY <1>2, <1>a, Zenon DEF Rows
  <2>2. e.anon = x.anon /\ e.failed = 0 /\ e.locked = 0
    BY <1>2, Zenon DEF Rows
  <2>3. Save(r, e) /\ Goto(r, "salt") /\ lockout' = [lockout EXCEPT ![u] = Unlocked]
    BY <1>6 DEF LoginPass, x, u
  <2> HIDE DEF e
  <2> QED
    BY <1>5, <2>1, <2>2, <2>3
<1>7. CASE ResetSave(r)
  <2> DEFINE e == [x EXCEPT !.pass = r, !.ver = @ + 1, !.reset = Null,
                            !.resetExp = 0, !.failed = 0, !.locked = 0]
  <2>1. e \in Rows
    BY <1>2, <1>a, <1>b, Zenon DEF Rows
  <2>2. e.anon = x.anon /\ e.failed = 0 /\ e.locked = 0
    BY <1>2, Zenon DEF Rows
  <2>3. Save(r, e) /\ Goto(r, "revoke") /\ lockout' = [lockout EXCEPT ![u] = Unlocked]
    BY <1>7 DEF ResetSave, x, u
  <2> HIDE DEF e
  <2> QED
    BY <1>5, <2>1, <2>2, <2>3
<1>8. CASE UnlockSave(r)
  <2> DEFINE e == [x EXCEPT !.failed = 0, !.locked = 0, !.unlock = Null, !.unlockExp = 0]
  <2>1. e \in Rows
    BY <1>2, <1>a, <1>b, Zenon DEF Rows
  <2>2. e.anon = x.anon /\ e.failed = 0 /\ e.locked = 0
    BY <1>2, Zenon DEF Rows
  <2>3. Save(r, e) /\ Goto(r, "done") /\ lockout' = [lockout EXCEPT ![u] = Unlocked]
    BY <1>8 DEF UnlockSave, x, u
  <2> HIDE DEF e
  <2> QED
    BY <1>5, <2>1, <2>2, <2>3
\* The other saves leave counter and lock alone.
<1>9. ASSUME NEW e \in Rows, e.anon = x.anon, e.failed = x.failed, e.locked = x.locked,
             Save(r, e), Goto(r, "done"), UNCHANGED lockout
      PROVE  Saves(r)
  <2>1. Tracks(x, e, lockout[u], lockout[u])
    BY <1>9 DEF Tracks
  <2> QED
    BY <1>1, <1>2, <1>9, <2>1, SaveSaves DEF x, u
<1>10. CASE UpdateSave(r)
  <2>1. PICK m \in Emails \cup {x.email}, pass \in {x.pass, r} :
          Save(r, [x EXCEPT !.email = m, !.pass = pass])
    BY <1>10 DEF UpdateSave, x
  <2>2. m \in Users \cup Emails /\ pass \in Mail
    BY <1>2, <1>b DEF Rows
  <2> DEFINE e == [x EXCEPT !.email = m, !.pass = pass]
  <2>3. e \in Rows
    BY <1>2, <2>2, Zenon DEF Rows
  <2>4. e.anon = x.anon /\ e.failed = x.failed /\ e.locked = x.locked
    BY <1>2, Zenon DEF Rows
  <2>5. Save(r, e) /\ Goto(r, "done") /\ UNCHANGED lockout
    BY <1>10, <2>1 DEF UpdateSave
  <2> HIDE DEF e
  <2> QED
    BY <1>9, <2>3, <2>4, <2>5
<1>11. CASE AskResetSave(r)
  <2> DEFINE e == [x EXCEPT !.reset = r, !.resetExp = now + TokenTime]
  <2>1. e \in Rows
    BY <1>2, <1>a, <1>b, Zenon DEF Rows
  <2>2. e.anon = x.anon /\ e.failed = x.failed /\ e.locked = x.locked
    BY <1>2, Zenon DEF Rows
  <2>3. Save(r, e) /\ Goto(r, "done")
    BY <1>11 DEF AskResetSave, x
  <2> HIDE DEF e
  <2> QED
    BY <1>9, <2>1, <2>2, <2>3, <1>11 DEF AskResetSave
<1>12. CASE AskUnlockSave(r)
  <2> DEFINE e == [x EXCEPT !.unlock = r, !.unlockExp = now + TokenTime]
  <2>1. e \in Rows
    BY <1>2, <1>a, <1>b, Zenon DEF Rows
  <2>2. e.anon = x.anon /\ e.failed = x.failed /\ e.locked = x.locked
    BY <1>2, Zenon DEF Rows
  <2>3. Save(r, e) /\ Goto(r, "done")
    BY <1>12 DEF AskUnlockSave, x
  <2> HIDE DEF e
  <2> QED
    BY <1>9, <2>1, <2>2, <2>3, <1>12 DEF AskUnlockSave
<1>13. CASE VerifySave(r)
  <2> DEFINE e == [x EXCEPT !.verified = TRUE, !.verify = Null]
  <2>1. e \in Rows
    BY <1>2, <1>b, Zenon DEF Rows
  <2>2. e.anon = x.anon /\ e.failed = x.failed /\ e.locked = x.locked
    BY <1>2, Zenon DEF Rows
  <2>3. Save(r, e) /\ Goto(r, "done")
    BY <1>13 DEF VerifySave, x
  <2> HIDE DEF e
  <2> QED
    BY <1>9, <2>1, <2>2, <2>3, <1>13 DEF VerifySave
<1>14. CASE AskEmailSave(r)
  <2> DEFINE e == [x EXCEPT !.temp = req[r].arg, !.change = r]
  <2>1. req[r].arg \in Emails
    BY <1>14, EntityType DEF AskEmailSave, At, x
  <2>2. e \in Rows
    BY <1>2, <1>b, <2>1, Zenon DEF Rows
  <2>3. e.anon = x.anon /\ e.failed = x.failed /\ e.locked = x.locked
    BY <1>2, Zenon DEF Rows
  <2>4. Save(r, e) /\ Goto(r, "done")
    BY <1>14 DEF AskEmailSave, x
  <2> HIDE DEF e
  <2> QED
    BY <1>9, <2>2, <2>3, <2>4, <1>14 DEF AskEmailSave
<1>15. CASE EmailSave(r) /\ ~EmailRefused(r)
  <2> DEFINE e == [x EXCEPT !.email = x.temp, !.temp = Null,
                            !.change = Null, !.verified = TRUE, !.ver = @ + 1]
  <2>1. x.temp \in Emails
    BY <1>15, EntityType DEF EmailSave, At, x
  <2>2. e \in Rows
    BY <1>2, <1>a, <1>b, <2>1, Zenon DEF Rows
  <2>3. e.anon = x.anon /\ e.failed = x.failed /\ e.locked = x.locked
    BY <1>2, Zenon DEF Rows
  <2>4. Save(r, e) /\ Goto(r, "done")
    BY <1>15 DEF EmailSave, x
  <2> HIDE DEF e
  <2> QED
    BY <1>9, <2>2, <2>3, <2>4, <1>15 DEF EmailSave
<1>16. QED
  BY <1>4, <1>6, <1>7, <1>8, <1>10, <1>11, <1>12, <1>13, <1>14, <1>15

\* What leads to the insert and to the save of the nightly job.
LEMMA RegisterRetain ==
  ASSUME AccountInv, NEW r \in Requests,
         RetainRead(r) \/ (RegisterInsert(r) /\ EmailTaken(req[r].arg))
  PROVE  Steps(r)
<1>1. CASE RegisterInsert(r) /\ EmailTaken(req[r].arg)
  <2> DEFINE q == [req[r] EXCEPT !.pc = "done"]
  <2>1. req[r] \in Handlers /\ Ready(req[r]) /\ req[r].pc = "insert" /\ req[r].op = "register"
    BY <1>1 DEF AccountInv, AccountTypes, RegisterInsert, At
  <2>2. q \in Handlers /\ q.user = req[r].user /\ q.pc = "done" /\ q.op = "register"
    BY <2>1 DEF Handlers, Statements
  <2>3. req' = [req EXCEPT ![r] = q] /\ UNCHANGED <<now, row, overtaken, lockout>>
    BY <1>1 DEF RegisterInsert, Goto
  <2> HIDE DEF q
  <2>4. Ready(q)
    BY <2>2 DEF Ready
  <2> QED
    BY <2>2, <2>3, <2>4 DEF Steps
<1>2. CASE RetainRead(r)
  <2> DEFINE found == [u \in {v \in Registered : Inactive(v)} |-> row[u]]
             pc == IF DOMAIN found = {} THEN "done" ELSE "save"
  <2>1. pc \in {"done", "save"} /\ Start(r, "retain", pc, Null, found)
    BY <1>2 DEF RetainRead
  <2>2. \A u \in Registered : u \in Users /\ row[u] \in Rows
    BY RowFacts DEF AccountInv, Registered
  <2>3. \A u \in Registered : Inactive(u) => row[u].seen \in Nat /\ row[u].seen + IdleTime < now
    BY <2>2 DEF Inactive, Rows
  <2>4. FoundInactive(found)
    <3> DEFINE D == {v \in Registered : Inactive(v)}
    <3>1. D \in SUBSET Users /\ found \in [D -> Rows] /\ DOMAIN found = D
      BY <2>2
    <3>2. found \in Founds
      BY <3>1, Zenon DEF Founds
    <3>3. \A u \in D : found[u] = row[u]
      OBVIOUS
    <3> HIDE DEF D, found
    <3>4. \A u \in D : u \in Registered /\ Inactive(u)
      BY DEF D
    <3> QED
      BY <2>2, <2>3, <3>1, <3>2, <3>3, <3>4 DEF FoundInactive
  <2>5. found \in Founds
    BY <2>4 DEF FoundInactive
  <2> HIDE DEF found, pc
  <2> QED
    BY <2>1, <2>4, <2>5, StartSteps DEF Ops, AccountOps, Statements
<1>3. QED
  BY <1>1, <1>2

\* A handler that leaves the rows alone and goes on.
LEMMA GoOn ==
  ASSUME AccountInv, NEW r \in Requests, NEW pc \in Statements \ {"new", "insert", "save"},
         req[r].pc \notin {"new", "insert", "done"},
         Goto(r, pc), UNCHANGED <<now, row, overtaken, lockout>>,
         req[r].user = Null => pc \in {"done", "dropCache", "update"}
  PROVE  Steps(r)
<1> DEFINE q == [req[r] EXCEPT !.pc = pc]
<1>1. req[r] \in Handlers /\ Ready(req[r])
  BY DEF AccountInv, AccountTypes
<1>2. /\ q \in Handlers /\ q.user = req[r].user /\ q.pc = pc /\ q.op = req[r].op
      /\ q.copy = req[r].copy
  BY <1>1 DEF Handlers
<1>3. req' = [req EXCEPT ![r] = q]
  BY DEF Goto
<1> HIDE DEF q
<1>4. Ready(q)
  BY <1>1, <1>2 DEF Ready
<1>5. QED
  BY <1>2, <1>3, <1>4 DEF Steps

LEMMA AccountClasses ==
  ASSUME AccountInv, NEW r \in Requests, Account(r)
  PROVE  \/ Steps(r) \/ Saves(r) \/ RetainSave(r)
         \/ RegisterInsert(r) /\ ~EmailTaken(req[r].arg)
<1>1. CASE UpdateRefused(r)
  BY <1>1, GoOn DEF UpdateRefused, At, Statements
<1>2. QED
  BY <1>1, ReadsStep, SavesSave, RegisterRetain DEF Account

\* The user of every token has a row.
Rooted ==
  \A t \in Requests : token[t] # Null => token[t] \in Tokens /\ row[token[t].user] \in Rows

LEMMA SessionSteps ==
  ASSUME AccountInv, Rooted, NEW r \in Requests, Session(r)
  PROVE  Steps(r) \/ Saves(r)
<1>a. ASSUME NEW t \in Requests, Held(t) PROVE token[t].user \in Registered
  BY <1>a, RowsAssumption DEF Rooted, Held, Tokens, Registered
<1>b. Null \in Mail \cup Emails
  BY DEF Mail
<1> USE DEF At, Keep
<1>c. req[r] \in Handlers /\ Ready(req[r])
  BY DEF AccountInv, AccountTypes
<1>d. ASSUME req[r].pc \notin {"new", "done", "saveSalt", "dropCache", "update", "save"}
      PROVE  req[r].user # Null
  BY <1>c, <1>d DEF Ready
<1>1. CASE \/ ReadSalt(r) \/ InsertToken(r) \/ ListSessions(r) \/ Evict(r)
           \/ RevokeFamily(r) \/ RotateRevoke(r)
           \/ RotateBlacklist(r) \/ LogoutRefresh(r) \/ ResetRevoke(r)
           \/ AccessFill(r)
  BY <1>1, <1>d, GoOn DEF ReadSalt, InsertToken, ListSessions, Evict, RevokeFamily,
     RotateRevoke, RotateBlacklist, LogoutRefresh, ResetRevoke, AccessFill, Statements
<1>2. CASE RevokeAllSave(r) \/ RevokeAllDrop(r) \/ RevokeAllUpdate(r)
  BY <1>2, GoOn DEF RevokeAllSave, RevokeAllDrop, RevokeAllUpdate, Statements
<1>3. CASE RevokeAllRead(r)
  <2>1. Start(r, "revokeAll", "saveSalt", Null, Null)
    BY <1>3 DEF RevokeAllRead, Begin
  <2> QED
    BY <1>b, <2>1, StartSteps DEF Ops, SessionOps, Statements
<1>4. CASE RefreshCheck(r)
  <2>1. PICK t \in Requests :
          /\ Held(t)
          /\ Start(r, "refresh", IF Blacklisted("refresh", t) THEN "family" ELSE "find",
                   token[t].user, Null)
    BY <1>4 DEF RefreshCheck, Begin
  <2> DEFINE pc == IF Blacklisted("refresh", t) THEN "family" ELSE "find"
  <2>2. pc \in {"family", "find"} /\ Start(r, "refresh", pc, token[t].user, Null)
    BY <2>1
  <2> HIDE DEF pc
  <2> QED
    BY <1>a, <1>b, <2>1, <2>2, StartOn DEF Ops, SessionOps, Statements
<1>5. CASE RefreshFind(r)
  BY <1>5, <1>d, GoOn DEF RefreshFind, Statements
<1>6. CASE Logout(r) \/ LogoutAll(r) \/ AccessCached(r) \/ AccessRead(r)
  <2>1. PICK a \in Requests, op \in {"logout", "logoutAll", "access"},
             pc \in {"logout", "done", "fill"} :
          Held(a) /\ Start(r, op, pc, token[a].user, Null)
    BY <1>6 DEF Logout, LogoutAll, AccessCached, AccessRead, Begin, Presentable
  <2> QED
    BY <1>a, <1>b, <2>1, StartOn DEF Ops, SessionOps, Statements
<1>7. CASE EmailCommit(r)
  <2>1. CASE EmailRefused(r)
    <3>1. /\ req[r].pc = "save" /\ req[r].op = "email" /\ Goto(r, "done")
          /\ UNCHANGED <<now, row, overtaken, lockout>>
      BY <1>7, <2>1 DEF EmailCommit, EmailSave
    <3> QED
      BY <3>1, GoOn DEF Statements
  <2>2. CASE ~EmailRefused(r)
    BY <1>7, <2>2, SavesSave DEF EmailCommit
  <2> QED
    BY <2>1, <2>2
<1>8. CASE RefreshUser(r)
  <2> DEFINE q == [req[r] EXCEPT !.pc = "rotate", !.copy = row[req[r].user]]
  <2>1. /\ req[r].op = "refresh" /\ req[r].pc = "user" /\ req[r].user \in Users
        /\ row[req[r].user] \in Rows
    BY <1>8, <1>c, <1>d DEF RefreshUser, Ready, Handlers
  <2>2. /\ q \in Handlers /\ q.user = req[r].user /\ q.pc = "rotate" /\ q.op = "refresh"
        /\ q.copy \in Rows
    BY <1>c, <2>1 DEF Handlers, Statements
  <2>3. req' = [req EXCEPT ![r] = q]
    BY <1>8 DEF RefreshUser
  <2> HIDE DEF q
  <2>4. Ready(q)
    BY <1>d, <2>1, <2>2 DEF Ready
  <2>5. UNCHANGED <<now, row, overtaken, lockout>>
    BY <1>8 DEF RefreshUser
  <2> QED
    BY <2>1, <2>2, <2>3, <2>4, <2>5 DEF Steps
<1>9. QED
  BY <1>1, <1>2, <1>3, <1>4, <1>5, <1>6, <1>7, <1>8 DEF Session

-----------------------------------------------------------------------------
(* The classes keep AccountInv                                             *)

LEMMA StepsKeep ==
  ASSUME AccountInv, NEW r \in Requests, Steps(r)
  PROVE  AccountInv'
<1>1. PICK q \in Handlers :
        /\ req' = [req EXCEPT ![r] = q]
        /\ q.pc # "new" /\ Ready(q)
        /\ req[r].pc \notin {"new"} => q.user = req[r].user /\ q.pc # "insert"
        /\ q.pc = "insert" => \A s \in Requests : req[s].user = q.user => req[s].pc = "done"
        /\ UNCHANGED <<now, row, overtaken, lockout>>
  BY DEF Steps
<1>2. AccountTypes'
  BY <1>1 DEF AccountInv, AccountTypes
<1>3. \A s \in Requests : req'[s] = IF s = r THEN q ELSE req[s]
  BY <1>1 DEF AccountInv, AccountTypes
<1>4. ASSUME NEW s \in Requests PROVE Ready(req[s])'
  BY <1>1, <1>3 DEF AccountInv, Ready, FoundInactive, Fresh
<1>5. OneInsert'
  <2> SUFFICES ASSUME NEW s \in Requests, NEW t \in Requests, s # t,
                      req'[s].pc = "insert", req'[t].user = req'[s].user
               PROVE  req'[t].pc = "done"
    BY DEF OneInsert
  <2>1. CASE s # r /\ t = r
    <3>1. /\ row[q.user] = Null /\ q.user \in Users /\ q.pc # "insert"
      BY <1>1, <1>3, <2>1 DEF AccountInv, Ready, OneInsert
    <3> QED
      BY <1>1, <1>3, <2>1, <3>1, NullAssumption, RowsAssumption DEF Ready
  <2> QED
    BY <1>1, <1>3, <2>1 DEF AccountInv, OneInsert
<1>6. QED
  BY <1>2, <1>4, <1>5 DEF AccountInv

\* The rows that are there stay there.
RowsStay == \A u \in Users : row[u] \in Rows => row'[u] \in Rows

\* What a handler relies on is not taken from it.
LEMMA ReadyCarried ==
  ASSUME AccountInv, AccountTypes', now <= now', RowsStay,
         NEW s \in Requests, Ready(req'[s]),
         req'[s].pc = "insert" => row'[req'[s].user] = Null
  PROVE  Ready(req[s])'
<1> DEFINE p == req'[s]
<1>1. p \in Handlers /\ Ready(p) /\ now \in Nat /\ now' \in Nat
  BY DEF AccountInv, AccountTypes
<1>2. p.pc = "insert" => row'[p.user] = Null
  OBVIOUS
<1> HIDE DEF p
<1>3. /\ p.pc = "new" => p = Fresh
      /\ p.user = Null => \/ p.pc \in {"new", "done", "saveSalt", "dropCache", "update"}
                          \/ p.op = "retain" /\ p.pc = "save"
      /\ (p.user # Null /\ p.pc \notin {"new", "insert", "done"})
           => row'[p.user] \in Rows /\ p.copy \in Rows
      /\ p.pc = "insert" => /\ p.op = "register" /\ p.user \in Users /\ p.arg \in Emails
                            /\ row'[p.user] = Null
      /\ (p.op = "askEmail" /\ p.pc = "save") => p.arg \in Emails
      /\ (p.op = "email" /\ p.pc = "save") => p.copy.temp \in Emails
  BY <1>1, <1>2 DEF Ready, RowsStay, Handlers
<1>4. (p.op = "retain" /\ p.pc = "save")
        => /\ p.arg \in Founds
           /\ \A v \in DOMAIN p.arg : /\ v \in Users /\ row'[v] \in Rows
                                      /\ p.arg[v].seen \in Nat
                                      /\ p.arg[v].seen + IdleTime < now'
  BY <1>1, NumbersAssumption DEF Ready, RowsStay, FoundInactive
<1>5. QED
  BY <1>3, <1>4 DEF Ready, FoundInactive, p

LEMMA SavesKeep ==
  ASSUME AccountInv, NEW r \in Requests, Saves(r)
  PROVE  AccountInv' /\ RowsStay
<1>1. PICK e \in Rows, l \in [fails : Nat, till : Nat], pc \in {"done", "salt", "revoke"} :
        /\ req[r].user \in Users /\ req[r].copy \in Rows
        /\ req[r].pc \in {"save", "pass", "fail"} /\ req[r].op # "retain"
        /\ row' = [row EXCEPT ![req[r].user] = e]
        /\ overtaken' = IF row[req[r].user] # req[r].copy THEN overtaken \cup {req[r].user}
                                                        ELSE overtaken
        /\ lockout' = [lockout EXCEPT ![req[r].user] = l]
        /\ req' = [req EXCEPT ![r].pc = pc]
        /\ now' = now
  BY DEF Saves
<1> DEFINE u == req[r].user
           q == [req[r] EXCEPT !.pc = pc]
<1>2. req[r] \in Handlers /\ Ready(req[r]) /\ now \in Nat /\ row[u] \in Rows
  <2>1. req[r].user # Null
    BY <1>1, NullAssumption
  <2> QED
    BY <1>1, <2>1 DEF AccountInv, AccountTypes, Ready
<1>3. /\ q \in Handlers /\ q.user = u /\ q.pc = pc /\ q.op = req[r].op
      /\ q.copy = req[r].copy
  BY <1>2 DEF Handlers, Statements
<1>4. /\ \A v \in Users : row'[v] = IF v = u THEN e ELSE row[v]
      /\ \A s \in Requests : req'[s] = IF s = r THEN q ELSE req[s]
  BY <1>1 DEF AccountInv, AccountTypes
<1> HIDE DEF q
<1>5. RowsStay
  BY <1>1, <1>2, <1>4, RowsAssumption DEF RowsStay
<1>6. AccountTypes'
  <2>1. req' = [req EXCEPT ![r] = q]
    BY <1>1 DEF q
  <2> QED
    BY <1>1, <1>3, <2>1 DEF AccountInv, AccountTypes
<1>7. Ready(q)
  BY <1>1, <1>2, <1>3 DEF Ready
<1>8. ASSUME NEW s \in Requests PROVE Ready(req[s])'
  <2>1. Ready(req'[s]) /\ (req'[s].pc = "insert" => row'[req'[s].user] = Null)
    <3>1. CASE s = r
      BY <1>1, <1>3, <1>4, <1>7, <3>1
    <3>2. CASE s # r
      BY <1>2, <1>4, <3>2, RowsAssumption DEF AccountInv, Ready
    <3> QED
      BY <3>1, <3>2
  <2> QED
    BY <1>1, <1>2, <1>5, <1>6, <2>1, ReadyCarried
<1>9. OneInsert'
  BY <1>1, <1>3, <1>4 DEF AccountInv, OneInsert
<1>10. QED
  BY <1>5, <1>6, <1>8, <1>9 DEF AccountInv

LEMMA InsertKeeps ==
  ASSUME AccountInv, NEW r \in Requests, RegisterInsert(r), ~EmailTaken(req[r].arg)
  PROVE  AccountInv' /\ RowsStay
<1> DEFINE u == req[r].user
           e == NewRow(req[r].arg, r)
           q == [req[r] EXCEPT !.pc = "salt", !.copy = e]
<1>1. /\ req[r].pc = "insert" /\ req[r] \in Handlers /\ Ready(req[r]) /\ now \in Nat
      /\ u \in Users /\ row[u] = Null /\ req[r].arg \in Emails /\ req[r].op = "register"
  BY DEF AccountInv, AccountTypes, RegisterInsert, At, Ready
<1>2. e \in Rows
  <2>1. now \in Nat /\ 0 \in Nat /\ 1 \in Nat /\ r \in Mail /\ Null \in Mail
    BY <1>1 DEF Mail
  <2> QED
    BY <1>1, <2>1, Zenon DEF NewRow, Rows
<1>3. /\ row' = [row EXCEPT ![u] = e] /\ req' = [req EXCEPT ![r] = q]
      /\ UNCHANGED <<now, overtaken, lockout>>
  BY DEF RegisterInsert
<1> HIDE DEF e
<1>4. /\ q \in Handlers /\ q.user = u /\ q.pc = "salt" /\ q.op = "register" /\ q.copy = e
  BY <1>1, <1>2 DEF Handlers, Statements
<1> HIDE DEF q
<1>5. /\ \A v \in Users : row'[v] = IF v = u THEN e ELSE row[v]
      /\ \A s \in Requests : req'[s] = IF s = r THEN q ELSE req[s]
  BY <1>3 DEF AccountInv, AccountTypes
<1>6. RowsStay
  BY <1>2, <1>5 DEF RowsStay
<1>7. AccountTypes'
  BY <1>2, <1>3, <1>4 DEF AccountInv, AccountTypes
<1>8. ASSUME NEW s \in Requests PROVE Ready(req[s])'
  <2>1. CASE s = r
    <3>1. req'[s] = q
      BY <1>5, <2>1
    <3>2. q.pc # "new" /\ q.user # Null /\ q.user \in Users /\ row'[q.user] \in Rows
          /\ q.copy \in Rows /\ q.pc = "salt" /\ q.op = "register"
      BY <1>1, <1>2, <1>4, <1>5, NullAssumption
    <3> QED
      BY <3>1, <3>2 DEF Ready
  <2>2. CASE s # r
    <3>1. req'[s] = req[s] /\ Ready(req[s])
      BY <1>5, <2>2 DEF AccountInv
    <3>2. req[s].pc = "insert" => row'[req[s].user] = Null
      BY <1>1, <1>5, <2>2, <3>1 DEF AccountInv, OneInsert, Ready
    <3> QED
      BY <1>1, <1>3, <1>6, <1>7, <3>1, <3>2, ReadyCarried
  <2> QED
    BY <2>1, <2>2
<1>9. OneInsert'
  BY <1>1, <1>4, <1>5 DEF AccountInv, OneInsert
<1>10. QED
  BY <1>6, <1>7, <1>8, <1>9 DEF AccountInv

LEMMA AnonymizedRow ==
  ASSUME NEW x \in Rows, NEW u \in Users
  PROVE  Anonymized(x, u) \in Rows /\ Anonymized(x, u).anon = TRUE
BY Zenon DEF Anonymized, Rows

\* The save of the nightly job, where it succeeds.
RetainWrites(found) ==
  /\ row' = [u \in Users |-> IF u \in DOMAIN found THEN Anonymized(found[u], u) ELSE row[u]]
  /\ overtaken' = overtaken \cup {u \in DOMAIN found : row[u] # found[u]}

LEMMA RetainFacts ==
  ASSUME AccountInv, NEW r \in Requests, RetainSave(r)
  PROVE  /\ FoundInactive(req[r].arg) /\ DOMAIN req[r].arg \subseteq Users
         /\ \A u \in DOMAIN req[r].arg : req[r].arg[u] \in Rows
         /\ req[r].pc = "save" /\ req[r].op = "retain" /\ Goto(r, "done")
         /\ UNCHANGED <<now, lockout>>
         /\ RetainWrites(req[r].arg) \/ UNCHANGED <<row, overtaken>>
<1>1. req[r].pc = "save" /\ req[r].op = "retain" /\ Ready(req[r])
  BY DEF RetainSave, At, AccountInv
<1>2. FoundInactive(req[r].arg)
  BY <1>1 DEF Ready
<1>3. PICK D \in SUBSET Users : req[r].arg \in [D -> Rows]
  BY <1>2, Zenon DEF FoundInactive, Founds
<1>4. DOMAIN req[r].arg = D /\ \A u \in D : req[r].arg[u] \in Rows
  BY <1>3
<1>5. /\ Goto(r, "done") /\ UNCHANGED <<now, lockout>>
      /\ RetainWrites(req[r].arg) \/ UNCHANGED <<row, overtaken>>
  BY DEF RetainSave, RetainWrites
<1>6. QED
  BY <1>1, <1>2, <1>4, <1>5

LEMMA RetainKeeps ==
  ASSUME AccountInv, NEW r \in Requests, RetainSave(r)
  PROVE  AccountInv' /\ RowsStay
<1> DEFINE found == req[r].arg
           q == [req[r] EXCEPT !.pc = "done"]
<1>1. /\ FoundInactive(found) /\ DOMAIN found \subseteq Users
      /\ \A u \in DOMAIN found : found[u] \in Rows /\ row[u] \in Rows
      /\ req[r].pc = "save" /\ UNCHANGED <<now, lockout>> /\ Goto(r, "done")
      /\ RetainWrites(found) \/ UNCHANGED <<row, overtaken>>
  BY RetainFacts DEF FoundInactive
<1>2. req[r] \in Handlers /\ now \in Nat
  BY DEF AccountInv, AccountTypes
<1>3. /\ q \in Handlers /\ q.user = req[r].user /\ q.pc = "done" /\ q.op = req[r].op
  BY <1>2 DEF Handlers, Statements
<1>4. req' = [req EXCEPT ![r] = q]
  BY <1>1 DEF Goto
<1> HIDE DEF q, found
<1>5. \A s \in Requests : req'[s] = IF s = r THEN q ELSE req[s]
  BY <1>4 DEF AccountInv, AccountTypes
<1>6. /\ row' \in [Users -> Rows \cup {Null}] /\ overtaken' \in SUBSET Users
      /\ \A u \in Users : row[u] = Null => row'[u] = Null
      /\ RowsStay
  <2>1. CASE UNCHANGED <<row, overtaken>>
    BY <2>1 DEF AccountInv, AccountTypes, RowsStay
  <2>2. CASE RetainWrites(found)
    <3>1. \A u \in Users : row'[u] = IF u \in DOMAIN found THEN Anonymized(found[u], u) ELSE row[u]
      BY <2>2 DEF RetainWrites
    <3>2. \A u \in DOMAIN found : Anonymized(found[u], u) \in Rows
      BY <1>1, AnonymizedRow
    <3>3. RowsStay /\ \A u \in Users : row[u] = Null => row'[u] = Null
      BY <1>1, <3>1, <3>2, RowsAssumption DEF RowsStay
    <3>4. row' \in [Users -> Rows \cup {Null}]
      <4>1. \A u \in Users : (IF u \in DOMAIN found THEN Anonymized(found[u], u) ELSE row[u])
                               \in Rows \cup {Null}
        BY <3>2 DEF AccountInv, AccountTypes
      <4> QED
        BY <2>2, <4>1 DEF RetainWrites
    <3>5. overtaken' \in SUBSET Users
      BY <1>1, <2>2 DEF RetainWrites, AccountInv, AccountTypes
    <3> QED
      BY <3>3, <3>4, <3>5
  <2> QED
    BY <1>1, <2>1, <2>2
<1>7. AccountTypes'
  BY <1>1, <1>3, <1>4, <1>6 DEF AccountInv, AccountTypes
<1>8. ASSUME NEW s \in Requests PROVE Ready(req[s])'
  <2>1. Ready(q)
    BY <1>3 DEF Ready
  <2>2. Ready(req'[s]) /\ (req'[s].pc = "insert" => row'[req'[s].user] = Null)
    BY <1>3, <1>5, <1>6, <2>1 DEF AccountInv, Ready
  <2> QED
    BY <1>1, <1>2, <1>6, <1>7, <2>2, ReadyCarried
<1>9. OneInsert'
  BY <1>3, <1>5 DEF AccountInv, OneInsert
<1>10. QED
  BY <1>6, <1>7, <1>8, <1>9 DEF AccountInv

LEMMA CronCleans ==
  ASSUME AccountInv, CleanResetTokens \/ CleanVerification
  PROVE  Cleans
<1>1. \A u \in Registered : u \in Users /\ row[u] \in Rows
  BY RowFacts DEF AccountInv, Registered
<1>2. row \in [Users -> Rows \cup {Null}]
  BY DEF AccountInv, AccountTypes
<1>3. ASSUME NEW x \in Rows
      PROVE  /\ [x EXCEPT !.reset = Null, !.resetExp = 0] \in Rows
             /\ [x EXCEPT !.verify = Null] \in Rows
             /\ [x EXCEPT !.reset = Null, !.resetExp = 0].failed = x.failed
             /\ [x EXCEPT !.reset = Null, !.resetExp = 0].locked = x.locked
             /\ [x EXCEPT !.reset = Null, !.resetExp = 0].anon = x.anon
             /\ [x EXCEPT !.verify = Null].failed = x.failed
             /\ [x EXCEPT !.verify = Null].locked = x.locked
             /\ [x EXCEPT !.verify = Null].anon = x.anon
  <2>1. Null \in Mail /\ 0 \in Nat
    BY DEF Mail
  <2> QED
    BY <1>3, <2>1, Zenon DEF Rows
<1>4. CASE CleanResetTokens
  <2>1. /\ row' = [u \in Users |->
                     IF u \in Registered /\ row[u].reset # Null /\ row[u].resetExp < now
                     THEN [row[u] EXCEPT !.reset = Null, !.resetExp = 0] ELSE row[u]]
        /\ UNCHANGED <<now, req, overtaken, lockout>>
    BY <1>4 DEF CleanResetTokens, ForEachRow
  <2>2. \A u \in Users : row'[u] = IF u \in Registered /\ row[u].reset # Null /\ row[u].resetExp < now
                                   THEN [row[u] EXCEPT !.reset = Null, !.resetExp = 0] ELSE row[u]
    BY <2>1
  <2> QED
    BY <1>1, <1>2, <1>3, <2>1, <2>2 DEF Cleans, Registered
<1>5. CASE CleanVerification
  <2>1. /\ row' = [u \in Users |->
                     IF /\ u \in Registered /\ ~row[u].verified /\ row[u].verify # Null
                        /\ row[u].born + StaleTime < now
                     THEN [row[u] EXCEPT !.verify = Null] ELSE row[u]]
        /\ UNCHANGED <<now, req, overtaken, lockout>>
    BY <1>5 DEF CleanVerification, ForEachRow
  <2>2. \A u \in Users : \/ row'[u] = row[u]
                         \/ u \in Registered /\ row'[u] = [row[u] EXCEPT !.verify = Null]
    BY <2>1
  <2>3. row' \in [Users -> Rows \cup {Null}]
    BY <1>1, <1>2, <1>3, <2>1
  <2> QED
    BY <1>1, <1>2, <1>3, <2>1, <2>2, <2>3 DEF Cleans, Registered
<1>6. QED
  BY <1>4, <1>5

LEMMA CleansKeep ==
  ASSUME AccountInv, Cleans
  PROVE  AccountInv' /\ RowsStay
<1>1. RowsStay
  BY RowsAssumption DEF Cleans, RowsStay
<1>2. AccountTypes'
  BY DEF Cleans, AccountInv, AccountTypes
<1>3. ASSUME NEW s \in Requests PROVE Ready(req[s])'
  <2>1. Ready(req'[s]) /\ (req'[s].pc = "insert" => row'[req'[s].user] = Null)
    BY DEF AccountInv, Ready, Cleans
  <2>2. now \in Nat /\ now' = now
    BY DEF AccountInv, AccountTypes, Cleans
  <2> QED
    BY <1>1, <1>2, <2>1, <2>2, ReadyCarried
<1>4. OneInsert'
  BY DEF AccountInv, OneInsert, Cleans
<1>5. QED
  BY <1>1, <1>2, <1>3, <1>4 DEF AccountInv

LEMMA TickKeeps ==
  ASSUME AccountInv, Tick
  PROVE  AccountInv' /\ RowsStay
<1>1. now' = now + 1 /\ UNCHANGED <<row, req, overtaken, lockout>> /\ now \in Nat
  BY DEF Tick, AccountInv, AccountTypes
<1>2. AccountTypes' /\ RowsStay
  BY <1>1 DEF AccountInv, AccountTypes, RowsStay
<1>3. ASSUME NEW s \in Requests PROVE Ready(req[s])'
  <2>1. Ready(req'[s]) /\ (req'[s].pc = "insert" => row'[req'[s].user] = Null)
    BY <1>1 DEF AccountInv, Ready
  <2> QED
    BY <1>1, <1>2, <2>1, ReadyCarried
<1>4. OneInsert'
  BY <1>1 DEF AccountInv, OneInsert
<1>5. QED
  BY <1>2, <1>3, <1>4 DEF AccountInv

\* What a step does to the accounts.
AccountStep ==
  \/ \E r \in Requests : \/ Steps(r) \/ Saves(r) \/ RetainSave(r)
                         \/ RegisterInsert(r) /\ ~EmailTaken(req[r].arg)
  \/ Cleans \/ Tick
  \/ UNCHANGED accountVars

LEMMA Classified ==
  ASSUME AccountInv, Rooted, [Next]_vars
  PROVE  AccountStep
<1>1. CASE \E r \in Requests : Account(r) /\ UNCHANGED <<tokenVars, work, history>>
  BY <1>1, AccountClasses DEF AccountStep
<1>2. CASE \E r \in Requests : Session(r)
  BY <1>2, SessionSteps DEF AccountStep
<1>3. CASE Hour \/ Cron
  BY <1>3, CronCleans DEF Hour, Cron, AccountStep
<1>4. CASE CleanBlacklist \/ CleanSessions \/ CacheCleared
  BY <1>4 DEF CleanBlacklist, CleanSessions, CacheCleared, AccountStep
<1>5. CASE UNCHANGED vars
  BY <1>5 DEF vars, AccountStep
<1>6. QED
  BY <1>1, <1>2, <1>3, <1>4, <1>5 DEF Next

LEMMA AccountsKeep ==
  ASSUME AccountInv, AccountStep
  PROVE  AccountInv' /\ RowsStay
<1>1. CASE UNCHANGED accountVars
  BY <1>1 DEF accountVars, AccountInv, AccountTypes, Ready, FoundInactive, OneInsert, RowsStay
<1>2. CASE \E r \in Requests : Steps(r)
  BY <1>2, StepsKeep DEF Steps, RowsStay
<1>3. CASE \E r \in Requests : Saves(r) \/ RetainSave(r)
  BY <1>3, SavesKeep, RetainKeeps
<1>4. CASE \E r \in Requests : RegisterInsert(r) /\ ~EmailTaken(req[r].arg)
  BY <1>4, InsertKeeps
<1>5. QED
  BY <1>1, <1>2, <1>3, <1>4, CleansKeep, TickKeeps DEF AccountStep

-----------------------------------------------------------------------------
(* Lockout and retention                                                   *)

\* The row of a user follows the history of its wrong passwords.
Locks ==
  \A u \in Users :
    /\ row[u] = Null => lockout[u] = Unlocked
    /\ (row[u] # Null /\ u \notin overtaken) =>
         /\ row[u].failed = lockout[u].fails /\ row[u].locked = lockout[u].till
         /\ row[u].failed < MaxFails

LEMMA LocksKept ==
  ASSUME AccountInv, Locks, AccountStep
  PROVE  Locks'
<1>1. CASE UNCHANGED accountVars
  BY <1>1 DEF accountVars, Locks
<1>2. CASE \E r \in Requests : Steps(r)
  BY <1>2 DEF Steps, Locks
<1>3. ASSUME NEW r \in Requests, Saves(r) PROVE Locks'
  <2>1. PICK e \in Rows, l \in [fails : Nat, till : Nat], pc \in {"done", "salt", "revoke"} :
          /\ req[r].user \in Users /\ req[r].copy \in Rows
          /\ req[r].pc \in {"save", "pass", "fail"} /\ req[r].op # "retain"
          /\ row' = [row EXCEPT ![req[r].user] = e]
          /\ overtaken' = IF row[req[r].user] # req[r].copy THEN overtaken \cup {req[r].user}
                                                          ELSE overtaken
          /\ lockout' = [lockout EXCEPT ![req[r].user] = l]
          /\ Tracks(req[r].copy, e, lockout[req[r].user], l)
    BY <1>3 DEF Saves
  <2> DEFINE u == req[r].user
  <2>2. \A v \in Users : /\ row'[v] = IF v = u THEN e ELSE row[v]
                         /\ lockout'[v] = IF v = u THEN l ELSE lockout[v]
    BY <2>1 DEF AccountInv, AccountTypes
  <2>3. e # Null /\ req[r].copy # Null
    BY <2>1, RowsAssumption
  <2>4. u \notin overtaken' => /\ e.failed = l.fails /\ e.locked = l.till
                             /\ e.failed < MaxFails
    BY <2>1, <2>3 DEF Locks, Tracks
  <2> QED
    BY <2>1, <2>2, <2>3, <2>4 DEF Locks
<1>4. ASSUME NEW r \in Requests, RetainSave(r) PROVE Locks'
  <2> DEFINE found == req[r].arg
  <2>1. /\ DOMAIN found \subseteq Users /\ UNCHANGED lockout
        /\ \A u \in DOMAIN found : found[u] \in Rows /\ row[u] \in Rows
        /\ RetainWrites(found) \/ UNCHANGED <<row, overtaken>>
    BY <1>4, RetainFacts DEF FoundInactive
  <2> HIDE DEF found
  <2>2. \A x \in Rows, u \in Users : /\ Anonymized(x, u).failed = x.failed
                                     /\ Anonymized(x, u).locked = x.locked
                                     /\ Anonymized(x, u) # Null
    <3>1. \A x \in Rows, u \in Users : /\ Anonymized(x, u).failed = x.failed
                                       /\ Anonymized(x, u).locked = x.locked
      BY Zenon DEF Anonymized, Rows
    <3> QED
      BY <3>1, AnonymizedRow, RowsAssumption
  <2>3. CASE RetainWrites(found)
    <3>1. \A u \in Users : row'[u] = IF u \in DOMAIN found THEN Anonymized(found[u], u) ELSE row[u]
      BY <2>3 DEF RetainWrites
    <3>2. \A u \in DOMAIN found : row[u] # Null /\ (u \notin overtaken' => row[u] = found[u])
      BY <2>1, <2>3, RowsAssumption DEF RetainWrites
    <3>3. overtaken \subseteq overtaken'
      BY <2>3 DEF RetainWrites
    <3> QED
      BY <2>1, <2>2, <3>1, <3>2, <3>3 DEF Locks
  <2> QED
    BY <2>1, <2>3 DEF Locks
<1>5. ASSUME NEW r \in Requests, RegisterInsert(r), ~EmailTaken(req[r].arg) PROVE Locks'
  <2> DEFINE u == req[r].user
             e == NewRow(req[r].arg, r)
  <2>1. u \in Users /\ row[u] = Null /\ row' = [row EXCEPT ![u] = e]
        /\ UNCHANGED <<overtaken, lockout>>
    BY <1>5 DEF RegisterInsert, At, AccountInv, Ready
  <2>2. e.failed = 0 /\ e.locked = 0
    BY DEF NewRow
  <2> HIDE DEF e
  <2>3. \A v \in Users : row'[v] = IF v = u THEN e ELSE row[v]
    BY <2>1 DEF AccountInv, AccountTypes
  <2>4. lockout[u] = Unlocked /\ 0 < MaxFails
    BY <2>1, NumbersAssumption DEF Locks
  <2> QED
    BY <2>1, <2>2, <2>3, <2>4 DEF Locks, Unlocked
<1>6. CASE Cleans
  BY <1>6, RowsAssumption DEF Cleans, Locks
<1>7. CASE Tick
  BY <1>7 DEF Tick, Locks
<1>8. QED
  BY <1>1, <1>2, <1>3, <1>4, <1>5, <1>6, <1>7 DEF AccountStep

LEMMA LocksHold ==
  ASSUME AccountInv, Locks
  PROVE  LockoutHolds
<1> SUFFICES ASSUME NEW u \in Users, u \notin overtaken
             PROVE  /\ lockout[u].fails < MaxFails
                    /\ lockout[u].till > now => row[u].locked = lockout[u].till
  BY DEF LockoutHolds
<1>1. CASE row[u] = Null
  BY <1>1, NumbersAssumption DEF Locks, Unlocked, AccountInv, AccountTypes
<1>2. CASE row[u] # Null
  BY <1>2 DEF Locks
<1>3. QED
  BY <1>1, <1>2

\* Who is anonymised now.
IdleStep ==
  \A u \in Registered \ overtaken' :
    row'[u].anon # row[u].anon => row'[u].anon /\ row[u].seen + IdleTime < now

LEMMA IdleKept ==
  ASSUME AccountInv, AccountStep
  PROVE  IdleStep
<1> USE DEF Registered
<1>1. CASE UNCHANGED row
  BY <1>1 DEF IdleStep
<1>2. ASSUME NEW r \in Requests, Saves(r) PROVE IdleStep
  <2>1. PICK e \in Rows :
          /\ req[r].user \in Users /\ row' = [row EXCEPT ![req[r].user] = e]
          /\ overtaken' = IF row[req[r].user] # req[r].copy THEN overtaken \cup {req[r].user}
                                                          ELSE overtaken
          /\ e.anon = req[r].copy.anon
    BY <1>2 DEF Saves
  <2>2. \A v \in Users : row'[v] = IF v = req[r].user THEN e ELSE row[v]
    BY <2>1 DEF AccountInv, AccountTypes
  <2> QED
    BY <2>1, <2>2 DEF IdleStep
<1>3. ASSUME NEW r \in Requests, RetainSave(r) PROVE IdleStep
  <2> DEFINE found == req[r].arg
  <2>1. /\ DOMAIN found \subseteq Users
        /\ \A u \in DOMAIN found : found[u] \in Rows /\ found[u].seen + IdleTime < now
        /\ RetainWrites(found) \/ UNCHANGED <<row, overtaken>>
    BY <1>3, RetainFacts DEF FoundInactive
  <2> HIDE DEF found
  <2>2. CASE RetainWrites(found)
    <3>1. \A u \in Users : row'[u] = IF u \in DOMAIN found THEN Anonymized(found[u], u) ELSE row[u]
      BY <2>2 DEF RetainWrites
    <3>2. \A u \in DOMAIN found : u \notin overtaken' => row[u] = found[u]
      BY <2>2 DEF RetainWrites
    <3>3. \A u \in DOMAIN found : Anonymized(found[u], u).anon = TRUE
      BY <2>1, AnonymizedRow
    <3> QED
      BY <2>1, <3>1, <3>2, <3>3 DEF IdleStep
  <2> QED
    BY <1>1, <2>1, <2>2
<1>4. ASSUME NEW r \in Requests, RegisterInsert(r), ~EmailTaken(req[r].arg) PROVE IdleStep
  <2>1. req[r].user \in Users /\ row[req[r].user] = Null
        /\ row' = [row EXCEPT ![req[r].user] = NewRow(req[r].arg, r)]
    BY <1>4 DEF RegisterInsert, At, AccountInv, Ready
  <2>2. \A v \in Users : v # req[r].user => row'[v] = row[v]
    BY <2>1 DEF AccountInv, AccountTypes
  <2> QED
    BY <2>1, <2>2 DEF IdleStep
<1>5. CASE Cleans
  BY <1>5 DEF Cleans, IdleStep
<1>6. CASE Tick \/ (\E r \in Requests : Steps(r)) \/ UNCHANGED accountVars
  BY <1>1, <1>6 DEF Tick, Steps, accountVars
<1>7. QED
  BY <1>2, <1>3, <1>4, <1>5, <1>6 DEF AccountStep

(***************************************************************************)
(* The tokens.  Only the handler that takes a step changes its own state   *)
(* and its own token (Frame), tokens never change, and Flow says what a    *)
(* handler knows about tokens where it stands.                             *)
(***************************************************************************)

BlackRows == [kind : {"access", "refresh"}, tok : Requests, till : Nat]
Works == [tok : Mail, match : Mail, salt : Nat, list : SUBSET Requests]

TokenTypes ==
  /\ active \in SUBSET Requests
  /\ token \in [Requests -> Tokens \cup {Null}]
  /\ black \in SUBSET BlackRows
  /\ salt \in Nat /\ saltSaved \in Nat
  /\ saltCache \in [v : Nat, till : Nat]
  /\ work \in [Requests -> Works]
  /\ ended \in SUBSET Requests /\ out \in SUBSET Requests

\* What the statement a handler has come to says about tokens.
Flow(r) ==
  /\ work[r].match # Null =>
       /\ req[r].pc \in {"user", "rotate", "blacklist", "salt", "insertToken", "list", "evict", "done"}
       /\ token[work[r].match] # Null
       /\ token[work[r].match].user = req[r].user
  /\ token[r] # Null => /\ req[r].pc \in {"list", "evict", "done"}
                        /\ token[r].user = req[r].user /\ token[r].at <= now
  /\ r \in active => token[r] # Null
  /\ req[r].pc \in {"find", "user", "rotate", "blacklist", "logout"} =>
       work[r].tok \in Requests /\ token[work[r].tok] # Null

TokenInv == TokenTypes /\ Rooted /\ \A r \in Requests : Flow(r)

\* Nothing but the state of r changes.
Frame(r) ==
  /\ \A s \in Requests \ {r} : /\ req'[s] = req[s] /\ work'[s] = work[s]
                               /\ token'[s] = token[s] /\ (s \in active' => s \in active)
  /\ token[r] # Null => token'[r] = token[r]
  /\ req[r].pc # "new" => req'[r].user = req[r].user
  /\ now' = now

LEMMA OneMoves ==
  ASSUME AccountInv, Rooted, NEW r \in Requests, Account(r) \/ Session(r)
  PROVE  /\ \A s \in Requests \ {r} : req'[s] = req[s]
         /\ req[r].pc # "new" => req'[r].user = req[r].user
         /\ now' = now
<1>1. \/ Steps(r) \/ Saves(r) \/ RetainSave(r)
      \/ RegisterInsert(r) /\ ~EmailTaken(req[r].arg)
  BY AccountClasses, SessionSteps
<1>2. req \in [Requests -> Handlers]
  BY DEF AccountInv, AccountTypes
<1>3. CASE Steps(r)
  BY <1>2, <1>3 DEF Steps
<1>4. CASE Saves(r)
  BY <1>2, <1>4 DEF Saves, Handlers
<1>5. CASE RetainSave(r)
  BY <1>2, <1>5 DEF RetainSave, Goto, Handlers
<1>6. CASE RegisterInsert(r) /\ ~EmailTaken(req[r].arg)
  BY <1>2, <1>6 DEF RegisterInsert, Handlers
<1>7. QED
  BY <1>1, <1>3, <1>4, <1>5, <1>6

LEMMA Frames ==
  ASSUME AccountInv, TokenInv, NEW r \in Requests,
         Session(r) \/ (Account(r) /\ UNCHANGED <<tokenVars, work, history>>)
  PROVE  Frame(r)
<1>1. /\ \A s \in Requests \ {r} : req'[s] = req[s]
      /\ req[r].pc # "new" => req'[r].user = req[r].user
      /\ now' = now
  BY OneMoves DEF TokenInv
<1>2. ASSUME work' = work, token' = token, active' \subseteq active PROVE Frame(r)
  BY <1>1, <1>2 DEF Frame
<1>3. ASSUME NEW w, work' = [work EXCEPT ![r] = w], token' = token, active' \subseteq active
      PROVE  Frame(r)
  BY <1>1, <1>3 DEF Frame, TokenInv, TokenTypes
<1>4. CASE UNCHANGED <<tokenVars, work>>
  BY <1>2, <1>4 DEF tokenVars
<1>5. CASE \/ Evict(r) \/ RevokeFamily(r) \/ RotateRevoke(r) \/ RotateBlacklist(r)
           \/ LogoutRefresh(r) \/ LogoutAll(r) \/ ResetRevoke(r) \/ EmailCommit(r)
           \/ RevokeAllSave(r) \/ RevokeAllDrop(r) \/ RevokeAllUpdate(r)
           \/ AccessCached(r) \/ AccessFill(r) \/ RefreshUser(r)
  BY <1>2, <1>5 DEF RefreshUser, Also, Evict, RevokeFamily, RotateRevoke, RotateBlacklist, LogoutRefresh,
     LogoutAll, ResetRevoke, EmailCommit, RevokeAllSave, RevokeAllDrop, RevokeAllUpdate,
     AccessCached, AccessFill, BlacklistToken, RevokeUsers, tokenVars
<1>6. CASE ReadSalt(r) \/ ListSessions(r)
  BY <1>1, <1>6 DEF ReadSalt, ListSessions, Also, tokenVars, Frame, TokenInv, TokenTypes
<1>7. CASE RefreshCheck(r) \/ RevokeAllRead(r) \/ AccessRead(r)
  BY <1>3, <1>7 DEF RefreshCheck, RevokeAllRead, AccessRead, Begin, Also, tokenVars
<1>8. CASE RefreshFind(r)
  BY <1>1, <1>8 DEF RefreshFind, Also, tokenVars, Frame, TokenInv, TokenTypes
<1>9. CASE Logout(r)
  BY <1>3, <1>9 DEF Logout
<1>10. CASE InsertToken(r)
  <2>1. token[r] = Null
    BY <1>10 DEF InsertToken, TokenInv, Flow
  <2> QED
    BY <1>1, <1>10, <2>1 DEF InsertToken, Frame, TokenInv, TokenTypes
<1>11. QED
  BY <1>4, <1>5, <1>6, <1>7, <1>8, <1>9, <1>10 DEF Session, tokenVars

LEMMA Grown ==
  ASSUME NEW r \in Requests, Frame(r)
  PROVE  \A t \in Requests : token[t] # Null => token'[t] = token[t]
BY DEF Frame

LEMMA FlowOthers ==
  ASSUME AccountInv, TokenInv, NEW r \in Requests, Frame(r), NEW s \in Requests, s # r
  PROVE  Flow(s)'
<1>1. req'[s] = req[s] /\ work'[s] = work[s] /\ token'[s] = token[s] /\ now' = now
      /\ (s \in active' => s \in active)
  BY DEF Frame
<1>2. work[s] \in Works /\ Flow(s)
  BY DEF TokenInv, TokenTypes
<1>3. \A t \in Mail : (t # Null /\ token[t] # Null) => token'[t] = token[t]
  BY Grown DEF Mail
<1>4. work[s].match \in Mail /\ (work[s].tok \in Requests => work[s].tok \in Mail /\ work[s].tok # Null)
  BY <1>2, NullAssumption DEF Works, Mail
<1>5. QED
  BY <1>1, <1>2, <1>3, <1>4 DEF Flow

\* A handler that only changes its place.
LEMMA FlowMoves ==
  ASSUME AccountInv, TokenInv, NEW r \in Requests, Frame(r),
         work'[r] = work[r], token'[r] = token[r], r \in active' => r \in active,
         req[r].pc \notin {"new", "done", "list", "evict"},
         req'[r].pc \in {"user", "rotate", "blacklist", "salt", "insertToken", "done"}
                       \/ work[r].match = Null,
         req'[r].pc \in {"find", "user", "rotate", "blacklist", "logout"} =>
           work[r].tok \in Requests /\ token[work[r].tok] # Null
  PROVE  Flow(r)'
<1>1. work[r] \in Works /\ Flow(r) /\ req'[r].user = req[r].user /\ now' = now
  BY DEF TokenInv, TokenTypes, Frame
<1>2. \A t \in Mail : (t # Null /\ token[t] # Null) => token'[t] = token[t]
  BY Grown DEF Mail
<1>3. work[r].match \in Mail /\ (work[r].tok \in Requests => work[r].tok \in Mail /\ work[r].tok # Null)
  BY <1>1, NullAssumption DEF Works, Mail
<1>4. token[r] = Null
  BY <1>1 DEF Flow
<1>5. QED
  BY <1>1, <1>2, <1>3, <1>4 DEF Flow

\* A request that starts.
LEMMA FlowStarts ==
  ASSUME AccountInv, TokenInv, NEW r \in Requests, Frame(r), req[r].pc = "new",
         work'[r].match = Null, token'[r] = token[r], r \in active' => r \in active,
         req'[r].pc \in {"find", "user", "rotate", "blacklist", "logout"} =>
           work'[r].tok \in Requests /\ token'[work'[r].tok] # Null
  PROVE  Flow(r)'
<1>1. token[r] = Null /\ r \notin active
  BY DEF TokenInv, Flow
<1>2. QED
  BY <1>1 DEF Flow

LEMMA TokenMade ==
  ASSUME AccountInv, TokenInv, NEW r \in Requests, req[r].pc = "insertToken"
  PROVE  /\ req[r].user \in Users /\ row[req[r].user] \in Rows
         /\ [user |-> req[r].user, ver |-> req[r].copy.ver, salt |-> work[r].salt, at |-> now]
              \in Tokens
<1>1. /\ req[r] \in Handlers /\ Ready(req[r]) /\ now \in Nat /\ work[r] \in Works
  BY DEF AccountInv, AccountTypes, TokenInv, TokenTypes
<1>2. req[r].user \in Users /\ req[r].copy \in Rows /\ row[req[r].user] \in Rows
  BY <1>1 DEF Ready, Handlers
<1>3. req[r].copy.ver \in Nat
  BY <1>2, Zenon DEF Rows
<1>4. work[r].salt \in Nat
  BY <1>1, Zenon DEF Works
<1>5. QED
  BY <1>1, <1>2, <1>3, <1>4, Zenon DEF Tokens

LEMMA SessionTypes ==
  ASSUME AccountInv, TokenInv, NEW r \in Requests, Session(r)
  PROVE  TokenTypes'
<1> USE DEF TokenTypes, At
<1>a. now \in Nat /\ TokenTypes /\ NoCache \in [v : Nat, till : Nat] /\ NoWork \in Works
      /\ req[r] \in Handlers /\ Ready(req[r]) /\ Flow(r)
  BY DEF AccountInv, AccountTypes, TokenInv, NoCache, NoWork, Works, Mail
<1>b. RefreshTime \in Nat /\ CacheTime \in Nat
  BY TimesAssumption
<1>c. r \in Mail /\ \A t \in Requests : t \in Mail
  BY DEF Mail
<1>d. \A kind \in {"access", "refresh"}, t \in Requests : BlackRow(kind, t) \in BlackRows
  BY <1>a, <1>b DEF BlackRow, BlackRows
<1>e. \A u \in Users : Of(u) \subseteq Requests
  BY DEF Of
<1>f. \A w \in Works :
        /\ \A t \in Mail : [w EXCEPT !.tok = t] \in Works /\ [w EXCEPT !.match = t] \in Works
        /\ \A n \in Nat : [w EXCEPT !.salt = n] \in Works
        /\ \A l \in SUBSET Requests : [w EXCEPT !.list = l] \in Works
        /\ \A t \in Mail, n \in Nat : [w EXCEPT !.tok = t, !.salt = n] \in Works
  BY Zenon DEF Works
<1>g. ASSUME NEW w \in Works, work' = [work EXCEPT ![r] = w],
             UNCHANGED <<tokenVars, history>>
      PROVE  TokenTypes'
  BY <1>a, <1>g DEF tokenVars, history
<1>h. work[r] \in Works /\ \A w \in Works : w.salt \in Nat
  BY <1>a, Zenon DEF Works
<1>1. CASE ReadSalt(r)
  <2> DEFINE w == [work[r] EXCEPT !.salt = salt]
  <2>1. work' = [work EXCEPT ![r] = w] /\ UNCHANGED <<tokenVars, history>>
    BY <1>1 DEF ReadSalt, Also
  <2>2. w \in Works
    BY <1>a, <1>f, <1>h
  <2> HIDE DEF w
  <2> QED
    BY <1>g, <2>1, <2>2
<1>2. CASE InsertToken(r)
  <2>1. [user |-> req[r].user, ver |-> req[r].copy.ver, salt |-> work[r].salt, at |-> now] \in Tokens
    BY <1>2, TokenMade DEF InsertToken
  <2> DEFINE tok == [user |-> req[r].user, ver |-> req[r].copy.ver, salt |-> work[r].salt, at |-> now]
  <2>3. /\ token' = [token EXCEPT ![r] = tok] /\ active' = active \cup {r}
        /\ UNCHANGED <<black, salt, saltCache, work, history>>
    BY <1>2 DEF InsertToken
  <2> HIDE DEF tok
  <2> QED
    BY <1>a, <2>1, <2>3 DEF history, tok
<1>3. CASE ListSessions(r)
  <2> DEFINE w == [work[r] EXCEPT !.list = active \cap Of(req[r].user)]
  <2>1. work' = [work EXCEPT ![r] = w] /\ UNCHANGED <<tokenVars, history>>
    BY <1>3 DEF ListSessions, Also
  <2>2. w \in Works
    BY <1>a, <1>f, <1>h
  <2> HIDE DEF w
  <2> QED
    BY <1>g, <2>1, <2>2
<1>4. CASE Evict(r) \/ RevokeFamily(r) \/ RotateRevoke(r)
  <2>1. active' \subseteq active /\ UNCHANGED <<token, black, salt, saltCache, work, history>>
    BY <1>4 DEF Evict, RevokeFamily, RotateRevoke
  <2> QED
    BY <1>a, <2>1 DEF history
<1>5. CASE RefreshCheck(r) \/ RevokeAllRead(r) \/ AccessRead(r)
  <2> DEFINE Fits(w) ==
        \E t \in Requests, n \in Nat : \/ w = [NoWork EXCEPT !.tok = t]
                                      \/ w = [NoWork EXCEPT !.salt = n]
                                      \/ w = [NoWork EXCEPT !.tok = t, !.salt = n]
  <2>1. PICK w : Fits(w) /\ work' = [work EXCEPT ![r] = w] /\ UNCHANGED <<tokenVars, history>>
    <3>1. CASE RefreshCheck(r)
      BY <3>1 DEF RefreshCheck, Begin, Also
    <3>2. CASE RevokeAllRead(r)
      BY <1>a, <3>2 DEF RevokeAllRead, Begin, Also
    <3>3. CASE AccessRead(r)
      BY <1>a, <3>3 DEF AccessRead, Begin, Also
    <3> QED
      BY <1>5, <3>1, <3>2, <3>3
  <2>2. w \in Works
    <3>1. PICK t \in Requests, n \in Nat : \/ w = [NoWork EXCEPT !.tok = t]
                                         \/ w = [NoWork EXCEPT !.salt = n]
                                         \/ w = [NoWork EXCEPT !.tok = t, !.salt = n]
      BY <2>1
    <3>2. t \in Mail /\ NoWork \in Works
      BY <1>a, <1>c
    <3> QED
      BY <1>f, <3>1, <3>2, Zenon
  <2> QED
    BY <1>g, <2>1, <2>2
<1>6. CASE RefreshFind(r)
  <2>1. CASE Also(work)
    BY <1>a, <2>1 DEF Also, tokenVars, history
  <2>2. ASSUME NEW m \in Matching(r), Also([work EXCEPT ![r].match = m]) PROVE TokenTypes'
    <3> DEFINE w == [work[r] EXCEPT !.match = m]
    <3>1. work' = [work EXCEPT ![r] = w] /\ UNCHANGED <<tokenVars, history>>
      BY <2>2 DEF Also
    <3>2. w \in Works
      BY <1>a, <1>c, <1>f, <1>h DEF Matching
    <3> HIDE DEF w
    <3> QED
      BY <1>g, <3>1, <3>2
  <2> QED
    BY <1>6, <2>1, <2>2 DEF RefreshFind
<1>7. CASE RotateBlacklist(r) \/ LogoutRefresh(r)
  <2>1. work[r].tok \in Requests
    BY <1>7, <1>a DEF RotateBlacklist, LogoutRefresh, Flow
  <2>2. BlacklistToken("refresh", work[r].tok)
    BY <1>7 DEF RotateBlacklist, LogoutRefresh
  <2>3. black' \subseteq BlackRows /\ out' \in SUBSET Requests
        /\ UNCHANGED <<active, token, salt, saltCache, work, ended, saltSaved>>
    BY <1>a, <1>d, <2>1, <2>2 DEF BlacklistToken
  <2> QED
    BY <1>a, <2>3
<1>8. CASE Logout(r)
  <2>1. PICK a \in Requests, t \in Requests :
          /\ black' = black \cup {BlackRow("access", a)}
          /\ work' = [work EXCEPT ![r] = [NoWork EXCEPT !.tok = t]]
          /\ UNCHANGED <<active, token, salt, saltCache, history>>
    BY <1>8 DEF Logout, Of
  <2> DEFINE w == [NoWork EXCEPT !.tok = t]
  <2>2. w \in Works /\ black' \subseteq BlackRows
    BY <1>a, <1>c, <1>d, <1>f, <2>1
  <2>3. work' = [work EXCEPT ![r] = w]
    BY <2>1
  <2> HIDE DEF w
  <2> QED
    BY <1>a, <2>1, <2>2, <2>3 DEF history
<1>9. CASE LogoutAll(r) \/ ResetRevoke(r)
  <2>1. PICK U \in SUBSET (Users \cup {Null}) : RevokeUsers(U)
                              /\ UNCHANGED <<token, black, salt, saltCache, work, out, saltSaved>>
    <3>1. CASE LogoutAll(r)
      BY <3>1 DEF LogoutAll, Presentable, Held, TokenInv, Rooted, Tokens
    <3>2. CASE ResetRevoke(r)
      BY <3>2, <1>a DEF ResetRevoke, Handlers
    <3> QED
      BY <1>9, <3>1, <3>2
  <2>2. \A u : Of(u) \subseteq Requests
    BY DEF Of
  <2>3. UNION {Of(u) : u \in U} \subseteq Requests
    BY <2>2
  <2> QED
    BY <1>a, <2>1, <2>3 DEF RevokeUsers
<1>10. CASE EmailCommit(r)
  <2>1. UNION {Of(u) : u \in {req[r].user}} \subseteq Requests
    BY DEF Of
  <2>2. /\ UNCHANGED <<token, black, salt, saltCache, work, out, saltSaved>>
        /\ UNCHANGED <<active, ended>> \/ RevokeUsers({req[r].user})
    BY <1>10 DEF EmailCommit
  <2>3. active' \in SUBSET Requests /\ ended' \in SUBSET Requests
    BY <1>a, <2>1, <2>2 DEF RevokeUsers
  <2> QED
    BY <1>a, <2>2, <2>3
<1>11. CASE RevokeAllSave(r) \/ RevokeAllDrop(r)
  BY <1>11, <1>a, <1>h DEF RevokeAllSave, RevokeAllDrop, history
<1>12. CASE AccessCached(r) \/ AccessFill(r)
  BY <1>12, <1>a, <1>b DEF AccessCached, AccessFill, tokenVars, Works
<1>13. CASE RefreshUser(r) \/ RevokeAllUpdate(r)
  BY <1>13, <1>a DEF RefreshUser, RevokeAllUpdate, Also, tokenVars, history
<1>14. QED
  BY <1>1, <1>2, <1>3, <1>4, <1>5, <1>6, <1>7, <1>8, <1>9, <1>10, <1>11, <1>12, <1>13 DEF Session

\* Where the handlers of the accounts come from and get to.
LEMMA AccountPlaces ==
  ASSUME AccountInv, NEW r \in Requests, Account(r)
  PROVE  /\ req[r].pc \in {"new", "insert", "pass", "fail", "save"}
         /\ req'[r].pc \in {"done", "insert", "pass", "fail", "save", "salt", "revoke"}
<1>a. req \in [Requests -> Handlers] /\ req[r] \in Handlers
  BY DEF AccountInv, AccountTypes
<1>b. ASSUME NEW pc, Goto(r, pc) PROVE req'[r].pc = pc
  BY <1>a, <1>b DEF Goto, Handlers
<1>c. ASSUME NEW op, NEW pc, NEW u, NEW arg, Start(r, op, pc, u, arg)
      PROVE  req[r].pc = "new" /\ req'[r].pc = pc
  BY <1>a, <1>c DEF Start
<1> HIDE DEF Goto, Start
<1>1. CASE RegisterCheck(r) \/ LoginRead(r) \/ UpdateRead(r) \/ AskResetRead(r) \/ ResetRead(r)
  BY <1>1, <1>c DEF RegisterCheck, LoginRead, UpdateRead, AskResetRead, ResetRead
<1>2. CASE AskUnlockRead(r) \/ UnlockRead(r) \/ VerifyRead(r) \/ AskEmailRead(r) \/ EmailRead(r)
           \/ RetainRead(r)
  BY <1>2, <1>c DEF AskUnlockRead, UnlockRead, VerifyRead, AskEmailRead, EmailRead, RetainRead
<1>3. CASE \/ LoginFail(r) \/ LoginPass(r) \/ UpdateRefused(r) \/ UpdateSave(r)
           \/ AskResetSave(r) \/ ResetSave(r)
  BY <1>3, <1>b DEF LoginFail, LoginPass, UpdateRefused, UpdateSave, AskResetSave, ResetSave, At
<1>4. CASE AskUnlockSave(r) \/ UnlockSave(r) \/ VerifySave(r) \/ AskEmailSave(r) \/ RetainSave(r)
  BY <1>4, <1>b DEF AskUnlockSave, UnlockSave, VerifySave, AskEmailSave, RetainSave, At
<1>5. CASE RegisterInsert(r)
  <2>1. req[r].pc = "insert" /\ (req'[r].pc = "done" \/ req'[r].pc = "salt")
    BY <1>5, <1>a, <1>b DEF RegisterInsert, At, Handlers
  <2> QED
    BY <2>1
<1>6. QED
  BY <1>1, <1>2, <1>3, <1>4, <1>5 DEF Account

LEMMA AccountFlow ==
  ASSUME AccountInv, TokenInv, NEW r \in Requests, Account(r),
         UNCHANGED <<tokenVars, work, history>>
  PROVE  Flow(r)'
<1>1. Frame(r) /\ work'[r] = work[r] /\ token'[r] = token[r] /\ active' = active
  BY Frames DEF tokenVars
<1>2. /\ req[r].pc \in {"new", "insert", "pass", "fail", "save"}
      /\ req'[r].pc \in {"done", "insert", "pass", "fail", "save", "salt", "revoke"}
  BY AccountPlaces
<1>3. work[r].match = Null
  BY <1>2 DEF TokenInv, Flow
<1>4. QED
  BY <1>1, <1>2, <1>3, FlowStarts, FlowMoves

LEMMA SessionFlow ==
  ASSUME AccountInv, TokenInv, NEW r \in Requests, Session(r)
  PROVE  Flow(r)'
<1>a. Frame(r) /\ Flow(r) /\ NoWork.match = Null
  BY Frames DEF TokenInv, NoWork
<1>b. /\ req \in [Requests -> Handlers] /\ req[r] \in Handlers
      /\ work \in [Requests -> Works] /\ work[r] \in Works
      /\ token \in [Requests -> Tokens \cup {Null}]
  BY DEF AccountInv, AccountTypes, TokenInv, TokenTypes
<1>c. ASSUME NEW pc, Goto(r, pc) PROVE req'[r].pc = pc
  BY <1>b, <1>c DEF Goto, Handlers
<1>d. ASSUME NEW op, NEW pc, NEW u, NEW arg, Start(r, op, pc, u, arg)
      PROVE  req[r].pc = "new" /\ req'[r].pc = pc
  BY <1>b, <1>d DEF Start
<1> HIDE DEF Goto, Start
<1>1. CASE \/ RevokeFamily(r) \/ RotateRevoke(r) \/ RotateBlacklist(r) \/ LogoutRefresh(r)
           \/ ResetRevoke(r) \/ RevokeAllSave(r) \/ RevokeAllDrop(r) \/ RevokeAllUpdate(r)
           \/ AccessFill(r) \/ EmailCommit(r)
  <2>1. /\ work' = work /\ token' = token /\ active' \subseteq active
        /\ req[r].pc \in {"family", "rotate", "blacklist", "logout", "revoke", "saveSalt",
                         "dropCache", "update", "fill", "save"}
        /\ \/ req'[r].pc \in {"done", "salt"}
           \/ req'[r].pc = "blacklist" /\ req[r].pc = "rotate"
           \/ req'[r].pc \in {"update", "dropCache"} /\ req[r].pc \in {"dropCache", "saveSalt"}
    <3>1. CASE RevokeFamily(r) \/ RotateRevoke(r)
      BY <3>1, <1>c DEF RevokeFamily, RotateRevoke, At
    <3>2. CASE RotateBlacklist(r) \/ LogoutRefresh(r)
      BY <3>2, <1>c DEF RotateBlacklist, LogoutRefresh, BlacklistToken, At
    <3>3. CASE ResetRevoke(r) \/ RevokeAllUpdate(r)
      BY <3>3, <1>c DEF ResetRevoke, RevokeAllUpdate, RevokeUsers, tokenVars, At
    <3>4. CASE RevokeAllSave(r) \/ RevokeAllDrop(r) \/ AccessFill(r)
      BY <3>4, <1>c DEF RevokeAllSave, RevokeAllDrop, AccessFill, At
    <3>5. CASE EmailCommit(r)
      BY <3>5, <1>c DEF EmailCommit, EmailSave, RevokeUsers, At
    <3> QED
      BY <1>1, <3>1, <3>2, <3>3, <3>4, <3>5
  <2>2. work[r].match = Null \/ req'[r].pc \in {"done", "salt", "blacklist"}
    BY <1>a, <2>1 DEF Flow
  <2>3. req[r].pc = "rotate" => work[r].tok \in Requests /\ token[work[r].tok] # Null
    BY <1>a DEF Flow
  <2> QED
    BY <1>a, <2>1, <2>2, <2>3, FlowMoves
<1>2. CASE RefreshCheck(r) \/ RevokeAllRead(r) \/ AccessRead(r)
  <2>1. /\ req[r].pc = "new" /\ token' = token /\ active' = active /\ work'[r].match = Null
        /\ req'[r].pc \in {"saveSalt", "fill", "family", "find"}
        /\ req'[r].pc = "find" => work'[r].tok \in Requests /\ token'[work'[r].tok] # Null
    <3>1. CASE RefreshCheck(r)
      <4>1. PICK t \in Requests :
              /\ token[t] # Null
              /\ Start(r, "refresh", IF Blacklisted("refresh", t) THEN "family" ELSE "find",
                       token[t].user, Null)
              /\ work' = [work EXCEPT ![r] = [NoWork EXCEPT !.tok = t]]
              /\ UNCHANGED tokenVars
        BY <3>1 DEF RefreshCheck, Held, Begin, Also
      <4>2. work'[r] = [NoWork EXCEPT !.tok = t]
        BY <1>b, <4>1
      <4>3. work'[r].tok = t /\ work'[r].match = Null
        BY <4>2 DEF NoWork
      <4>4. req[r].pc = "new" /\ req'[r].pc \in {"family", "find"}
        BY <4>1, <1>d
      <4> QED
        BY <4>1, <4>3, <4>4 DEF tokenVars
    <3>2. CASE RevokeAllRead(r)
      BY <1>b, <1>d, <3>2 DEF RevokeAllRead, Begin, Also, tokenVars, NoWork
    <3>3. CASE AccessRead(r)
      BY <1>b, <1>d, <3>3 DEF AccessRead, Begin, Also, tokenVars, NoWork
    <3> QED
      BY <1>2, <3>1, <3>2, <3>3
  <2> QED
    BY <1>a, <2>1, FlowStarts
<1>3. CASE LogoutAll(r) \/ AccessCached(r)
  <2>1. /\ req[r].pc = "new" /\ req'[r].pc = "done" /\ work' = work /\ token' = token
        /\ active' \subseteq active
    BY <1>3, <1>d DEF LogoutAll, AccessCached, RevokeUsers, tokenVars
  <2>2. work[r].match = Null
    BY <1>a, <2>1 DEF Flow
  <2> QED
    BY <1>a, <2>1, <2>2, FlowStarts
<1>4. CASE Logout(r)
  <2>1. PICK t \in Requests :
          /\ token[t] # Null /\ req[r].pc = "new" /\ req'[r].pc = "logout"
          /\ work' = [work EXCEPT ![r] = [NoWork EXCEPT !.tok = t]]
          /\ UNCHANGED <<active, token>>
    BY <1>4, <1>d DEF Logout, Held, Of
  <2>2. work'[r] = [NoWork EXCEPT !.tok = t]
    BY <1>b, <2>1
  <2>3. work'[r].tok = t /\ work'[r].match = Null
    BY <2>2 DEF NoWork
  <2> QED
    BY <1>a, <2>1, <2>3, FlowStarts
<1>5. CASE ReadSalt(r)
  <2>1. /\ req[r].pc = "salt" /\ req'[r].pc = "insertToken" /\ UNCHANGED <<token, active, now>>
        /\ work'[r] = [work[r] EXCEPT !.salt = salt]
    BY <1>5, <1>a, <1>b, <1>c DEF ReadSalt, Also, tokenVars, Keep
  <2>2. work'[r].match = work[r].match
    BY <1>b, <2>1, Zenon DEF Works
  <2>3. req'[r].user = req[r].user
    BY <1>a, <2>1 DEF Frame
  <2> QED
    BY <1>a, <2>1, <2>2, <2>3 DEF Flow
<1>6. CASE ListSessions(r)
  <2>1. /\ req[r].pc = "list" /\ req'[r].pc = "evict" /\ UNCHANGED <<token, active, now>>
        /\ work'[r] = [work[r] EXCEPT !.list = active \cap Of(req[r].user)]
    BY <1>6, <1>a, <1>b, <1>c DEF ListSessions, Also, tokenVars, Keep
  <2>2. work'[r].match = work[r].match
    BY <1>b, <2>1, Zenon DEF Works
  <2>3. req'[r].user = req[r].user
    BY <1>a, <2>1 DEF Frame
  <2> QED
    BY <1>a, <2>1, <2>2, <2>3 DEF Flow
<1>7. CASE Evict(r)
  <2>1. /\ req[r].pc = "evict" /\ req'[r].pc = "done" /\ UNCHANGED <<token, work, now>>
        /\ active' \subseteq active
    BY <1>7, <1>c DEF Evict, Keep
  <2>2. req'[r].user = req[r].user
    BY <1>a, <2>1 DEF Frame
  <2> QED
    BY <1>a, <2>1, <2>2 DEF Flow
<1>8. CASE InsertToken(r)
  <2>1. req[r].pc = "insertToken" /\ req'[r].pc = "list" /\ req'[r].user = req[r].user
        /\ UNCHANGED <<work, now>> /\ now \in Nat
    BY <1>8, <1>a, <1>c DEF InsertToken, Keep, Frame, AccountInv, AccountTypes
  <2>2. token'[r] = [user |-> req[r].user, ver |-> req[r].copy.ver, salt |-> work[r].salt, at |-> now]
    BY <1>8, <1>b DEF InsertToken
  <2>3. token'[r] # Null
    <3>1. [user |-> req[r].user, ver |-> req[r].copy.ver, salt |-> work[r].salt, at |-> now] \in Tokens
      BY <2>1, TokenMade
    <3> QED
      BY <2>2, <3>1, TokensAssumption
  <2>4. work[r].match # Null => token'[work[r].match] = token[work[r].match]
    BY <1>a, <1>b, Grown DEF Flow, Works, Mail
  <2> QED
    BY <1>a, <2>1, <2>2, <2>3, <2>4 DEF Flow
<1>9. CASE RefreshFind(r)
  <2>1. CASE Goto(r, "family") /\ Also(work)
    BY <1>9, <1>a, <1>c, <2>1, FlowMoves DEF RefreshFind, Also, tokenVars, At, Flow
  <2>2. ASSUME NEW m \in Matching(r), Also([work EXCEPT ![r].match = m]),
               Goto(r, "user")
        PROVE  Flow(r)'
    <3>1. /\ req[r].pc = "find" /\ req'[r].pc = "user" /\ UNCHANGED <<token, active, now>>
          /\ work'[r] = [work[r] EXCEPT !.match = m]
      BY <1>9, <1>a, <1>b, <1>c, <2>2 DEF RefreshFind, At, Also, tokenVars, Frame
    <3>2. work'[r].match = m /\ work'[r].tok = work[r].tok
      BY <1>b, <3>1, Zenon DEF Works
    <3>3. token[m] # Null /\ token[m].user = req[r].user /\ req'[r].user = req[r].user
      BY <1>a, <2>2, <3>1 DEF Matching, Of, Frame
    <3> QED
      BY <1>a, <3>1, <3>2, <3>3 DEF Flow
  <2> QED
    BY <1>9, <2>1, <2>2 DEF RefreshFind
<1>10. CASE RefreshUser(r)
  <2>1. req[r].pc = "user" /\ req'[r].pc = "rotate" /\ UNCHANGED <<work, token, active>>
    BY <1>10, <1>b DEF RefreshUser, At, Also, tokenVars, Handlers
  <2>2. work[r].tok \in Requests /\ token[work[r].tok] # Null
    BY <1>a, <2>1 DEF Flow
  <2> QED
    BY <1>a, <2>1, <2>2, FlowMoves
<1>11. QED
  BY <1>1, <1>2, <1>3, <1>4, <1>5, <1>6, <1>7, <1>8, <1>9, <1>10 DEF Session

LEMMA RootedKept ==
  ASSUME AccountInv, TokenInv, RowsStay, NEW r \in Requests,
         token' = token \/ InsertToken(r)
  PROVE  Rooted'
<1>1. ASSUME NEW t \in Requests, token'[t] # Null, token'[t] = token[t]
      PROVE  token'[t] \in Tokens /\ row'[token'[t].user] \in Rows
  BY <1>1 DEF TokenInv, Rooted, RowsStay, Tokens
<1>2. CASE token' = token
  BY <1>1, <1>2 DEF Rooted
<1>3. CASE InsertToken(r)
  <2> DEFINE tok == [user |-> req[r].user, ver |-> req[r].copy.ver, salt |-> work[r].salt, at |-> now]
  <2>1. tok \in Tokens /\ row[tok.user] \in Rows /\ tok.user \in Users
    BY <1>3, TokenMade DEF InsertToken
  <2>2. token' = [token EXCEPT ![r] = tok]
    BY <1>3 DEF InsertToken
  <2> HIDE DEF tok
  <2>3. \A t \in Requests : token'[t] = IF t = r THEN tok ELSE token[t]
    BY <2>2 DEF TokenInv, TokenTypes
  <2> QED
    BY <1>1, <2>1, <2>3 DEF Rooted, RowsStay
<1>4. QED
  BY <1>2, <1>3

LEMMA TokensKeep ==
  ASSUME AccountInv, TokenInv, [Next]_vars, RowsStay, AccountInv'
  PROVE  TokenInv'
<1>1. ASSUME NEW r \in Requests,
             Session(r) \/ (Account(r) /\ UNCHANGED <<tokenVars, work, history>>)
      PROVE  TokenInv'
  <2>1. TokenTypes'
    BY <1>1, SessionTypes DEF TokenInv, TokenTypes, tokenVars, history
  <2>2. Frame(r)
    BY <1>1, Frames
  <2>3. \A s \in Requests : Flow(s)'
    BY <1>1, <2>2, FlowOthers, SessionFlow, AccountFlow
  <2>4. Rooted'
    <3>1. token' = token \/ InsertToken(r)
      BY <1>1 DEF Session, tokenVars, ReadSalt, ListSessions, Evict, RevokeFamily,
         RotateRevoke, RotateBlacklist, LogoutRefresh, LogoutAll, ResetRevoke, EmailCommit,
         RevokeAllSave, RevokeAllDrop, RevokeAllUpdate, AccessCached, AccessFill, RefreshCheck,
         RevokeAllRead, AccessRead, RefreshFind, RefreshUser, Logout, Begin, Also, BlacklistToken
    <3> QED
      BY <3>1, RootedKept
  <2> QED
    BY <2>1, <2>3, <2>4 DEF TokenInv
\* Without a handler: the clock, the crons, and steps that change nothing.
<1>2. ASSUME UNCHANGED <<req, token, work, ended, out, salt, saltSaved>>,
             now' \in Nat, now <= now', active' \subseteq active, black' \subseteq black,
             saltCache' \in {saltCache, NoCache}
      PROVE  TokenInv'
  <2>1. TokenTypes'
    BY <1>2 DEF TokenInv, TokenTypes, NoCache
  <2>2. Rooted'
    BY <1>2 DEF TokenInv, Rooted, RowsStay, Tokens
  <2>3. ASSUME NEW r \in Requests PROVE Flow(r)'
    <3>1. token[r] # Null => token[r].at \in Nat /\ token[r].at <= now
      BY DEF TokenInv, Rooted, Tokens, Flow
    <3>2. token[r] # Null => token'[r].at <= now'
      BY <1>2, <3>1 DEF AccountInv, AccountTypes
    <3> QED
      BY <1>2, <3>2 DEF TokenInv, Flow
  <2> QED
    BY <2>1, <2>2, <2>3 DEF TokenInv
<1>3. now \in Nat
  BY DEF AccountInv, AccountTypes
<1>4. CASE Hour \/ Cron
  <2>1. now' = now + 1 \/ now' = now
    BY <1>4, CronCleans DEF Hour, Tick, Cron, Cleans
  <2>2. UNCHANGED <<req, tokenVars, work, history>>
    BY <1>4, CronCleans DEF Hour, Tick, Cron, Cleans
  <2> QED
    BY <1>2, <1>3, <2>1, <2>2 DEF tokenVars, history
<1>5. CASE CleanBlacklist \/ CleanSessions \/ CacheCleared
  BY <1>2, <1>3, <1>5 DEF CleanBlacklist, CleanSessions, CacheCleared, accountVars, history
<1>6. CASE UNCHANGED vars
  BY <1>2, <1>3, <1>6 DEF vars, accountVars, tokenVars, history
<1>7. QED
  BY <1>1, <1>4, <1>5, <1>6 DEF Next

-----------------------------------------------------------------------------
(* The invariant, and the first theorems                                   *)

Inv == AccountInv /\ TokenInv

LEMMA InitInv == Init => Inv /\ Locks
<1> SUFFICES ASSUME Init PROVE Inv /\ Locks
  OBVIOUS
<1>1. PICK u \in Users, e \in Emails :
        row = [x \in Users |-> IF x = u THEN [NewRow(e, Null) EXCEPT !.verified = TRUE, !.seen = 0]
                               ELSE Null]
  BY DEF Init
<1> DEFINE first == [NewRow(e, Null) EXCEPT !.verified = TRUE, !.seen = 0]
<1>2. first \in Rows /\ first.failed = 0 /\ first.locked = 0
  <2>1. now \in Nat /\ 0 \in Nat /\ 1 \in Nat /\ Null \in Mail
    BY DEF Init, Mail
  <2>2. NewRow(e, Null) \in Rows
    BY <2>1, Zenon DEF NewRow, Rows
  <2>3. first \in Rows
    BY <2>1, <2>2, Zenon DEF Rows
  <2>4. first.failed = 0 /\ first.locked = 0
    BY Zenon DEF NewRow
  <2> QED
    BY <2>3, <2>4
<1> HIDE DEF first
<1>3. \A v \in Users : row[v] = IF v = u THEN first ELSE Null
  BY <1>1 DEF first
<1>4. row \in [Users -> Rows \cup {Null}]
  BY <1>1, <1>2 DEF first
<1>5. Fresh \in Handlers
  BY DEF Fresh, Handlers, Ops, Statements, Mail
<1>6. AccountInv
  <2>1. AccountTypes
    BY <1>4, <1>5 DEF Init, AccountTypes, Unlocked
  <2>2. \A r \in Requests : req[r] = Fresh
    BY DEF Init
  <2>3. Ready(Fresh)
    BY DEF Ready, Fresh
  <2>4. OneInsert
    BY <2>2 DEF OneInsert, Fresh
  <2> QED
    BY <2>1, <2>2, <2>3, <2>4 DEF AccountInv
<1>7. TokenInv
  <2>1. TokenTypes
    BY DEF Init, TokenTypes, NoCache, NoWork, Works, Mail
  <2>2. Rooted /\ \A r \in Requests : Flow(r)
    BY DEF Init, Rooted, Flow, Fresh, NoWork
  <2> QED
    BY <2>1, <2>2 DEF TokenInv
<1>8. Locks
  <2>1. \A v \in Users : lockout[v] = Unlocked
    BY DEF Init
  <2>2. 0 < MaxFails
    BY NumbersAssumption
  <2> QED
    BY <1>2, <1>3, <2>1, <2>2 DEF Locks, Unlocked
<1>9. QED
  BY <1>6, <1>7, <1>8 DEF Inv

LEMMA NextInv == Inv /\ [Next]_vars => Inv' /\ AccountStep
<1>1. ASSUME Inv, [Next]_vars PROVE AccountStep
  BY <1>1, Classified DEF Inv, TokenInv
<1>2. ASSUME Inv, [Next]_vars PROVE AccountInv' /\ RowsStay
  BY <1>1, <1>2, AccountsKeep DEF Inv
<1>3. ASSUME Inv, [Next]_vars PROVE Inv'
  BY <1>2, <1>3, TokensKeep DEF Inv
<1>4. QED
  BY <1>1, <1>3

LEMMA Invariance == Spec => []Inv
<1>1. Init => Inv
  BY InitInv
<1>2. Inv /\ [Next]_vars => Inv'
  BY NextInv
<1>3. QED
  BY <1>1, <1>2, PTL DEF Spec

\* Five wrong passwords in a row lock an account for the whole period, unless
\* a save has put back a row that another handler had changed (login).
THEOREM LockoutAlways == Spec => []LockoutHolds
<1>1. Init => Locks
  BY InitInv
<1>2. Inv /\ Locks /\ [Next]_vars => Locks'
  BY NextInv, LocksKept DEF Inv
<1>3. Inv /\ Locks => LockoutHolds
  BY LocksHold DEF Inv
<1>4. QED
  BY <1>1, <1>2, <1>3, Invariance, PTL DEF Spec

\* Only an account that was idle for IdleTime is anonymised, and for good,
\* under the same exception (anonymizeInactiveUsers).
THEOREM AnonymizedOnlyIdle == Spec => AnonymizedIdle
<1>1. Inv /\ [Next]_vars => IdleStep
  BY NextInv, IdleKept DEF Inv
<1>2. QED
  BY <1>1, Invariance, PTL DEF Spec, AnonymizedIdle, IdleStep

-----------------------------------------------------------------------------
(* What was logged out                                                     *)

\* A refresh token that was blacklisted is so until it has expired anyway.
Spent ==
  /\ \A t \in out : /\ token[t] # Null
                    /\ Blacklisted("refresh", t) \/ token[t].at + RefreshTime < now
  /\ \A b \in black : b.kind = "refresh" =>
        token[b.tok] # Null /\ token[b.tok].at + RefreshTime <= b.till

LEMMA SpentKept ==
  ASSUME Inv, Inv', Spent, [Next]_vars
  PROVE  Spent'
<1>a. /\ now \in Nat /\ now' \in Nat /\ out \subseteq Requests /\ black \subseteq BlackRows
      /\ RefreshTime \in Nat /\ \A b \in BlackRows : b.tok \in Requests /\ b.till \in Nat
      /\ \A t \in Requests : token[t] # Null => token[t].at \in Nat /\ token[t].at <= now
  BY TimesAssumption DEF Inv, AccountInv, AccountTypes, TokenInv, TokenTypes, Rooted, Tokens, Flow,
     BlackRows
\* Time passes, tokens are added.
<1>1. ASSUME \A t \in Requests : token[t] # Null => token'[t] = token[t],
             now <= now', out' = out,
             \A b \in black' : b \in black \/ b.kind = "access",
             \A b \in black : b \in black' \/ b.till < now
      PROVE  Spent'
  <2>1. ASSUME NEW t \in out
        PROVE  token'[t] # Null
               /\ ((\E b \in black' : b.kind = "refresh" /\ b.tok = t)
                    \/ token'[t].at + RefreshTime < now')
    <3>1. t \in Requests /\ token[t] # Null /\ token'[t] = token[t] /\ token[t].at \in Nat
      BY <1>1, <1>a, <2>1 DEF Spent
    <3>2. CASE token[t].at + RefreshTime < now
      BY <1>1, <1>a, <3>1, <3>2
    <3>3. CASE Blacklisted("refresh", t)
      <4>1. PICK b \in black : b.kind = "refresh" /\ b.tok = t
        BY <3>3 DEF Blacklisted
      <4>2. token[t].at + RefreshTime <= b.till /\ b.till \in Nat
        BY <1>a, <4>1 DEF Spent
      <4> QED
        BY <1>1, <1>a, <3>1, <4>1, <4>2
    <3> QED
      BY <2>1, <3>1, <3>2, <3>3 DEF Spent
  <2>2. ASSUME NEW b \in black', b.kind = "refresh"
        PROVE  token'[b.tok] # Null /\ token'[b.tok].at + RefreshTime <= b.till
    <3>1. b \in black /\ b.tok \in Requests
      BY <1>1, <1>a, <2>2
    <3>2. token[b.tok] # Null /\ token[b.tok].at + RefreshTime <= b.till
      BY <2>2, <3>1 DEF Spent
    <3> QED
      BY <1>1, <3>1, <3>2
  <2> QED
    BY <1>1, <2>1, <2>2 DEF Spent, Blacklisted
<1>2. ASSUME NEW r \in Requests, RotateBlacklist(r) \/ LogoutRefresh(r) PROVE Spent'
  <2> DEFINE t == work[r].tok
             b == BlackRow("refresh", t)
  <2>1. t \in Requests /\ token[t] # Null
    BY <1>2 DEF RotateBlacklist, LogoutRefresh, At, Inv, TokenInv, Flow
  <2>2. /\ black' = black \cup {b} /\ out' = out \cup {t}
        /\ token' = token /\ now' = now
    BY <1>2 DEF RotateBlacklist, LogoutRefresh, BlacklistToken, Keep
  <2>3. b.kind = "refresh" /\ b.tok = t /\ b.till = now + RefreshTime
    BY DEF BlackRow
  <2>4. token[t].at + RefreshTime <= b.till
    BY <1>a, <2>1, <2>3
  <2> HIDE DEF b, t
  <2> QED
    BY <2>1, <2>2, <2>3, <2>4 DEF Spent, Blacklisted
<1>3. ASSUME NEW r \in Requests, Logout(r) PROVE Spent'
  <2>1. Frame(r)
    BY <1>3, Frames DEF Session, Inv
  <2>2. PICK a \in Requests : black' = black \cup {BlackRow("access", a)} /\ out' = out
    BY <1>3 DEF Logout, history
  <2>3. BlackRow("access", a).kind = "access"
    BY DEF BlackRow
  <2> QED
    BY <1>1, <1>a, <2>1, <2>2, <2>3, Grown DEF Frame
<1>4. ASSUME NEW r \in Requests,
             Session(r) \/ (Account(r) /\ UNCHANGED <<tokenVars, work, history>>),
             ~RotateBlacklist(r), ~LogoutRefresh(r), ~Logout(r)
      PROVE  Spent'
  <2>1. Frame(r)
    BY <1>4, Frames DEF Inv
  <2>2. black' = black /\ out' = out
    BY <1>4 DEF Session, tokenVars, history, ReadSalt, InsertToken, ListSessions, Evict,
       RevokeFamily, RotateRevoke, LogoutAll, ResetRevoke, EmailCommit,
       RevokeAllSave, RevokeAllDrop, RevokeAllUpdate, AccessCached, AccessFill, RefreshCheck,
       RevokeAllRead, AccessRead, RefreshFind, RefreshUser, Begin, Also
  <2> QED
    BY <1>1, <1>a, <2>1, <2>2, Grown DEF Frame
<1>5. CASE Hour \/ Cron
  <2>1. now' = now + 1 \/ now' = now
    BY <1>5, CronCleans DEF Hour, Tick, Cron, Cleans, Inv
  <2>2. UNCHANGED <<tokenVars, history>>
    BY <1>5 DEF Hour, Cron
  <2> QED
    BY <1>1, <1>a, <2>1, <2>2 DEF tokenVars, history
<1>6. CASE CleanBlacklist
  <2>1. black' = {b \in black : b.till >= now} /\ UNCHANGED <<token, now, out>>
    BY <1>6 DEF CleanBlacklist, accountVars, history
  <2> QED
    BY <1>1, <1>a, <2>1
<1>7. CASE CleanSessions \/ CacheCleared \/ UNCHANGED vars
  BY <1>1, <1>a, <1>7 DEF CleanSessions, CacheCleared, accountVars, tokenVars, history, vars
<1>8. QED
  BY <1>2, <1>3, <1>4, <1>5, <1>6, <1>7 DEF Next

\* Only the check of a refresh goes on to look its record up.
LEMMA OnlyChecks ==
  ASSUME Inv, [Next]_vars, NEW r \in Requests, req[r].pc = "new", req'[r].pc = "find"
  PROVE  RefreshCheck(r)
<1>a. req \in [Requests -> Handlers] /\ req[r] \in Handlers
  BY DEF Inv, AccountInv, AccountTypes
<1>b. req'[r] # req[r]
  OBVIOUS
<1>1. ASSUME NEW s \in Requests, Account(s) \/ Session(s) PROVE s = r
  BY <1>1, <1>b, OneMoves DEF Inv, TokenInv
<1>2. ASSUME Account(r) PROVE FALSE
  BY <1>2, AccountPlaces DEF Inv
<1>3. CASE Hour \/ Cron \/ CleanBlacklist \/ CleanSessions \/ CacheCleared \/ UNCHANGED vars
  BY <1>3, <1>b, CronCleans DEF Hour, Tick, Cron, Cleans, CleanBlacklist, CleanSessions,
     CacheCleared, accountVars, vars, Inv
<1>4. CASE Session(r)
  <2>a. ASSUME NEW op, NEW pc, NEW u, NEW arg, Start(r, op, pc, u, arg) PROVE req'[r].pc = pc
    BY <1>a, <2>a DEF Start
  <2> HIDE DEF Start
  <2>1. ~(ReadSalt(r) \/ InsertToken(r) \/ ListSessions(r) \/ Evict(r) \/ RevokeFamily(r)
          \/ RefreshFind(r) \/ RefreshUser(r) \/ RotateRevoke(r) \/ RotateBlacklist(r)
          \/ LogoutRefresh(r))
    BY DEF RefreshUser, ReadSalt, InsertToken, ListSessions, Evict, RevokeFamily, RefreshFind, RotateRevoke,
           RotateBlacklist, LogoutRefresh, At
  <2>2. ~(ResetRevoke(r) \/ EmailCommit(r) \/ RevokeAllSave(r) \/ RevokeAllDrop(r)
          \/ RevokeAllUpdate(r) \/ AccessFill(r))
    BY DEF ResetRevoke, EmailCommit, EmailSave, RevokeAllSave, RevokeAllDrop, RevokeAllUpdate,
           AccessFill, At
  <2>3. ~(Logout(r) \/ LogoutAll(r) \/ RevokeAllRead(r) \/ AccessCached(r) \/ AccessRead(r))
    BY <2>a DEF Logout, LogoutAll, RevokeAllRead, AccessCached, AccessRead, Begin
  <2> QED
    BY <1>4, <2>1, <2>2, <2>3 DEF Session
<1>5. QED
  BY <1>1, <1>2, <1>3, <1>4 DEF Next

\* A refresh that starts presents a token that was never blacklisted.
OutStep ==
  \A r \in Requests : (req[r].pc = "new" /\ req'[r].pc = "find") => work'[r].tok \notin out

LEMMA OutStepKept == Inv /\ Spent /\ [Next]_vars => OutStep
<1> SUFFICES ASSUME Inv, Spent, [Next]_vars, NEW r \in Requests,
                    req[r].pc = "new", req'[r].pc = "find"
             PROVE  work'[r].tok \notin out
  BY DEF OutStep
<1>a. /\ req \in [Requests -> Handlers] /\ work \in [Requests -> Works] /\ now \in Nat
      /\ RefreshTime \in Nat
  BY TimesAssumption DEF Inv, AccountInv, AccountTypes, TokenInv, TokenTypes
<1>1. PICK t \in Requests :
        /\ Held(t) /\ now < token[t].at + RefreshTime
        /\ Start(r, "refresh", IF Blacklisted("refresh", t) THEN "family" ELSE "find",
                 token[t].user, Null)
        /\ work' = [work EXCEPT ![r] = [NoWork EXCEPT !.tok = t]]
  BY OnlyChecks DEF RefreshCheck, Begin, Also
<1>2. work'[r].tok = t
  <2>1. work'[r] = [NoWork EXCEPT !.tok = t]
    BY <1>a, <1>1
  <2> QED
    BY <2>1 DEF NoWork
<1>3. ~Blacklisted("refresh", t)
  BY <1>a, <1>1 DEF Start
<1>4. token[t].at \in Nat
  BY <1>1 DEF Held, Inv, TokenInv, Rooted, Tokens
<1>5. QED
  BY <1>a, <1>1, <1>2, <1>3, <1>4 DEF Spent

\* A refresh token that was rotated or logged out is never looked up again
\* (blacklistToken, refreshToken and the clean-up of expired rows).
THEOREM LoggedOutForGood == Spec => LoggedOutStaysOut
<1>1. Init => Spent
  BY DEF Init, Spent
<1>2. Inv /\ Inv' /\ Spent /\ [Next]_vars => Spent'
  BY SpentKept
<1>3. Inv /\ Spent /\ [Next]_vars => OutStep
  BY OutStepKept
<1>4. QED
  BY <1>1, <1>2, <1>3, Invariance, PTL DEF Spec, LoggedOutStaysOut, OutStep

(***************************************************************************)
(* What a revocation of sessions reaches, and how long a raised salt takes *)
(* to count.                                                               *)
(***************************************************************************)

\* Between the lookup of a refresh and the insert of its new token.
Late == {"user", "rotate", "blacklist", "salt", "insertToken"}

\* Ended sessions are not active, and whoever took over from one has crossed
\* the revocation.
Reached ==
  /\ active \cap ended = {}
  /\ \A t \in ended : token[t] # Null
  /\ \A t \in Requests :
       ((t \in active \/ req[t].pc \in Late) /\ work[t].match \in ended) => t \in crossed

\* A step that revokes nothing keeps this, when the handler r that takes it
\* was on its way before or takes over from a session that has not ended.
LEMMA Plain ==
  ASSUME Inv, Reached, NEW r \in Requests, Frame(r),
         ended' = ended, crossed' = crossed,
         r \in active' => r \notin ended,
         \/ work'[r].match \notin ended
         \/ /\ work'[r].match = work[r].match
            /\ (r \in active' \/ req'[r].pc \in Late) => (r \in active \/ req[r].pc \in Late)
  PROVE  Reached'
<1>1. \A t \in active' : t \notin ended
  BY DEF Reached, Frame, Inv, TokenInv, TokenTypes
<1>2. \A t \in ended : token'[t] # Null
  BY Grown DEF Reached, Inv, TokenInv, TokenTypes
<1>3. ASSUME NEW t \in Requests, t \in active' \/ req'[t].pc \in Late, work'[t].match \in ended
      PROVE  t \in crossed
  BY <1>3 DEF Reached, Frame
<1>4. QED
  BY <1>1, <1>2, <1>3 DEF Reached

\* A revocation of the sessions of the users U, by a handler that then ends.
LEMMA Revoked ==
  ASSUME Inv, Reached, NEW r \in Requests, Frame(r), NEW U, RevokeUsers(U),
         work' = work, token' = token, req'[r].pc = "done"
  PROVE  Reached'
<1> DEFINE tokens == UNION {Of(u) : u \in U}
<1>1. /\ active' = active \ tokens /\ ended' = ended \cup tokens
      /\ crossed' = crossed \cup UNION {Issuing(u) : u \in U}
  BY DEF RevokeUsers
<1>2. \A t : t \in tokens <=> t \in Requests /\ token[t] # Null /\ token[t].user \in U
  BY DEF Of
<1> HIDE DEF tokens
<1>3. active' \cap ended' = {} /\ \A t \in ended' : token'[t] # Null
  BY <1>1, <1>2 DEF Reached
<1>4. ASSUME NEW t \in Requests, t \in active' \/ req'[t].pc \in Late, work'[t].match \in ended'
      PROVE  t \in crossed'
  <2>1. t \in active \/ (t # r /\ req[t].pc \in Late /\ req'[t] = req[t])
    BY <1>1, <1>4 DEF Frame, Late
  <2>2. CASE work[t].match \in ended
    BY <1>1, <2>1, <2>2 DEF Reached
  <2>3. CASE work[t].match \in tokens
    <3>1. work[t].match # Null /\ token[work[t].match].user \in U /\ Flow(t)
      BY <1>2, <2>3, NullAssumption DEF Inv, TokenInv
    <3>2. req[t].user \in U
      BY <3>1 DEF Flow
    <3>3. t \notin active'
      BY <1>1, <1>2, <3>1, <3>2 DEF Flow
    <3>4. t \in Issuing(req[t].user)
      BY <1>4, <3>3 DEF Issuing, Late, Frame
    <3> QED
      BY <1>1, <3>2, <3>4
  <2> QED
    BY <1>1, <1>4, <2>2, <2>3
<1>5. QED
  BY <1>3, <1>4 DEF Reached

\* Where the handlers of tokens go, and what they keep of a session found.
LEMMA Moves ==
  ASSUME Inv, Reached, NEW r \in Requests, Session(r),
         ~LogoutAll(r), ~ResetRevoke(r), ~EmailCommit(r)
  PROVE  /\ ended' = ended /\ crossed' = crossed
         /\ r \in active' => r \in active \/ token[r] = Null
         /\ \/ work'[r].match \notin ended
            \/ /\ work'[r].match = work[r].match
               /\ (r \in active' \/ req'[r].pc \in Late) => (r \in active \/ req[r].pc \in Late)
<1>a. /\ Flow(r) /\ NoWork.match = Null /\ ended \subseteq Requests /\ Null \notin ended
      /\ req \in [Requests -> Handlers] /\ req[r] \in Handlers
      /\ work \in [Requests -> Works] /\ work[r] \in Works
  BY NullAssumption DEF Inv, AccountInv, AccountTypes, TokenInv, TokenTypes, NoWork
<1>b. ASSUME NEW pc, Goto(r, pc) PROVE req'[r].pc = pc
  BY <1>a, <1>b DEF Goto, Handlers
<1>c. ASSUME NEW op, NEW pc, NEW u, NEW arg, Start(r, op, pc, u, arg)
      PROVE  req[r].pc = "new" /\ req'[r].pc = pc
  BY <1>a, <1>c DEF Start
<1> HIDE DEF Goto, Start
<1>1. CASE ReadSalt(r) \/ ListSessions(r)
  <2>1. UNCHANGED <<active, ended, crossed>> /\ work'[r].match = work[r].match
        /\ (req'[r].pc \in Late => req[r].pc \in Late)
    <3>1. CASE ReadSalt(r)
      <4>1. work'[r] = [work[r] EXCEPT !.salt = salt]
        BY <1>a, <3>1 DEF ReadSalt, Also
      <4>2. work'[r].match = work[r].match
        BY <1>a, <4>1, Zenon DEF Works
      <4> QED
        BY <3>1, <4>2 DEF ReadSalt, Also, tokenVars, history, Late
    <3>2. CASE ListSessions(r)
      <4> DEFINE l == active \cap Of(req[r].user)
      <4>1. work'[r] = [work[r] EXCEPT !.list = l]
        BY <1>a, <3>2 DEF ListSessions, Also
      <4> HIDE DEF l
      <4>2. work'[r].match = work[r].match
        BY <1>a, <4>1, Zenon DEF Works
      <4> QED
        BY <1>b, <3>2, <4>2 DEF ListSessions, Also, tokenVars, history, Late
    <3> QED
      BY <1>1, <3>1, <3>2
  <2> QED
    BY <2>1
<1>2. CASE InsertToken(r)
  <2>1. token[r] = Null
    BY <1>2, <1>a DEF InsertToken, Flow
  <2> QED
    BY <1>2, <1>a, <2>1 DEF InsertToken, history, Late
<1>3. CASE Evict(r) \/ RevokeFamily(r) \/ LogoutRefresh(r) \/ AccessFill(r)
  <2>1. work' = work /\ UNCHANGED <<ended, crossed>> /\ active' \subseteq active
        /\ req'[r].pc = "done"
    BY <1>3, <1>b DEF Evict, RevokeFamily, LogoutRefresh, AccessFill, BlacklistToken, history
  <2> QED
    BY <2>1 DEF Late
<1>4. CASE RotateRevoke(r) \/ RotateBlacklist(r)
  BY <1>4, <1>b DEF RotateRevoke, RotateBlacklist, BlacklistToken, At, history, Late
<1>5. CASE RevokeAllSave(r) \/ RevokeAllDrop(r) \/ RevokeAllUpdate(r)
  BY <1>5, <1>b DEF RevokeAllSave, RevokeAllDrop, RevokeAllUpdate, tokenVars, history, Late
<1>6. CASE RefreshCheck(r) \/ RevokeAllRead(r) \/ AccessRead(r)
  <2>1. PICK t \in Mail, n \in {salt} : \/ Also([work EXCEPT ![r] = [NoWork EXCEPT !.tok = t]])
                                      \/ Also([work EXCEPT ![r] = [NoWork EXCEPT !.salt = n]])
                                      \/ Also([work EXCEPT ![r] = [NoWork EXCEPT !.tok = t, !.salt = n]])
    BY <1>6 DEF RefreshCheck, RevokeAllRead, AccessRead, Begin, Mail
  <2>2. work'[r].match = Null
    BY <1>a, <2>1 DEF Also, NoWork
  <2> QED
    BY <1>a, <2>1, <2>2 DEF Also, tokenVars, history
<1>7. CASE RefreshFind(r)
  <2>1. CASE Goto(r, "family") /\ Also(work)
    BY <1>b, <2>1 DEF Also, tokenVars, history, Late
  <2>2. ASSUME NEW m \in Matching(r), Also([work EXCEPT ![r].match = m])
        PROVE  work'[r].match \notin ended /\ UNCHANGED <<active, ended, crossed>>
    <3>1. work'[r] = [work[r] EXCEPT !.match = m]
      BY <1>a, <2>2 DEF Also
    <3>2. work'[r].match = m
      BY <1>a, <3>1, Zenon DEF Works
    <3> QED
      BY <2>2, <3>2 DEF Also, tokenVars, history, Matching, Reached
  <2> QED
    BY <1>7, <2>1, <2>2 DEF RefreshFind
<1>8. CASE Logout(r)
  <2>1. PICK t \in Requests : work' = [work EXCEPT ![r] = [NoWork EXCEPT !.tok = t]]
                              /\ UNCHANGED <<active, history>>
    BY <1>8 DEF Logout, Of
  <2>2. work'[r].match = Null
    BY <1>a, <2>1 DEF NoWork
  <2> QED
    BY <1>a, <2>1, <2>2 DEF history
<1>9. CASE AccessCached(r)
  BY <1>9, <1>c DEF AccessCached, tokenVars, Late
<1>10. CASE RefreshUser(r)
  BY <1>10 DEF RefreshUser, At, Also, tokenVars, history, Late
<1>11. QED
  BY <1>1, <1>2, <1>3, <1>4, <1>5, <1>6, <1>7, <1>8, <1>9, <1>10 DEF Session

LEMMA ReachedKept ==
  ASSUME Inv, Reached, [Next]_vars
  PROVE  Reached'
<1>1. ASSUME NEW r \in Requests, Account(r), UNCHANGED <<tokenVars, work, history>>
      PROVE  Reached'
  <2>1. Frame(r) /\ UNCHANGED <<ended, crossed, active, work>>
    BY <1>1, Frames DEF Inv, tokenVars, history
  <2>2. work[r].match \notin ended
    <3>1. req[r].pc \in {"new", "insert", "pass", "fail", "save"}
      BY <1>1, AccountPlaces DEF Inv
    <3> QED
      BY <3>1, NullAssumption DEF Inv, TokenInv, TokenTypes, Flow
  <2> QED
    BY <2>1, <2>2, Plain DEF Reached
<1>2. ASSUME NEW r \in Requests, Session(r),
             ~LogoutAll(r), ~ResetRevoke(r), ~EmailCommit(r)
      PROVE  Reached'
  <2>1. Frame(r)
    BY <1>2, Frames DEF Inv
  <2> QED
    BY <1>2, <2>1, Moves, Plain DEF Reached
<1>3. ASSUME NEW r \in Requests, LogoutAll(r) \/ ResetRevoke(r) \/ EmailCommit(r)
      PROVE  Reached'
  <2>1. Frame(r) /\ req \in [Requests -> Handlers]
    BY <1>3, Frames DEF Session, Inv, AccountInv, AccountTypes
  <2>2. work' = work /\ token' = token /\ req'[r].pc = "done"
    <3>1. CASE LogoutAll(r)
      BY <2>1, <3>1 DEF LogoutAll, Start
    <3>2. CASE ResetRevoke(r) \/ EmailCommit(r)
      <4>1. work' = work /\ token' = token /\ Goto(r, "done")
        BY <3>2 DEF ResetRevoke, EmailCommit, EmailSave
      <4> QED
        BY <2>1, <4>1 DEF Goto, Handlers
    <3> QED
      BY <1>3, <3>1, <3>2
  <2>3. \/ \E U : RevokeUsers(U)
        \/ UNCHANGED <<active, ended, crossed>>
    BY <1>3 DEF LogoutAll, ResetRevoke, EmailCommit
  <2>4. CASE UNCHANGED <<active, ended, crossed>>
    BY <2>1, <2>2, <2>4, Plain DEF Reached, Late
  <2> QED
    BY <2>1, <2>2, <2>3, <2>4, Revoked
<1>4. ASSUME UNCHANGED <<req, work, token, ended, crossed>>, active' \subseteq active
      PROVE  Reached'
  BY <1>4 DEF Reached
<1>5. CASE Hour \/ Cron
  BY <1>4, <1>5, CronCleans DEF Hour, Tick, Cron, Cleans, tokenVars, history, Inv
<1>6. CASE CleanBlacklist \/ CleanSessions \/ CacheCleared \/ UNCHANGED vars
  BY <1>4, <1>6 DEF CleanBlacklist, CleanSessions, CacheCleared, accountVars, tokenVars, history, vars
<1>7. QED
  BY <1>1, <1>2, <1>3, <1>5, <1>6 DEF Next

\* A reset, an e-mail change or logout-all ends every session of its user for
\* good; only a refresh or a login that was between its lookup and its insert at
\* that moment brings out a new one (resetPassword, confirmEmailChange,
\* blacklistAllUserTokens, refreshToken).
THEOREM RevocationFinal == Spec => []RevocationReaches
<1>1. Init => Reached
  BY DEF Init, Reached
<1>2. Inv /\ Reached /\ [Next]_vars => Reached'
  BY ReachedKept
<1>3. Inv /\ Reached => RevocationReaches
  BY DEF Inv, TokenInv, TokenTypes, Reached, RevocationReaches
<1>4. QED
  BY <1>1, <1>2, <1>3, Invariance, PTL DEF Spec

-----------------------------------------------------------------------------
(* The salt                                                                *)

\* A copy of an older salt, cached or on its way there, does not outlive the
\* cache period that began when the salt was raised.
Fresher ==
  /\ saltCache.till <= now + CacheTime
  /\ saltCache.v = salt \/ saltCache.till <= saltSaved + CacheTime
  /\ \A r \in Requests : req[r].pc = "fill" => work[r].salt = salt \/ saltSaved = now

\* Only a read of the salt leads to a fill of the cache.
LEMMA FillStarts ==
  ASSUME Inv, NEW r \in Requests, Session(r), req'[r].pc = "fill"
  PROVE  /\ UNCHANGED <<tokenVars, history, now>>
         /\ work'[r].salt = salt
<1>a. /\ req \in [Requests -> Handlers] /\ req[r] \in Handlers
      /\ work \in [Requests -> Works] /\ salt \in Nat
  BY DEF Inv, AccountInv, AccountTypes, TokenInv, TokenTypes
<1>b. ASSUME NEW pc, Goto(r, pc) PROVE req'[r].pc = pc
  BY <1>a, <1>b DEF Goto, Handlers
<1>c. ASSUME NEW op, NEW pc, NEW u, NEW arg, Start(r, op, pc, u, arg) PROVE req'[r].pc = pc
  BY <1>a, <1>c DEF Start
<1>d. req'[r] = [req[r] EXCEPT !.pc = "rotate", !.copy = row[req[r].user]] => req'[r].pc = "rotate"
  BY <1>a, Zenon DEF Handlers
<1>e. ~RefreshFind(r) /\ ~RefreshUser(r)
  BY <1>a, <1>b, <1>d DEF RefreshFind, RefreshUser, Goto
<1> HIDE DEF Goto, Start
<1>1. ~(ReadSalt(r) \/ InsertToken(r) \/ ListSessions(r) \/ Evict(r) \/ RevokeFamily(r)
        \/ RotateRevoke(r) \/ RotateBlacklist(r) \/ LogoutRefresh(r))
  BY <1>b DEF ReadSalt, InsertToken, ListSessions, Evict, RevokeFamily, RotateRevoke,
     RotateBlacklist, LogoutRefresh
<1>2. ~(ResetRevoke(r) \/ EmailCommit(r) \/ RevokeAllSave(r) \/ RevokeAllDrop(r)
        \/ RevokeAllUpdate(r) \/ AccessFill(r))
  BY <1>b DEF ResetRevoke, EmailCommit, EmailSave, RevokeAllSave, RevokeAllDrop,
     RevokeAllUpdate, AccessFill
<1>3. ~(RefreshCheck(r) \/ Logout(r) \/ LogoutAll(r) \/ RevokeAllRead(r) \/ AccessCached(r))
  BY <1>c DEF RefreshCheck, Logout, LogoutAll, RevokeAllRead, AccessCached, Begin
<1>4. AccessRead(r)
  BY <1>e, <1>1, <1>2, <1>3 DEF Session
<1>5. PICK a \in Requests : /\ Start(r, "access", "fill", token[a].user, Null)
                            /\ work' = [work EXCEPT ![r] = [NoWork EXCEPT !.tok = a, !.salt = salt]]
                            /\ UNCHANGED <<tokenVars, history>>
  BY <1>4 DEF AccessRead, Begin, Also
<1>6. work'[r] = [NoWork EXCEPT !.tok = a, !.salt = salt]
  BY <1>a, <1>5
<1>7. work'[r].salt = salt
  BY <1>6 DEF NoWork
<1>8. now' = now
  BY <1>5 DEF Start
<1>9. QED
  BY <1>5, <1>7, <1>8

\* The handlers that do not raise the salt, as far as the salt goes.
LEMMA SaltSteps ==
  ASSUME Inv, NEW r \in Requests, Session(r), ~RevokeAllSave(r)
  PROVE  /\ UNCHANGED <<salt, saltSaved, now>>
         /\ \/ saltCache' = saltCache
            \/ saltCache' = NoCache
            \/ AccessFill(r)
<1>1. Frame(r)
  BY Frames DEF Inv
<1>2. ASSUME ~AccessFill(r), ~RevokeAllDrop(r) PROVE UNCHANGED <<salt, saltSaved, saltCache>>
  BY <1>2 DEF Session, tokenVars, history, ReadSalt, InsertToken, ListSessions, Evict,
     RevokeFamily, RotateRevoke, LogoutAll, ResetRevoke, EmailCommit, RotateBlacklist,
     LogoutRefresh, Logout, BlacklistToken, RevokeAllUpdate, AccessCached, RefreshCheck,
     RevokeAllRead, AccessRead, RefreshFind, RefreshUser, Begin, Also
<1>3. CASE RevokeAllDrop(r)
  BY <1>1, <1>3 DEF RevokeAllDrop, history, Frame
<1>4. CASE AccessFill(r)
  BY <1>1, <1>4 DEF AccessFill, Frame
<1>5. QED
  BY <1>1, <1>2, <1>3, <1>4 DEF Frame

LEMMA FresherKept ==
  ASSUME Inv, Inv', Fresher, [Next]_vars
  PROVE  Fresher'
<1>a. /\ now \in Nat /\ saltSaved \in Nat /\ CacheTime \in Nat /\ now' \in Nat
      /\ saltCache.till \in Nat /\ NoCache.till = 0 /\ saltSaved' \in Nat
      /\ req \in [Requests -> Handlers]
  BY TimesAssumption DEF Inv, AccountInv, AccountTypes, TokenInv, TokenTypes, NoCache
<1>1. ASSUME UNCHANGED <<salt, saltSaved, req, work>>, now' = now \/ now' = now + 1,
             now' # now => \A r \in Requests : req[r].pc # "fill",
             saltCache' = saltCache \/ saltCache' = NoCache
      PROVE  Fresher'
  BY <1>a, <1>1 DEF Fresher
<1>2. ASSUME NEW r \in Requests, Account(r), UNCHANGED <<tokenVars, work, history>>
      PROVE  Fresher'
  <2>1. Frame(r)
    BY <1>2, Frames DEF Inv
  <2>2. req'[r].pc # "fill"
    BY <1>2, AccountPlaces DEF Inv
  <2> QED
    BY <1>2, <2>1, <2>2 DEF Fresher, Frame, tokenVars, history
<1>3. ASSUME NEW r \in Requests, Session(r) PROVE Fresher'
  <2>1. Frame(r)
    BY <1>3, Frames DEF Inv
  <2>2. \A s \in Requests \ {r} : req'[s] = req[s] /\ work'[s] = work[s]
    BY <2>1 DEF Frame
  <2>3. req'[r].pc = "fill" => work'[r].salt = salt /\ salt' = salt
    BY <1>3, FillStarts DEF tokenVars
  <2>4. CASE RevokeAllSave(r)
    <3>1. saltSaved' = now /\ now' = now /\ saltCache' = saltCache
      BY <2>1, <2>4 DEF RevokeAllSave, Frame
    <3> QED
      BY <1>a, <3>1 DEF Fresher
  <2>5. CASE ~RevokeAllSave(r)
    <3>1. UNCHANGED <<salt, saltSaved, now>>
          /\ (saltCache' = saltCache \/ saltCache' = NoCache \/ AccessFill(r))
      BY <1>3, <2>5, SaltSteps
    <3>2. \A s \in Requests : req'[s].pc = "fill" => work'[s].salt = salt' \/ saltSaved' = now'
      BY <2>2, <2>3, <3>1 DEF Fresher
    <3>3. CASE saltCache' = saltCache \/ saltCache' = NoCache
      BY <1>a, <3>1, <3>2, <3>3 DEF Fresher
    <3>4. CASE AccessFill(r)
      <4>1. /\ saltCache' = [v |-> work[r].salt, till |-> now + CacheTime]
            /\ work[r].salt = salt \/ saltSaved = now
        BY <3>4 DEF AccessFill, At, Fresher
      <4>2. saltCache'.v = work[r].salt /\ saltCache'.till = now + CacheTime
        BY <4>1
      <4>3. saltCache'.till <= now' + CacheTime
        BY <1>a, <3>1, <4>2
      <4>4. saltCache'.v = salt' \/ saltCache'.till <= saltSaved' + CacheTime
        BY <1>a, <3>1, <4>1, <4>2
      <4> QED
        BY <3>2, <4>3, <4>4 DEF Fresher
    <3> QED
      BY <3>1, <3>3, <3>4
  <2> QED
    BY <2>4, <2>5
<1>4. CASE Hour \/ Cron
  <2>1. UNCHANGED <<req, work, salt, saltSaved, saltCache>>
    BY <1>4, CronCleans DEF Hour, Tick, Cron, Cleans, tokenVars, history, Inv
  <2>2. CASE Hour
    BY <1>1, <2>1, <2>2 DEF Hour, Tick
  <2>3. CASE Cron
    BY <1>1, <2>1, <2>3, CronCleans DEF Cron, Cleans, Inv
  <2> QED
    BY <1>4, <2>2, <2>3
<1>5. CASE CleanBlacklist \/ CleanSessions \/ CacheCleared \/ UNCHANGED vars
  BY <1>1, <1>5 DEF CleanBlacklist, CleanSessions, CacheCleared, accountVars, tokenVars, history, vars
<1>6. QED
  BY <1>2, <1>3, <1>4, <1>5 DEF Next

\* What is let in now with an older salt.
OldSaltStep ==
  (accepted' # accepted /\ token[accepted'.tok].salt < salt) => now <= saltSaved + CacheTime

LEMMA OldSaltKept ==
  ASSUME Inv, Fresher, [Next]_vars
  PROVE  OldSaltStep
<1>a. now \in Nat /\ saltSaved \in Nat /\ CacheTime \in Nat /\ saltCache.till \in Nat
  BY TimesAssumption DEF Inv, AccountInv, AccountTypes, TokenInv, TokenTypes
<1>1. ASSUME accepted' # accepted
      PROVE  \E r \in Requests : AccessCached(r) \/ AccessFill(r)
  <2>1. ~(Hour \/ Cron \/ CleanBlacklist \/ CleanSessions \/ CacheCleared \/ UNCHANGED vars)
    BY <1>1 DEF Hour, Cron, CleanBlacklist, CleanSessions, CacheCleared, history, vars
  <2>2. PICK r \in Requests : Session(r)
    BY <1>1, <2>1 DEF Next, history
  <2> QED
    BY <1>1, <2>2 DEF Session, history, ReadSalt, InsertToken, ListSessions, Evict,
       RevokeFamily, RotateRevoke, LogoutAll, ResetRevoke, EmailCommit, RotateBlacklist,
       LogoutRefresh, Logout, BlacklistToken, RevokeAllSave, RevokeAllDrop, RevokeAllUpdate,
       RefreshCheck, RevokeAllRead, AccessRead, RefreshFind, RefreshUser, Begin, Also
<1>2. ASSUME NEW a, NEW s, LetIn(a, s), accepted' # accepted
      PROVE  accepted'.tok = a /\ ~(token[a].salt < s)
  BY <1>2 DEF LetIn
<1>3. ASSUME NEW r \in Requests, AccessCached(r), accepted' # accepted,
             token[accepted'.tok].salt < salt
      PROVE  now <= saltSaved + CacheTime
  <2>1. saltCache.till > now /\ saltCache.v # salt
    BY <1>2, <1>3 DEF AccessCached
  <2> QED
    BY <1>a, <2>1 DEF Fresher
<1>4. ASSUME NEW r \in Requests, AccessFill(r), accepted' # accepted,
             token[accepted'.tok].salt < salt
      PROVE  now <= saltSaved + CacheTime
  <2>1. work[r].salt # salt /\ req[r].pc = "fill"
    BY <1>2, <1>4 DEF AccessFill, At
  <2> QED
    BY <1>a, <2>1 DEF Fresher
<1>5. QED
  BY <1>1, <1>3, <1>4 DEF OldSaltStep

\* An access token from before a global revocation is let in only for one
\* cache period after the salt was raised, although a fill that read the old
\* salt may end after the cached copy was dropped (validateUser).
THEOREM OldSaltExpires == Spec => OldSaltBounded
<1>1. Init => Fresher
  BY TimesAssumption DEF Init, Fresher, NoCache, Fresh
<1>2. Inv /\ Inv' /\ Fresher /\ [Next]_vars => Fresher'
  BY FresherKept
<1>3. Inv /\ Fresher /\ [Next]_vars => OldSaltStep
  BY OldSaltKept
<1>4. QED
  BY <1>1, <1>2, <1>3, Invariance, PTL DEF Spec, OldSaltBounded, OldSaltStep

-----------------------------------------------------------------------------
(* The limit on sessions                                                   *)

\* Tokens whose handler is through with the limit, and handlers about to
\* revoke what they have listed.
Limiting == {"list", "evict"}
Settled(u) == {t \in active \cap Of(u) : req[t].pc \notin Limiting}
Enforcing(u) == {r \in Requests : req[r].user = u /\ req[r].pc = "evict"}

\* A list has its handler's own token, and of two handlers the one that listed
\* later has seen the other's token or all that the other has.
Lists ==
  /\ issued \in Seq(Requests)
  /\ \A t \in Requests : token[t] # Null => \E i \in DOMAIN issued : issued[i] = t
  /\ \A r \in Requests : req[r].pc \in Limiting => token[r] # Null
  /\ \A u \in Users : \A r \in Enforcing(u) :
       /\ work[r].list \subseteq Of(u) /\ (r \in active => r \in work[r].list)
       /\ \A s \in Enforcing(u) : r \in active => \/ r \in work[s].list
                                                  \/ work[s].list \cap active \subseteq work[r].list
\* K is what the last list among the settled handlers has left: it covers
\* their tokens, and that of every handler whose list is older.
Covers(K, u) ==
  /\ Settled(u) \subseteq K /\ K \subseteq Of(u)
  /\ \A r \in Enforcing(u) : (r \in active => r \in K) \/ K \cap active \subseteq work[r].list
Few(K) == IsFiniteSet(K) /\ Cardinality(K) <= MaxSessions
Limited == Lists /\ \A u \in Users : \E K \in SUBSET Requests : Few(K) /\ Covers(K, u)

LEMMA Earliest ==
  ASSUME NEW S, S # {}, \A t \in S : Rank(t) \in Nat
  PROVE  \E t \in S : \A s \in S : Rank(t) <= Rank(s)
<1> DEFINE T == {Rank(t) : t \in S}
<1>1. T \subseteq Nat /\ T # {}
  OBVIOUS
<1>2. \E x \in T : \A y \in T : ~(<<y, x>> \in OpToRel(<, Nat))
  <2> HIDE DEF T
  <2> QED
    BY <1>1, NatLessThanWellFounded, WFMin
<1>3. PICK x \in T : \A y \in T : ~(y < x)
  BY <1>1, <1>2 DEF OpToRel
<1>4. PICK t \in S : x = Rank(t)
  BY <1>3
<1>5. ASSUME NEW s \in S PROVE Rank(t) <= Rank(s)
  <2>1. Rank(s) \in T
    OBVIOUS
  <2>2. ~(Rank(s) < Rank(t))
    BY <1>3, <1>4, <2>1
  <2> QED
    BY <2>2
<1>6. QED
  BY <1>4, <1>5

\* What is left of a list are no more than MaxSessions: those before its
\* earliest are revoked, and they are all the list has beyond the limit.
LEMMA LeavesFew ==
  ASSUME NEW S, IsFiniteSet(S), \A t \in S : Rank(t) \in Nat
  PROVE  Few(S \ Oldest(S, Cardinality(S) - MaxSessions))
<1> DEFINE n == Cardinality(S) - MaxSessions
           K == S \ Oldest(S, n)
<1>1. Cardinality(S) \in Nat /\ MaxSessions \in Nat
  BY FS_CardinalityType, TimesAssumption
<1>2. K \in SUBSET S /\ IsFiniteSet(K) /\ Cardinality(K) \in Nat
  BY FS_Subset, FS_CardinalityType
<1>3. CASE K = {}
  BY <1>1, <1>3, FS_EmptySet DEF Few
<1>4. CASE K # {}
  <2>1. PICK t \in K : \A s \in K : Rank(t) <= Rank(s)
    BY <1>4, Earliest
  <2> DEFINE B == {s \in S : Rank(s) < Rank(t)}
  <2>2. B \in SUBSET S /\ IsFiniteSet(B) /\ Cardinality(B) \in Nat
    BY FS_Subset, FS_CardinalityType
  <2>3. B \cap K = {}
    BY <2>1
  <2>4. ~(Cardinality(B) < n)
    BY <2>1 DEF Oldest
  <2>5. K \in SUBSET (S \ B)
    BY <2>3
  <2>6. S \cap B = B
    OBVIOUS
  <2>7. IsFiniteSet(S \ B) /\ Cardinality(S \ B) = Cardinality(S) - Cardinality(B)
    BY <2>6, FS_Difference
  <2>8. Cardinality(K) <= Cardinality(S \ B)
    BY <2>5, <2>7, FS_Subset
  <2> HIDE DEF B, K
  <2>9. Cardinality(K) <= MaxSessions
    BY <1>1, <1>2, <2>2, <2>4, <2>7, <2>8
  <2>10. QED
    BY <1>2, <2>9 DEF Few, K
<1>5. QED
  BY <1>3, <1>4

\* The token of a handler that is limiting is its user's.
LEMMA OwnToken ==
  ASSUME Inv, NEW r \in Requests
  PROVE  /\ r \in active => token[r] # Null
         /\ token[r] # Null => r \in Of(req[r].user)
         /\ \A u : r \in Of(u) => u = req[r].user
BY DEF Inv, TokenInv, Flow, Of

\* A step beside the limit: no token is added, and nobody comes or goes.
LEMMA LimitedAside ==
  ASSUME Inv, Limited, token' = token, issued' = issued, active' \subseteq active,
         \A s \in Requests : \/ req'[s] = req[s] /\ work'[s] = work[s]
                             \/ req[s].pc \notin Limiting /\ req'[s].pc \notin Limiting
  PROVE  Limited'
<1>1. ASSUME NEW u \in Users
      PROVE  /\ Of(u)' = Of(u) /\ Enforcing(u)' = Enforcing(u)
             /\ \A s \in Enforcing(u) : work'[s].list = work[s].list
             /\ Settled(u)' \subseteq Settled(u)
  BY DEF Of, Enforcing, Settled, Limiting
<1>2. Lists'
  BY <1>1 DEF Limited, Lists
<1>3. ASSUME NEW u \in Users PROVE \E K \in SUBSET Requests : Few(K)' /\ Covers(K, u)'
  <2>1. PICK K \in SUBSET Requests : Few(K) /\ Covers(K, u)
    BY DEF Limited
  <2>2. Covers(K, u)'
    BY <1>1, <2>1 DEF Covers
  <2> QED
    BY <2>1, <2>2 DEF Few
<1>4. QED
  BY <1>2, <1>3 DEF Limited

\* A new token is in nobody's list.
LEMMA LimitedInsert ==
  ASSUME Inv, Limited, NEW r \in Requests, InsertToken(r)
  PROVE  Limited'
<1>1. Frame(r) /\ token[r] = Null /\ req[r].pc = "insertToken" /\ work' = work
  BY Frames DEF Session, Inv, TokenInv, InsertToken, Flow
<1>2. req'[r].pc = "list" /\ req'[r].user = req[r].user
  BY DEF InsertToken, Goto, Inv, AccountInv, AccountTypes, Handlers
<1>3. /\ token'[r] # Null /\ token'[r].user = req[r].user
      /\ \A s \in Requests \ {r} : req'[s] = req[s] /\ token'[s] = token[s]
  <2> DEFINE made == [user |-> req[r].user, ver |-> req[r].copy.ver,
                      salt |-> work[r].salt, at |-> now]
  <2>1. made \in Tokens /\ made.user = req[r].user
    BY <1>1, TokenMade DEF Inv
  <2>2. token'[r] = made
    BY DEF InsertToken, Inv, TokenInv, TokenTypes
  <2> HIDE DEF made
  <2> QED
    BY <1>1, <2>1, <2>2, TokensAssumption DEF Frame
<1>4. ASSUME NEW u \in Users
      PROVE  /\ r \notin Of(u) /\ Of(u)' \subseteq Of(u) \cup {r} /\ Of(u) \subseteq Of(u)'
             /\ Enforcing(u)' = Enforcing(u) /\ r \notin Enforcing(u)
             /\ Settled(u)' \subseteq Settled(u)
  BY <1>1, <1>2, <1>3 DEF Of, Enforcing, Settled, Limiting, InsertToken
<1>5. active' = active \cup {r} /\ issued' = Append(issued, r)
  BY DEF InsertToken
<1>6. Lists'
  <2>1. issued' \in Seq(Requests)
    BY <1>5 DEF Limited, Lists
  <2>2. ASSUME NEW t \in Requests, token'[t] # Null
        PROVE  \E i \in DOMAIN issued' : issued'[i] = t
    <3>1. CASE t = r
      <4>1. Len(issued) + 1 \in DOMAIN issued' /\ issued'[Len(issued) + 1] = r
        BY <1>5 DEF Limited, Lists
      <4> QED
        BY <3>1, <4>1
    <3>2. CASE t # r
      <4>1. PICK i \in DOMAIN issued : issued[i] = t
        BY <1>3, <2>2, <3>2 DEF Limited, Lists
      <4>2. i \in DOMAIN issued' /\ issued'[i] = issued[i]
        BY <1>5 DEF Limited, Lists
      <4> QED
        BY <4>1, <4>2
    <3> QED
      BY <3>1, <3>2
  <2>3. \A s \in Requests : req'[s].pc \in Limiting => token'[s] # Null
    BY <1>2, <1>3 DEF Limited, Lists
  <2>4. ASSUME NEW u \in Users, NEW s \in Enforcing(u)
        PROVE  /\ work[s].list \subseteq Of(u) /\ (s \in active => s \in work[s].list)
               /\ \A t \in Enforcing(u) : s \in active => \/ s \in work[t].list
                                                          \/ work[t].list \cap active \subseteq work[s].list
    BY DEF Limited, Lists
  <2>5. ASSUME NEW u \in Users, NEW s \in Enforcing(u)
        PROVE  /\ work'[s].list \subseteq Of(u)' /\ (s \in active' => s \in work'[s].list)
               /\ \A t \in Enforcing(u) : s \in active' => \/ s \in work'[t].list
                                                           \/ work'[t].list \cap active' \subseteq work'[s].list
    BY <1>1, <1>4, <1>5, <2>4
  <2> QED
    BY <1>4, <2>1, <2>2, <2>3, <2>5 DEF Lists
<1>7. ASSUME NEW u \in Users PROVE \E K \in SUBSET Requests : Few(K)' /\ Covers(K, u)'
  <2>1. PICK K \in SUBSET Requests : Few(K) /\ Covers(K, u)
    BY DEF Limited
  <2>2. Covers(K, u)'
    BY <1>1, <1>4, <1>5, <2>1 DEF Covers
  <2> QED
    BY <2>1, <2>2 DEF Few
<1>8. QED
  BY <1>6, <1>7 DEF Limited

\* A new list has every unrevoked token of the user.
LEMMA LimitedList ==
  ASSUME Inv, Limited, NEW r \in Requests, ListSessions(r)
  PROVE  Limited'
<1> DEFINE u0 == req[r].user
           new == active \cap Of(u0)
<1>1. /\ Frame(r) /\ req[r].pc = "list" /\ req'[r].pc = "evict" /\ req'[r].user = u0
      /\ UNCHANGED <<active, issued, token>>
  BY Frames DEF Session, Inv, TokenInv, ListSessions, Also, tokenVars, Goto, AccountInv,
     AccountTypes, Handlers
<1>2. work'[r].list = new /\ \A s \in Requests \ {r} : work'[s] = work[s]
  <2> HIDE DEF new
  <2>1. work[r] \in Works /\ work' = [work EXCEPT ![r].list = new]
    BY DEF new, ListSessions, Also, Inv, TokenInv, TokenTypes
  <2>2. work'[r] = [work[r] EXCEPT !.list = new]
    BY <2>1 DEF Inv, TokenInv, TokenTypes
  <2>3. work'[r].list = new
    BY <2>1, <2>2, Zenon DEF Works
  <2> QED
    BY <1>1, <2>3 DEF Frame
<1>3. ASSUME NEW u \in Users
      PROVE  /\ Of(u)' = Of(u) /\ Settled(u)' \subseteq Settled(u)
             /\ Enforcing(u)' \subseteq Enforcing(u) \cup {r}
             /\ r \notin Enforcing(u) /\ (r \in Enforcing(u)' => u = u0)
             /\ \A s \in Enforcing(u) : s \in active => s \in Of(u)
  <2>1. Of(u)' = Of(u)
    BY <1>1 DEF Of
  <2>2. ASSUME NEW s \in Enforcing(u), s \in active PROVE s \in Of(u)
    <3>1. s \in Requests /\ req[s].user = u
      BY <2>2 DEF Enforcing
    <3>2. token[s] # Null /\ s \in Of(req[s].user)
      BY <2>2, <3>1, OwnToken
    <3> QED
      BY <3>1, <3>2
  <2>3. Settled(u)' \subseteq Settled(u)
    <3>1. \A t \in Of(u) : t \in Requests
      BY DEF Of
    <3> QED
      BY <1>1, <2>1, <3>1 DEF Settled, Limiting, Frame
  <2> QED
    BY <1>1, <2>1, <2>2, <2>3 DEF Enforcing, Frame
<1>4. r \in active => r \in new
  BY OwnToken
<1> HIDE DEF u0
<1>5. ASSUME NEW u \in Users, NEW s \in Enforcing(u)'
      PROVE  work'[s].list \subseteq Of(u)' /\ (s \in active' => s \in work'[s].list)
  <2>1. CASE s = r
    BY <1>1, <1>2, <1>3, <1>4, <1>5, <2>1
  <2>2. CASE s # r
    BY <1>1, <1>2, <1>3, <1>5, <2>2 DEF Limited, Lists, Enforcing
  <2> QED
    BY <2>1, <2>2
<1>6. ASSUME NEW u \in Users, NEW s \in Enforcing(u)', NEW t \in Enforcing(u)', s \in active'
      PROVE  s \in work'[t].list \/ work'[t].list \cap active' \subseteq work'[s].list
  <2>1. CASE t = r /\ s # r
    BY <1>1, <1>2, <1>3, <1>6, <2>1
  <2>2. CASE s = r
    <3>1. u = u0 /\ work'[s].list = active \cap Of(u) /\ Of(u)' = Of(u)
      BY <1>2, <1>3, <1>6, <2>2
    <3> QED
      BY <1>1, <1>5, <3>1
  <2>3. CASE s # r /\ t # r
    <3>1. s \in Enforcing(u) /\ t \in Enforcing(u)
      BY <1>3, <2>3
    <3>2. work'[s] = work[s] /\ work'[t] = work[t]
      BY <1>2, <2>3, <3>1 DEF Enforcing
    <3> QED
      BY <1>1, <1>6, <3>1, <3>2 DEF Limited, Lists
  <2> QED
    BY <2>1, <2>2, <2>3
<1>7. Lists'
  <2>1. \A s \in Requests : req'[s].pc \in Limiting => token'[s] # Null
    BY <1>1 DEF Limited, Lists, Frame, Limiting
  <2> QED
    BY <1>1, <1>5, <1>6, <2>1 DEF Limited, Lists
<1>8. ASSUME NEW u \in Users PROVE \E K \in SUBSET Requests : Few(K)' /\ Covers(K, u)'
  <2>1. PICK K \in SUBSET Requests : Few(K) /\ Covers(K, u)
    BY DEF Limited
  <2>2. Covers(K, u)'
    <3>1. ASSUME NEW s \in Enforcing(u)'
          PROVE  (s \in active' => s \in K) \/ K \cap active' \subseteq work'[s].list
      <4>1. CASE s = r
        BY <1>1, <1>2, <1>3, <2>1, <3>1, <4>1 DEF Covers
      <4>2. CASE s # r
        BY <1>1, <1>2, <1>3, <2>1, <3>1, <4>2 DEF Covers, Enforcing
      <4> QED
        BY <4>1, <4>2
    <3> QED
      BY <1>3, <2>1, <3>1 DEF Covers
  <2> QED
    BY <2>1, <2>2 DEF Few
<1>9. QED
  BY <1>7, <1>8 DEF Limited

\* The oldest of a list are revoked.  If the handler's own token was not
\* covered, what is left of its list now covers the settled ones.
LEMMA LimitedEvict ==
  ASSUME Inv, Limited, NEW r \in Requests, Evict(r)
  PROVE  Limited'
<1> DEFINE u0 == req[r].user
           L == work[r].list
           rest == L \ Oldest(L, Cardinality(L) - MaxSessions)
<1>1. /\ Frame(r) /\ req[r].pc = "evict" /\ req'[r].pc = "done" /\ req'[r].user = u0
      /\ UNCHANGED <<issued, token, work>> /\ work[r] \in Works
  BY Frames DEF Session, Inv, TokenInv, TokenTypes, Evict, Goto, AccountInv, AccountTypes, Handlers
<1>2. active' = active \ Oldest(L, Cardinality(L) - MaxSessions)
  BY DEF Evict
<1>3. ASSUME NEW u \in Users
      PROVE  /\ Of(u)' = Of(u) /\ Settled(u)' \subseteq Settled(u) \cup {r}
             /\ Enforcing(u)' \subseteq Enforcing(u) /\ r \notin Enforcing(u)'
             /\ (r \in Settled(u)' => u = u0)
  <2>1. Of(u)' = Of(u)
    BY <1>1 DEF Of
  <2>2. r \in Of(u) => u = u0
    BY OwnToken
  <2>3. active' \subseteq active
    BY <1>2
  <2>4. \A t \in Of(u) : t \in Requests
    BY DEF Of
  <2> HIDE DEF L, rest, u0
  <2>5. Settled(u)' \subseteq Settled(u) \cup {r} /\ (r \in Settled(u)' => u = u0)
    BY <1>1, <2>1, <2>2, <2>3, <2>4 DEF Settled, Limiting, Frame
  <2>6. Enforcing(u)' \subseteq Enforcing(u) /\ r \notin Enforcing(u)'
    BY <1>1 DEF Enforcing, Frame
  <2> QED
    BY <2>1, <2>5, <2>6
<1>4. Lists'
  <2>1. active' \subseteq active
    BY <1>2
  <2>2. \A s \in Requests : req'[s].pc \in Limiting => token'[s] # Null
    BY <1>1 DEF Limited, Lists, Frame, Limiting
  <2>3. ASSUME NEW u \in Users, NEW s \in Enforcing(u)'
        PROVE  /\ work'[s].list \subseteq Of(u)' /\ (s \in active' => s \in work'[s].list)
               /\ \A t \in Enforcing(u)' : s \in active' => \/ s \in work'[t].list
                                                            \/ work'[t].list \cap active' \subseteq work'[s].list
    BY <1>1, <1>3, <2>1, <2>3 DEF Limited, Lists
  <2> QED
    BY <1>1, <2>2, <2>3 DEF Limited, Lists
<1>5. Few(rest)
  <2>1. IsFiniteSet(L)
    BY <1>1, RequestsAssumption, FS_Subset DEF Works
  <2>2. ASSUME NEW t \in L PROVE Rank(t) \in Nat
    <3>1. u0 \in Users /\ r \in Enforcing(u0)
      <4>1. Ready(req[r]) /\ req[r] \in Handlers
        BY DEF Inv, AccountInv, AccountTypes
      <4> QED
        BY <1>1, <4>1 DEF Ready, Handlers, Enforcing
    <3>2. t \in Requests /\ token[t] # Null
      BY <2>2, <3>1 DEF Limited, Lists, Of
    <3>3. \E i \in DOMAIN issued : issued[i] = t
      BY <3>2 DEF Limited, Lists
    <3>4. Rank(t) \in DOMAIN issued
      BY <3>3 DEF Rank
    <3> QED
      BY <3>4 DEF Limited, Lists
  <2> HIDE DEF L
  <2> QED
    BY <2>1, <2>2, LeavesFew
<1>6. r \in active => r \in L
  <2>1. r \in active => token[r] # Null /\ r \in Of(u0) /\ u0 \in Users
    <3>1. Ready(req[r]) /\ req[r] \in Handlers
      BY DEF Inv, AccountInv, AccountTypes
    <3> QED
      BY <1>1, <3>1, OwnToken DEF Ready, Handlers
  <2> QED
    BY <1>1, <2>1 DEF Limited, Lists, Enforcing
<1>7. L \cap active' \subseteq rest /\ active' \subseteq active /\ rest \subseteq L
  BY <1>2
<1> HIDE DEF rest
<1>8. ASSUME NEW u \in Users PROVE \E K \in SUBSET Requests : Few(K)' /\ Covers(K, u)'
  <2>1. PICK K \in SUBSET Requests : Few(K) /\ Covers(K, u)
    BY DEF Limited
  <2>2. CASE u # u0 \/ (r \in active' => r \in K)
    <3>1. Settled(u)' \subseteq K
      BY <1>3, <2>1, <2>2 DEF Covers, Settled
    <3>2. Covers(K, u)'
      BY <1>1, <1>3, <1>7, <2>1, <3>1 DEF Covers
    <3> QED
      BY <2>1, <3>2 DEF Few
  <2>3. CASE u = u0 /\ r \in active' /\ r \notin K
    <3>1. r \in Enforcing(u) /\ L \subseteq Of(u)
      BY <1>1, <2>3 DEF Enforcing, Limited, Lists
    <3>2. K \cap active \subseteq L
      BY <1>7, <2>1, <2>3, <3>1 DEF Covers
    <3>3. PICK R \in SUBSET Requests : R = rest
      BY <1>7, <3>1 DEF Of
    <3>4. Settled(u)' \subseteq R
      BY <1>3, <1>6, <1>7, <2>1, <2>3, <3>2, <3>3 DEF Covers, Settled
    <3>5. ASSUME NEW s \in Enforcing(u)'
          PROVE  (s \in active' => s \in R) \/ R \cap active' \subseteq work'[s].list
      <4>1. s \in active => s \in L \/ L \cap active \subseteq work[s].list
        BY <1>3, <3>1, <3>5 DEF Limited, Lists
      <4> QED
        BY <1>1, <1>7, <3>3, <4>1
    <3>6. R \subseteq Of(u)'
      BY <1>3, <1>7, <3>1, <3>3
    <3>7. Covers(R, u)'
      BY <3>4, <3>5, <3>6 DEF Covers
    <3>8. Few(R)'
      BY <1>5, <3>3 DEF Few
    <3> QED
      BY <3>7, <3>8
  <2> QED
    BY <2>2, <2>3
<1>9. QED
  BY <1>4, <1>8 DEF Limited

\* The other handlers are elsewhere when they start and when they are through.
LEMMA Elsewhere ==
  ASSUME Inv, NEW r \in Requests,
         Session(r) \/ (Account(r) /\ UNCHANGED <<tokenVars, work, history>>),
         ~InsertToken(r), ~ListSessions(r), ~Evict(r)
  PROVE  /\ req[r].pc \notin Limiting /\ req'[r].pc \notin Limiting
         /\ token' = token /\ issued' = issued /\ active' \subseteq active
<1>a. req \in [Requests -> Handlers] /\ req[r] \in Handlers
  BY DEF Inv, AccountInv, AccountTypes
<1>b. ASSUME NEW pc, Goto(r, pc) PROVE req'[r].pc = pc
  BY <1>a, <1>b DEF Goto, Handlers
<1>c. ASSUME NEW op, NEW pc, NEW u, NEW arg, Start(r, op, pc, u, arg)
      PROVE  req[r].pc = "new" /\ req'[r].pc = pc
  BY <1>a, <1>c DEF Start
<1> HIDE DEF Goto, Start
<1>1. CASE Account(r) /\ UNCHANGED <<tokenVars, work, history>>
  BY <1>1, AccountPlaces DEF Inv, Limiting, tokenVars
<1>2. CASE ReadSalt(r) \/ RevokeFamily(r) \/ RotateRevoke(r) \/ RotateBlacklist(r)
           \/ LogoutRefresh(r) \/ AccessFill(r)
  BY <1>2, <1>b DEF ReadSalt, RevokeFamily, RotateRevoke, RotateBlacklist, LogoutRefresh,
     AccessFill, BlacklistToken, At, Also, tokenVars, Limiting
<1>d. ASSUME NEW U, RevokeUsers(U) PROVE active' \subseteq active
  BY <1>d DEF RevokeUsers
<1> HIDE DEF RevokeUsers
<1>3. CASE ResetRevoke(r) \/ EmailCommit(r) \/ RevokeAllSave(r) \/ RevokeAllDrop(r)
           \/ RevokeAllUpdate(r)
  <2>1. /\ req[r].pc \in {"revoke", "save", "saveSalt", "dropCache", "update"}
        /\ UNCHANGED <<token, issued>>
        /\ active' = active \/ \E U : RevokeUsers(U)
        /\ \E pc \in {"done", "dropCache", "update"} : Goto(r, pc)
    BY <1>3 DEF ResetRevoke, EmailCommit, EmailSave, RevokeAllSave, RevokeAllDrop,
       RevokeAllUpdate, tokenVars, At
  <2> QED
    BY <2>1, <1>b, <1>d DEF Limiting
<1>4. CASE RefreshCheck(r) \/ RevokeAllRead(r) \/ AccessRead(r)
  <2>1. /\ UNCHANGED tokenVars
        /\ \E op, pc, u, arg : pc \in {"family", "find", "saveSalt", "fill"}
                                /\ Start(r, op, pc, u, arg)
    <3>1. CASE RefreshCheck(r)
      <4>1. PICK t \in Requests :
              Begin(r, "refresh", IF Blacklisted("refresh", t) THEN "family" ELSE "find",
                    token[t].user, [NoWork EXCEPT !.tok = t])
        BY <3>1 DEF RefreshCheck
      <4> DEFINE pc == IF Blacklisted("refresh", t) THEN "family" ELSE "find"
      <4>2. pc \in {"family", "find"} /\ Start(r, "refresh", pc, token[t].user, Null)
            /\ UNCHANGED tokenVars
        BY <4>1 DEF Begin, Also, tokenVars
      <4> QED
        BY <4>2
    <3>2. CASE RevokeAllRead(r)
      <4>1. Start(r, "revokeAll", "saveSalt", Null, Null) /\ UNCHANGED tokenVars
        BY <3>2 DEF RevokeAllRead, Begin, Also
      <4> QED
        BY <4>1
    <3>3. CASE AccessRead(r)
      <4>1. PICK a \in Requests :
              Start(r, "access", "fill", token[a].user, Null) /\ UNCHANGED tokenVars
        BY <3>3 DEF AccessRead, Begin, Also
      <4> QED
        BY <4>1
    <3> QED
      BY <1>4, <3>1, <3>2, <3>3
  <2> QED
    BY <2>1, <1>c DEF tokenVars, Limiting
<1>5. CASE Logout(r) \/ LogoutAll(r) \/ AccessCached(r)
  <2>1. CASE Logout(r)
    <3>1. PICK u : Start(r, "logout", "logout", u, Null) /\ UNCHANGED <<active, issued, token>>
      BY <2>1 DEF Logout
    <3> QED
      BY <3>1, <1>c DEF Limiting
  <2>2. CASE LogoutAll(r)
    <3>1. PICK u : /\ Start(r, "logoutAll", "done", u, Null)
                   /\ RevokeUsers({u}) /\ UNCHANGED <<issued, token>>
      BY <2>2 DEF LogoutAll
    <3> QED
      BY <3>1, <1>c, <1>d DEF Limiting
  <2>3. CASE AccessCached(r)
    <3>1. PICK u : Start(r, "access", "done", u, Null) /\ UNCHANGED tokenVars
      BY <2>3 DEF AccessCached
    <3> QED
      BY <3>1, <1>c DEF tokenVars, Limiting
  <2> QED
    BY <1>5, <2>1, <2>2, <2>3
<1>6. CASE RefreshFind(r) \/ RefreshUser(r)
  <2>1. req[r].pc \in {"find", "user"} /\ UNCHANGED tokenVars
    BY <1>6 DEF RefreshFind, RefreshUser, At, Also
  <2>2. req'[r].pc \in {"family", "user", "rotate"}
    BY <1>6, <1>a, <1>b DEF RefreshFind, RefreshUser, Handlers
  <2> QED
    BY <2>1, <2>2 DEF tokenVars, Limiting
<1>7. QED
  BY <1>1, <1>2, <1>3, <1>4, <1>5, <1>6 DEF Session

LEMMA LimitedKept ==
  ASSUME Inv, Limited, [Next]_vars
  PROVE  Limited'
<1>1. ASSUME NEW r \in Requests,
             Session(r) \/ (Account(r) /\ UNCHANGED <<tokenVars, work, history>>)
      PROVE  Limited'
  <2>1. CASE InsertToken(r)
    BY <2>1, LimitedInsert
  <2>2. CASE ListSessions(r)
    BY <2>2, LimitedList
  <2>3. CASE Evict(r)
    BY <2>3, LimitedEvict
  <2>4. CASE ~InsertToken(r) /\ ~ListSessions(r) /\ ~Evict(r)
    <3>1. /\ req[r].pc \notin Limiting /\ req'[r].pc \notin Limiting
          /\ token' = token /\ issued' = issued /\ active' \subseteq active
      BY <1>1, <2>4, Elsewhere
    <3>2. \A s \in Requests \ {r} : req'[s] = req[s] /\ work'[s] = work[s]
      BY <1>1, Frames DEF Inv, Frame
    <3> QED
      BY <3>1, <3>2, LimitedAside
  <2> QED
    BY <2>1, <2>2, <2>3, <2>4
<1>2. ASSUME UNCHANGED <<req, work, token, issued>>, active' \subseteq active
      PROVE  Limited'
  BY <1>2, LimitedAside
<1>3. CASE Hour \/ Cron
  BY <1>2, <1>3, CronCleans DEF Hour, Tick, Cron, Cleans, tokenVars, Inv
<1>4. CASE CleanBlacklist \/ CleanSessions \/ CacheCleared \/ UNCHANGED vars
  BY <1>2, <1>4 DEF CleanBlacklist, CleanSessions, CacheCleared, accountVars, tokenVars, vars
<1>5. QED
  BY <1>1, <1>3, <1>4 DEF Next

\* Every unrevoked token of a user is covered, or its handler still limits.
LEMMA LimitedBounds ==
  ASSUME Inv, Limited
  PROVE  SessionsBounded
<1> SUFFICES ASSUME NEW u \in Users
             PROVE  Cardinality(active \cap Of(u)) <=
                      MaxSessions + Cardinality({r \in Requests : /\ req[r].user = u
                                                                  /\ req[r].pc \in {"list", "evict"}})
  BY DEF SessionsBounded
<1> DEFINE pending == {r \in Requests : req[r].user = u /\ req[r].pc \in {"list", "evict"}}
           A == active \cap Of(u)
<1>1. PICK K \in SUBSET Requests : Few(K) /\ Covers(K, u)
  BY DEF Limited
<1>2. IsFiniteSet(pending) /\ Cardinality(pending) \in Nat
  <2>1. pending \in SUBSET Requests
    OBVIOUS
  <2> HIDE DEF pending
  <2> QED
    BY <2>1, RequestsAssumption, FS_Subset, FS_CardinalityType
<1>3. A \subseteq K \cup pending
  <2>1. \A t \in A : t \in Requests /\ req[t].user = u
    BY OwnToken DEF Of
  <2>2. \A t \in A : t \in Settled(u) \/ t \in pending
    BY <2>1 DEF Settled, Limiting
  <2> QED
    BY <1>1, <2>2 DEF Covers
<1> HIDE DEF pending, A
<1>4. /\ IsFiniteSet(K \cup pending)
      /\ Cardinality(K \cup pending) = Cardinality(K) + Cardinality(pending) - Cardinality(K \cap pending)
  BY <1>1, <1>2, FS_Union DEF Few
<1>5. Cardinality(A) <= Cardinality(K \cup pending)
  BY <1>3, <1>4, FS_Subset
<1>6. Cardinality(K \cap pending) \in Nat /\ Cardinality(K) \in Nat /\ Cardinality(A) \in Nat
  <2>1. IsFiniteSet(K) /\ IsFiniteSet(K \cap pending) /\ IsFiniteSet(A)
    BY <1>1, <1>2, <1>3, <1>4, FS_Subset DEF Few
  <2> QED
    BY <2>1, FS_CardinalityType
<1>7. Cardinality(A) <= MaxSessions + Cardinality(pending)
  BY <1>1, <1>2, <1>4, <1>5, <1>6, TimesAssumption DEF Few
<1>8. QED
  BY <1>7 DEF pending, A

LEMMA InitLimited == Init => Limited
<1> SUFFICES ASSUME Init PROVE Limited
  OBVIOUS
<1>1. Lists
  BY DEF Init, Lists, Enforcing, Fresh, Limiting
<1>2. Few({})
  BY FS_EmptySet, TimesAssumption DEF Few
<1>3. \A u \in Users : Covers({}, u)
  BY DEF Init, Covers, Settled, Enforcing, Fresh
<1>4. QED
  BY <1>1, <1>2, <1>3 DEF Limited

\* However logins and refreshes overlap, a user keeps no more than MaxSessions
\* unrevoked records besides those whose handler has still to enforce the
\* limit: a list that is older than the last one leaves out only what that one
\* has seen or revoked (enforceSessionLimit).
THEOREM SessionsLimited == Spec => []SessionsBounded
<1>1. Inv /\ Limited /\ [Next]_vars => Limited'
  BY LimitedKept
<1>2. Inv /\ Limited => SessionsBounded
  BY LimitedBounds
<1>3. QED
  BY <1>1, <1>2, InitLimited, Invariance, PTL DEF Spec
=============================================================================
