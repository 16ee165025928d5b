------------------------------ MODULE Accounts ------------------------------
(***************************************************************************)
(* The users table of auth.service.ts and the handlers that change a row.   *)
(* Each handler reads the row into an entity, awaits bcrypt or a mailer,    *)
(* and saves the entity.  TypeORM's save writes every column in which the   *)
(* entity differs from the table by then, so it puts back whatever another  *)
(* handler has changed in the meantime (Save, overtaken).  Mails only carry *)
(* a token to the person who asks for it: the token of request r is r.      *)
(* Sessions extends this module with the tokens a login hands out.          *)
(***************************************************************************)
EXTENDS Integers, FiniteSets

CONSTANTS Users, Emails,
          Requests,   \* numbered in the order in which they arrive
          Menus,      \* mixes of operations: ops for each request, hours on the clock
          MaxFails,   \* wrong passwords before the lock (5)
          LockTime,   \* how long the lock lasts (15 minutes)
          TokenTime,  \* life of reset and unlock tokens (1 hour)
          StaleTime,  \* life of an unused verification token (7 days)
          GraceTime,  \* how long an unverified user may look around (24 hours)
          IdleTime,   \* without a login for so long, an account is anonymised (365 days)
          Null

AccountOps == {"register", "login", "update", "askReset", "reset", "askUnlock",
               "unlock", "verify", "askEmail", "email", "retain"}

ASSUME NumbersAssumption ==
  /\ MaxFails \in Nat \ {0} /\ LockTime \in Nat \ {0} /\ TokenTime \in Nat \ {0}
  /\ StaleTime \in Nat \ {0} /\ GraceTime \in Nat /\ IdleTime \in Nat
ASSUME RequestsAssumption == Requests \subseteq Nat /\ IsFiniteSet(Requests)
ASSUME NullAssumption == Null \notin Requests \cup Users \cup Emails

\* The columns of a user; an anonymised one has an address of its own.
Mail == Requests \cup {Null}
Rows == [email : Users \cup Emails, pass : Mail, ver : Nat, failed : Nat, locked : Nat,
         reset : Mail, resetExp : Nat, unlock : Mail, unlockExp : Nat,
         temp : Emails \cup {Null}, change : Mail, verified : BOOLEAN, verify : Mail,
         born : Nat, seen : Nat \cup {Null}, anon : BOOLEAN]
ASSUME RowsAssumption == Null \notin Rows

VARIABLES
  menu,       \* the mix of this behaviour, one of Menus
  now,        \* the clock
  row,        \* users, or Null for a user who has not registered
  req,        \* the handlers: operation, next statement, entity in memory
  overtaken,  \* users whose row was saved from an entity that was out of date
  lockout     \* history: wrong passwords in a row, and how long they lock

accountVars == <<menu, now, row, req, overtaken, lockout>>

Unlocked == [fails |-> 0, till |-> 0]
Fresh == [op |-> "none", pc |-> "new", user |-> Null, copy |-> Null, arg |-> Null]

\* A new row: not verified, token version 1, nothing pending.
NewRow(e, r) ==
  [email |-> e, pass |-> r, ver |-> 1, failed |-> 0, locked |-> 0,
   reset |-> Null, resetExp |-> 0, unlock |-> Null, unlockExp |-> 0,
   temp |-> Null, change |-> Null, verified |-> FALSE, verify |-> r, born |-> now,
   seen |-> Null, anon |-> FALSE]

Registered == {u \in Users : row[u] # Null}
\* Who still has an address to log in with or to ask for mails to.
Reachable == {u \in Registered : row[u].email \in Emails}
Locked(u) == row[u].locked > now
EmailTaken(e) == \E u \in Registered : row[u].email = e

\* The guard in front of every route that is not public: without a verified
\* address reading is allowed for a day, and writing never.
Admitted(u, mutating) ==
  row[u].verified \/ (now <= row[u].born + GraceTime /\ ~mutating)

\* Request r becomes operation op; a handler that is refused ends here.
Start(r, op, pc, u, arg) ==
  /\ req[r].pc = "new"
  /\ \A s \in Requests : s < r => req[s].pc # "new"
  /\ r \in DOMAIN menu.ops /\ op \in menu.ops[r]
  /\ req' = [req EXCEPT ![r] =
       [op |-> op, pc |-> pc, user |-> u, arg |-> arg,
        copy |-> IF u = Null THEN Null ELSE row[u]]]
  /\ UNCHANGED <<menu, now, row, overtaken, lockout>>
Goto(r, pc) == req' = [req EXCEPT ![r].pc = pc]
At(r, op, pc) == req[r].op = op /\ req[r].pc = pc

\* repository.save: the row becomes the entity, whatever it was by now.
Save(r, entity) ==
  LET u == req[r].user
  IN  /\ row' = [row EXCEPT ![u] = entity]
      /\ overtaken' = IF row[u] # req[r].copy THEN overtaken \cup {u} ELSE overtaken
      /\ UNCHANGED <<menu, now>>

(************************** registering and login **************************)
\* register looks for the e-mail address, then hashes the password ...
RegisterCheck(r) ==
  \E u \in Users, e \in Emails :
    /\ row[u] = Null
    /\ \A s \in Requests : req[s].user = u => req[s].pc = "done"
    /\ Start(r, "register", IF EmailTaken(e) THEN "done" ELSE "insert", u, e)
\* ... and inserts user and profile; the unique index refuses a late double.
RegisterInsert(r) ==
  /\ At(r, "register", "insert")
  /\ IF EmailTaken(req[r].arg)
     THEN /\ Goto(r, "done")
          /\ UNCHANGED row
     ELSE /\ row' = [row EXCEPT ![req[r].user] = NewRow(req[r].arg, r)]
          /\ req' = [req EXCEPT ![r].pc = "salt",
                                ![r].copy = NewRow(req[r].arg, r)]
  /\ UNCHANGED <<menu, now, overtaken, lockout>>

\* login reads the row; a locked account is refused before the comparison.
LoginRead(r) ==
  \E u \in Reachable, right \in BOOLEAN :
    Start(r, "login", IF Locked(u) THEN "done" ELSE IF right THEN "pass" ELSE "fail",
          u, Null)

\* Variant: the limit is off by one.
CountedLate(entity) ==
  IF entity.failed + 1 > MaxFails
  THEN [entity EXCEPT !.failed = 0, !.locked = now + LockTime]
  ELSE [entity EXCEPT !.failed = @ + 1]
\* A wrong password is counted in the entity; the last one locks the account.
Counted(entity) ==
  IF entity.failed + 1 >= MaxFails
  THEN [entity EXCEPT !.failed = 0, !.locked = now + LockTime]
  ELSE [entity EXCEPT !.failed = @ + 1]
LoginFail(r) ==
  /\ At(r, "login", "fail")
  /\ LET new == Counted(req[r].copy)
         u == req[r].user
     IN  /\ Save(r, new)
         /\ lockout' = [lockout EXCEPT ![u] =
              IF new.failed = 0 THEN [fails |-> 0, till |-> new.locked]
                                ELSE [fails |-> @.fails + 1, till |-> @.till]]
  /\ Goto(r, "done")
LoginPass(r) ==
  /\ At(r, "login", "pass")
  /\ Save(r, [req[r].copy EXCEPT !.failed = 0, !.locked = 0, !.seen = now])
  /\ lockout' = [lockout EXCEPT ![req[r].user] = Unlocked]
  /\ Goto(r, "salt")

\* users.service update: an address and a password, if they are given, without
\* a new token version, through the same save; the unique index refuses an
\* address that somebody else has.
UpdateRead(r) == \E u \in Registered : Start(r, "update", "save", u, Null)
Taken(r, e) == EmailTaken(e) /\ row[req[r].user].email # e
UpdateRefused(r) ==
  /\ At(r, "update", "save")
  /\ \E e \in Emails : Taken(r, e)
  /\ Goto(r, "done")
  /\ UNCHANGED <<menu, now, row, overtaken, lockout>>
UpdateSave(r) ==
  /\ At(r, "update", "save")
  /\ \E e \in Emails \cup {req[r].copy.email}, pass \in {req[r].copy.pass, r} :
       /\ ~Taken(r, e)
       /\ Save(r, [req[r].copy EXCEPT !.email = e, !.pass = pass])
  /\ Goto(r, "done")
  /\ UNCHANGED lockout

(************************ reset, unlock, verification **********************)
AskResetRead(r) == \E u \in Reachable : Start(r, "askReset", "save", u, Null)
AskResetSave(r) ==
  /\ At(r, "askReset", "save")
  /\ Save(r, [req[r].copy EXCEPT !.reset = r, !.resetExp = now + TokenTime])
  /\ Goto(r, "done")
  /\ UNCHANGED lockout

\* resetPassword finds the row by an unexpired token, refuses a weak password,
\* hashes, saves ...
ResetRead(r) ==
  \E u \in Registered, strong \in BOOLEAN :
    /\ row[u].reset # Null
    /\ row[u].resetExp > now
    /\ Start(r, "reset", IF strong THEN "save" ELSE "done", u, row[u].reset)
ResetSave(r) ==
  /\ At(r, "reset", "save")
  /\ Save(r, [req[r].copy EXCEPT !.pass = r, !.ver = @ + 1, !.reset = Null,
                                 !.resetExp = 0, !.failed = 0, !.locked = 0])
  /\ lockout' = [lockout EXCEPT ![req[r].user] = Unlocked]
  /\ Goto(r, "revoke")    \* ... and revokes the sessions in a later statement

AskUnlockRead(r) ==
  \E u \in Reachable :
    Start(r, "askUnlock", IF Locked(u) THEN "save" ELSE "done", u, Null)
AskUnlockSave(r) ==
  /\ At(r, "askUnlock", "save")
  /\ Save(r, [req[r].copy EXCEPT !.unlock = r, !.unlockExp = now + TokenTime])
  /\ Goto(r, "done")
  /\ UNCHANGED lockout
UnlockRead(r) ==
  \E u \in Registered :
    /\ row[u].unlock # Null
    /\ row[u].unlockExp > now
    /\ Start(r, "unlock", "save", u, row[u].unlock)
UnlockSave(r) ==
  /\ At(r, "unlock", "save")
  /\ Save(r, [req[r].copy EXCEPT !.failed = 0, !.locked = 0,
                                 !.unlock = Null, !.unlockExp = 0])
  /\ lockout' = [lockout EXCEPT ![req[r].user] = Unlocked]
  /\ Goto(r, "done")

VerifyRead(r) ==
  \E u \in Registered :
    /\ row[u].verify # Null
    /\ Start(r, "verify", "save", u, row[u].verify)
VerifySave(r) ==
  /\ At(r, "verify", "save")
  /\ Save(r, [req[r].copy EXCEPT !.verified = TRUE, !.verify = Null])
  /\ Goto(r, "done")
  /\ UNCHANGED lockout

(***************************** change of e-mail ****************************)
\* A known address is refused.
AskEmailRead(r) ==
  \E u \in Registered, e \in Emails :
    /\ Admitted(u, TRUE)
    /\ Start(r, "askEmail", IF EmailTaken(e) THEN "done" ELSE "save", u, e)
AskEmailSave(r) ==
  /\ At(r, "askEmail", "save")
  /\ Save(r, [req[r].copy EXCEPT !.temp = req[r].arg, !.change = r])
  /\ Goto(r, "done")
  /\ UNCHANGED lockout
EmailRead(r) ==
  \E u \in Registered :
    /\ row[u].change # Null
    /\ Start(r, "email", IF row[u].temp = Null THEN "done" ELSE "save", u, row[u].change)
\* One transaction, with the sessions of the user (Sessions).  The unique
\* index refuses an address that somebody registered meanwhile.
EmailRefused(r) == Taken(r, req[r].copy.temp)
EmailSave(r) ==
  /\ At(r, "email", "save")
  /\ IF EmailRefused(r)
     THEN UNCHANGED <<menu, now, row, overtaken>>
     ELSE Save(r, [req[r].copy EXCEPT !.email = req[r].copy.temp, !.temp = Null,
                     !.change = Null, !.verified = TRUE, !.ver = @ + 1])
  /\ Goto(r, "done")
  /\ UNCHANGED lockout

(******************************** retention ********************************)
\* Variant: the age of the account counts.
InactiveByAge(u) == row[u].seen # Null /\ row[u].born + IdleTime < now /\ ~row[u].anon
\* Only a login counts as activity: no refresh does, nor does a registration.
Inactive(u) == row[u].seen # Null /\ row[u].seen + IdleTime < now /\ ~row[u].anon
\* anonymizeInactiveUsers finds the users ...
RetainRead(r) ==
  LET found == [u \in {v \in Registered : Inactive(v)} |-> row[u]]
  IN  Start(r, "retain", IF DOMAIN found = {} THEN "done" ELSE "save", Null, found)
\* anonymizeUser: an address of nobody's; password and sessions stay.
Anonymized(entity, u) == [entity EXCEPT !.email = u, !.anon = TRUE]
\* ... and saves their entities in one transaction, in which the save of one
\* that fails undoes the others'.
RetainSave(r) ==
  LET found == req[r].arg
  IN  /\ At(r, "retain", "save")
      /\ \/ /\ row' = [u \in Users |-> IF u \in DOMAIN found THEN Anonymized(found[u], u)
                                                              ELSE row[u]]
            /\ overtaken' = overtaken \cup {u \in DOMAIN found : row[u] # found[u]}
         \/ UNCHANGED <<row, overtaken>>
      /\ Goto(r, "done")
      /\ UNCHANGED <<menu, now, lockout>>

(***************************** clock and crons *****************************)
Tick == now < menu.hours /\ now' = now + 1
        /\ UNCHANGED <<menu, row, req, overtaken, lockout>>

\* Single UPDATE statements over the table.
ForEachRow(Expired(_), Cleared(_)) ==
  /\ \E u \in Registered : Expired(row[u])
  /\ row' = [u \in Users |->
       IF u \in Registered /\ Expired(row[u]) THEN Cleared(row[u]) ELSE row[u]]
  /\ UNCHANGED <<menu, now, req, overtaken, lockout>>
CleanResetTokens ==
  LET Expired(x) == x.reset # Null /\ x.resetExp < now
      Cleared(x) == [x EXCEPT !.reset = Null, !.resetExp = 0]
  IN  ForEachRow(Expired, Cleared)
CleanVerification ==
  LET Expired(x) == ~x.verified /\ x.verify # Null /\ x.born + StaleTime < now
      Cleared(x) == [x EXCEPT !.verify = Null]
  IN  ForEachRow(Expired, Cleared)
=============================================================================
